-------------------------- MODULE DispatcherProofs --------------------------
(***************************************************************************)
(* Proofs about Dispatcher: its types, that no monitor is left running,    *)
(* that an event passes deduplication a bounded number of times, and that  *)
(* every event received is accounted for, for any number of callers,       *)
(* owners, events and restarts.                                            *)
(***************************************************************************)
EXTENDS Dispatcher, FiniteSetTheorems, TLAPS

CallSteps == {"idle", "received", "screened", "marked"}
Calls == [at : CallSteps, event : Events \cup {None}]
StatFields == {"received", "filtered", "dispatched", "failed", "unhandled"}

---------------------------------------------------------------------------
(* What the actions do to the structures they change *)

LEMMA CallMoves ==
  ASSUME TypeOK, NEW c \in Callers, NEW step \in CallSteps, CallAt(c, step)
  PROVE  /\ call' \in [Callers -> Calls]
         /\ call'[c].at = step /\ call'[c].event = call[c].event
         /\ \A d \in Callers \ {c} : call'[d] = call[d]
<1> DEFINE b == [call[c] EXCEPT !.at = step]
<1>1. call[c] \in Calls
  BY DEF TypeOK, Calls, CallSteps
<1>2. b \in Calls /\ b.at = step /\ b.event = call[c].event
  BY <1>1 DEF Calls
<1>3. call' = [call EXCEPT ![c] = b]
  BY DEF CallAt
<1> HIDE DEF b
<1> QED
  BY <1>2, <1>3 DEF TypeOK, Calls, CallSteps

LEMMA CallEnds ==
  ASSUME TypeOK, NEW c \in Callers, EndCall(c)
  PROVE  /\ call' \in [Callers -> Calls]
         /\ call'[c].at = "idle"
         /\ \A d \in Callers \ {c} : call'[d] = call[d]
<1> DEFINE b == [at |-> "idle", event |-> None]
<1>1. b \in Calls /\ b.at = "idle"
  BY DEF Calls, CallSteps
<1>2. call' = [call EXCEPT ![c] = b]
  BY DEF EndCall
<1> HIDE DEF b
<1> QED
  BY <1>1, <1>2 DEF TypeOK, Calls, CallSteps

LEMMA StatsCount ==
  ASSUME TypeOK, NEW field \in StatFields, Count(field)
  PROVE  /\ stats' \in [StatFields -> Nat]
         /\ stats'[field] = stats[field] + 1
         /\ \A f \in StatFields \ {field} : stats'[f] = stats[f]
BY DEF Count, TypeOK, StatFields

LEMMA QueueGrows ==
  ASSUME NEW q \in Seq(Events), NEW e \in Events
  PROVE  Append(q, e) \in Seq(Events) /\ Len(Append(q, e)) = Len(q) + 1
OBVIOUS

LEMMA QueueShrinks ==
  ASSUME NEW q \in Seq(Events), q # <<>>
  PROVE  /\ Tail(q) \in Seq(Events) /\ Len(Tail(q)) = Len(q) - 1
         /\ Len(q) \in Nat /\ Len(q) > 0
OBVIOUS

LEMMA LoopMoves ==
  ASSUME TypeOK, NEW i \in Loops, NEW step \in LoopSteps, LoopAt(i, step)
  PROVE  /\ loop' \in [Loops -> LoopSteps]
         /\ loop'[i] = step
         /\ \A j \in Loops \ {i} : loop'[j] = loop[j]
BY DEF LoopAt, TypeOK

LEMMA OwnerMoves ==
  ASSUME TypeOK, NEW o \in Owners, NEW step \in OwnerSteps, OwnerAt(o, step)
  PROVE  /\ owner' \in [Owners -> OwnerSteps]
         /\ owner'[o] = step
         /\ \A p \in Owners \ {o} : owner'[p] = owner[p]
BY DEF OwnerAt, TypeOK

---------------------------------------------------------------------------
(* The inductive invariant *)

\* Who has a call under way has an event.
CallsHaveEvents == \A c \in Callers : call[c].at # "idle" => call[c].event \in Events

\* The loops have been started in order.
LoopsInOrder == {i \in Loops : loop[i] # "none"} = 1 .. Started

Screened(e) == {c \in Callers : call[c].at = "screened" /\ call[c].event = e}

\* Nobody gets past the check any more once the key is remembered: those who still
\* may pass are the ones between the check and addRecentEvent.
PassesInv ==
  \A e \in Events : /\ e \notin recent => passes[e] = 0
                    /\ passes[e] + Cardinality(Screened(e)) <= Cardinality(Callers)

\* A Stop that has come to closing the channels has stopped every monitor; for those
\* that run since then somebody else answers.
OrphanInv ==
  /\ monitoring \subseteq registered
  /\ monitoring # {} /\ ~running /\ ~panicked
       => \E o \in Owners : owner[o] \notin {"idle", "closing"}

Inv == TypeOK /\ CallsHaveEvents /\ LoopsInOrder

LEMMA StartedIsANumber ==
  ASSUME TypeOK
  PROVE  Started \in 0 .. MaxStarts
<1>1. IsFiniteSet(Loops) /\ Cardinality(Loops) = MaxStarts
  BY SizesArePositive, FS_Interval DEF Loops
<1>2. {i \in Loops : loop[i] # "none"} \in SUBSET Loops
  OBVIOUS
<1>3. /\ IsFiniteSet({i \in Loops : loop[i] # "none"})
      /\ Cardinality({i \in Loops : loop[i] # "none"}) <= MaxStarts
  BY <1>1, <1>2, FS_Subset
<1>4. Cardinality({i \in Loops : loop[i] # "none"}) \in Nat
  BY <1>3, FS_CardinalityType
<1> QED
  BY <1>3, <1>4, SizesArePositive DEF Started

LEMMA InitInv == Init => Inv
<1> SUFFICES ASSUME Init PROVE Inv
  OBVIOUS
<1>1. stats \in [StatFields -> Nat]
  BY DEF Init, StatFields
<1>2. call \in [Callers -> Calls] /\ \A c \in Callers : call[c].at = "idle"
  BY DEF Init, Calls, CallSteps
<1>3. loop \in [Loops -> LoopSteps] /\ owner \in [Owners -> OwnerSteps]
  BY DEF Init, LoopSteps, OwnerSteps
<1>4. TypeOK
  <2>1. queue \in Seq(Events) /\ Len(queue) <= QueueSize
    BY SizesArePositive DEF Init
  <2>2. handlers \in 0 .. MaxHandlers
    BY BoundsAreNumbers DEF Init
  <2>3. passes \in [Events -> Nat]
    BY DEF Init
  <2> QED
    BY <1>1, <1>2, <1>3, <2>1, <2>2, <2>3
       DEF Init, TypeOK, StatFields, Calls, CallSteps
<1>5. {i \in Loops : loop[i] # "none"} = {}
  BY DEF Init
<1>6. Started = 0
  BY <1>5, FS_EmptySet DEF Started
<1> QED
  BY <1>2, <1>4, <1>5, <1>6 DEF Inv, CallsHaveEvents, LoopsInOrder

\* A step of a loop that has been started, and one that starts the next.
LEMMA LoopsStayInOrder ==
  ASSUME Inv, NEW i \in Loops, NEW step \in LoopSteps \ {"none"}, LoopAt(i, step),
         loop[i] # "none" \/ i = Started + 1
  PROVE  LoopsInOrder'
<1> DEFINE S == {j \in Loops : loop[j] # "none"}
           T == {j \in Loops : loop'[j] # "none"}
<1>1. T = S \cup {i}
  BY LoopMoves DEF Inv
<1>2. Started \in Nat /\ IsFiniteSet(S) /\ S = 1 .. Started /\ Cardinality(S) = Started
  <2>1. Started \in Nat
    BY StartedIsANumber, SizesArePositive DEF Inv
  <2>2. S = 1 .. Started /\ Cardinality(S) = Started
    BY DEF Inv, LoopsInOrder, Started
  <2>3. IsFiniteSet(1 .. Started)
    BY <2>1, FS_Interval
  <2> HIDE DEF S
  <2> QED
    BY <2>1, <2>2, <2>3
<1>3. CASE loop[i] # "none"
  <2>1. T = S
    BY <1>1, <1>3
  <2> QED
    BY <2>1, <1>2 DEF LoopsInOrder, Started
<1>4. CASE i = Started + 1
  <2>1. i \notin S
    BY <1>2, <1>4
  <2>2. Cardinality(T) = Started + 1
    BY <1>1, <1>2, <2>1, FS_AddElement
  <2>3. T = 1 .. (Started + 1)
    BY <1>1, <1>2, <1>4
  <2>4. Started' = Started + 1
    BY <2>2 DEF Started
  <2> QED
    BY <2>3, <2>4 DEF LoopsInOrder
<1> QED
  BY <1>3, <1>4

LEMMA SameLoops ==
  ASSUME LoopsInOrder, UNCHANGED loop
  PROVE  LoopsInOrder'
BY DEF LoopsInOrder, Started

LEMMA NextInv ==
  ASSUME Inv, [Next]_vars
  PROVE  Inv'
<1> USE DEF Inv
<1>1. ASSUME NEW c \in Callers, NEW e \in Events, Receive(c, e) PROVE Inv'
  <2> DEFINE b == [at |-> "received", event |-> e]
  <2>1. b \in Calls /\ b.at = "received" /\ b.event = e
    BY DEF Calls, CallSteps
  <2>2. call' = [call EXCEPT ![c] = b]
    BY <1>1 DEF Receive
  <2> HIDE DEF b
  <2>3. call' \in [Callers -> Calls] /\ CallsHaveEvents'
    BY <2>1, <2>2 DEF TypeOK, Calls, CallSteps, CallsHaveEvents
  <2>4. stats' \in [StatFields -> Nat]
    BY <1>1, StatsCount DEF Receive, StatFields
  <2> QED
    BY <1>1, <2>3, <2>4, SameLoops
       DEF Receive, TypeOK, lifecycle, monitors, StatFields, Calls, CallSteps
<1>2. ASSUME NEW c \in Callers, Screen(c) PROVE Inv'
  <2>1. call' \in [Callers -> Calls] /\ CallsHaveEvents' /\ stats' \in [StatFields -> Nat]
    <3>1. CASE Count("filtered") /\ EndCall(c)
      BY <3>1, CallEnds, StatsCount DEF CallsHaveEvents, StatFields
    <3>2. CASE CallAt(c, "screened") /\ UNCHANGED stats
      BY <1>2, <3>2, CallMoves DEF CallsHaveEvents, CallSteps, TypeOK, Screen, StatFields
    <3> QED
      BY <1>2, <3>1, <3>2 DEF Screen
  <2> QED
    BY <1>2, <2>1, SameLoops
       DEF Screen, TypeOK, lifecycle, monitors, StatFields, Calls, CallSteps
<1>3. ASSUME NEW c \in Callers, addRecentEvent(c) PROVE Inv'
  <2>1. call[c].event \in Events
    BY <1>3 DEF addRecentEvent, CallsHaveEvents
  <2>2. call' \in [Callers -> Calls] /\ CallsHaveEvents'
    BY <1>3, <2>1, CallMoves DEF addRecentEvent, CallsHaveEvents, CallSteps
  <2>3. passes' \in [Events -> Nat] /\ recent' \subseteq Events
    BY <1>3, <2>1 DEF addRecentEvent, TypeOK
  <2> QED
    BY <1>3, <2>2, <2>3, SameLoops
       DEF addRecentEvent, TypeOK, lifecycle, monitors, Calls, CallSteps
<1>4. ASSUME NEW c \in Callers, Send(c) PROVE Inv'
  <2>1. CASE closed
    BY <1>4, <2>1, SameLoops
       DEF Send, TypeOK, lifecycle, monitors, CallsHaveEvents
  <2>2. CASE ~closed
    <3>1. call[c].event \in Events
      BY <1>4 DEF Send, CallsHaveEvents
    <3>2. call' \in [Callers -> Calls] /\ CallsHaveEvents'
      BY <1>4, <2>2, CallEnds DEF Send, CallsHaveEvents
    <3>3. stats' \in [StatFields -> Nat]
      BY <1>4, <2>2, StatsCount DEF Send, TypeOK, StatFields
    <3>4. queue' \in Seq(Events) /\ Len(queue') <= QueueSize
      <4>1. CASE Len(queue) < QueueSize
        <5>1. queue' = Append(queue, call[c].event)
          BY <1>4, <2>2, <4>1 DEF Send
        <5> QED
          BY <3>1, <4>1, <5>1, QueueGrows, SizesArePositive DEF TypeOK
      <4>2. CASE ~(Len(queue) < QueueSize)
        BY <1>4, <2>2, <4>2 DEF Send, TypeOK
      <4> QED
        BY <4>1, <4>2
    <3> QED
      BY <1>4, <2>2, <3>2, <3>3, <3>4, SameLoops
         DEF Send, TypeOK, lifecycle, monitors, StatFields, Calls, CallSteps
  <2> QED
    BY <2>1, <2>2
<1>5. ASSUME NEW c \in Callers, OnError(c) PROVE Inv'
  BY <1>5, SameLoops DEF OnError, TypeOK, calls, lifecycle, monitors, CallsHaveEvents
<1>6. ASSUME NEW i \in Loops, eventLoop(i) PROVE Inv'
  <2>1. PICK step \in {"dispatching", "exited"} : LoopAt(i, step)
    BY <1>6 DEF eventLoop
  <2>2. loop' \in [Loops -> LoopSteps]
    BY <2>1, LoopMoves DEF LoopSteps
  <2>3. LoopsInOrder'
    BY <1>6, <2>1, LoopsStayInOrder DEF eventLoop, LoopSteps
  <2>4. queue' \in Seq(Events) /\ Len(queue') <= QueueSize
    <3>1. (queue' = Tail(queue) /\ queue # <<>>) \/ queue' = queue
      BY <1>6 DEF eventLoop
    <3>2. CASE queue' = Tail(queue) /\ queue # <<>>
      BY <3>2, QueueShrinks, SizesArePositive DEF TypeOK
    <3>3. CASE queue' = queue
      BY <3>3 DEF TypeOK
    <3> QED
      BY <3>1, <3>2, <3>3
  <2> QED
    BY <1>6, <2>2, <2>3, <2>4
       DEF eventLoop, TypeOK, calls, lifecycle, monitors, CallsHaveEvents
<1>7. ASSUME NEW i \in Loops, CopyHandlers(i) PROVE Inv'
  <2>1. PICK step \in {"waiting", "calling"} : LoopAt(i, step)
    BY <1>7 DEF CopyHandlers
  <2>2. loop' \in [Loops -> LoopSteps]
    BY <2>1, LoopMoves DEF LoopSteps
  <2>3. LoopsInOrder'
    BY <1>7, <2>1, LoopsStayInOrder DEF CopyHandlers, LoopSteps
  <2>4. stats' \in [StatFields -> Nat]
    BY <1>7, StatsCount DEF CopyHandlers, TypeOK, StatFields
  <2> QED
    BY <1>7, <2>2, <2>3, <2>4
       DEF CopyHandlers, TypeOK, calls, lifecycle, monitors, CallsHaveEvents, StatFields
<1>8. ASSUME NEW i \in Loops, CallHandlers(i) PROVE Inv'
  <2>1. loop' \in [Loops -> LoopSteps]
    BY <1>8, LoopMoves DEF CallHandlers, LoopSteps
  <2>2. LoopsInOrder'
    BY <1>8, LoopsStayInOrder DEF CallHandlers, LoopSteps
  <2>3. stats' \in [StatFields -> Nat]
    BY <1>8, StatsCount DEF CallHandlers, StatFields
  <2> QED
    BY <1>8, <2>1, <2>2, <2>3
       DEF CallHandlers, TypeOK, calls, lifecycle, monitors, CallsHaveEvents, StatFields
<1>9. ASSUME NEW o \in Owners, Start(o) PROVE Inv'
  <2>1. Started + 1 \in Loops
    BY <1>9, StartedIsANumber, SizesArePositive DEF Start, Loops
  <2>2. loop' \in [Loops -> LoopSteps] /\ LoopsInOrder'
    BY <1>9, <2>1, LoopMoves, LoopsStayInOrder DEF Start, LoopSteps
  <2>3. owner' \in [Owners -> OwnerSteps]
    BY <1>9, OwnerMoves DEF Start, OwnerSteps
  <2> QED
    BY <1>9, <2>2, <2>3
       DEF Start, TypeOK, calls, monitors, CallsHaveEvents
<1>10. ASSUME NEW o \in Owners, StartMonitors(o) PROVE Inv'
  <2>1. /\ owner' \in [Owners -> OwnerSteps] /\ monitoring' \subseteq Monitors
        /\ {running', cancelled'} \subseteq BOOLEAN
    BY <1>10, OwnerMoves DEF StartMonitors, OwnerSteps, TypeOK
  <2> QED
    BY <1>10, <2>1, SameLoops DEF StartMonitors, TypeOK, calls, CallsHaveEvents
<1>11. ASSUME NEW o \in Owners, PublishRunning(o) \/ Stop(o) PROVE Inv'
  <2>1. owner' \in [Owners -> OwnerSteps] /\ {running', cancelled'} \subseteq BOOLEAN
    BY <1>11, OwnerMoves DEF PublishRunning, Stop, OwnerSteps, TypeOK
  <2> QED
    BY <1>11, <2>1, SameLoops
       DEF PublishRunning, Stop, TypeOK, calls, monitors, CallsHaveEvents
<1>12. ASSUME NEW o \in Owners, StopMonitors(o) PROVE Inv'
  <2>1. owner' \in [Owners -> OwnerSteps] /\ monitoring' \subseteq Monitors
    BY <1>12, OwnerMoves DEF StopMonitors, OwnerSteps, TypeOK
  <2> QED
    BY <1>12, <2>1, SameLoops DEF StopMonitors, TypeOK, calls, CallsHaveEvents
<1>13. ASSUME NEW o \in Owners, CloseChannels(o) PROVE Inv'
  <2>1. owner' \in [Owners -> OwnerSteps] /\ {closed', panicked'} \subseteq BOOLEAN
    BY <1>13, OwnerMoves DEF CloseChannels, OwnerSteps, TypeOK
  <2> QED
    BY <1>13, <2>1, SameLoops DEF CloseChannels, TypeOK, calls, monitors, CallsHaveEvents
<1>14. ASSUME NEW m \in Monitors, RegisterMonitor(m) \/ UnregisterMonitor(m) PROVE Inv'
  BY <1>14, SameLoops
     DEF RegisterMonitor, UnregisterMonitor, TypeOK, calls, lifecycle, CallsHaveEvents
<1>15. ASSUME NEW old \in SUBSET recent \ {{}}, cleanupOldEvents(old) PROVE Inv'
  <2>1. passes' \in [Events -> Nat] /\ recent' \subseteq Events
    BY <1>15 DEF cleanupOldEvents, TypeOK
  <2> QED
    BY <1>15, <2>1, SameLoops
       DEF cleanupOldEvents, TypeOK, lifecycle, monitors, CallsHaveEvents
<1>16. ASSUME AddHandler \/ RemoveHandler PROVE Inv'
  <2>1. handlers' \in 0 .. MaxHandlers
    BY <1>16, BoundsAreNumbers DEF AddHandler, RemoveHandler, TypeOK
  <2> QED
    BY <1>16, <2>1, SameLoops
       DEF AddHandler, RemoveHandler, TypeOK, calls, lifecycle, monitors, CallsHaveEvents
<1>17. ASSUME UNCHANGED vars PROVE Inv'
  BY <1>17, SameLoops DEF vars, calls, lifecycle, monitors, TypeOK, CallsHaveEvents
<1> QED
  BY <1>1, <1>2, <1>3, <1>4, <1>5, <1>6, <1>7, <1>8, <1>9, <1>10, <1>11, <1>12, <1>13,
     <1>14, <1>15, <1>16, <1>17
     DEF Next, CallStep, LoopStep, OwnerStep

\* Every variable keeps its type, and the channel its capacity.
THEOREM DispatcherTypeCorrect == Spec => []TypeOK
<1>1. Inv /\ [Next]_vars => Inv'
  BY NextInv
<1>2. Inv => TypeOK
  BY DEF Inv
<1> QED
  BY InitInv, <1>1, <1>2, PTL DEF Spec

---------------------------------------------------------------------------
(* No orphan monitor *)

LEMMA NextOrphan ==
  ASSUME Inv, OrphanInv, [Next]_vars
  PROVE  OrphanInv'
<1> USE DEF OrphanInv
<1>1. ASSUME NEW o \in Owners, Start(o) PROVE OrphanInv'
  <2>1. owner'[o] = "starting"
    BY <1>1, OwnerMoves DEF Start, OwnerSteps, Inv
  <2> QED
    BY <1>1, <2>1 DEF Start, monitors
<1>2. ASSUME NEW o \in Owners, StartMonitors(o) PROVE OrphanInv'
  <2>1. owner'[o] \in {"publishing", "stopping"}
    BY <1>2, OwnerMoves DEF StartMonitors, OwnerSteps, Inv
  <2> QED
    BY <1>2, <2>1 DEF StartMonitors
<1>3. ASSUME NEW o \in Owners, PublishRunning(o) PROVE OrphanInv'
  BY <1>3 DEF PublishRunning, monitors
<1>4. ASSUME NEW o \in Owners, Stop(o) PROVE OrphanInv'
  <2>1. owner'[o] = "stopping"
    BY <1>4, OwnerMoves DEF Stop, OwnerSteps, Inv
  <2> QED
    BY <1>4, <2>1 DEF Stop, monitors
<1>5. ASSUME NEW o \in Owners, StopMonitors(o) PROVE OrphanInv'
  BY <1>5 DEF StopMonitors
<1>6. ASSUME NEW o \in Owners, CloseChannels(o) PROVE OrphanInv'
  <2>1. CASE panicked' = TRUE
    BY <1>6, <2>1 DEF CloseChannels, monitors
  <2>2. CASE panicked' = panicked /\ OwnerAt(o, "idle")
    <3>1. owner[o] = "closing"
      BY <1>6 DEF CloseChannels
    <3>2. \A p \in Owners \ {o} : owner'[p] = owner[p]
      BY <2>2, OwnerMoves DEF OwnerSteps, Inv
    <3> QED
      BY <1>6, <2>2, <3>1, <3>2 DEF CloseChannels, monitors
  <2> QED
    BY <1>6, <2>1, <2>2 DEF CloseChannels
<1>7. ASSUME NEW m \in Monitors, RegisterMonitor(m) \/ UnregisterMonitor(m)
      PROVE OrphanInv'
  BY <1>7 DEF RegisterMonitor, UnregisterMonitor, lifecycle
<1>8. CASE /\ UNCHANGED <<running, owner, registered, monitoring>>
           /\ panicked' = panicked \/ panicked' = TRUE
  BY <1>8
<1>9. ASSUME NEW c \in Callers, CallStep(c) \/ OnError(c) \/ \E e \in Events : Receive(c, e)
      PROVE OrphanInv'
  BY <1>8, <1>9 DEF CallStep, Screen, addRecentEvent, Send, OnError, Receive,
                    lifecycle, monitors
<1>10. ASSUME NEW i \in Loops, LoopStep(i) PROVE OrphanInv'
  BY <1>8, <1>10 DEF LoopStep, eventLoop, CopyHandlers, CallHandlers, lifecycle, monitors
<1>11. CASE \/ \E old \in SUBSET recent \ {{}} : cleanupOldEvents(old)
            \/ AddHandler \/ RemoveHandler
  BY <1>8, <1>11 DEF cleanupOldEvents, AddHandler, RemoveHandler, lifecycle, monitors
<1>12. CASE UNCHANGED vars
  BY <1>8, <1>12 DEF vars, lifecycle, monitors
<1> QED
  BY <1>1, <1>2, <1>3, <1>4, <1>5, <1>6, <1>7, <1>9, <1>10, <1>11, <1>12
     DEF Next, OwnerStep

\* However Start, Stop and the registries interleave, whatever the owners: a monitor
\* that runs is registered, and a dispatcher that does not run has somebody at work
\* on it (Start, Stop, UnregisterMonitor).
THEOREM NoMonitorLeftRunning == Spec => []NoOrphanMonitor
<1>1. Init => OrphanInv
  BY DEF Init, OrphanInv
<1>2. Inv /\ OrphanInv /\ [Next]_vars => OrphanInv'
  BY NextOrphan
<1>3. OrphanInv => NoOrphanMonitor
  BY DEF OrphanInv, NoOrphanMonitor
<1>4. Inv /\ [Next]_vars => Inv'
  BY NextInv
<1> QED
  BY InitInv, <1>1, <1>2, <1>3, <1>4, PTL DEF Spec

---------------------------------------------------------------------------
(* Deduplication *)

LEMMA ScreenedIsFinite ==
  ASSUME NEW S \in SUBSET Callers
  PROVE  IsFiniteSet(S) /\ Cardinality(S) \in Nat /\ Cardinality(S) <= Cardinality(Callers)
BY CallersAreFinite, FS_Subset, FS_CardinalityType

LEMMA ScreenedAreCallers ==
  ASSUME NEW e \in Events
  PROVE  /\ Cardinality(Screened(e)) \in Nat /\ Cardinality(Callers) \in Nat
         /\ Cardinality(Screened(e)) <= Cardinality(Callers)
<1>1. Screened(e) \in SUBSET Callers
  BY DEF Screened
<1> QED
  BY <1>1, ScreenedIsFinite, CallersAreFinite, FS_CardinalityType

LEMMA NextPasses ==
  ASSUME Inv, PassesInv, [Next]_vars
  PROVE  PassesInv'
<1>0. Cardinality(Callers) \in Nat
  BY CallersAreFinite, FS_CardinalityType
<1>1. ASSUME UNCHANGED <<recent, passes>>,
             \A e \in Events : e \in recent => Screened(e)' \subseteq Screened(e)
      PROVE PassesInv'
  <2> SUFFICES ASSUME NEW e \in Events
               PROVE  /\ e \notin recent => passes[e] = 0
                      /\ passes[e] + Cardinality(Screened(e)') <= Cardinality(Callers)
    BY <1>1 DEF PassesInv
  <2>1. e \notin recent => passes[e] = 0
    BY DEF PassesInv
  <2>2. passes[e] \in Nat /\ passes[e] + Cardinality(Screened(e)) <= Cardinality(Callers)
    BY DEF PassesInv, Inv, TypeOK
  <2>3. Screened(e)' \in SUBSET Callers /\ Screened(e) \in SUBSET Callers
    BY DEF Screened
  <2>4. /\ Cardinality(Screened(e)') \in Nat /\ Cardinality(Screened(e)) \in Nat
        /\ Cardinality(Screened(e)') <= Cardinality(Callers)
    BY <2>3, ScreenedIsFinite
  <2>5. CASE e \notin recent
    BY <2>1, <2>4, <2>5, <1>0
  <2>6. CASE e \in recent
    <3>1. Cardinality(Screened(e)') <= Cardinality(Screened(e))
      BY <1>1, <2>3, <2>6, ScreenedIsFinite, FS_Subset
    <3> QED
      BY <2>2, <2>4, <2>6, <3>1, <1>0
  <2> QED
    BY <2>5, <2>6
<1>2. CASE UNCHANGED <<call, recent, passes>>
  BY <1>1, <1>2 DEF Screened
<1>3. ASSUME NEW c \in Callers, NEW e \in Events, Receive(c, e) PROVE PassesInv'
  <2>1. call' = [call EXCEPT ![c] = [at |-> "received", event |-> e]]
    BY <1>3 DEF Receive
  <2>2. call'[c].at = "received" /\ \A d \in Callers \ {c} : call'[d] = call[d]
    BY <2>1 DEF Inv, TypeOK
  <2>3. \A f \in Events : Screened(f)' \subseteq Screened(f)
    BY <2>2 DEF Screened
  <2> QED
    BY <1>1, <1>3, <2>3 DEF Receive
<1>4. ASSUME NEW c \in Callers, Screen(c) PROVE PassesInv'
  <2>1. CASE call[c].event \in recent \cup Unsafe
    <3>1. call'[c].at = "idle" /\ \A d \in Callers \ {c} : call'[d] = call[d]
      BY <1>4, <2>1, CallEnds DEF Screen, Inv
    <3> QED
      BY <1>1, <1>4, <3>1 DEF Screen, Screened
  <2>2. CASE call[c].event \notin recent
    <3>1. \/ CallAt(c, "screened") \/ EndCall(c)
      BY <1>4 DEF Screen
    <3>2. /\ \/ call'[c].at = "screened" /\ call'[c].event \notin recent
             \/ call'[c].at = "idle"
          /\ \A d \in Callers \ {c} : call'[d] = call[d]
      BY <2>2, <3>1, CallMoves, CallEnds DEF CallSteps, Inv
    <3>3. \A e \in Events : e \in recent => Screened(e)' \subseteq Screened(e)
      BY <3>2 DEF Screened
    <3> QED
      BY <1>1, <1>4, <3>3 DEF Screen
  <2> QED
    BY <2>1, <2>2
<1>5. ASSUME NEW c \in Callers, addRecentEvent(c) PROVE PassesInv'
  <2>1. PICK e \in Events : e = call[c].event
    BY <1>5 DEF addRecentEvent, Inv, CallsHaveEvents
  <2>2. /\ call'[c].at = "marked" /\ \A d \in Callers \ {c} : call'[d] = call[d]
    BY <1>5, CallMoves DEF addRecentEvent, CallSteps, Inv
  <2>3. /\ passes'[e] = passes[e] + 1 /\ recent' = recent \cup {e}
        /\ \A f \in Events \ {e} : passes'[f] = passes[f]
    BY <1>5, <2>1 DEF addRecentEvent, Inv, TypeOK
  <2>4. c \in Screened(e) /\ Screened(e)' = Screened(e) \ {c}
    BY <1>5, <2>1, <2>2 DEF addRecentEvent, Screened
  <2>5. \A f \in Events \ {e} : Screened(f)' = Screened(f)
    BY <1>5, <2>1, <2>2 DEF addRecentEvent, Screened
  <2>6. Cardinality(Screened(e)') = Cardinality(Screened(e)) - 1
    BY <2>4, ScreenedIsFinite, FS_RemoveElement DEF Screened
  <2>7. Cardinality(Screened(e)) \in Nat
    BY ScreenedIsFinite DEF Screened
  <2>8. passes[e] \in Nat /\ passes[e] + Cardinality(Screened(e)) <= Cardinality(Callers)
    BY <2>1 DEF PassesInv, Inv, TypeOK
  <2>9. passes'[e] + Cardinality(Screened(e)') <= Cardinality(Callers)
    BY <2>3, <2>6, <2>7, <2>8, <1>0
  <2> QED
    BY <2>1, <2>3, <2>5, <2>9 DEF PassesInv
<1>6. ASSUME NEW c \in Callers, Send(c) PROVE PassesInv'
  <2>1. CASE closed
    BY <1>2, <1>6, <2>1 DEF Send
  <2>2. CASE ~closed
    <3>1. call'[c].at = "idle" /\ \A d \in Callers \ {c} : call'[d] = call[d]
      BY <1>6, <2>2, CallEnds DEF Send, Inv
    <3> QED
      BY <1>1, <1>6, <3>1 DEF Send, Screened
  <2> QED
    BY <2>1, <2>2
<1>7. ASSUME NEW old \in SUBSET recent \ {{}}, cleanupOldEvents(old) PROVE PassesInv'
  <2> SUFFICES ASSUME NEW e \in Events
               PROVE  /\ e \notin recent' => passes'[e] = 0
                      /\ passes'[e] + Cardinality(Screened(e)') <= Cardinality(Callers)
    BY DEF PassesInv
  <2>1. /\ e \notin recent => passes[e] = 0
        /\ passes[e] + Cardinality(Screened(e)) <= Cardinality(Callers)
    BY DEF PassesInv
  <2>2. Screened(e)' = Screened(e) /\ recent' = recent \ old
    BY <1>7 DEF cleanupOldEvents, Screened
  <2>3. passes'[e] = IF e \in old THEN 0 ELSE passes[e]
    BY <1>7 DEF cleanupOldEvents
  <2>4. Cardinality(Screened(e)) \in Nat /\ Cardinality(Screened(e)) <= Cardinality(Callers)
    BY ScreenedIsFinite DEF Screened
  <2> QED
    BY <2>1, <2>2, <2>3, <2>4, <1>0
<1>8. ASSUME NEW c \in Callers, OnError(c) PROVE PassesInv'
  BY <1>2, <1>8 DEF OnError, calls
<1>9. ASSUME NEW i \in Loops, LoopStep(i) PROVE PassesInv'
  BY <1>2, <1>9 DEF LoopStep, eventLoop, CopyHandlers, CallHandlers, calls
<1>10. ASSUME NEW o \in Owners, OwnerStep(o) \/ Start(o) \/ Stop(o) PROVE PassesInv'
  BY <1>2, <1>10 DEF OwnerStep, StartMonitors, PublishRunning, StopMonitors, CloseChannels,
                     Start, Stop, calls
<1>11. CASE \/ \E m \in Monitors : RegisterMonitor(m) \/ UnregisterMonitor(m)
            \/ AddHandler \/ RemoveHandler \/ UNCHANGED vars
  BY <1>2, <1>11 DEF RegisterMonitor, UnregisterMonitor, AddHandler, RemoveHandler, vars, calls
<1> QED
  BY <1>3, <1>4, <1>5, <1>6, <1>7, <1>8, <1>9, <1>10, <1>11 DEF Next, CallStep

\* An event passes deduplication at most once for each goroutine that delivers,
\* however many there are and however often it arrives (isDuplicate, addRecentEvent).
THEOREM DuplicatesAreBounded == Spec => []PassesBounded
<1>1. Init => PassesInv
  <2> SUFFICES ASSUME Init, NEW e \in Events
               PROVE  passes[e] = 0 /\ passes[e] + Cardinality(Screened(e)) <= Cardinality(Callers)
    BY DEF PassesInv
  <2>1. passes[e] = 0
    BY DEF Init
  <2>2. /\ Cardinality(Screened(e)) <= Cardinality(Callers)
        /\ Cardinality(Screened(e)) \in Nat /\ Cardinality(Callers) \in Nat
    BY ScreenedAreCallers
  <2> QED
    BY <2>1, <2>2
<1>2. Inv /\ PassesInv /\ [Next]_vars => PassesInv'
  BY NextPasses
<1>3. Inv /\ PassesInv => PassesBounded
  <2> SUFFICES ASSUME Inv, PassesInv, NEW e \in Events
               PROVE  passes[e] <= Cardinality(Callers)
    BY DEF PassesBounded
  <2>1. passes[e] \in Nat /\ passes[e] + Cardinality(Screened(e)) <= Cardinality(Callers)
    BY DEF PassesInv, Inv, TypeOK
  <2>2. Cardinality(Screened(e)) \in Nat /\ Cardinality(Callers) \in Nat
    BY ScreenedAreCallers
  <2> QED
    BY <2>1, <2>2
<1>4. Inv /\ [Next]_vars => Inv'
  BY NextInv
<1> QED
  BY InitInv, <1>1, <1>2, <1>3, <1>4, PTL DEF Spec

---------------------------------------------------------------------------
(* Accounting *)

LEMMA InHands ==
  ASSUME NEW S \in SUBSET Callers, NEW c \in Callers
  PROVE  /\ Cardinality(S) \in Nat
         /\ c \in S => Cardinality(S \ {c}) = Cardinality(S) - 1
         /\ c \notin S => Cardinality(S \cup {c}) = Cardinality(S) + 1
BY ScreenedIsFinite, FS_AddElement, FS_RemoveElement

LEMMA InLoops ==
  ASSUME NEW S \in SUBSET Loops, NEW i \in Loops
  PROVE  /\ Cardinality(S) \in Nat
         /\ i \in S => Cardinality(S \ {i}) = Cardinality(S) - 1
         /\ i \notin S => Cardinality(S \cup {i}) = Cardinality(S) + 1
<1>1. IsFiniteSet(Loops)
  BY SizesArePositive, FS_Interval DEF Loops
<1>2. IsFiniteSet(S)
  BY <1>1, FS_Subset
<1> QED
  BY <1>2, FS_CardinalityType, FS_AddElement, FS_RemoveElement

\* A caller takes an event in hand, keeps it or gives it away.
LEMMA Hands ==
  ASSUME Inv, NEW c \in Callers, \A d \in Callers \ {c} : call'[d] = call[d]
  PROVE  /\ call[c].at = "idle" /\ call'[c].at # "idle"
              => Cardinality(InFlight') = Cardinality(InFlight) + 1
         /\ call[c].at # "idle" /\ call'[c].at # "idle"
              => Cardinality(InFlight') = Cardinality(InFlight)
         /\ call[c].at # "idle" /\ call'[c].at = "idle"
              => Cardinality(InFlight') = Cardinality(InFlight) - 1
<1>1. InFlight \in SUBSET Callers
  BY DEF InFlight
<1>2. CASE call[c].at = "idle" /\ call'[c].at # "idle"
  <2>1. c \notin InFlight /\ InFlight' = InFlight \cup {c}
    BY <1>2 DEF InFlight
  <2> QED
    BY <1>1, <1>2, <2>1, InHands
<1>3. CASE call[c].at # "idle" /\ call'[c].at # "idle"
  <2>1. InFlight' = InFlight
    BY <1>3 DEF InFlight
  <2> QED
    BY <1>3, <2>1
<1>4. CASE call[c].at # "idle" /\ call'[c].at = "idle"
  <2>1. c \in InFlight /\ InFlight' = InFlight \ {c}
    BY <1>4 DEF InFlight
  <2> QED
    BY <1>1, <1>4, <2>1, InHands
<1> QED
  BY <1>2, <1>3, <1>4

\* So does a loop.
LEMMA Dispatches ==
  ASSUME Inv, NEW i \in Loops, NEW step \in LoopSteps, LoopAt(i, step)
  PROVE  /\ loop[i] \in {"none", "waiting"} /\ step = "dispatching"
              => Cardinality(Dispatching') = Cardinality(Dispatching) + 1
         /\ loop[i] = "dispatching" /\ step = "calling"
              => Cardinality(Dispatching') = Cardinality(Dispatching)
         /\ loop[i] \in {"none", "waiting"} /\ step \in {"waiting", "exited"}
              => Cardinality(Dispatching') = Cardinality(Dispatching)
         /\ loop[i] \in {"dispatching", "calling"} /\ step = "waiting"
              => Cardinality(Dispatching') = Cardinality(Dispatching) - 1
<1>1. Dispatching \in SUBSET Loops
  BY DEF Dispatching
<1>2. loop'[i] = step /\ \A j \in Loops \ {i} : loop'[j] = loop[j]
  BY LoopMoves DEF Inv
<1>3. CASE loop[i] \in {"none", "waiting"} /\ step = "dispatching"
  <2>1. i \notin Dispatching /\ Dispatching' = Dispatching \cup {i}
    BY <1>2, <1>3 DEF Dispatching
  <2> QED
    BY <1>1, <1>3, <2>1, InLoops
<1>4. CASE loop[i] = "dispatching" /\ step = "calling"
  <2>1. Dispatching' = Dispatching
    BY <1>2, <1>4 DEF Dispatching
  <2> QED
    BY <1>4, <2>1
<1>5. CASE loop[i] \in {"none", "waiting"} /\ step \in {"waiting", "exited"}
  <2>1. Dispatching' = Dispatching
    BY <1>2, <1>5 DEF Dispatching
  <2> QED
    BY <1>5, <2>1
<1>6. CASE loop[i] \in {"dispatching", "calling"} /\ step = "waiting"
  <2>1. i \in Dispatching /\ Dispatching' = Dispatching \ {i}
    BY <1>2, <1>6 DEF Dispatching
  <2> QED
    BY <1>1, <1>6, <2>1, InLoops
<1> QED
  BY <1>3, <1>4, <1>5, <1>6

Settled == stats.filtered + stats.dispatched + stats.failed + stats.unhandled

Accounted ==
  stats.received = Settled + Len(queue) + Cardinality(InFlight) + Cardinality(Dispatching)

LEMMA StatsSettle ==
  ASSUME Inv, NEW field \in StatFields, Count(field)
  PROVE  /\ field = "received" => stats'.received = stats.received + 1 /\ Settled' = Settled
         /\ field # "received" => stats'.received = stats.received /\ Settled' = Settled + 1
<1>1. /\ \A f \in StatFields : stats[f] \in Nat
      /\ stats'[field] = stats[field] + 1
      /\ \A f \in StatFields \ {field} : stats'[f] = stats[f]
  BY StatsCount DEF Inv, TypeOK, StatFields
<1> QED
  BY <1>1 DEF StatFields, Settled

LEMMA CountsAreNumbers ==
  ASSUME Inv
  PROVE  /\ stats.received \in Nat /\ Settled \in Nat /\ Len(queue) \in Nat
         /\ Cardinality(InFlight) \in Nat /\ Cardinality(Dispatching) \in Nat
<1>1. InFlight \in SUBSET Callers /\ Dispatching \in SUBSET Loops
  BY DEF InFlight, Dispatching
<1>2. Cardinality(InFlight) \in Nat
  BY <1>1, ScreenedIsFinite
<1>3. Cardinality(Dispatching) \in Nat
  <2>1. 1 \in Loops
    BY SizesArePositive DEF Loops
  <2> QED
    BY <1>1, <2>1, InLoops
<1>4. Settled \in Nat /\ stats.received \in Nat
  BY DEF Inv, TypeOK, Settled
<1> QED
  BY <1>2, <1>3, <1>4 DEF Inv, TypeOK

LEMMA SameStats == UNCHANGED stats => Settled' = Settled /\ stats'.received = stats.received
BY DEF Settled

\* The sets of those who hold an event follow from where they are.
LEMMA SameHolders ==
  /\ UNCHANGED call => Cardinality(InFlight') = Cardinality(InFlight)
  /\ UNCHANGED loop => Cardinality(Dispatching') = Cardinality(Dispatching)
<1>1. UNCHANGED call => InFlight' = InFlight
  BY DEF InFlight
<1>2. UNCHANGED loop => Dispatching' = Dispatching
  BY DEF Dispatching
<1> QED
  BY <1>1, <1>2

LEMMA NextAccounted ==
  ASSUME Inv, Accounted, [Next]_vars
  PROVE  Accounted'
<1>0. /\ stats.received \in Nat /\ Settled \in Nat /\ Len(queue) \in Nat
      /\ Cardinality(InFlight) \in Nat /\ Cardinality(Dispatching) \in Nat
  BY CountsAreNumbers
<1> USE <1>0 DEF Accounted
<1>1. CASE UNCHANGED <<stats, queue, call, loop>>
  BY <1>1, SameHolders, SameStats
<1>2. ASSUME NEW c \in Callers, NEW e \in Events, Receive(c, e) PROVE Accounted'
  <2>1. call' = [call EXCEPT ![c] = [at |-> "received", event |-> e]]
    BY <1>2 DEF Receive
  <2>2. call'[c].at = "received" /\ \A d \in Callers \ {c} : call'[d] = call[d]
    BY <2>1 DEF Inv, TypeOK
  <2>3. Cardinality(InFlight') = Cardinality(InFlight) + 1
    BY <1>2, <2>2, Hands DEF Receive
  <2>4. Cardinality(Dispatching') = Cardinality(Dispatching) /\ queue' = queue
    BY <1>2, SameHolders DEF Receive
  <2>5. stats'.received = stats.received + 1 /\ Settled' = Settled
    BY <1>2, StatsSettle DEF Receive, Inv, StatFields
  <2> QED
    BY <2>3, <2>4, <2>5
<1>3. ASSUME NEW c \in Callers, Screen(c) PROVE Accounted'
  <2>1. /\ Cardinality(Dispatching') = Cardinality(Dispatching) /\ Len(queue') = Len(queue)
        /\ call[c].at # "idle"
    BY <1>3, SameHolders DEF Screen
  <2>2. CASE Count("filtered") /\ EndCall(c)
    <3>1. Cardinality(InFlight') = Cardinality(InFlight) - 1
      BY <2>1, <2>2, CallEnds, Hands DEF Inv
    <3>2. stats'.received = stats.received /\ Settled' = Settled + 1
      BY <2>2, StatsSettle DEF Inv, StatFields
    <3> QED
      BY <2>1, <3>1, <3>2
  <2>3. CASE CallAt(c, "screened") /\ UNCHANGED stats
    <3>1. Cardinality(InFlight') = Cardinality(InFlight)
      BY <2>1, <2>3, CallMoves, Hands DEF Inv, CallSteps
    <3> QED
      BY <2>1, <2>3, <3>1, SameStats
  <2> QED
    BY <1>3, <2>2, <2>3 DEF Screen
<1>4. ASSUME NEW c \in Callers, addRecentEvent(c) PROVE Accounted'
  <2>1. Cardinality(InFlight') = Cardinality(InFlight)
    BY <1>4, CallMoves, Hands DEF addRecentEvent, Inv, CallSteps
  <2>2. /\ Cardinality(Dispatching') = Cardinality(Dispatching) /\ queue' = queue
        /\ stats'.received = stats.received /\ Settled' = Settled
    BY <1>4, SameHolders, SameStats DEF addRecentEvent
  <2> QED
    BY <2>1, <2>2
<1>5. ASSUME NEW c \in Callers, Send(c) PROVE Accounted'
  <2>1. CASE closed
    BY <1>1, <1>5, <2>1 DEF Send
  <2>2. CASE ~closed
    <3>1. Cardinality(InFlight') = Cardinality(InFlight) - 1
      BY <1>5, <2>2, CallEnds, Hands DEF Send, Inv
    <3>2. Cardinality(Dispatching') = Cardinality(Dispatching)
      BY <1>5, SameHolders DEF Send
    <3>3. CASE Len(queue) < QueueSize
      <4>1. call[c].event \in Events
        BY <1>5 DEF Send, Inv, CallsHaveEvents
      <4>2. queue' = Append(queue, call[c].event) /\ stats' = stats
        BY <1>5, <2>2, <3>3 DEF Send
      <4>3. Len(queue') = Len(queue) + 1
        BY <4>1, <4>2, QueueGrows DEF Inv, TypeOK
      <4> QED
        BY <3>1, <3>2, <4>2, <4>3, SameStats
    <3>4. CASE ~(Len(queue) < QueueSize)
      <4>1. Count("failed") /\ queue' = queue
        BY <1>5, <2>2, <3>4 DEF Send
      <4>2. stats'.received = stats.received /\ Settled' = Settled + 1
        BY <4>1, StatsSettle DEF Inv, StatFields
      <4> QED
        BY <3>1, <3>2, <4>1, <4>2
    <3> QED
      BY <3>3, <3>4
  <2> QED
    BY <2>1, <2>2
<1>6. ASSUME NEW i \in Loops, eventLoop(i) PROVE Accounted'
  <2>1. /\ Cardinality(InFlight') = Cardinality(InFlight)
        /\ stats'.received = stats.received /\ Settled' = Settled
    BY <1>6, SameHolders, SameStats DEF eventLoop, calls
  <2>2. CASE queue # <<>>
    <3>1. LoopAt(i, "dispatching") /\ queue' = Tail(queue) /\ loop[i] = "waiting"
      BY <1>6, <2>2 DEF eventLoop
    <3>2. Cardinality(Dispatching') = Cardinality(Dispatching) + 1
      BY <3>1, Dispatches DEF LoopSteps
    <3>3. Len(queue') = Len(queue) - 1
      BY <2>2, <3>1, QueueShrinks DEF Inv, TypeOK
    <3> QED
      BY <2>1, <3>2, <3>3
  <2>3. CASE ~(queue # <<>>)
    <3>1. LoopAt(i, "exited") /\ queue' = queue /\ loop[i] = "waiting"
      BY <1>6, <2>3 DEF eventLoop
    <3>2. Cardinality(Dispatching') = Cardinality(Dispatching)
      BY <3>1, Dispatches DEF LoopSteps
    <3> QED
      BY <2>1, <3>1, <3>2
  <2> QED
    BY <2>2, <2>3
<1>7. ASSUME NEW i \in Loops, CopyHandlers(i) PROVE Accounted'
  <2>1. Cardinality(InFlight') = Cardinality(InFlight) /\ Len(queue') = Len(queue)
    BY <1>7, SameHolders DEF CopyHandlers, calls
  <2>2. CASE Count("unhandled") /\ LoopAt(i, "waiting")
    <3>1. Cardinality(Dispatching') = Cardinality(Dispatching) - 1
      BY <1>7, <2>2, Dispatches DEF CopyHandlers, LoopSteps
    <3>2. stats'.received = stats.received /\ Settled' = Settled + 1
      BY <2>2, StatsSettle DEF Inv, StatFields
    <3> QED
      BY <2>1, <3>1, <3>2
  <2>3. CASE LoopAt(i, "calling") /\ UNCHANGED stats
    <3>1. Cardinality(Dispatching') = Cardinality(Dispatching)
      BY <1>7, <2>3, Dispatches DEF CopyHandlers, LoopSteps
    <3> QED
      BY <2>1, <2>3, <3>1, SameStats
  <2> QED
    BY <1>7, <2>2, <2>3 DEF CopyHandlers
<1>8. ASSUME NEW i \in Loops, CallHandlers(i) PROVE Accounted'
  <2>1. Cardinality(InFlight') = Cardinality(InFlight) /\ Len(queue') = Len(queue)
    BY <1>8, SameHolders DEF CallHandlers, calls
  <2>2. Cardinality(Dispatching') = Cardinality(Dispatching) - 1
    BY <1>8, Dispatches DEF CallHandlers, LoopSteps
  <2>3. CASE Count("dispatched")
    <3>1. stats'.received = stats.received /\ Settled' = Settled + 1
      BY <2>3, StatsSettle DEF Inv, StatFields
    <3> QED
      BY <2>1, <2>2, <3>1
  <2>4. CASE Count("failed")
    <3>1. stats'.received = stats.received /\ Settled' = Settled + 1
      BY <2>4, StatsSettle DEF Inv, StatFields
    <3> QED
      BY <2>1, <2>2, <3>1
  <2> QED
    BY <1>8, <2>3, <2>4 DEF CallHandlers
<1>9. ASSUME NEW o \in Owners, Start(o) PROVE Accounted'
  <2>1. Started + 1 \in Loops /\ Started \in Nat
    BY <1>9, StartedIsANumber, SizesArePositive DEF Start, Loops, Inv
  <2>2. loop[Started + 1] = "none"
    <3>1. Started + 1 \notin 1 .. Started
      BY <2>1
    <3> QED
      BY <2>1, <3>1 DEF Inv, LoopsInOrder
  <2>3. Cardinality(Dispatching') = Cardinality(Dispatching)
    BY <1>9, <2>1, <2>2, Dispatches DEF Start, LoopSteps
  <2>4. /\ Cardinality(InFlight') = Cardinality(InFlight) /\ queue' = queue
        /\ stats'.received = stats.received /\ Settled' = Settled
    BY <1>9, SameHolders, SameStats DEF Start, calls
  <2> QED
    BY <2>3, <2>4
<1>10. ASSUME NEW o \in Owners, OwnerStep(o) \/ Stop(o) PROVE Accounted'
  BY <1>1, <1>10 DEF OwnerStep, StartMonitors, PublishRunning, StopMonitors, CloseChannels,
                     Stop, calls
<1>11. ASSUME NEW c \in Callers, OnError(c) PROVE Accounted'
  BY <1>1, <1>11 DEF OnError, calls
<1>12. CASE \/ \E m \in Monitors : RegisterMonitor(m) \/ UnregisterMonitor(m)
            \/ \E old \in SUBSET recent \ {{}} : cleanupOldEvents(old)
            \/ AddHandler \/ RemoveHandler \/ UNCHANGED vars
  BY <1>1, <1>12 DEF RegisterMonitor, UnregisterMonitor, cleanupOldEvents, AddHandler,
                     RemoveHandler, vars, calls
<1> QED
  BY <1>2, <1>3, <1>4, <1>5, <1>6, <1>7, <1>8, <1>9, <1>10, <1>11, <1>12
     DEF Next, CallStep, LoopStep

\* Every event received is counted, queued or in somebody's hands, however many
\* goroutines deliver and loops dispatch, across restarts (HandleTokenEvent,
\* eventLoop, dispatchToHandlers).
THEOREM NoEventIsLost == Spec => []EventsAccounted
<1>1. Init => Accounted
  <2> SUFFICES ASSUME Init PROVE Accounted
    OBVIOUS
  <2>1. InFlight = {} /\ Dispatching = {} /\ Len(queue) = 0
    BY DEF Init, InFlight, Dispatching
  <2>2. Cardinality(InFlight) = 0 /\ Cardinality(Dispatching) = 0
    BY <2>1, FS_EmptySet
  <2> QED
    BY <2>1, <2>2 DEF Init, Accounted, Settled
<1>2. Inv /\ [Next]_vars => Inv'
  BY NextInv
<1>3. Inv /\ Accounted /\ [Next]_vars => Accounted'
  BY NextAccounted
<1>4. Accounted => EventsAccounted
  BY DEF Accounted, Settled, EventsAccounted
<1> QED
  BY InitInv, <1>1, <1>2, <1>3, <1>4, PTL DEF Spec

=============================================================================
