----------------------------- MODULE ManagerProofs -----------------------------
(***************************************************************************)
(* Proofs about the two halves of the strategy manager: StrategyManager,   *)
(* for every set of positions and threads, and EntryDecision, for every    *)
(* set of callers, tokens, criteria and configurations.                    *)
(*                                                                         *)
(* That a removed position stays forgotten rests on who can still know it: *)
(* no thread is at work on it, and no EvaluateAll has it on its list,      *)
(* because one with a list holds the read lock that RemovePosition waits   *)
(* for.  That exposure is bounded rests on what every caller may still     *)
(* decide of the portfolio it has copied.                                  *)
(***************************************************************************)
EXTENDS StrategyManager, EntryDecision, FiniteSetTheorems, SequenceTheorems, TLAPS

ThreadState == [at : Steps, position : Positions \cup {None}, todo : SUBSET Positions]

\* A thread that lists positions, or has some left, holds the read lock.
ListersRead ==
  \A t \in Threads : thread[t].at \in {"list", "next"} \/ thread[t].todo # {} => t \in readers

\* A call about a position knows which; everyone else may not.
CallsHavePositions ==
  \A t \in Threads : thread[t].at \notin {"idle", "all", "list", "next"}
                       => thread[t].position \in Positions

\* Nobody is about to bring a quietly removed position back.
NobodyKnows ==
  \A p \in Positions : removal[p] = "quiet" =>
    /\ ~Data(p)
    /\ \A t \in Threads : thread[t].position # p /\ p \notin thread[t].todo

IInv == TypeOK /\ CallsHavePositions /\ ListersRead /\ NobodyKnows

---------------------------------------------------------------------------
(* The lock *)

LEMMA IdleType == Idle \in ThreadState
BY DEF Idle, ThreadState, Steps, LockSteps

LEMMA SameType == TypeOK => thread \in [Threads -> ThreadState]
BY DEF TypeOK, ThreadState

\* What an unlock does to the other threads: they keep their positions, and
\* exactly those it lets in hold the read lock.
LEMMA UnlockEffect ==
  ASSUME IInv, NEW t \in Threads, NEW r \in ThreadState, r.todo = {},
         r.at \notin {"all", "list", "next"},
         r.at # "idle" => r.position \in Positions,
         thread[t].at # "all", readers = {}, UnlockTo(t, r)
  PROVE  /\ thread' \in [Threads -> ThreadState]
         /\ readers' \subseteq Threads
         /\ CallsHavePositions'
         /\ ListersRead'
         /\ thread'[t] = r
         /\ \A u \in Threads \ {t} :
              thread'[u].position = thread[u].position /\ thread'[u].todo = {}
<1>1. thread \in [Threads -> ThreadState]
  BY SameType DEF IInv
<1>2. \A u \in Threads : thread[u].todo = {} /\ thread[u].at \notin {"list", "next"}
  BY DEF IInv, ListersRead
<1>3. thread'[t] = r
  BY DEF UnlockTo
<1>4. \A u \in Threads \ {t} : thread[u].at = "all" =>
        thread'[u] = [thread[u] EXCEPT !.at = "list"] /\ u \in readers'
  BY DEF UnlockTo
<1>5. \A u \in Threads \ {t} : thread[u].at # "all" => thread'[u] = thread[u]
  BY DEF UnlockTo
<1>6. \A u \in Threads \ {t} :
        /\ thread'[u] \in ThreadState
        /\ thread'[u].position = thread[u].position
        /\ thread'[u].todo = {}
        /\ thread'[u].at \in {thread[u].at, "list"}
        /\ thread'[u].at = "list" => u \in readers'
        /\ thread'[u].at # "next"
  <2> TAKE u \in Threads \ {t}
  <2>1. thread[u] \in ThreadState
    BY <1>1
  <2>2. CASE thread[u].at = "all"
    <3>1. thread'[u] = [thread[u] EXCEPT !.at = "list"] /\ u \in readers'
      BY <1>4, <2>2
    <3>2. /\ thread'[u] \in ThreadState
          /\ thread'[u].position = thread[u].position
          /\ thread'[u].todo = thread[u].todo
          /\ thread'[u].at = "list"
      BY <2>1, <3>1 DEF ThreadState, Steps
    <3>3. QED
      BY <1>2, <3>1, <3>2
  <2>3. CASE thread[u].at # "all"
    BY <1>2, <1>5, <2>1, <2>3
  <2>4. QED
    BY <2>2, <2>3
<1>7. thread' \in [Threads -> ThreadState]
  <2>1. thread' = [u \in Threads |-> thread'[u]]
    BY DEF UnlockTo
  <2>2. QED
    BY <1>3, <1>6, <2>1
<1>8. readers' \subseteq Threads
  BY DEF UnlockTo
<1>9. CallsHavePositions'
  BY <1>3, <1>6 DEF IInv, CallsHavePositions
<1>10. ListersRead'
  BY <1>3, <1>6 DEF ListersRead
<1>11. QED
  BY <1>3, <1>6, <1>7, <1>8, <1>9, <1>10

\* A thread that goes on by itself, as s: the others are where they were.
LEMMA MoveEffect ==
  ASSUME IInv, NEW t \in Threads, NEW s \in ThreadState,
         thread' = [thread EXCEPT ![t] = s],
         s.at \notin {"idle", "all", "list", "next"} => s.position \in Positions,
         readers' \subseteq Threads, readers \ {t} \subseteq readers',
         s.at \in {"list", "next"} \/ s.todo # {} => t \in readers'
  PROVE  /\ thread' \in [Threads -> ThreadState]
         /\ CallsHavePositions'
         /\ ListersRead'
         /\ thread'[t] = s
         /\ \A u \in Threads \ {t} : thread'[u] = thread[u]
<1>1. thread \in [Threads -> ThreadState]
  BY SameType DEF IInv
<1>2. thread' \in [Threads -> ThreadState] /\ thread'[t] = s
  BY <1>1
<1>3. \A u \in Threads \ {t} : thread'[u] = thread[u]
  BY <1>1
<1>4. CallsHavePositions'
  BY <1>2, <1>3 DEF IInv, CallsHavePositions
<1>5. ListersRead'
  BY <1>2, <1>3 DEF IInv, ListersRead
<1>6. QED
  BY <1>2, <1>3, <1>4, <1>5

---------------------------------------------------------------------------
(* The steps, by who may learn of a position *)

\* A step that gives p to no thread and puts it nowhere keeps it forgotten.
LEMMA StaysForgotten ==
  ASSUME NobodyKnows, NEW p \in Positions, removal'[p] = "quiet", removal[p] = "quiet",
         p \notin active => p \notin active',
         p \notin trailing => p \notin trailing',
         p \notin highs => p \notin highs',
         p \notin tracked => p \notin tracked',
         p \notin stopped => p \notin stopped',
         \A t \in Threads : thread'[t].position # p /\ p \notin thread'[t].todo
  PROVE  /\ ~Data(p)'
         /\ \A t \in Threads : thread'[t].position # p /\ p \notin thread'[t].todo
BY DEF NobodyKnows, Data

LEMMA InitIInv == Init => IInv
<1> SUFFICES ASSUME Init PROVE IInv
  OBVIOUS
<1>1. \A t \in Threads : thread[t] = Idle
  BY DEF Init
<1>2. TypeOK
  BY IdleType DEF Init, TypeOK, ThreadState
<1>3. CallsHavePositions /\ ListersRead /\ NobodyKnows
  BY <1>1 DEF Init, Idle, CallsHavePositions, ListersRead, NobodyKnows
<1>4. QED
  BY <1>2, <1>3 DEF IInv

\* A thread that goes on by itself, with the lock as it was.
LEMMA GotoEffect ==
  ASSUME IInv, NEW t \in Threads, NEW step \in Steps \ {"all", "list", "next"},
         step # "idle" => thread[t].position \in Positions,
         Goto(t, step), readers' = readers
  PROVE  /\ thread' \in [Threads -> ThreadState]
         /\ CallsHavePositions' /\ ListersRead'
         /\ \A u \in Threads : /\ thread'[u].position = thread[u].position
                               /\ thread'[u].todo = thread[u].todo
<1> DEFINE s == [thread[t] EXCEPT !.at = step]
<1>1. thread \in [Threads -> ThreadState]
  BY SameType DEF IInv
<1>2. /\ s \in ThreadState
      /\ s.at = step /\ s.position = thread[t].position /\ s.todo = thread[t].todo
  BY <1>1 DEF ThreadState
<1>3. thread' = [thread EXCEPT ![t] = s]
  BY DEF Goto
<1>4. readers' \subseteq Threads
  BY DEF IInv, TypeOK
<1>5. s.todo # {} => t \in readers'
  BY <1>2 DEF IInv, ListersRead
<1> HIDE DEF s
<1>6. /\ thread' \in [Threads -> ThreadState]
      /\ CallsHavePositions' /\ ListersRead'
      /\ thread'[t] = s /\ \A u \in Threads \ {t} : thread'[u] = thread[u]
  BY <1>2, <1>3, <1>4, <1>5, MoveEffect
<1>7. QED
  BY <1>2, <1>6

\* The thread in a critical section is at work on a position, with no list.
LEMMA WriterState ==
  ASSUME IInv, NEW t \in Threads, NEW step \in LockSteps, CanLock(t, step)
  PROVE  /\ thread[t] \in ThreadState /\ thread[t].position \in Positions
         /\ thread[t].todo = {} /\ thread[t].at = step /\ readers = {}
<1>1. thread \in [Threads -> ThreadState]
  BY SameType DEF IInv
<1>2. thread[t].at = step /\ readers = {}
  BY DEF CanLock
<1>3. thread[t].todo = {} /\ thread[t].position \in Positions
  BY <1>2 DEF IInv, ListersRead, CallsHavePositions, LockSteps
<1>4. QED
  BY <1>1, <1>2, <1>3

\* The writer that returns knows nothing any more.
LEMMA ReturnEffect ==
  ASSUME IInv, NEW t \in Threads, NEW step \in LockSteps, CanLock(t, step),
         UnlockAndReturn(t)
  PROVE  /\ thread' \in [Threads -> ThreadState]
         /\ readers' \subseteq Threads
         /\ CallsHavePositions' /\ ListersRead'
         /\ thread'[t].position = None
         /\ \A u \in Threads \ {t} : thread'[u].position = thread[u].position
         /\ \A u \in Threads : thread'[u].todo = {}
<1>1. UnlockTo(t, Idle)
  BY DEF UnlockAndReturn
<1>2. thread[t].at # "all" /\ readers = {}
  BY WriterState DEF LockSteps
<1>3. Idle.todo = {} /\ Idle.at = "idle" /\ Idle.position = None
  BY DEF Idle
<1> HIDE DEF Idle
<1>4. /\ thread' \in [Threads -> ThreadState]
      /\ readers' \subseteq Threads
      /\ CallsHavePositions' /\ ListersRead'
      /\ thread'[t] = Idle
      /\ \A u \in Threads \ {t} :
           thread'[u].position = thread[u].position /\ thread'[u].todo = {}
  BY <1>1, <1>2, <1>3, IdleType, UnlockEffect
<1>5. QED
  BY <1>3, <1>4

---------------------------------------------------------------------------
(* One lemma per action *)

LEMMA BeginKeeps ==
  ASSUME IInv, NEW t \in Threads, NEW p \in Positions,
         NEW step \in LockSteps, Begin(t, step, p)
  PROVE  IInv'
<1> DEFINE s == [thread[t] EXCEPT !.at = step, !.position = p]
<1>1. thread \in [Threads -> ThreadState] /\ thread[t].at = "idle"
  BY SameType DEF IInv, Begin
<1>2. /\ s \in ThreadState
      /\ s.at = step /\ s.position = p /\ s.todo = thread[t].todo
  BY <1>1 DEF ThreadState, Steps
<1>3. thread' = [thread EXCEPT ![t] = s]
  BY <1>1 DEF Begin, ThreadState
<1>4. readers' = readers /\ readers \subseteq Threads
  BY DEF Begin, IInv, TypeOK
<1>5. s.todo # {} => t \in readers'
  BY <1>2, <1>4 DEF IInv, ListersRead
<1>6. step \notin {"list", "next"}
  BY DEF LockSteps
<1> HIDE DEF s
<1>7. /\ thread' \in [Threads -> ThreadState]
      /\ CallsHavePositions' /\ ListersRead'
      /\ thread'[t] = s /\ \A u \in Threads \ {t} : thread'[u] = thread[u]
  BY <1>2, <1>3, <1>4, <1>5, <1>6, MoveEffect
<1>8. TypeOK'
  BY <1>7 DEF IInv, TypeOK, ThreadState, Begin, strategies
<1>9. NobodyKnows'
  <2> SUFFICES ASSUME NEW q \in Positions, removal'[q] = "quiet"
               PROVE  /\ ~Data(q)'
                      /\ \A u \in Threads : thread'[u].position # q /\ q \notin thread'[u].todo
    BY DEF NobodyKnows
  <2>1. q # p /\ removal[q] = "quiet"
    BY DEF Begin, IInv, TypeOK
  <2>2. \A u \in Threads : thread'[u].position # q /\ q \notin thread'[u].todo
    BY <1>2, <1>7, <2>1 DEF IInv, NobodyKnows
  <2>3. QED
    BY <2>1, <2>2, StaysForgotten DEF IInv, Begin, strategies
<1>10. QED
  BY <1>7, <1>8, <1>9 DEF IInv

LEMMA SnapshotKeeps ==
  ASSUME IInv, NEW t \in Threads, updatePositionSnapshot(t)
  PROVE  IInv'
<1> DEFINE r == [thread[t] EXCEPT !.at = "takeProfit"]
<1>1. CanLock(t, "update") /\ UnlockTo(t, r)
  BY DEF updatePositionSnapshot
<1>2. /\ thread[t] \in ThreadState /\ thread[t].position \in Positions
      /\ thread[t].todo = {} /\ thread[t].at = "update" /\ readers = {}
  BY <1>1, WriterState DEF LockSteps
<1>3. /\ r \in ThreadState
      /\ r.at = "takeProfit" /\ r.position = thread[t].position /\ r.todo = {}
  BY <1>2 DEF ThreadState, Steps
<1> HIDE DEF r
<1>4. /\ thread' \in [Threads -> ThreadState]
      /\ readers' \subseteq Threads
      /\ CallsHavePositions' /\ ListersRead'
      /\ thread'[t] = r
      /\ \A u \in Threads \ {t} :
           thread'[u].position = thread[u].position /\ thread'[u].todo = {}
  BY <1>1, <1>2, <1>3, UnlockEffect
<1>5. TypeOK'
  BY <1>2, <1>4 DEF IInv, TypeOK, ThreadState, updatePositionSnapshot, strategies
<1>6. NobodyKnows'
  <2> SUFFICES ASSUME NEW q \in Positions, removal'[q] = "quiet"
               PROVE  /\ ~Data(q)'
                      /\ \A u \in Threads : thread'[u].position # q /\ q \notin thread'[u].todo
    BY DEF NobodyKnows
  <2>1. removal[q] = "quiet"
    BY DEF updatePositionSnapshot
  <2>2. thread[t].position # q
    BY <2>1 DEF IInv, NobodyKnows
  <2>3. \A u \in Threads : thread'[u].position # q /\ q \notin thread'[u].todo
    BY <1>3, <1>4, <2>1 DEF IInv, NobodyKnows
  <2>4. QED
    BY <2>1, <2>2, <2>3, StaysForgotten DEF IInv, updatePositionSnapshot, strategies
<1>7. QED
  BY <1>4, <1>5, <1>6 DEF IInv

LEMMA TakeProfitKeeps ==
  ASSUME IInv, NEW t \in Threads, TakeProfit(t)
  PROVE  IInv'
<1>1. thread[t].position \in Positions
  BY DEF TakeProfit, IInv, CallsHavePositions
<1>2. /\ thread' \in [Threads -> ThreadState]
      /\ CallsHavePositions' /\ ListersRead'
      /\ \A u \in Threads : /\ thread'[u].position = thread[u].position
                            /\ thread'[u].todo = thread[u].todo
  BY <1>1, GotoEffect DEF TakeProfit, Steps
<1>3. TypeOK'
  BY <1>1, <1>2 DEF IInv, TypeOK, ThreadState, TakeProfit
<1>4. NobodyKnows'
  <2> SUFFICES ASSUME NEW q \in Positions, removal'[q] = "quiet"
               PROVE  /\ ~Data(q)'
                      /\ \A u \in Threads : thread'[u].position # q /\ q \notin thread'[u].todo
    BY DEF NobodyKnows
  <2>1. removal[q] = "quiet"
    BY DEF TakeProfit
  <2>2. \A u \in Threads : thread'[u].position # q /\ q \notin thread'[u].todo
    BY <1>2, <2>1 DEF IInv, NobodyKnows
  <2>3. thread[t].position # q
    BY <2>1 DEF IInv, NobodyKnows
  <2>4. QED
    BY <2>1, <2>2, <2>3, StaysForgotten DEF IInv, TakeProfit
<1>5. QED
  BY <1>2, <1>3, <1>4 DEF IInv

LEMMA StopLossKeeps ==
  ASSUME IInv, NEW t \in Threads, StopLoss(t)
  PROVE  IInv'
<1>1. thread[t].position \in Positions
  BY DEF StopLoss, IInv, CallsHavePositions
<1>2. /\ thread' \in [Threads -> ThreadState]
      /\ CallsHavePositions' /\ ListersRead'
      /\ \A u \in Threads : /\ thread'[u].position = thread[u].position
                            /\ thread'[u].todo = thread[u].todo
  BY <1>1, GotoEffect DEF StopLoss, Steps, LockSteps
<1>3. /\ tracked' \in {tracked, tracked \cup {thread[t].position}}
      /\ stopped' \in {stopped, stopped \cup {thread[t].position}}
  BY DEF StopLoss
<1>4. TypeOK'
  BY <1>1, <1>2, <1>3 DEF IInv, TypeOK, ThreadState, StopLoss
<1>5. NobodyKnows'
  <2> SUFFICES ASSUME NEW q \in Positions, removal'[q] = "quiet"
               PROVE  /\ ~Data(q)'
                      /\ \A u \in Threads : thread'[u].position # q /\ q \notin thread'[u].todo
    BY DEF NobodyKnows
  <2>1. removal[q] = "quiet"
    BY DEF StopLoss
  <2>2. \A u \in Threads : thread'[u].position # q /\ q \notin thread'[u].todo
    BY <1>2, <2>1 DEF IInv, NobodyKnows
  <2>3. thread[t].position # q
    BY <2>1 DEF IInv, NobodyKnows
  <2>4. QED
    BY <1>3, <2>1, <2>2, <2>3, StaysForgotten DEF IInv, StopLoss
<1>6. QED
  BY <1>2, <1>4, <1>5 DEF IInv

\* A writer that returns and leaves what the manager knows, or adds its own
\* position to it.
LEMMA WriterKeepsForgotten ==
  ASSUME IInv, NEW t \in Threads, NEW step \in LockSteps, CanLock(t, step),
         UnlockAndReturn(t), removal' = removal,
         active' \in {active, active \cup {thread[t].position}},
         trailing' \in {trailing, trailing \cup {thread[t].position}},
         UNCHANGED <<highs, tracked, stopped>>
  PROVE  NobodyKnows'
<1> SUFFICES ASSUME NEW q \in Positions, removal'[q] = "quiet"
             PROVE  /\ ~Data(q)'
                    /\ \A u \in Threads : thread'[u].position # q /\ q \notin thread'[u].todo
  BY DEF NobodyKnows
<1>1. removal[q] = "quiet"
  OBVIOUS
<1>2. /\ thread'[t].position = None
      /\ \A u \in Threads \ {t} : thread'[u].position = thread[u].position
      /\ \A u \in Threads : thread'[u].todo = {}
  BY ReturnEffect
<1>3. \A u \in Threads : thread'[u].position # q /\ q \notin thread'[u].todo
  BY <1>1, <1>2, NoneIsNoPosition DEF IInv, NobodyKnows
<1>4. thread[t].position # q
  BY <1>1 DEF IInv, NobodyKnows
<1>5. QED
  BY <1>1, <1>3, <1>4, StaysForgotten DEF IInv

LEMMA RecordKeeps ==
  ASSUME IInv, NEW t \in Threads, recordEvaluation(t)
  PROVE  IInv'
<1>1. CanLock(t, "record") /\ UnlockAndReturn(t) /\ "record" \in LockSteps
  BY DEF recordEvaluation, LockSteps
<1>2. /\ thread' \in [Threads -> ThreadState]
      /\ readers' \subseteq Threads
      /\ CallsHavePositions' /\ ListersRead'
  BY <1>1, ReturnEffect
<1>3. history' \in [Positions -> Nat]
  <2>1. \A p \in Positions : history[p] + 2 \in Nat /\ history[p] + 1 \in Nat
    BY DEF IInv, TypeOK
  <2>2. QED
    BY <2>1 DEF IInv, TypeOK, recordEvaluation
<1>4. TypeOK'
  BY <1>2, <1>3 DEF IInv, TypeOK, ThreadState, recordEvaluation, strategies
<1>5. NobodyKnows'
  BY <1>1, WriterKeepsForgotten DEF recordEvaluation, strategies
<1>6. QED
  BY <1>2, <1>4, <1>5 DEF IInv

LEMMA AddKeeps ==
  ASSUME IInv, NEW t \in Threads, AddPosition(t)
  PROVE  IInv'
<1>1. CanLock(t, "add") /\ UnlockAndReturn(t) /\ "add" \in LockSteps
  BY DEF AddPosition, LockSteps
<1>2. /\ thread' \in [Threads -> ThreadState]
      /\ readers' \subseteq Threads
      /\ CallsHavePositions' /\ ListersRead'
  BY <1>1, ReturnEffect
<1>3. thread[t].position \in Positions
  BY <1>1, WriterState
<1>4. trailing' \in {trailing, trailing \cup {thread[t].position}}
  BY DEF AddPosition
<1>5. TypeOK'
  BY <1>2, <1>3, <1>4 DEF IInv, TypeOK, ThreadState, AddPosition
<1>6. NobodyKnows'
  BY <1>1, <1>4, WriterKeepsForgotten DEF AddPosition
<1>7. QED
  BY <1>2, <1>5, <1>6 DEF IInv

LEMMA UpdateKeeps ==
  ASSUME IInv, NEW t \in Threads, UpdatePosition(t)
  PROVE  IInv'
<1>1. CanLock(t, "modify") /\ UnlockAndReturn(t) /\ "modify" \in LockSteps
  BY DEF UpdatePosition, LockSteps
<1>2. /\ thread' \in [Threads -> ThreadState]
      /\ readers' \subseteq Threads
      /\ CallsHavePositions' /\ ListersRead'
  BY <1>1, ReturnEffect
<1>3. thread[t].position \in Positions
  BY <1>1, WriterState
<1>4. TypeOK'
  BY <1>2, <1>3 DEF IInv, TypeOK, ThreadState, UpdatePosition, strategies
<1>5. NobodyKnows'
  BY <1>1, WriterKeepsForgotten DEF UpdatePosition, strategies
<1>6. QED
  BY <1>2, <1>4, <1>5 DEF IInv

\* The removal is quiet when no other thread is at work on the position; none has
\* it on a list, because nobody holds the read lock.
LEMMA RemoveKeeps ==
  ASSUME IInv, NEW t \in Threads, RemovePosition(t)
  PROVE  IInv'
<1> DEFINE p == thread[t].position
<1>1. CanLock(t, "remove") /\ UnlockAndReturn(t) /\ "remove" \in LockSteps
  BY DEF RemovePosition, LockSteps
<1>2. /\ thread' \in [Threads -> ThreadState]
      /\ readers' \subseteq Threads
      /\ CallsHavePositions' /\ ListersRead'
      /\ thread'[t].position = None
      /\ \A u \in Threads \ {t} : thread'[u].position = thread[u].position
      /\ \A u \in Threads : thread'[u].todo = {}
  BY <1>1, ReturnEffect
<1>3. p \in Positions
  BY <1>1, WriterState
<1>4. removal' = [removal EXCEPT ![p] = HowRemoved(t, p)]
  BY DEF RemovePosition
<1>5. HowRemoved(t, p) \in {"quiet", "overlapped"}
  BY DEF HowRemoved
<1>6. TypeOK'
  BY <1>2, <1>3, <1>4, <1>5 DEF IInv, TypeOK, ThreadState, RemovePosition
<1>7. NobodyKnows'
  <2> SUFFICES ASSUME NEW q \in Positions, removal'[q] = "quiet"
               PROVE  /\ ~Data(q)'
                      /\ \A u \in Threads : thread'[u].position # q /\ q \notin thread'[u].todo
    BY DEF NobodyKnows
  <2>1. CASE q = p
    <3>1. HowRemoved(t, p) = "quiet"
      BY <1>3, <1>4, <2>1 DEF IInv, TypeOK
    <3>2. \A u \in Threads \ {t} : thread[u].position # p
      BY <3>1 DEF HowRemoved
    <3>3. \A u \in Threads : thread'[u].position # q /\ q \notin thread'[u].todo
      BY <1>2, <2>1, <3>2, NoneIsNoPosition
    <3>4. ~Data(q)'
      BY <2>1 DEF Data, RemovePosition
    <3>5. QED
      BY <3>3, <3>4
  <2>2. CASE q # p
    <3>1. removal[q] = "quiet"
      BY <1>4, <2>2 DEF IInv, TypeOK
    <3>2. \A u \in Threads : thread'[u].position # q /\ q \notin thread'[u].todo
      BY <1>2, <3>1, NoneIsNoPosition DEF IInv, NobodyKnows
    <3>3. QED
      BY <3>1, <3>2, StaysForgotten DEF IInv, RemovePosition
  <2>3. QED
    BY <2>1, <2>2
<1>8. QED
  BY <1>2, <1>6, <1>7 DEF IInv

\* A thread whose list can only shrink, or grow by active positions, and whose new
\* position comes from its list, learns of no position that was forgotten.
LEMMA ReaderKeepsForgotten ==
  ASSUME IInv, NEW t \in Threads, NEW s,
         thread'[t] = s, \A u \in Threads \ {t} : thread'[u] = thread[u],
         s.position \in {thread[t].position, None} \cup thread[t].todo,
         s.todo \subseteq thread[t].todo \cup active,
         UNCHANGED <<active, strategies, removal>>
  PROVE  NobodyKnows'
<1> SUFFICES ASSUME NEW q \in Positions, removal'[q] = "quiet"
             PROVE  /\ ~Data(q)'
                    /\ \A u \in Threads : thread'[u].position # q /\ q \notin thread'[u].todo
  BY DEF NobodyKnows
<1>1. removal[q] = "quiet"
  OBVIOUS
<1>2. q \notin active /\ \A u \in Threads : thread[u].position # q /\ q \notin thread[u].todo
  BY <1>1 DEF IInv, NobodyKnows, Data
<1>3. \A u \in Threads : thread'[u].position # q /\ q \notin thread'[u].todo
  BY <1>2, NoneIsNoPosition
<1>4. QED
  BY <1>1, <1>3, StaysForgotten DEF IInv, strategies

\* What is common to the steps of EvaluateAll: the thread goes on as s.
LEMMA ReaderKeeps ==
  ASSUME IInv, NEW t \in Threads, NEW s \in ThreadState,
         thread' = [thread EXCEPT ![t] = s],
         s.at \notin {"idle", "all", "list", "next"} => s.position \in Positions,
         readers' \subseteq Threads, readers \ {t} \subseteq readers',
         s.at \in {"list", "next"} \/ s.todo # {} => t \in readers',
         s.position \in {thread[t].position, None} \cup thread[t].todo,
         s.todo \subseteq thread[t].todo \cup active,
         UNCHANGED <<active, strategies, history, removal>>
  PROVE  IInv'
<1>1. /\ thread' \in [Threads -> ThreadState]
      /\ CallsHavePositions' /\ ListersRead'
      /\ thread'[t] = s /\ \A u \in Threads \ {t} : thread'[u] = thread[u]
  BY MoveEffect
<1>2. TypeOK'
  BY <1>1 DEF IInv, TypeOK, ThreadState, strategies
<1>3. NobodyKnows'
  BY <1>1, ReaderKeepsForgotten
<1>4. QED
  BY <1>1, <1>2, <1>3 DEF IInv

LEMMA EvaluateAllKeeps ==
  ASSUME IInv, NEW t \in Threads, EvaluateAll(t)
  PROVE  IInv'
<1> DEFINE s == [thread[t] EXCEPT !.at = "all"]
<1>1. thread[t] \in ThreadState
  BY SameType DEF IInv
<1>2. /\ s \in ThreadState
      /\ s.at = "all" /\ s.position = thread[t].position /\ s.todo = thread[t].todo
  BY <1>1 DEF ThreadState, Steps
<1>3. thread' = [thread EXCEPT ![t] = s]
  BY DEF EvaluateAll, Goto
<1>4. readers' = readers /\ readers \subseteq Threads
  BY DEF EvaluateAll, IInv, TypeOK
<1>5. s.todo # {} => t \in readers'
  BY <1>2, <1>4 DEF IInv, ListersRead
<1>6. UNCHANGED <<active, strategies, history, removal>>
  BY DEF EvaluateAll
<1> HIDE DEF s
<1>7. QED
  BY <1>2, <1>3, <1>4, <1>5, <1>6, ReaderKeeps

LEMMA ReadLockKeeps ==
  ASSUME IInv, NEW t \in Threads, ReadLock(t)
  PROVE  IInv'
<1> DEFINE s == [thread[t] EXCEPT !.at = "list"]
<1>1. thread[t] \in ThreadState
  BY SameType DEF IInv
<1>2. /\ s \in ThreadState
      /\ s.at = "list" /\ s.position = thread[t].position /\ s.todo = thread[t].todo
  BY <1>1 DEF ThreadState, Steps
<1>3. thread' = [thread EXCEPT ![t] = s]
  BY DEF ReadLock, Goto
<1>4. readers' = readers \cup {t} /\ readers \subseteq Threads
  BY DEF ReadLock, IInv, TypeOK
<1>5. UNCHANGED <<active, strategies, history, removal>>
  BY DEF ReadLock
<1> HIDE DEF s
<1>6. QED
  BY <1>2, <1>3, <1>4, <1>5, ReaderKeeps

LEMMA ListPositionsKeeps ==
  ASSUME IInv, NEW t \in Threads, ListPositions(t)
  PROVE  IInv'
<1> DEFINE s == [thread[t] EXCEPT !.at = "next", !.todo = active]
<1>1. thread[t] \in ThreadState /\ thread \in [Threads -> ThreadState]
  BY SameType DEF IInv
<1>2. active \subseteq Positions /\ readers \subseteq Threads
  BY DEF IInv, TypeOK
<1>3. /\ s \in ThreadState
      /\ s.at = "next" /\ s.position = thread[t].position /\ s.todo = active
  BY <1>1, <1>2 DEF ThreadState, Steps
<1>4. thread' = [thread EXCEPT ![t] = s]
  BY <1>1 DEF ListPositions, ThreadState
<1>5. readers' = readers /\ t \in readers
  BY DEF ListPositions, IInv, ListersRead
<1>6. UNCHANGED <<active, strategies, history, removal>>
  BY DEF ListPositions
<1> HIDE DEF s
<1>7. QED
  BY <1>2, <1>3, <1>4, <1>5, <1>6, ReaderKeeps

LEMMA NextPositionKeeps ==
  ASSUME IInv, NEW t \in Threads, NextPosition(t)
  PROVE  IInv'
<1>1. thread[t] \in ThreadState
  BY SameType DEF IInv
<1>2. readers \subseteq Threads /\ t \in readers
  BY DEF IInv, TypeOK, NextPosition, ListersRead
<1>3. UNCHANGED <<active, strategies, history, removal>>
  BY DEF NextPosition
<1>4. CASE thread[t].todo = {}
  <2> DEFINE s == [thread[t] EXCEPT !.at = "idle"]
  <2>1. /\ s \in ThreadState
        /\ s.at = "idle" /\ s.position = thread[t].position /\ s.todo = {}
    BY <1>1, <1>4 DEF ThreadState, Steps
  <2>2. thread' = [thread EXCEPT ![t] = s] /\ readers' = readers \ {t}
    BY <1>4 DEF NextPosition, Goto
  <2> HIDE DEF s
  <2>3. QED
    BY <1>2, <1>3, <2>1, <2>2, ReaderKeeps
<1>5. CASE thread[t].todo # {}
  <2>1. PICK p \in thread[t].todo : thread' = [thread EXCEPT ![t] =
          [at |-> "update", position |-> p, todo |-> @.todo \ {p}]]
    BY <1>5 DEF NextPosition
  <2>2. readers' = readers
    BY <1>5 DEF NextPosition
  <2> DEFINE s == [at |-> "update", position |-> p, todo |-> thread[t].todo \ {p}]
  <2>3. p \in Positions
    BY <1>1, <2>1 DEF ThreadState
  <2>4. s \in ThreadState /\ s.at = "update" /\ s.position = p /\ s.todo \subseteq thread[t].todo
    BY <1>1, <2>3 DEF ThreadState, Steps, LockSteps
  <2>5. thread' = [thread EXCEPT ![t] = s]
    BY <2>1
  <2> HIDE DEF s
  <2>6. QED
    BY <1>2, <1>3, <2>1, <2>2, <2>3, <2>4, <2>5, ReaderKeeps
<1>6. QED
  BY <1>4, <1>5

---------------------------------------------------------------------------
(* The theorems *)

LEMMA NextIInv == IInv /\ [Next]_vars => IInv'
<1> SUFFICES ASSUME IInv, [Next]_vars PROVE IInv'
  OBVIOUS
<1>1. ASSUME NEW t \in Threads, Step(t) PROVE IInv'
  BY <1>1, SnapshotKeeps, TakeProfitKeeps, StopLossKeeps, RecordKeeps, ReadLockKeeps,
     ListPositionsKeeps, NextPositionKeeps, AddKeeps, UpdateKeeps, RemoveKeeps DEF Step
<1>2. ASSUME NEW t \in Threads, Call(t) PROVE IInv'
  <2>1. CASE EvaluateAll(t)
    BY <2>1, EvaluateAllKeeps
  <2>2. CASE \E p \in Positions :
               EvaluateExit(t, p) \/ \E step \in {"add", "modify", "remove"} : Begin(t, step, p)
    <3>1. PICK p \in Positions, step \in LockSteps : Begin(t, step, p)
      BY <2>2 DEF EvaluateExit, LockSteps
    <3>2. QED
      BY <3>1, BeginKeeps
  <2>3. QED
    BY <1>2, <2>1, <2>2 DEF Call
<1>3. CASE UNCHANGED vars
  <2>1. TypeOK' /\ CallsHavePositions' /\ ListersRead'
    BY <1>3 DEF IInv, vars, strategies, TypeOK, CallsHavePositions, ListersRead
  <2>2. NobodyKnows'
    BY <1>3 DEF IInv, vars, strategies, NobodyKnows, Data
  <2>3. QED
    BY <2>1, <2>2 DEF IInv
<1>4. QED
  BY <1>1, <1>2, <1>3 DEF Next

LEMMA AlwaysIInv == Spec => []IInv
<1>1. QED
  BY InitIInv, NextIInv, PTL DEF Spec

\* Every state of the manager is well typed: no call loses its position, and only
\* threads hold the read lock.
THEOREM ManagerTypeCorrect == Spec => []TypeOK
<1>1. IInv => TypeOK
  BY DEF IInv
<1>2. QED
  BY <1>1, AlwaysIInv, PTL

\* RemovePosition: a position removed while no other call about it is under way is
\* forgotten by the manager and by every strategy until the next call about it.
THEOREM RemovedPositionsAreForgotten == Spec => []RemovedIsForgotten
<1>1. IInv => RemovedIsForgotten
  BY DEF IInv, NobodyKnows, RemovedIsForgotten
<1>2. QED
  BY <1>1, AlwaysIInv, PTL

LEMMA NextFollows ==
  TrailingFollowsPositions /\ [Next]_vars => TrailingFollowsPositions'
<1> SUFFICES ASSUME TrailingFollowsPositions, [Next]_vars PROVE TrailingFollowsPositions'
  OBVIOUS
<1> USE DEF TrailingFollowsPositions
<1>1. ASSUME NEW t \in Threads, AddPosition(t) PROVE TrailingFollowsPositions'
  BY <1>1 DEF AddPosition
<1>2. ASSUME NEW t \in Threads, RemovePosition(t) PROVE TrailingFollowsPositions'
  BY <1>2 DEF RemovePosition
<1>3. ASSUME NEW t \in Threads,
             updatePositionSnapshot(t) \/ UpdatePosition(t)
      PROVE  TrailingFollowsPositions'
  BY <1>3 DEF updatePositionSnapshot, UpdatePosition, strategies
<1>4. ASSUME NEW t \in Threads,
             TakeProfit(t) \/ StopLoss(t) \/ recordEvaluation(t) \/ ReadLock(t)
               \/ ListPositions(t) \/ NextPosition(t) \/ Call(t)
      PROVE  TrailingFollowsPositions'
  BY <1>4 DEF TakeProfit, StopLoss, recordEvaluation, ReadLock, ListPositions,
       NextPosition, Call, EvaluateAll, EvaluateExit, Begin, strategies
<1>5. CASE UNCHANGED vars
  BY <1>5 DEF vars, strategies
<1>6. QED
  BY <1>1, <1>2, <1>3, <1>4, <1>5 DEF Next, Step

\* AddPosition, RemovePosition and the snapshots of EvaluateExit: a trailing stop
\* belongs to an active position at all times.
THEOREM StopsBelongToPositions == Spec => []TrailingFollowsPositions
<1>1. Init => TrailingFollowsPositions
  BY DEF Init, TrailingFollowsPositions
<1>2. QED
  BY <1>1, NextFollows, PTL DEF Spec

---------------------------------------------------------------------------
(* Sums over finite sets *)

Picked(s) == CHOOSE x \in s : TRUE

\* f gives the sum of the values of w over every subset of S, taken one by one.
Follows(f, w, S) ==
  f = [s \in SUBSET S |-> IF s = {} THEN 0 ELSE w[Picked(s)] + f[s \ {Picked(s)}]]

LEMMA PickedIsIn ==
  ASSUME NEW s, s # {}
  PROVE  Picked(s) \in s
BY DEF Picked

LEMMA SumIsRead ==
  ASSUME NEW w, NEW S
  PROVE  SumFunctionOnSet(w, S) = (CHOOSE f : Follows(f, w, S))[S]
BY DEF SumFunctionOnSet, FoldFunctionOnSet, MapThenFoldSet, Follows, Picked

\* Induction over the subsets of a finite set: those that are not as they should be,
\* if there are any, have a least one.
LEMMA LeastSubset ==
  ASSUME NEW S, IsFiniteSet(S), NEW Bad \in SUBSET (SUBSET S), Bad # {}
  PROVE  \E T \in Bad : \A U \in SUBSET T : U # T => U \notin Bad
<1>1. IsWellFoundedOn(StrictSubsetOrdering(S), SUBSET S)
  BY FS_StrictSubsetOrderingWellFounded, FS_FiniteSubsetsOfFinite
<1>2. PICK T \in Bad : \A U \in Bad : ~(<<U, T>> \in StrictSubsetOrdering(S))
  BY <1>1, WFMin
<1>3. ASSUME NEW U \in SUBSET T, U # T, U \in Bad PROVE FALSE
  <2>1. <<U, T>> \in StrictSubsetOrdering(S)
    BY <1>3 DEF StrictSubsetOrdering
  <2> QED
    BY <1>2, <1>3, <2>1
<1> QED
  BY <1>3

LEMMA FollowsSteps ==
  ASSUME NEW f, NEW w, NEW S, Follows(f, w, S)
  PROVE  /\ f[{}] = 0
         /\ \A s \in SUBSET S : s # {} => f[s] = w[Picked(s)] + f[s \ {Picked(s)}]
BY DEF Follows

LEMMA FollowsAgree ==
  ASSUME NEW S, IsFiniteSet(S), NEW f, NEW g, NEW w, NEW A \in SUBSET S, NEW B \in SUBSET S,
         Follows(f, w, A), Follows(g, w, B),
         NEW T \in SUBSET (A \cap B)
  PROVE  f[T] = g[T]
<1> DEFINE Bad == {s \in SUBSET (A \cap B) : f[s] # g[s]}
<1> SUFFICES ASSUME T \in Bad PROVE FALSE
  OBVIOUS
<1>1. Bad \in SUBSET (SUBSET S) /\ Bad # {}
  OBVIOUS
<1>2. PICK s \in Bad : \A u \in SUBSET s : u # s => u \notin Bad
  <2> HIDE DEF Bad
  <2> QED
    BY <1>1, LeastSubset
<1>3. s \in SUBSET A /\ s \in SUBSET B /\ f[s] # g[s]
  OBVIOUS
<1>4. s # {}
  BY <1>3, FollowsSteps
<1>5. f[s \ {Picked(s)}] = g[s \ {Picked(s)}]
  BY <1>2, <1>3, <1>4, PickedIsIn
<1> QED
  BY <1>3, <1>4, <1>5, FollowsSteps

LEMMA SumFollows ==
  ASSUME NEW S, IsFiniteSet(S), NEW w
  PROVE  \E f : Follows(f, w, S)
<1> DEFINE Bad == {T \in SUBSET S : ~ \E f : Follows(f, w, T)}
<1> SUFFICES ASSUME S \in Bad PROVE FALSE
  OBVIOUS
<1>0. Bad \in SUBSET (SUBSET S) /\ Bad # {}
  OBVIOUS
<1>1. PICK T \in Bad : \A U \in SUBSET T : U # T => U \notin Bad
  <2> HIDE DEF Bad
  <2> QED
    BY <1>0, LeastSubset
<1> DEFINE F(U) == CHOOSE f : Follows(f, w, U)
           f == [s \in SUBSET T |-> IF s = {} THEN 0
                                    ELSE w[Picked(s)] + F(s \ {Picked(s)})[s \ {Picked(s)}]]
<1>2. ASSUME NEW U \in SUBSET T, U # T PROVE Follows(F(U), w, U)
  BY <1>1, <1>2
<1> HIDE DEF F
<1>2a. \A s \in SUBSET T :
         s # {} => f[s] = w[Picked(s)] + F(s \ {Picked(s)})[s \ {Picked(s)}]
  OBVIOUS
<1>2b. f[{}] = 0
  OBVIOUS
<1>3. ASSUME NEW s \in SUBSET T, s # {}
      PROVE  f[s \ {Picked(s)}] = F(s \ {Picked(s)})[s \ {Picked(s)}]
  <2> DEFINE u == s \ {Picked(s)}
  <2>1. u \in SUBSET T /\ u # T /\ Picked(s) \in s
    BY <1>3, PickedIsIn
  <2> HIDE DEF u, f
  <2>2. Follows(F(u), w, u)
    BY <1>2, <2>1
  <2>3. CASE u = {}
    BY <1>2b, <2>2, <2>3, FollowsSteps DEF u
  <2>4. CASE u # {}
    <3> DEFINE v == u \ {Picked(u)}
    <3>1. f[u] = w[Picked(u)] + F(v)[v]
      BY <1>2a, <2>1, <2>4
    <3>2. F(u)[u] = w[Picked(u)] + F(u)[v]
      BY <2>2, <2>4, FollowsSteps
    <3>3. v \in SUBSET u /\ v # T /\ v \in SUBSET T
      BY <2>1, <2>4, PickedIsIn
    <3> HIDE DEF v
    <3>4. Follows(F(v), w, v)
      BY <1>2, <3>3
    <3>5. F(v)[v] = F(u)[v]
      BY <2>1, <2>2, <3>3, <3>4, FollowsAgree
    <3> QED
      BY <3>1, <3>2, <3>5 DEF u
  <2> QED
    BY <2>3, <2>4 DEF u
<1>4. f = [s \in SUBSET T |-> IF s = {} THEN 0 ELSE w[Picked(s)] + f[s \ {Picked(s)}]]
  BY <1>3
<1>5. Follows(f, w, T)
  BY <1>4 DEF Follows
<1> QED
  BY <1>5

\* What a sum is: nothing over no elements, and over others one of them and the rest.
LEMMA SumSteps ==
  ASSUME NEW S, IsFiniteSet(S), NEW w
  PROVE  /\ SumFunctionOnSet(w, {}) = 0
         /\ \A T \in SUBSET S : T # {} =>
              SumFunctionOnSet(w, T) = w[Picked(T)] + SumFunctionOnSet(w, T \ {Picked(T)})
<1> DEFINE F(T) == CHOOSE f : Follows(f, w, T)
<1>1. \A T \in SUBSET S : IsFiniteSet(T)
  BY FS_Subset
<1>2. \A T \in SUBSET S : Follows(F(T), w, T)
  BY <1>1, SumFollows
<1>3. \A T : SumFunctionOnSet(w, T) = F(T)[T]
  BY SumIsRead
<1> HIDE DEF F
<1>4. F({})[{}] = 0
  <2>1. Follows(F({}), w, {})
    BY <1>2
  <2> QED
    BY <2>1, FollowsSteps
<1>5. ASSUME NEW T \in SUBSET S, T # {}
      PROVE  F(T)[T] = w[Picked(T)] + F(T \ {Picked(T)})[T \ {Picked(T)}]
  <2> DEFINE U == T \ {Picked(T)}
  <2>1. U \in SUBSET T /\ U \in SUBSET S
    OBVIOUS
  <2>2. F(T)[T] = w[Picked(T)] + F(T)[U]
    BY <1>2, <1>5, FollowsSteps
  <2> HIDE DEF U
  <2>3. F(T)[U] = F(U)[U]
    BY <1>2, <2>1, FollowsAgree
  <2> QED
    BY <2>2, <2>3 DEF U
<1> QED
  BY <1>3, <1>4, <1>5

LEMMA SumIsIn ==
  ASSUME NEW S, IsFiniteSet(S), NEW K \in {Nat, Int}, NEW w, \A x \in S : w[x] \in K,
         NEW T \in SUBSET S
  PROVE  SumFunctionOnSet(w, T) \in K
<1> DEFINE Bad == {U \in SUBSET S : SumFunctionOnSet(w, U) \notin K}
<1> SUFFICES ASSUME T \in Bad PROVE FALSE
  OBVIOUS
<1>1. Bad \in SUBSET (SUBSET S) /\ Bad # {}
  OBVIOUS
<1>2. PICK U \in Bad : \A V \in SUBSET U : V # U => V \notin Bad
  <2> HIDE DEF Bad
  <2> QED
    BY <1>1, LeastSubset
<1>3. U # {} /\ U \in SUBSET S
  <2>1. SumFunctionOnSet(w, {}) = 0 /\ 0 \in K
    BY SumSteps
  <2> QED
    BY <2>1
<1>4. Picked(U) \in U
  BY <1>3, PickedIsIn
<1>5. SumFunctionOnSet(w, U \ {Picked(U)}) \in K
  BY <1>2, <1>3, <1>4
<1>6. SumFunctionOnSet(w, U) = w[Picked(U)] + SumFunctionOnSet(w, U \ {Picked(U)})
  BY <1>3, SumSteps
<1>7. w[Picked(U)] \in K
  BY <1>3, <1>4
<1>8. \A x, y \in K : x + y \in K
  OBVIOUS
<1> QED
  BY <1>5, <1>6, <1>7, <1>8

LEMMA SumType ==
  ASSUME NEW S, IsFiniteSet(S), NEW w, \A x \in S : w[x] \in Int, NEW T \in SUBSET S
  PROVE  SumFunctionOnSet(w, T) \in Int
BY SumIsIn

LEMMA SumIsNatural ==
  ASSUME NEW S, IsFiniteSet(S), NEW w, \A x \in S : w[x] \in Nat, NEW T \in SUBSET S
  PROVE  SumFunctionOnSet(w, T) \in Nat
BY SumIsIn

\* Any element may be taken first.
LEMMA SumTakes ==
  ASSUME NEW S, IsFiniteSet(S), NEW w, \A x \in S : w[x] \in Int,
         NEW T \in SUBSET S, NEW x \in T
  PROVE  SumFunctionOnSet(w, T) = w[x] + SumFunctionOnSet(w, T \ {x})
<1> DEFINE Sum(U) == SumFunctionOnSet(w, U)
           Bad == {U \in SUBSET S : \E y \in U : Sum(U) # w[y] + Sum(U \ {y})}
<1> SUFFICES ASSUME T \in Bad PROVE FALSE
  OBVIOUS
<1>1. Bad \in SUBSET (SUBSET S) /\ Bad # {}
  OBVIOUS
<1>2. PICK U \in Bad : \A V \in SUBSET U : V # U => V \notin Bad
  <2> HIDE DEF Bad
  <2> QED
    BY <1>1, LeastSubset
<1>3. PICK y \in U : Sum(U) # w[y] + Sum(U \ {y})
  OBVIOUS
<1> DEFINE z == Picked(U)
<1>4. z \in U
  BY PickedIsIn
<1>5. Sum(U) = w[z] + Sum(U \ {z})
  BY SumSteps
<1>6. \A V \in SUBSET S : Sum(V) \in Int
  BY SumType
<1> HIDE DEF z, Sum
<1>7. z # y
  BY <1>3, <1>5
<1>8. Sum(U \ {z}) = w[y] + Sum((U \ {z}) \ {y})
  BY <1>2, <1>3, <1>4, <1>7
<1>9. Sum(U \ {y}) = w[z] + Sum((U \ {y}) \ {z})
  BY <1>2, <1>3, <1>4, <1>7
<1>10. (U \ {z}) \ {y} = (U \ {y}) \ {z}
  OBVIOUS
<1>11. PICK rest \in Int : rest = Sum((U \ {y}) \ {z})
  BY <1>6
<1>12. w[y] \in Int /\ w[z] \in Int
  BY <1>3, <1>4
<1>13. Sum(U) = w[z] + (w[y] + rest)
  BY <1>5, <1>8, <1>10, <1>11
<1>14. Sum(U \ {y}) = w[z] + rest
  BY <1>9, <1>11
<1>15. w[z] + (w[y] + rest) = w[y] + (w[z] + rest)
  BY <1>11, <1>12
<1> QED
  BY <1>3, <1>13, <1>14, <1>15

LEMMA SumAdds ==
  ASSUME NEW S, IsFiniteSet(S), NEW w, \A x \in S : w[x] \in Int,
         NEW T \in SUBSET S, NEW x \in S, x \notin T
  PROVE  SumFunctionOnSet(w, T \cup {x}) = SumFunctionOnSet(w, T) + w[x]
<1>1. (T \cup {x}) \ {x} = T
  OBVIOUS
<1>2. SumFunctionOnSet(w, T \cup {x}) = w[x] + SumFunctionOnSet(w, T)
  BY <1>1, SumTakes
<1>3. SumFunctionOnSet(w, T) \in Int /\ w[x] \in Int
  BY SumType
<1> QED
  BY <1>2, <1>3

\* Sums of what is never more are never more, and of the same the same.
LEMMA SumIsMonotone ==
  ASSUME NEW S, IsFiniteSet(S), NEW w, NEW v,
         \A x \in S : w[x] \in Int /\ v[x] \in Int /\ w[x] <= v[x]
  PROVE  SumFunctionOnSet(w, S) <= SumFunctionOnSet(v, S)
<1> DEFINE Bad == {U \in SUBSET S : ~(SumFunctionOnSet(w, U) <= SumFunctionOnSet(v, U))}
<1> SUFFICES ASSUME S \in Bad PROVE FALSE
  OBVIOUS
<1>1. Bad \in SUBSET (SUBSET S) /\ Bad # {}
  OBVIOUS
<1>2. PICK U \in Bad : \A V \in SUBSET U : V # U => V \notin Bad
  <2> HIDE DEF Bad
  <2> QED
    BY <1>1, LeastSubset
<1>3. U # {} /\ U \in SUBSET S
  BY SumSteps
<1> DEFINE z == Picked(U)
<1>4. z \in U
  BY <1>3, PickedIsIn
<1>5. SumFunctionOnSet(w, U \ {z}) <= SumFunctionOnSet(v, U \ {z})
  BY <1>2, <1>3, <1>4
<1>6. /\ SumFunctionOnSet(w, U) = w[z] + SumFunctionOnSet(w, U \ {z})
      /\ SumFunctionOnSet(v, U) = v[z] + SumFunctionOnSet(v, U \ {z})
  BY <1>3, SumSteps
<1>7. SumFunctionOnSet(w, U \ {z}) \in Int /\ SumFunctionOnSet(v, U \ {z}) \in Int
  BY <1>3, SumType
<1>8. ~(SumFunctionOnSet(w, U) <= SumFunctionOnSet(v, U))
  OBVIOUS
<1> HIDE DEF z, Bad
<1>9. w[z] \in Int /\ v[z] \in Int /\ w[z] <= v[z]
  BY <1>3, <1>4
<1> QED
  BY <1>5, <1>6, <1>7, <1>8, <1>9

LEMMA SumIsLocal ==
  ASSUME NEW S, IsFiniteSet(S), NEW w, NEW v, \A x \in S : w[x] \in Int /\ v[x] = w[x]
  PROVE  SumFunctionOnSet(v, S) = SumFunctionOnSet(w, S)
<1>1. SumFunctionOnSet(v, S) <= SumFunctionOnSet(w, S)
  BY SumIsMonotone
<1>2. SumFunctionOnSet(w, S) <= SumFunctionOnSet(v, S)
  BY SumIsMonotone
<1>3. SumFunctionOnSet(w, S) \in Int /\ SumFunctionOnSet(v, S) \in Int
  BY SumType
<1> QED
  BY <1>1, <1>2, <1>3

\* A sum is at most so many times the most its terms can be.
LEMMA SumIsBounded ==
  ASSUME NEW S, IsFiniteSet(S), NEW w, NEW k \in Int, \A x \in S : w[x] \in Int /\ w[x] <= k
  PROVE  SumFunctionOnSet(w, S) <= Cardinality(S) * k
<1> DEFINE Bad == {U \in SUBSET S : ~(SumFunctionOnSet(w, U) <= Cardinality(U) * k)}
<1> SUFFICES ASSUME S \in Bad PROVE FALSE
  OBVIOUS
<1>1. Bad \in SUBSET (SUBSET S) /\ Bad # {}
  OBVIOUS
<1>2. PICK U \in Bad : \A V \in SUBSET U : V # U => V \notin Bad
  <2> HIDE DEF Bad
  <2> QED
    BY <1>1, LeastSubset
<1>3. U # {} /\ U \in SUBSET S
  <2>1. SumFunctionOnSet(w, {}) = 0 /\ Cardinality({}) = 0 /\ 0 * k = 0
    BY SumSteps, FS_EmptySet
  <2>2. ~(SumFunctionOnSet(w, U) <= Cardinality(U) * k)
    OBVIOUS
  <2>3. ASSUME U = {} PROVE FALSE
    <3>1. SumFunctionOnSet(w, U) = 0
      BY <2>1, <2>3
    <3>2. Cardinality(U) * k = 0
      BY <2>1, <2>3
    <3> QED
      BY <2>2, <3>1, <3>2
  <2> QED
    BY <2>3
<1> DEFINE z == Picked(U)
           n == Cardinality(U \ {z})
<1>4. z \in U
  BY <1>3, PickedIsIn
<1>5. SumFunctionOnSet(w, U \ {z}) <= n * k
  BY <1>2, <1>3, <1>4
<1>6. SumFunctionOnSet(w, U) = w[z] + SumFunctionOnSet(w, U \ {z})
  BY <1>3, SumSteps
<1>7. SumFunctionOnSet(w, U \ {z}) \in Int
  BY <1>3, SumType
<1>8. n \in Nat /\ Cardinality(U) = n + 1
  <2>1. IsFiniteSet(U) /\ IsFiniteSet(U \ {z})
    BY <1>3, FS_Subset
  <2> QED
    BY <1>4, <2>1, FS_CardinalityType, FS_RemoveElement
<1>9. ~(SumFunctionOnSet(w, U) <= Cardinality(U) * k)
  OBVIOUS
<1> HIDE DEF z, n, Bad
<1>10. w[z] \in Int /\ w[z] <= k
  BY <1>3, <1>4
<1>11. (n + 1) * k = n * k + k /\ n * k \in Int
  BY <1>8
<1> QED
  BY <1>5, <1>6, <1>7, <1>8, <1>9, <1>10, <1>11

---------------------------------------------------------------------------
(* Criteria and scores *)

LEMMA HoldersAreFinite ==
  ASSUME NEW t \in TokenInfo
  PROVE  TopHolderPercent(t) \in Nat
<1> DEFINE S == {i \in DOMAIN t.holders : i <= TopHolders}
<1>1. t.holders \in Seq(Nat)
  BY DEF TokenInfo
<1>2. DOMAIN t.holders = 1 .. Len(t.holders) /\ Len(t.holders) \in Nat
  BY <1>1
<1>3. IsFiniteSet(DOMAIN t.holders)
  BY <1>2, FS_Interval
<1>4. \A i \in DOMAIN t.holders : t.holders[i] \in Nat
  BY <1>1
<1>5. S \in SUBSET (DOMAIN t.holders)
  OBVIOUS
<1> HIDE DEF S
<1>6. SumFunctionOnSet(t.holders, S) \in Nat
  BY <1>3, <1>4, <1>5, SumIsNatural
<1> QED
  BY <1>6 DEF TopHolderPercent, S

\* A token passes when all eight checks do.
Passes(c, t) ==
  /\ checkBlacklist(c, t) /\ checkWhitelist(c, t) /\ checkMinLiquidity(c, t)
  /\ checkHolderConcentration(c, t) /\ checkMinScore(c, t) /\ checkSocials(c, t)
  /\ checkAge(c, t) /\ checkMarketCap(c, t)

LEMMA MinIsIn ==
  ASSUME NEW n \in Nat, NEW I \in SUBSET (1 .. n), I # {}
  PROVE  Min(I) \in I
<1> DEFINE UpTo(k) == {i \in I : i <= k}
           Bad == {UpTo(k) : k \in I}
<1>0. \A i \in I : i \in Int
  OBVIOUS
<1>1. Bad \in SUBSET (SUBSET (1 .. n)) /\ Bad # {} /\ IsFiniteSet(1 .. n)
  <2>1. \A k \in I : UpTo(k) \in SUBSET (1 .. n)
    OBVIOUS
  <2>2. PICK k \in I : UpTo(k) \in Bad
    OBVIOUS
  <2>3. IsFiniteSet(1 .. n)
    BY FS_Interval
  <2> HIDE DEF UpTo
  <2> QED
    BY <2>1, <2>2, <2>3
<1>2. PICK U \in Bad : \A V \in SUBSET U : V # U => V \notin Bad
  <2> HIDE DEF Bad
  <2> QED
    BY <1>1, LeastSubset
<1>3. PICK k \in I : U = UpTo(k)
  OBVIOUS
<1>4. ASSUME NEW i \in I, i < k PROVE FALSE
  <2>1. UpTo(i) \in SUBSET U /\ k \in U /\ k \notin UpTo(i)
    <3>1. i \in Int /\ k \in Int
      BY <1>0
    <3>2. k <= k /\ ~(k <= i) /\ \A j \in I : j <= i => j <= k
      BY <1>0, <1>4, <3>1
    <3> QED
      BY <1>3, <3>2
  <2>2. UpTo(i) \in Bad
    OBVIOUS
  <2> QED
    BY <1>2, <2>1, <2>2
<1>5. \A i \in I : k <= i
  BY <1>0, <1>4
<1> QED
  BY <1>3, <1>5 DEF Min

LEMMA EvaluatePasses ==
  ASSUME NEW c, NEW t
  PROVE  Evaluate(c, t) = "passed" <=> Passes(c, t)
<1> DEFINE failed == {i \in DOMAIN Reasons : ~Checks(c, t)[i]}
<1>1. Evaluate(c, t) = IF failed = {} THEN "passed" ELSE Reasons[Min(failed)]
  BY DEF Evaluate
<1>2. DOMAIN Reasons = 1 .. 8
  BY DEF Reasons
<1>3. \A i \in 1 .. 8 : Reasons[i] # "passed"
  BY DEF Reasons
<1>4. failed \in SUBSET (1 .. 8) /\ 8 \in Nat
  BY <1>2
<1>5. failed = {} <=> Passes(c, t)
  <2>1. failed = {} <=> \A i \in 1 .. 8 : Checks(c, t)[i]
    BY <1>2
  <2>2. (\A i \in 1 .. 8 : Checks(c, t)[i]) <=> Passes(c, t)
    BY DEF Checks, Passes
  <2> QED
    BY <2>1, <2>2
<1> HIDE DEF failed
<1> QED
  BY <1>1, <1>3, <1>4, <1>5, MinIsIn

LEMMA BetterPasses ==
  ASSUME NEW c \in EntryCriteriaConfig, NEW t \in TokenInfo, NEW u \in TokenInfo,
         Better(t, u), Evaluate(c, u) = "passed"
  PROVE  Evaluate(c, t) = "passed"
<1>1. Passes(c, u)
  BY EvaluatePasses
<1>2. checkBlacklist(c, t) /\ checkWhitelist(c, t)
  BY <1>1 DEF Passes, checkBlacklist, checkWhitelist, Named, Better
<1>3. checkMinLiquidity(c, t)
  <2>1. t.liquidity \in Nat /\ u.liquidity \in Nat /\ c.minLiquidity \in Nat
    BY DEF TokenInfo, EntryCriteriaConfig
  <2>2. t.liquidity >= u.liquidity /\ checkMinLiquidity(c, u)
    BY <1>1 DEF Better, Passes
  <2> QED
    BY <2>1, <2>2 DEF checkMinLiquidity
<1>4. checkHolderConcentration(c, t)
  <2>1. TopHolderPercent(t) \in Int /\ TopHolderPercent(u) \in Int
        /\ c.maxHolderConcentration \in Int
    BY HoldersAreFinite DEF EntryCriteriaConfig
  <2>2. checkHolderConcentration(c, u)
    BY <1>1 DEF Passes
  <2>3. \/ t.holders = <<>>
        \/ u.holders # <<>> /\ TopHolderPercent(t) <= TopHolderPercent(u)
    BY DEF Better
  <2> QED
    BY <2>1, <2>2, <2>3 DEF checkHolderConcentration
<1>5. checkMinScore(c, t)
  <2>1. t.score \in Int /\ u.score \in Int /\ c.minScore \in Int
    BY DEF TokenInfo, EntryCriteriaConfig
  <2>2. t.score >= u.score /\ checkMinScore(c, u)
    BY <1>1 DEF Better, Passes
  <2> QED
    BY <2>1, <2>2 DEF checkMinScore
<1>6. checkSocials(c, t)
  <2>1. u.socials = Unknown \/ (t.socials # Unknown /\ u.socials \subseteq t.socials)
    BY DEF Better
  <2>2. c.requireSocials => u.socials \notin {Unknown, {}}
    BY <1>1 DEF Passes, checkSocials
  <2> QED
    BY <2>1, <2>2 DEF checkSocials
<1>7. checkAge(c, t)
  <2>1. \/ t.launch = Unknown
        \/ t.launch \in Nat /\ u.launch \in Nat /\ t.launch <= u.launch /\ u.launch # Unknown
    BY DEF Better, TokenInfo
  <2>2. c.maxAge \in Nat /\ checkAge(c, u)
    BY <1>1 DEF EntryCriteriaConfig, Passes
  <2> QED
    BY <2>1, <2>2 DEF checkAge
<1>8. checkMarketCap(c, t)
  <2>1. t.marketCap = u.marketCap /\ checkMarketCap(c, u)
    BY <1>1 DEF Better, Passes
  <2> QED
    BY <2>1 DEF checkMarketCap
<1> QED
  BY <1>2, <1>3, <1>4, <1>5, <1>6, <1>7, <1>8, EvaluatePasses DEF Passes

LEMMA BetterIsNoRiskier ==
  ASSUME NEW l \in {NoLimits} \cup PositionLimits, NEW t \in TokenInfo, NEW u \in TokenInfo,
         Better(t, u), NEW amount \in Int
  PROVE  RiskLevel(calculateRiskScore(l, t, amount)) <= RiskLevel(calculateRiskScore(l, u, amount))
<1> DEFINE size == IF l = NoLimits \/ l.maxPerTrade = 0 THEN 0
                   ELSE (amount * 10) \div l.maxPerTrade
           Score(n) == LET score == n + size IN IF score < 0 THEN 0 ELSE AtMost(score, 100)
           less == 50 - t.score \div 2
           more == 50 - u.score \div 2
<1>1. size \in Int
  <2>1. CASE l = NoLimits \/ l.maxPerTrade = 0
    BY <2>1
  <2>2. CASE ~(l = NoLimits \/ l.maxPerTrade = 0)
    <3>1. l.maxPerTrade \in Nat \ {0} /\ amount * 10 \in Int
      BY <2>2 DEF PositionLimits
    <3>2. (amount * 10) \div l.maxPerTrade \in Int
      BY <3>1
    <3> QED
      BY <2>2, <3>2
  <2> QED
    BY <2>1, <2>2
<1>2. less \in Int /\ more \in Int /\ less <= more
  <2>1. t.score \in Int /\ u.score \in Int /\ t.score >= u.score
    BY DEF TokenInfo, Better
  <2> QED
    BY <2>1
<1>3. /\ calculateRiskScore(l, t, amount) = Score(less)
      /\ calculateRiskScore(l, u, amount) = Score(more)
  BY DEF calculateRiskScore
<1> HIDE DEF size, less, more
<1>4. Score(less) \in Int /\ Score(more) \in Int /\ Score(less) <= Score(more)
  BY <1>1, <1>2 DEF AtMost
<1> HIDE DEF Score
<1>5. ASSUME NEW m \in Int, NEW n \in Int, m <= n PROVE RiskLevel(m) <= RiskLevel(n)
  <2> DEFINE level(x) == IF x < 30 THEN 0
                         ELSE IF x < 60 THEN 1 ELSE IF x < 80 THEN 2 ELSE 3
  <2>1. \A x \in Int : RiskLevel(x) = level(x)
    <3> SUFFICES ASSUME NEW x \in Int PROVE RiskLevel(x) = level(x)
      OBVIOUS
    <3>1. CASE x < 30
      BY <3>1 DEF RiskLevel
    <3>2. CASE x \in 30 .. 59
      BY <3>2 DEF RiskLevel
    <3>3. CASE x \in 60 .. 79
      BY <3>3 DEF RiskLevel
    <3>4. CASE x > 79
      BY <3>4 DEF RiskLevel
    <3> QED
      BY <3>1, <3>2, <3>3, <3>4
  <2>2. level(m) <= level(n)
    BY <1>5
  <2> QED
    BY <1>5, <2>1, <2>2
<1> QED
  BY <1>3, <1>4, <1>5

---------------------------------------------------------------------------
(* Sizes *)

LEMMA PortfolioIsFinite ==
  ASSUME NEW p \in Seq(Position)
  PROVE  /\ IsFiniteSet(DOMAIN p) /\ OpenAt(p) \in SUBSET (DOMAIN p)
         /\ DOMAIN Amounts(p) = DOMAIN p
         /\ \A i \in DOMAIN p : Amounts(p)[i] = p[i].amount /\ p[i].amount \in Nat
<1>1. DOMAIN p = 1 .. Len(p) /\ Len(p) \in Nat
  OBVIOUS
<1>2. IsFiniteSet(DOMAIN p)
  BY <1>1, FS_Interval
<1>3. \A i \in DOMAIN p : p[i] \in Position
  BY <1>1, ElementOfSeq
<1> QED
  BY <1>2, <1>3 DEF OpenAt, Amounts, Position

LEMMA PortfolioValues ==
  ASSUME NEW p \in Seq(Position)
  PROVE  OpenValue(p) \in Nat /\ TotalInvested(p) \in Nat /\ getPortfolioValue(p) \in Nat
<1>1. \A S \in SUBSET (DOMAIN p) : SumFunctionOnSet(Amounts(p), S) \in Nat
  BY PortfolioIsFinite, SumIsNatural
<1>2. OpenValue(p) \in Nat
  BY <1>1, PortfolioIsFinite DEF OpenValue
<1>3. TotalInvested(p) \in Nat
  BY <1>1, PortfolioIsFinite DEF TotalInvested, SumFunction
<1> QED
  BY <1>2, <1>3, SizingDefaults DEF getPortfolioValue

LEMMA ExistingIsNatural ==
  ASSUME NEW p \in Seq(Position), NEW address
  PROVE  ExistingPosition(p, address) \in Nat
<1> DEFINE I == {i \in 1 .. Len(p) : p[i].status = "open" /\ p[i].token = address}
           first == IF I # {} THEN Min(I) ELSE 0
<1>1. ExistingPosition(p, address) = IF first = 0 THEN 0 ELSE p[first].amount
  BY DEF ExistingPosition, SelectInSeq
<1>2. I \in SUBSET (1 .. Len(p)) /\ Len(p) \in Nat
  OBVIOUS
<1> HIDE DEF I
<1>3. first # 0 => first \in 1 .. Len(p)
  BY <1>2, MinIsIn
<1> HIDE DEF first
<1>4. first # 0 => p[first].amount \in Nat
  BY <1>3, PortfolioIsFinite
<1> QED
  BY <1>1, <1>4

\* A limit leaves no more than there was, and nothing that exceeds it.
LEMMA WithinIsWithin ==
  ASSUME NEW limit \in Nat, NEW used \in Nat, NEW amount \in Nat
  PROVE  /\ Within(limit, used, amount) \in Nat /\ Within(limit, used, amount) <= amount
         /\ Within(limit, used, amount) > 0 => used + Within(limit, used, amount) <= limit
         /\ used >= limit => Within(limit, used, amount) = 0
BY DEF Within

\* The limits the sizer has, once its defaults are written into them.
GoodLimits == {l \in PositionLimits : 0 \notin {l.maxPerToken, l.maxTotalValue, l.maxPerTrade}}

LEMMA LimitsLeave ==
  ASSUME NEW l \in GoodLimits, NEW p \in Seq(Position), NEW address, NEW amount \in Nat
  PROVE  LET perToken == applyMaxPerToken(l, p, address, applyMaxPerTrade(l, amount))
         IN  /\ perToken \in Nat /\ perToken <= amount /\ perToken <= l.maxPerTrade
             /\ perToken > 0 => ExistingPosition(p, address) + perToken <= l.maxPerToken
<1> DEFINE perTrade == applyMaxPerTrade(l, amount)
           held == ExistingPosition(p, address)
<1>1. l.maxPerTrade \in Nat \ {0} /\ l.maxPerToken \in Nat \ {0}
  BY DEF GoodLimits, PositionLimits
<1>2. perTrade \in Nat /\ perTrade <= amount /\ perTrade <= l.maxPerTrade
  BY <1>1 DEF applyMaxPerTrade, AtMost
<1>3. held \in Nat
  BY ExistingIsNatural
<1> DEFINE left == Within(l.maxPerToken, held, perTrade)
<1>4. applyMaxPerToken(l, p, address, perTrade) = left
  BY <1>1 DEF applyMaxPerToken
<1> HIDE DEF perTrade, held
<1>5. left \in Nat /\ left <= perTrade /\ (left > 0 => held + left <= l.maxPerToken)
  BY <1>1, <1>2, <1>3, WithinIsWithin
<1> HIDE DEF left
<1> QED
  BY <1>1, <1>2, <1>4, <1>5 DEF perTrade, held

\* The most a trade can be under these limits, whatever is open, and with so much open.
Largest(l) ==
  LET trade == AtMost(MaxRiskAmount, l.maxPerTrade)
  IN  IF trade < MinPositionSize THEN MinPositionSize ELSE trade

Headroom(l, used) ==
  IF used >= l.maxTotalValue THEN 0
  ELSE IF l.maxTotalValue - used < MinPositionSize THEN MinPositionSize
       ELSE AtMost(Largest(l), l.maxTotalValue - used)

LEMMA HeadroomIsLimited ==
  ASSUME NEW l \in GoodLimits, NEW used \in Nat
  PROVE  /\ Largest(l) \in Nat \ {0} /\ Headroom(l, used) \in Nat
         /\ Headroom(l, used) <= Largest(l)
         /\ used >= l.maxTotalValue => Headroom(l, used) = 0
         /\ used < l.maxTotalValue
              => used + Headroom(l, used) <= l.maxTotalValue + MinPositionSize - 1
<1>1. l.maxPerTrade \in Nat \ {0} /\ l.maxTotalValue \in Nat \ {0}
  BY DEF GoodLimits, PositionLimits
<1>2. Largest(l) \in Nat \ {0} /\ MinPositionSize <= Largest(l)
  BY <1>1, SizingDefaults DEF Largest, AtMost
<1> QED
  BY <1>1, <1>2, SizingDefaults DEF Headroom, AtMost

LEMMA SizeIsLimited ==
  ASSUME NEW l \in GoodLimits, NEW p \in Seq(Position), NEW address, NEW amount \in Nat
  PROVE  LET s == CalculatePositionSize(l, p, address, amount)
         IN  /\ s \in Nat /\ s <= Headroom(l, OpenValue(p))
             /\ s > MinPositionSize => /\ s <= l.maxPerTrade
                                       /\ ExistingPosition(p, address) + s <= l.maxPerToken
<1> DEFINE perToken == applyMaxPerToken(l, p, address, applyMaxPerTrade(l, amount))
           total == applyMaxTotalValue(l, p, perToken)
           risked == applyPortfolioRisk(l, p, total)
           limited == applyMaxPositionRisk(risked)
           held == ExistingPosition(p, address)
           used == OpenValue(p)
<1>1. /\ perToken \in Nat /\ perToken <= l.maxPerTrade
      /\ perToken > 0 => held + perToken <= l.maxPerToken
  BY LimitsLeave
<1>2. /\ l.maxPerTrade \in Nat \ {0} /\ l.maxTotalValue \in Nat \ {0}
      /\ l.maxPerToken \in Nat \ {0} /\ l.maxPortfolioRisk \in Nat
  BY DEF GoodLimits, PositionLimits
<1>3. held \in Nat /\ used \in Nat /\ TotalInvested(p) \in Nat
  BY ExistingIsNatural, PortfolioValues
<1>4. CalculatePositionSize(l, p, address, amount) = applyMinPositionSize(limited)
  BY DEF CalculatePositionSize
<1> HIDE DEF perToken, held
<1>5. total = Within(l.maxTotalValue, used, perToken)
  BY <1>2 DEF applyMaxTotalValue
<1> HIDE DEF total, used
<1>6. /\ total \in Nat /\ total <= perToken /\ (total > 0 => used + total <= l.maxTotalValue)
      /\ used >= l.maxTotalValue => total = 0
  BY <1>1, <1>2, <1>3, <1>5, WithinIsWithin
<1>7. risked \in Nat /\ risked <= total
  <2>1. (TotalInvested(p) * l.maxPortfolioRisk) \div 100 \in Nat
    <3>1. TotalInvested(p) * l.maxPortfolioRisk \in Nat
      BY <1>2, <1>3
    <3> QED
      BY <3>1
  <2> QED
    BY <1>6, <2>1 DEF applyPortfolioRisk, AtMost
<1> HIDE DEF risked
<1>8. limited \in Nat /\ limited <= risked /\ limited <= MaxRiskAmount
  BY <1>7, SizingDefaults DEF applyMaxPositionRisk, AtMost
<1> HIDE DEF limited
<1> DEFINE s == applyMinPositionSize(limited)
<1>9. /\ s \in Nat
      /\ s = limited \/ (s = MinPositionSize /\ 0 < limited /\ limited < MinPositionSize)
  BY <1>8, SizingDefaults DEF applyMinPositionSize
<1> HIDE DEF s
<1>10. limited <= perToken /\ limited <= total
  BY <1>1, <1>6, <1>7, <1>8
<1>11. s > MinPositionSize => s <= l.maxPerTrade /\ held + s <= l.maxPerToken
  BY <1>1, <1>2, <1>3, <1>8, <1>9, <1>10, SizingDefaults
<1>12. s <= Headroom(l, used)
  <2>1. CASE used >= l.maxTotalValue
    BY <1>6, <1>8, <1>9, <1>10, <2>1 DEF Headroom
  <2>2. CASE used < l.maxTotalValue
    <3>1. limited <= AtMost(MaxRiskAmount, l.maxPerTrade)
      BY <1>1, <1>2, <1>8, <1>10, SizingDefaults DEF AtMost
    <3>2. s <= Largest(l) /\ Largest(l) \in Nat /\ MinPositionSize <= Largest(l)
      BY <1>2, <1>8, <1>9, <3>1, SizingDefaults DEF Largest, AtMost
    <3>3. limited = 0 \/ limited <= l.maxTotalValue - used
      BY <1>2, <1>3, <1>6, <1>8, <1>10
    <3> QED
      BY <1>2, <1>3, <1>8, <1>9, <2>2, <3>2, <3>3, SizingDefaults DEF Headroom, AtMost
  <2> QED
    BY <1>2, <1>3, <2>1, <2>2
<1> QED
  BY <1>4, <1>9, <1>11, <1>12 DEF s, held, used

\* Kelly's fraction at the three rates of the property.
LEMMA OptimalIsLimited ==
  ASSUME NEW l \in GoodLimits, NEW p \in Seq(Position), NEW address, NEW rate \in {20, 60, 100},
         CalculateOptimalSize(l, p, address, rate, 3, 2) > MinPositionSize
  PROVE  /\ CalculateOptimalSize(l, p, address, rate, 3, 2) \in Nat
         /\ CalculateOptimalSize(l, p, address, rate, 3, 2) <= l.maxPerTrade
         /\ ExistingPosition(p, address) + CalculateOptimalSize(l, p, address, rate, 3, 2)
              <= l.maxPerToken
<1> DEFINE optimal == CalculateOptimalSize(l, p, address, rate, 3, 2)
           held == ExistingPosition(p, address)
           Limited(size) == applyMaxPerToken(l, p, address, applyMaxPerTrade(l, size))
<1>1. /\ l.maxPerTrade \in Nat \ {0} /\ l.maxPerToken \in Nat \ {0} /\ held \in Nat
      /\ MinPositionSize \in Nat \ {0}
  BY ExistingIsNatural, SizingDefaults DEF GoodLimits, PositionLimits
<1>2. ASSUME NEW size \in Nat, optimal = applyMinPositionSize(Limited(size))
      PROVE  /\ optimal \in Nat /\ optimal <= l.maxPerTrade
             /\ held + optimal <= l.maxPerToken
  <2>1. /\ Limited(size) \in Nat /\ Limited(size) <= l.maxPerTrade
        /\ Limited(size) > 0 => held + Limited(size) <= l.maxPerToken
    BY LimitsLeave
  <2>2. optimal > MinPositionSize
    OBVIOUS
  <2> HIDE DEF optimal, Limited, held
  <2> QED
    BY <1>1, <1>2, <2>1, <2>2 DEF applyMinPositionSize
<1>3. CASE rate = 20
  <2>1. optimal = 0
    BY <1>3 DEF CalculateOptimalSize
  <2>2. optimal > MinPositionSize
    OBVIOUS
  <2> QED
    BY <1>1, <2>1, <2>2
<1>4. CASE rate \in {60, 100}
  <2>1. KellyPercent(rate, 3, 2) \in Nat
    BY <1>4 DEF KellyPercent, AtMost
  <2> DEFINE size == (getPortfolioValue(p) * KellyPercent(rate, 3, 2)) \div 100
  <2>2. size \in Nat
    <3>1. getPortfolioValue(p) * KellyPercent(rate, 3, 2) \in Nat
      BY <2>1, PortfolioValues
    <3> QED
      BY <3>1
  <2>3. optimal = applyMinPositionSize(Limited(size))
    BY <1>4 DEF CalculateOptimalSize
  <2> HIDE DEF size, optimal, Limited, held
  <2> QED
    BY <1>2, <2>2, <2>3 DEF optimal, held
<1> QED
  BY <1>3, <1>4

LEMMA PyramidIsLimited ==
  ASSUME NEW l \in GoodLimits, NEW p \in Seq(Position), NEW address, NEW amount \in Nat,
         CalculatePyramidSize(l, p, address, amount, 10) > 0
  PROVE  /\ ExistingPosition(p, address) + CalculatePyramidSize(l, p, address, amount, 10)
              <= l.maxPerToken
         /\ OpenValue(p) + CalculatePyramidSize(l, p, address, amount, 10) <= l.maxTotalValue
<1> DEFINE more == CalculatePyramidSize(l, p, address, amount, 10)
           half == amount \div 2
           perToken == applyMaxPerToken(l, p, address, half)
           held == ExistingPosition(p, address)
           used == OpenValue(p)
<1>1. /\ l.maxPerToken \in Nat \ {0} /\ l.maxTotalValue \in Nat \ {0}
      /\ held \in Nat /\ used \in Nat
  BY ExistingIsNatural, PortfolioValues DEF GoodLimits, PositionLimits
<1>2. half \in Nat
  OBVIOUS
<1>3. more = applyMaxTotalValue(l, p, perToken)
  BY DEF CalculatePyramidSize
<1>4. perToken = Within(l.maxPerToken, held, half)
  BY <1>1 DEF applyMaxPerToken
<1>5. more = Within(l.maxTotalValue, used, perToken)
  BY <1>1, <1>3 DEF applyMaxTotalValue
<1>6. more > 0
  OBVIOUS
<1> HIDE DEF more, half, perToken, held, used
<1>7. perToken \in Nat /\ (perToken > 0 => held + perToken <= l.maxPerToken)
  BY <1>1, <1>2, <1>4, WithinIsWithin
<1>8. more \in Nat /\ more <= perToken /\ used + more <= l.maxTotalValue
  BY <1>1, <1>5, <1>6, <1>7, WithinIsWithin
<1>9. held + more <= l.maxPerToken
  BY <1>1, <1>6, <1>7, <1>8
<1> QED
  BY <1>8, <1>9 DEF more, held, used

\* SizesValidate for any limits and any portfolio: it needs no more of them than types.
LEMMA SizesAreValid ==
  ASSUME sizer \in GoodLimits, portfolio \in Seq(Position)
  PROVE  SizesValidate
<1> SUFFICES ASSUME NEW address, NEW amount \in Requests
             PROVE  /\ \A s \in {CalculatePositionSize(sizer, portfolio, address, amount)}
                               \cup {CalculateOptimalSize(sizer, portfolio, address, rate, 3, 2) :
                                       rate \in {20, 60, 100}} :
                         s > MinPositionSize
                           => ValidatePositionSize(sizer, portfolio, address, s)
                    /\ LET more == CalculatePyramidSize(sizer, portfolio, address, amount, 10)
                       IN  more > 0 =>
                             /\ ExistingPosition(portfolio, address) + more <= sizer.maxPerToken
                             /\ OpenValue(portfolio) + more <= sizer.maxTotalValue
  BY DEF SizesValidate
<1>1. amount \in Nat
  BY SizingDefaults DEF Requests
<1>2. ASSUME NEW s \in Nat, s > MinPositionSize, s <= sizer.maxPerTrade,
             ExistingPosition(portfolio, address) + s <= sizer.maxPerToken
      PROVE  ValidatePositionSize(sizer, portfolio, address, s)
  BY <1>2, SizingDefaults DEF ValidatePositionSize
<1>3. CalculatePositionSize(sizer, portfolio, address, amount) > MinPositionSize
        => ValidatePositionSize(sizer, portfolio, address,
                                CalculatePositionSize(sizer, portfolio, address, amount))
  BY <1>1, <1>2, SizeIsLimited
<1>4. \A rate \in {20, 60, 100} :
        CalculateOptimalSize(sizer, portfolio, address, rate, 3, 2) > MinPositionSize
          => ValidatePositionSize(sizer, portfolio, address,
                                  CalculateOptimalSize(sizer, portfolio, address, rate, 3, 2))
  BY <1>2, OptimalIsLimited
<1> QED
  BY <1>1, <1>3, <1>4, PyramidIsLimited

---------------------------------------------------------------------------
(* What a portfolio holds, when a position is opened or closed *)

LEMMA NothingIsOpen == OpenValue(<<>>) = 0
<1>1. OpenAt(<<>>) = {}
  BY DEF OpenAt
<1>2. IsFiniteSet({}) /\ \A x \in {} : Amounts(<<>>)[x] \in Int
  BY FS_EmptySet
<1>3. SumFunctionOnSet(Amounts(<<>>), {}) = 0
  BY <1>2, SumSteps
<1> QED
  BY <1>1, <1>3 DEF OpenValue

LEMMA OpenedValue ==
  ASSUME NEW p \in Seq(Position), NEW x \in Position, x.status = "open"
  PROVE  /\ Append(p, x) \in Seq(Position)
         /\ OpenValue(Append(p, x)) = OpenValue(p) + x.amount
<1> DEFINE q == Append(p, x)
           n == Len(p) + 1
           v == Amounts(p)
           w == Amounts(q)
<1>1. /\ q \in Seq(Position) /\ Len(p) \in Nat /\ Len(q) = n /\ q[n] = x
      /\ \A i \in 1 .. Len(p) : q[i] = p[i]
  BY AppendProperties
<1>2. DOMAIN p = 1 .. Len(p) /\ DOMAIN q = 1 .. n /\ n \notin DOMAIN p /\ n \in DOMAIN q
  BY <1>1
<1>3. DOMAIN q = DOMAIN p \cup {n}
  BY <1>1, <1>2
<1> HIDE DEF q, n
<1>4. OpenAt(q) = OpenAt(p) \cup {n}
  BY <1>1, <1>2, <1>3 DEF OpenAt
<1>5. /\ IsFiniteSet(DOMAIN q) /\ OpenAt(p) \in SUBSET (DOMAIN q)
      /\ IsFiniteSet(OpenAt(p)) /\ n \notin OpenAt(p)
  BY <1>1, <1>2, <1>3, PortfolioIsFinite, FS_Subset
<1>6. /\ \A i \in DOMAIN q : w[i] \in Int
      /\ \A i \in OpenAt(p) : v[i] \in Int /\ w[i] = v[i]
      /\ w[n] = x.amount
  <2>1. \A i \in DOMAIN q : w[i] = q[i].amount /\ q[i].amount \in Nat
    BY <1>1, PortfolioIsFinite
  <2>2. \A i \in DOMAIN p : v[i] = p[i].amount /\ p[i].amount \in Nat
    BY PortfolioIsFinite
  <2>3. \A i \in OpenAt(p) : i \in DOMAIN p
    BY DEF OpenAt
  <2> QED
    BY <1>1, <1>2, <1>3, <2>1, <2>2, <2>3
<1> HIDE DEF v, w
<1>7. SumFunctionOnSet(w, OpenAt(p) \cup {n}) = SumFunctionOnSet(w, OpenAt(p)) + w[n]
  BY <1>2, <1>5, <1>6, SumAdds
<1>8. SumFunctionOnSet(w, OpenAt(p)) = SumFunctionOnSet(v, OpenAt(p))
  BY <1>5, <1>6, SumIsLocal
<1> QED
  BY <1>1, <1>4, <1>6, <1>7, <1>8 DEF OpenValue, q, v, w

LEMMA ClosedValue ==
  ASSUME NEW p \in Seq(Position), NEW i \in DOMAIN p, p[i].status = "open"
  PROVE  /\ [p EXCEPT ![i].status = "closed"] \in Seq(Position)
         /\ OpenValue([p EXCEPT ![i].status = "closed"]) <= OpenValue(p)
<1> DEFINE x == [p[i] EXCEPT !.status = "closed"]
           q == [p EXCEPT ![i] = x]
           v == Amounts(p)
           w == Amounts(q)
<1>1. [p EXCEPT ![i].status = "closed"] = q
  OBVIOUS
<1>2. p[i] \in Position
  BY ElementOfSeq
<1>3. x \in Position /\ x.amount = p[i].amount /\ x.status = "closed"
  BY <1>2 DEF Position
<1> HIDE DEF x
<1>4. q \in Seq(Position) /\ DOMAIN q = DOMAIN p /\ q[i] = x
      /\ \A j \in DOMAIN p : j # i => q[j] = p[j]
  BY <1>3, ExceptSeq
<1> HIDE DEF q
<1>5. OpenAt(q) = OpenAt(p) \ {i} /\ i \in OpenAt(p)
  BY <1>3, <1>4 DEF OpenAt
<1>6. IsFiniteSet(DOMAIN p) /\ OpenAt(p) \in SUBSET (DOMAIN p) /\ IsFiniteSet(OpenAt(q))
      /\ OpenAt(p) \ {i} \in SUBSET (DOMAIN p)
  BY <1>5, PortfolioIsFinite, FS_Subset
<1>7. /\ \A j \in DOMAIN p : v[j] \in Int /\ v[j] >= 0
      /\ \A j \in OpenAt(q) : v[j] \in Int /\ w[j] = v[j]
  <2>1. \A j \in DOMAIN p : w[j] = q[j].amount
    BY <1>4, PortfolioIsFinite
  <2>2. \A j \in DOMAIN p : v[j] = p[j].amount /\ p[j].amount \in Nat
    BY PortfolioIsFinite
  <2> QED
    BY <1>4, <1>5, <1>6, <2>1, <2>2
<1> HIDE DEF v, w
<1>8. SumFunctionOnSet(v, OpenAt(p)) = v[i] + SumFunctionOnSet(v, OpenAt(q))
  BY <1>5, <1>6, <1>7, SumTakes
<1>9. SumFunctionOnSet(w, OpenAt(q)) = SumFunctionOnSet(v, OpenAt(q))
  BY <1>6, <1>7, SumIsLocal
<1>10. SumFunctionOnSet(v, OpenAt(q)) \in Int
  BY <1>5, <1>6, <1>7, SumType
<1>11. SumFunctionOnSet(v, OpenAt(q)) <= SumFunctionOnSet(v, OpenAt(p))
  BY <1>7, <1>8, <1>10
<1> QED
  BY <1>1, <1>4, <1>9, <1>11 DEF OpenValue, v, w

---------------------------------------------------------------------------
(* Exposure.  A caller that has copied the portfolio may still decide what *)
(* that copy leaves room for, one that has decided what it has decided.    *)

Deciding == EntrySteps \ {"idle", "decided"}

ShareOf(l, step, context, amount) ==
  IF step \in Deciding THEN Headroom(l, OpenValue(context.portfolio))
  ELSE amount

Share == [c \in Callers |-> ShareOf(sizer, pc[c], ctx[c], decided[c])]

ExposureLimit ==
  sizer.maxTotalValue + (Cardinality(Callers) - 1) * Largest(sizer) + MinPositionSize - 1

DecisionsAreLimited ==
  \A c \in Callers : decided[c] <= Largest(sizer) /\ (pc[c] # "decided" => decided[c] = 0)

SharesAreLimited ==
  OpenValue(portfolio) + SumFunctionOnSet(Share, Callers) <= ExposureLimit

EntryInv ==
  EntryTypeOK /\ sizer \in GoodLimits /\ DecisionsAreLimited /\ SharesAreLimited

LEMMA LimitIsInteger ==
  ASSUME sizer \in GoodLimits
  PROVE  /\ ExposureLimit \in Int /\ sizer.maxTotalValue \in Nat /\ Largest(sizer) \in Nat \ {0}
         /\ Cardinality(Callers) \in Nat /\ Cardinality(Callers) >= 1
<1>1. sizer.maxTotalValue \in Nat
  BY DEF GoodLimits, PositionLimits
<1>2. Largest(sizer) \in Nat \ {0}
  BY HeadroomIsLimited
<1>3. Cardinality(Callers) \in Nat /\ Cardinality(Callers) # 0
  BY InputsAreTyped, FS_CardinalityType, FS_EmptySet
<1>4. (Cardinality(Callers) - 1) * Largest(sizer) \in Int
  BY <1>2, <1>3
<1> QED
  BY <1>1, <1>2, <1>3, <1>4, SizingDefaults DEF ExposureLimit

LEMMA ShareOfIsLimited ==
  ASSUME NEW l \in GoodLimits, NEW step, NEW amount \in Nat, amount <= Largest(l),
         NEW context \in [token : Tokens, portfolio : Seq(Position)]
  PROVE  ShareOf(l, step, context, amount) \in Nat
         /\ ShareOf(l, step, context, amount) <= Largest(l)
<1>1. OpenValue(context.portfolio) \in Nat
  BY PortfolioValues
<1> QED
  BY <1>1, HeadroomIsLimited DEF ShareOf

LEMMA ShareType ==
  ASSUME EntryInv
  PROVE  Share \in [Callers -> Nat] /\ \A c \in Callers : Share[c] <= Largest(sizer)
<1> SUFFICES ASSUME NEW c \in Callers
             PROVE  ShareOf(sizer, pc[c], ctx[c], decided[c]) \in Nat
                    /\ ShareOf(sizer, pc[c], ctx[c], decided[c]) <= Largest(sizer)
  BY DEF Share
<1>1. /\ ctx[c] \in [token : Tokens, portfolio : Seq(Position)]
      /\ decided[c] \in Nat /\ decided[c] <= Largest(sizer) /\ sizer \in GoodLimits
  BY DEF EntryInv, EntryTypeOK, DecisionsAreLimited
<1> QED
  BY <1>1, ShareOfIsLimited

\* Two sums that differ in one caller's term.
LEMMA OneTerm ==
  ASSUME NEW f \in [Callers -> Nat], NEW g \in [Callers -> Nat], NEW c \in Callers,
         \A b \in Callers \ {c} : g[b] = f[b]
  PROVE  \E rest \in Nat : /\ rest = SumFunctionOnSet(f, Callers \ {c})
                           /\ SumFunctionOnSet(f, Callers) = f[c] + rest
                           /\ SumFunctionOnSet(g, Callers) = g[c] + rest
<1> DEFINE Others == Callers \ {c}
<1>1. IsFiniteSet(Callers) /\ IsFiniteSet(Others) /\ Others \in SUBSET Callers
  BY InputsAreTyped, FS_Subset
<1>2. SumFunctionOnSet(g, Others) = SumFunctionOnSet(f, Others)
  BY <1>1, SumIsLocal
<1>3. SumFunctionOnSet(f, Others) \in Nat
  BY <1>1, SumIsNatural
<1>4. /\ SumFunctionOnSet(f, Callers) = f[c] + SumFunctionOnSet(f, Others)
      /\ SumFunctionOnSet(g, Callers) = g[c] + SumFunctionOnSet(g, Others)
  <2>1. Callers \in SUBSET Callers /\ \A x \in Callers : f[x] \in Int /\ g[x] \in Int
    OBVIOUS
  <2> HIDE DEF Others
  <2> QED
    BY <1>1, <2>1, SumTakes DEF Others
<1> QED
  BY <1>2, <1>3, <1>4

\* A step that changes one caller's share by no more than it takes from what is open.
LEMMA ExposureIsKept ==
  ASSUME EntryInv, EntryTypeOK', sizer' = sizer, DecisionsAreLimited', NEW c \in Callers,
         \A b \in Callers \ {c} :
           pc'[b] = pc[b] /\ ctx'[b] = ctx[b] /\ decided'[b] = decided[b],
         OpenValue(portfolio') + Share'[c] <= OpenValue(portfolio) + Share[c]
  PROVE  EntryInv'
<1>1. Share \in [Callers -> Nat]
  BY ShareType
<1>2. sizer' \in GoodLimits
  BY DEF EntryInv
<1>3. Share' \in [Callers -> Nat]
  <2> SUFFICES ASSUME NEW b \in Callers
               PROVE  ShareOf(sizer', pc'[b], ctx'[b], decided'[b]) \in Nat
    BY DEF Share
  <2>1. /\ ctx'[b] \in [token : Tokens, portfolio : Seq(Position)]
        /\ decided'[b] \in Nat /\ decided'[b] <= Largest(sizer')
    BY DEF EntryTypeOK, DecisionsAreLimited
  <2> QED
    BY <1>2, <2>1, ShareOfIsLimited
<1>4. \A b \in Callers \ {c} : Share'[b] = Share[b]
  BY DEF Share, ShareOf
<1>5. PICK rest \in Nat : /\ SumFunctionOnSet(Share, Callers) = Share[c] + rest
                          /\ SumFunctionOnSet(Share', Callers) = Share'[c] + rest
  BY <1>1, <1>3, <1>4, OneTerm
<1>6. OpenValue(portfolio) \in Nat /\ OpenValue(portfolio') \in Nat
  BY PortfolioValues DEF EntryInv, EntryTypeOK
<1>7. ExposureLimit' = ExposureLimit
  BY DEF ExposureLimit
<1>8. ExposureLimit \in Int
  BY LimitIsInteger DEF EntryInv
<1>9. SharesAreLimited'
  <2>1. Share[c] \in Nat /\ Share'[c] \in Nat
    BY <1>1, <1>3
  <2>2. OpenValue(portfolio) + (Share[c] + rest) <= ExposureLimit
    BY <1>5 DEF EntryInv, SharesAreLimited
  <2>3. OpenValue(portfolio') + (Share'[c] + rest) <= ExposureLimit
    BY <1>6, <1>8, <2>1, <2>2
  <2> QED
    BY <1>5, <1>7, <2>3 DEF SharesAreLimited
<1> QED
  BY <1>2, <1>9 DEF EntryInv

\* A step of configuration and criteria only.
LEMMA ExposureIsUntouched ==
  ASSUME EntryInv, EntryTypeOK', UNCHANGED <<sizer, portfolio, pc, ctx, decided>>
  PROVE  EntryInv'
BY DEF EntryInv, DecisionsAreLimited, SharesAreLimited, Share, ShareOf, ExposureLimit


---------------------------------------------------------------------------
(* The steps of an evaluation *)

OthersKeepTheirs(c) ==
  \A b \in Callers \ {c} : pc'[b] = pc[b] /\ ctx'[b] = ctx[b] /\ decided'[b] = decided[b]

LEMMA NoContextType == NoContext \in [token : Tokens, portfolio : Seq(Position)]
BY InputsAreTyped DEF NoContext

LEMMA StepsOfReasons ==
  /\ Reasons[1] = "blacklist" /\ Len(Reasons) = 8 /\ DOMAIN Reasons = 1 .. 8
  /\ \A i \in 1 .. 8 : Reasons[i] \in Deciding
  /\ {"limits", "compare", "size"} \subseteq Deciding
  /\ EntrySteps = Deciding \cup {"idle", "decided"}
  /\ "idle" \notin Deciding /\ "decided" \notin Deciding
  /\ "idle" \in EntrySteps /\ "decided" \in EntrySteps
BY DEF Reasons, Deciding, EntrySteps, Range

\* The caller keeps its context and its decision.
LEMMA ContinueEffect ==
  ASSUME EntryInv, NEW c \in Callers, NEW step \in Deciding, Continue(c, step),
         UNCHANGED <<ctx, decided>>
  PROVE  /\ pc' \in [Callers -> EntrySteps]
         /\ pc'[c] = step /\ OthersKeepTheirs(c)
BY StepsOfReasons DEF EntryInv, EntryTypeOK, Continue, OthersKeepTheirs

LEMMA DoneEffect ==
  ASSUME EntryInv, NEW c \in Callers, Done(c)
  PROVE  /\ pc' \in [Callers -> EntrySteps]
         /\ ctx' \in [Callers -> [token : Tokens, portfolio : Seq(Position)]]
         /\ decided' \in [Callers -> Nat]
         /\ pc'[c] = "idle" /\ decided'[c] = 0 /\ OthersKeepTheirs(c)
<1> USE NoContextType, StepsOfReasons DEF EntryInv, EntryTypeOK, Done, Continue
<1>1. pc' = [pc EXCEPT ![c] = "idle"] /\ ctx' = [ctx EXCEPT ![c] = NoContext]
      /\ decided' = [decided EXCEPT ![c] = 0]
  OBVIOUS
<1>2. /\ pc' \in [Callers -> EntrySteps]
      /\ pc'[c] = "idle" /\ \A b \in Callers \ {c} : pc'[b] = pc[b]
  BY <1>1
<1>3. /\ ctx' \in [Callers -> [token : Tokens, portfolio : Seq(Position)]]
      /\ \A b \in Callers \ {c} : ctx'[b] = ctx[b]
  BY <1>1
<1>4. /\ decided' \in [Callers -> Nat] /\ decided'[c] = 0
      /\ \A b \in Callers \ {c} : decided'[b] = decided[b]
  BY <1>1
<1> QED
  BY <1>2, <1>3, <1>4 DEF OthersKeepTheirs

\* With the sizer's limits, only the caller's own decision can exceed them.
LEMMA DecisionsStayLimited ==
  ASSUME EntryInv, NEW c \in Callers, OthersKeepTheirs(c), sizer' = sizer,
         decided'[c] <= Largest(sizer), pc'[c] # "decided" => decided'[c] = 0
  PROVE  DecisionsAreLimited'
<1> SUFFICES ASSUME NEW b \in Callers
             PROVE  /\ decided'[b] <= Largest(sizer)
                    /\ pc'[b] # "decided" => decided'[b] = 0
  BY DEF DecisionsAreLimited
<1> QED
  BY DEF OthersKeepTheirs, EntryInv, DecisionsAreLimited

LEMMA DoneKeeps ==
  ASSUME EntryInv, NEW c \in Callers, Done(c), UNCHANGED <<sizer, criteria, config, panicked>>,
         portfolio' \in Seq(Position),
         OpenValue(portfolio') <= OpenValue(portfolio) + Share[c]
  PROVE  EntryInv'
<1>1. EntryTypeOK' /\ OthersKeepTheirs(c) /\ pc'[c] = "idle" /\ decided'[c] = 0
  BY DoneEffect DEF EntryInv, EntryTypeOK
<1>2. DecisionsAreLimited'
  BY <1>1, DecisionsStayLimited, LimitIsInteger DEF EntryInv
<1>3. Share'[c] = 0
  BY <1>1, StepsOfReasons DEF Share, ShareOf
<1>4. OpenValue(portfolio') \in Nat
  BY PortfolioValues
<1>5. OpenValue(portfolio') + Share'[c] <= OpenValue(portfolio) + Share[c]
  BY <1>3, <1>4
<1> QED
  BY <1>1, <1>2, <1>5, ExposureIsKept DEF OthersKeepTheirs

LEMMA ContinueKeeps ==
  ASSUME EntryInv, NEW c \in Callers, pc[c] \in Deciding,
         NEW step \in Deciding, Continue(c, step),
         UNCHANGED <<sizer, criteria, config, panicked, portfolio, ctx, decided>>
  PROVE  EntryInv'
<1>1. EntryTypeOK' /\ OthersKeepTheirs(c) /\ pc'[c] = step
  BY ContinueEffect DEF EntryInv, EntryTypeOK
<1>2. decided[c] = 0 /\ decided'[c] = 0
  BY DEF EntryInv, DecisionsAreLimited, Deciding
<1>3. DecisionsAreLimited'
  BY <1>1, <1>2, DecisionsStayLimited, LimitIsInteger DEF EntryInv
<1>4. Share'[c] = Share[c]
  BY <1>1 DEF Share, ShareOf
<1>5. OpenValue(portfolio') + Share'[c] <= OpenValue(portfolio) + Share[c]
  <2>1. OpenValue(portfolio) \in Nat /\ Share[c] \in Nat
    BY PortfolioValues, ShareType DEF EntryInv, EntryTypeOK
  <2> QED
    BY <1>4, <2>1
<1> QED
  BY <1>1, <1>3, <1>5, ExposureIsKept DEF OthersKeepTheirs

LEMMA InitEntryInv == EntryInit => EntryInv
<1> SUFFICES ASSUME EntryInit PROVE EntryInv
  OBVIOUS
<1> USE DEF EntryInit
<1>1. PICK new \in StrategyConfigs :
        /\ sizer = WithDefaults(IF new.limits = NoLimits THEN ZeroLimits ELSE new.limits)
        /\ config = [new EXCEPT !.limits = IF @ = NoLimits THEN @ ELSE sizer]
  OBVIOUS
<1>2. new \in [limits : {NoLimits} \cup PositionLimits, buyAmount : Int]
  BY InputsAreTyped
<1>3. sizer \in GoodLimits /\ sizer \in PositionLimits
  <2> DEFINE l == IF new.limits = NoLimits THEN ZeroLimits ELSE new.limits
  <2>1. l \in PositionLimits
    BY <1>2 DEF ZeroLimits, PositionLimits
  <2>2. sizer = [maxPositions |-> l.maxPositions,
                 maxPerToken |-> IF l.maxPerToken = 0 THEN DefaultLimits.maxPerToken
                                 ELSE l.maxPerToken,
                 maxTotalValue |-> IF l.maxTotalValue = 0 THEN DefaultLimits.maxTotalValue
                                   ELSE l.maxTotalValue,
                 maxPerTrade |-> IF l.maxPerTrade = 0 THEN DefaultLimits.maxPerTrade
                                 ELSE l.maxPerTrade,
                 maxPortfolioRisk |-> l.maxPortfolioRisk]
    <3>1. sizer = WithDefaults(l)
      BY <1>1
    <3> HIDE DEF l
    <3> QED
      BY <2>1, <3>1 DEF WithDefaults, PositionLimits
  <2> HIDE DEF l
  <2> QED
    BY <2>1, <2>2, SizingDefaults DEF GoodLimits, PositionLimits
<1>4. EntryTypeOK
  <2>1. config \in [limits : {NoLimits} \cup PositionLimits, buyAmount : Int]
    BY <1>1, <1>2, <1>3
  <2>2. criteria \in {NoCriteria} \cup EntryCriteriaConfig
    BY InputsAreTyped
  <2>3. portfolio \in Seq(Position) /\ panicked \in BOOLEAN
    BY EmptySeq
  <2>4. /\ pc \in [Callers -> EntrySteps]
        /\ ctx \in [Callers -> [token : Tokens, portfolio : Seq(Position)]]
        /\ decided \in [Callers -> Nat]
    BY NoContextType, StepsOfReasons
  <2> QED
    BY <1>3, <2>1, <2>2, <2>3, <2>4 DEF EntryTypeOK
<1>5. DecisionsAreLimited
  BY <1>3, LimitIsInteger DEF DecisionsAreLimited
<1>6. SumFunctionOnSet(Share, Callers) <= 0
  <2>1. \A c \in Callers : Share[c] \in Int /\ Share[c] <= 0
    BY StepsOfReasons DEF Share, ShareOf
  <2>2. IsFiniteSet(Callers) /\ 0 \in Int
    BY InputsAreTyped
  <2>3. SumFunctionOnSet(Share, Callers) <= Cardinality(Callers) * 0
    BY <2>1, <2>2, SumIsBounded
  <2>4. Cardinality(Callers) * 0 = 0
    BY <1>3, LimitIsInteger
  <2> QED
    BY <2>3, <2>4
<1>7. SumFunctionOnSet(Share, Callers) \in Int
  <2>1. \A c \in Callers : Share[c] \in Int
    BY StepsOfReasons DEF Share, ShareOf
  <2>2. IsFiniteSet(Callers) /\ Callers \in SUBSET Callers
    BY InputsAreTyped
  <2> QED
    BY <2>1, <2>2, SumType
<1>8. 0 <= ExposureLimit /\ ExposureLimit \in Int
  <2>1. /\ ExposureLimit \in Int /\ sizer.maxTotalValue \in Nat /\ Largest(sizer) \in Nat \ {0}
        /\ Cardinality(Callers) \in Nat /\ Cardinality(Callers) >= 1
    BY <1>3, LimitIsInteger
  <2>2. (Cardinality(Callers) - 1) * Largest(sizer) \in Nat
    <3>1. Cardinality(Callers) - 1 \in Nat
      BY <2>1
    <3> QED
      BY <2>1, <3>1
  <2> QED
    BY <2>1, <2>2, SizingDefaults DEF ExposureLimit
<1>9. SharesAreLimited
  <2>1. OpenValue(portfolio) = 0
    BY NothingIsOpen
  <2> QED
    BY <1>6, <1>7, <1>8, <2>1 DEF SharesAreLimited
<1> QED
  BY <1>3, <1>4, <1>5, <1>9 DEF EntryInv


---------------------------------------------------------------------------
(* One lemma per action *)

\* A copy of a portfolio that has reached the limit leaves its caller nothing; one
\* that has not leaves no more than rounding up adds to it, and every other caller
\* its largest trade.
LEMMA EvaluateEntryKeeps ==
  ASSUME EntryInv, NEW c \in Callers, NEW t \in Candidates, EvaluateEntry(c, t)
  PROVE  EntryInv'
<1> USE DEF EvaluateEntry
<1>0. EntryTypeOK /\ sizer \in GoodLimits
  BY DEF EntryInv
<1>1. /\ "blacklist" \in Deciding /\ "blacklist" \in EntrySteps /\ pc[c] \notin Deciding
  BY StepsOfReasons DEF Deciding
<1>2. CASE /\ ctx' = [ctx EXCEPT ![c] = [token |-> t, portfolio |-> portfolio]]
           /\ pc' = [pc EXCEPT ![c] = "blacklist"] /\ UNCHANGED panicked
  <2> DEFINE V == OpenValue(portfolio)
             T == sizer.maxTotalValue
             L == Largest(sizer)
             n == Cardinality(Callers)
             H == Headroom(sizer, OpenValue(portfolio))
             Others == SumFunctionOnSet(Share, Callers \ {c})
  <2>1. EntryTypeOK' /\ OthersKeepTheirs(c) /\ pc'[c] = "blacklist"
        /\ ctx'[c].portfolio = portfolio
    <3>1. [token |-> t, portfolio |-> portfolio] \in [token : Tokens, portfolio : Seq(Position)]
      BY <1>0, InputsAreTyped DEF EntryTypeOK
    <3>2. ctx' \in [Callers -> [token : Tokens, portfolio : Seq(Position)]]
          /\ ctx'[c].portfolio = portfolio /\ \A b \in Callers \ {c} : ctx'[b] = ctx[b]
      BY <1>0, <1>2, <3>1 DEF EntryTypeOK
    <3>3. pc' \in [Callers -> EntrySteps]
          /\ pc'[c] = "blacklist" /\ \A b \in Callers \ {c} : pc'[b] = pc[b]
      BY <1>0, <1>1, <1>2 DEF EntryTypeOK
    <3>4. EntryTypeOK'
      BY <1>0, <1>2, <3>2, <3>3 DEF EntryTypeOK
    <3> QED
      BY <3>2, <3>3, <3>4 DEF OthersKeepTheirs
  <2>2. decided'[c] = 0 /\ decided[c] = 0
    BY DEF EntryInv, DecisionsAreLimited
  <2>3. DecisionsAreLimited'
    BY <1>0, <2>1, <2>2, DecisionsStayLimited, LimitIsInteger
  <2>4. Share[c] = 0 /\ Share'[c] = H
    BY <1>1, <2>1, <2>2 DEF Share, ShareOf
  <2>5. /\ V \in Nat /\ L \in Nat \ {0} /\ H \in Nat /\ (V >= T => H = 0)
        /\ V < T => V + H <= T + MinPositionSize - 1
    BY <1>0, PortfolioValues, HeadroomIsLimited DEF EntryTypeOK
  <2>6. CASE V >= T
    <3>1. OpenValue(portfolio') + Share'[c] <= OpenValue(portfolio) + Share[c]
      BY <2>4, <2>5, <2>6
    <3> QED
      BY <2>1, <2>3, <3>1, ExposureIsKept DEF OthersKeepTheirs
  <2>7. CASE V < T
    <3>1. Share \in [Callers -> Nat] /\ \A b \in Callers : Share[b] <= L
      BY ShareType
    <3>2. Share' = [Share EXCEPT ![c] = H]
      <4>1. \A b \in Callers \ {c} : Share'[b] = Share[b]
        BY <2>1 DEF Share, ShareOf, OthersKeepTheirs
      <4> QED
        BY <2>4, <3>1, <4>1 DEF Share
    <3>3. Share' \in [Callers -> Nat] /\ \A b \in Callers \ {c} : Share'[b] = Share[b]
      BY <2>5, <3>1, <3>2
    <3>4. PICK rest \in Nat : /\ rest = Others
                              /\ SumFunctionOnSet(Share', Callers) = Share'[c] + rest
      BY <3>1, <3>3, OneTerm
    <3>5. n \in Nat /\ IsFiniteSet(Callers \ {c}) /\ Cardinality(Callers \ {c}) = n - 1
      BY <1>0, InputsAreTyped, FS_RemoveElement, FS_CardinalityType
    <3>6. Others <= (n - 1) * L
      <4>1. \A b \in Callers \ {c} : Share[b] \in Int /\ Share[b] <= L
        BY <3>1
      <4>2. L \in Int
        BY <2>5
      <4> HIDE DEF L
      <4> QED
        BY <3>5, <4>1, <4>2, SumIsBounded
    <3>7. T \in Nat /\ (n - 1) * L \in Int
      BY <1>0, <2>5, <3>5, LimitIsInteger
    <3>8. V + (H + rest) <= T + (n - 1) * L + MinPositionSize - 1
      <4> HIDE DEF V, H, T, L, n, Others
      <4>1. MinPositionSize \in Int /\ (n - 1) * L \in Int /\ rest <= (n - 1) * L
        BY <3>4, <3>6, <3>7, SizingDefaults
      <4> DEFINE m == (n - 1) * L
      <4> HIDE DEF m
      <4>2. m \in Int /\ rest <= m
        BY <4>1 DEF m
      <4>3. V + (H + rest) <= T + m + MinPositionSize - 1
        BY <2>5, <2>7, <3>4, <3>7, <4>1, <4>2
      <4> QED
        BY <4>3 DEF m
    <3>9. SharesAreLimited'
      BY <2>4, <3>4, <3>8 DEF SharesAreLimited, ExposureLimit
    <3> QED
      BY <1>0, <2>1, <2>3, <3>9 DEF EntryInv
  <2>8. T \in Nat
    BY <1>0, LimitIsInteger
  <2> QED
    BY <2>5, <2>6, <2>7, <2>8
<1> QED
  BY <1>2, StepsOfReasons DEF Continue

\* A caller that goes on to the next criterion keeps the room it has.
LEMMA CheckCriteriaKeeps ==
  ASSUME EntryInv, NEW c \in Callers, CheckCriteria(c)
  PROVE  EntryInv'
<1>1. /\ UNCHANGED <<criteria, config, sizer, portfolio>> /\ portfolio' = portfolio
      /\ portfolio \in Seq(Position) /\ EntryTypeOK
  BY DEF CheckCriteria, EntryInv, EntryTypeOK
<1>2. OpenValue(portfolio) \in Nat /\ Share[c] \in Nat
  BY <1>1, PortfolioValues, ShareType
<1>3. PICK i \in 1 .. 8 :
        /\ pc[c] = Reasons[i]
        /\ \/ panicked' = TRUE /\ UNCHANGED <<pc, ctx, decided>>
           \/ Done(c) /\ UNCHANGED panicked
           \/ /\ Continue(c, IF i = 8 THEN "limits" ELSE Reasons[i + 1])
              /\ UNCHANGED <<ctx, decided, panicked>>
  BY StepsOfReasons DEF CheckCriteria
<1>4. CASE panicked' = TRUE /\ UNCHANGED <<pc, ctx, decided>>
  <2>1. EntryTypeOK'
    BY <1>1, <1>4 DEF EntryTypeOK
  <2> QED
    BY <1>1, <1>4, <2>1, ExposureIsUntouched
<1>5. CASE Done(c) /\ UNCHANGED panicked
  <2>1. OpenValue(portfolio') <= OpenValue(portfolio) + Share[c]
    BY <1>1, <1>2
  <2> QED
    BY <1>1, <1>5, <2>1, DoneKeeps
<1>6. CASE /\ Continue(c, IF i = 8 THEN "limits" ELSE Reasons[i + 1])
           /\ UNCHANGED <<ctx, decided, panicked>>
  <2>1. PICK step \in Deciding : Continue(c, step)
    <3>1. CASE i = 8
      BY <1>6, <3>1, StepsOfReasons
    <3>2. CASE i # 8
      <4>1. i + 1 \in 1 .. 8
        BY <3>2
      <4> QED
        BY <1>6, <3>2, <4>1, StepsOfReasons
    <3> QED
      BY <3>1, <3>2
  <2>2. pc[c] \in Deciding
    BY <1>3, StepsOfReasons
  <2> QED
    BY <1>1, <1>6, <2>1, <2>2, ContinueKeeps
<1> QED
  BY <1>3, <1>4, <1>5, <1>6

LEMMA CheckNilKeeps ==
  ASSUME EntryInv, NEW c \in Callers, CheckNil(c)
  PROVE  EntryInv'
<1> DEFINE step == IF config.limits = NoLimits THEN "size" ELSE "compare"
<1>1. step \in Deciding /\ Continue(c, step) /\ pc[c] \in Deciding
  BY StepsOfReasons DEF CheckNil
<1>2. UNCHANGED <<sizer, criteria, config, panicked, portfolio, ctx, decided>>
  BY DEF CheckNil
<1> HIDE DEF step
<1> QED
  BY <1>1, <1>2, ContinueKeeps

LEMMA checkPositionLimitsKeeps ==
  ASSUME EntryInv, NEW c \in Callers, checkPositionLimits(c)
  PROVE  EntryInv'
<1> USE DEF checkPositionLimits
<1>1. CASE config.limits = NoLimits
  <2>1. EntryTypeOK'
    BY <1>1 DEF EntryInv, EntryTypeOK
  <2> QED
    BY <1>1, <2>1, ExposureIsUntouched
<1>2. CASE config.limits # NoLimits /\ Done(c)
  <2>1. /\ UNCHANGED <<sizer, criteria, config, panicked>> /\ portfolio' = portfolio
        /\ portfolio \in Seq(Position)
    BY <1>2 DEF EntryInv, EntryTypeOK
  <2>2. OpenValue(portfolio) \in Nat /\ Share[c] \in Nat
    BY <2>1, PortfolioValues, ShareType
  <2>3. OpenValue(portfolio') <= OpenValue(portfolio) + Share[c]
    BY <2>1, <2>2
  <2> QED
    BY <1>2, <2>1, <2>3, DoneKeeps
<1>3. CASE config.limits # NoLimits /\ Continue(c, "size") /\ UNCHANGED <<ctx, decided>>
  <2>1. UNCHANGED <<sizer, criteria, config, panicked, portfolio, ctx, decided>>
    BY <1>3
  <2>2. pc[c] \in Deciding /\ "size" \in Deciding
    BY StepsOfReasons
  <2> QED
    BY <1>3, <2>1, <2>2, ContinueKeeps
<1> QED
  BY <1>1, <1>2, <1>3

LEMMA SizeKeeps ==
  ASSUME EntryInv, NEW c \in Callers, Size(c)
  PROVE  EntryInv'
<1> USE DEF Size
<1>0. /\ UNCHANGED <<sizer, criteria, config, panicked>> /\ portfolio' = portfolio
      /\ portfolio \in Seq(Position) /\ sizer \in GoodLimits /\ EntryTypeOK
  BY DEF EntryInv, EntryTypeOK
<1>1. OpenValue(portfolio) \in Nat /\ Share[c] \in Nat
  BY <1>0, PortfolioValues, ShareType
<1>2. CASE config.buyAmount <= 0
  <2>1. OpenValue(portfolio') <= OpenValue(portfolio) + Share[c]
    BY <1>0, <1>1
  <2> QED
    BY <1>0, <1>2, <2>1, DoneKeeps
<1>3. CASE ~(config.buyAmount <= 0)
  <2> DEFINE s == CalculatePositionSize(sizer, ctx[c].portfolio, ctx[c].token.address,
                                        config.buyAmount)
             used == OpenValue(ctx[c].portfolio)
  <2>1. /\ pc' = [pc EXCEPT ![c] = "decided"] /\ ctx' = ctx
        /\ decided' = [decided EXCEPT ![c] = s]
    BY <1>3 DEF Continue
  <2>2. config.buyAmount \in Nat /\ ctx[c].portfolio \in Seq(Position)
    BY <1>0, <1>3 DEF EntryTypeOK
  <2>3. s \in Nat /\ s <= Headroom(sizer, used)
    BY <1>0, <2>2, SizeIsLimited
  <2>4. used \in Nat
    BY <2>2, PortfolioValues
  <2>5. Headroom(sizer, used) \in Nat /\ Headroom(sizer, used) <= Largest(sizer)
        /\ Largest(sizer) \in Nat
    BY <1>0, <2>4, HeadroomIsLimited
  <2>6. Share[c] = Headroom(sizer, used)
    BY StepsOfReasons DEF Share, ShareOf
  <2> HIDE DEF s, used
  <2>7. EntryTypeOK' /\ OthersKeepTheirs(c) /\ pc'[c] = "decided" /\ decided'[c] = s
    BY <1>0, <2>1, <2>3, StepsOfReasons DEF EntryTypeOK, OthersKeepTheirs
  <2>8. DecisionsAreLimited'
    <3>1. s <= Largest(sizer)
      BY <2>3, <2>5
    <3> QED
      BY <1>0, <2>7, <3>1, DecisionsStayLimited
  <2>9. Share'[c] = s
    BY <2>7, StepsOfReasons DEF Share, ShareOf
  <2>10. OpenValue(portfolio') + Share'[c] <= OpenValue(portfolio) + Share[c]
    BY <1>0, <1>1, <2>3, <2>5, <2>6, <2>9
  <2> QED
    BY <1>0, <2>7, <2>8, <2>10, ExposureIsKept DEF OthersKeepTheirs
<1> QED
  BY <1>2, <1>3

LEMMA OpenKeeps ==
  ASSUME EntryInv, NEW c \in Callers, Open(c)
  PROVE  EntryInv'
<1> USE DEF Open
<1>0. /\ UNCHANGED <<sizer, criteria, config, panicked>> /\ Done(c)
      /\ portfolio \in Seq(Position) /\ EntryTypeOK
  BY DEF EntryInv, EntryTypeOK
<1>1. Share[c] = decided[c] /\ decided[c] \in Nat /\ OpenValue(portfolio) \in Nat
  BY <1>0, PortfolioValues, StepsOfReasons DEF Share, ShareOf, EntryTypeOK
<1>2. CASE decided[c] = 0
  <2>1. portfolio' = portfolio
    BY <1>2
  <2>2. OpenValue(portfolio') <= OpenValue(portfolio) + Share[c]
    BY <1>1, <2>1
  <2> QED
    BY <1>0, <2>1, <2>2, DoneKeeps
<1>3. CASE decided[c] # 0
  <2> DEFINE x == [token |-> ctx[c].token.address, amount |-> decided[c], status |-> "open"]
  <2>1. x \in Position /\ x.amount = decided[c] /\ x.status = "open"
    <3>1. ctx[c].token \in TokenInfo
      BY <1>0, InputsAreTyped DEF EntryTypeOK
    <3>2. ctx[c].token.address \in Names
      BY <3>1 DEF TokenInfo
    <3> QED
      BY <1>1, <3>2 DEF Position
  <2>2. portfolio' = Append(portfolio, x)
    BY <1>3
  <2> HIDE DEF x
  <2>3. portfolio' \in Seq(Position) /\ OpenValue(portfolio') = OpenValue(portfolio) + decided[c]
    BY <1>0, <2>1, <2>2, OpenedValue
  <2>4. OpenValue(portfolio') <= OpenValue(portfolio) + Share[c]
    BY <1>1, <2>3
  <2> QED
    BY <1>0, <2>3, <2>4, DoneKeeps
<1> QED
  BY <1>2, <1>3

LEMMA CloseKeeps ==
  ASSUME EntryInv, NEW i \in DOMAIN portfolio, Close(i)
  PROVE  EntryInv'
<1> USE DEF Close
<1>1. portfolio \in Seq(Position) /\ EntryTypeOK
  BY DEF EntryInv, EntryTypeOK
<1>2. portfolio' \in Seq(Position) /\ OpenValue(portfolio') <= OpenValue(portfolio)
  BY <1>1, ClosedValue
<1>3. PICK c \in Callers : TRUE
  BY InputsAreTyped
<1>4. EntryTypeOK'
  BY <1>1, <1>2 DEF EntryTypeOK
<1>5. Share' = Share /\ DecisionsAreLimited'
  BY DEF Share, ShareOf, EntryInv, DecisionsAreLimited
<1>6. OpenValue(portfolio) \in Nat /\ OpenValue(portfolio') \in Nat /\ Share[c] \in Nat
  BY <1>1, <1>2, PortfolioValues, ShareType
<1>7. OpenValue(portfolio') + Share'[c] <= OpenValue(portfolio) + Share[c]
  BY <1>2, <1>5, <1>6
<1> QED
  BY <1>4, <1>5, <1>7, ExposureIsKept

LEMMA UpdateConfigKeeps ==
  ASSUME EntryInv, NEW new \in StrategyConfigs, UpdateConfig(new)
  PROVE  EntryInv'
<1>1. EntryTypeOK'
  BY InputsAreTyped DEF EntryInv, EntryTypeOK, UpdateConfig
<1> QED
  BY <1>1, ExposureIsUntouched DEF UpdateConfig

LEMMA UpdateCriteriaKeeps ==
  ASSUME EntryInv, NEW new \in Criteria, UpdateCriteria(new)
  PROVE  EntryInv'
<1>1. EntryTypeOK'
  BY InputsAreTyped DEF EntryInv, EntryTypeOK, UpdateCriteria
<1> QED
  BY <1>1, ExposureIsUntouched DEF UpdateCriteria

\* Whatever is added to the lists, the criteria stay criteria.
LEMMA ListsStayTyped ==
  ASSUME NEW c \in EntryCriteriaConfig, NEW item \in Names
  PROVE  {AddToBlacklist(c, item), AddToWhitelist(c, item),
          RemoveFromBlacklist(c, item), RemoveFromWhitelist(c, item)} \subseteq EntryCriteriaConfig
<1>1. ASSUME NEW list \in SUBSET Names
      PROVE  AddTo(list, item) \in SUBSET Names /\ RemoveFrom(list, item) \in SUBSET Names
  BY DEF AddTo, RemoveFrom
<1>2. ASSUME NEW list \in SUBSET Names
      PROVE  [c EXCEPT !.blacklist = list] \in EntryCriteriaConfig
             /\ [c EXCEPT !.whitelist = list] \in EntryCriteriaConfig
  BY DEF EntryCriteriaConfig
<1>3. c.blacklist \in SUBSET Names /\ c.whitelist \in SUBSET Names
  BY DEF EntryCriteriaConfig
<1> QED
  BY <1>1, <1>2, <1>3
     DEF AddToBlacklist, AddToWhitelist, RemoveFromBlacklist, RemoveFromWhitelist

LEMMA ChangeListKeeps ==
  ASSUME EntryInv, NEW item \in Items, ChangeList(item)
  PROVE  EntryInv'
<1>1. criteria' \in {NoCriteria} \cup EntryCriteriaConfig /\ panicked' \in BOOLEAN
  <2>1. criteria \in {NoCriteria} \cup EntryCriteriaConfig /\ panicked \in BOOLEAN
        /\ item \in Names
    BY InputsAreTyped DEF EntryInv, EntryTypeOK
  <2> QED
    BY <2>1, ListsStayTyped DEF ChangeList
<1>2. UNCHANGED <<config, sizer, portfolio, pc, ctx, decided>>
  BY DEF ChangeList
<1>3. EntryTypeOK'
  BY <1>1, <1>2 DEF EntryInv, EntryTypeOK
<1> QED
  BY <1>2, <1>3, ExposureIsUntouched

LEMMA NextEntryInv == EntryInv /\ [EntryNext]_entryVars => EntryInv'
<1> SUFFICES ASSUME EntryInv, [EntryNext]_entryVars PROVE EntryInv'
  OBVIOUS
<1>1. CASE UNCHANGED entryVars
  <2>1. EntryTypeOK'
    BY <1>1 DEF EntryInv, EntryTypeOK, entryVars
  <2> QED
    BY <1>1, <2>1, ExposureIsUntouched DEF entryVars
<1>2. CASE EntryNext
  <2>1. ASSUME NEW c \in Callers,
               \/ \E t \in Candidates : EvaluateEntry(c, t)
               \/ CheckCriteria(c) \/ CheckNil(c) \/ checkPositionLimits(c)
               \/ Size(c) \/ Open(c)
        PROVE  EntryInv'
    BY <2>1, EvaluateEntryKeeps, CheckCriteriaKeeps, CheckNilKeeps, checkPositionLimitsKeeps, SizeKeeps, OpenKeeps
  <2> QED
    BY <1>2, <2>1, CloseKeeps, UpdateConfigKeeps, UpdateCriteriaKeeps, ChangeListKeeps
       DEF EntryNext
<1> QED
  BY <1>1, <1>2

LEMMA AlwaysEntryInv == EntrySpec => []EntryInv
BY InitEntryInv, NextEntryInv, PTL DEF EntrySpec

---------------------------------------------------------------------------
(* The theorems about entries *)

\* The portfolio, the contexts copied from it, the criteria, the configurations
\* and the decisions keep their types, and decisions are never negative.
THEOREM EntryTypeCorrect == EntrySpec => []EntryTypeOK
<1>1. EntryInv => EntryTypeOK
  BY DEF EntryInv
<1> QED
  BY <1>1, AlwaysEntryInv, PTL

\* Whoever evaluates entries at once, what is open and what is decided stay within
\* the limit of the sizer, one trade for every caller but one and what rounding up
\* adds (EvaluateEntry, CalculatePositionSize, UpdateConfig).
THEOREM ExposureIsBounded == EntrySpec => []ExposureBounded
<1>1. EntryInv => ExposureBounded
  <2> SUFFICES ASSUME EntryInv PROVE ExposureBounded
    OBVIOUS
  <2>1. Share \in [Callers -> Nat] /\ IsFiniteSet(Callers) /\ Callers \in SUBSET Callers
    BY ShareType, InputsAreTyped
  <2>2. /\ decided \in [Callers -> Nat] /\ portfolio \in Seq(Position) /\ sizer \in GoodLimits
        /\ \A c \in Callers : decided[c] \in Int /\ Share[c] \in Int /\ decided[c] <= Share[c]
    <3>1. decided \in [Callers -> Nat] /\ portfolio \in Seq(Position) /\ sizer \in GoodLimits
      BY DEF EntryInv, EntryTypeOK
    <3>2. ASSUME NEW c \in Callers PROVE decided[c] <= Share[c]
      <4>1. CASE pc[c] = "decided"
        BY <3>1, <4>1, StepsOfReasons DEF Share, ShareOf
      <4>2. CASE pc[c] # "decided"
        BY <2>1, <4>2 DEF EntryInv, DecisionsAreLimited
      <4> QED
        BY <4>1, <4>2
    <3> QED
      BY <2>1, <3>1, <3>2
  <2>3. SumFunction(decided) = SumFunctionOnSet(decided, Callers)
    BY <2>2 DEF SumFunction
  <2>4. SumFunctionOnSet(decided, Callers) <= SumFunctionOnSet(Share, Callers)
    BY <2>1, <2>2, SumIsMonotone
  <2>5. SumFunctionOnSet(decided, Callers) \in Int /\ SumFunctionOnSet(Share, Callers) \in Int
    BY <2>1, <2>2, SumType
  <2>6. OpenValue(portfolio) \in Nat /\ ExposureLimit \in Int
    BY <2>2, PortfolioValues, LimitIsInteger
  <2>7. OpenValue(portfolio) + SumFunctionOnSet(Share, Callers) <= ExposureLimit
    BY DEF EntryInv, SharesAreLimited
  <2>8. OpenValue(portfolio) + SumFunctionOnSet(decided, Callers) <= ExposureLimit
    BY <2>4, <2>5, <2>6, <2>7
  <2> QED
    BY <2>3, <2>8 DEF ExposureBounded, ExposureLimit, LargestTrade, Largest
<1> QED
  BY <1>1, AlwaysEntryInv, PTL

\* Every size that is not rounded up keeps the limits of ValidatePositionSize,
\* whatever the portfolio (CalculatePositionSize, CalculateOptimalSize,
\* CalculatePyramidSize).
THEOREM SizesAlwaysValidate == EntrySpec => []SizesValidate
<1>1. EntryInv => SizesValidate
  BY SizesAreValid DEF EntryInv, EntryTypeOK
<1> QED
  BY <1>1, AlwaysEntryInv, PTL

\* Whatever the criteria and the limits have become, a token that is better in every
\* respect is not refused where the other passed and is no riskier (Evaluate, AssessRisk).
THEOREM BetterStaysNoWorse == EntrySpec => []BetterIsNeverWorse
<1>1. EntryInv => BetterIsNeverWorse
  <2> SUFFICES ASSUME EntryInv, NEW t \in Tokens, NEW u \in Tokens, Better(t, u)
               PROVE  /\ criteria # NoCriteria => (Evaluate(criteria, u) = "passed"
                                                   => Evaluate(criteria, t) = "passed")
                      /\ \A amount \in Requests :
                           RiskLevel(calculateRiskScore(config.limits, t, amount))
                             <= RiskLevel(calculateRiskScore(config.limits, u, amount))
    BY DEF BetterIsNeverWorse
  <2>1. t \in TokenInfo /\ u \in TokenInfo
    BY InputsAreTyped
  <2>2. criteria # NoCriteria => criteria \in EntryCriteriaConfig
    BY DEF EntryInv, EntryTypeOK
  <2>3. config.limits \in {NoLimits} \cup PositionLimits
    BY DEF EntryInv, EntryTypeOK
  <2>4. \A amount \in Requests : amount \in Int
    BY SizingDefaults DEF Requests
  <2> QED
    BY <2>1, <2>2, <2>3, <2>4, BetterPasses, BetterIsNoRiskier
<1> QED
  BY <1>1, AlwaysEntryInv, PTL

=============================================================================
