----------------------------- MODULE Dispatcher -----------------------------
(***************************************************************************)
(* internal/monitor/dispatcher.go: token events flow from the monitors'    *)
(* goroutines through deduplication and a filter into a bounded channel,   *)
(* and from there to the handlers; Start and Stop run in any goroutine.    *)
(*                                                                         *)
(* An event is its deduplication key.  A step ends where another goroutine *)
(* can tell: at each lock, atomic and channel operation.  Stop never waits *)
(* for the calls in flight, and the channels are made once, by             *)
(* NewDispatcher, so a call can meet a closed channel, which panics.       *)
(***************************************************************************)
EXTENDS Integers, FiniteSets, Sequences

CONSTANTS
  Events,       \* token events, by chain:source:mint
  Unsafe,       \* the events the configured filter refuses; {} without a filter
  Callers,      \* monitor goroutines that call HandleTokenEvent and OnError
  Owners,       \* goroutines that call Start and Stop
  Monitors,     \* the monitors that may be registered
  None,         \* no event
  QueueSize,    \* capacity of eventChan
  MaxHandlers,  \* bound: handlers added
  MaxReceived,  \* bound: calls of HandleTokenEvent that get past isRunning
  MaxStarts     \* bound: calls of Start that get past isRunning

ASSUME SizesArePositive == {QueueSize, MaxStarts} \subseteq Nat \ {0}
ASSUME BoundsAreNumbers == {MaxHandlers, MaxReceived} \subseteq Nat
ASSUME NoneIsNoEvent == None \notin Events
ASSUME UnsafeAreEvents == Unsafe \subseteq Events
ASSUME CallersAreFinite == IsFiniteSet(Callers)

VARIABLES
  running,     \* d.isRunning
  cancelled,   \* d.ctx is done
  closed,      \* eventChan and errorChan are closed
  queue,       \* eventChan
  recent,      \* the keys of d.recentEvents
  handlers,    \* len(d.handlers)
  registered,  \* the monitors in d.monitors
  monitoring,  \* the monitors that are running
  call,        \* [Callers -> where a HandleTokenEvent is, and its event]
  loop,        \* [1..MaxStarts -> where an eventLoop is]
  owner,       \* [Owners -> where a Start or a Stop is]
  stats,       \* d.stats, and the events dropped for want of a handler
  panicked,    \* the process died of a send on, or a close of, a closed channel
  passes       \* history: calls that got past deduplication since the key expired

calls == <<call, recent, passes>>
lifecycle == <<running, cancelled, closed, owner>>
monitors == <<registered, monitoring>>
vars == <<calls, lifecycle, monitors, queue, handlers, loop, stats, panicked>>

Loops == 1 .. MaxStarts
LoopSteps == {"none", "waiting", "dispatching", "calling", "exited"}
OwnerSteps == {"idle", "starting", "publishing", "stopping", "closing"}

Init ==
  /\ running = FALSE /\ cancelled = FALSE /\ closed = FALSE
  /\ queue = <<>> /\ recent = {} /\ handlers = 0
  /\ registered = {} /\ monitoring = {}
  /\ call = [c \in Callers |-> [at |-> "idle", event |-> None]]
  /\ loop = [i \in Loops |-> "none"]
  /\ owner = [o \in Owners |-> "idle"]
  /\ stats = [received |-> 0, filtered |-> 0, dispatched |-> 0, failed |-> 0, unhandled |-> 0]
  /\ panicked = FALSE
  /\ passes = [e \in Events |-> 0]

\* How many Starts have spawned their goroutines.
Started == Cardinality({i \in Loops : loop[i] # "none"})

Count(field) == stats' = [stats EXCEPT ![field] = @ + 1]

---------------------------------------------------------------------------
(* HandleTokenEvent *)

CallAt(c, step) == call' = [call EXCEPT ![c].at = step]

EndCall(c) == call' = [call EXCEPT ![c] = [at |-> "idle", event |-> None]]

\* Past the isRunning check: the event is received.
Receive(c, e) ==
  /\ ~panicked
  /\ call[c].at = "idle"
  /\ running
  /\ stats.received < MaxReceived
  /\ call' = [call EXCEPT ![c] = [at |-> "received", event |-> e]]
  /\ Count("received")
  /\ UNCHANGED <<recent, passes, lifecycle, monitors, queue, handlers, loop, panicked>>

\* isDuplicate, under the read lock, and passesFilter.
Screen(c) ==
  /\ ~panicked
  /\ call[c].at = "received"
  /\ IF call[c].event \in recent \cup Unsafe
       THEN Count("filtered") /\ EndCall(c)
       ELSE CallAt(c, "screened") /\ UNCHANGED stats
  /\ UNCHANGED <<recent, passes, lifecycle, monitors, queue, handlers, loop, panicked>>

\* Mutant: the event is not remembered.
addRecentEvent_Forgets(c) ==
  /\ ~panicked
  /\ call[c].at = "screened"
  /\ passes' = [passes EXCEPT ![call[c].event] = @ + 1]
  /\ CallAt(c, "marked")
  /\ UNCHANGED <<recent, lifecycle, monitors, queue, handlers, loop, stats, panicked>>

addRecentEvent(c) ==
  /\ ~panicked
  /\ call[c].at = "screened"
  /\ recent' = recent \cup {call[c].event}
  /\ passes' = [passes EXCEPT ![call[c].event] = @ + 1]
  /\ CallAt(c, "marked")
  /\ UNCHANGED <<lifecycle, monitors, queue, handlers, loop, stats, panicked>>

\* Mutant: a full channel drops the event without counting it.
Send_Uncounted(c) ==
  /\ ~panicked
  /\ call[c].at = "marked"
  /\ IF closed
       THEN panicked' = TRUE /\ UNCHANGED <<call, queue>>
       ELSE /\ queue' = IF Len(queue) < QueueSize
                          THEN Append(queue, call[c].event) ELSE queue
            /\ EndCall(c)
            /\ UNCHANGED panicked
  /\ UNCHANGED <<recent, passes, lifecycle, monitors, handlers, loop, stats>>

\* The select with a default: queue the event, or drop it and say so.
Send(c) ==
  /\ ~panicked
  /\ call[c].at = "marked"
  /\ IF closed
       THEN panicked' = TRUE /\ UNCHANGED <<call, queue, stats>>
       ELSE /\ IF Len(queue) < QueueSize
                 THEN queue' = Append(queue, call[c].event) /\ UNCHANGED stats
                 ELSE Count("failed") /\ UNCHANGED queue
            /\ EndCall(c)
            /\ UNCHANGED panicked
  /\ UNCHANGED <<recent, passes, lifecycle, monitors, handlers, loop>>

\* OnError never checks isRunning.  On an open channel the error is logged by
\* errorLoop or, when the channel is full, right away: nothing depends on it.
OnError(c) ==
  /\ ~panicked
  /\ call[c].at = "idle"
  /\ closed
  /\ panicked' = TRUE
  /\ UNCHANGED <<calls, lifecycle, monitors, queue, handlers, loop, stats>>

---------------------------------------------------------------------------
(* The loops that Start spawns *)

LoopAt(i, step) == loop' = [loop EXCEPT ![i] = step]

\* Mutant: the loop stops with the channel, leaving what is queued.
eventLoop_Leaves(i) ==
  /\ ~panicked
  /\ loop[i] = "waiting"
  /\ IF closed THEN LoopAt(i, "exited") /\ UNCHANGED queue
     ELSE queue # <<>> /\ queue' = Tail(queue) /\ LoopAt(i, "dispatching")
  /\ UNCHANGED <<calls, lifecycle, monitors, handlers, stats, panicked>>

\* range over eventChan: take an event, or exit once it is closed and drained.
eventLoop(i) ==
  /\ ~panicked
  /\ loop[i] = "waiting"
  /\ IF queue # <<>> THEN queue' = Tail(queue) /\ LoopAt(i, "dispatching")
     ELSE closed /\ LoopAt(i, "exited") /\ UNCHANGED queue
  /\ UNCHANGED <<calls, lifecycle, monitors, handlers, stats, panicked>>

\* dispatchToHandlers up to its copy of the handlers.
CopyHandlers(i) ==
  /\ ~panicked
  /\ loop[i] = "dispatching"
  /\ IF handlers = 0 THEN Count("unhandled") /\ LoopAt(i, "waiting")
     ELSE LoopAt(i, "calling") /\ UNCHANGED stats
  /\ UNCHANGED <<calls, lifecycle, monitors, queue, handlers, panicked>>

\* The handlers in the copy return; one success is enough.
CallHandlers(i) ==
  /\ ~panicked
  /\ loop[i] = "calling"
  /\ \E outcome \in {"dispatched", "failed"} : Count(outcome)
  /\ LoopAt(i, "waiting")
  /\ UNCHANGED <<calls, lifecycle, monitors, queue, handlers, panicked>>

\* dedupeCleanupLoop: a tick finds some keys older than the window; how old a key
\* is, is left open.
cleanupOldEvents(old) ==
  /\ ~panicked
  /\ Started > 0
  /\ ~cancelled
  /\ recent' = recent \ old
  /\ passes' = [e \in Events |-> IF e \in old THEN 0 ELSE passes[e]]
  /\ UNCHANGED <<call, lifecycle, monitors, queue, handlers, loop, stats, panicked>>

---------------------------------------------------------------------------
(* Start, Stop and the registries *)

OwnerAt(o, step) == owner' = [owner EXCEPT ![o] = step]

\* The isRunning check, which nothing else makes of another Start, and the loops.
Start(o) ==
  /\ ~panicked
  /\ owner[o] = "idle"
  /\ ~running
  /\ Started < MaxStarts
  /\ LoopAt(Started + 1, "waiting")
  /\ OwnerAt(o, "starting")
  /\ UNCHANGED <<calls, running, cancelled, closed, monitors, queue, handlers, stats, panicked>>

\* Under monitorsMu: the monitors start one after the other until one fails, as
\* one that is running does; then Start turns into Stop.
StartMonitors(o) ==
  /\ ~panicked
  /\ owner[o] = "starting"
  /\ \E ok \in SUBSET (registered \ monitoring) :
       /\ monitoring' = monitoring \cup ok
       /\ IF ok = registered
            THEN OwnerAt(o, "publishing") /\ UNCHANGED <<running, cancelled>>
            ELSE OwnerAt(o, "stopping") /\ running' = FALSE /\ cancelled' = TRUE
  /\ UNCHANGED <<calls, closed, registered, queue, handlers, loop, stats, panicked>>

\* Only now are events accepted, whatever has happened since the check.
PublishRunning(o) ==
  /\ ~panicked
  /\ owner[o] = "publishing"
  /\ running' = TRUE
  /\ OwnerAt(o, "idle")
  /\ UNCHANGED <<calls, cancelled, closed, monitors, queue, handlers, loop, stats, panicked>>

\* Stop asks nothing: it may be called before Start, during it, or twice.
Stop(o) ==
  /\ ~panicked
  /\ owner[o] = "idle"
  /\ running' = FALSE
  /\ cancelled' = TRUE
  /\ OwnerAt(o, "stopping")
  /\ UNCHANGED <<calls, closed, monitors, queue, handlers, loop, stats, panicked>>

StopMonitors(o) ==
  /\ ~panicked
  /\ owner[o] = "stopping"
  /\ monitoring' = monitoring \ registered
  /\ OwnerAt(o, "closing")
  /\ UNCHANGED <<calls, running, cancelled, closed, registered, queue, handlers, loop,
                 stats, panicked>>

CloseChannels(o) ==
  /\ ~panicked
  /\ owner[o] = "closing"
  /\ IF closed THEN panicked' = TRUE /\ UNCHANGED <<closed, owner>>
     ELSE closed' = TRUE /\ OwnerAt(o, "idle") /\ UNCHANGED panicked
  /\ UNCHANGED <<calls, running, cancelled, monitors, queue, handlers, loop, stats>>

\* A monitor that is not running joins; Start will find it.
RegisterMonitor(m) ==
  /\ ~panicked
  /\ m \notin registered
  /\ registered' = registered \cup {m}
  /\ UNCHANGED <<calls, lifecycle, monitoring, queue, handlers, loop, stats, panicked>>

\* Mutant: the monitor is forgotten without being stopped.
UnregisterMonitor_Running(m) ==
  /\ ~panicked
  /\ m \in registered
  /\ registered' = registered \ {m}
  /\ UNCHANGED <<calls, lifecycle, monitoring, queue, handlers, loop, stats, panicked>>

UnregisterMonitor(m) ==
  /\ ~panicked
  /\ m \in registered
  /\ registered' = registered \ {m}
  /\ monitoring' = monitoring \ {m}
  /\ UNCHANGED <<calls, lifecycle, queue, handlers, loop, stats, panicked>>

AddHandler ==
  /\ ~panicked
  /\ handlers < MaxHandlers
  /\ handlers' = handlers + 1
  /\ UNCHANGED <<calls, lifecycle, monitors, queue, loop, stats, panicked>>

RemoveHandler ==
  /\ ~panicked
  /\ handlers > 0
  /\ handlers' = handlers - 1
  /\ UNCHANGED <<calls, lifecycle, monitors, queue, loop, stats, panicked>>

---------------------------------------------------------------------------
CallStep(c) == Screen(c) \/ addRecentEvent(c) \/ Send(c)
LoopStep(i) == eventLoop(i) \/ CopyHandlers(i) \/ CallHandlers(i)
OwnerStep(o) == StartMonitors(o) \/ PublishRunning(o) \/ StopMonitors(o) \/ CloseChannels(o)

Next ==
  \/ \E c \in Callers : CallStep(c) \/ OnError(c) \/ \E e \in Events : Receive(c, e)
  \/ \E i \in Loops : LoopStep(i)
  \/ \E o \in Owners : OwnerStep(o) \/ Start(o) \/ Stop(o)
  \/ \E m \in Monitors : RegisterMonitor(m) \/ UnregisterMonitor(m)
  \/ \E old \in SUBSET recent \ {{}} : cleanupOldEvents(old)
  \/ AddHandler \/ RemoveHandler

Spec == Init /\ [][Next]_vars

\* A goroutine that can go on does; a handler that is called returns.  Nothing
\* makes anybody call Start, Stop or HandleTokenEvent.
Fairness ==
  /\ \A c \in Callers : WF_vars(CallStep(c))
  /\ \A i \in Loops : WF_vars(LoopStep(i))
  /\ \A o \in Owners : WF_vars(OwnerStep(o))

FairSpec == Spec /\ Fairness

---------------------------------------------------------------------------
(* Properties *)

TypeOK ==
  /\ {running, cancelled, closed, panicked} \subseteq BOOLEAN
  /\ queue \in Seq(Events) /\ Len(queue) <= QueueSize
  /\ recent \subseteq Events
  /\ handlers \in 0 .. MaxHandlers
  /\ registered \subseteq Monitors /\ monitoring \subseteq Monitors
  /\ call \in [Callers -> [at : {"idle", "received", "screened", "marked"},
                           event : Events \cup {None}]]
  /\ loop \in [Loops -> LoopSteps]
  /\ owner \in [Owners -> OwnerSteps]
  /\ stats \in [{"received", "filtered", "dispatched", "failed", "unhandled"} -> Nat]
  /\ passes \in [Events -> Nat]

InFlight == {c \in Callers : call[c].at # "idle"}
Dispatching == {i \in Loops : loop[i] \in {"dispatching", "calling"}}

\* No event is lost or counted twice, across restarts and even where a call dies
\* of a closed channel: each one received is filtered, dispatched, failed, dropped
\* for want of a handler, queued, or in somebody's hands.
EventsAccounted ==
  stats.received = stats.filtered + stats.dispatched + stats.failed + stats.unhandled
                   + Len(queue) + Cardinality(InFlight) + Cardinality(Dispatching)

\* Deduplication reads recentEvents under one lock and writes it under another: an
\* event passes it at most once for each goroutine that can be between the two,
\* however often it arrives before its key expires.
PassesBounded == \A e \in Events : passes[e] <= Cardinality(Callers)

\* No monitor is left running behind the dispatcher's back: a running monitor is
\* registered, and unless a Start or a Stop is under way the dispatcher is running.
NoOrphanMonitor ==
  /\ monitoring \subseteq registered
  /\ monitoring # {} /\ ~running /\ ~panicked => \E o \in Owners : owner[o] # "idle"

\* Stop loses nothing that was queued: once the channel is closed, the loops hand
\* what is left in it to the handlers and exit.
Drains ==
  closed ~> \/ panicked
            \/ queue = <<>> /\ \A i \in Loops : loop[i] \in {"none", "exited"}
=============================================================================
