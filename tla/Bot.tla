--------------------------------- MODULE Bot ---------------------------------
(***************************************************************************)
(* internal/app/bot.go, with the one Start and the one Stop that           *)
(* cmd/your_ex/main.go gives it.  Monitors start, stop and deliver in      *)
(* goroutines of their own; one loop trades on what they deliver.  Stop    *)
(* waits for the monitors, but not longer than ten seconds, and never for  *)
(* the loop or for a call in flight; it then closes both channels.         *)
(*                                                                         *)
(* Errors are counted, not told apart.  The two closes are one step: in    *)
(* between, nothing happens that could not happen before or after both.    *)
(***************************************************************************)
EXTENDS Integers, FiniteSets, Sequences

CONSTANTS
  Monitors,   \* the configured monitors
  Events,     \* token events
  Tradable,   \* the events of a chain whose trader is configured
  Malformed,  \* the events with a mint that is no address: geyser leaves it empty
  None,       \* no event
  EventCap,   \* capacity of eventChan
  ErrorCap,   \* capacity of errorChan
  MaxEvents,  \* bound: events delivered
  MaxErrors   \* bound: errors reported by running monitors

ASSUME ChannelsAreBuffered == {EventCap, ErrorCap} \subseteq Nat \ {0}
ASSUME BotBounds == {MaxEvents, MaxErrors} \subseteq Nat
ASSUME KindsOfEvents == Tradable \cup Malformed \subseteq Events /\ None \notin Events

VARIABLES
  mode,       \* config.Strategy.Mode
  running,    \* b.isRunning
  cancelled,  \* b.ctx is done
  closed,     \* eventChan and errorChan are closed
  start,      \* where Start is
  stop,       \* where Stop is
  at,         \* [Monitors -> where the monitor's goroutines are]
  held,       \* [Monitors -> the event it is handing over]
  stopping,   \* the monitors whose Stop has not returned
  halted,     \* the monitors whose Stop has returned
  queue,      \* eventChan
  errors,     \* how many errors errorChan holds
  loop,       \* where eventProcessingLoop is
  current,    \* the event it trades on
  counts,     \* the trade counters, and the events and errors so far
  panicked    \* the process has died

channels == <<queue, errors, closed>>
sources == <<at, held, stopping, halted>>
control == <<running, cancelled, start, stop>>
trading == <<loop, current>>
vars == <<mode, channels, sources, control, trading, counts, panicked>>

MonitorSteps == {"off", "spawned", "running", "draining", "handing", "reporting",
                 "failed", "ended"}

Init ==
  /\ mode \in {"monitor", "manual", "auto"}
  /\ running = FALSE /\ cancelled = FALSE /\ start = "idle" /\ stop = "idle"
  /\ closed = FALSE /\ queue = <<>> /\ errors = 0
  /\ at = [m \in Monitors |-> "off"] /\ held = [m \in Monitors |-> None]
  /\ stopping = {} /\ halted = {}
  /\ loop = "none" /\ current = None
  /\ counts = [delivered |-> 0, reported |-> 0, accepted |-> 0, taken |-> 0,
               trades |-> 0, successes |-> 0, failures |-> 0, skipped |-> 0]
  /\ panicked = FALSE

Monitor(m, step) == at' = [at EXCEPT ![m] = step]

\* A monitor whose Stop has returned still hands over what it has buffered.
Resting(m) == IF m \in halted THEN "draining" ELSE "running"

---------------------------------------------------------------------------
(* Start *)

Start ==
  /\ ~panicked
  /\ start = "idle"
  /\ running' = TRUE
  /\ start' = "starting"
  /\ at' = [m \in Monitors |-> "spawned"]
  /\ UNCHANGED <<mode, channels, held, stopping, halted, cancelled, stop, trading,
                 counts, panicked>>

\* The last part of Start, which then waits for a context nobody cancels.
SpawnLoops ==
  /\ ~panicked
  /\ start = "starting"
  /\ start' = "started"
  /\ loop' = "waiting"
  /\ UNCHANGED <<mode, channels, sources, running, cancelled, stop, current, counts, panicked>>

\* A monitor started after its Stop finds its own context done.
MonitorStarts(m) ==
  /\ ~panicked
  /\ at[m] = "spawned"
  /\ Monitor(m, IF m \in halted THEN "ended" ELSE "running")
  /\ UNCHANGED <<mode, channels, held, stopping, halted, control, trading, counts, panicked>>

MonitorFails(m) ==
  /\ ~panicked
  /\ at[m] = "spawned"
  /\ Monitor(m, "failed")
  /\ UNCHANGED <<mode, channels, held, stopping, halted, control, trading, counts, panicked>>

---------------------------------------------------------------------------
(* What monitors do *)

Deliver(m, e) ==
  /\ ~panicked
  /\ at[m] \in {"running", "draining"}
  /\ counts.delivered < MaxEvents
  /\ Monitor(m, "handing")
  /\ held' = [held EXCEPT ![m] = e]
  /\ counts' = [counts EXCEPT !.delivered = @ + 1]
  /\ UNCHANGED <<mode, channels, stopping, halted, control, trading, panicked>>

\* The select: queue the event, or give up at shutdown or when the channel is
\* full; a closed channel can be chosen too, and that is a panic.
HandleTokenEvent(m) ==
  /\ ~panicked
  /\ at[m] = "handing"
  /\ \/ /\ ~closed /\ Len(queue) < EventCap
        /\ queue' = Append(queue, held[m])
        /\ counts' = [counts EXCEPT !.accepted = @ + 1]
        /\ UNCHANGED panicked
     \/ /\ cancelled \/ Len(queue) = EventCap
        /\ UNCHANGED <<queue, counts, panicked>>
     \/ /\ closed
        /\ panicked' = TRUE
        /\ UNCHANGED <<queue, counts>>
  /\ Monitor(m, Resting(m))
  /\ held' = [held EXCEPT ![m] = None]
  /\ UNCHANGED <<mode, errors, closed, stopping, halted, control, trading>>

OnError(m) ==
  /\ ~panicked
  /\ at[m] \in {"running", "draining"}
  /\ counts.reported < MaxErrors
  /\ Monitor(m, "reporting")
  /\ counts' = [counts EXCEPT !.reported = @ + 1]
  /\ UNCHANGED <<mode, channels, held, stopping, halted, control, trading, panicked>>

\* The send on errorChan, of OnError and of a monitor that failed to start: it
\* blocks while the channel is full.
SendError(m) ==
  /\ ~panicked
  /\ at[m] \in {"reporting", "failed"}
  /\ IF closed
       THEN panicked' = TRUE /\ UNCHANGED <<errors, at>>
       ELSE /\ errors < ErrorCap
            /\ errors' = errors + 1
            /\ Monitor(m, IF at[m] = "failed" THEN "ended" ELSE Resting(m))
            /\ UNCHANGED panicked
  /\ UNCHANGED <<mode, queue, closed, held, stopping, halted, control, trading, counts>>

Drained(m) ==
  /\ ~panicked
  /\ at[m] = "draining"
  /\ Monitor(m, "ended")
  /\ UNCHANGED <<mode, channels, held, stopping, halted, control, trading, counts, panicked>>

---------------------------------------------------------------------------
(* eventProcessingLoop: each round chooses among what is ready *)

\* Mutant: the mints are parsed before the trader is looked up.
executeTrade_ParsesFirst(e) ==
  IF e \in Malformed
    THEN current' = e /\ panicked' = TRUE /\ UNCHANGED loop
  ELSE IF e \in Tradable
    THEN current' = e /\ loop' = "trading" /\ UNCHANGED panicked
  ELSE UNCHANGED <<trading, panicked>>

\* Without a trader for the chain there is no trade, and one for a malformed
\* mint does not survive the parsing.
executeTrade(e) ==
  IF e \notin Tradable
    THEN UNCHANGED <<trading, panicked>>
  ELSE /\ current' = e
       /\ IF e \in Malformed
            THEN panicked' = TRUE /\ UNCHANGED loop
            ELSE loop' = "trading" /\ UNCHANGED panicked

\* Receive an event and processEvent it.
TakeEvent ==
  /\ ~panicked
  /\ loop = "waiting"
  /\ queue # <<>>
  /\ queue' = Tail(queue)
  /\ IF mode = "auto"
       THEN /\ executeTrade(Head(queue))
            /\ counts' = [counts EXCEPT
                 !.taken = @ + 1, !.trades = @ + 1,
                 !.skipped = IF Head(queue) \in Tradable THEN @ ELSE @ + 1]
       ELSE /\ counts' = [counts EXCEPT !.taken = @ + 1]
            /\ UNCHANGED <<trading, panicked>>
  /\ UNCHANGED <<mode, errors, closed, sources, control>>

TakeError ==
  /\ ~panicked
  /\ loop = "waiting"
  /\ errors > 0
  /\ errors' = errors - 1
  /\ UNCHANGED <<mode, queue, closed, sources, control, trading, counts, panicked>>

\* Mutant: a failed trade ends the loop.
TradeEnds_Leaves(result) ==
  /\ ~panicked
  /\ loop = "trading"
  /\ counts' = [counts EXCEPT ![result] = @ + 1]
  /\ loop' = IF result = "failures" THEN "exited" ELSE "waiting"
  /\ current' = None
  /\ UNCHANGED <<mode, channels, sources, control, panicked>>

\* Mutant: a failure is not counted.
TradeEnds_Uncounted(result) ==
  /\ ~panicked
  /\ loop = "trading"
  /\ counts' = [counts EXCEPT !.successes = IF result = "successes" THEN @ + 1 ELSE @]
  /\ loop' = "waiting"
  /\ current' = None
  /\ UNCHANGED <<mode, channels, sources, control, panicked>>

\* executeSolanaTrade or executeBaseTrade returns.
TradeEnds(result) ==
  /\ ~panicked
  /\ loop = "trading"
  /\ counts' = [counts EXCEPT ![result] = @ + 1]
  /\ loop' = "waiting"
  /\ current' = None
  /\ UNCHANGED <<mode, channels, sources, control, panicked>>

LoopExits ==
  /\ ~panicked
  /\ loop = "waiting"
  /\ cancelled
  /\ loop' = "exited"
  /\ UNCHANGED <<mode, channels, sources, control, current, counts, panicked>>

---------------------------------------------------------------------------
(* Stop: on a signal, which may come before Start has begun *)

Stop ==
  /\ ~panicked
  /\ stop = "idle"
  /\ running' = FALSE
  /\ cancelled' = TRUE
  /\ stopping' = Monitors
  /\ stop' = "waiting"
  /\ UNCHANGED <<mode, channels, at, held, halted, start, trading, counts, panicked>>

\* A monitor's Stop returns, in its goroutine, late or not at all.
MonitorStops(m) ==
  /\ ~panicked
  /\ m \in stopping
  /\ stopping' = stopping \ {m}
  /\ halted' = halted \cup {m}
  /\ at' = [at EXCEPT ![m] = IF @ = "running" THEN "draining" ELSE @]
  /\ UNCHANGED <<mode, channels, held, control, trading, counts, panicked>>

\* Mutant: Stop waits for the monitors without a timeout.
CloseChannels_NoTimeout ==
  /\ ~panicked
  /\ stop = "waiting"
  /\ stopping = {}
  /\ stop' = "stopped"
  /\ closed' = TRUE
  /\ UNCHANGED <<mode, queue, errors, sources, running, cancelled, start, trading,
                 counts, panicked>>

\* All monitors have stopped, or ten seconds have passed.
CloseChannels ==
  /\ ~panicked
  /\ stop = "waiting"
  /\ stop' = "stopped"
  /\ closed' = TRUE
  /\ UNCHANGED <<mode, queue, errors, sources, running, cancelled, start, trading,
                 counts, panicked>>

---------------------------------------------------------------------------

Next ==
  \/ Start \/ SpawnLoops \/ TakeEvent \/ TakeError \/ LoopExits
  \/ Stop \/ CloseChannels
  \/ \E result \in {"successes", "failures"} : TradeEnds(result)
  \/ \E m \in Monitors :
       \/ MonitorStarts(m) \/ MonitorFails(m) \/ HandleTokenEvent(m) \/ OnError(m)
       \/ SendError(m) \/ Drained(m) \/ MonitorStops(m)
       \/ \E e \in Events : Deliver(m, e)

Spec == Init /\ [][Next]_vars

\* The scheduler runs what can run, the traders answer, and the ten seconds
\* pass.  select picks at random, so what is ready again and again is taken, and
\* senders blocked on a channel are served in turn.  A signal, a delivery, an
\* error and the return of a monitor's Stop are nobody's duty.
Fairness ==
  /\ WF_vars(Start) /\ WF_vars(SpawnLoops) /\ WF_vars(CloseChannels)
  /\ WF_vars(\E result \in {"successes", "failures"} : TradeEnds(result))
  /\ WF_vars(LoopExits) /\ SF_vars(TakeEvent) /\ SF_vars(TakeError)
  /\ \A m \in Monitors :
       /\ WF_vars(MonitorStarts(m) \/ MonitorFails(m))
       /\ WF_vars(HandleTokenEvent(m))
       /\ SF_vars(SendError(m))

FairSpec == Spec /\ Fairness

---------------------------------------------------------------------------
(* Properties *)

TypeOK ==
  /\ mode \in {"monitor", "manual", "auto"}
  /\ {running, cancelled, closed, panicked} \subseteq BOOLEAN
  /\ start \in {"idle", "starting", "started"}
  /\ stop \in {"idle", "waiting", "stopped"}
  /\ at \in [Monitors -> MonitorSteps]
  /\ held \in [Monitors -> Events \cup {None}]
  /\ stopping \subseteq Monitors /\ halted \subseteq Monitors
  /\ queue \in Seq(Events) /\ Len(queue) <= EventCap
  /\ errors \in 0 .. ErrorCap
  /\ loop \in {"none", "waiting", "trading", "exited"}
  /\ current \in Events \cup {None}
  /\ counts \in [{"delivered", "reported", "accepted", "taken", "trades", "successes",
                  "failures", "skipped"} -> Nat]

\* Whatever HandleTokenEvent accepted is in the channel or has been processed,
\* once, through every shutdown; and every trade begun is a success, a failure,
\* one without a trader, or the one under way.
EventsAndTradesAccounted ==
  /\ counts.accepted = counts.taken + Len(queue)
  /\ counts.trades = counts.successes + counts.failures + counts.skipped
                       + IF current # None THEN 1 ELSE 0

\* Before Stop closes the channels, the only thing that can kill the process is
\* trading on an event whose mint is no address; in the other modes, or without
\* the trader, such an event is harmless.
DiesOnlyOfAMint ==
  panicked => closed \/ (mode = "auto" /\ current \in Malformed \cap Tradable)

\* Nothing waits for ever: an accepted event is processed, unless the bot is
\* stopped, and a monitor that reports an error is not blocked, although nobody
\* reads errorChan once the loop has exited.  Stop goes on without the monitors,
\* and closing the channel releases the sender, with a panic.
NothingIsStuck ==
  /\ \A n \in 1 .. MaxEvents :
       counts.accepted >= n ~> (counts.taken >= n \/ cancelled \/ panicked)
  /\ \A m \in Monitors :
       at[m] \in {"reporting", "failed"}
         ~> (at[m] \notin {"reporting", "failed"} \/ panicked)

=============================================================================
