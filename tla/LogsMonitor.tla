---------------------------- MODULE LogsMonitor ----------------------------
(***************************************************************************)
(* internal/monitor/solana: the Pump.fun, Raydium and Orca monitors.  A    *)
(* loop dials a web socket, subscribes and reads until the connection is   *)
(* lost; each creation it reads is looked up by a goroutine of its own,    *)
(* which sends the event on a channel that another loop drains into the    *)
(* handler.  The three share this code; the Raydium monitor subscribes to  *)
(* several programs and passes over a missing connection, and only the     *)
(* Pump.fun monitor can panic in parsing a transaction.                    *)
(*                                                                         *)
(* Connections are numbered in the order they are dialled, 0 is nil.  The  *)
(* look-ups are anonymous, so they are counted by where they are.  Start   *)
(* and Stop are called once each, as the bot does, in either order and at  *)
(* the same time.  The handler is set before Start.                        *)
(***************************************************************************)
EXTENDS Integers, FiniteSets

CONSTANTS
  Programs,       \* how many programs the Raydium monitor subscribes to
  EventCapacity,  \* capacity of eventChan
  ErrorCapacity,  \* capacity of errorChan
  MaxLosses,      \* bound: connections the server loses
  MaxFailures,    \* bound: dials that fail
  MaxFetches      \* bound: creations looked up and found

ASSUME SizesArePositive ==
  {Programs, EventCapacity, ErrorCapacity} \subseteq Nat \ {0}
ASSUME BoundsAreNumbers == {MaxLosses, MaxFailures, MaxFetches} \subseteq Nat

VARIABLES
  venue,       \* which of the monitors this is
  running,     \* m.isRunning
  cancelled,   \* m.ctx is done
  conn,        \* m.wsConn
  open,        \* the connections that are open
  subscribed,  \* [connections -> programs subscribed to on it]
  loop,        \* where monitorLoop is; the connection it reads, the program it is at
  fetches,     \* [FetchSteps -> how many look-ups are there]
  queue,       \* len(eventChan)
  errors,      \* len(errorChan)
  closed,      \* the channels that are closed
  drain,       \* where eventProcessingLoop is
  start, stop, \* where Start and Stop are
  stats,       \* m.stats, and the events dropped or refused by the handler
  panicked,    \* a look-up has ended the process
  dials        \* how many dials have succeeded and failed, connections been lost, and
               \* dials been made after Stop hung up

socket == <<conn, open, subscribed, dials>>
channels == <<queue, errors>>
lifecycle == <<running, cancelled, closed, start, stop>>
vars == <<venue, socket, loop, fetches, channels, lifecycle, drain, stats, panicked>>

\* One more than is lost, and one more than Stop hangs up.
Connections == 1 .. MaxLosses + 2
Venues == {"pumpfun", "raydium", "orca"}
LoopSteps == {"none", "checking", "holding", "dialling", "subscribing", "opening",
              "reading", "failed", "dropping", "waiting", "exited"}
FetchSteps == {"asking", "reporting", "fetching", "sending"}
StopSteps == {"idle", "cancelling", "hanging up", "closing", "closing errors", "done"}

ProgramCount == IF venue = "raydium" THEN Programs ELSE 1

Init ==
  /\ venue \in Venues
  /\ running = FALSE /\ cancelled = FALSE
  /\ conn = 0 /\ open = {} /\ subscribed = [c \in Connections |-> 0]
  /\ loop = [at |-> "none", reads |-> 0, program |-> 0]
  /\ fetches = [s \in FetchSteps |-> 0]
  /\ queue = 0 /\ errors = 0 /\ closed = {}
  /\ drain = "none" /\ start = "idle" /\ stop = "idle"
  /\ stats = [total |-> 0, processed |-> 0, failed |-> 0, dropped |-> 0]
  /\ panicked = FALSE
  /\ dials = [made |-> 0, failed |-> 0, lost |-> 0, late |-> 0]

Count(field) == stats' = [stats EXCEPT ![field] = @ + 1]

---------------------------------------------------------------------------
(* Start *)

StartChecks ==
  /\ ~panicked
  /\ start = "idle"
  /\ start' = IF running THEN "done" ELSE "starting"
  /\ UNCHANGED <<venue, socket, loop, fetches, channels, running, cancelled, closed, stop,
                 drain, stats, panicked>>

\* The RPC pool has no healthy endpoint.
StartFails ==
  /\ ~panicked
  /\ start = "starting"
  /\ start' = "done"
  /\ UNCHANGED <<venue, socket, loop, fetches, channels, running, cancelled, closed, stop,
                 drain, stats, panicked>>

Start ==
  /\ ~panicked
  /\ start = "starting"
  /\ start' = "done" /\ running' = TRUE
  /\ loop' = [loop EXCEPT !.at = "checking"]
  /\ drain' = "waiting"
  /\ UNCHANGED <<venue, socket, fetches, channels, cancelled, closed, stop, stats, panicked>>

---------------------------------------------------------------------------
(* Stop *)

StopBegins ==
  /\ ~panicked
  /\ stop = "idle"
  /\ running' = FALSE /\ stop' = "cancelling"
  /\ UNCHANGED <<venue, socket, loop, fetches, channels, cancelled, closed, start,
                 drain, stats, panicked>>

StopCancels ==
  /\ ~panicked
  /\ stop = "cancelling"
  /\ cancelled' = TRUE /\ stop' = "hanging up"
  /\ UNCHANGED <<venue, socket, loop, fetches, channels, running, closed, start,
                 drain, stats, panicked>>

\* Mutant: the connection is forgotten and left open.
StopHangsUp_Forgets ==
  /\ ~panicked
  /\ stop = "hanging up"
  /\ conn' = 0 /\ stop' = "closing"
  /\ UNCHANGED <<venue, open, subscribed, dials, loop, fetches, channels, running,
                 cancelled, closed, start, drain, stats, panicked>>

StopHangsUp ==
  /\ ~panicked
  /\ stop = "hanging up"
  /\ open' = open \ {conn} /\ conn' = 0 /\ stop' = "closing"
  /\ UNCHANGED <<venue, subscribed, dials, loop, fetches, channels, running,
                 cancelled, closed, start, drain, stats, panicked>>

StopCloses(channel) ==
  /\ ~panicked
  /\ \/ channel = "events" /\ stop = "closing" /\ stop' = "closing errors"
     \/ channel = "errors" /\ stop = "closing errors" /\ stop' = "done"
  /\ closed' = closed \cup {channel}
  /\ UNCHANGED <<venue, socket, loop, fetches, channels, running, cancelled, start,
                 drain, stats, panicked>>

---------------------------------------------------------------------------
(* monitorLoop *)

LoopAt(step) == loop' = [loop EXCEPT !.at = step]

LoopOnly == UNCHANGED <<venue, fetches, channels, lifecycle, drain, stats, panicked>>

LoopChecks ==
  /\ ~panicked
  /\ loop.at = "checking"
  /\ LoopAt(IF cancelled \/ ~running THEN "exited" ELSE "holding")
  /\ LoopOnly /\ UNCHANGED socket

\* m.wsConn is read without the lock.
LoopHolds ==
  /\ ~panicked
  /\ loop.at = "holding"
  /\ loop' = [loop EXCEPT !.at = IF conn = 0 THEN "dialling" ELSE "subscribing",
                          !.program = 0]
  /\ LoopOnly /\ UNCHANGED socket

HungUp == stop \in {"closing", "closing errors", "done"}

\* gws.NewClient runs with the lock held, so Stop waits for it; it dials after Stop too.
connect ==
  /\ ~panicked
  /\ loop.at = "dialling"
  /\ dials' = [dials EXCEPT !.made = @ + 1, !.late = IF HungUp THEN @ + 1 ELSE @]
  /\ conn' = dials.made + 1 /\ open' = open \cup {dials.made + 1}
  /\ LoopAt("subscribing")
  /\ LoopOnly /\ UNCHANGED subscribed

\* Mutant: the loop gives up when it cannot connect.
connectFails_Exits ==
  /\ ~panicked
  /\ loop.at = "dialling"
  /\ dials.failed < MaxFailures
  /\ dials' = [dials EXCEPT !.failed = @ + 1]
  /\ LoopAt("exited")
  /\ LoopOnly /\ UNCHANGED <<conn, open, subscribed>>

connectFails ==
  /\ ~panicked
  /\ loop.at = "dialling"
  /\ dials.failed < MaxFailures
  /\ dials' = [dials EXCEPT !.failed = @ + 1]
  /\ LoopAt("waiting")
  /\ LoopOnly /\ UNCHANGED <<conn, open, subscribed>>

\* The tick of ReconnectDelay.
LoopWaits ==
  /\ ~panicked
  /\ loop.at = "waiting"
  /\ LoopAt("checking")
  /\ LoopOnly /\ UNCHANGED socket

Subscribed(p) ==
  loop' = [loop EXCEPT !.at = IF p = ProgramCount THEN "opening" ELSE "subscribing",
                       !.program = p]

\* A write to a closed connection fails.
subscribeToLogs(p) ==
  /\ ~panicked
  /\ loop.at = "subscribing"
  /\ p = loop.program + 1
  /\ IF conn \in open
       THEN Subscribed(p) /\ subscribed' = [subscribed EXCEPT ![conn] = p]
       ELSE /\ IF venue = "raydium" /\ conn = 0 THEN Subscribed(p) ELSE LoopAt("failed")
            /\ UNCHANGED subscribed
  /\ LoopOnly /\ UNCHANGED <<conn, open, dials>>

\* Mutant: the pointer to the connection is kept.
disconnect_Keeps ==
  open' = open \ {conn} /\ UNCHANGED conn

disconnect ==
  open' = open \ {conn} /\ conn' = 0

\* After a subscription has failed, and after readMessages has found no connection.
LoopDisconnects ==
  /\ ~panicked
  /\ loop.at \in {"failed", "dropping"}
  /\ disconnect
  /\ LoopAt(IF loop.at = "failed" THEN "waiting" ELSE "checking")
  /\ LoopOnly /\ UNCHANGED <<subscribed, dials>>

readMessages ==
  /\ ~panicked
  /\ loop.at = "opening"
  /\ loop' = [loop EXCEPT !.at = IF conn = 0 THEN "dropping" ELSE "reading", !.reads = conn]
  /\ LoopOnly /\ UNCHANGED socket

\* ReadLoop returns when the connection is closed, and m.wsConn stays as it is.
ReadLoopEnds ==
  /\ ~panicked
  /\ loop.at = "reading"
  /\ loop.reads \notin open
  /\ LoopAt("checking")
  /\ LoopOnly /\ UNCHANGED socket

\* The server or the network closes the connection.
Lose ==
  /\ ~panicked
  /\ dials.lost < MaxLosses
  /\ \E c \in open : open' = open \ {c}
  /\ dials' = [dials EXCEPT !.lost = @ + 1]
  /\ UNCHANGED <<venue, conn, subscribed, loop, fetches, channels, lifecycle, drain,
                 stats, panicked>>

---------------------------------------------------------------------------
(* The look-ups *)

\* The creations read that are looked up still, or were found.
Fetched == fetches["asking"] + fetches["reporting"] + fetches["fetching"] + stats.total

FetchMoves(from, to) ==
  /\ fetches[from] > 0
  /\ fetches' = [fetches EXCEPT ![from] = @ - 1, ![to] = @ + 1]

FetchEnds(from) ==
  /\ fetches[from] > 0
  /\ fetches' = [fetches EXCEPT ![from] = @ - 1]

\* A log notification of a creation.
OnMessage ==
  /\ ~panicked
  /\ loop.at = "reading"
  /\ loop.reads \in open
  /\ subscribed[loop.reads] > 0
  /\ Fetched < MaxFetches
  /\ fetches' = [fetches EXCEPT !["asking"] = @ + 1]
  /\ UNCHANGED <<venue, socket, loop, channels, lifecycle, drain, stats, panicked>>

\* GetEndpoint, of which some endpoint is healthy, or none.
FetchAsks ==
  /\ ~panicked
  /\ FetchMoves("asking", "fetching") \/ FetchMoves("asking", "reporting")
  /\ UNCHANGED <<venue, socket, loop, channels, lifecycle, drain, stats, panicked>>

\* Nothing receives from errorChan: a full one blocks the sender until Stop.
FetchReports ==
  /\ ~panicked
  /\ IF "errors" \in closed
       THEN fetches["reporting"] > 0 /\ panicked' = TRUE /\ UNCHANGED <<fetches, errors>>
       ELSE /\ errors < ErrorCapacity
            /\ FetchEnds("reporting") /\ errors' = errors + 1
            /\ UNCHANGED panicked
  /\ UNCHANGED <<venue, socket, loop, queue, lifecycle, drain, stats>>

\* No transaction, or one without a mint.
FetchFindsNothing ==
  /\ ~panicked
  /\ FetchEnds("fetching")
  /\ UNCHANGED <<venue, socket, loop, channels, lifecycle, drain, stats, panicked>>

\* An instruction's account index is past the message's keys, as the check is
\* of the position and not of the index; the other monitors check the index.
FetchPanics ==
  /\ ~panicked
  /\ venue = "pumpfun"
  /\ fetches["fetching"] > 0
  /\ panicked' = TRUE
  /\ UNCHANGED <<venue, socket, loop, fetches, channels, lifecycle, drain, stats>>

\* Mutant: the event is not counted.
FetchFinds_Uncounted ==
  /\ ~panicked
  /\ FetchMoves("fetching", "sending")
  /\ UNCHANGED <<venue, socket, loop, channels, lifecycle, drain, stats, panicked>>

\* The answer may have come just before the context was done.
FetchFinds ==
  /\ ~panicked
  /\ FetchMoves("fetching", "sending")
  /\ Count("total")
  /\ UNCHANGED <<venue, socket, loop, channels, lifecycle, drain, panicked>>

FetchSends ==
  /\ ~panicked
  /\ IF "events" \in closed
       THEN fetches["sending"] > 0 /\ panicked' = TRUE /\ UNCHANGED <<fetches, queue, stats>>
       ELSE /\ FetchEnds("sending")
            /\ IF queue < EventCapacity THEN queue' = queue + 1 /\ UNCHANGED stats
                                        ELSE Count("dropped") /\ UNCHANGED queue
            /\ UNCHANGED panicked
  /\ UNCHANGED <<venue, socket, loop, errors, lifecycle, drain>>

---------------------------------------------------------------------------
(* eventProcessingLoop *)

DrainTakes ==
  /\ ~panicked
  /\ drain = "waiting"
  /\ queue > 0
  /\ queue' = queue - 1 /\ drain' = "handling"
  /\ UNCHANGED <<venue, socket, loop, fetches, errors, lifecycle, stats, panicked>>

\* HandleTokenEvent returns, with or without an error.
DrainHandles ==
  /\ ~panicked
  /\ drain = "handling"
  /\ drain' = "waiting"
  /\ Count("processed") \/ Count("failed")
  /\ UNCHANGED <<venue, socket, loop, fetches, channels, lifecycle, panicked>>

DrainEnds ==
  /\ ~panicked
  /\ drain = "waiting"
  /\ queue = 0 /\ "events" \in closed
  /\ drain' = "exited"
  /\ UNCHANGED <<venue, socket, loop, fetches, channels, lifecycle, stats, panicked>>

---------------------------------------------------------------------------
StartStep == StartChecks \/ StartFails \/ Start

StopStep == StopCancels \/ StopHangsUp \/ \E channel \in {"events", "errors"} : StopCloses(channel)

monitorLoop ==
  \/ LoopChecks \/ LoopHolds \/ connect \/ connectFails \/ LoopWaits
  \/ \E p \in 1 .. Programs : subscribeToLogs(p)
  \/ LoopDisconnects \/ readMessages \/ ReadLoopEnds

fetchTokenDetails ==
  FetchAsks \/ FetchReports \/ FetchFindsNothing \/ FetchPanics \/ FetchFinds \/ FetchSends

eventProcessingLoop == DrainTakes \/ DrainHandles \/ DrainEnds

Next ==
  \/ StartStep
  \/ StopBegins
  \/ StopStep
  \/ monitorLoop
  \/ Lose
  \/ OnMessage
  \/ fetchTokenDetails
  \/ eventProcessingLoop

Spec == Init /\ [][Next]_vars

\* The goroutines are scheduled; nobody has to call Start or Stop, send a
\* message or lose a connection.
Fairness ==
  /\ WF_vars(StopStep)
  /\ WF_vars(monitorLoop)
  /\ WF_vars(eventProcessingLoop)

FairSpec == Spec /\ Fairness

---------------------------------------------------------------------------
(* Properties *)

\* The queue stays within its channel and the loops are where they can be.
TypeOK ==
  /\ venue \in Venues
  /\ {running, cancelled, panicked} \subseteq BOOLEAN
  /\ conn \in {0} \cup Connections /\ open \subseteq Connections
  /\ subscribed \in [Connections -> 0 .. Programs]
  /\ loop \in [at : LoopSteps, reads : {0} \cup Connections, program : 0 .. Programs]
  /\ fetches \in [FetchSteps -> Nat]
  /\ queue \in 0 .. EventCapacity /\ errors \in 0 .. ErrorCapacity
  /\ closed \subseteq {"events", "errors"}
  /\ drain \in {"none", "waiting", "handling", "exited"}
  /\ start \in {"idle", "starting", "done"} /\ stop \in StopSteps
  /\ stats \in [total : Nat, processed : Nat, failed : Nat, dropped : Nat]
  /\ dials \in [made : Nat, failed : Nat, lost : Nat, late : Nat]

\* However dialling, losing, disconnecting and Stop interleave, an open connection is
\* the one m.wsConn points to, and the loop is subscribing on it or reads from it: a
\* loop that checks, dials, waits or has returned leaves none open.  Stop leaves one
\* open in one case only: the loop was past its check when Stop cancelled and has dialled
\* after Stop had hung up, which nobody closes; it does so once and never again.
OpenIsUsed ==
  /\ open \subseteq {conn}
  /\ open # {} => \/ loop.at \in {"subscribing", "opening"}
                  \/ loop.at = "reading" /\ loop.reads = conn
  /\ HungUp /\ open # {} => dials.late = 1
  /\ dials.late <= 1

\* A connection the loop reads, after any number of reconnections and also
\* against a Stop that clears it between two subscriptions, has been subscribed
\* to every program: the monitor is never connected and deaf.
ReadsSubscribed ==
  loop.at = "reading" /\ loop.reads \in open => subscribed[loop.reads] = ProgramCount

\* Every event the statistics count as detected was handled, refused by the
\* handler or dropped at a full channel, is in the channel, or is on its way;
\* Stop and the loss of the connection take none away.
EventsAccounted ==
  stats.total = stats.processed + stats.failed + stats.dropped + queue + fetches["sending"]
                  + (IF drain = "handling" THEN 1 ELSE 0)

\* Until Stop is called the loop always gets back to reading an open connection,
\* when the network lets it connect in the end.  Stop ends the loop, unless it was
\* past its check and has dialled once more after Stop had hung up, which leaves
\* it reading a connection.
LoopSettles ==
  /\ loop.at \notin {"none", "exited"} ~>
       \/ loop.at = "reading" /\ loop.reads \in open
       \/ stop # "idle" \/ panicked
  /\ stop = "done" /\ start = "done" ~>
       loop.at \in {"none", "exited"} \/ conn # 0 \/ panicked

=============================================================================
