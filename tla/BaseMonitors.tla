---------------------------- MODULE BaseMonitors ----------------------------
(***************************************************************************)
(* internal/monitor/base: the monitor of the Uniswap factory, that of the  *)
(* pending transactions, and the event subscription with its block         *)
(* tracker.  They share nothing, so a behaviour shows one of them: source  *)
(* says which.  The first two show the loop that dials, subscribes, reads  *)
(* and dials again, which the third has too; there a lost connection is    *)
(* the loss of the heads it carried (Lose, in BlockTracker).               *)
(*                                                                         *)
(* Messages are handled by the read loop itself, so that nothing is read   *)
(* while the node is asked about one of them.  Connections are numbered as *)
(* they are dialled, 0 is nil.  Start and Stop are called once each, in    *)
(* either order and at the same time, the handler is set before Start.     *)
(***************************************************************************)
EXTENDS BlockTracker, FiniteSets

CONSTANTS
  Hashes,         \* transactions the node announces
  NoHash,         \* asking for no transaction
  Uniswap,        \* those among them isUniswapTransaction accepts
  Sender, Price,  \* [Hashes -> who sent them], [Hashes -> their gas price]
  TxLifetime,     \* five minutes
  CleanupPeriod,  \* the ticker of pendingTxCleanup
  EventCapacity,  \* capacity of eventChan
  MaxLosses,      \* bound: connections the server loses
  MaxFailures,    \* bound: dials that fail
  MaxEvents,      \* bound: events detected
  MaxFrontruns    \* bound: where frontrunDetected stops being told apart

ASSUME MonitorSizes ==
  /\ {TxLifetime, CleanupPeriod, EventCapacity} \subseteq Nat \ {0}
  /\ {MaxLosses, MaxFailures, MaxEvents, MaxFrontruns} \subseteq Nat
  /\ Uniswap \subseteq Hashes /\ NoHash \notin Hashes

VARIABLES
  source,      \* which monitor this is
  running,     \* m.isRunning
  cancelled,   \* m.ctx is done
  conn,        \* m.wsConn
  open,        \* the connections that are open
  dials,       \* how many dials have succeeded and failed, and connections been lost
  loop,        \* where monitorLoop is, and the connection it reads
  start, stop, \* where Start and Stop are
  closed,      \* eventChan is closed
  queue,       \* len(eventChan)
  drain,       \* where eventProcessingLoop is
  stats,       \* m.stats, and the events dropped or refused by the handler
  pendingTxs,  \* [hashes tracked -> the time since they were first seen]
  asking,      \* the hash processPendingTransaction asks the node about
  frontruns,   \* frontrunDetected
  elapsed,     \* the time since the last tick of pendingTxCleanup
  panicked     \* an event was sent on the closed channel

socket == <<conn, open, dials>>
lifecycle == <<running, cancelled, start, stop, closed>>
delivery == <<queue, drain, stats>>
mempool == <<pendingTxs, asking, frontruns, elapsed>>
connection == <<source, lifecycle, socket, loop, delivery, mempool, panicked>>
baseVars == <<connection, trackerVars>>

Connections == 1 .. MaxLosses + 2

BaseInit ==
  /\ source \in {"uniswap", "mempool", "events"}
  /\ running = FALSE /\ cancelled = FALSE
  /\ conn = 0 /\ open = {}
  /\ dials = [made |-> 0, failed |-> 0, lost |-> 0]
  /\ loop = [at |-> "none", reads |-> 0]
  /\ start = "idle" /\ stop = "idle" /\ closed = FALSE
  /\ queue = 0 /\ drain = "none"
  /\ stats = [total |-> 0, processed |-> 0, refused |-> 0, dropped |-> 0]
  /\ pendingTxs = [h \in {} |-> 0] /\ asking = NoHash /\ frontruns = 0 /\ elapsed = 0
  /\ panicked = FALSE
  /\ TrackerInit

\* What every step of the first two monitors leaves alone.
Connected == source # "events" /\ ~panicked /\ UNCHANGED <<source, trackerVars>>

---------------------------------------------------------------------------
(* Start and Stop *)

\* An endpoint may be missing; Start after Stop finds isRunning false and runs on
\* a context that is done.
Start(fails) ==
  /\ Connected /\ start = "idle"
  /\ start' = "done"
  /\ IF running \/ fails
     THEN UNCHANGED <<running, loop, drain>>
     ELSE /\ running' = TRUE
          /\ loop' = [loop EXCEPT !.at = "checking"]
          /\ drain' = "waiting"
  /\ UNCHANGED <<cancelled, stop, closed, socket, queue, stats, mempool, panicked>>

StopCancels ==
  /\ Connected /\ stop = "idle"
  /\ stop' = "hanging up"
  /\ running' = FALSE /\ cancelled' = TRUE
  /\ UNCHANGED <<start, closed, socket, loop, delivery, mempool, panicked>>

\* The connection is closed and forgotten, under wsMu.
HangUp == open' = open \ {conn} /\ conn' = 0

\* Mutant: the connection is forgotten and left open.
StopHangsUp_Forgets ==
  /\ Connected /\ stop = "hanging up"
  /\ stop' = "closing"
  /\ conn' = 0
  /\ UNCHANGED <<running, cancelled, start, closed, open, dials, loop, delivery, mempool,
                 panicked>>

StopHangsUp ==
  /\ Connected /\ stop = "hanging up"
  /\ stop' = "closing"
  /\ HangUp
  /\ UNCHANGED <<running, cancelled, start, closed, dials, loop, delivery, mempool, panicked>>

StopCloses ==
  /\ Connected /\ stop = "closing"
  /\ stop' = "done" /\ closed' = TRUE
  /\ UNCHANGED <<running, cancelled, start, socket, loop, delivery, mempool, panicked>>

---------------------------------------------------------------------------
(* monitorLoop *)

Goto(step) == loop' = [loop EXCEPT !.at = step]

\* connected is read under the lock, and used after it.
LoopChecks ==
  /\ Connected /\ loop.at = "checking"
  /\ Goto(IF cancelled \/ ~running THEN "exited"
          ELSE IF conn = 0 THEN "dialling" ELSE "subscribing")
  /\ UNCHANGED <<lifecycle, socket, delivery, mempool, panicked>>

connect ==
  /\ Connected /\ loop.at = "dialling" /\ dials.made < Cardinality(Connections)
  /\ conn' = dials.made + 1
  /\ open' = open \cup {conn'}
  /\ dials' = [dials EXCEPT !.made = @ + 1]
  /\ Goto("subscribing")
  /\ UNCHANGED <<lifecycle, delivery, mempool, panicked>>

connectFails ==
  /\ Connected /\ loop.at = "dialling" /\ dials.failed < MaxFailures
  /\ dials' = [dials EXCEPT !.failed = @ + 1]
  /\ Goto("waiting")
  /\ UNCHANGED <<lifecycle, conn, open, delivery, mempool, panicked>>

\* The requests are written under wsMu.
subscribe ==
  /\ Connected /\ loop.at = "subscribing"
  /\ Goto(IF conn \in open THEN "reading messages" ELSE "disconnecting")
  /\ UNCHANGED <<lifecycle, socket, delivery, mempool, panicked>>

readMessages ==
  /\ Connected /\ loop.at = "reading messages"
  /\ loop' = IF conn = 0 THEN [loop EXCEPT !.at = "dropping"]
             ELSE [at |-> "reading", reads |-> conn]
  /\ UNCHANGED <<lifecycle, socket, delivery, mempool, panicked>>

\* The read loop ends without an error, and the loop goes round.
ReadEnds ==
  /\ Connected /\ loop.at = "reading" /\ loop.reads \notin open
  /\ loop' = [at |-> "checking", reads |-> 0]
  /\ UNCHANGED <<lifecycle, socket, delivery, mempool, panicked>>

\* Mutant: a connection that was lost is kept.
disconnect_Keeps ==
  /\ Connected /\ loop.at \in {"disconnecting", "dropping"}
  /\ Goto(IF loop.at = "disconnecting" THEN "waiting" ELSE "checking")
  /\ UNCHANGED <<lifecycle, socket, delivery, mempool, panicked>>

\* After a failed subscription the loop waits for its ticker, after a failed read
\* it does not.
disconnect ==
  /\ Connected /\ loop.at \in {"disconnecting", "dropping"}
  /\ HangUp
  /\ Goto(IF loop.at = "disconnecting" THEN "waiting" ELSE "checking")
  /\ UNCHANGED <<lifecycle, dials, delivery, mempool, panicked>>

LoopTicks ==
  /\ Connected /\ loop.at = "waiting"
  /\ Goto("checking")
  /\ UNCHANGED <<lifecycle, socket, delivery, mempool, panicked>>

\* The server or the network drops a connection.
ConnectionLost(c) ==
  /\ Connected /\ c \in open /\ dials.lost < MaxLosses
  /\ open' = open \ {c}
  /\ dials' = [dials EXCEPT !.lost = @ + 1]
  /\ UNCHANGED <<lifecycle, conn, loop, delivery, mempool, panicked>>

Reads == loop.at = "reading" /\ loop.reads \in open

---------------------------------------------------------------------------
(* The Uniswap monitor: processLogEvent and eventProcessingLoop *)

\* A log that parses is of a pair with a base token; its metadata is asked for now.
LogArrives ==
  /\ Connected /\ source = "uniswap"
  /\ Reads /\ stats.total < MaxEvents
  /\ Goto("fetching metadata")
  /\ UNCHANGED <<lifecycle, socket, delivery, mempool, panicked>>

\* The event goes out whether there is metadata or not, and is dropped when the
\* channel is full.  Sending on a closed channel panics.
SendEvent ==
  /\ Connected /\ loop.at = "fetching metadata"
  /\ Goto("reading")
  /\ panicked' = closed
  /\ IF queue < EventCapacity
     THEN queue' = queue + 1 /\ stats' = [stats EXCEPT !.total = @ + 1]
     ELSE queue' = queue /\ stats' = [stats EXCEPT !.total = @ + 1, !.dropped = @ + 1]
  /\ UNCHANGED <<lifecycle, socket, drain, mempool>>

Receive ==
  /\ Connected /\ drain = "waiting"
  /\ IF queue > 0 THEN queue' = queue - 1 /\ drain' = "handling"
     ELSE closed /\ drain' = "exited" /\ UNCHANGED queue
  /\ UNCHANGED <<lifecycle, socket, loop, stats, mempool, panicked>>

Handled(outcome) ==
  /\ Connected /\ drain = "handling"
  /\ drain' = "waiting"
  /\ stats' = [stats EXCEPT ![outcome] = @ + 1]
  /\ UNCHANGED <<lifecycle, socket, loop, queue, mempool, panicked>>

---------------------------------------------------------------------------
(* The mempool monitor: processPendingTransaction and its cleanup *)

HashArrives(h) ==
  /\ Connected /\ source = "mempool"
  /\ Reads
  /\ asking' = h
  /\ Goto("asking")
  /\ UNCHANGED <<lifecycle, socket, delivery, pendingTxs, frontruns, elapsed, panicked>>

\* Each tracked transaction of the sender that pays less counts one more.
Outbid(h, tracked) ==
  {g \in DOMAIN tracked \ {h} : Sender[g] = Sender[h] /\ Price[h] > Price[g]}

\* The node may not know the transaction any more, or have mined it.
processPendingTransaction(pending) ==
  /\ Connected /\ loop.at = "asking"
  /\ Goto("reading")
  /\ asking' = NoHash
  /\ IF pending /\ asking \in Uniswap
     THEN /\ pendingTxs' = Put(pendingTxs, asking, 0)
          /\ LET counted == frontruns + Cardinality(Outbid(asking, pendingTxs))
             IN  frontruns' = IF counted > MaxFrontruns THEN MaxFrontruns ELSE counted
     ELSE UNCHANGED <<pendingTxs, frontruns>>
  /\ UNCHANGED <<lifecycle, socket, delivery, elapsed, panicked>>

CleanupRuns == start = "done" /\ loop.at # "none" /\ ~cancelled

\* Time passes, but not over a tick of the ticker.
Tick ==
  /\ Connected /\ source = "mempool" /\ CleanupRuns
  /\ elapsed < CleanupPeriod
  /\ elapsed' = elapsed + 1
  /\ pendingTxs' = [h \in DOMAIN pendingTxs |-> pendingTxs[h] + 1]
  /\ UNCHANGED <<lifecycle, socket, loop, delivery, asking, frontruns, panicked>>

\* Mutant: the cutoff is one period too far back.
cleanupOldPendingTxs_Late ==
  /\ Connected /\ source = "mempool" /\ CleanupRuns
  /\ elapsed = CleanupPeriod
  /\ elapsed' = 0
  /\ pendingTxs' = Restrict(pendingTxs, {h \in DOMAIN pendingTxs :
                                           pendingTxs[h] <= TxLifetime + CleanupPeriod})
  /\ UNCHANGED <<lifecycle, socket, loop, delivery, asking, frontruns, panicked>>

cleanupOldPendingTxs ==
  /\ Connected /\ source = "mempool" /\ CleanupRuns
  /\ elapsed = CleanupPeriod
  /\ elapsed' = 0
  /\ pendingTxs' = Restrict(pendingTxs, {h \in DOMAIN pendingTxs : pendingTxs[h] <= TxLifetime})
  /\ UNCHANGED <<lifecycle, socket, loop, delivery, asking, frontruns, panicked>>

---------------------------------------------------------------------------

LoopNext ==
  \/ LoopChecks \/ connect \/ connectFails \/ subscribe \/ readMessages \/ ReadEnds
  \/ disconnect \/ LoopTicks
  \/ SendEvent
  \/ \E pending \in BOOLEAN : processPendingTransaction(pending)

DrainNext == Receive \/ \E outcome \in {"processed", "refused"} : Handled(outcome)

StopNext == StopHangsUp \/ StopCloses

BaseNext ==
  \/ \E fails \in BOOLEAN : Start(fails)
  \/ StopCancels \/ StopNext
  \/ LoopNext \/ DrainNext
  \/ \E c \in Connections : ConnectionLost(c)
  \/ LogArrives
  \/ \E h \in Hashes : HashArrives(h)
  \/ Tick \/ cleanupOldPendingTxs
  \/ source = "events" /\ TrackerNext /\ UNCHANGED connection

\* The goroutines are scheduled, a dial succeeds in the end, and so does the
\* fetch of each block, for as long as the check is run again and again.
Events(A) == source = "events" /\ A /\ UNCHANGED connection

BaseFairness ==
  /\ WF_baseVars(LoopNext) /\ WF_baseVars(DrainNext) /\ WF_baseVars(StopNext)
  /\ WF_baseVars(Events(CheckBegins)) /\ WF_baseVars(Events(cleanupOldBlocks))
  /\ WF_baseVars(Events(Fetch \/ FetchFails)) /\ WF_baseVars(Events(Compare \/ Unmark \/ Replace))
  /\ \A k \in 0 .. Depth : SF_baseVars(Events(Fetch /\ check.number + k = check.latest))

BaseSpec == BaseInit /\ [][BaseNext]_baseVars /\ BaseFairness

---------------------------------------------------------------------------
(* Properties *)

SocketTypes ==
  /\ conn \in Connections \cup {0} /\ open \subseteq Connections
  /\ dials \in [made : 0 .. Cardinality(Connections), failed : Nat, lost : Nat]
  /\ loop \in [at : {"none", "checking", "dialling", "subscribing", "reading messages", "reading",
                    "disconnecting", "dropping", "waiting", "fetching metadata", "asking", "exited"},
              reads : Connections \cup {0}]

DeliveryTypes ==
  /\ {running, cancelled, closed, panicked} \subseteq BOOLEAN
  /\ start \in {"idle", "done"} /\ stop \in {"idle", "hanging up", "closing", "done"}
  /\ queue \in 0 .. EventCapacity /\ drain \in {"none", "waiting", "handling", "exited"}
  /\ stats \in [total : Nat, processed : Nat, refused : Nat, dropped : Nat]

MempoolTypes ==
  /\ DOMAIN pendingTxs \subseteq Uniswap /\ pendingTxs \in [DOMAIN pendingTxs -> Nat]
  /\ asking \in Hashes \cup {NoHash} /\ frontruns \in 0 .. MaxFrontruns
  /\ elapsed \in 0 .. CleanupPeriod

MonitorTypeOK ==
  /\ source \in {"uniswap", "mempool", "events"}
  /\ SocketTypes /\ DeliveryTypes /\ MempoolTypes

BaseTypeOK == MonitorTypeOK /\ TrackerTypeOK

\* A monitor that runs reads from an open connection in the end, or is stopped:
\* the read loop that ends without an error goes on to a subscription that fails,
\* hangs up and dials again.  After Stop the loop ends, unless it was dialling
\* while Stop hung up: then it subscribes and reads on the connection Stop never
\* saw, or the event it was about to send kills the process (monitorLoop, Stop).
LoopSettles ==
  /\ (running /\ ~Reads) ~> (Reads \/ cancelled \/ panicked)
  /\ (stop = "done" /\ loop.at # "none") ~>
       (loop.at = "exited" \/ panicked \/ (Reads /\ conn = loop.reads))

\* While its cleanup runs, a pending transaction is forgotten one period after
\* its lifetime at the latest, however often others are announced.
PendingIsForgotten ==
  ~cancelled => \A h \in DOMAIN pendingTxs : pendingTxs[h] <= TxLifetime + CleanupPeriod

\* The comparison of an active check that nothing disturbed leaves every block it
\* covers, and that is tracked, with the node's own header; the logs of those before
\* the last are passed over from then on, for the mark has gone with the header.  The
\* exception is a block whose mark a head has written between the two writes of a
\* check, and which keeps that head's mark on another's header (detectReorgs).
CheckSettles ==
  check.at = "fetching" /\ check.number > check.latest /\ quiet =>
    \A n \in DOMAIN blocks : n \in Minus(lastBlock, Depth) .. lastBlock =>
      /\ blocks[n] = [block |-> chain[n], whole |-> TRUE]
      /\ n = lastBlock \/ n \in raced \/ Skips(n)

\* Blocks of the window that are tracked without their header, or with that of a
\* block the chain has dropped, do not stay so: once the chain rests, the checks
\* settle all of them (reorgDetectionLoop).
Stale(n) ==
  /\ n \in DOMAIN blocks /\ n \in Minus(lastBlock, Depth) .. lastBlock
  /\ blocks[n] # [block |-> chain[n], whole |-> TRUE]

StaleIsReplaced == (\E n \in DOMAIN blocks : Stale(n)) ~> ~(\E n \in DOMAIN blocks : Stale(n))

=============================================================================
