--------------------------- MODULE NetworkProofs ---------------------------
(***************************************************************************)
(* Proofs about the program's two uses of the network.                     *)
(*                                                                         *)
(* LogsMonitor: its types, that an open connection is the one the loop     *)
(* uses and that Stop leaves one late dial open at most, that what is read *)
(* has been subscribed to, and that every event counted is accounted for,  *)
(* for any number of programs, losses and look-ups.                        *)
(*                                                                         *)
(* RpcPool: that no error is taken off twice and that an average is one of *)
(* latencies, for any number of endpoints, requests and overlapping        *)
(* checks.  The lock of an endpoint has one holder (LockIsHeld), so that   *)
(* the errors a check has read are still counted when it takes them off,   *)
(* and the requests a sum was taken for when it is divided.                *)
(***************************************************************************)
EXTENDS LogsMonitor, RpcPool, TLAPS

(* LogsMonitor *)

\* A connection is dialled only when one has been lost or hung up, so that the
\* connections are as many as Connections says.
DialsBounded ==
  dials.made <= dials.lost + (IF open # {} THEN 1 ELSE 0) + (IF HungUp THEN 1 ELSE 0)

\* A loop past its check is past the check of a context that was not cancelled, so
\* that it has dialled after Stop hung up once at most, and only that dial is open then.
LateInv ==
  /\ stop \in {"hanging up", "closing", "closing errors", "done"} => cancelled
  /\ ~HungUp \/ loop.at \in {"holding", "dialling"} => dials.late = 0
  /\ dials.late <= 1
  /\ HungUp /\ open # {} => dials.late = 1

\* What the loop knows of the connection at each of its steps.
LoopInv ==
  /\ start # "done" => loop.at = "none"
  /\ loop.at \in {"none", "checking", "holding", "dialling", "failed", "dropping", "waiting",
                 "exited"} => open = {}
  /\ loop.at \in {"none", "dialling", "dropping"} => conn = 0
  /\ loop.at = "dialling" => loop.program = 0
  /\ loop.at = "subscribing" => loop.program < ProgramCount
  /\ loop.at = "subscribing" => \A c \in open : subscribed[c] = loop.program
  /\ loop.at \in {"opening", "reading"} => \A c \in open : subscribed[c] = ProgramCount
  /\ loop.at = "reading" => conn \in {0, loop.reads}

SocketInv ==
  /\ open \subseteq {conn}
  /\ dials.lost <= MaxLosses
  /\ dials.made >= conn
  /\ \A c \in Connections : c > dials.made => subscribed[c] = 0
  /\ DialsBounded

Inv == TypeOK /\ SocketInv /\ LoopInv /\ LateInv

Dialled == [made : Nat, failed : Nat, lost : Nat, late : Nat]

LoopType == [at : LoopSteps, reads : {0} \cup Connections, program : 0 .. Programs]

---------------------------------------------------------------------------
(* What the actions do to the structures they change *)

LEMMA ConnectionsAreNumbers == Connections \subseteq Nat /\ 0 \notin Connections
BY BoundsAreNumbers DEF Connections

LEMMA CountsPrograms ==
  ASSUME TypeOK
  PROVE  ProgramCount \in 1 .. Programs
BY SizesArePositive DEF TypeOK, ProgramCount

\* LoopAt moves the loop and changes nothing else about it.
LEMMA LoopMoves ==
  ASSUME TypeOK, NEW step \in LoopSteps, LoopAt(step)
  PROVE  /\ loop' \in LoopType
         /\ loop'.at = step /\ loop'.reads = loop.reads /\ loop'.program = loop.program
BY DEF LoopAt, LoopType, TypeOK

\* So does moving it on to a program.
LEMMA LoopMovesTo ==
  ASSUME TypeOK, NEW step \in LoopSteps, NEW p \in 0 .. Programs,
         loop' = [loop EXCEPT !.at = step, !.program = p]
  PROVE  /\ loop' \in LoopType
         /\ loop'.at = step /\ loop'.reads = loop.reads /\ loop'.program = p
<1> DEFINE b == [loop EXCEPT !.at = step]
<1>1. b \in LoopType /\ b.at = step /\ b.reads = loop.reads
  BY DEF LoopType, TypeOK
<1>2. loop' = [b EXCEPT !.program = p]
  BY DEF TypeOK
<1> HIDE DEF b
<1> QED
  BY <1>1, <1>2 DEF LoopType

\* ReadLoop begins on the connection.
LEMMA LoopReads ==
  ASSUME TypeOK, NEW step \in LoopSteps, NEW c \in {0} \cup Connections,
         loop' = [loop EXCEPT !.at = step, !.reads = c]
  PROVE  loop' \in LoopType /\ loop'.at = step /\ loop'.reads = c
<1> DEFINE b == [loop EXCEPT !.at = step]
<1>1. b \in LoopType /\ b.at = step
  BY DEF LoopType, TypeOK
<1>2. loop' = [b EXCEPT !.reads = c]
  BY DEF TypeOK
<1> HIDE DEF b
<1> QED
  BY <1>1, <1>2 DEF LoopType

LEMMA FetchCounts ==
  ASSUME TypeOK, NEW from \in FetchSteps, NEW to \in FetchSteps, from # to,
         FetchMoves(from, to)
  PROVE  /\ fetches' \in [FetchSteps -> Nat]
         /\ fetches'[from] = fetches[from] - 1 /\ fetches'[to] = fetches[to] + 1
         /\ \A s \in FetchSteps \ {from, to} : fetches'[s] = fetches[s]
<1> DEFINE b == [fetches EXCEPT ![from] = fetches[from] - 1]
<1>1. b \in [FetchSteps -> Nat] /\ b[from] = fetches[from] - 1
      /\ \A s \in FetchSteps \ {from} : b[s] = fetches[s]
  BY DEF FetchMoves, TypeOK
<1>2. fetches' = [b EXCEPT ![to] = b[to] + 1]
  BY DEF FetchMoves, TypeOK
<1> HIDE DEF b
<1> QED
  BY <1>1, <1>2

LEMMA FetchCountsDown ==
  ASSUME TypeOK, NEW from \in FetchSteps, FetchEnds(from)
  PROVE  /\ fetches' \in [FetchSteps -> Nat] /\ fetches'[from] = fetches[from] - 1
         /\ \A s \in FetchSteps \ {from} : fetches'[s] = fetches[s]
BY DEF FetchEnds, TypeOK

LEMMA StatsCount ==
  ASSUME TypeOK
  PROVE  /\ Count("total") => stats' \in [total : Nat, processed : Nat, failed : Nat, dropped : Nat]
              /\ stats'.total = stats.total + 1 /\ stats'.processed = stats.processed
              /\ stats'.failed = stats.failed /\ stats'.dropped = stats.dropped
         /\ Count("processed") => stats' \in [total : Nat, processed : Nat, failed : Nat, dropped : Nat]
              /\ stats'.total = stats.total /\ stats'.processed = stats.processed + 1
              /\ stats'.failed = stats.failed /\ stats'.dropped = stats.dropped
         /\ Count("failed") => stats' \in [total : Nat, processed : Nat, failed : Nat, dropped : Nat]
              /\ stats'.total = stats.total /\ stats'.processed = stats.processed
              /\ stats'.failed = stats.failed + 1 /\ stats'.dropped = stats.dropped
         /\ Count("dropped") => stats' \in [total : Nat, processed : Nat, failed : Nat, dropped : Nat]
              /\ stats'.total = stats.total /\ stats'.processed = stats.processed
              /\ stats'.failed = stats.failed /\ stats'.dropped = stats.dropped + 1
BY DEF Count, TypeOK

---------------------------------------------------------------------------
(* The inductive invariant *)

LEMMA InitInv == Init => Inv
<1> SUFFICES ASSUME Init PROVE Inv
  OBVIOUS
<1>1. TypeOK
  <2>1. subscribed \in [Connections -> 0 .. Programs] /\ fetches \in [FetchSteps -> Nat]
    BY SizesArePositive DEF Init
  <2>2. loop \in [at : LoopSteps, reads : {0} \cup Connections, program : 0 .. Programs]
    BY SizesArePositive DEF Init, LoopSteps
  <2>3. /\ stats \in [total : Nat, processed : Nat, failed : Nat, dropped : Nat]
        /\ dials \in Dialled
    BY DEF Init, Dialled
  <2>4. queue \in 0 .. EventCapacity /\ errors \in 0 .. ErrorCapacity
    BY SizesArePositive DEF Init
  <2> QED
    BY <2>1, <2>2, <2>3, <2>4 DEF Init, TypeOK, StopSteps, Dialled
<1>2. SocketInv
  BY BoundsAreNumbers DEF Init, SocketInv, DialsBounded, HungUp, Connections
<1> QED
  BY <1>1, <1>2 DEF Init, Inv, LoopInv, LateInv, HungUp

\* The actions of the other goroutines change neither the connection nor the loop.
LEMMA Elsewhere ==
  ASSUME Inv, UNCHANGED <<venue, socket, loop>>, (HungUp' <=> HungUp),
         start' # "done" => start # "done",
         (stop' \in {"hanging up", "closing", "closing errors", "done"} => cancelled')
  PROVE  SocketInv' /\ LoopInv' /\ LateInv'
BY DEF Inv, SocketInv, LoopInv, LateInv, DialsBounded, ProgramCount, socket

LEMMA StartStops ==
  ASSUME Inv, StartChecks \/ StartFails \/ StopBegins \/ StopCancels
              \/ (\E channel \in {"events", "errors"} : StopCloses(channel))
  PROVE  Inv'
<1> TypeOK
  BY DEF Inv
<1>1. CASE StartChecks \/ StartFails
  <2>1. TypeOK'
    BY <1>1 DEF TypeOK, StartChecks, StartFails, socket, channels
  <2>2. UNCHANGED <<venue, socket, loop, stop, cancelled>> /\ start # "done"
    BY <1>1 DEF StartChecks, StartFails
  <2> QED
    BY <2>1, <2>2, Elsewhere DEF Inv, LateInv, HungUp
<1>2. CASE StopBegins \/ StopCancels
  <2>1. TypeOK'
    BY <1>2 DEF TypeOK, StopSteps, StopBegins, StopCancels, socket, channels
  <2>2. UNCHANGED <<venue, socket, loop, start>>
    BY <1>2 DEF StopBegins, StopCancels
  <2>3. (HungUp' <=> HungUp) /\ (stop' = "hanging up" => cancelled')
        /\ stop' \in {"cancelling", "hanging up"}
    BY <1>2 DEF StopBegins, StopCancels, HungUp
  <2> QED
    BY <2>1, <2>2, <2>3, Elsewhere DEF Inv
<1>3. ASSUME NEW channel \in {"events", "errors"}, StopCloses(channel)
      PROVE  Inv'
  <2>1. TypeOK'
    BY <1>3 DEF TypeOK, StopSteps, StopCloses, socket, channels
  <2>2. UNCHANGED <<venue, socket, loop, start>>
    BY <1>3 DEF StopCloses
  <2>3. (HungUp' <=> HungUp) /\ HungUp /\ cancelled' = cancelled
    BY <1>3 DEF StopCloses, HungUp
  <2> QED
    BY <2>1, <2>2, <2>3, Elsewhere DEF Inv, LateInv, HungUp
<1> QED
  BY <1>1, <1>2, <1>3

LEMMA Starts ==
  ASSUME Inv, Start
  PROVE  Inv'
<1> loop.at = "none"
  BY DEF Inv, LoopInv, Start
<1>1. TypeOK /\ LoopAt("checking") /\ "checking" \in LoopSteps
  BY DEF Inv, Start, LoopAt, LoopSteps
<1>2. loop' \in LoopType /\ loop'.at = "checking"
  BY <1>1, LoopMoves
<1>3. TypeOK'
  BY <1>2 DEF Inv, TypeOK, Start, LoopType, socket, channels
<1> QED
  BY <1>2, <1>3 DEF Inv, SocketInv, LoopInv, LateInv, DialsBounded, HungUp, Start, socket

LEMMA StopsReading ==
  ASSUME Inv, StopHangsUp
  PROVE  Inv'
<1> TypeOK /\ SocketInv /\ LoopInv
  BY DEF Inv
<1>1. TypeOK'
  BY DEF TypeOK, StopSteps, StopHangsUp, channels
<1>2. open' = {} /\ conn' = 0 /\ HungUp' /\ ~HungUp
  BY DEF SocketInv, StopHangsUp, HungUp
<1>3. SocketInv'
  <2>1. UNCHANGED <<dials, subscribed>>
    BY DEF StopHangsUp
  <2>2. DialsBounded'
    BY <1>2, <2>1 DEF TypeOK, SocketInv, DialsBounded
  <2> QED
    BY <1>2, <2>1, <2>2 DEF TypeOK, SocketInv
<1>4. LoopInv'
  BY <1>2 DEF TypeOK, LoopInv, StopHangsUp, ProgramCount
<1>5. LateInv'
  BY <1>2 DEF Inv, LateInv, StopHangsUp, HungUp
<1> QED
  BY <1>1, <1>3, <1>4, <1>5 DEF Inv

\* The steps of the loop that leave the connection alone.
LEMMA LoopGoesOn ==
  ASSUME Inv, LoopChecks \/ LoopHolds \/ LoopWaits \/ readMessages \/ ReadLoopEnds
  PROVE  Inv'
<1> TypeOK /\ SocketInv /\ LoopInv
  BY DEF Inv
<1>1. SocketInv'
  BY DEF SocketInv, DialsBounded, HungUp, LoopChecks, LoopHolds, LoopWaits, readMessages,
         ReadLoopEnds, LoopOnly, lifecycle, socket
<1>2. loop' \in LoopType => TypeOK'
  BY DEF LoopType, TypeOK, LoopChecks, LoopHolds, LoopWaits, readMessages,
         ReadLoopEnds, LoopOnly, lifecycle, socket, channels
<1>3. loop' \in LoopType /\ LoopInv'
  <2>1. CASE LoopChecks
    <3>1. PICK step \in {"exited", "holding"} : LoopAt(step)
      BY <2>1 DEF LoopChecks
    <3>2. loop' \in LoopType /\ loop'.at = step
      BY <3>1, LoopMoves DEF LoopSteps
    <3> QED
      BY <2>1, <3>2 DEF LoopInv, LoopChecks, LoopOnly, lifecycle, socket
  <2>2. CASE LoopHolds
    <3>1. /\ loop' \in LoopType /\ loop'.program = 0
          /\ loop'.at = IF conn = 0 THEN "dialling" ELSE "subscribing"
      <4> DEFINE step == IF conn = 0 THEN "dialling" ELSE "subscribing"
      <4>1. step \in LoopSteps /\ 0 \in 0 .. Programs
        BY SizesArePositive DEF LoopSteps
      <4>2. loop' = [loop EXCEPT !.at = step, !.program = 0]
        BY <2>2 DEF LoopHolds
      <4> HIDE DEF step
      <4>3. loop' \in LoopType /\ loop'.at = step /\ loop'.program = 0
        BY <4>1, <4>2, LoopMovesTo
      <4> QED
        BY <4>3 DEF step
    <3> QED
      BY <2>2, <3>1, CountsPrograms, SizesArePositive
      DEF LoopInv, LoopHolds, LoopOnly, lifecycle, socket, ProgramCount
  <2>3. CASE LoopWaits
    <3>1. loop' \in LoopType /\ loop'.at = "checking"
      BY <2>3, LoopMoves DEF LoopSteps, LoopWaits
    <3> QED
      BY <2>3, <3>1 DEF LoopInv, LoopWaits, LoopOnly, lifecycle, socket
  <2>4. CASE readMessages
    <3>1. loop' \in LoopType /\ loop'.reads = conn
          /\ loop'.at = IF conn = 0 THEN "dropping" ELSE "reading"
      BY <2>4, LoopReads DEF readMessages, LoopSteps, TypeOK
    <3>2. conn = 0 => open = {}
      BY ConnectionsAreNumbers DEF SocketInv, TypeOK
    <3> QED
      BY <2>4, <3>1, <3>2 DEF LoopInv, readMessages, LoopOnly, lifecycle, socket, ProgramCount
  <2>5. CASE ReadLoopEnds
    <3>1. loop' \in LoopType /\ loop'.at = "checking"
      BY <2>5, LoopMoves DEF LoopSteps, ReadLoopEnds
    <3>2. open = {}
      BY <2>5, ConnectionsAreNumbers DEF LoopInv, SocketInv, TypeOK, ReadLoopEnds
    <3> QED
      BY <2>5, <3>1, <3>2 DEF LoopInv, ReadLoopEnds, LoopOnly, lifecycle, socket
  <2> QED
    BY <2>1, <2>2, <2>3, <2>4, <2>5
<1>4. LateInv'
  <2>1. UNCHANGED <<open, dials, stop, cancelled>>
    BY DEF LoopChecks, LoopHolds, LoopWaits, readMessages, ReadLoopEnds, LoopOnly, lifecycle, socket
  <2>2. loop'.at \in {"holding", "dialling"} =>
          \/ loop.at = "checking" /\ ~cancelled
          \/ loop.at = "holding"
    BY DEF LoopChecks, LoopHolds, LoopWaits, readMessages, ReadLoopEnds, LoopAt, TypeOK
  <2> QED
    BY <2>1, <2>2 DEF Inv, LateInv, HungUp
<1> QED
  BY <1>1, <1>2, <1>3, <1>4 DEF Inv

LEMMA Connects ==
  ASSUME Inv, connect
  PROVE  Inv'
<1> TypeOK /\ SocketInv /\ LoopInv
  BY DEF Inv
<1> DEFINE c == dials.made + 1
<1>1. open = {} /\ conn = 0 /\ loop.at = "dialling" /\ loop.program = 0
  BY DEF LoopInv, connect
<1>2. c \in Connections
  BY <1>1, BoundsAreNumbers DEF TypeOK, SocketInv, DialsBounded, Connections
<1>3. open' = {c} /\ conn' = c
  BY <1>1 DEF connect
<1>4. dials' \in Dialled /\ dials'.made = c /\ dials'.lost = dials.lost
      /\ dials'.late = dials.late + (IF HungUp THEN 1 ELSE 0)
  <2> DEFINE b == [dials EXCEPT !.made = c]
             late == IF HungUp THEN dials.late + 1 ELSE dials.late
  <2>1. dials \in Dialled
    BY DEF TypeOK, Dialled
  <2>2. b \in Dialled /\ b.made = c /\ b.lost = dials.lost /\ b.late = dials.late
    BY <2>1 DEF Dialled
  <2>3. dials' = [b EXCEPT !.late = late]
    BY <2>1 DEF connect, Dialled
  <2>4. late \in Nat
    BY <2>1 DEF Dialled
  <2> HIDE DEF b, late
  <2>5. dials' \in Dialled /\ dials'.made = c /\ dials'.lost = dials.lost /\ dials'.late = late
    BY <2>2, <2>3, <2>4 DEF Dialled
  <2> QED
    BY <2>1, <2>5 DEF late, Dialled
<1>5. loop' \in LoopType /\ loop'.at = "subscribing" /\ loop'.program = 0
  BY <1>1, LoopMoves DEF LoopSteps, connect
<1>6. TypeOK'
  BY <1>2, <1>3, <1>4, <1>5 DEF TypeOK, LoopType, Dialled, connect, LoopOnly, lifecycle, channels
<1>7. SocketInv'
  <2>1. (HungUp' <=> HungUp) /\ open' # {}
    BY <1>3 DEF HungUp, connect, LoopOnly, lifecycle
  <2>2. dials.made <= dials.lost + (IF HungUp THEN 1 ELSE 0)
    BY <1>1 DEF TypeOK, SocketInv, DialsBounded
  <2>3. DialsBounded'
    BY <1>4, <2>1, <2>2 DEF TypeOK, DialsBounded
  <2> QED
    BY <1>2, <1>3, <1>4, <2>3, ConnectionsAreNumbers DEF TypeOK, SocketInv, connect
<1>8. LoopInv'
  <2>1. subscribed'[c] = 0
    BY <1>2, ConnectionsAreNumbers DEF TypeOK, SocketInv, connect
  <2> QED
    BY <1>3, <1>5, <2>1, CountsPrograms
    DEF LoopInv, connect, LoopOnly, lifecycle, ProgramCount
<1>9. LateInv'
  <2>1. UNCHANGED <<stop, cancelled>>
    BY DEF connect, LoopOnly, lifecycle
  <2>2. dials.late = 0
    BY <1>1 DEF Inv, LateInv
  <2>3. dials'.late = IF HungUp THEN 1 ELSE 0
    BY <1>4, <2>2
  <2>4. stop' \in {"hanging up", "closing", "closing errors", "done"} => cancelled'
    BY <2>1 DEF Inv, LateInv
  <2>5. HungUp' <=> HungUp
    BY <2>1 DEF HungUp
  <2>6. (HungUp => dials'.late = 1) /\ (~HungUp => dials'.late = 0) /\ dials'.late <= 1
    BY <2>3
  <2>7. loop'.at \notin {"holding", "dialling"}
    BY <1>5
  <2> QED
    BY <2>4, <2>5, <2>6, <2>7 DEF LateInv
<1> QED
  BY <1>6, <1>7, <1>8, <1>9 DEF Inv

LEMMA ConnectFails ==
  ASSUME Inv, connectFails
  PROVE  Inv'
<1> TypeOK /\ SocketInv /\ LoopInv
  BY DEF Inv
<1>1. dials' \in Dialled /\ dials'.made = dials.made
      /\ dials'.lost = dials.lost /\ dials'.late = dials.late
  BY DEF TypeOK, connectFails, Dialled
<1>2. loop' \in LoopType /\ loop'.at = "waiting"
  BY LoopMoves DEF LoopSteps, connectFails
<1>3. open = {}
  BY DEF LoopInv, connectFails
<1>4. TypeOK'
  BY <1>1, <1>2 DEF TypeOK, LoopType, Dialled, connectFails, LoopOnly, lifecycle, channels
<1>5. SocketInv'
  BY <1>1 DEF SocketInv, DialsBounded, HungUp, connectFails, LoopOnly, lifecycle
<1>6. LoopInv'
  BY <1>2, <1>3 DEF LoopInv, connectFails, LoopOnly, lifecycle
<1>7. LateInv'
  BY <1>1, <1>2 DEF Inv, LateInv, HungUp, connectFails, LoopOnly, lifecycle
<1> QED
  BY <1>4, <1>5, <1>6, <1>7 DEF Inv

\* A subscription that is written is of the next program on the connection.
LEMMA Subscribes ==
  ASSUME Inv, NEW p \in 1 .. Programs, subscribeToLogs(p)
  PROVE  Inv'
<1> TypeOK /\ SocketInv /\ LoopInv
  BY DEF Inv
<1>1. p = loop.program + 1 /\ loop.at = "subscribing" /\ p \in 1 .. ProgramCount
  BY CountsPrograms DEF subscribeToLogs, LoopInv, TypeOK
<1>2. UNCHANGED <<conn, open, dials, venue, start, stop, cancelled>> /\ ProgramCount' = ProgramCount
  BY DEF subscribeToLogs, LoopOnly, lifecycle, ProgramCount
<1>3. SUFFICES /\ loop' \in LoopType /\ LoopInv'
               /\ subscribed' \in [Connections -> 0 .. Programs]
               /\ \A c \in Connections : c > dials.made => subscribed'[c] = 0
  <2>1. TypeOK'
    BY <1>2, <1>3 DEF TypeOK, LoopType, subscribeToLogs, LoopOnly, lifecycle, channels
  <2>2. SocketInv'
    BY <1>2, <1>3 DEF SocketInv, DialsBounded, HungUp
  <2>3. loop'.at \notin {"holding", "dialling"}
    <3>1. loop'.at \in {"opening", "subscribing", "failed"}
      BY DEF subscribeToLogs, Subscribed, LoopAt, TypeOK
    <3> QED
      BY <3>1
  <2>4. LateInv'
    BY <1>2, <2>3 DEF Inv, LateInv, HungUp
  <2> QED
    BY <1>3, <2>1, <2>2, <2>4 DEF Inv
<1>4. ASSUME Subscribed(p)
      PROVE  /\ loop' \in LoopType /\ loop'.program = p
             /\ loop'.at = IF p = ProgramCount THEN "opening" ELSE "subscribing"
  <2> DEFINE step == IF p = ProgramCount THEN "opening" ELSE "subscribing"
  <2>1. step \in LoopSteps /\ p \in 0 .. Programs
    BY DEF LoopSteps
  <2>2. loop' = [loop EXCEPT !.at = step, !.program = p]
    BY <1>4 DEF Subscribed
  <2> HIDE DEF step
  <2>3. loop' \in LoopType /\ loop'.at = step /\ loop'.program = p
    BY <2>1, <2>2, LoopMovesTo
  <2> QED
    BY <2>3 DEF step
<1>5. CASE conn \in open
  <2>1. Subscribed(p) /\ subscribed' = [subscribed EXCEPT ![conn] = p]
    BY <1>5 DEF subscribeToLogs
  <2>2. open = {conn} /\ conn \in Connections /\ conn <= dials.made
    BY <1>5 DEF TypeOK, SocketInv
  <2>3. /\ subscribed' \in [Connections -> 0 .. Programs] /\ subscribed'[conn] = p
        /\ \A c \in Connections \ {conn} : subscribed'[c] = subscribed[c]
    BY <2>1, <2>2 DEF TypeOK
  <2>4. \A c \in Connections : c > dials.made => subscribed'[c] = 0
    BY <2>2, <2>3, ConnectionsAreNumbers DEF TypeOK, SocketInv
  <2>5. LoopInv'
    BY <1>1, <1>2, <1>4, <2>1, <2>2, <2>3, CountsPrograms DEF LoopInv
  <2> QED
    BY <1>4, <2>1, <2>3, <2>4, <2>5
<1>6. CASE conn \notin open
  <2>1. open = {} /\ UNCHANGED subscribed
    BY <1>6 DEF subscribeToLogs, SocketInv
  <2>2. CASE Subscribed(p)
    BY <1>1, <1>2, <1>4, <2>1, <2>2, CountsPrograms DEF LoopInv, TypeOK, SocketInv
  <2>3. CASE LoopAt("failed")
    <3>1. loop' \in LoopType /\ loop'.at = "failed"
      BY <2>3, LoopMoves DEF LoopSteps
    <3> QED
      BY <1>1, <1>2, <2>1, <3>1 DEF LoopInv, TypeOK, SocketInv
  <2> QED
    BY <1>6, <2>2, <2>3 DEF subscribeToLogs
<1> QED
  BY <1>5, <1>6

LEMMA Disconnects ==
  ASSUME Inv, LoopDisconnects
  PROVE  Inv'
<1> TypeOK /\ SocketInv /\ LoopInv
  BY DEF Inv
<1>1. open = {} /\ open' = {} /\ conn' = 0
  BY DEF LoopInv, LoopDisconnects, disconnect
<1>2. PICK step \in {"waiting", "checking"} : LoopAt(step)
  BY DEF LoopDisconnects
<1>3. loop' \in LoopType /\ loop'.at = step
  BY <1>2, LoopMoves DEF LoopSteps
<1>4. TypeOK'
  BY <1>1, <1>3 DEF TypeOK, LoopType, LoopDisconnects, LoopOnly, lifecycle, channels
<1>5. SocketInv'
  <2>1. UNCHANGED <<dials, subscribed, stop>>
    BY DEF LoopDisconnects, LoopOnly, lifecycle
  <2>2. DialsBounded'
    BY <1>1, <2>1 DEF SocketInv, DialsBounded, HungUp
  <2> QED
    BY <1>1, <2>1, <2>2 DEF TypeOK, SocketInv
<1>6. LoopInv'
  BY <1>1, <1>3 DEF LoopInv, LoopDisconnects, LoopOnly, lifecycle
<1>7. LateInv'
  BY <1>1, <1>3 DEF Inv, LateInv, HungUp, LoopDisconnects, LoopOnly, lifecycle
<1> QED
  BY <1>4, <1>5, <1>6, <1>7 DEF Inv

LEMMA Loses ==
  ASSUME Inv, Lose
  PROVE  Inv'
<1> TypeOK /\ SocketInv /\ LoopInv
  BY DEF Inv
<1>1. open = {conn} /\ open' = {}
  BY DEF Lose, SocketInv
<1>2. dials' \in Dialled /\ dials'.made = dials.made
      /\ dials'.lost = dials.lost + 1 /\ dials'.late = dials.late
  BY DEF TypeOK, Lose, Dialled
<1>3. UNCHANGED <<venue, conn, subscribed, loop, fetches, channels, lifecycle, drain, stats, panicked>>
  BY DEF Lose
<1>4. TypeOK'
  BY <1>1, <1>2, <1>3 DEF TypeOK, Dialled, channels, lifecycle
<1>5. SocketInv'
  <2>1. (HungUp' <=> HungUp) /\ dials.lost + 1 <= MaxLosses
    BY <1>3, BoundsAreNumbers DEF HungUp, lifecycle, Lose, TypeOK
  <2>2. DialsBounded'
    BY <1>1, <1>2, <2>1 DEF TypeOK, SocketInv, DialsBounded
  <2> QED
    BY <1>1, <1>2, <1>3, <2>1, <2>2 DEF SocketInv
<1>6. LoopInv'
  BY <1>1, <1>3 DEF LoopInv, ProgramCount, lifecycle
<1>7. LateInv'
  BY <1>1, <1>2, <1>3 DEF Inv, LateInv, HungUp, lifecycle
<1> QED
  BY <1>4, <1>5, <1>6, <1>7 DEF Inv

LEMMA FetchesAndDrains ==
  ASSUME Inv, OnMessage \/ fetchTokenDetails \/ eventProcessingLoop
  PROVE  Inv'
<1> TypeOK
  BY DEF Inv
<1>1. UNCHANGED <<venue, socket, loop, lifecycle>>
  BY DEF OnMessage, fetchTokenDetails, FetchAsks, FetchReports, FetchFindsNothing, FetchPanics,
         FetchFinds, FetchSends, eventProcessingLoop, DrainTakes, DrainHandles, DrainEnds
<1>2. SUFFICES TypeOK'
  BY <1>1, <1>2, Elsewhere DEF Inv, LateInv, HungUp, lifecycle
<1>3. SUFFICES
        /\ fetches' \in [FetchSteps -> Nat]
        /\ queue' \in 0 .. EventCapacity /\ errors' \in 0 .. ErrorCapacity
        /\ drain' \in {"none", "waiting", "handling", "exited"}
        /\ stats' \in [total : Nat, processed : Nat, failed : Nat, dropped : Nat]
        /\ panicked' \in BOOLEAN
  BY <1>1, <1>3 DEF TypeOK, socket, lifecycle
<1>4. CASE OnMessage
  BY <1>4 DEF OnMessage, TypeOK, channels, FetchSteps
<1>5. CASE FetchAsks
  <2>1. fetches' \in [FetchSteps -> Nat]
    BY <1>5, FetchCounts DEF FetchAsks, FetchSteps
  <2>2. UNCHANGED <<queue, errors, drain, stats, panicked>>
    BY <1>5 DEF FetchAsks, channels
  <2> QED
    BY <2>1, <2>2 DEF TypeOK
<1>6. CASE FetchReports
  <2>1. CASE "errors" \in closed
    BY <1>6, <2>1 DEF FetchReports, TypeOK
  <2>2. CASE "errors" \notin closed
    <3>1. fetches' \in [FetchSteps -> Nat]
      BY <1>6, <2>2, FetchCountsDown DEF FetchReports, FetchSteps
    <3>2. errors < ErrorCapacity /\ errors' = errors + 1 /\ UNCHANGED <<queue, drain, stats, panicked>>
      BY <1>6, <2>2 DEF FetchReports
    <3> QED
      BY <3>1, <3>2, SizesArePositive DEF TypeOK
  <2> QED
    BY <2>1, <2>2
<1>7. CASE FetchFindsNothing \/ FetchPanics
  BY <1>7, FetchCountsDown DEF FetchFindsNothing, FetchPanics, TypeOK, channels, FetchSteps
<1>8. CASE FetchFinds
  <2>1. fetches' \in [FetchSteps -> Nat]
    BY <1>8, FetchCounts DEF FetchFinds, FetchSteps
  <2>2. UNCHANGED <<queue, errors, drain, panicked>> /\ Count("total")
    BY <1>8 DEF FetchFinds, channels
  <2> QED
    BY <2>1, <2>2, StatsCount DEF TypeOK
<1>9. CASE FetchSends
  <2>1. CASE "events" \in closed
    BY <1>9, <2>1 DEF FetchSends, TypeOK
  <2>2. CASE "events" \notin closed
    <3>1. fetches' \in [FetchSteps -> Nat]
      BY <1>9, <2>2, FetchCountsDown DEF FetchSends, FetchSteps
    <3>2. /\ \/ queue < EventCapacity /\ queue' = queue + 1 /\ UNCHANGED stats
             \/ Count("dropped") /\ UNCHANGED queue
          /\ UNCHANGED <<errors, drain, panicked>>
      BY <1>9, <2>2 DEF FetchSends
    <3> QED
      BY <3>1, <3>2, StatsCount, SizesArePositive DEF TypeOK
  <2> QED
    BY <2>1, <2>2
<1>10. CASE eventProcessingLoop
  BY <1>10, StatsCount, SizesArePositive
  DEF eventProcessingLoop, DrainTakes, DrainHandles, DrainEnds, TypeOK, channels
<1> QED
  BY <1>4, <1>5, <1>6, <1>7, <1>8, <1>9, <1>10 DEF fetchTokenDetails

LEMMA NextInv == Inv /\ [Next]_vars => Inv'
<1> SUFFICES ASSUME Inv, [Next]_vars PROVE Inv'
  OBVIOUS
<1>1. CASE UNCHANGED vars
  <2>1. UNCHANGED <<venue, socket, loop, start, stop, cancelled>>
    BY <1>1 DEF vars, lifecycle
  <2>2. TypeOK'
    BY <1>1 DEF Inv, TypeOK, vars, socket, channels, lifecycle
  <2> QED
    BY <2>1, <2>2, Elsewhere DEF Inv, LateInv, HungUp
<1>2. CASE StartStep
  BY <1>2, StartStops, Starts DEF StartStep
<1>3. CASE StopBegins \/ StopStep
  BY <1>3, StartStops, StopsReading DEF StopStep
<1>4. CASE monitorLoop
  BY <1>4, LoopGoesOn, Connects, ConnectFails, Subscribes, Disconnects DEF monitorLoop
<1>5. CASE Lose
  BY <1>5, Loses
<1>6. CASE OnMessage \/ fetchTokenDetails \/ eventProcessingLoop
  BY <1>6, FetchesAndDrains
<1> QED
  BY <1>1, <1>2, <1>3, <1>4, <1>5, <1>6 DEF Next

---------------------------------------------------------------------------
(* Theorems *)

LEMMA InvAlways == Spec => []Inv
BY InitInv, NextInv, PTL DEF Spec

\* Every state of a monitor is well typed: in particular the channels keep to
\* their capacities and a connection is only dialled after one was lost or hung up.
THEOREM MonitorTypeCorrect == Spec => []TypeOK
BY InvAlways, PTL DEF Inv

\* For any number of losses and failures an open connection is the one the loop is using,
\* and after Stop the one dial the loop had already decided on is all that can be open.
THEOREM StopLeavesOneDialOpen == Spec => []OpenIsUsed
<1>1. Inv => OpenIsUsed
  <2> SUFFICES ASSUME Inv PROVE OpenIsUsed
    OBVIOUS
  <2>1. open # {} => \/ loop.at \in {"subscribing", "opening"}
                     \/ loop.at = "reading" /\ loop.reads = conn
    <3>1. loop.at \in LoopSteps
      BY DEF Inv, TypeOK
    <3>2. open # {} => conn # 0
      BY ConnectionsAreNumbers DEF Inv, TypeOK, SocketInv
    <3> QED
      BY <3>1, <3>2 DEF Inv, LoopInv, LoopSteps
  <2> QED
    BY <2>1 DEF Inv, SocketInv, LateInv, OpenIsUsed
<1> QED
  BY InvAlways, <1>1, PTL

\* What the loop reads has been subscribed to every program, for any number of
\* programs and of reconnections.
THEOREM ReadsAreSubscribed == Spec => []ReadsSubscribed
<1>1. Inv => ReadsSubscribed
  BY DEF Inv, LoopInv, ReadsSubscribed
<1> QED
  BY InvAlways, <1>1, PTL

\* The draining loop does not run before Start has.
NotDraining == start # "done" => drain = "none"

\* Every event counted as detected is accounted for.
THEOREM DetectedAreAccounted == Spec => []EventsAccounted
<1> DEFINE A == EventsAccounted /\ NotDraining
<1>1. Init => A
  BY DEF Init, EventsAccounted, NotDraining, FetchSteps
<1>2. ASSUME TypeOK, A, [Next]_vars PROVE NotDraining'
  BY <1>2
     DEF NotDraining, Next, vars, lifecycle, StartStep, StartChecks, StartFails, Start, StopBegins,
       StopStep, StopCancels, StopHangsUp, StopCloses, monitorLoop, LoopOnly, LoopChecks, LoopHolds,
       connect, connectFails, LoopWaits, subscribeToLogs, LoopDisconnects, readMessages,
       ReadLoopEnds, Lose, OnMessage, fetchTokenDetails, FetchAsks, FetchReports,
       FetchFindsNothing, FetchPanics, FetchFinds, FetchSends, eventProcessingLoop, DrainTakes,
       DrainHandles, DrainEnds
<1>3. ASSUME TypeOK, A, [Next]_vars PROVE EventsAccounted'
  <2> USE <1>3
  <2>1. CASE UNCHANGED <<stats, queue, fetches, drain>>
    BY <2>1 DEF EventsAccounted
  <2>2. CASE Start
    BY <2>2 DEF Start, EventsAccounted, NotDraining, channels
  <2>3. CASE OnMessage
    BY <2>3 DEF OnMessage, EventsAccounted, TypeOK, FetchSteps, channels
  <2>4. CASE FetchAsks
    BY <2>4, FetchCounts DEF FetchAsks, EventsAccounted, FetchSteps, channels
  <2>5. CASE FetchReports
    BY <2>5, FetchCountsDown DEF FetchReports, EventsAccounted, FetchSteps
  <2>6. CASE FetchFindsNothing
    BY <2>6, FetchCountsDown DEF FetchFindsNothing, EventsAccounted, FetchSteps, channels
  <2>7. CASE FetchFinds
    BY <2>7, FetchCounts, StatsCount DEF FetchFinds, EventsAccounted, TypeOK, FetchSteps, channels
  <2>8. CASE FetchSends
    BY <2>8, FetchCountsDown, StatsCount DEF FetchSends, EventsAccounted, TypeOK, FetchSteps
  <2>9. CASE DrainTakes
    BY <2>9 DEF DrainTakes, EventsAccounted, TypeOK, FetchSteps
  <2>10. CASE DrainHandles
    BY <2>10, StatsCount DEF DrainHandles, EventsAccounted, TypeOK, FetchSteps, channels
  <2>11. CASE DrainEnds
    BY <2>11 DEF DrainEnds, EventsAccounted, channels
  <2> QED
    BY <2>1, <2>2, <2>3, <2>4, <2>5, <2>6, <2>7, <2>8, <2>9, <2>10, <2>11
    DEF Next, vars, channels, StartStep, StartChecks, StartFails, StopBegins, StopStep, StopCancels,
        StopHangsUp, StopCloses, monitorLoop, LoopOnly, LoopChecks, LoopHolds, connect, connectFails,
        LoopWaits, subscribeToLogs, LoopDisconnects, readMessages, ReadLoopEnds, Lose,
        fetchTokenDetails, FetchPanics, eventProcessingLoop
<1>4. TypeOK /\ A /\ [Next]_vars => A'
  BY <1>2, <1>3
<1> QED
  BY <1>1, <1>4, MonitorTypeCorrect, PTL DEF Spec

---------------------------------------------------------------------------
(* RpcPool: the inductive invariant *)

\* A request under way is one of those its endpoint has counted, and knows how long
\* its answer took.
RequestsAreCounted ==
  \A r \in Requests :
    /\ request[r].at \in {"sent", "answered", "dividing"}
         => RequestCount[request[r].endpoint] > 0
    /\ request[r].at = "answered" => request[r].latency \in Latencies

\* The lock of an endpoint is held by one request or one check at most.
LockIsHeld ==
  /\ \A r \in Requests : request[r].at = "dividing" =>
       /\ request[r].endpoint \in locked
       /\ \A s \in Requests :
            request[s].at = "dividing" /\ request[s].endpoint = request[r].endpoint => s = r
       /\ \A c \in Checks : check[request[r].endpoint][c].at # "resetting"
  /\ \A e \in Endpoints, c \in Checks : check[e][c].at = "resetting" =>
       /\ e \in locked
       /\ \A d \in Checks : check[e][d].at = "resetting" => d = c

\* What a check is about to take off was counted, and nothing else has taken it off.
ErrorsAreCounted ==
  \A e \in Endpoints, c \in Checks :
    check[e][c].at = "resetting" => check[e][c].errors <= ErrorCount[e]

\* The average is below a latency, and a sum below as many of one as are counted.
AveragesAreLatencies ==
  /\ \A e \in Endpoints : \E l \in Latencies : AvgLatency[e] <= l
  /\ \A r \in Requests : request[r].at = "dividing" =>
       \E l \in Latencies : request[r].sum <= l * RequestCount[request[r].endpoint]

PoolIInv ==
  /\ PoolTypeOK /\ RequestsAreCounted /\ LockIsHeld
  /\ ErrorsAreCounted /\ AveragesAreLatencies

---------------------------------------------------------------------------
(* Arithmetic of an average *)

LEMMA AverageIsBelow ==
  ASSUME NEW sum \in Nat, NEW n \in Nat, NEW l \in Nat, n > 0, sum <= l * n
  PROVE  sum \div n \in Nat /\ sum \div n <= l
OBVIOUS

LEMMA SumIsBelow ==
  ASSUME NEW avg \in Nat, NEW n \in Nat, NEW x \in Nat, NEW l \in Nat,
         n > 0, avg <= l, x <= l
  PROVE  avg * (n - 1) + x \in Nat /\ avg * (n - 1) + x <= l * n
<1>1. n - 1 \in Nat
  OBVIOUS
<1>2. avg * (n - 1) <= l * (n - 1) /\ avg * (n - 1) \in Nat
  BY <1>1
<1>3. l * n = l * (n - 1) + l /\ l * (n - 1) \in Nat
  BY <1>1
<1> DEFINE product == avg * (n - 1)
           most == l * (n - 1)
<1> HIDE DEF product, most
<1>4. product <= most /\ product \in Nat /\ most \in Nat /\ l * n = most + l
  BY <1>2, <1>3 DEF product, most
<1>5. product + x \in Nat /\ product + x <= l * n
  BY <1>4
<1>6. QED
  BY <1>5 DEF product

---------------------------------------------------------------------------
(* The invariant is inductive *)

Held == [at : {"idle", "sent", "answered", "dividing", "counting", "failing"},
         endpoint : Endpoints, failed : BOOLEAN, latency : Nat, sum : Nat]

Kept == [at : {"idle", "asking", "answered", "resetting"}, healthy : BOOLEAN, errors : Nat]

LEMMA NoRequestType == NoRequest \in Held /\ NoRequest.at = "idle"
<1>1. (CHOOSE e \in Endpoints : TRUE) \in Endpoints
  BY PoolSizes
<1>2. QED
  BY <1>1 DEF NoRequest, Held

LEMMA PoolInitIInv == PoolInit => PoolIInv
<1> SUFFICES ASSUME PoolInit PROVE PoolIInv
  OBVIOUS
<1>1. NoCheck.at = "idle" /\ NoCheck.healthy = FALSE /\ NoCheck.errors = 0
  BY DEF NoCheck
<1>2. PoolTypeOK
  BY NoRequestType DEF PoolInit, PoolTypeOK, Held, NoCheck
<1>3. PICK l \in Latencies : l \in Nat
  BY PoolSizes
<1>4. RequestsAreCounted /\ AveragesAreLatencies
  BY <1>3, NoRequestType DEF PoolInit, RequestsAreCounted, AveragesAreLatencies
<1>5. LockIsHeld /\ ErrorsAreCounted
  BY <1>1, NoRequestType DEF PoolInit, LockIsHeld, ErrorsAreCounted
<1>6. QED
  BY <1>2, <1>4, <1>5 DEF PoolIInv

\* A request that goes on without touching what the lock of its endpoint guards.
LEMMA RequestGoesOn ==
  ASSUME PoolIInv, NEW r \in Requests, NEW q \in Held, q.at # "dividing",
         request[r].at # "dividing", request' = [request EXCEPT ![r] = q],
         q.at \in {"sent", "answered"} => RequestCount'[q.endpoint] > 0,
         q.at = "answered" => q.latency \in Latencies,
         RequestCount' \in [Endpoints -> Nat], ErrorCount' \in [Endpoints -> Nat],
         \A e \in Endpoints : /\ RequestCount'[e] >= RequestCount[e]
                              /\ ErrorCount'[e] >= ErrorCount[e],
         status' \in [Endpoints -> {"healthy", "unhealthy"}],
         UNCHANGED <<nodes, endpoints, AvgLatency, locked, check, closing>>
  PROVE  PoolIInv'
<1>1. /\ request'[r] = q
      /\ \A s \in Requests : s # r => request'[s] = request[s]
  BY DEF PoolIInv, PoolTypeOK
<1>2. /\ \A s \in Requests : request'[s].at = "dividing" =>
           s # r /\ request'[s] = request[s]
      /\ \A s \in Requests : request[s] \in Held
  BY <1>1 DEF PoolIInv, PoolTypeOK, Held
<1>3. PoolTypeOK'
  BY DEF PoolIInv, PoolTypeOK, Held, nodes
<1>4. RequestsAreCounted'
  <2> SUFFICES ASSUME NEW s \in Requests
               PROVE  /\ request'[s].at \in {"sent", "answered", "dividing"}
                           => RequestCount'[request'[s].endpoint] > 0
                      /\ request'[s].at = "answered" => request'[s].latency \in Latencies
    BY DEF RequestsAreCounted
  <2>1. CASE s = r
    BY <1>1, <2>1
  <2>2. CASE s # r
    <3>1. request'[s] = request[s] /\ request[s].endpoint \in Endpoints
      BY <1>1, <1>2, <2>2 DEF Held
    <3>2. /\ request[s].at \in {"sent", "answered", "dividing"}
               => RequestCount[request[s].endpoint] > 0
          /\ request[s].at = "answered" => request[s].latency \in Latencies
      BY DEF PoolIInv, RequestsAreCounted
    <3>3. /\ RequestCount'[request[s].endpoint] \in Nat
          /\ RequestCount[request[s].endpoint] \in Nat
      BY <3>1 DEF PoolIInv, PoolTypeOK
    <3>4. QED
      BY <3>1, <3>2, <3>3
  <2>3. QED
    BY <2>1, <2>2
<1>5. LockIsHeld'
  BY <1>2 DEF PoolIInv, LockIsHeld
<1>6. ErrorsAreCounted'
  <2> SUFFICES ASSUME NEW e \in Endpoints, NEW c \in Checks, check[e][c].at = "resetting"
               PROVE  check[e][c].errors <= ErrorCount'[e]
    BY DEF ErrorsAreCounted
  <2>1. /\ check[e][c].errors <= ErrorCount[e] /\ ErrorCount'[e] >= ErrorCount[e]
        /\ check[e][c].errors \in Nat /\ ErrorCount[e] \in Nat /\ ErrorCount'[e] \in Nat
    BY DEF PoolIInv, PoolTypeOK, ErrorsAreCounted
  <2>2. QED
    BY <2>1
<1>7. AveragesAreLatencies'
  <2>1. ASSUME NEW s \in Requests, request'[s].at = "dividing"
        PROVE  \E l \in Latencies : request'[s].sum <= l * RequestCount'[request'[s].endpoint]
    <3>1. request'[s] = request[s] /\ request[s] \in Held
      BY <1>2, <2>1
    <3> DEFINE e == request[s].endpoint
    <3>2. PICK l \in Latencies : request[s].sum <= l * RequestCount[e]
      BY <2>1, <3>1 DEF PoolIInv, AveragesAreLatencies
    <3>3. /\ l \in Nat /\ RequestCount[e] \in Nat /\ RequestCount'[e] \in Nat
          /\ RequestCount'[e] >= RequestCount[e] /\ request[s].sum \in Nat
      BY <3>1, PoolSizes DEF PoolIInv, PoolTypeOK, Held
    <3>4. l * RequestCount[e] <= l * RequestCount'[e]
      BY <3>3
    <3>5. l * RequestCount[e] \in Nat /\ l * RequestCount'[e] \in Nat
      BY <3>3
    <3>6. request[s].sum <= l * RequestCount'[e]
      BY <3>2, <3>3, <3>4, <3>5
    <3>7. QED
      BY <3>1, <3>6
  <2>2. QED
    BY <2>1 DEF PoolIInv, AveragesAreLatencies
<1>8. QED
  BY <1>3, <1>4, <1>5, <1>6, <1>7 DEF PoolIInv

LEMMA SummingLatency ==
  ASSUME PoolIInv, NEW r \in Requests, SumLatency(r)
  PROVE  PoolIInv'
<1> DEFINE e == request[r].endpoint
           sum == AvgLatency[e] * (RequestCount[e] - 1) + request[r].latency
           q == [request[r] EXCEPT !.at = "dividing", !.sum = sum]
<1>1. /\ request[r] \in Held /\ request[r].at = "answered" /\ e \in Endpoints /\ e \notin locked
      /\ RequestCount[e] \in Nat /\ RequestCount[e] > 0 /\ AvgLatency[e] \in Nat
      /\ request[r].latency \in Latencies /\ request[r].latency \in Nat
  BY PoolSizes DEF SumLatency, PoolIInv, PoolTypeOK, RequestsAreCounted, Held
<1>2. \E l \in Latencies : sum \in Nat /\ sum <= l * RequestCount[e]
  <2>1. PICK k \in Latencies : AvgLatency[e] <= k
    BY <1>1 DEF PoolIInv, AveragesAreLatencies
  <2>2. PICK l \in Latencies : l \in Nat /\ AvgLatency[e] <= l /\ request[r].latency <= l
    BY <1>1, <2>1, PoolSizes
  <2>3. QED
    BY <1>1, <2>2, SumIsBelow
<1> HIDE DEF sum
<1>3. /\ q \in Held /\ q.at = "dividing" /\ q.endpoint = e /\ q.sum = sum
  BY <1>1, <1>2 DEF Held
<1>4. request' = [request EXCEPT ![r] = q]
  BY DEF SumLatency, sum
<1> HIDE DEF q
<1>5. /\ request'[r] = q
      /\ \A s \in Requests : s # r => request'[s] = request[s]
  BY <1>4 DEF PoolIInv, PoolTypeOK
<1>6. /\ UNCHANGED <<nodes, endpoints, status, counters, check, closing>>
      /\ locked' = locked \cup {e}
  BY DEF SumLatency
<1>7. PoolTypeOK'
  BY <1>1, <1>3, <1>4, <1>6 DEF PoolIInv, PoolTypeOK, Held, nodes, counters
<1>8. RequestsAreCounted'
  BY <1>1, <1>3, <1>5, <1>6 DEF PoolIInv, RequestsAreCounted, counters
<1>9. LockIsHeld'
  BY <1>1, <1>3, <1>5, <1>6 DEF PoolIInv, LockIsHeld
<1>10. ErrorsAreCounted'
  BY <1>6 DEF PoolIInv, ErrorsAreCounted, counters
<1>11. AveragesAreLatencies'
  BY <1>2, <1>3, <1>5, <1>6 DEF PoolIInv, AveragesAreLatencies, counters
<1>12. QED
  BY <1>7, <1>8, <1>9, <1>10, <1>11 DEF PoolIInv

LEMMA UpdatingLatency ==
  ASSUME PoolIInv, NEW r \in Requests, UpdateLatency(r)
  PROVE  PoolIInv'
<1> DEFINE e == request[r].endpoint
           avg == request[r].sum \div RequestCount[e]
           q == IF request[r].failed THEN [request[r] EXCEPT !.at = "counting"] ELSE NoRequest
<1>1. /\ request[r] \in Held /\ request[r].at = "dividing" /\ e \in Endpoints
      /\ RequestCount[e] \in Nat /\ RequestCount[e] > 0 /\ request[r].sum \in Nat
  BY DEF UpdateLatency, PoolIInv, PoolTypeOK, RequestsAreCounted, Held
<1>2. \E l \in Latencies : avg \in Nat /\ avg <= l
  <2>1. PICK l \in Latencies : l \in Nat /\ request[r].sum <= l * RequestCount[e]
    BY <1>1, PoolSizes DEF PoolIInv, AveragesAreLatencies
  <2>2. QED
    BY <1>1, <2>1, AverageIsBelow
<1>3. q \in Held /\ q.at \in {"idle", "counting"}
  BY <1>1, NoRequestType DEF Held
<1>4. request' = [request EXCEPT ![r] = q] /\ AvgLatency' = [AvgLatency EXCEPT ![e] = avg]
  BY DEF UpdateLatency
<1> HIDE DEF q, avg
<1>5. /\ request'[r] = q
      /\ \A s \in Requests : s # r => request'[s] = request[s]
  BY <1>4 DEF PoolIInv, PoolTypeOK
<1>6. /\ UNCHANGED <<nodes, endpoints, status, RequestCount, ErrorCount, check, closing>>
      /\ locked' = locked \ {e}
  BY DEF UpdateLatency
<1>7. PoolTypeOK'
  BY <1>1, <1>2, <1>3, <1>4, <1>6 DEF PoolIInv, PoolTypeOK, Held, nodes
<1>8. RequestsAreCounted'
  BY <1>3, <1>5, <1>6 DEF PoolIInv, RequestsAreCounted
<1>9. LockIsHeld'
  BY <1>1, <1>3, <1>5, <1>6 DEF PoolIInv, LockIsHeld
<1>10. ErrorsAreCounted'
  BY <1>6 DEF PoolIInv, ErrorsAreCounted
<1>11. AveragesAreLatencies'
  BY <1>2, <1>3, <1>4, <1>5, <1>6 DEF PoolIInv, PoolTypeOK, AveragesAreLatencies
<1>12. QED
  BY <1>7, <1>8, <1>9, <1>10, <1>11 DEF PoolIInv

LEMMA RequestStep ==
  ASSUME PoolIInv, NEW r \in Requests, Do(r) \/ \E e \in Endpoints : GetEndpoint(r, e)
  PROVE  PoolIInv'
<1>1. /\ request[r] \in Held
      /\ \A e \in Endpoints : RequestCount[e] \in Nat /\ ErrorCount[e] \in Nat
      /\ RequestCount \in [Endpoints -> Nat] /\ ErrorCount \in [Endpoints -> Nat]
      /\ status \in [Endpoints -> {"healthy", "unhealthy"}]
  BY DEF PoolIInv, PoolTypeOK, Held
<1>2. ASSUME NEW e \in Endpoints, GetEndpoint(r, e)
      PROVE  PoolIInv'
  <2> DEFINE q == [NoRequest EXCEPT !.at = "sent", !.endpoint = e]
  <2>1. q \in Held /\ q.at = "sent" /\ q.endpoint = e
    BY NoRequestType DEF Held
  <2>2. /\ RequestCount' \in [Endpoints -> Nat] /\ RequestCount'[e] > 0
        /\ \A f \in Endpoints : RequestCount'[f] >= RequestCount[f] /\ ErrorCount[f] >= ErrorCount[f]
    <3>1. RequestCount' = [RequestCount EXCEPT ![e] = RequestCount[e] + 1]
      BY <1>2 DEF GetEndpoint
    <3>2. QED
      BY <1>1, <3>1
  <2>3. /\ request' = [request EXCEPT ![r] = q] /\ request[r].at = "idle"
        /\ UNCHANGED <<nodes, endpoints, status, ErrorCount, AvgLatency, locked, check, closing>>
    BY <1>2 DEF GetEndpoint
  <2> HIDE DEF q
  <2>4. QED
    BY <1>1, <2>1, <2>2, <2>3, RequestGoesOn
<1>3. ASSUME NEW latency \in Latencies, NEW failed \in BOOLEAN, Answer(r, latency, failed)
      PROVE  PoolIInv'
  <2> DEFINE q == [request[r] EXCEPT !.at = "answered", !.latency = latency, !.failed = failed]
  <2>1. latency \in Nat
    BY PoolSizes
  <2>2. request' = [request EXCEPT ![r] = q] /\ request[r].at = "sent"
    BY <1>3 DEF Answer
  <2>3. q \in Held /\ q.at = "answered" /\ q.endpoint = request[r].endpoint /\ q.latency = latency
    BY <1>1, <2>1 DEF Held
  <2> HIDE DEF q
  <2>4. RequestCount[request[r].endpoint] > 0
    BY <2>2 DEF PoolIInv, RequestsAreCounted
  <2>5. UNCHANGED <<nodes, endpoints, status, counters, locked, check, closing>>
    BY <1>3 DEF Answer
  <2>6. \A f \in Endpoints : RequestCount'[f] >= RequestCount[f] /\ ErrorCount'[f] >= ErrorCount[f]
    BY <1>1, <2>5 DEF counters
  <2>7. QED
    BY <1>1, <2>2, <2>3, <2>4, <2>5, <2>6, RequestGoesOn DEF counters
<1>4. ASSUME CountError(r)
      PROVE  PoolIInv'
  <2> DEFINE q == [request[r] EXCEPT !.at = "failing"]
             e == request[r].endpoint
  <2>1. q \in Held /\ q.at = "failing" /\ e \in Endpoints
    BY <1>1 DEF Held
  <2>2. request' = [request EXCEPT ![r] = q] /\ request[r].at = "counting"
    BY <1>4 DEF CountError
  <2>3. /\ ErrorCount' \in [Endpoints -> Nat]
        /\ \A f \in Endpoints : ErrorCount'[f] >= ErrorCount[f] /\ RequestCount[f] >= RequestCount[f]
    BY <1>1, <1>4, <2>1 DEF CountError
  <2>4. UNCHANGED <<nodes, endpoints, status, RequestCount, AvgLatency, locked, check, closing>>
    BY <1>4 DEF CountError
  <2> HIDE DEF q
  <2>5. QED
    BY <1>1, <2>1, <2>2, <2>3, <2>4, RequestGoesOn
<1>5. ASSUME RequestFails(r)
      PROVE  PoolIInv'
  <2>1. /\ request' = [request EXCEPT ![r] = NoRequest] /\ request[r].at = "failing"
        /\ UNCHANGED <<nodes, endpoints, counters, locked, check, closing>>
        /\ status' \in [Endpoints -> {"healthy", "unhealthy"}]
    BY <1>1, <1>5 DEF RequestFails
  <2>2. \A f \in Endpoints : RequestCount'[f] >= RequestCount[f] /\ ErrorCount'[f] >= ErrorCount[f]
    BY <1>1, <2>1 DEF counters
  <2>3. QED
    BY <1>1, <2>1, <2>2, NoRequestType, RequestGoesOn DEF counters
<1>6. QED
  BY <1>2, <1>3, <1>4, <1>5, SummingLatency, UpdatingLatency DEF Do

\* What requests and averages rely on stays as it is in the steps of a check.
LEMMA CheckKeeps ==
  ASSUME PoolIInv, UNCHANGED <<RequestCount, AvgLatency, request>>
  PROVE  RequestsAreCounted' /\ AveragesAreLatencies'
BY DEF PoolIInv, RequestsAreCounted, AveragesAreLatencies

LEMMA CheckStep ==
  ASSUME PoolIInv, NEW e \in Endpoints, NEW c \in Checks, Check(e, c)
  PROVE  PoolIInv'
<1>1. /\ check \in [Endpoints -> [Checks -> Kept]]
      /\ check[e][c] \in Kept /\ NoCheck \in Kept /\ NoCheck.at = "idle"
  BY DEF PoolIInv, PoolTypeOK, NoCheck, Kept
<1>2. ErrorCount \in [Endpoints -> Nat]
  BY DEF PoolIInv, PoolTypeOK
<1>3. ASSUME NEW k \in Kept, k.at # "resetting", check[e][c].at # "resetting",
             check' = [check EXCEPT ![e][c] = k], status' \in [Endpoints -> {"healthy", "unhealthy"}],
             UNCHANGED <<nodes, endpoints, counters, locked, request, closing>>
      PROVE  PoolIInv'
  <2>1. \A f \in Endpoints, d \in Checks :
          check'[f][d] = IF f = e /\ d = c THEN k ELSE check[f][d]
    BY <1>1, <1>3
  <2>2. PoolTypeOK'
    BY <1>1, <1>3 DEF PoolIInv, PoolTypeOK, Kept, nodes, counters
  <2>3. LockIsHeld'
    <3>1. \A r \in Requests : request[r].endpoint \in Endpoints
      BY DEF PoolIInv, PoolTypeOK
    <3>2. \A f \in Endpoints, d \in Checks :
            check'[f][d].at = "resetting" => check[f][d].at = "resetting"
      BY <1>3, <2>1
    <3>3. QED
      BY <1>3, <3>1, <3>2 DEF PoolIInv, LockIsHeld
  <2>4. ErrorsAreCounted'
    BY <1>3, <2>1 DEF PoolIInv, ErrorsAreCounted, counters
  <2>5. QED
    BY <1>3, <2>2, <2>3, <2>4, CheckKeeps DEF PoolIInv, counters
<1>4. ASSUME CheckAnswer(e, c)
      PROVE  PoolIInv'
  <2> DEFINE healthy == e \in up
             k == [check[e][c] EXCEPT !.at = "answered", !.healthy = healthy]
  <2>1. healthy \in BOOLEAN
    OBVIOUS
  <2>2. check' = [check EXCEPT ![e][c] = k] /\ check[e][c].at = "asking"
    BY <1>4 DEF CheckAnswer
  <2> HIDE DEF healthy
  <2>3. k \in Kept /\ k.at = "answered"
    BY <1>1, <2>1 DEF Kept
  <2> HIDE DEF k
  <2>4. /\ UNCHANGED <<nodes, endpoints, status, counters, locked, request, closing>>
        /\ status \in [Endpoints -> {"healthy", "unhealthy"}]
    BY <1>4 DEF CheckAnswer, PoolIInv, PoolTypeOK
  <2>5. QED
    BY <1>3, <2>2, <2>3, <2>4
<1>5. ASSUME checkEndpointHealth(e, c), ~check[e][c].healthy
      PROVE  PoolIInv'
  <2>1. /\ check' = [check EXCEPT ![e][c] = NoCheck] /\ check[e][c].at = "answered"
        /\ locked' = locked
        /\ UNCHANGED <<nodes, endpoints, counters, request, closing>>
        /\ status' \in [Endpoints -> {"healthy", "unhealthy"}]
    BY <1>5 DEF checkEndpointHealth, PoolIInv, PoolTypeOK
  <2>2. QED
    BY <1>1, <1>3, <2>1
<1>6. ASSUME checkEndpointHealth(e, c), check[e][c].healthy
      PROVE  PoolIInv'
  <2> DEFINE k == [check[e][c] EXCEPT !.at = "resetting", !.errors = ErrorCount[e]]
  <2>1. /\ check' = [check EXCEPT ![e][c] = k] /\ check[e][c].at = "answered"
        /\ e \notin locked /\ locked' = locked \cup {e}
        /\ UNCHANGED <<nodes, endpoints, counters, request, closing>>
        /\ status' \in [Endpoints -> {"healthy", "unhealthy"}]
    BY <1>6 DEF checkEndpointHealth, PoolIInv, PoolTypeOK
  <2>2. k \in Kept /\ k.at = "resetting" /\ k.errors = ErrorCount[e]
    BY <1>1, <1>2 DEF Kept
  <2> HIDE DEF k
  <2>3. \A f \in Endpoints, d \in Checks :
          check'[f][d] = IF f = e /\ d = c THEN k ELSE check[f][d]
    BY <1>1, <2>1
  <2>4. PoolTypeOK'
    BY <1>1, <2>1, <2>2 DEF PoolIInv, PoolTypeOK, Kept, nodes, counters
  <2>5. LockIsHeld'
    <3>1. \A r \in Requests : request[r].endpoint \in Endpoints
      BY DEF PoolIInv, PoolTypeOK
    <3>2. /\ \A r \in Requests : request[r].at = "dividing" => request[r].endpoint # e
          /\ \A d \in Checks : check[e][d].at # "resetting"
      BY <2>1 DEF PoolIInv, LockIsHeld
    <3>3. QED
      BY <2>1, <2>2, <2>3, <3>1, <3>2 DEF PoolIInv, LockIsHeld
  <2>6. ErrorsAreCounted'
    BY <1>2, <2>1, <2>2, <2>3 DEF PoolIInv, ErrorsAreCounted, counters
  <2>7. QED
    BY <2>1, <2>4, <2>5, <2>6, CheckKeeps DEF PoolIInv, counters
<1>7. ASSUME ResetErrors(e, c)
      PROVE  PoolIInv'
  <2>1. /\ check' = [check EXCEPT ![e][c] = NoCheck] /\ check[e][c].at = "resetting"
        /\ ErrorCount' = [ErrorCount EXCEPT ![e] = @ - check[e][c].errors]
        /\ locked' = locked \ {e}
        /\ UNCHANGED <<nodes, endpoints, status, RequestCount, AvgLatency, request, closing>>
    BY <1>7 DEF ResetErrors
  <2>2. ErrorCount' \in [Endpoints -> Nat]
    <3>1. ErrorCount[e] - check[e][c].errors \in Nat
      <4>1. check[e][c].errors \in Nat /\ ErrorCount[e] \in Nat
        BY <1>1, <1>2 DEF Kept
      <4>2. check[e][c].errors <= ErrorCount[e]
        BY <2>1 DEF PoolIInv, ErrorsAreCounted
      <4>3. QED
        BY <4>1, <4>2
    <3>2. QED
      BY <1>2, <2>1, <3>1
  <2>3. \A f \in Endpoints, d \in Checks :
          check'[f][d] = IF f = e /\ d = c THEN NoCheck ELSE check[f][d]
    BY <1>1, <2>1
  <2>4. PoolTypeOK'
    BY <1>1, <2>1, <2>2 DEF PoolIInv, PoolTypeOK, Kept, nodes
  <2>5. /\ \A d \in Checks : check'[e][d].at # "resetting"
        /\ \A r \in Requests : request[r].at = "dividing" => request[r].endpoint # e
        /\ \A r \in Requests : request[r].endpoint \in Endpoints
    BY <1>1, <2>1, <2>3 DEF PoolIInv, PoolTypeOK, LockIsHeld
  <2>6. LockIsHeld'
    BY <1>1, <2>1, <2>3, <2>5 DEF PoolIInv, LockIsHeld
  <2>7. ErrorsAreCounted'
    BY <1>2, <2>1, <2>3, <2>5 DEF PoolIInv, ErrorsAreCounted
  <2>8. QED
    BY <2>1, <2>4, <2>6, <2>7, CheckKeeps DEF PoolIInv
<1>8. QED
  BY <1>4, <1>5, <1>6, <1>7 DEF Check

LEMMA ChecksBegin ==
  ASSUME PoolIInv, runHealthChecks
  PROVE  PoolIInv'
<1> DEFINE asking == [NoCheck EXCEPT !.at = "asking"]
<1>1. /\ asking.at = "asking" /\ asking.healthy = FALSE /\ asking.errors = 0
  BY DEF NoCheck
<1>2. /\ \A e \in Endpoints, c \in Checks : check'[e][c] \in {asking, check[e][c]}
      /\ check' = [e \in Endpoints |-> [c \in Checks |-> check'[e][c]]]
      /\ UNCHANGED <<nodes, endpoints, status, counters, locked, request, closing>>
  BY <1>1 DEF runHealthChecks
<1>3. asking \in [at : {"idle", "asking", "answered", "resetting"}, healthy : BOOLEAN, errors : Nat]
  BY DEF NoCheck
<1> HIDE DEF asking
<1>4. PoolTypeOK'
  BY <1>2, <1>3 DEF PoolIInv, PoolTypeOK, nodes, counters
<1>5. \A e \in Endpoints, c \in Checks :
        check'[e][c].at = "resetting" => check'[e][c] = check[e][c]
  BY <1>1, <1>2
<1>6. \A r \in Requests : request[r].endpoint \in Endpoints
  BY DEF PoolIInv, PoolTypeOK
<1>7. LockIsHeld'
  BY <1>2, <1>5, <1>6 DEF PoolIInv, LockIsHeld
<1>8. ErrorsAreCounted'
  BY <1>2, <1>5 DEF PoolIInv, ErrorsAreCounted, counters
<1>9. QED
  BY <1>2, <1>4, <1>7, <1>8, CheckKeeps DEF PoolIInv, counters

LEMMA PoolNextIInv == PoolIInv /\ [PoolNext]_poolVars => PoolIInv'
<1> SUFFICES ASSUME PoolIInv, [PoolNext]_poolVars PROVE PoolIInv'
  OBVIOUS
<1>1. ASSUME UNCHANGED <<counters, locked, request, check>>, PoolTypeOK'
      PROVE  PoolIInv'
  BY <1>1 DEF PoolIInv, RequestsAreCounted, LockIsHeld, ErrorsAreCounted, AveragesAreLatencies,
              counters
<1>2. ASSUME NEW e \in Endpoints, ComesOrGoes(e)
      PROVE  PoolIInv'
  BY <1>1, <1>2 DEF ComesOrGoes, PoolIInv, PoolTypeOK, counters
<1>3. ASSUME NEW e \in Endpoints, NEW mark \in {"healthy", "unhealthy"}, MarkEndpoint(e, mark)
      PROVE  PoolIInv'
  BY <1>1, <1>3 DEF MarkEndpoint, PoolIInv, PoolTypeOK, counters
<1>4. CASE CloseStep
  BY <1>1, <1>4 DEF CloseStep, Close, PoolIInv, PoolTypeOK, counters, nodes
<1>5. CASE UNCHANGED poolVars
  BY <1>1, <1>5 DEF poolVars, PoolIInv, PoolTypeOK, counters, nodes
<1>6. QED
  BY <1>2, <1>3, <1>4, <1>5, RequestStep, CheckStep, ChecksBegin DEF PoolNext

\* The counters of an endpoint keep their types through every interleaving.
THEOREM PoolTypeCorrect == PoolSpec => []PoolTypeOK
<1>1. PoolIInv => PoolTypeOK
  BY DEF PoolIInv
<1>2. QED
  BY <1>1, PoolInitIInv, PoolNextIInv, PTL DEF PoolSpec

\* For any number of endpoints, requests and checks: no error is taken off twice,
\* and no average exceeds every latency, though the count that divides it is read
\* a second time.
THEOREM CountersStayInRange == PoolSpec => []CountersAgree
<1>1. PoolIInv => CountersAgree
  BY DEF PoolIInv, PoolTypeOK, AveragesAreLatencies, CountersAgree
<1>2. QED
  BY <1>1, PoolInitIInv, PoolNextIInv, PTL DEF PoolSpec

=============================================================================
