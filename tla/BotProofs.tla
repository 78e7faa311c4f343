----------------------------- MODULE BotProofs -----------------------------
(***************************************************************************)
(* Proofs about Bot: its types, that every event accepted and every trade  *)
(* begun is accounted for, and what can kill the process before Stop has   *)
(* closed the channels, for any monitors, events and capacities.           *)
(***************************************************************************)
EXTENDS Bot, TLAPS

CountFields == {"delivered", "reported", "accepted", "taken", "trades", "successes",
                "failures", "skipped"}

---------------------------------------------------------------------------
(* What the actions do to the structures they change *)

LEMMA CountsOne ==
  ASSUME TypeOK, NEW f \in CountFields, counts' = [counts EXCEPT ![f] = @ + 1]
  PROVE  /\ counts' \in [CountFields -> Nat] /\ counts'[f] = counts[f] + 1
         /\ \A g \in CountFields \ {f} : counts'[g] = counts[g]
BY DEF TypeOK, CountFields

\* An event that is taken is counted, and in automatic mode a trade with it.
LEMMA CountsTaken ==
  ASSUME TypeOK, NEW skips \in BOOLEAN,
         counts' = [counts EXCEPT !.taken = @ + 1, !.trades = @ + 1,
                                  !.skipped = IF skips THEN @ ELSE @ + 1]
  PROVE  /\ counts' \in [CountFields -> Nat]
         /\ counts'.taken = counts.taken + 1 /\ counts'.trades = counts.trades + 1
         /\ counts'.skipped = counts.skipped + (IF skips THEN 0 ELSE 1)
         /\ counts'.accepted = counts.accepted /\ counts'.successes = counts.successes
         /\ counts'.failures = counts.failures
<1> DEFINE a == [counts EXCEPT !.taken = counts.taken + 1]
           b == [a EXCEPT !.trades = a.trades + 1]
           n == IF skips THEN counts.skipped ELSE counts.skipped + 1
<1>1. /\ a \in [CountFields -> Nat] /\ a.taken = counts.taken + 1
      /\ \A f \in CountFields \ {"taken"} : a[f] = counts[f]
  BY DEF TypeOK, CountFields
<1>2. counts' = [b EXCEPT !.skipped = n]
  BY DEF TypeOK
<1> HIDE DEF a
<1>3. b \in [CountFields -> Nat]
  BY <1>1 DEF CountFields
<1>4. /\ b.trades = a.trades + 1
      /\ \A f \in CountFields \ {"trades"} : b[f] = a[f]
  BY <1>1 DEF CountFields
<1> HIDE DEF b
<1>5. n \in Nat
  BY DEF TypeOK
<1>6. n = counts.skipped + (IF skips THEN 0 ELSE 1)
  BY DEF TypeOK
<1> HIDE DEF n
<1>7. /\ counts' \in [CountFields -> Nat] /\ counts'.skipped = n
      /\ \A f \in CountFields \ {"skipped"} : counts'[f] = b[f]
  BY <1>2, <1>3, <1>5 DEF CountFields
<1> QED
  BY <1>1, <1>4, <1>6, <1>7 DEF CountFields

LEMMA QueueGrows ==
  ASSUME NEW q \in Seq(Events), NEW e \in Events
  PROVE  Append(q, e) \in Seq(Events) /\ Len(Append(q, e)) = Len(q) + 1
OBVIOUS

LEMMA QueueShrinks ==
  ASSUME NEW q \in Seq(Events), q # <<>>
  PROVE  /\ Tail(q) \in Seq(Events) /\ Len(Tail(q)) = Len(q) - 1 /\ Head(q) \in Events
         /\ Len(q) \in Nat /\ Len(q) > 0
OBVIOUS

LEMMA MonitorMoves ==
  ASSUME TypeOK, NEW m \in Monitors, NEW step \in MonitorSteps, Monitor(m, step)
  PROVE  /\ at' \in [Monitors -> MonitorSteps] /\ at'[m] = step
         /\ \A n \in Monitors \ {m} : at'[n] = at[n]
BY DEF Monitor, TypeOK

---------------------------------------------------------------------------
(* The inductive invariant *)

\* A monitor that hands an event over has one.
HandsAnEvent == \A m \in Monitors : at[m] = "handing" => held[m] \in Events

\* While the process lives, the loop trades on an event exactly when it has one.
TradesOnCurrent == ~panicked => (loop = "trading" <=> current # None)

\* The loop begins with the last step of Start.
LoopIsSpawned == start # "started" => loop = "none"

Accounted ==
  /\ counts.accepted = counts.taken + Len(queue)
  /\ counts.trades = counts.successes + counts.failures + counts.skipped
                       + (IF current = None THEN 0 ELSE 1)

Inv ==
  TypeOK /\ HandsAnEvent /\ TradesOnCurrent /\ LoopIsSpawned /\ Accounted /\ DiesOnlyOfAMint

LEMMA InitInv == Init => Inv
<1> SUFFICES ASSUME Init PROVE Inv
  OBVIOUS
<1>1. /\ counts \in [CountFields -> Nat]
      /\ \A f \in CountFields : counts[f] = 0
  BY DEF Init, CountFields
<1>2. at \in [Monitors -> MonitorSteps] /\ \A m \in Monitors : at[m] = "off"
  BY DEF Init, MonitorSteps
<1>3. held \in [Monitors -> Events \cup {None}]
  BY DEF Init
<1>4. queue \in Seq(Events) /\ Len(queue) = 0 /\ Len(queue) <= EventCap
  BY ChannelsAreBuffered DEF Init
<1>5. errors \in 0 .. ErrorCap
  BY ChannelsAreBuffered DEF Init
<1>6. TypeOK
  BY <1>1, <1>2, <1>3, <1>4, <1>5 DEF Init, TypeOK, CountFields
<1>7. Accounted
  BY <1>1, <1>4 DEF Init, Accounted, CountFields
<1> QED
  BY <1>2, <1>6, <1>7 DEF Init, Inv, HandsAnEvent, TradesOnCurrent, LoopIsSpawned, DiesOnlyOfAMint

\* Whoever leaves the channel of events, the loop and the counters of both alone.
LEMMA NothingTaken ==
  ASSUME Inv, UNCHANGED <<mode, queue, trading, counts>>, panicked' = panicked,
         closed => closed', start' = start
  PROVE  TradesOnCurrent' /\ LoopIsSpawned' /\ Accounted' /\ DiesOnlyOfAMint'
BY DEF Inv, TradesOnCurrent, LoopIsSpawned, Accounted, DiesOnlyOfAMint, trading

LEMMA NumbersOfCounts ==
  ASSUME TypeOK
  PROVE  /\ counts.accepted \in Nat /\ counts.taken \in Nat /\ counts.trades \in Nat
         /\ counts.successes \in Nat /\ counts.failures \in Nat /\ counts.skipped \in Nat
         /\ Len(queue) \in Nat
BY DEF TypeOK

\* The monitors' own steps.
LEMMA MonitorsKeepInv ==
  ASSUME Inv, NEW m \in Monitors,
         \/ MonitorStarts(m) \/ MonitorFails(m) \/ OnError(m)
         \/ SendError(m) \/ Drained(m) \/ MonitorStops(m)
         \/ \E e \in Events : Deliver(m, e)
  PROVE  Inv'
<1> USE DEF Inv
<1>1. ASSUME NEW step \in MonitorSteps \ {"handing"}, Monitor(m, step),
             UNCHANGED <<mode, channels, held, stopping, halted, control, trading, counts,
                         panicked>>
      PROVE  Inv'
  <2>1. /\ at' \in [Monitors -> MonitorSteps] /\ at'[m] = step
        /\ \A n \in Monitors \ {m} : at'[n] = at[n]
    BY <1>1, MonitorMoves
  <2>2. HandsAnEvent'
    BY <1>1, <2>1 DEF HandsAnEvent
  <2>3. TypeOK'
    BY <1>1, <2>1 DEF TypeOK, channels, control, trading
  <2> QED
    BY <1>1, <2>2, <2>3, NothingTaken DEF channels, control
<1>2. CASE MonitorStarts(m) \/ MonitorFails(m) \/ Drained(m)
  BY <1>1, <1>2 DEF MonitorStarts, MonitorFails, Drained, MonitorSteps
<1>3. ASSUME NEW e \in Events, Deliver(m, e) PROVE Inv'
  <2>1. /\ at' \in [Monitors -> MonitorSteps] /\ at'[m] = "handing"
        /\ \A n \in Monitors \ {m} : at'[n] = at[n]
    BY <1>3, MonitorMoves DEF Deliver, MonitorSteps
  <2>2. held' \in [Monitors -> Events \cup {None}] /\ HandsAnEvent'
    BY <1>3, <2>1 DEF Deliver, TypeOK, HandsAnEvent
  <2>3. /\ counts' \in [CountFields -> Nat]
        /\ \A g \in CountFields \ {"delivered"} : counts'[g] = counts[g]
    BY <1>3, CountsOne DEF Deliver, CountFields
  <2>4. TypeOK'
    BY <1>3, <2>1, <2>2, <2>3 DEF Deliver, TypeOK, CountFields, channels, control, trading
  <2>5. Accounted' /\ TradesOnCurrent' /\ LoopIsSpawned' /\ DiesOnlyOfAMint'
    BY <1>3, <2>3 DEF Deliver, CountFields, Accounted, TradesOnCurrent, LoopIsSpawned,
                      DiesOnlyOfAMint, channels, control, trading
  <2> QED
    BY <2>2, <2>4, <2>5
<1>4. CASE OnError(m)
  <2>1. /\ at' \in [Monitors -> MonitorSteps] /\ at'[m] = "reporting"
        /\ \A n \in Monitors \ {m} : at'[n] = at[n]
    BY <1>4, MonitorMoves DEF OnError, MonitorSteps
  <2>2. HandsAnEvent'
    BY <1>4, <2>1 DEF OnError, HandsAnEvent
  <2>3. /\ counts' \in [CountFields -> Nat]
        /\ \A g \in CountFields \ {"reported"} : counts'[g] = counts[g]
    BY <1>4, CountsOne DEF OnError, CountFields
  <2>4. TypeOK'
    BY <1>4, <2>1, <2>3 DEF OnError, TypeOK, CountFields, channels, control, trading
  <2>5. Accounted' /\ TradesOnCurrent' /\ LoopIsSpawned' /\ DiesOnlyOfAMint'
    BY <1>4, <2>3 DEF OnError, CountFields, Accounted, TradesOnCurrent, LoopIsSpawned,
                      DiesOnlyOfAMint, channels, control, trading
  <2> QED
    BY <2>2, <2>4, <2>5
<1>5. CASE SendError(m)
  <2>1. CASE closed
    BY <1>5, <2>1
       DEF SendError, TypeOK, HandsAnEvent, Accounted, TradesOnCurrent, LoopIsSpawned,
           DiesOnlyOfAMint, control, trading
  <2>2. CASE ~closed
    <3>1. PICK step \in MonitorSteps \ {"handing"} : Monitor(m, step)
      BY <1>5, <2>2 DEF SendError, Resting, MonitorSteps
    <3>2. /\ at' \in [Monitors -> MonitorSteps] /\ at'[m] = step
          /\ \A n \in Monitors \ {m} : at'[n] = at[n]
      BY <3>1, MonitorMoves
    <3>3. HandsAnEvent'
      BY <1>5, <3>2 DEF SendError, HandsAnEvent
    <3>4. errors' \in 0 .. ErrorCap
      BY <1>5, <2>2, ChannelsAreBuffered DEF SendError, TypeOK
    <3>5. TypeOK'
      BY <1>5, <2>2, <3>2, <3>4 DEF SendError, TypeOK, control, trading
    <3> QED
      BY <1>5, <2>2, <3>3, <3>5, NothingTaken DEF SendError, control
  <2> QED
    BY <2>1, <2>2
<1>6. CASE MonitorStops(m)
  <2>1. PICK step \in {at[m], "draining"} :
          at' = [at EXCEPT ![m] = step] /\ (step = at[m] \/ step # "handing")
    BY <1>6 DEF MonitorStops
  <2>2. at' \in [Monitors -> MonitorSteps] /\ HandsAnEvent'
    BY <1>6, <2>1 DEF MonitorStops, HandsAnEvent, TypeOK, MonitorSteps
  <2>3. TypeOK'
    BY <1>6, <2>2 DEF MonitorStops, TypeOK, channels, control, trading
  <2> QED
    BY <1>6, <2>2, <2>3, NothingTaken DEF MonitorStops, channels, control
<1> QED
  BY <1>2, <1>3, <1>4, <1>5, <1>6

LEMMA HandingOverKeepsInv ==
  ASSUME Inv, NEW m \in Monitors, HandleTokenEvent(m)
  PROVE  Inv'
<1> USE DEF Inv
<1>1. Resting(m) \in MonitorSteps \ {"handing"}
  BY DEF Resting, MonitorSteps
<1>2. /\ at' \in [Monitors -> MonitorSteps] /\ at'[m] # "handing"
      /\ \A n \in Monitors \ {m} : at'[n] = at[n]
  BY <1>1, MonitorMoves DEF HandleTokenEvent
<1>3. held' \in [Monitors -> Events \cup {None}]
      /\ \A n \in Monitors \ {m} : held'[n] = held[n]
  BY DEF HandleTokenEvent, TypeOK
<1>4. HandsAnEvent'
  BY <1>2, <1>3 DEF HandsAnEvent
<1>5. CASE /\ ~closed /\ Len(queue) < EventCap
           /\ queue' = Append(queue, held[m])
           /\ counts' = [counts EXCEPT !.accepted = @ + 1]
           /\ UNCHANGED panicked
  <2>1. held[m] \in Events
    BY DEF HandleTokenEvent, HandsAnEvent
  <2>2. queue' \in Seq(Events) /\ Len(queue') = Len(queue) + 1
    BY <1>5, <2>1, QueueGrows DEF TypeOK
  <2>3. Len(queue') <= EventCap
    BY <1>5, <2>2, NumbersOfCounts, ChannelsAreBuffered
  <2>4. /\ counts' \in [CountFields -> Nat] /\ counts'.accepted = counts.accepted + 1
        /\ \A g \in CountFields \ {"accepted"} : counts'[g] = counts[g]
    BY <1>5, CountsOne DEF CountFields
  <2>5. TypeOK'
    BY <1>2, <1>3, <1>5, <2>2, <2>3, <2>4
       DEF HandleTokenEvent, TypeOK, CountFields, control, trading
  <2>6. counts'.taken = counts.taken
    BY <2>4 DEF CountFields
  <2>7. counts'.accepted = counts'.taken + Len(queue')
    BY <2>2, <2>4, <2>6, NumbersOfCounts DEF Accounted
  <2>8. counts'.trades = counts'.successes + counts'.failures + counts'.skipped
                         + (IF current' = None THEN 0 ELSE 1)
    BY <2>4 DEF HandleTokenEvent, trading, Accounted, CountFields
  <2> QED
    BY <1>4, <1>5, <2>5, <2>7, <2>8
       DEF HandleTokenEvent, Accounted, TradesOnCurrent, LoopIsSpawned, DiesOnlyOfAMint,
           control, trading
<1>6. CASE UNCHANGED <<queue, counts, panicked>>
  <2>1. TypeOK'
    BY <1>2, <1>3, <1>6 DEF HandleTokenEvent, TypeOK, control, trading
  <2> QED
    BY <1>4, <1>6, <2>1, NothingTaken DEF HandleTokenEvent, control
<1>7. CASE closed /\ panicked' = TRUE /\ UNCHANGED <<queue, counts>>
  <2>1. TypeOK'
    BY <1>2, <1>3, <1>7 DEF HandleTokenEvent, TypeOK, control, trading
  <2> QED
    BY <1>4, <1>7, <2>1
       DEF HandleTokenEvent, Accounted, TradesOnCurrent, LoopIsSpawned, DiesOnlyOfAMint,
           control, trading
<1> QED
  BY <1>5, <1>6, <1>7 DEF HandleTokenEvent

LEMMA TakingKeepsInv ==
  ASSUME Inv, TakeEvent
  PROVE  Inv'
<1> USE DEF Inv
<1>1. /\ queue' \in Seq(Events) /\ Len(queue') = Len(queue) - 1 /\ Head(queue) \in Events
      /\ Len(queue) > 0 /\ Len(queue') <= EventCap
  <2>1. queue \in Seq(Events) /\ queue # <<>> /\ queue' = Tail(queue) /\ Len(queue) <= EventCap
    BY DEF TakeEvent, TypeOK
  <2>2. EventCap \in Nat
    BY ChannelsAreBuffered
  <2> QED
    BY <2>1, <2>2, QueueShrinks
<1>2. current = None
  BY DEF TakeEvent, TypeOK, TradesOnCurrent
<1>3. HandsAnEvent' /\ LoopIsSpawned'
  <2>1. start = "started"
    BY DEF TakeEvent, LoopIsSpawned
  <2> QED
    BY <2>1 DEF TakeEvent, HandsAnEvent, LoopIsSpawned, sources, control
<1>4. CASE mode = "auto"
  <2> DEFINE e == Head(queue)
             skips == e \in Tradable
  <2>1. /\ counts' \in [CountFields -> Nat]
        /\ counts'.taken = counts.taken + 1 /\ counts'.trades = counts.trades + 1
        /\ counts'.skipped = counts.skipped + (IF skips THEN 0 ELSE 1)
        /\ counts'.accepted = counts.accepted /\ counts'.successes = counts.successes
        /\ counts'.failures = counts.failures
    <3>1. counts' = [counts EXCEPT !.taken = @ + 1, !.trades = @ + 1,
                                   !.skipped = IF skips THEN @ ELSE @ + 1]
      BY <1>4 DEF TakeEvent
    <3>2. skips \in BOOLEAN
      OBVIOUS
    <3> HIDE DEF skips
    <3> QED
      BY <3>1, <3>2, CountsTaken
  <2>2. executeTrade(e)
    BY <1>4 DEF TakeEvent
  <2>3. CASE e \notin Tradable
    <3>1. UNCHANGED <<trading, panicked>>
      BY <2>2, <2>3 DEF executeTrade
    <3>2. counts'.skipped = counts.skipped + 1
      BY <2>1, <2>3
    <3>3. TypeOK'
      BY <1>1, <2>1, <3>1 DEF TakeEvent, TypeOK, CountFields, sources, control, trading
    <3>4. Accounted'
      <4>1. counts'.accepted = counts'.taken + Len(queue')
        BY <1>1, <2>1, NumbersOfCounts DEF Accounted
      <4>2. current' = None
        BY <1>2, <3>1 DEF trading
      <4>3. counts.trades = counts.successes + counts.failures + counts.skipped
        BY <1>2, NumbersOfCounts DEF Accounted
      <4>4. counts'.trades = counts'.successes + counts'.failures + counts'.skipped
        BY <2>1, <3>2, <4>3, NumbersOfCounts
      <4> QED
        BY <1>1, <2>1, <3>2, <4>1, <4>2, <4>4, NumbersOfCounts DEF Accounted
    <3> QED
      BY <1>3, <3>1, <3>3, <3>4 DEF TakeEvent, TradesOnCurrent, DiesOnlyOfAMint, trading
  <2>4. CASE e \in Tradable
    <3>1. /\ current' = e
          /\ \/ e \in Malformed /\ panicked' = TRUE /\ loop' = loop
             \/ loop' = "trading" /\ panicked' = panicked
      BY <2>2, <2>4 DEF executeTrade
    <3>2. counts'.skipped = counts.skipped
      BY <2>1, <2>4, NumbersOfCounts
    <3>3. current' \in Events /\ current' # None
      BY <1>1, <3>1, KindsOfEvents
    <3>4. TypeOK'
      BY <1>1, <2>1, <3>1, <3>3 DEF TakeEvent, TypeOK, CountFields, sources, control
    <3>5. Accounted'
      BY <1>1, <1>2, <2>1, <3>2, <3>3, NumbersOfCounts DEF Accounted
    <3>6. TradesOnCurrent' /\ DiesOnlyOfAMint'
      BY <1>4, <2>4, <3>1, <3>3 DEF TakeEvent, TradesOnCurrent, DiesOnlyOfAMint
    <3> QED
      BY <1>3, <3>4, <3>5, <3>6
  <2> QED
    BY <2>3, <2>4
<1>5. CASE mode # "auto"
  <2>1. UNCHANGED <<trading, panicked>> /\ counts' = [counts EXCEPT !.taken = @ + 1]
    BY <1>5 DEF TakeEvent
  <2>2. /\ counts' \in [CountFields -> Nat] /\ counts'.taken = counts.taken + 1
        /\ \A g \in CountFields \ {"taken"} : counts'[g] = counts[g]
    BY <2>1, CountsOne DEF CountFields
  <2>3. TypeOK'
    BY <1>1, <2>1, <2>2 DEF TakeEvent, TypeOK, CountFields, sources, control, trading
  <2>4. counts'.accepted = counts.accepted
    BY <2>2 DEF CountFields
  <2>5. counts'.accepted = counts'.taken + Len(queue')
    BY <1>1, <2>2, <2>4, NumbersOfCounts DEF Accounted
  <2>6. counts'.trades = counts'.successes + counts'.failures + counts'.skipped
                         + (IF current' = None THEN 0 ELSE 1)
    BY <2>1, <2>2 DEF trading, Accounted, CountFields
  <2> QED
    BY <1>3, <2>1, <2>3, <2>5, <2>6
       DEF TakeEvent, Accounted, TradesOnCurrent, DiesOnlyOfAMint, trading
<1> QED
  BY <1>4, <1>5

LEMMA EndingKeepsInv ==
  ASSUME Inv, NEW result \in {"successes", "failures"}, TradeEnds(result)
  PROVE  Inv'
<1> USE DEF Inv
<1>1. /\ counts' \in [CountFields -> Nat] /\ counts'[result] = counts[result] + 1
      /\ \A g \in CountFields \ {result} : counts'[g] = counts[g]
  BY CountsOne DEF TradeEnds, CountFields
<1>2. current # None /\ current' = None /\ loop' = "waiting"
  BY DEF TradeEnds, TradesOnCurrent
<1>3. TypeOK'
  BY <1>1, <1>2 DEF TradeEnds, TypeOK, CountFields, channels, sources, control
<1>4. /\ counts'.accepted = counts.accepted /\ counts'.taken = counts.taken
      /\ counts'.trades = counts.trades /\ counts'.skipped = counts.skipped
      /\ \/ counts'.successes = counts.successes + 1 /\ counts'.failures = counts.failures
         \/ counts'.successes = counts.successes /\ counts'.failures = counts.failures + 1
  BY <1>1 DEF CountFields
<1>5. Accounted'
  <2>1. counts'.accepted = counts'.taken + Len(queue')
    BY <1>4 DEF TradeEnds, Accounted, channels
  <2>2. counts.trades = counts.successes + counts.failures + counts.skipped + 1
    BY <1>2 DEF Accounted
  <2>3. counts'.trades = counts'.successes + counts'.failures + counts'.skipped
    BY <1>4, <2>2, NumbersOfCounts
  <2>4. counts'.trades = counts'.successes + counts'.failures + counts'.skipped + 0
    BY <1>4, <2>3, NumbersOfCounts
  <2> QED
    BY <1>2, <2>1, <2>4 DEF Accounted
<1> QED
  BY <1>2, <1>3, <1>5
     DEF TradeEnds, HandsAnEvent, TradesOnCurrent, LoopIsSpawned, DiesOnlyOfAMint,
         channels, sources, control

LEMMA NextInv ==
  ASSUME Inv, [Next]_vars
  PROVE  Inv'
<1> USE DEF Inv
<1>1. CASE Start
  <2>1. at' \in [Monitors -> MonitorSteps] /\ \A m \in Monitors : at'[m] = "spawned"
    BY <1>1 DEF Start, MonitorSteps
  <2>2. HandsAnEvent'
    BY <2>1 DEF HandsAnEvent
  <2>3. TypeOK'
    BY <1>1, <2>1 DEF Start, TypeOK, channels, trading
  <2> QED
    BY <1>1, <2>2, <2>3 DEF Start, Accounted, TradesOnCurrent, LoopIsSpawned,
                            DiesOnlyOfAMint, channels, trading
<1>2. CASE SpawnLoops
  <2>1. loop = "none" /\ current = None
    BY <1>2 DEF SpawnLoops, TradesOnCurrent, LoopIsSpawned
  <2>2. TypeOK'
    BY <1>2 DEF SpawnLoops, TypeOK, channels, sources
  <2> QED
    BY <1>2, <2>1, <2>2
       DEF SpawnLoops, HandsAnEvent, Accounted, TradesOnCurrent, LoopIsSpawned,
           DiesOnlyOfAMint, channels, sources
<1>3. CASE TakeError
  <2>1. errors' \in 0 .. ErrorCap
    BY <1>3, ChannelsAreBuffered DEF TakeError, TypeOK
  <2>2. TypeOK'
    BY <1>3, <2>1 DEF TakeError, TypeOK, sources, control, trading
  <2> QED
    BY <1>3, <2>2, NothingTaken DEF TakeError, HandsAnEvent, sources, control
<1>4. CASE LoopExits
  <2>1. current = None /\ start = "started"
    BY <1>4 DEF LoopExits, TradesOnCurrent, LoopIsSpawned
  <2>2. TypeOK'
    BY <1>4 DEF LoopExits, TypeOK, channels, sources, control
  <2> QED
    BY <1>4, <2>1, <2>2
       DEF LoopExits, HandsAnEvent, Accounted, TradesOnCurrent, LoopIsSpawned,
           DiesOnlyOfAMint, channels, sources, control
<1>5. CASE Stop
  <2>1. TypeOK'
    BY <1>5 DEF Stop, TypeOK, channels, trading
  <2> QED
    BY <1>5, <2>1, NothingTaken DEF Stop, HandsAnEvent, channels
<1>6. CASE CloseChannels
  <2>1. TypeOK'
    BY <1>6 DEF CloseChannels, TypeOK, sources, trading
  <2> QED
    BY <1>6, <2>1, NothingTaken DEF CloseChannels, HandsAnEvent, sources
<1>7. CASE UNCHANGED vars
  <2>1. TypeOK'
    BY <1>7 DEF vars, TypeOK, channels, sources, control, trading
  <2> QED
    BY <1>7, <2>1, NothingTaken DEF vars, HandsAnEvent, channels, sources, control
<1> QED
  BY <1>1, <1>2, <1>3, <1>4, <1>5, <1>6, <1>7, TakingKeepsInv, EndingKeepsInv,
     MonitorsKeepInv, HandingOverKeepsInv
     DEF Next

LEMMA SpecInv == Spec => []Inv
BY InitInv, NextInv, PTL DEF Spec

\* Every variable keeps its type, and both channels their capacities.
THEOREM BotTypeCorrect == Spec => []TypeOK
<1>1. Inv => TypeOK
  BY DEF Inv
<1> QED
  BY SpecInv, <1>1, PTL

\* What was accepted is queued or processed, and what was traded has ended, found no
\* trader or is the trade under way, through every shutdown and every panic, for any
\* number of monitors and capacity of the channels (HandleTokenEvent, processEvent).
THEOREM NothingUnaccounted == Spec => []EventsAndTradesAccounted
<1>1. Inv => EventsAndTradesAccounted
  BY NumbersOfCounts DEF Inv, Accounted, EventsAndTradesAccounted
<1> QED
  BY SpecInv, <1>1, PTL

\* Until its channels are closed the process dies only of a trade on a mint that is
\* no address (executeTrade, OnError, Stop).
THEOREM OnlyAMintKills == Spec => []DiesOnlyOfAMint
<1>1. Inv => DiesOnlyOfAMint
  BY DEF Inv
<1> QED
  BY SpecInv, <1>1, PTL

=============================================================================
