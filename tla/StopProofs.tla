----------------------------- MODULE StopProofs -----------------------------
(***************************************************************************)
(* Proofs about the two stops of internal/strategy, for every set of       *)
(* positions, prices and configurations, and any number of goroutines.     *)
(*                                                                         *)
(* TrailingStop: the checked invariants are inductive together with        *)
(* TypeOK; that no position is sold at its high also needs the stop to     *)
(* stay at or below the high, which BelowHigh adds.                        *)
(*                                                                         *)
(* StopLoss: every trailing state belongs to one position, whose           *)
(* evaluations know of each other (StatesAreOwned, OverlapsAreSeen), so    *)
(* that what one of them has compared still holds when it writes unless    *)
(* it was raced (ChecksHold).                                              *)
(***************************************************************************)
EXTENDS TrailingStop, StopLoss, FiniteSetTheorems, TLAPS

(* TrailingStop *)


\* Well-typed values stay well-typed through the arithmetic of one stop.
LEMMA FreshType ==
  ASSUME NEW entry \in Int, NEW stop \in Int
  PROVE  Fresh(entry, stop) \in TrailState
BY DEF Fresh, TrailState

LEMMA InitialStopType ==
  ASSUME NEW entry \in Int, NEW c \in ConfigType
  PROVE  calculateInitialStop(entry, c) \in Int
BY DEF calculateInitialStop, ConfigType, Scale

\* What a new high does to a stop: it keeps the entry, takes the new high and
\* never lowers the stop; it activates with the price that got it there.
LEMMA RaiseHighestEffect ==
  ASSUME NEW st \in TrailState, NEW price \in Int, NEW c \in ConfigType
  PROVE  LET r == RaiseHighest(st, price, c)
         IN  /\ r \in TrailState
             /\ r.entryPrice = st.entryPrice
             /\ r.initialStopPrice = st.initialStopPrice
             /\ r.highestPrice = price
             /\ r.currentStopPrice >= st.currentStopPrice
             /\ r.triggered = st.triggered
             /\ st.activated => r.activated /\ r.activationPrice = st.activationPrice
             /\ r.activated /\ ~st.activated =>
                  /\ r.activationPrice = price
                  /\ r.currentStopPrice >= price * (Scale - c.trailing)
<1> DEFINE high == [st EXCEPT !.highestPrice = price]
           live == IF ~high.activated /\ ReachesActivation(high, price, c)
                     THEN activate(high, price) ELSE high
           new == price * (Scale - c.trailing)
<1>1. new \in Int
  BY DEF ConfigType, Scale
<1>2. high \in TrailState
  BY DEF TrailState
<1>3. /\ live \in TrailState
      /\ live.entryPrice = st.entryPrice
      /\ live.initialStopPrice = st.initialStopPrice
      /\ live.highestPrice = price
      /\ live.currentStopPrice = st.currentStopPrice
      /\ live.triggered = st.triggered
      /\ st.activated => live.activated /\ live.activationPrice = st.activationPrice
      /\ live.activated /\ ~st.activated => live.activationPrice = price
  BY <1>2 DEF activate, TrailState
<1>4. CASE live.activated
  <2>1. RaiseHighest(st, price, c) = updateStopPrice(live, c)
    BY <1>4 DEF RaiseHighest
  <2>2. updateStopPrice(live, c)
          = [live EXCEPT !.currentStopPrice = IF new > @ THEN new ELSE @]
    BY <1>3 DEF updateStopPrice
  <2> HIDE DEF live, new
  <2>3. QED
    BY <1>1, <1>3, <1>4, <2>1, <2>2 DEF TrailState, new
<1>5. CASE ~live.activated
  <2>1. RaiseHighest(st, price, c) = live
    BY <1>5 DEF RaiseHighest
  <2> HIDE DEF live
  <2>2. QED
    BY <1>3, <1>5, <2>1 DEF TrailState
<1>6. QED
  BY <1>4, <1>5
\* What acting on a price does to a stop that has not triggered.
LEMMA ObserveEffect ==
  ASSUME NEW st \in TrailState, NEW price \in Int, NEW c,
         price > st.highestPrice => c \in ConfigType
  PROVE  LET r == Observe(st, price, c)
         IN  /\ r \in TrailState
             /\ r.entryPrice = st.entryPrice
             /\ r.initialStopPrice = st.initialStopPrice
             /\ r.highestPrice >= st.highestPrice
             /\ r.highestPrice >= price
             /\ r.currentStopPrice >= st.currentStopPrice
             /\ r.triggered = (Scale * price <= r.currentStopPrice)
             /\ st.activated => r.activated /\ r.activationPrice = st.activationPrice
             /\ r.activated /\ ~st.activated =>
                  /\ c \in ConfigType
                  /\ r.currentStopPrice >= r.activationPrice * (Scale - c.trailing)
<1> DEFINE high == IF price > st.highestPrice THEN RaiseHighest(st, price, c) ELSE st
<1>1. /\ high \in TrailState
      /\ high.entryPrice = st.entryPrice
      /\ high.initialStopPrice = st.initialStopPrice
      /\ high.highestPrice >= st.highestPrice
      /\ high.highestPrice >= price
      /\ high.currentStopPrice >= st.currentStopPrice
      /\ st.activated => high.activated /\ high.activationPrice = st.activationPrice
      /\ high.activated /\ ~st.activated =>
           /\ c \in ConfigType
           /\ high.currentStopPrice >= high.activationPrice * (Scale - c.trailing)
  <2>1. CASE price > st.highestPrice
    <3> DEFINE r == RaiseHighest(st, price, c)
    <3>1. high = r /\ c \in ConfigType
      BY <2>1
    <3>2. /\ r \in TrailState
          /\ r.entryPrice = st.entryPrice
          /\ r.initialStopPrice = st.initialStopPrice
          /\ r.highestPrice = price
          /\ r.currentStopPrice >= st.currentStopPrice
          /\ st.activated => r.activated /\ r.activationPrice = st.activationPrice
          /\ r.activated /\ ~st.activated =>
               /\ r.activationPrice = price
               /\ r.currentStopPrice >= price * (Scale - c.trailing)
      BY <3>1, RaiseHighestEffect
    <3> HIDE DEF high, r
    <3>3. QED
      BY <2>1, <3>1, <3>2 DEF TrailState
  <2>2. CASE ~(price > st.highestPrice)
    BY <2>2 DEF TrailState
  <2>3. QED
    BY <2>1, <2>2
<1>2. Observe(st, price, c)
        = [high EXCEPT !.triggered = Scale * price <= high.currentStopPrice]
  BY DEF Observe, trigger
<1> DEFINE fires == Scale * price <= high.currentStopPrice
           r == [high EXCEPT !.triggered = fires]
<1> HIDE DEF high, fires
<1>3. fires \in BOOLEAN
  BY DEF fires
<1>4. /\ r \in TrailState
      /\ r.entryPrice = high.entryPrice
      /\ r.initialStopPrice = high.initialStopPrice
      /\ r.highestPrice = high.highestPrice
      /\ r.currentStopPrice = high.currentStopPrice
      /\ r.activated = high.activated
      /\ r.activationPrice = high.activationPrice
      /\ r.triggered = fires
  BY <1>1, <1>3 DEF TrailState
<1>5. Observe(st, price, c) = r
  BY <1>2 DEF fires
<1> HIDE DEF r
<1>6. QED
  BY <1>1, <1>4, <1>5 DEF fires
---------------------------------------------------------------------------
(* The inductive invariant, position by position *)

GoodStop(st, price) ==
  /\ st.currentStopPrice >= st.initialStopPrice
  /\ st.highestPrice >= st.entryPrice
  /\ price # 0 => st.highestPrice >= price
  /\ st.activated =>
       \E c \in Configs : st.currentStopPrice >= st.activationPrice * (Scale - c.trailing)
  /\ st.triggered = (price # 0 /\ Scale * price <= st.currentStopPrice)

IInv == TypeOK /\ \A p \in Positions : Tracked(p) => GoodStop(states[p], seen[p])

LEMMA IInvIsTheInvariants == IInv <=> TypeOK /\ StopAboveFloor /\ LockedIn /\ FiresExactly
BY DEF IInv, GoodStop, StopAboveFloor, LockedIn, FiresExactly

LEMMA FreshIsGood ==
  ASSUME NEW entry \in Int, NEW stop \in Int
  PROVE  GoodStop(Fresh(entry, stop), 0)
<1> DEFINE st == Fresh(entry, stop)
<1>1. /\ st.initialStopPrice = stop
      /\ st.currentStopPrice = stop
      /\ st.entryPrice = entry
      /\ st.highestPrice = entry
      /\ ~st.activated
      /\ st.triggered = FALSE
  BY DEF Fresh
<1> HIDE DEF st
<1>2. st.triggered = (0 # 0 /\ Scale * 0 <= st.currentStopPrice)
  BY <1>1
<1>3. GoodStop(st, 0)
  BY <1>1, <1>2 DEF GoodStop
<1>4. QED
  BY <1>3 DEF st

LEMMA ObserveIsGood ==
  ASSUME NEW st \in TrailState, NEW last \in Int, GoodStop(st, last),
         NEW price \in Int, price > 0,
         NEW c \in Configs \cup {NoConfig}, c = NoConfig => price <= st.highestPrice
  PROVE  GoodStop(Observe(st, price, c), price)
<1> DEFINE r == Observe(st, price, c)
<1>1. price > st.highestPrice => c \in ConfigType
  BY ConfigsAreTyped DEF TrailState
<1>2. /\ r \in TrailState
      /\ r.entryPrice = st.entryPrice
      /\ r.initialStopPrice = st.initialStopPrice
      /\ r.highestPrice >= st.highestPrice
      /\ r.highestPrice >= price
      /\ r.currentStopPrice >= st.currentStopPrice
      /\ r.triggered = (Scale * price <= r.currentStopPrice)
      /\ st.activated => r.activated /\ r.activationPrice = st.activationPrice
      /\ r.activated /\ ~st.activated =>
           /\ c \in ConfigType
           /\ r.currentStopPrice >= r.activationPrice * (Scale - c.trailing)
  BY <1>1, ObserveEffect
<1> HIDE DEF r
<1>3. /\ r.currentStopPrice >= r.initialStopPrice
      /\ r.highestPrice >= r.entryPrice
  BY <1>2 DEF GoodStop, TrailState
<1>4. ASSUME r.activated
      PROVE  \E d \in Configs :
               r.currentStopPrice >= r.activationPrice * (Scale - d.trailing)
  <2>1. CASE st.activated
    <3>1. PICK d \in Configs :
            st.currentStopPrice >= st.activationPrice * (Scale - d.trailing)
      BY <2>1 DEF GoodStop
    <3>2. st.activationPrice * (Scale - d.trailing) \in Int
      BY ConfigsAreTyped DEF ConfigType, TrailState, Scale
    <3>3. r.currentStopPrice >= st.activationPrice * (Scale - d.trailing)
      BY <1>2, <3>1, <3>2 DEF TrailState
    <3>4. QED
      BY <1>2, <2>1, <3>3
  <2>2. CASE ~st.activated
    BY <1>2, <1>4, <2>2, ConfigsAreTyped
  <2>3. QED
    BY <2>1, <2>2
<1>5. QED
  BY <1>2, <1>3, <1>4 DEF GoodStop, r
---------------------------------------------------------------------------
(* The invariant is inductive *)

LEMMA InitIInv == Init => IInv
<1> SUFFICES ASSUME Init PROVE IInv
  OBVIOUS
<1>1. config \in Configs
  BY DEF Init
<1>2. \A p \in Positions : ~Tracked(p)
  BY DEF Init, Tracked
<1>3. /\ states = [p \in Positions |-> NoState]
      /\ entering = [p \in Positions |-> 0]
      /\ panicked = FALSE
      /\ seen = [p \in Positions |-> 0]
  BY DEF Init
<1>4. states \in [Positions -> TrailState \cup {NoState}]
  BY <1>3
<1>5. entering \in [Positions -> Int] /\ seen \in [Positions -> Int]
  BY <1>3
<1>6. TypeOK
  BY <1>1, <1>3, <1>4, <1>5 DEF TypeOK
<1>7. QED
  BY <1>2, <1>6 DEF IInv

LEMMA NextIInv == IInv /\ [Next]_vars => IInv'
<1> SUFFICES ASSUME IInv, [Next]_vars PROVE IInv'
  OBVIOUS
<1> USE DEF IInv, Tracked
<1>1. ASSUME NEW p \in Positions, NEW entry \in Prices, BeginInitialize(p, entry)
      PROVE  IInv'
  BY <1>1, PricesAreNumbers DEF BeginInitialize, TypeOK
<1>2. ASSUME NEW p \in Positions, Initialize(p)
      PROVE  IInv'
  <2> DEFINE stop == calculateInitialStop(entering[p], config)
             fresh == Fresh(entering[p], stop)
  <2>1. stop \in Int
    BY <1>2, ConfigsAreTyped, InitialStopType DEF Initialize, TypeOK
  <2>2. fresh \in TrailState /\ GoodStop(fresh, 0)
    BY <2>1, FreshType, FreshIsGood DEF TypeOK
  <2>3. states' = [states EXCEPT ![p] = fresh] /\ seen' = [seen EXCEPT ![p] = 0]
    BY <1>2 DEF Initialize
  <2>4. TypeOK'
    BY <1>2, <2>2, <2>3 DEF Initialize, TypeOK
  <2> HIDE DEF fresh
  <2>5. QED
    BY <2>2, <2>3, <2>4 DEF TypeOK
<1>3. ASSUME NEW p \in Positions, InitializeNil(p)
      PROVE  IInv'
  BY <1>3 DEF InitializeNil, TypeOK
<1>4. ASSUME NEW p \in Positions, NEW price \in Prices, Update(p, price)
      PROVE  IInv'
  <2> DEFINE st == Observe(states[p], price, config)
  <2>1. /\ states[p] \in TrailState /\ price \in Int /\ price > 0
        /\ config \in Configs \cup {NoConfig}
        /\ config = NoConfig => price <= states[p].highestPrice
        /\ seen[p] \in Int /\ GoodStop(states[p], seen[p])
    BY <1>4, PricesAreNumbers DEF Update, TypeOK
  <2>2. GoodStop(st, price)
    BY <2>1, ObserveIsGood
  <2>3. st \in TrailState
    BY <2>1, ObserveEffect, ConfigsAreTyped DEF TrailState
  <2>4. states' = [states EXCEPT ![p] = st] /\ seen' = [seen EXCEPT ![p] = price]
    BY <1>4 DEF Update
  <2> HIDE DEF st
  <2>5. TypeOK'
    BY <1>4, <2>1, <2>3, <2>4 DEF Update, TypeOK
  <2>6. QED
    BY <2>2, <2>4, <2>5 DEF TypeOK
<1>5. ASSUME NEW p \in Positions, NEW price \in Prices, UpdateNil(p, price)
      PROVE  IInv'
  <2> DEFINE st == [states[p] EXCEPT !.highestPrice = price]
  <2>1. /\ states[p] \in TrailState /\ price \in Int
        /\ price > states[p].highestPrice /\ GoodStop(states[p], seen[p])
        /\ seen[p] \in Int
    BY <1>5, PricesAreNumbers DEF UpdateNil, TypeOK
  <2>2. st \in TrailState /\ GoodStop(st, seen[p])
    BY <2>1 DEF TrailState, GoodStop
  <2>3. states' = [states EXCEPT ![p] = st]
    BY <1>5 DEF UpdateNil
  <2> HIDE DEF st
  <2>4. QED
    BY <1>5, <2>2, <2>3 DEF UpdateNil, TypeOK
<1>6. ASSUME NEW p \in Positions, Remove(p)
      PROVE  IInv'
  BY <1>6 DEF Remove, TypeOK
<1>7. ASSUME NEW p \in Positions, Reset(p)
      PROVE  IInv'
  <2> DEFINE fresh == Fresh(states[p].entryPrice, states[p].initialStopPrice)
  <2>1. states[p] \in TrailState
    BY <1>7 DEF Reset, TypeOK
  <2>2. fresh \in TrailState /\ GoodStop(fresh, 0)
    BY <2>1, FreshType, FreshIsGood DEF TrailState
  <2>3. states' = [states EXCEPT ![p] = fresh] /\ seen' = [seen EXCEPT ![p] = 0]
    BY <1>7 DEF Reset
  <2> HIDE DEF fresh
  <2>4. QED
    BY <1>7, <2>2, <2>3 DEF Reset, TypeOK
<1>8. ASSUME NEW c \in Configs \cup {NoConfig}, UpdateConfig(c)
      PROVE  IInv'
  BY <1>8 DEF UpdateConfig, TypeOK
<1>9. CASE UNCHANGED vars
  BY <1>9 DEF vars, TypeOK
<1>10. QED
  BY <1>1, <1>2, <1>3, <1>4, <1>5, <1>6, <1>7, <1>8, <1>9 DEF Next

LEMMA AlwaysIInv == Spec => []IInv
<1>1. QED
  BY InitIInv, NextIInv, PTL DEF Spec

---------------------------------------------------------------------------
(* The checked invariants, for every instance *)

\* The variables keep their types: whatever Initialize, Update, Remove, Reset and
\* UpdateConfig do, ts.states holds only well-formed trail states.
THEOREM TypeCorrect == Spec => []TypeOK
<1>1. IInv => TypeOK
  BY DEF IInv
<1>2. QED
  BY <1>1, AlwaysIInv, PTL

\* "Only raise the stop": no sequence of updates and configuration changes takes
\* a tracked position's stop below the stop it was given on entry.
THEOREM StopNeverBelowFloor == Spec => []StopAboveFloor
<1>1. IInv => StopAboveFloor
  BY IInvIsTheInvariants
<1>2. QED
  BY <1>1, AlwaysIInv, PTL

\* An activated stop keeps the gain of its activation price, up to the trailing
\* distance of one of the configurations, whatever UpdateConfig installs later.
THEOREM GainStaysLockedIn == Spec => []LockedIn
<1>1. IInv => LockedIn
  BY IInvIsTheInvariants
<1>2. QED
  BY <1>1, AlwaysIInv, PTL

\* The stop triggers exactly on a price at or below it, whatever was configured.
THEOREM TriggersExactlyAtTheStop == Spec => []FiresExactly
<1>1. IInv => FiresExactly
  BY IInvIsTheInvariants
<1>2. QED
  BY <1>1, AlwaysIInv, PTL

---------------------------------------------------------------------------
(* No position is sold at its high *)

NoNegativeTrail == \A c \in Configs : c.trailing >= 0

StopBelowHigh(st) ==
  st.initialStopPrice < Scale * st.entryPrice => st.currentStopPrice <= Scale * st.highestPrice

BelowHigh == \A p \in Positions : Tracked(p) => StopBelowHigh(states[p])

LEMMA TrailIsBelowPrice ==
  ASSUME NEW price \in Int, price > 0, NEW dist \in Int
  PROVE  /\ dist >= 0 => price * (Scale - dist) <= Scale * price
         /\ dist > 0 => price * (Scale - dist) < Scale * price
<1>1. price * (Scale - dist) = Scale * price - price * dist
  BY DEF Scale
<1>2. (dist >= 0 => price * dist >= 0) /\ (dist > 0 => price * dist > 0)
  OBVIOUS
<1> DEFINE d == price * dist
           n == price * (Scale - dist)
<1>3. d \in Int /\ n \in Int /\ n = Scale * price - d
  BY <1>1 DEF Scale
<1> HIDE DEF d, n
<1>4. (d >= 0 => n <= Scale * price) /\ (d > 0 => n < Scale * price)
  BY <1>3 DEF Scale
<1>5. QED
  BY <1>2, <1>4 DEF d, n

\* A new high leaves the stop alone or moves it to the trailing distance.
LEMMA RaiseHighestStop ==
  ASSUME NEW st \in TrailState, NEW price \in Int, NEW c \in ConfigType
  PROVE  RaiseHighest(st, price, c).currentStopPrice
           \in {st.currentStopPrice, price * (Scale - c.trailing)}
<1> DEFINE high == [st EXCEPT !.highestPrice = price]
           live == IF ~high.activated /\ ReachesActivation(high, price, c)
                     THEN activate(high, price) ELSE high
<1>1. /\ live \in TrailState
      /\ live.currentStopPrice = st.currentStopPrice
      /\ live.highestPrice = price
  BY DEF activate, TrailState
<1>2. RaiseHighest(st, price, c) = IF live.activated THEN updateStopPrice(live, c) ELSE live
  BY DEF RaiseHighest
<1> HIDE DEF live
<1>3. updateStopPrice(live, c).currentStopPrice
        \in {live.currentStopPrice, price * (Scale - c.trailing)}
  BY <1>1 DEF updateStopPrice, TrailState
<1>4. QED
  BY <1>1, <1>2, <1>3

LEMMA ObserveBelowHigh ==
  ASSUME NEW st \in TrailState, NEW price \in Int, price > 0, NEW c,
         price > st.highestPrice => c \in ConfigType /\ c.trailing >= 0,
         st.highestPrice >= st.entryPrice, StopBelowHigh(st)
  PROVE  LET r == Observe(st, price, c)
         IN  /\ StopBelowHigh(r)
             /\ (/\ st.initialStopPrice < Scale * st.entryPrice
                 /\ price > st.highestPrice /\ c.trailing > 0)
                => ~r.triggered
<1> DEFINE r == Observe(st, price, c)
<1>1. /\ r \in TrailState
      /\ r.entryPrice = st.entryPrice
      /\ r.initialStopPrice = st.initialStopPrice
      /\ r.triggered = (Scale * price <= r.currentStopPrice)
  BY ObserveEffect
<1>2. CASE price > st.highestPrice
  <2> DEFINE high == RaiseHighest(st, price, c)
             new == price * (Scale - c.trailing)
  <2>1. high \in TrailState /\ high.highestPrice = price
    BY <1>2, RaiseHighestEffect
  <2>2. high.currentStopPrice \in {st.currentStopPrice, new}
    BY <1>2, RaiseHighestStop
  <2>3. r = [high EXCEPT !.triggered = Scale * price <= high.currentStopPrice]
    BY <1>2 DEF Observe, trigger
  <2>4. r.currentStopPrice = high.currentStopPrice /\ r.highestPrice = price
    BY <2>1, <2>3 DEF TrailState
  <2>5. /\ new \in Int /\ new <= Scale * price
        /\ c.trailing > 0 => new < Scale * price
    BY <1>2, TrailIsBelowPrice DEF ConfigType, Scale
  <2> HIDE DEF r, high, new
  <2>6. ASSUME st.initialStopPrice < Scale * st.entryPrice
        PROVE  st.currentStopPrice < Scale * price
    BY <1>2, <2>6 DEF StopBelowHigh, TrailState, Scale
  <2>7. StopBelowHigh(r)
    BY <1>1, <2>2, <2>4, <2>5, <2>6 DEF StopBelowHigh, TrailState, Scale
  <2>8. ASSUME st.initialStopPrice < Scale * st.entryPrice, c.trailing > 0
        PROVE  ~r.triggered
    BY <1>1, <2>2, <2>4, <2>5, <2>6, <2>8 DEF TrailState, Scale
  <2>9. QED
    BY <2>7, <2>8 DEF r
<1>3. CASE ~(price > st.highestPrice)
  <2>1. r = [st EXCEPT !.triggered = Scale * price <= st.currentStopPrice]
    BY <1>3 DEF Observe, trigger
  <2>2. r.currentStopPrice = st.currentStopPrice /\ r.highestPrice = st.highestPrice
    BY <2>1 DEF TrailState
  <2> HIDE DEF r
  <2>3. StopBelowHigh(r)
    BY <1>1, <2>2 DEF StopBelowHigh
  <2>4. QED
    BY <1>3, <2>3 DEF r
<1>4. QED
  BY <1>2, <1>3

LEMMA InitBelowHigh == Init => BelowHigh
BY DEF Init, BelowHigh, Tracked

LEMMA FreshBelowHigh ==
  ASSUME NEW entry \in Int, NEW stop \in Int
  PROVE  StopBelowHigh(Fresh(entry, stop))
BY DEF Fresh, StopBelowHigh, Scale

\* What an Update does, in terms of the one trail state it replaces.
LEMMA UpdateBelowHigh ==
  ASSUME NoNegativeTrail, IInv, BelowHigh,
         NEW p \in Positions, NEW price \in Prices, Update(p, price)
  PROVE  /\ states'[p] \in TrailState
         /\ StopBelowHigh(states'[p])
         /\ states'[p].highestPrice > states[p].highestPrice => price > states[p].highestPrice
         /\ (/\ states[p].initialStopPrice < Scale * states[p].entryPrice
             /\ price > states[p].highestPrice /\ config.trailing > 0)
            => ~states'[p].triggered
<1>1. /\ states[p] \in TrailState /\ price \in Int /\ price > 0
      /\ config \in Configs \cup {NoConfig}
      /\ config = NoConfig => price <= states[p].highestPrice
      /\ states[p].highestPrice >= states[p].entryPrice
      /\ StopBelowHigh(states[p])
  BY PricesAreNumbers DEF Update, Tracked, IInv, GoodStop, TypeOK, BelowHigh
<1>2. price > states[p].highestPrice => config \in ConfigType /\ config.trailing >= 0
  BY <1>1, ConfigsAreTyped DEF NoNegativeTrail, TrailState
<1>3. states'[p] = Observe(states[p], price, config)
  BY DEF Update, IInv, TypeOK
<1>4. states'[p] \in TrailState
  BY <1>1, <1>2, <1>3, ObserveEffect
<1>5. price <= states[p].highestPrice => states'[p].highestPrice = states[p].highestPrice
  BY <1>1, <1>3 DEF Observe, trigger, TrailState
<1>6. states'[p].highestPrice > states[p].highestPrice => price > states[p].highestPrice
  BY <1>1, <1>4, <1>5 DEF TrailState
<1>7. QED
  BY <1>1, <1>2, <1>3, <1>4, <1>6, ObserveBelowHigh

LEMMA NextBelowHigh ==
  ASSUME NoNegativeTrail
  PROVE  IInv /\ BelowHigh /\ [Next]_vars => BelowHigh'
<1> SUFFICES ASSUME IInv, BelowHigh, [Next]_vars, NEW q \in Positions, Tracked(q)'
             PROVE  StopBelowHigh(states'[q])
  BY DEF BelowHigh
<1>0. states \in [Positions -> TrailState \cup {NoState}]
  BY DEF IInv, TypeOK
<1>1. ASSUME NEW p \in Positions, Initialize(p)
      PROVE  StopBelowHigh(states'[q])
  <2> DEFINE stop == calculateInitialStop(entering[p], config)
             fresh == Fresh(entering[p], stop)
  <2>1. stop \in Int /\ entering[p] \in Int
    BY <1>1, ConfigsAreTyped, InitialStopType DEF Initialize, IInv, TypeOK
  <2>2. StopBelowHigh(fresh)
    BY <2>1, FreshBelowHigh
  <2>3. states' = [states EXCEPT ![p] = fresh]
    BY <1>1 DEF Initialize
  <2> HIDE DEF fresh
  <2>4. QED
    BY <1>0, <2>2, <2>3 DEF BelowHigh, Tracked
<1>2. ASSUME NEW p \in Positions, NEW price \in Prices, Update(p, price)
      PROVE  StopBelowHigh(states'[q])
  <2>1. CASE q = p
    BY <1>2, <2>1, UpdateBelowHigh
  <2>2. CASE q # p
    BY <1>0, <1>2, <2>2 DEF Update, BelowHigh, Tracked
  <2>3. QED
    BY <2>1, <2>2
<1>3. ASSUME NEW p \in Positions, NEW price \in Prices, UpdateNil(p, price)
      PROVE  StopBelowHigh(states'[q])
  <2> DEFINE st == [states[p] EXCEPT !.highestPrice = price]
  <2>1. /\ states[p] \in TrailState /\ price \in Int
        /\ price > states[p].highestPrice /\ StopBelowHigh(states[p])
    BY <1>3, PricesAreNumbers DEF UpdateNil, IInv, TypeOK, Tracked, BelowHigh
  <2>2. StopBelowHigh(st)
    BY <2>1 DEF TrailState, StopBelowHigh, Scale
  <2>3. states' = [states EXCEPT ![p] = st]
    BY <1>3 DEF UpdateNil
  <2> HIDE DEF st
  <2>4. QED
    BY <1>0, <2>2, <2>3 DEF BelowHigh, Tracked
<1>4. ASSUME NEW p \in Positions, Remove(p)
      PROVE  StopBelowHigh(states'[q])
  BY <1>0, <1>4 DEF Remove, BelowHigh, Tracked
<1>5. ASSUME NEW p \in Positions, Reset(p)
      PROVE  StopBelowHigh(states'[q])
  <2> DEFINE fresh == Fresh(states[p].entryPrice, states[p].initialStopPrice)
  <2>1. states[p] \in TrailState
    BY <1>0, <1>5 DEF Reset, Tracked
  <2>2. StopBelowHigh(fresh)
    BY <2>1, FreshBelowHigh DEF TrailState
  <2>3. states' = [states EXCEPT ![p] = fresh]
    BY <1>5 DEF Reset
  <2> HIDE DEF fresh
  <2>4. QED
    BY <1>0, <2>2, <2>3 DEF BelowHigh, Tracked
<1>6. CASE UNCHANGED states
  BY <1>6 DEF BelowHigh, Tracked
<1>7. QED
  BY <1>1, <1>2, <1>3, <1>4, <1>5, <1>6
     DEF Next, BeginInitialize, InitializeNil, UpdateConfig, vars

\* In every step a price above the earlier ones leaves the stop untriggered.
LEMMA NewHighStep ==
  ASSUME NoNegativeTrail, IInv, BelowHigh, [Next]_vars, NEW q \in Positions,
         Tracked(q), Tracked(q)',
         states[q].initialStopPrice < Scale * states[q].entryPrice,
         config # NoConfig, config.trailing > 0,
         states'[q].highestPrice > states[q].highestPrice, seen' # seen
  PROVE  ~states'[q].triggered
<1>1. states \in [Positions -> TrailState \cup {NoState}]
  BY DEF IInv, TypeOK
<1>2. states'[q] # states[q]
  BY <1>1, NoStateIsNoState DEF Tracked, TrailState
<1>3. ASSUME NEW p \in Positions, Initialize(p)
      PROVE  ~states'[q].triggered
  <2>1. q = p
    BY <1>1, <1>2, <1>3 DEF Initialize
  <2>2. states'[q] = Fresh(entering[p], calculateInitialStop(entering[p], config))
    BY <1>1, <1>3, <2>1 DEF Initialize
  <2>3. QED
    BY <2>2 DEF Fresh
<1>4. ASSUME NEW p \in Positions, NEW price \in Prices, Update(p, price)
      PROVE  ~states'[q].triggered
  <2>1. q = p
    BY <1>1, <1>2, <1>4 DEF Update
  <2>2. QED
    BY <1>4, <2>1, UpdateBelowHigh
<1>5. ASSUME NEW p \in Positions, Reset(p)
      PROVE  ~states'[q].triggered
  <2>1. q = p
    BY <1>1, <1>2, <1>5 DEF Reset
  <2>2. states'[q] = Fresh(states[p].entryPrice, states[p].initialStopPrice)
    BY <1>1, <1>5, <2>1 DEF Reset
  <2>3. QED
    BY <2>2 DEF Fresh
<1>6. ASSUME NEW p \in Positions, Remove(p)
      PROVE  FALSE
  BY <1>1, <1>2, <1>6 DEF Remove, Tracked
<1>7. QED
  BY <1>2, <1>3, <1>4, <1>5, <1>6
     DEF Next, BeginInitialize, InitializeNil, UpdateNil, UpdateConfig, vars

\* A price above every earlier one never triggers the stop, for any number of
\* configurations with no negative trailing distance: a disabled configuration,
\* which UpdateConfig accepts unread, is the only source of one.
THEOREM HighsAreNeverSold ==
  ASSUME NoNegativeTrail
  PROVE  Spec => NewHighNeverTriggers
<1>1. IInv /\ BelowHigh /\ [Next]_vars => BelowHigh'
  BY NextBelowHigh
<1>2. IInv /\ BelowHigh /\ [Next]_vars
        => [\A p \in Positions :
              (/\ Tracked(p) /\ Tracked(p)'
               /\ states[p].initialStopPrice < Scale * states[p].entryPrice
               /\ config # NoConfig /\ config.trailing > 0
               /\ states'[p].highestPrice > states[p].highestPrice
               /\ seen' # seen)
              => ~states'[p].triggered]_vars
  BY NewHighStep
<1>3. QED
  BY <1>1, <1>2, InitBelowHigh, AlwaysIInv, PTL DEF Spec, NewHighNeverTriggers

---------------------------------------------------------------------------
(* Refinement *)

LEMMA RatchetInit == Init => Ratchet!Init
<1> SUFFICES ASSUME Init PROVE Ratchet!Init
  OBVIOUS
<1>1. \A p \in Positions : ~Tracked(p)
  BY DEF Init, Tracked
<1>2. seen = [p \in Positions |-> 0]
  BY DEF Init
<1>3. QED
  BY <1>1, <1>2 DEF Ratchet!Init

\* A step that leaves the tracked stops and the history alone is a stutter.
LEMMA RatchetStutter ==
  ASSUME UNCHANGED <<states, seen>>
  PROVE  UNCHANGED Ratchet!vars
BY DEF Ratchet!vars, Tracked

LEMMA RatchetArm ==
  ASSUME IInv, NEW p \in Positions, NEW entry \in Int, NEW stop \in Int,
         states' = [states EXCEPT ![p] = Fresh(entry, stop)],
         seen' = [seen EXCEPT ![p] = 0]
  PROVE  Ratchet!Arm(p)
<1> DEFINE fresh == Fresh(entry, stop)
<1>1. /\ fresh \in TrailState /\ fresh # NoState
      /\ fresh.currentStopPrice = stop /\ fresh.triggered = FALSE
  BY FreshType, NoStateIsNoState DEF Fresh
<1>2. states' = [states EXCEPT ![p] = fresh]
  OBVIOUS
<1> HIDE DEF fresh
<1>3. states \in [Positions -> TrailState \cup {NoState}]
  BY DEF IInv, TypeOK
<1>4. /\ states'[p] = fresh
      /\ \A q \in Positions : q # p => states'[q] = states[q]
  BY <1>2, <1>3
<1>5. {q \in Positions : Tracked(q)}' = {q \in Positions : Tracked(q)} \cup {p}
  BY <1>1, <1>4 DEF Tracked
<1>6. {q \in Positions : Tracked(q) /\ states[q].triggered}'
        = {q \in Positions : Tracked(q) /\ states[q].triggered} \ {p}
  BY <1>1, <1>4 DEF Tracked
<1> DEFINE level == [q \in Positions |-> IF Tracked(q) THEN states[q].currentStopPrice ELSE 0]
<1>7. level'[p] \in Int
  BY <1>1, <1>4 DEF Tracked
<1>8. \A q \in Positions : q # p => level'[q] = level[q]
  BY <1>4 DEF Tracked
<1>9. level' = [level EXCEPT ![p] = level'[p]]
  <2>1. /\ DOMAIN level' = Positions /\ DOMAIN level = Positions
        /\ level' = [q \in DOMAIN level' |-> level'[q]]
    OBVIOUS
  <2> HIDE DEF level
  <2>2. [level EXCEPT ![p] = level'[p]] = [q \in Positions |-> level'[q]]
    BY <1>8, <2>1
  <2>3. QED
    BY <2>1, <2>2
<1>10. QED
  BY <1>5, <1>6, <1>7, <1>9 DEF Ratchet!Arm, Ratchet!ChangesAt

LEMMA RatchetObserve ==
  ASSUME IInv, NEW p \in Positions, NEW price \in Prices, Update(p, price)
  PROVE  Ratchet!Observe(p)
<1> DEFINE st == Observe(states[p], price, config)
<1>1. /\ states[p] \in TrailState /\ price \in Int /\ ~states[p].triggered
      /\ config \in Configs \cup {NoConfig}
      /\ config = NoConfig => price <= states[p].highestPrice
      /\ Tracked(p)
  BY PricesAreNumbers DEF Update, IInv, TypeOK, Tracked
<1>2. /\ st \in TrailState
      /\ st.currentStopPrice >= states[p].currentStopPrice
      /\ st.triggered = (Scale * price <= st.currentStopPrice)
  BY <1>1, ObserveEffect, ConfigsAreTyped DEF TrailState
<1>3. states' = [states EXCEPT ![p] = st] /\ seen' = [seen EXCEPT ![p] = price]
  BY DEF Update
<1> HIDE DEF st
<1>4. st # NoState
  BY <1>2, NoStateIsNoState
<1>5. /\ states \in [Positions -> TrailState \cup {NoState}]
      /\ seen \in [Positions -> Int]
  BY DEF IInv, TypeOK
<1>6. /\ states'[p] = st /\ seen'[p] = price
      /\ \A q \in Positions : q # p => states'[q] = states[q]
  BY <1>3, <1>5
<1>7. st.currentStopPrice \in Int /\ states[p].currentStopPrice \in Int
  BY <1>1, <1>2 DEF TrailState
<1>8. {q \in Positions : Tracked(q)}' = {q \in Positions : Tracked(q)}
  BY <1>1, <1>4, <1>6 DEF Tracked
<1>9. QED
  BY <1>1, <1>2, <1>3, <1>4, <1>5, <1>6, <1>7, <1>8
     DEF Ratchet!Observe, Ratchet!ChangesAt, Tracked

LEMMA RatchetDisarm ==
  ASSUME IInv, NEW p \in Positions, Remove(p)
  PROVE  Ratchet!Disarm(p)
<1>1. states \in [Positions -> TrailState \cup {NoState}]
  BY DEF IInv, TypeOK
<1>2. /\ states'[p] = NoState
      /\ \A q \in Positions : q # p => states'[q] = states[q]
      /\ seen' = [seen EXCEPT ![p] = 0]
  BY <1>1 DEF Remove
<1>3. QED
  BY <1>2 DEF Ratchet!Disarm, Tracked

LEMMA RatchetNext == IInv /\ [Next]_vars => [Ratchet!Next]_(Ratchet!vars)
<1> SUFFICES ASSUME IInv, [Next]_vars
             PROVE  [Ratchet!Next]_(Ratchet!vars)
  OBVIOUS
<1>1. ASSUME NEW p \in Positions, NEW entry \in Prices, BeginInitialize(p, entry)
      PROVE  UNCHANGED Ratchet!vars
  BY <1>1, RatchetStutter DEF BeginInitialize
<1>2. ASSUME NEW p \in Positions, Initialize(p)
      PROVE  Ratchet!Arm(p)
  <2>1. calculateInitialStop(entering[p], config) \in Int /\ entering[p] \in Int
    BY <1>2, ConfigsAreTyped, InitialStopType DEF Initialize, IInv, TypeOK
  <2>2. QED
    BY <1>2, <2>1, RatchetArm DEF Initialize
<1>3. ASSUME NEW p \in Positions, InitializeNil(p)
      PROVE  UNCHANGED Ratchet!vars
  BY <1>3, RatchetStutter DEF InitializeNil
<1>4. ASSUME NEW p \in Positions, NEW price \in Prices, Update(p, price)
      PROVE  Ratchet!Observe(p)
  BY <1>4, RatchetObserve
<1>5. ASSUME NEW p \in Positions, NEW price \in Prices, UpdateNil(p, price)
      PROVE  UNCHANGED Ratchet!vars
  <2> DEFINE st == [states[p] EXCEPT !.highestPrice = price]
  <2>1. /\ states \in [Positions -> TrailState \cup {NoState}]
        /\ states[p] \in TrailState /\ price \in Int
    BY <1>5, PricesAreNumbers DEF UpdateNil, Tracked, IInv, TypeOK
  <2>2. /\ st \in TrailState /\ st.currentStopPrice = states[p].currentStopPrice
        /\ st.triggered = states[p].triggered
    BY <2>1 DEF TrailState
  <2>3. states' = [states EXCEPT ![p] = st] /\ seen' = seen
    BY <1>5 DEF UpdateNil
  <2> HIDE DEF st
  <2>4. \A q \in Positions :
          /\ Tracked(q)' <=> Tracked(q)
          /\ states'[q].currentStopPrice = states[q].currentStopPrice
          /\ states'[q].triggered = states[q].triggered
    BY <1>5, <2>1, <2>2, <2>3, NoStateIsNoState DEF UpdateNil, Tracked
  <2>5. QED
    BY <2>3, <2>4 DEF Ratchet!vars
<1>6. ASSUME NEW p \in Positions, Remove(p)
      PROVE  Ratchet!Disarm(p)
  BY <1>6, RatchetDisarm
<1>7. ASSUME NEW p \in Positions, Reset(p)
      PROVE  Ratchet!Arm(p)
  <2>1. states[p] \in TrailState
    BY <1>7 DEF Reset, Tracked, IInv, TypeOK
  <2>2. states[p].entryPrice \in Int /\ states[p].initialStopPrice \in Int
    BY <2>1 DEF TrailState
  <2>3. QED
    BY <1>7, <2>2, RatchetArm DEF Reset
<1>8. ASSUME NEW c \in Configs \cup {NoConfig}, UpdateConfig(c)
      PROVE  UNCHANGED Ratchet!vars
  BY <1>8, RatchetStutter DEF UpdateConfig
<1>9. CASE UNCHANGED vars
  BY <1>9, RatchetStutter DEF vars
<1>10. QED
  BY <1>1, <1>2, <1>3, <1>4, <1>5, <1>6, <1>7, <1>8, <1>9 DEF Next, Ratchet!Next

\* trailing.go implements StopRatchet: between arming and disarming a position its
\* stop only rises, and it fires exactly when an observed price reaches it.
THEOREM TrailingStopKeepsPromise == Spec => KeepsPromise
<1>1. QED
  BY RatchetInit, RatchetNext, AlwaysIInv, PTL DEF Spec, KeepsPromise, Ratchet!Spec

---------------------------------------------------------------------------
(* StopLoss: the inductive invariant *)

\* Where an evaluation is tells what it holds: a position unless it is idle, and a
\* trailing state once it has asked for one.
CallsAgree ==
  \A e \in Evaluators :
    /\ pc[e] = "idle" => Position(e) = None /\ call[e].state = None
    /\ pc[e] # "idle" => Position(e) \in Positions
    /\ pc[e] \in {"entryStop", "checkEntry", "getState"} => call[e].state = None
    /\ pc[e] \in {"readHigh", "setHigh", "activate", "pending", "readStop", "setStop",
                  "compare"}
         => call[e].state # None

\* What points to a heap cell: the map's entry of a position, or an evaluation of it.
Holds(p, o) ==
  trailingStates[p] = o \/ \E e \in Evaluators : Position(e) = p /\ call[e].state = o

\* A cell that is pointed to holds a trailing state, of one position alone.
StatesAreOwned ==
  \A o \in Objects : \A p \in Positions : Holds(p, o) =>
    /\ heap[o] \in TrailingState
    /\ \A q \in Positions : Holds(q, o) => q = p

\* Two evaluations of a position know of each other.
OverlapsAreSeen ==
  \A e, f \in Evaluators :
    e # f /\ Position(e) = Position(f) /\ Position(e) # None => call[e].raced

\* What an evaluation found when it compared still holds when it writes, unless
\* another has run at the same time.
ChecksHold ==
  \A e \in Evaluators : ~call[e].raced =>
    /\ pc[e] = "setHigh" => Price(e) > State(e).highestPrice
    /\ pc[e] = "setStop" => call[e].newStop > State(e).stopPrice

\* No stop, written or about to be written, is below the initial one of its state.
StopsAboveInitial ==
  /\ \A o \in Objects : heap[o] # None => heap[o].stopPrice >= heap[o].initialStopPrice
  /\ \A e \in Evaluators : pc[e] = "setStop" => call[e].newStop >= State(e).initialStopPrice

\* A triggered position has a goroutine for each of its sells that evaluates it no more.
SellsLeaveEvaluations ==
  \A p \in Positions :
    /\ p \notin triggered => signals[p] = 0
    /\ p \in triggered =>
         signals[p] + Cardinality(Evaluating(p)) <= Cardinality(Evaluators)

StopIInv ==
  /\ StopTypeOK /\ CallsAgree /\ StatesAreOwned /\ OverlapsAreSeen
  /\ ChecksHold /\ StopsAboveInitial /\ SellsLeaveEvaluations

---------------------------------------------------------------------------
(* The types of what an evaluation computes *)

Calls == [position : Positions \cup {None}, price : Int, entryStop : Int,
          state : Objects \cup {None}, newStop : Int, raced : BOOLEAN]

LEMMA WithDefaultsType ==
  ASSUME NEW c \in StopLossConfig
  PROVE  WithDefaults(c) \in StopLossConfig
<1>1. /\ c.percent \in Int /\ c.trailingPercent \in Int /\ c.trailingActivate \in Int
      /\ c.trailing \in BOOLEAN
  BY DEF StopLossConfig
<1>2. PICK x \in Int : x = IF c.percent = 0 THEN -50 ELSE c.percent
  BY <1>1
<1>3. PICK y \in Int :
        y = IF c.trailing /\ c.trailingPercent = 0 THEN 10 ELSE c.trailingPercent
  BY <1>1
<1>4. PICK z \in Int :
        z = IF c.trailing /\ c.trailingActivate = 0 THEN 10 ELSE c.trailingActivate
  BY <1>1
<1> DEFINE d == [c EXCEPT !.percent = x, !.trailingPercent = y, !.trailingActivate = z]
<1>5. WithDefaults(c) = d
   BY <1>2, <1>3, <1>4 DEF WithDefaults
<1>6. d \in StopLossConfig
  BY DEF StopLossConfig
<1>7. QED
  BY Zenon, <1>5, <1>6

LEMMA EntryStopType ==
  ASSUME NEW p \in Positions, NEW c \in StopLossConfig
  PROVE  calculateEntryStopPrice(Entry[p], c) \in Int
BY EntryIsAPrice DEF calculateEntryStopPrice, StopLossConfig, Scale

LEMMA NilIsNoState == None \notin Positions /\ None \notin Objects /\ None \notin TrailingState
BY NoneIsNothing

\* What the invariant says of one evaluation under way.
LEMMA CallFacts ==
  ASSUME StopIInv, NEW e \in Evaluators
  PROVE  /\ call[e] \in Calls
         /\ pc[e] \in Steps
         /\ pc[e] = "idle" => Position(e) = None /\ call[e].state = None
         /\ pc[e] # "idle" => Position(e) \in Positions
         /\ Position(e) # None => pc[e] # "idle"
         /\ call[e].state # None => /\ Position(e) \in Positions /\ call[e].state \in Objects
                                    /\ State(e) \in TrailingState
                                    /\ Holds(Position(e), call[e].state)
<1>1. /\ call[e] \in Calls /\ pc[e] \in Steps
      /\ pc[e] = "idle" => Position(e) = None /\ call[e].state = None
      /\ pc[e] # "idle" => Position(e) \in Positions
  BY DEF StopIInv, StopTypeOK, CallsAgree, Calls
<1>2. Position(e) # None => pc[e] # "idle"
  BY <1>1
<1>3. ASSUME call[e].state # None
      PROVE  /\ Position(e) \in Positions /\ call[e].state \in Objects
             /\ Holds(Position(e), call[e].state)
  BY <1>1, <1>3 DEF Calls, Holds
<1>4. ASSUME call[e].state # None
      PROVE  State(e) \in TrailingState
  BY <1>3, <1>4 DEF StopIInv, StatesAreOwned, State
<1>5. QED
  BY <1>1, <1>2, <1>3, <1>4

---------------------------------------------------------------------------
(* Steps of an evaluation that leave the maps alone *)

\* An evaluation goes on to another step; no state changes.
LEMMA GoingOn ==
  ASSUME StopIInv, NEW e \in Evaluators, NEW c \in Calls, NEW s \in Steps \ {"idle"},
         pc[e] # "idle",
         pc' = [pc EXCEPT ![e] = s], call' = [call EXCEPT ![e] = c],
         c.position = Position(e), c.raced = call[e].raced, c.state = call[e].state,
         s \in {"entryStop", "checkEntry", "getState"} => c.state = None,
         s \notin {"entryStop", "checkEntry", "getState", "mark"} => c.state # None,
         s = "setHigh" => c.price > State(e).highestPrice,
         s = "setStop" => c.newStop > State(e).stopPrice,
         UNCHANGED <<stopConfig, trailingStates, heap, triggered, stopPanicked,
                     signals, retired>>
  PROVE  StopIInv'
<1>1. /\ call'[e] = c /\ pc'[e] = s
      /\ \A f \in Evaluators : f # e => call'[f] = call[f] /\ pc'[f] = pc[f]
  BY DEF StopIInv, StopTypeOK
<1>2. /\ \A f \in Evaluators : /\ call'[f].position = call[f].position
                               /\ call'[f].raced = call[f].raced
                               /\ call'[f].state = call[f].state
  BY <1>1 DEF Position
<1>3. StopTypeOK'
  BY DEF StopIInv, StopTypeOK, Calls
<1>4. CallsAgree'
  BY <1>1, <1>2 DEF StopIInv, CallsAgree, Position, Steps
<1>5. StatesAreOwned'
  BY <1>2 DEF StopIInv, StatesAreOwned, Holds, Position
<1>6. OverlapsAreSeen'
  BY <1>2 DEF StopIInv, OverlapsAreSeen, Position
<1>7. ChecksHold'
  BY <1>1, <1>2 DEF StopIInv, ChecksHold, Price, State
<1>8. StopsAboveInitial'
  <2>1. ASSUME s = "setStop"
        PROVE  c.newStop >= State(e).initialStopPrice
    <3>1. State(e) \in TrailingState /\ call[e].state \in Objects
      BY <2>1, CallFacts
    <3>2. State(e).stopPrice >= State(e).initialStopPrice
      BY <3>1, NilIsNoState DEF StopIInv, StopsAboveInitial, State
    <3>3. QED
      BY <2>1, <3>1, <3>2 DEF TrailingState, Calls
  <2>2. QED
    BY <1>1, <1>2, <2>1 DEF StopIInv, StopsAboveInitial, State
<1>9. SellsLeaveEvaluations'
  <2>1. \A p : Evaluating(p)' = Evaluating(p)
    BY <1>2 DEF Evaluating, Position
  <2>2. QED
    BY <2>1 DEF StopIInv, SellsLeaveEvaluations
<1>10. QED
  BY <1>3, <1>4, <1>5, <1>6, <1>7, <1>8, <1>9 DEF StopIInv

\* One goroutine less evaluates the position.
LEMMA OneLess ==
  ASSUME StopIInv, NEW e \in Evaluators, pc[e] # "idle", Return(e)
  PROVE  \A p \in Positions :
           /\ Cardinality(Evaluating(p)) \in Nat
           /\ Cardinality(Evaluating(p)')
                = Cardinality(Evaluating(p)) - (IF p = Position(e) THEN 1 ELSE 0)
<1> TAKE p \in Positions
<1>1. /\ call'[e] = Idle
      /\ \A f \in Evaluators : f # e => call'[f] = call[f]
  BY DEF StopIInv, StopTypeOK, Return
<1>2. Idle.position # p
  BY NilIsNoState DEF Idle
<1>3. IsFiniteSet(Evaluating(p))
  BY EnoughObjects, FS_Subset DEF Evaluating
<1>4. CASE p = Position(e)
  <2>1. Evaluating(p)' = Evaluating(p) \ {e} /\ e \in Evaluating(p)
    BY <1>1, <1>2, <1>4 DEF Evaluating, Position
  <2>2. QED
    BY <1>3, <1>4, <2>1, FS_RemoveElement, FS_CardinalityType
<1>5. CASE p # Position(e)
  <2>1. Evaluating(p)' = Evaluating(p)
    BY <1>1, <1>2, <1>5 DEF Evaluating, Position
  <2>2. QED
    BY <1>3, <1>5, <2>1, FS_CardinalityType
<1>6. QED
  BY <1>4, <1>5

\* An evaluation that returns leaves its position and its state.
LEMMA ReturnKeeps ==
  ASSUME StopIInv, NEW e \in Evaluators, pc[e] # "idle", Return(e),
         UNCHANGED <<stopConfig, trailingStates, heap>>
  PROVE  /\ pc' \in [Evaluators -> Steps]
         /\ call' \in [Evaluators -> Calls]
         /\ CallsAgree' /\ StatesAreOwned' /\ OverlapsAreSeen'
         /\ ChecksHold' /\ StopsAboveInitial'
<1>1. /\ call'[e] = Idle /\ pc'[e] = "idle"
      /\ \A f \in Evaluators : f # e => call'[f] = call[f] /\ pc'[f] = pc[f]
  BY DEF StopIInv, StopTypeOK, Return, Goto
<1>2. /\ Idle.position = None /\ Idle.state = None /\ Idle \in Calls
      /\ None \notin Positions /\ None \notin Objects
  BY NilIsNoState DEF Idle, Calls
<1>3. pc' \in [Evaluators -> Steps] /\ call' \in [Evaluators -> Calls]
  BY <1>2 DEF Return, Goto, Steps, StopIInv, StopTypeOK, Calls
<1>4. CallsAgree'
  BY <1>1, <1>2 DEF StopIInv, CallsAgree, Position
<1>5. StatesAreOwned'
  <2>1. \A p \in Positions, o \in Objects : Holds(p, o)' => Holds(p, o)
    BY <1>1, <1>2 DEF Holds, Position
  <2>2. QED
    BY <2>1 DEF StopIInv, StatesAreOwned
<1>6. OverlapsAreSeen'
  BY <1>1, <1>2 DEF StopIInv, OverlapsAreSeen, Position
<1>7. ChecksHold'
  BY <1>1 DEF StopIInv, ChecksHold, Price, State
<1>8. StopsAboveInitial'
  BY <1>1 DEF StopIInv, StopsAboveInitial, State
<1>9. QED
  BY <1>3, <1>4, <1>5, <1>6, <1>7, <1>8

LEMMA Returning ==
  ASSUME StopIInv, NEW e \in Evaluators, pc[e] # "idle", Return(e),
         UNCHANGED <<stopConfig, trailingStates, heap, triggered, stopPanicked,
                     signals, retired>>
  PROVE  StopIInv'
<1>1. StopTypeOK'
  BY ReturnKeeps DEF StopIInv, StopTypeOK, Calls
<1>2. SellsLeaveEvaluations'
  <2> SUFFICES ASSUME NEW p \in Positions
               PROVE  /\ p \notin triggered => signals[p] = 0
                      /\ p \in triggered =>
                           signals[p] + Cardinality(Evaluating(p)') <= Cardinality(Evaluators)
    BY DEF SellsLeaveEvaluations, Evaluating
  <2>1. signals[p] \in Nat /\ Cardinality(Evaluators) \in Nat
    BY EnoughObjects, FS_CardinalityType DEF StopIInv, StopTypeOK
  <2>2. /\ p \notin triggered => signals[p] = 0
        /\ p \in triggered =>
             signals[p] + Cardinality(Evaluating(p)) <= Cardinality(Evaluators)
    BY DEF StopIInv, SellsLeaveEvaluations
  <2>3. QED
    BY <2>1, <2>2, OneLess
<1>3. QED
  BY <1>1, <1>2, ReturnKeeps DEF StopIInv

\* An evaluation writes its state: the stop stays above the initial one.
LEMMA Writing ==
  ASSUME StopIInv, NEW e \in Evaluators, NEW t \in TrailingState, NEW s \in Steps \ {"idle"},
         call[e].state # None,
         heap' = [heap EXCEPT ![call[e].state] = t], pc' = [pc EXCEPT ![e] = s],
         s \in {"activate", "readStop", "compare"},
         t.stopPrice >= t.initialStopPrice,
         t.initialStopPrice = State(e).initialStopPrice,
         UNCHANGED <<stopConfig, trailingStates, call, triggered, stopPanicked,
                     signals, retired>>
  PROVE  StopIInv'
<1> DEFINE o == call[e].state
<1>1. /\ o \in Objects /\ Position(e) \in Positions /\ State(e) \in TrailingState
      /\ Holds(Position(e), o) /\ pc[e] # "idle"
  BY CallFacts DEF Idle
<1>2. /\ heap'[o] = t /\ pc'[e] = s
      /\ \A x \in Objects : x # o => heap'[x] = heap[x]
      /\ \A f \in Evaluators : f # e => pc'[f] = pc[f]
  BY <1>1 DEF StopIInv, StopTypeOK
<1>3. StopTypeOK'
  BY <1>1 DEF StopIInv, StopTypeOK
<1>4. CallsAgree'
  BY <1>1, <1>2 DEF StopIInv, CallsAgree, Position, State
<1>5. StatesAreOwned'
  BY <1>1, <1>2 DEF StopIInv, StatesAreOwned, Holds, Position
<1>6. OverlapsAreSeen'
  BY DEF StopIInv, OverlapsAreSeen, Position
<1>7. ASSUME NEW f \in Evaluators, f # e, call[f].state = o
      PROVE  call[f].raced
  <2>1. Position(f) = Position(e)
    BY <1>1, <1>7, NilIsNoState, CallFacts DEF StopIInv, StatesAreOwned
  <2>2. QED
    BY <1>1, <1>7, <2>1, NilIsNoState DEF StopIInv, OverlapsAreSeen
<1>8. ChecksHold'
  <2> SUFFICES ASSUME NEW f \in Evaluators, ~call[f].raced, pc'[f] \in {"setHigh", "setStop"}
               PROVE  heap'[call[f].state] = heap[call[f].state] /\ pc'[f] = pc[f]
    BY DEF ChecksHold, StopIInv, Price, State
  <2>1. f # e
    BY <1>2
  <2>2. call[f].state # None /\ call[f].state \in Objects
    BY <1>2, <2>1, CallFacts DEF StopIInv, CallsAgree
  <2>3. QED
    BY <1>2, <1>7, <2>1, <2>2
<1>9. StopsAboveInitial'
  <2>1. \A x \in Objects : heap'[x] # None => heap'[x].stopPrice >= heap'[x].initialStopPrice
    BY <1>2 DEF StopIInv, StopsAboveInitial
  <2>2. ASSUME NEW f \in Evaluators, pc'[f] = "setStop"
        PROVE  call[f].newStop >= heap'[call[f].state].initialStopPrice
    <3>1. f # e /\ pc[f] = "setStop"
      BY <1>2, <2>2
    <3>2. call[f].state \in Objects
      BY <3>1, CallFacts DEF StopIInv, CallsAgree
    <3>3. heap'[call[f].state].initialStopPrice = heap[call[f].state].initialStopPrice
      BY <1>2, <3>2 DEF State
    <3>4. QED
      BY <3>1, <3>3 DEF StopIInv, StopsAboveInitial, State
  <2>3. QED
    BY <2>1, <2>2 DEF StopsAboveInitial, State
<1>10. SellsLeaveEvaluations'
  BY DEF StopIInv, SellsLeaveEvaluations, Evaluating, Position
<1>11. QED
  BY <1>3, <1>4, <1>5, <1>6, <1>8, <1>9, <1>10 DEF StopIInv

---------------------------------------------------------------------------
(* The steps that change who holds which state *)

\* There is a cell for every state: one is free whenever one is asked for.
LEMMA FreeCell ==
  ASSUME StopIInv, NEW e \in Evaluators, call[e].state = None
  PROVE  \E o \in FreeObjects : TRUE
<1> DEFINE inMap == {trailingStates[p] : p \in Positions}
           others == Evaluators \ {e}
           inCalls == {call[f].state : f \in others}
<1>1. IsFiniteSet(inMap) /\ Cardinality(inMap) <= Cardinality(Positions)
  <2>1. trailingStates \in Surjection(Positions, inMap)
    BY DEF StopIInv, StopTypeOK, Surjection
  <2>2. QED
    BY <2>1, EnoughObjects, FS_Surjection
<1>2. IsFiniteSet(inCalls) /\ Cardinality(inCalls) < Cardinality(Evaluators)
  <2> DEFINE state == [f \in others |-> call[f].state]
  <2>1. state \in Surjection(others, inCalls)
    BY DEF Surjection
  <2>2. /\ IsFiniteSet(others) /\ Cardinality(others) = Cardinality(Evaluators) - 1
        /\ Cardinality(Evaluators) \in Nat
    BY EnoughObjects, FS_RemoveElement, FS_CardinalityType
  <2> HIDE DEF others, inCalls, state
  <2>3. IsFiniteSet(inCalls) /\ Cardinality(inCalls) <= Cardinality(others)
    BY <2>1, <2>2, FS_Surjection
  <2>4. QED
    BY <2>2, <2>3, FS_CardinalityType
<1> HIDE DEF inMap, others, inCalls
<1>3. /\ IsFiniteSet(inMap \cup inCalls)
      /\ Cardinality(inMap \cup inCalls) <= Cardinality(inMap) + Cardinality(inCalls)
      /\ Cardinality(inMap) \in Nat /\ Cardinality(inCalls) \in Nat
  <2>1. IsFiniteSet(inMap \cap inCalls)
    BY <1>1, FS_Subset
  <2>2. Cardinality(inMap \cap inCalls) \in Nat
    BY <2>1, FS_CardinalityType
  <2>3. /\ IsFiniteSet(inMap \cup inCalls)
        /\ Cardinality(inMap \cup inCalls)
             = Cardinality(inMap) + Cardinality(inCalls) - Cardinality(inMap \cap inCalls)
    BY <1>1, <1>2, FS_Union
  <2>4. Cardinality(inMap) \in Nat /\ Cardinality(inCalls) \in Nat
    BY <1>1, <1>2, FS_CardinalityType
  <2>5. QED
    BY <2>2, <2>3, <2>4
<1>4. Cardinality(inMap \cup inCalls) < Cardinality(Objects)
  <2>1. /\ Cardinality(Objects) \in Nat /\ Cardinality(Positions) \in Nat
        /\ Cardinality(Evaluators) \in Nat /\ Cardinality(inMap \cup inCalls) \in Nat
    BY <1>3, EnoughObjects, FS_CardinalityType
  <2>2. QED
    BY <1>1, <1>2, <1>3, <2>1, EnoughObjects
<1>5. PICK o \in Objects : o \notin inMap \cup inCalls
  <2>1. CASE Objects \subseteq inMap \cup inCalls
    <3>1. /\ Cardinality(Objects) <= Cardinality(inMap \cup inCalls)
          /\ Cardinality(Objects) \in Nat /\ Cardinality(inMap \cup inCalls) \in Nat
      BY <1>3, <2>1, EnoughObjects, FS_Subset, FS_CardinalityType
    <3>2. QED
      BY <1>4, <3>1
  <2>2. QED
    BY <2>1
<1>6. o \in FreeObjects
  BY <1>5, NilIsNoState DEF FreeObjects, inMap, inCalls, others
<1>7. QED
  BY <1>6

\* getOrCreateTrailingState gives the evaluation the state of its position.
LEMMA StateGotten ==
  ASSUME StopIInv, NEW e \in Evaluators, GetState(e)
  PROVE  \E o \in Objects :
           /\ trailingStates' = [trailingStates EXCEPT ![Position(e)] = o]
           /\ call' = [call EXCEPT ![e].state = o]
           /\ heap'[o] \in TrailingState
           /\ heap' \in [Objects -> TrailingState \cup {None}]
           /\ \A x \in Objects : x # o => heap'[x] = heap[x]
           /\ heap'[o].stopPrice >= heap'[o].initialStopPrice
           /\ \A p \in Positions : Holds(p, o) => p = Position(e) /\ heap'[o] = heap[o]
           /\ trailingStates[Position(e)] \in {None, o}
           /\ trailingStates[Position(e)] = None =>
                o \in FreeObjects /\ ~heap'[o].activated
<1> DEFINE p == Position(e)
<1>1. p \in Positions /\ call[e] \in Calls /\ call[e].state = None
  BY CallFacts DEF GetState, StopIInv, CallsAgree
<1>2. CASE trailingStates[p] # None
  <2> DEFINE o == trailingStates[p]
  <2>1. /\ o \in Objects /\ Holds(p, o)
    BY <1>1, <1>2 DEF StopIInv, StopTypeOK, Holds
  <2>2. /\ trailingStates' = trailingStates /\ heap' = heap
        /\ call' = [call EXCEPT ![e].state = o]
    BY <1>2 DEF GetState
  <2>3. trailingStates = [trailingStates EXCEPT ![p] = o]
    BY DEF StopIInv, StopTypeOK
  <2>4. /\ heap[o] \in TrailingState /\ heap \in [Objects -> TrailingState \cup {None}]
        /\ \A q \in Positions : Holds(q, o) => q = p
    BY <1>1, <2>1 DEF StopIInv, StatesAreOwned, StopTypeOK
  <2>5. heap[o].stopPrice >= heap[o].initialStopPrice
    BY <2>1, <2>4, NilIsNoState DEF StopIInv, StopsAboveInitial
  <2>6. QED
    BY <1>2, <2>1, <2>2, <2>3, <2>4, <2>5
<1>3. CASE trailingStates[p] = None
  <2> DEFINE o == CHOOSE x \in FreeObjects : TRUE
             t == [activated |-> FALSE, activationPrice |-> 0,
                   stopPrice |-> call[e].entryStop, highestPrice |-> Entry[p],
                   initialStopPrice |-> call[e].entryStop]
  <2>1. o \in FreeObjects
    BY <1>1, FreeCell
  <2>2. /\ trailingStates' = [trailingStates EXCEPT ![p] = o]
        /\ heap' = [heap EXCEPT ![o] = t]
        /\ call' = [call EXCEPT ![e].state = o]
    BY <1>3 DEF GetState
  <2>3. t \in TrailingState /\ t.stopPrice >= t.initialStopPrice /\ ~t.activated
    BY <1>1, EntryIsAPrice DEF TrailingState, Calls
  <2> HIDE DEF o, t
  <2>4. /\ o \in Objects
        /\ \A q \in Positions : ~Holds(q, o)
    BY <2>1 DEF FreeObjects, Holds
  <2>5. heap \in [Objects -> TrailingState \cup {None}]
    BY DEF StopIInv, StopTypeOK
  <2>6. QED
    BY <1>3, <2>1, <2>2, <2>3, <2>4, <2>5
<1>4. QED
  BY <1>2, <1>3

LEMMA GettingState ==
  ASSUME StopIInv, NEW e \in Evaluators, GetState(e)
  PROVE  StopIInv'
<1> DEFINE p == Position(e)
<1>1. PICK o \in Objects :
        /\ trailingStates' = [trailingStates EXCEPT ![p] = o]
        /\ call' = [call EXCEPT ![e].state = o]
        /\ heap'[o] \in TrailingState
        /\ heap' \in [Objects -> TrailingState \cup {None}]
        /\ \A x \in Objects : x # o => heap'[x] = heap[x]
        /\ heap'[o].stopPrice >= heap'[o].initialStopPrice
        /\ \A q \in Positions : Holds(q, o) => q = p /\ heap'[o] = heap[o]
  BY StateGotten
<1>2. p \in Positions /\ call[e] \in Calls /\ call[e].state = None /\ pc[e] = "getState"
  BY CallFacts DEF GetState, StopIInv, CallsAgree
<1>3. /\ pc'[e] = "readHigh"
      /\ call'[e] = [call[e] EXCEPT !.state = o]
      /\ \A f \in Evaluators : f # e => call'[f] = call[f] /\ pc'[f] = pc[f]
  BY <1>1 DEF GetState, Goto, StopIInv, StopTypeOK
<1>4. /\ call'[e] \in Calls /\ call'[e].state = o
      /\ call'[e].position = p /\ call'[e].raced = call[e].raced
  BY <1>2, <1>3 DEF Calls, Position
<1>5. \A f \in Evaluators : /\ call'[f].position = Position(f)
                            /\ call'[f].raced = call[f].raced
  BY <1>3, <1>4 DEF Position
<1>6. StopTypeOK'
  <2>1. trailingStates' \in [Positions -> Objects \cup {None}]
    BY <1>1 DEF StopIInv, StopTypeOK
  <2>2. pc' \in [Evaluators -> Steps]
    BY DEF GetState, Goto, StopIInv, StopTypeOK, Steps
  <2>3. call' \in [Evaluators -> Calls]
    BY <1>1, <1>3, <1>4 DEF StopIInv, StopTypeOK, Calls
  <2>4. QED
    BY <1>1, <2>1, <2>2, <2>3 DEF GetState, StopIInv, StopTypeOK, Calls
<1>7. CallsAgree'
  <2> SUFFICES ASSUME NEW f \in Evaluators
               PROVE  /\ pc'[f] = "idle" => call'[f].position = None /\ call'[f].state = None
                      /\ pc'[f] # "idle" => call'[f].position \in Positions
                      /\ pc'[f] \in {"entryStop", "checkEntry", "getState"} => call'[f].state = None
                      /\ pc'[f] \in {"readHigh", "setHigh", "activate", "pending", "readStop",
                                      "setStop", "compare"} => call'[f].state # None
    BY DEF CallsAgree, Position
  <2>1. CASE f = e
    BY <1>2, <1>3, <1>4, <2>1, NilIsNoState
  <2>2. CASE f # e
    BY <1>3, <2>2 DEF StopIInv, CallsAgree, Position
  <2>3. QED
    BY <2>1, <2>2
<1>8. \A q \in Positions, x \in Objects :
        Holds(q, x)' => Holds(q, x) \/ (q = p /\ x = o)
  BY <1>1, <1>3, <1>4 DEF Holds, Position, StopIInv, StopTypeOK
<1>9. StatesAreOwned'
  <2> SUFFICES ASSUME NEW x \in Objects, NEW q \in Positions, Holds(q, x)'
               PROVE  /\ heap'[x] \in TrailingState
                      /\ \A r \in Positions : Holds(r, x)' => r = q
    BY DEF StatesAreOwned
  <2>1. CASE x = o
    BY <1>1, <1>8, <2>1
  <2>2. CASE x # o
    BY <1>1, <1>8, <2>2 DEF StopIInv, StatesAreOwned
  <2>3. QED
    BY <2>1, <2>2
<1>10. OverlapsAreSeen'
  BY <1>5 DEF StopIInv, OverlapsAreSeen, Position
<1>11. ASSUME NEW f \in Evaluators, f # e, call[f].state # None
       PROVE  heap'[call[f].state] = heap[call[f].state]
  BY <1>1, <1>11, CallFacts
<1>12. ChecksHold'
  <2> SUFFICES ASSUME NEW f \in Evaluators, ~call'[f].raced, pc'[f] \in {"setHigh", "setStop"}
               PROVE  /\ pc[f] = pc'[f] /\ call'[f] = call[f] /\ ~call[f].raced
                      /\ heap'[call[f].state] = heap[call[f].state]
    BY DEF ChecksHold, StopIInv, Price, State
  <2>1. f # e /\ call[f].state # None
    BY <1>3 DEF StopIInv, CallsAgree
  <2>2. QED
    BY <1>3, <1>11, <2>1
<1>13. StopsAboveInitial'
  <2>1. \A x \in Objects : heap'[x] # None => heap'[x].stopPrice >= heap'[x].initialStopPrice
    BY <1>1 DEF StopIInv, StopsAboveInitial
  <2>2. ASSUME NEW f \in Evaluators, pc'[f] = "setStop"
        PROVE  call'[f].newStop >= heap'[call'[f].state].initialStopPrice
    <3>1. f # e /\ pc[f] = "setStop" /\ call'[f] = call[f]
      BY <1>3, <2>2
    <3>2. call[f].state # None
      BY <3>1 DEF StopIInv, CallsAgree
    <3>3. QED
      BY <1>11, <3>1, <3>2 DEF StopIInv, StopsAboveInitial, State
  <2>3. QED
    BY <2>1, <2>2 DEF StopsAboveInitial, State
<1>14. SellsLeaveEvaluations'
  <2>1. \A q : Evaluating(q)' = Evaluating(q)
    BY <1>5 DEF Evaluating, Position
  <2>2. QED
    BY <2>1 DEF GetState, StopIInv, SellsLeaveEvaluations
<1>15. QED
  BY <1>6, <1>7, <1>9, <1>10, <1>12, <1>13, <1>14 DEF StopIInv

LEMMA Beginning ==
  ASSUME StopIInv, NEW e \in Evaluators, NEW p \in Positions, NEW price \in Prices,
         Evaluate(e, p, price)
  PROVE  StopIInv'
<1> DEFINE met == Evaluating(p) # {}
           c == [Idle EXCEPT !.position = p, !.price = price, !.raced = met]
<1>1. /\ c \in Calls /\ c.position = p /\ c.state = None /\ c.raced = met
  <2>1. met \in BOOLEAN /\ price \in Int /\ Idle \in Calls /\ Idle.state = None
    BY PricesAreNumbers DEF Idle, Calls
  <2> HIDE DEF met, Idle
  <2>2. QED
    BY <2>1 DEF Calls
<1>2. /\ call'[e] = c /\ pc'[e] = "entryStop"
      /\ \A f \in Evaluators : f # e => pc'[f] = pc[f]
  BY DEF Evaluate, Goto, StopIInv, StopTypeOK
<1> HIDE DEF c
<1>3. \A f \in Evaluators : f # e =>
        /\ call'[f] \in Calls
        /\ call[f].raced \/ f \in Evaluating(p) => call'[f].raced
        /\ call'[f].position = call[f].position /\ call'[f].state = call[f].state
        /\ call'[f].price = call[f].price /\ call'[f].newStop = call[f].newStop
  <2> SUFFICES ASSUME NEW f \in Evaluators, f # e
               PROVE  /\ call'[f] \in Calls
                      /\ call[f].raced \/ f \in Evaluating(p) => call'[f].raced
                      /\ call'[f].position = call[f].position /\ call'[f].state = call[f].state
                      /\ call'[f].price = call[f].price /\ call'[f].newStop = call[f].newStop
    OBVIOUS
  <2> DEFINE now == call[f].raced \/ f \in Evaluating(p)
             d == [call[f] EXCEPT !.raced = now]
  <2>1. call[f] \in Calls /\ now \in BOOLEAN
    BY CallFacts
  <2>2. call'[f] = d
    BY Zenon DEF Evaluate
  <2> HIDE DEF now
  <2>3. /\ d \in Calls /\ d.raced = now
        /\ d.position = call[f].position /\ d.state = call[f].state
        /\ d.price = call[f].price /\ d.newStop = call[f].newStop
    BY <2>1 DEF Calls
  <2> HIDE DEF d
  <2>4. QED
    BY Zenon, <2>2, <2>3 DEF now
<1>4. pc[e] = "idle" /\ Position(e) = None /\ call[e].state = None
  BY CallFacts DEF Evaluate
<1>5. StopTypeOK'
  <2>1. call' \in [Evaluators -> Calls]
    BY <1>1, <1>2, <1>3 DEF Evaluate
  <2>2. pc' \in [Evaluators -> Steps]
    BY DEF Evaluate, Goto, StopIInv, StopTypeOK, Steps
  <2>3. QED
    BY <2>1, <2>2 DEF Evaluate, StopIInv, StopTypeOK, Calls
<1>6. CallsAgree'
  <2>1. ASSUME NEW f \in Evaluators, f # e
        PROVE  pc'[f] = "idle" => call'[f].position = None /\ call'[f].state = None
    BY <1>2, <1>3, <2>1 DEF StopIInv, CallsAgree, Position
  <2>2. ASSUME NEW f \in Evaluators, f # e
        PROVE  /\ pc'[f] # "idle" => call'[f].position \in Positions
               /\ pc'[f] \in {"entryStop", "checkEntry", "getState"} => call'[f].state = None
               /\ pc'[f] \in {"readHigh", "setHigh", "activate", "pending", "readStop", "setStop",
                  "compare"}
                    => call'[f].state # None
    BY <1>2, <1>3, <2>2 DEF StopIInv, CallsAgree, Position
  <2>3. QED
    BY <1>1, <1>2, <2>1, <2>2 DEF CallsAgree, Position
<1>7. \A q \in Positions, o \in Objects : Holds(q, o)' => Holds(q, o)
  <2>1. \A f \in Evaluators : \A o \in Objects : call'[f].state = o =>
          call[f].state = o /\ call'[f].position = call[f].position
    BY <1>1, <1>2, <1>3, NilIsNoState
  <2>2. trailingStates' = trailingStates
    BY DEF Evaluate
  <2>3. QED
    BY <2>1, <2>2 DEF Holds, Position
<1>8. StatesAreOwned'
  BY <1>7 DEF Evaluate, StopIInv, StatesAreOwned
<1>9. OverlapsAreSeen'
  <2> SUFFICES ASSUME NEW f \in Evaluators, NEW g \in Evaluators, f # g,
                      call'[f].position = call'[g].position, call'[f].position # None
               PROVE  call'[f].raced
    BY DEF OverlapsAreSeen, Position
  <2>1. CASE f = e
    <3>1. g \in Evaluating(p)
      BY <1>1, <1>2, <1>3, <2>1 DEF Evaluating, Position
    <3>2. QED
      BY <1>1, <1>2, <2>1, <3>1
  <2>2. CASE f # e /\ g = e
    BY <1>1, <1>2, <1>3, <2>2 DEF Evaluating, Position
  <2>3. CASE f # e /\ g # e
    BY <1>3, <2>3 DEF Position, StopIInv, OverlapsAreSeen
  <2>4. QED
    BY <2>1, <2>2, <2>3
<1>10. ChecksHold'
  BY <1>2, <1>3 DEF Evaluate, StopIInv, ChecksHold, Price, State
<1>11. StopsAboveInitial'
  BY <1>2, <1>3 DEF Evaluate, StopIInv, StopsAboveInitial, State
<1>12. SellsLeaveEvaluations'
  <2> SUFFICES ASSUME NEW q \in Positions, q \in triggered
               PROVE  Evaluating(q)' = Evaluating(q)
    BY DEF Evaluate, StopIInv, SellsLeaveEvaluations
  <2>1. q # p /\ q # None
    BY NilIsNoState DEF Evaluate
  <2>2. QED
    BY <1>1, <1>2, <1>3, <1>4, <2>1 DEF Evaluating, Position
<1>13. QED
  BY <1>5, <1>6, <1>8, <1>9, <1>10, <1>11, <1>12 DEF StopIInv

LEMMA Marking ==
  ASSUME StopIInv, NEW e \in Evaluators, Mark(e)
  PROVE  StopIInv'
<1>1. Position(e) \in Positions /\ pc[e] = "mark" /\ e \in Evaluating(Position(e))
  BY CallFacts DEF Mark, Evaluating
<1>2. Cardinality(Evaluators) \in Nat
  BY EnoughObjects, FS_CardinalityType
<1>3. \A p : /\ IsFiniteSet(Evaluating(p))
             /\ Cardinality(Evaluating(p)) \in Nat
             /\ Cardinality(Evaluating(p)) <= Cardinality(Evaluators)
  <2> SUFFICES ASSUME NEW p
               PROVE  /\ IsFiniteSet(Evaluating(p))
                      /\ Cardinality(Evaluating(p)) \in Nat
                      /\ Cardinality(Evaluating(p)) <= Cardinality(Evaluators)
    OBVIOUS
  <2>1. Evaluating(p) \in SUBSET Evaluators
    BY DEF Evaluating
  <2>2. QED
    BY <2>1, EnoughObjects, FS_Subset, FS_CardinalityType
<1>4. \A p \in Positions :
        /\ signals[p] \in Nat
        /\ p \notin triggered => signals[p] = 0
        /\ p \in triggered =>
             signals[p] + Cardinality(Evaluating(p)) <= Cardinality(Evaluators)
  BY DEF StopIInv, StopTypeOK, SellsLeaveEvaluations
<1>5. CASE stopConfig = NoConfig
  <2>1. /\ UNCHANGED <<stopConfig, trailingStates, heap, pc, call, signals, retired>>
        /\ stopPanicked' = TRUE /\ triggered' = triggered \cup {Position(e)}
    BY <1>5 DEF Mark, SignalSell
  <2>2. /\ StopTypeOK' /\ CallsAgree' /\ StatesAreOwned' /\ OverlapsAreSeen'
        /\ ChecksHold' /\ StopsAboveInitial'
    BY <1>1, <2>1 DEF StopIInv, StopTypeOK, CallsAgree, StatesAreOwned, Holds, OverlapsAreSeen,
                      ChecksHold, StopsAboveInitial, Position, Price, State
  <2>3. \A p : Evaluating(p)' = Evaluating(p)
    BY <2>1 DEF Evaluating, Position
  <2>4. SellsLeaveEvaluations'
    BY <1>2, <1>3, <1>4, <2>1, <2>3 DEF SellsLeaveEvaluations
  <2>5. QED
    BY <2>2, <2>4 DEF StopIInv
<1>6. CASE stopConfig # NoConfig
  <2>1. /\ UNCHANGED <<stopConfig, trailingStates, heap, stopPanicked, retired>>
        /\ Return(e)
        /\ triggered' = triggered \cup {Position(e)}
        /\ signals' = [signals EXCEPT ![Position(e)] = @ + 1]
    BY <1>6 DEF Mark, SignalSell
  <2>2. /\ pc' \in [Evaluators -> Steps] /\ call' \in [Evaluators -> Calls]
        /\ CallsAgree' /\ StatesAreOwned' /\ OverlapsAreSeen'
        /\ ChecksHold' /\ StopsAboveInitial'
    BY <1>1, <2>1, ReturnKeeps
  <2>3. StopTypeOK'
    BY <1>1, <2>1, <2>2 DEF StopIInv, StopTypeOK, Calls
  <2>4. SellsLeaveEvaluations'
    <3> SUFFICES ASSUME NEW p \in Positions
                 PROVE  /\ p \notin triggered' => signals'[p] = 0
                        /\ p \in triggered' =>
                             signals'[p] + Cardinality(Evaluating(p)') <= Cardinality(Evaluators)
      BY DEF SellsLeaveEvaluations, Evaluating
    <3>1. Cardinality(Evaluating(p)')
            = Cardinality(Evaluating(p)) - (IF p = Position(e) THEN 1 ELSE 0)
      BY <1>1, <2>1, OneLess
    <3>2. signals'[p] = signals[p] + (IF p = Position(e) THEN 1 ELSE 0)
      BY <1>4, <2>1 DEF StopIInv, StopTypeOK
    <3>3. QED
      BY <1>2, <1>3, <1>4, <2>1, <3>1, <3>2
  <2>5. QED
    BY <2>2, <2>3, <2>4 DEF StopIInv
<1>7. QED
  BY <1>5, <1>6

LEMMA CleaningUp ==
  ASSUME StopIInv, NEW p \in Positions, Cleanup(p)
  PROVE  StopIInv'
<1>1. StopTypeOK'
  BY DEF Cleanup, StopIInv, StopTypeOK
<1>2. CallsAgree' /\ OverlapsAreSeen' /\ ChecksHold' /\ StopsAboveInitial'
  BY DEF Cleanup, StopIInv, CallsAgree, OverlapsAreSeen, ChecksHold, StopsAboveInitial,
         Position, Price, State
<1>3. StatesAreOwned'
  <2>1. \A q \in Positions, o \in Objects : Holds(q, o)' => Holds(q, o)
    BY NilIsNoState DEF Cleanup, Holds, Position, StopIInv, StopTypeOK
  <2>2. QED
    BY <2>1 DEF Cleanup, StopIInv, StatesAreOwned
<1>4. SellsLeaveEvaluations'
  <2>1. \A q : Evaluating(q)' = Evaluating(q)
    BY DEF Cleanup, Evaluating, Position
  <2>2. QED
    BY <2>1 DEF Cleanup, StopIInv, StopTypeOK, SellsLeaveEvaluations
<1>5. QED
  BY <1>1, <1>2, <1>3, <1>4 DEF StopIInv

\* A step that changes only the configuration, or the fact that the process died.
LEMMA StateKept ==
  ASSUME StopIInv, stopConfig' \in StopLossConfig \cup {NoConfig}, stopPanicked' \in BOOLEAN,
         UNCHANGED <<trailingStates, heap, triggered, pc, call, signals, retired>>
  PROVE  StopIInv'
<1>1. /\ StopTypeOK' /\ CallsAgree' /\ OverlapsAreSeen' /\ ChecksHold' /\ StopsAboveInitial'
      /\ StatesAreOwned' /\ SellsLeaveEvaluations'
  BY DEF StopIInv, StopTypeOK, CallsAgree, StatesAreOwned, Holds, OverlapsAreSeen,
         ChecksHold, StopsAboveInitial, SellsLeaveEvaluations, Evaluating,
         Position, Price, State
<1>2. QED
  BY <1>1 DEF StopIInv

---------------------------------------------------------------------------
(* The invariant is inductive *)

LEMMA StopInitIInv == StopInit => StopIInv
<1> SUFFICES ASSUME StopInit PROVE StopIInv
  OBVIOUS
<1>1. stopConfig \in StopLossConfig
  BY StopLossConfigsAreTyped, WithDefaultsType DEF StopInit
<1>2. Idle \in Calls /\ Idle.position = None /\ Idle.state = None
  BY DEF Idle, Calls
<1>3. StopTypeOK
  BY <1>1, <1>2 DEF StopInit, StopTypeOK, Steps, Calls
<1>4. CallsAgree /\ OverlapsAreSeen /\ ChecksHold /\ StopsAboveInitial
  BY <1>2 DEF StopInit, CallsAgree, OverlapsAreSeen, ChecksHold, StopsAboveInitial, Position
<1>5. StatesAreOwned
  BY <1>2, NilIsNoState DEF StopInit, StatesAreOwned, Holds, Position
<1>6. SellsLeaveEvaluations
  BY DEF StopInit, SellsLeaveEvaluations
<1>7. QED
  BY <1>3, <1>4, <1>5, <1>6 DEF StopIInv

LEMMA StepStopIInv ==
  ASSUME StopIInv, NEW e \in Evaluators, Step(e)
  PROVE  StopIInv'
<1>1. /\ call[e] \in Calls /\ pc[e] \in Steps
      /\ pc[e] # "idle" => Position(e) \in Positions
      /\ call[e].state # None => State(e) \in TrailingState /\ call[e].state \in Objects
      /\ stopConfig \in StopLossConfig \cup {NoConfig}
  BY CallFacts DEF StopIInv, StopTypeOK
<1>2. CASE EntryStop(e)
  <2> DEFINE stop == calculateEntryStopPrice(Entry[Position(e)], stopConfig)
             c == [call[e] EXCEPT !.entryStop = stop]
  <2>1. /\ pc[e] = "entryStop" /\ stopConfig \in StopLossConfig /\ call[e].state = None
    BY <1>1, <1>2 DEF EntryStop, WithConfig, StopIInv, CallsAgree
  <2>2. stop \in Int
    BY <1>1, <2>1, EntryStopType
  <2>3. /\ c \in Calls /\ c.position = Position(e) /\ c.raced = call[e].raced /\ c.state = None
    BY <1>1, <2>1, <2>2 DEF Calls, Position
  <2>4. call' = [call EXCEPT ![e] = c]
    BY <1>2 DEF EntryStop
  <2> HIDE DEF c
  <2>5. QED
    BY <1>1, <1>2, <2>1, <2>3, <2>4, GoingOn DEF EntryStop, Goto, Steps
<1>3. CASE GetState(e)
  BY <1>3, GettingState
<1>4. CASE ReadHigh(e)
  <2>1. /\ pc[e] = "readHigh" /\ call[e].state # None
        /\ call' = [call EXCEPT ![e] = call[e]]
    BY <1>4 DEF ReadHigh, StopIInv, CallsAgree, StopTypeOK
  <2>2. \E s \in {"setHigh", "activate"} :
          pc' = [pc EXCEPT ![e] = s] /\ (s = "setHigh" => call[e].price > State(e).highestPrice)
    BY <1>4 DEF ReadHigh, Goto, Price
  <2>3. QED
    BY <1>1, <1>4, <2>1, <2>2, GoingOn DEF ReadHigh, Steps, Position
<1>5. CASE SetHigh(e)
  <2> DEFINE t == [State(e) EXCEPT !.highestPrice = Price(e)]
  <2>1. pc[e] = "setHigh" /\ call[e].state # None
    BY <1>5 DEF SetHigh, StopIInv, CallsAgree
  <2>2. /\ t \in TrailingState /\ t.stopPrice = State(e).stopPrice
        /\ t.initialStopPrice = State(e).initialStopPrice
    BY <1>1, <2>1 DEF TrailingState, Calls, Price
  <2>3. heap' = [heap EXCEPT ![call[e].state] = t] /\ pc' = [pc EXCEPT ![e] = "activate"]
    BY <1>5 DEF SetHigh, State, Goto
  <2> HIDE DEF t
  <2>4. t.stopPrice >= t.initialStopPrice
    BY <1>1, <2>1, <2>2, NilIsNoState DEF StopIInv, StopsAboveInitial, State
  <2>5. QED
    BY <1>5, <2>1, <2>2, <2>3, <2>4, Writing DEF SetHigh, Steps
<1>6. CASE Activate(e)
  <2> DEFINE t == [State(e) EXCEPT !.activated = TRUE, !.activationPrice = Price(e)]
  <2>1. pc[e] = "activate" /\ call[e].state # None
    BY <1>6 DEF Activate, WithConfig, StopIInv, CallsAgree
  <2>2. /\ t \in TrailingState /\ t.stopPrice = State(e).stopPrice
        /\ t.initialStopPrice = State(e).initialStopPrice
    BY <1>1, <2>1 DEF TrailingState, Calls, Price
  <2>3. ASSUME NEW s \in {"readStop", "mark", "pending"}, Goto(e, s), UNCHANGED <<heap, call>>
        PROVE  StopIInv'
    <3>1. call' = [call EXCEPT ![e] = call[e]] /\ pc' = [pc EXCEPT ![e] = s]
      BY <2>3 DEF Goto, StopIInv, StopTypeOK
    <3>2. QED
      BY <1>1, <1>6, <2>1, <2>3, <3>1, GoingOn DEF Activate, Steps, Position
  <2>4. ASSUME heap' = [heap EXCEPT ![call[e].state] = t], Goto(e, "readStop"), UNCHANGED call
        PROVE  StopIInv'
    <3>1. t.stopPrice >= t.initialStopPrice
      BY <1>1, <2>1, <2>2, NilIsNoState DEF StopIInv, StopsAboveInitial, State
    <3> HIDE DEF t
    <3>2. QED
      BY <1>6, <2>1, <2>2, <2>4, <3>1, Writing DEF Activate, Steps, Goto
  <2>5. \/ Goto(e, "readStop") /\ UNCHANGED <<heap, call>>
        \/ heap' = [heap EXCEPT ![call[e].state] = t] /\ Goto(e, "readStop") /\ UNCHANGED call
        \/ \E s \in {"mark", "pending"} : Goto(e, s) /\ UNCHANGED <<heap, call>>
    BY <1>6 DEF Activate, State
  <2>6. QED
    BY <2>3, <2>4, <2>5
<1>7. CASE ReadStop(e)
  <2> DEFINE new == State(e).highestPrice * (Scale - stopConfig.trailingPercent)
             c == [call[e] EXCEPT !.newStop = new]
  <2>1. pc[e] = "readStop" /\ call[e].state # None /\ stopConfig \in StopLossConfig
    BY <1>1, <1>7 DEF ReadStop, WithConfig, StopIInv, CallsAgree
  <2>2. new \in Int
    BY <1>1, <2>1 DEF TrailingState, StopLossConfig, Scale
  <2>3. \E s \in {"setStop", "compare"} :
          pc' = [pc EXCEPT ![e] = s] /\ (s = "setStop" => new > State(e).stopPrice)
    BY <1>7 DEF ReadStop, Goto
  <2>4. call' = [call EXCEPT ![e] = c]
    BY <1>7 DEF ReadStop
  <2> HIDE DEF new
  <2>5. /\ c \in Calls /\ c.position = Position(e) /\ c.raced = call[e].raced
        /\ c.state = call[e].state /\ c.newStop = new
    BY <1>1, <2>2 DEF Calls, Position
  <2> HIDE DEF c
  <2>6. PICK s \in {"setStop", "compare"} :
          pc' = [pc EXCEPT ![e] = s] /\ (s = "setStop" => new > State(e).stopPrice)
    BY <2>3
  <2>7. s \in Steps \ {"idle"} /\ s \notin {"entryStop", "checkEntry", "getState", "mark", "setHigh"}
    BY <2>6 DEF Steps
  <2>8. UNCHANGED <<stopConfig, trailingStates, heap, triggered, stopPanicked, signals, retired>>
    BY <1>7 DEF ReadStop
  <2>9. QED
    BY <2>1, <2>4, <2>5, <2>6, <2>7, <2>8, GoingOn
<1>8. CASE SetStop(e)
  <2> DEFINE t == [State(e) EXCEPT !.stopPrice = call[e].newStop]
  <2>1. pc[e] = "setStop" /\ call[e].state # None
    BY <1>8 DEF SetStop, StopIInv, CallsAgree
  <2>2. /\ t \in TrailingState /\ t.stopPrice = call[e].newStop
        /\ t.initialStopPrice = State(e).initialStopPrice
    BY <1>1, <2>1 DEF TrailingState, Calls
  <2>3. heap' = [heap EXCEPT ![call[e].state] = t] /\ pc' = [pc EXCEPT ![e] = "compare"]
    BY <1>8 DEF SetStop, State, Goto
  <2> HIDE DEF t
  <2>4. t.stopPrice >= t.initialStopPrice
    BY <2>1, <2>2 DEF StopIInv, StopsAboveInitial
  <2>5. QED
    BY <1>8, <2>1, <2>2, <2>3, <2>4, Writing DEF SetStop, Steps
<1>9. CASE Compare(e)
  <2>1. pc[e] = "compare" /\ call[e].state # None
    BY <1>9 DEF Compare, StopIInv, CallsAgree
  <2>2. ASSUME Goto(e, "mark"), UNCHANGED call
        PROVE  StopIInv'
    <3>1. call' = [call EXCEPT ![e] = call[e]] /\ pc' = [pc EXCEPT ![e] = "mark"]
      BY <2>2 DEF Goto, StopIInv, StopTypeOK
    <3>2. QED
      BY <1>1, <1>9, <2>1, <3>1, GoingOn DEF Compare, Steps, Position
  <2>3. CASE Return(e)
    BY <1>9, <2>1, <2>3, Returning DEF Compare
  <2>4. QED
    BY <1>9, <2>2, <2>3 DEF Compare
<1>10. CASE Mark(e)
  BY <1>10, Marking
<1>11. CASE EvaluateNil(e)
  BY <1>1, <1>11, StateKept DEF EvaluateNil
<1>12. CASE CheckEntry(e)
  <2>1. pc[e] = "checkEntry" /\ call[e].state = None
    BY <1>12 DEF CheckEntry, WithConfig, StopIInv, CallsAgree
  <2>2. ASSUME NEW s \in {"getState", "mark"}, Goto(e, s), UNCHANGED call
        PROVE  StopIInv'
    <3>1. call' = [call EXCEPT ![e] = call[e]] /\ pc' = [pc EXCEPT ![e] = s]
      BY <2>2 DEF Goto, StopIInv, StopTypeOK
    <3>2. QED
      BY <1>1, <1>12, <2>1, <2>2, <3>1, GoingOn DEF CheckEntry, Steps, Position
  <2>3. CASE Return(e)
    BY <1>12, <2>1, <2>3, Returning DEF CheckEntry
  <2>4. QED
    BY <1>12, <2>2, <2>3 DEF CheckEntry
<1>13. CASE Pending(e)
  BY <1>13, Returning DEF Pending, WithConfig
<1>14. QED
  BY <1>2, <1>3, <1>4, <1>5, <1>6, <1>7, <1>8, <1>9, <1>10, <1>11, <1>12, <1>13 DEF Step

LEMMA StopNextIInv == StopIInv /\ [StopNext]_stopVars => StopIInv'
<1> SUFFICES ASSUME StopIInv, [StopNext]_stopVars PROVE StopIInv'
  OBVIOUS
<1>1. ASSUME NEW c \in StopLossConfigs \cup {NoConfig}, UpdateStopLossConfig(c)
      PROVE  StopIInv'
  BY <1>1, StopLossConfigsAreTyped, StateKept DEF UpdateStopLossConfig, StopIInv, StopTypeOK
<1>2. CASE UNCHANGED stopVars
  BY <1>2, StateKept DEF stopVars, StopIInv, StopTypeOK
<1>3. QED
  BY <1>1, <1>2, StepStopIInv, Beginning, CleaningUp DEF StopNext

\* The invariant of the concurrent evaluations always holds.
THEOREM AlwaysStopIInv == StopSpec => []StopIInv
<1>1. QED
  BY StopInitIInv, StopNextIInv, PTL DEF StopSpec

---------------------------------------------------------------------------
(* The properties *)

\* Type correctness.
THEOREM StopTypeCorrect == StopSpec => []StopTypeOK
<1>1. StopIInv => StopTypeOK
  BY DEF StopIInv
<1>2. QED
  BY <1>1, AlwaysStopIInv, PTL

\* However many goroutines evaluate however many positions, a position is sold at
\* most once by each of them between two cleanups.
THEOREM SellsAreBounded == StopSpec => []SellsBounded
<1>1. StopIInv => SellsBounded
  <2> SUFFICES ASSUME StopIInv, NEW p \in Positions
               PROVE  signals[p] <= Cardinality(Evaluators)
    BY DEF SellsBounded
  <2>1. Evaluating(p) \in SUBSET Evaluators
    BY DEF Evaluating
  <2>2. Cardinality(Evaluating(p)) \in Nat /\ Cardinality(Evaluators) \in Nat
    BY <2>1, EnoughObjects, FS_Subset, FS_CardinalityType
  <2>3. QED
    BY <2>2 DEF StopIInv, StopTypeOK, SellsLeaveEvaluations
<1>2. QED
  BY <1>1, AlwaysStopIInv, PTL

\* Only the two writes lower anything, and what they write was compared with what
\* is there, unless the evaluation was raced.
LEMMA NeverLoweredStep ==
  ASSUME StopIInv, [StopNext]_stopVars,
         NEW o \in Objects, InUse(o), heap[o] # None, ~Raced(o)
  PROVE  /\ heap'[o].stopPrice >= heap[o].stopPrice
         /\ heap'[o].highestPrice >= heap[o].highestPrice
         /\ heap'[o].initialStopPrice = heap[o].initialStopPrice
<1>1. heap[o] \in TrailingState
  BY DEF StopIInv, StopTypeOK
<1>2. heap[o].stopPrice \in Int /\ heap[o].highestPrice \in Int
  BY <1>1 DEF TrailingState
<1>3. ASSUME NEW e \in Evaluators, NEW t \in TrailingState, call[e].state # None,
             heap' = [heap EXCEPT ![call[e].state] = t],
             call[e].state = o =>
               /\ t.stopPrice >= heap[o].stopPrice /\ t.highestPrice >= heap[o].highestPrice
               /\ t.initialStopPrice = heap[o].initialStopPrice
      PROVE  /\ heap'[o].stopPrice >= heap[o].stopPrice
             /\ heap'[o].highestPrice >= heap[o].highestPrice
             /\ heap'[o].initialStopPrice = heap[o].initialStopPrice
  BY <1>2, <1>3 DEF StopIInv, StopTypeOK
<1>4. ASSUME NEW e \in Evaluators, SetHigh(e)
      PROVE  /\ heap'[o].stopPrice >= heap[o].stopPrice
             /\ heap'[o].highestPrice >= heap[o].highestPrice
             /\ heap'[o].initialStopPrice = heap[o].initialStopPrice
  <2> DEFINE t == [State(e) EXCEPT !.highestPrice = Price(e)]
  <2>1. /\ pc[e] = "setHigh" /\ call[e].state # None
        /\ State(e) \in TrailingState /\ call[e] \in Calls
    BY <1>4, CallFacts DEF SetHigh, StopIInv, CallsAgree
  <2>2. /\ t \in TrailingState /\ t.stopPrice = State(e).stopPrice
        /\ t.highestPrice = Price(e)
        /\ t.initialStopPrice = State(e).initialStopPrice
    BY <2>1 DEF TrailingState, Calls, Price
  <2>3. call[e].state = o => Price(e) > heap[o].highestPrice
    BY <2>1 DEF Raced, StopIInv, ChecksHold, State
  <2>4. heap' = [heap EXCEPT ![call[e].state] = t]
    BY <1>4 DEF SetHigh, State
  <2> HIDE DEF t
  <2>5. Price(e) \in Int
    BY <2>1 DEF Price, Calls
  <2>6. QED
    BY <1>2, <1>3, <2>1, <2>2, <2>3, <2>4, <2>5 DEF State
<1>5. ASSUME NEW e \in Evaluators, SetStop(e)
      PROVE  /\ heap'[o].stopPrice >= heap[o].stopPrice
             /\ heap'[o].highestPrice >= heap[o].highestPrice
             /\ heap'[o].initialStopPrice = heap[o].initialStopPrice
  <2> DEFINE t == [State(e) EXCEPT !.stopPrice = call[e].newStop]
  <2>1. /\ pc[e] = "setStop" /\ call[e].state # None
        /\ State(e) \in TrailingState /\ call[e] \in Calls
    BY <1>5, CallFacts DEF SetStop, StopIInv, CallsAgree
  <2>2. /\ t \in TrailingState /\ t.stopPrice = call[e].newStop
        /\ t.highestPrice = State(e).highestPrice
        /\ t.initialStopPrice = State(e).initialStopPrice
    BY <2>1 DEF TrailingState, Calls
  <2>3. call[e].state = o => call[e].newStop > heap[o].stopPrice
    BY <2>1 DEF Raced, StopIInv, ChecksHold, State
  <2>4. heap' = [heap EXCEPT ![call[e].state] = t]
    BY <1>5 DEF SetStop, State
  <2> HIDE DEF t
  <2>5. call[e].newStop \in Int
    BY <2>1 DEF Calls
  <2>6. QED
    BY <1>2, <1>3, <2>1, <2>2, <2>3, <2>4, <2>5 DEF State
<1>6. ASSUME NEW e \in Evaluators, Activate(e)
      PROVE  /\ heap'[o].stopPrice >= heap[o].stopPrice
             /\ heap'[o].highestPrice >= heap[o].highestPrice
             /\ heap'[o].initialStopPrice = heap[o].initialStopPrice
  <2> DEFINE t == [State(e) EXCEPT !.activated = TRUE, !.activationPrice = Price(e)]
  <2>1. /\ call[e].state # None /\ State(e) \in TrailingState /\ call[e] \in Calls
    BY <1>6, CallFacts DEF Activate, WithConfig, StopIInv, CallsAgree
  <2>2. /\ t \in TrailingState /\ t.stopPrice = State(e).stopPrice
        /\ t.highestPrice = State(e).highestPrice
        /\ t.initialStopPrice = State(e).initialStopPrice
    BY <2>1 DEF TrailingState, Calls, Price
  <2>3. UNCHANGED heap \/ heap' = [heap EXCEPT ![call[e].state] = t]
    BY <1>6 DEF Activate, State
  <2> HIDE DEF t
  <2>4. QED
    BY <1>2, <1>3, <2>1, <2>2, <2>3 DEF State
<1>7. ASSUME NEW e \in Evaluators, GetState(e)
      PROVE  heap'[o] = heap[o]
  <2>1. PICK x \in Objects :
          /\ \A y \in Objects : y # x => heap'[y] = heap[y]
          /\ \A p \in Positions : Holds(p, x) => heap'[x] = heap[x]
    BY <1>7, StateGotten
  <2>2. \E p \in Positions : Holds(p, o)
    <3>1. (\E p \in Positions : trailingStates[p] = o) \/ (\E f \in Evaluators : call[f].state = o)
      BY DEF InUse, FreeObjects
    <3>2. ASSUME NEW f \in Evaluators, call[f].state = o
          PROVE  Position(f) \in Positions /\ Holds(Position(f), o)
      BY <3>2, CallFacts, NilIsNoState
    <3>3. QED
      BY <3>1, <3>2 DEF Holds
  <2>3. QED
    BY <2>1, <2>2
<1>8. CASE UNCHANGED heap
  BY <1>2, <1>8
<1>9. \/ UNCHANGED heap
      \/ \E e \in Evaluators : SetHigh(e) \/ SetStop(e) \/ Activate(e) \/ GetState(e)
  BY DEF StopNext, Step, EntryStop, CheckEntry, Pending, ReadHigh, ReadStop, Compare, Mark, EvaluateNil, Evaluate,
         Cleanup, UpdateStopLossConfig, stopVars
<1>10. heap'[o] = heap[o] =>
         /\ heap'[o].stopPrice >= heap[o].stopPrice
         /\ heap'[o].highestPrice >= heap[o].highestPrice
         /\ heap'[o].initialStopPrice = heap[o].initialStopPrice
  BY <1>2
<1>11. QED
  BY <1>4, <1>5, <1>6, <1>7, <1>8, <1>9, <1>10

\* For every number of evaluations, and every configuration they meet: a state's
\* stop and its high are lowered only by an evaluation that another overlapped.
THEOREM StopsAreNeverLowered == StopSpec => StopNeverLowered
<1>1. StopIInv /\ [StopNext]_stopVars =>
        [\A o \in Objects : InUse(o) /\ heap[o] # None /\ ~Raced(o) =>
           /\ heap'[o].stopPrice >= heap[o].stopPrice
           /\ heap'[o].highestPrice >= heap[o].highestPrice]_stopVars
  BY NeverLoweredStep
<1>2. QED
  BY <1>1, AlwaysStopIInv, PTL DEF StopSpec, StopNeverLowered

\* A state that is held stays activated and keeps its initial stop.
LEMMA EffectiveStep ==
  ASSUME StopIInv, StopNext, NEW p \in Positions,
         stopConfig # NoConfig, stopConfig' = stopConfig, p \notin retired',
         ~Raced(trailingStates[p]), ~Outdated(p)
  PROVE  GetStopPrice(p)' >= GetStopPrice(p)
<1> DEFINE o == trailingStates[p]
           entryStop == calculateEntryStopPrice(Entry[p], stopConfig)
<1>1. /\ entryStop \in Int /\ o \in Objects \cup {None}
      /\ entryStop' = entryStop
  BY EntryStopType DEF StopIInv, StopTypeOK
<1> HIDE DEF entryStop
<1>2. CASE o = None
  <2>1. GetStopPrice(p) = entryStop
    BY <1>2 DEF GetStopPrice, entryStop
  <2>2. trailingStates'[p] = None \/ ~heap'[trailingStates'[p]].activated
    <3>1. ASSUME NEW e \in Evaluators, GetState(e)
          PROVE  trailingStates'[p] = None \/ ~heap'[trailingStates'[p]].activated
      <4>1. PICK x \in Objects :
              /\ trailingStates' = [trailingStates EXCEPT ![Position(e)] = x]
              /\ trailingStates[Position(e)] = None => ~heap'[x].activated
        BY <3>1, StateGotten
      <4>2. QED
        BY <1>2, <4>1 DEF StopIInv, StopTypeOK
    <3>2. ASSUME NEW q \in Positions, Cleanup(q)
          PROVE  trailingStates'[p] = None
      BY <1>2, <3>2 DEF Cleanup, StopIInv, StopTypeOK
    <3>3. CASE UNCHANGED trailingStates
      BY <1>2, <3>3
    <3>4. QED
      BY <3>1, <3>2, <3>3
         DEF StopNext, Step, EntryStop, CheckEntry, Pending, ReadHigh, SetHigh, Activate, ReadStop, SetStop, Compare,
             Mark, EvaluateNil, Evaluate, UpdateStopLossConfig
  <2>3. GetStopPrice(p)' = entryStop'
    BY <2>2 DEF GetStopPrice, entryStop
  <2>4. QED
    BY <1>1, <2>1, <2>3
<1>3. CASE o # None
  <2>1. /\ o \in Objects /\ heap[o] \in TrailingState /\ InUse(o) /\ heap[o] # None
        /\ heap[o].initialStopPrice >= entryStop
        /\ heap[o].stopPrice >= heap[o].initialStopPrice
    <3>1. o \in Objects /\ heap[o] \in TrailingState /\ InUse(o)
      BY <1>1, <1>3 DEF StopIInv, StatesAreOwned, Holds, InUse, FreeObjects
    <3>2. heap[o].initialStopPrice \in Int /\ ~(heap[o].initialStopPrice < entryStop)
      BY <1>3, <3>1 DEF Outdated, TrailingState, entryStop
    <3>3. QED
      BY <1>1, <3>1, <3>2, NilIsNoState DEF StopIInv, StopsAboveInitial
  <2>2. /\ heap'[o].stopPrice >= heap[o].stopPrice
    BY <2>1, NeverLoweredStep
  <2>3. trailingStates'[p] = o
    <3>1. ASSUME NEW e \in Evaluators, GetState(e)
          PROVE  trailingStates'[p] = o
      BY <1>3, <3>1, StateGotten DEF StopIInv, StopTypeOK
    <3>2. ASSUME NEW q \in Positions, Cleanup(q)
          PROVE  trailingStates'[p] = o
      BY <3>2 DEF Cleanup, StopIInv, StopTypeOK
    <3>3. QED
      BY <3>1, <3>2
         DEF StopNext, Step, EntryStop, CheckEntry, Pending, ReadHigh, SetHigh, Activate, ReadStop, SetStop, Compare,
             Mark, EvaluateNil, Evaluate, UpdateStopLossConfig
  <2>4. heap'[o] \in TrailingState
    <3>1. StopIInv'
      BY StopNextIInv
    <3>2. QED
      BY <2>1, <2>3, <3>1, <1>3 DEF StopIInv, StatesAreOwned, Holds
  <2>5. heap[o].activated => heap'[o].activated
    <3>1. ASSUME NEW e \in Evaluators, GetState(e)
          PROVE  heap'[o] = heap[o]
      <4>1. PICK x \in Objects :
              /\ \A y \in Objects : y # x => heap'[y] = heap[y]
              /\ \A q \in Positions : Holds(q, x) => heap'[x] = heap[x]
        BY <3>1, StateGotten
      <4>2. Holds(p, o)
        BY DEF Holds
      <4>3. QED
        BY <2>1, <4>1, <4>2
    <3>2. ASSUME NEW e \in Evaluators, SetHigh(e) \/ SetStop(e) \/ Activate(e)
          PROVE  heap[o].activated => heap'[o].activated
      <4>1. call[e].state \in Objects /\ State(e) \in TrailingState
        BY <3>2, CallFacts DEF SetHigh, SetStop, Activate, WithConfig, StopIInv, CallsAgree
      <4>2. QED
        BY <2>1, <3>2, <4>1
           DEF SetHigh, SetStop, Activate, State, TrailingState, StopIInv, StopTypeOK
    <3>3. CASE UNCHANGED heap
      BY <3>3
    <3>4. QED
      BY <3>1, <3>2, <3>3
         DEF StopNext, Step, EntryStop, CheckEntry, Pending, ReadHigh, ReadStop, Compare, Mark, EvaluateNil, Evaluate,
             Cleanup, UpdateStopLossConfig
  <2>6. GetStopPrice(p) = IF heap[o].activated THEN heap[o].stopPrice ELSE entryStop
    BY <1>3 DEF GetStopPrice, entryStop
  <2>7. GetStopPrice(p)' = IF heap'[o].activated THEN heap'[o].stopPrice ELSE entryStop
    BY <1>1, <1>3, <2>3 DEF GetStopPrice, entryStop
  <2>8. /\ heap[o].stopPrice \in Int /\ heap'[o].stopPrice \in Int
        /\ heap[o].initialStopPrice \in Int
    BY <2>1, <2>4 DEF TrailingState
  <2>9. QED
    BY <1>1, <2>1, <2>2, <2>5, <2>6, <2>7, <2>8
<1>4. QED
  BY <1>2, <1>3

\* What a position would be sold at only rises, activation included, for all
\* configurations and evaluations: while its own do not overlap, it is not cleaned
\* up, and no configuration with a closer stop has come since its state was made.
THEOREM EffectiveStopRises == StopSpec => EffectiveStopOnlyRises
<1> DEFINE Kept(p) == /\ stopConfig # NoConfig /\ stopConfig' = stopConfig
                      /\ p \notin retired' /\ ~Raced(trailingStates[p]) /\ ~Outdated(p)
           Rises == \A p \in Positions : Kept(p) => GetStopPrice(p)' >= GetStopPrice(p)
<1>1. StopIInv /\ [StopNext]_stopVars => [Rises]_stopVars
  BY EffectiveStep
<1>2. EffectiveStopOnlyRises <=> [][Rises]_stopVars
  BY DEF EffectiveStopOnlyRises
<1> HIDE DEF Rises
<1>3. QED
  BY <1>1, <1>2, AlwaysStopIInv, PTL DEF StopSpec
=============================================================================
