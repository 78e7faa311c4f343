-------------------------- MODULE TakeProfitProofs --------------------------
(***************************************************************************)
(* Proofs about TakeProfit, for any positions, goroutines, prices and      *)
(* configurations.                                                         *)
(***************************************************************************)
EXTENDS TakeProfit, TLAPS

\* Unless the position was reset, the loop has passed no tier that is still open.
PassedTier(c) ==
  \A j \in DOMAIN c.tiers :
    (j < c.next /\ ~c.raced) => ~Open(c.tiers[j], executedTiers[c.position], c.price)

PassedTiersAreClosed == \A e \in Evaluators : pc[e] = "checkTier" => PassedTier(call[e])

IInv == TypeOK /\ HighestCoversEvaluations /\ PassedTiersAreClosed

---------------------------------------------------------------------------
(* Tiers *)

\* Executing more tiers opens none.
LEMMA OpenIsLost ==
  ASSUME NEW tier, NEW price, NEW E, NEW F, E \subseteq F, Open(tier, F, price)
  PROVE  Open(tier, E, price)
BY DEF Open

\* With ascending tiers, the open tier after none that is open is the next one.
LEMMA FirstOpenIsNext ==
  ASSUME NEW tiers \in Seq(TakeProfitTier), NEW E, NEW price, NEW i \in DOMAIN tiers,
         Ascending(tiers), Open(tiers[i], E, price),
         \A j \in DOMAIN tiers : j < i => ~Open(tiers[j], E, price)
  PROVE  i \in GetNextTier(tiers, E, price)
<1>1. ASSUME NEW j \in DOMAIN tiers \ {i}, Open(tiers[j], E, price)
      PROVE  tiers[i].tier < tiers[j].tier
  <2>1. i \in Nat /\ j \in Nat
    OBVIOUS
  <2>2. i < j
    BY <1>1, <2>1
  <2> QED
    BY <2>2 DEF Ascending
<1> QED
  BY <1>1 DEF GetNextTier

---------------------------------------------------------------------------
(* The inductive invariant *)

LEMMA InitIInv == Init => IInv
<1> SUFFICES ASSUME Init PROVE IInv
  OBVIOUS
<1>1. PICK p \in Positions : call = [e \in Evaluators |-> NewCall(p, EntryPrice)]
  BY DEF Init
<1>2. NewCall(p, EntryPrice) \in CallType
  BY <1>1, PricesAreNumbers DEF NewCall, CallType
<1>3. TypeOK
  BY <1>1, <1>2 DEF Init, TypeOK
<1> QED
  BY <1>3 DEF Init, IInv, HighestCoversEvaluations, PassedTiersAreClosed

LEMMA EvaluateIInv ==
  ASSUME IInv, NEW e \in Evaluators, NEW p \in Positions, NEW price \in Prices, Evaluate(e, p, price)
  PROVE  IInv'
<1> USE DEF IInv
<1>1. NewCall(p, price) \in CallType
  BY PricesAreNumbers DEF NewCall, CallType
<1>2. TypeOK'
  <2>1. call' \in [Evaluators -> CallType]
    BY <1>1 DEF Evaluate, TypeOK
  <2> QED
    BY <2>1 DEF Evaluate, TypeOK
<1>4. HighestCoversEvaluations' /\ PassedTiersAreClosed'
  <2> SUFFICES ASSUME NEW f \in Evaluators, pc'[f] \in {"range", "checkTier"}
               PROVE  f # e /\ pc'[f] = pc[f] /\ call'[f] = call[f]
    BY DEF Evaluate, HighestCoversEvaluations, PassedTiersAreClosed, PassedTier
  <2> QED
    BY DEF Evaluate, TypeOK
<1> QED
  BY <1>2, <1>4

LEMMA UpdateHighestPriceIInv ==
  ASSUME IInv, NEW e \in Evaluators, UpdateHighestPrice(e)
  PROVE  IInv'
<1> USE DEF IInv
<1> DEFINE p == call[e].position
           price == call[e].price
<1>1. p \in Positions /\ price \in Nat
  BY DEF TypeOK, CallType
<1>2. TypeOK'
  BY <1>1 DEF UpdateHighestPrice, TypeOK
<1>4. HighestCoversEvaluations'
  <2> SUFFICES ASSUME NEW f \in Evaluators, pc'[f] \in {"range", "checkTier"}, ~call[f].raced
               PROVE  /\ highestPrices'[call[f].position] # None
                      /\ highestPrices'[call[f].position] >= call[f].price
    BY DEF UpdateHighestPrice, HighestCoversEvaluations
  <2>1. call[f].position \in Positions /\ call[f].price \in Nat
    BY DEF TypeOK, CallType
  <2>2. \A q \in Positions : highestPrices[q] \in Nat \cup {None}
    BY DEF TypeOK
  <2>3. CASE f = e
    BY <1>1, <2>2, <2>3, NoneIsNothing DEF UpdateHighestPrice, TypeOK
  <2>4. CASE f # e
    <3>1. pc[f] \in {"range", "checkTier"}
      BY <2>4 DEF UpdateHighestPrice, TypeOK
    <3>2. /\ highestPrices[call[f].position] # None
          /\ highestPrices[call[f].position] >= call[f].price
      BY <3>1 DEF HighestCoversEvaluations
    <3> QED
      BY <1>1, <2>1, <2>2, <3>2, NoneIsNothing DEF UpdateHighestPrice, TypeOK
  <2> QED
    BY <2>3, <2>4
<1>5. PassedTiersAreClosed'
  <2> SUFFICES ASSUME NEW f \in Evaluators, pc'[f] = "checkTier"
               PROVE  pc[f] = "checkTier"
    BY DEF UpdateHighestPrice, PassedTiersAreClosed, PassedTier
  <2> QED
    BY DEF UpdateHighestPrice, TypeOK
<1> QED
  BY <1>2, <1>4, <1>5

LEMMA RangeTiersIInv ==
  ASSUME IInv, NEW e \in Evaluators, RangeTiers(e)
  PROVE  IInv'
<1> USE DEF IInv
<1> DEFINE b == [call[e] EXCEPT !.tiers = config.tiers]
           c == [b EXCEPT !.next = 1]
<1>1. config.tiers \in Seq(TakeProfitTier)
  BY ConfigsAreTyped DEF RangeTiers, TypeOK, TakeProfitConfig
<1>2. call' = [call EXCEPT ![e] = c]
  BY DEF RangeTiers, TypeOK
<1>3. call[e] \in CallType
  BY DEF TypeOK
<1>4. /\ c \in CallType
      /\ c.tiers = config.tiers
      /\ c.next = 1
      /\ c.position = call[e].position
      /\ c.price = call[e].price
      /\ c.raced = call[e].raced
  <2>1. b \in CallType /\ b.tiers = config.tiers
    BY <1>1, <1>3 DEF CallType
  <2>2. b.position = call[e].position /\ b.price = call[e].price /\ b.raced = call[e].raced
    BY <1>3 DEF CallType
  <2> HIDE DEF b
  <2> QED
    BY <2>1, <2>2 DEF CallType
<1> HIDE DEF c
<1>5. TypeOK'
  <2>1. call' \in [Evaluators -> CallType]
    BY <1>2, <1>4 DEF TypeOK
  <2>2. pc' \in [Evaluators -> {"idle", "checkEnabled", "updateHighest", "range", "checkTier"}]
    BY DEF RangeTiers, TypeOK
  <2>3. ASSUME NEW f \in Evaluators, pc'[f] = "checkTier"
        PROVE  call'[f].next \in DOMAIN call'[f].tiers
    <3>1. CASE f = e
      <4>1. config.tiers # <<>>
        BY <2>3, <3>1 DEF RangeTiers, TypeOK
      <4> QED
        BY <1>1, <1>2, <1>4, <3>1, <4>1 DEF TypeOK
    <3>2. CASE f # e
      BY <1>2, <2>3, <3>2 DEF RangeTiers, TypeOK
    <3> QED
      BY <3>1, <3>2
  <2> QED
    BY <2>1, <2>2, <2>3 DEF RangeTiers, TypeOK
<1>7. HighestCoversEvaluations'
  <2> SUFFICES ASSUME NEW f \in Evaluators, pc'[f] \in {"range", "checkTier"}
               PROVE  /\ pc[f] \in {"range", "checkTier"}
                      /\ call'[f].position = call[f].position
                      /\ call'[f].price = call[f].price
                      /\ call'[f].raced = call[f].raced
    BY DEF RangeTiers, HighestCoversEvaluations
  <2> QED
    BY <1>2, <1>4 DEF RangeTiers, TypeOK
<1>8. PassedTiersAreClosed'
  <2> SUFFICES ASSUME NEW f \in Evaluators, pc'[f] = "checkTier"
               PROVE  PassedTier(call[f])'
    BY DEF PassedTiersAreClosed
  <2>1. CASE f = e
    <3>1. call'[f] = c
      BY <1>2, <2>1 DEF TypeOK
    <3>2. DOMAIN c.tiers \subseteq Nat \ {0}
      BY <1>1, <1>4
    <3> QED
      BY <1>4, <3>1, <3>2 DEF PassedTier
  <2>2. CASE f # e
    BY <1>2, <2>2 DEF RangeTiers, TypeOK, PassedTiersAreClosed, PassedTier
  <2> QED
    BY <2>1, <2>2
<1> QED
  BY <1>5, <1>7, <1>8

LEMMA CheckTierIInv ==
  ASSUME IInv, NEW e \in Evaluators, CheckTier(e)
  PROVE  IInv'
<1> USE DEF IInv, CheckTier, CheckTierIf, Return
<1> DEFINE tier == call[e].tiers[call[e].next]
           sale == [tier |-> tier, price |-> call[e].price]
<1>1. /\ call[e] \in CallType
      /\ call[e].tiers \in Seq(TakeProfitTier)
      /\ call[e].next \in DOMAIN call[e].tiers
      /\ call[e].price \in Nat
      /\ tier \in TakeProfitTier
  BY DEF TypeOK, CallType
<1>2. sale \in [tier : TakeProfitTier, price : Nat]
  BY <1>1
<1>3. CASE TierIsOpen(call[e])
  <2>1. /\ pc' = [pc EXCEPT ![e] = "idle"]
        /\ signal' = [signal EXCEPT ![e] = sale]
        /\ UNCHANGED <<config, executedTiers, highestPrices, call, panicked>>
    BY <1>3
  <2>2. TypeOK'
    BY <1>2, <2>1 DEF TypeOK
  <2>4. HighestCoversEvaluations' /\ PassedTiersAreClosed'
    BY <2>1 DEF TypeOK, HighestCoversEvaluations, PassedTiersAreClosed, PassedTier
  <2> QED
    BY <2>2, <2>4
<1>4. CASE ~TierIsOpen(call[e]) /\ call[e].next = Len(call[e].tiers)
  <2>1. /\ pc' = [pc EXCEPT ![e] = "idle"]
        /\ signal' = [signal EXCEPT ![e] = None]
        /\ UNCHANGED <<config, executedTiers, highestPrices, call, panicked>>
    BY <1>4
  <2>2. TypeOK'
    BY <2>1 DEF TypeOK
  <2>4. HighestCoversEvaluations' /\ PassedTiersAreClosed'
    BY <2>1 DEF TypeOK, HighestCoversEvaluations, PassedTiersAreClosed, PassedTier
  <2> QED
    BY <2>2, <2>4
<1>5. CASE ~TierIsOpen(call[e]) /\ call[e].next # Len(call[e].tiers)
  <2> DEFINE c == [call[e] EXCEPT !.next = @ + 1]
  <2>1. /\ call' = [call EXCEPT ![e] = c]
        /\ UNCHANGED <<config, executedTiers, highestPrices, pc, signal, panicked>>
    BY <1>5 DEF TypeOK
  <2>2. /\ c \in CallType
        /\ c.tiers = call[e].tiers
        /\ c.next = call[e].next + 1
        /\ c.position = call[e].position
        /\ c.price = call[e].price
        /\ c.raced = call[e].raced
    BY <1>1 DEF CallType
  <2>3. c.next \in DOMAIN c.tiers
    BY <1>1, <1>5, <2>2
  <2> HIDE DEF c
  <2>4. TypeOK'
    BY <2>1, <2>2, <2>3 DEF TypeOK
  <2>6. HighestCoversEvaluations'
    BY <2>1, <2>2 DEF TypeOK, HighestCoversEvaluations
  <2>7. PassedTiersAreClosed'
    <3> SUFFICES ASSUME NEW f \in Evaluators, pc[f] = "checkTier"
                 PROVE  PassedTier(call[f])'
      BY <2>1 DEF PassedTiersAreClosed
    <3>1. CASE f = e
      <4>1. call'[f] = c
        BY <2>1, <3>1 DEF TypeOK
      <4> SUFFICES ASSUME NEW j \in DOMAIN c.tiers, j < c.next, ~c.raced
                   PROVE  ~Open(c.tiers[j], executedTiers[c.position], c.price)
        BY <2>1, <4>1 DEF PassedTier
      <4>2. j < call[e].next \/ j = call[e].next
        BY <1>1, <2>2
      <4> QED
        BY <1>5, <2>2, <3>1, <4>2 DEF PassedTiersAreClosed, PassedTier, TierIsOpen
    <3>2. CASE f # e
      BY <2>1, <3>2 DEF TypeOK, PassedTiersAreClosed, PassedTier
    <3> QED
      BY <3>1, <3>2
  <2> QED
    BY <2>4, <2>6, <2>7
<1> QED
  BY <1>3, <1>4, <1>5

LEMMA MarkTierExecutedIInv ==
  ASSUME IInv, NEW p \in Positions, NEW n \in TierNumbers, MarkTierExecuted(p, n)
  PROVE  IInv'
<1> USE DEF IInv
<1>1. \A q \in Positions : executedTiers[q] \subseteq executedTiers'[q]
  BY DEF MarkTierExecuted, TypeOK
<1>2. TypeOK'
  BY DEF MarkTierExecuted, TypeOK
<1>3. HighestCoversEvaluations'
  BY DEF MarkTierExecuted, HighestCoversEvaluations
<1>4. PassedTiersAreClosed'
  <2> SUFFICES ASSUME NEW f \in Evaluators, pc[f] = "checkTier",
                      NEW j \in DOMAIN call[f].tiers, j < call[f].next, ~call[f].raced
               PROVE  ~Open(call[f].tiers[j], executedTiers'[call[f].position], call[f].price)
    BY DEF MarkTierExecuted, PassedTiersAreClosed, PassedTier
  <2>1. ~Open(call[f].tiers[j], executedTiers[call[f].position], call[f].price)
    BY DEF PassedTiersAreClosed, PassedTier
  <2>2. call[f].position \in Positions
    BY DEF TypeOK, CallType
  <2> QED
    BY <1>1, <2>1, <2>2, OpenIsLost
<1> QED
  BY <1>2, <1>3, <1>4

LEMMA CleanupIInv ==
  ASSUME IInv, NEW p \in Positions, Cleanup(p)
  PROVE  IInv'
<1> USE DEF IInv
<1>1. ASSUME NEW f \in Evaluators
      PROVE  /\ call'[f] \in CallType
             /\ call'[f].position = call[f].position
             /\ call'[f].price = call[f].price
             /\ call'[f].tiers = call[f].tiers
             /\ call'[f].next = call[f].next
             /\ ~call'[f].raced => ~call[f].raced /\ call[f].position # p
  <2>1. call[f] \in CallType
    BY DEF TypeOK
  <2>2. call'[f] = IF call[f].position = p THEN [call[f] EXCEPT !.raced = TRUE] ELSE call[f]
    BY DEF Cleanup
  <2> QED
    BY <2>1, <2>2 DEF CallType
<1>2. TypeOK'
  <2>1. call' \in [Evaluators -> CallType]
    BY <1>1 DEF Cleanup
  <2> QED
    BY <1>1, <2>1 DEF Cleanup, TypeOK
<1>4. ASSUME NEW f \in Evaluators, ~call'[f].raced
      PROVE  /\ executedTiers'[call'[f].position] = executedTiers[call[f].position]
             /\ highestPrices'[call'[f].position] = highestPrices[call[f].position]
  <2>1. call[f].position \in Positions
    BY DEF TypeOK, CallType
  <2> QED
    BY <1>1, <1>4, <2>1 DEF Cleanup, TypeOK
<1>5. HighestCoversEvaluations'
  BY <1>1, <1>4 DEF Cleanup, HighestCoversEvaluations
<1>6. PassedTiersAreClosed'
  <2> SUFFICES ASSUME NEW f \in Evaluators, pc[f] = "checkTier",
                      NEW j \in DOMAIN call'[f].tiers, j < call'[f].next, ~call'[f].raced
               PROVE  ~Open(call'[f].tiers[j], executedTiers'[call'[f].position], call'[f].price)
    BY DEF Cleanup, PassedTiersAreClosed, PassedTier
  <2> QED
    BY <1>1, <1>4 DEF PassedTiersAreClosed, PassedTier
<1> QED
  BY <1>2, <1>5, <1>6

LEMMA NextIInv == IInv /\ [Next]_vars => IInv'
<1> SUFFICES ASSUME IInv, [Next]_vars PROVE IInv'
  OBVIOUS
<1>1. CASE UNCHANGED vars
  BY <1>1 DEF vars, IInv, TypeOK, HighestCoversEvaluations,
              PassedTiersAreClosed, PassedTier
<1>2. ASSUME NEW e \in Evaluators, Evaluation(e) PROVE IInv'
  <2>1. ASSUME NEW p \in Positions, NEW price \in Prices, Evaluate(e, p, price) PROVE IInv'
    BY <2>1, EvaluateIInv
  <2>2. CASE NilConfig(e) \/ CheckEnabled(e)
    BY <2>2 DEF NilConfig, CheckEnabled, IInv, TypeOK, HighestCoversEvaluations,
                PassedTiersAreClosed, PassedTier
  <2> QED
    BY <1>2, <2>1, <2>2, UpdateHighestPriceIInv, RangeTiersIInv, CheckTierIInv DEF Evaluation
<1>3. ASSUME NEW p \in Positions, NEW n \in TierNumbers, MarkTierExecuted(p, n) PROVE IInv'
  BY <1>3, MarkTierExecutedIInv
<1>4. ASSUME NEW p \in Positions, Cleanup(p) PROVE IInv'
  BY <1>4, CleanupIInv
<1>5. ASSUME NEW c \in Configs \cup {NoConfig}, UpdateConfig(c) PROVE IInv'
  BY <1>5 DEF UpdateConfig, IInv, TypeOK, HighestCoversEvaluations,
              PassedTiersAreClosed, PassedTier
<1> QED
  BY <1>1, <1>2, <1>3, <1>4, <1>5 DEF Next

LEMMA Invariance == Spec => []IInv
BY InitIInv, NextIInv, PTL DEF Spec

---------------------------------------------------------------------------
(* Theorems *)

\* Every state is well typed; the loop of an evaluation never leaves its tiers.
THEOREM TakeProfitTypeCorrect == Spec => []TypeOK
BY Invariance, PTL DEF IInv

\* The high of a position covers the price of every evaluation that has reported to it.
THEOREM HighestIsAnUpperBound == Spec => []HighestCoversEvaluations
BY Invariance, PTL DEF IInv

\* However evaluations, marks and new configurations interleave, an evaluation
\* that no reset overlaps sells the tier GetNextTier names at that moment.
THEOREM EvaluateAgreesWithGetNextTier == Spec => SignalsTheNextTier
<1> DEFINE Agrees(e) ==
      (signal[e] = None /\ signal'[e] # None /\ ~call[e].raced /\ Ascending(call[e].tiers)) =>
        \E i \in GetNextTier(call[e].tiers, executedTiers[call[e].position], call[e].price) :
          signal'[e].tier = call[e].tiers[i]
<1>1. ASSUME IInv, Next, NEW e \in Evaluators
      PROVE  Agrees(e)
  <2> SUFFICES ASSUME signal[e] = None, signal'[e] # None, ~call[e].raced, Ascending(call[e].tiers)
               PROVE  \E i \in GetNextTier(call[e].tiers, executedTiers[call[e].position], call[e].price) :
                        signal'[e].tier = call[e].tiers[i]
    OBVIOUS
  <2> DEFINE c == call[e]
  <2>1. TypeOK /\ c \in CallType /\ c.tiers \in Seq(TakeProfitTier)
    BY <1>1 DEF IInv, TypeOK, CallType
  <2>2. PICK f \in Evaluators : CheckTier(f)
    <3>1. ASSUME NEW f \in Evaluators, Evaluation(f), ~CheckTier(f)
          PROVE  signal'[e] \in {signal[e], None}
      BY <2>1, <3>1
         DEF Evaluation, Evaluate, UpdateHighestPrice, RangeTiers, NilConfig, CheckEnabled, TypeOK
    <3> QED
      BY <1>1, <3>1 DEF Next, MarkTierExecuted, Cleanup, UpdateConfig
  <2>3. f = e /\ pc[e] = "checkTier" /\ TierIsOpen(c)
        /\ signal'[e] = [tier |-> c.tiers[c.next], price |-> c.price]
    BY <2>1, <2>2 DEF CheckTier, CheckTierIf, Return, TypeOK
  <2>4. c.next \in DOMAIN c.tiers
    BY <2>1, <2>3 DEF TypeOK
  <2>5. \A j \in DOMAIN c.tiers :
          j < c.next => ~Open(c.tiers[j], executedTiers[c.position], c.price)
    BY <1>1, <2>3 DEF IInv, PassedTiersAreClosed, PassedTier
  <2>6. c.next \in GetNextTier(c.tiers, executedTiers[c.position], c.price)
    BY <2>1, <2>3, <2>4, <2>5, FirstOpenIsNext DEF TierIsOpen
  <2> QED
    BY <2>3, <2>6
<1>2. IInv /\ [Next]_vars => [\A e \in Evaluators : Agrees(e)]_vars
  BY <1>1
<1>3. Spec => [][\A e \in Evaluators : Agrees(e)]_vars
  BY <1>2, Invariance, PTL DEF Spec
<1> QED
  BY <1>3 DEF SignalsTheNextTier

\* However evaluations, marks and new configurations interleave, an evaluation that no
\* reset overlaps and that ends its loop without a sale leaves no tier open behind it.
THEOREM EvaluateMissesNoTier == Spec => NoTierIsMissed
<1> DEFINE Missed(e) == GetNextTier(call[e].tiers, executedTiers[call[e].position], call[e].price)
           Complete(e) ==
             (pc[e] = "checkTier" /\ pc'[e] = "idle" /\ signal'[e] = None /\ ~call[e].raced) =>
               Missed(e) = {}
<1>1. ASSUME IInv, Next, NEW e \in Evaluators
      PROVE  Complete(e)
  <2> SUFFICES ASSUME pc[e] = "checkTier", pc'[e] = "idle", signal'[e] = None, ~call[e].raced
               PROVE  Missed(e) = {}
    OBVIOUS
  <2> DEFINE c == call[e]
  <2>1. TypeOK /\ c \in CallType /\ c.tiers \in Seq(TakeProfitTier)
    BY <1>1 DEF IInv, TypeOK, CallType
  <2>2. PICK f \in Evaluators : CheckTier(f)
    <3>1. ASSUME NEW f \in Evaluators, Evaluation(f), ~CheckTier(f)
          PROVE  pc'[e] # "idle"
      BY <2>1, <3>1
         DEF Evaluation, Evaluate, UpdateHighestPrice, RangeTiers, NilConfig, CheckEnabled, TypeOK
    <3> QED
      BY <1>1, <3>1 DEF Next, MarkTierExecuted, Cleanup, UpdateConfig
  <2>3. f = e
    BY <2>1, <2>2 DEF CheckTier, CheckTierIf, Return, TypeOK
  <2>4. [tier |-> c.tiers[c.next], price |-> c.price] # None
    <3>1. c.next \in DOMAIN c.tiers /\ c.price \in Nat
      BY <2>1 DEF TypeOK, CallType
    <3>2. c.tiers[c.next] \in TakeProfitTier
      BY <2>1, <3>1
    <3> QED
      BY <3>1, <3>2, NoneIsNothing
  <2>5. ~TierIsOpen(c) /\ c.next = Len(c.tiers)
    BY <2>1, <2>2, <2>3, <2>4 DEF CheckTier, CheckTierIf, Return, TypeOK
  <2>6. \A j \in DOMAIN c.tiers :
          j < c.next => ~Open(c.tiers[j], executedTiers[c.position], c.price)
    BY <1>1 DEF IInv, PassedTiersAreClosed, PassedTier
  <2>7. ASSUME NEW j \in DOMAIN c.tiers
        PROVE  ~Open(c.tiers[j], executedTiers[c.position], c.price)
    <3>1. j < c.next \/ j = c.next
      BY <2>1, <2>5
    <3> QED
      BY <2>5, <2>6, <3>1 DEF TierIsOpen
  <2> QED
    BY <2>7 DEF GetNextTier
<1>2. IInv /\ [Next]_vars => [\A e \in Evaluators : Complete(e)]_vars
  BY <1>1
<1>3. Spec => [][\A e \in Evaluators : Complete(e)]_vars
  BY <1>2, Invariance, PTL DEF Spec
<1> QED
  BY <1>3 DEF NoTierIsMissed

===========================================================================
