----------------------------- MODULE TakeProfit -----------------------------
(***************************************************************************)
(* internal/strategy/take_profit.go: take profit tiers, evaluated while    *)
(* other callers mark tiers as executed, clean positions up and replace    *)
(* the configuration.  tp.mu is held for one map access at a time and not  *)
(* at all for the reads of tp.config, so an evaluation is several steps.   *)
(*                                                                         *)
(* Prices and percentages are integers, and a gain is compared with a      *)
(* percentage by cross-multiplying with the entry price.                   *)
(***************************************************************************)
EXTENDS Integers, Sequences

CONSTANTS
  Positions,   \* position identifiers
  Evaluators,  \* goroutines that call Evaluate
  EntryPrice,  \* snapshot.EntryPrice, the same for every position
  Prices,      \* snapshot.CurrentPrice
  TierNumbers, \* the numbers callers mark as executed
  Configs,     \* the configurations callers pass in
  NoConfig,    \* a nil *TakeProfitConfig
  None         \* no entry in a map, no signal

\* GetNextTier takes the number -1 for no tier.
TakeProfitTier == [tier : Int \ {-1}, percent : Int, sellPortion : Int, enabled : BOOLEAN]
TakeProfitConfig == [enabled : BOOLEAN, tiers : Seq(TakeProfitTier)]

ASSUME PricesAreNumbers == EntryPrice \in Nat /\ Prices \subseteq Nat
ASSUME TierNumbersAreNumbers == TierNumbers \subseteq Int
ASSUME ConfigsAreTyped == Configs \subseteq TakeProfitConfig /\ NoConfig \notin TakeProfitConfig
ASSUME NoneIsNothing == None \notin Nat /\ None \notin [tier : TakeProfitTier, price : Nat]

VARIABLES
  config,         \* tp.config
  executedTiers,  \* tp.executedTiers
  highestPrices,  \* tp.highestPrices
  pc,             \* [Evaluators -> step] where each evaluation is
  call,           \* [Evaluators -> snapshot and local variables]
  signal,         \* [Evaluators -> the sale its last evaluation asked for]
  panicked        \* the process died of a nil dereference

vars == <<config, executedTiers, highestPrices, pc, call, signal, panicked>>

---------------------------------------------------------------------------
(* Configuration *)

\* A whole portion is 100, as the configuration writes it in percent here.
validateConfigInternal(c) ==
  c # NoConfig /\ c.enabled =>
    /\ c.tiers # <<>>
    /\ \A i \in DOMAIN c.tiers :
         /\ c.tiers[i].tier > 0
         /\ c.tiers[i].percent >= 0
         /\ c.tiers[i].sellPortion \in 0 .. 100

\* The stricter check of a configuration the program starts with.
ValidateConfig(c) ==
  c # NoConfig /\ c.enabled =>
    /\ c.tiers # <<>>
    /\ \A i \in DOMAIN c.tiers :
         /\ c.tiers[i].tier > 0
         /\ c.tiers[i].percent > 0
         /\ c.tiers[i].sellPortion \in 1 .. 100
         /\ \A j \in DOMAIN c.tiers : c.tiers[i].tier = c.tiers[j].tier => i = j

Reached(tier, price) == (price - EntryPrice) * 100 >= tier.percent * EntryPrice

Open(tier, executed, price) ==
  tier.enabled /\ tier.tier \notin executed /\ Reached(tier, price)

\* The index of the first open tier with the lowest number, as a set; empty for nil.
GetNextTier(tiers, executed, price) ==
  {i \in DOMAIN tiers :
     /\ Open(tiers[i], executed, price)
     /\ \A j \in DOMAIN tiers \ {i} :
          Open(tiers[j], executed, price) =>
            \/ tiers[i].tier < tiers[j].tier
            \/ tiers[i].tier = tiers[j].tier /\ i < j}

---------------------------------------------------------------------------
(* An evaluation, in steps *)

NewCall(p, price) ==
  [position |-> p, price |-> price, tiers |-> <<>>, next |-> 1, raced |-> FALSE]

Init ==
  /\ config \in {c \in Configs \cup {NoConfig} : ValidateConfig(c)}
  /\ executedTiers = [p \in Positions |-> {}]
  /\ highestPrices = [p \in Positions |-> None]
  /\ pc = [e \in Evaluators |-> "idle"]
  /\ \E p \in Positions : call = [e \in Evaluators |-> NewCall(p, EntryPrice)]
  /\ signal = [e \in Evaluators |-> None]
  /\ panicked = FALSE

Return(e, result) ==
  /\ pc' = [pc EXCEPT ![e] = "idle"]
  /\ signal' = [signal EXCEPT ![e] = result]

\* A call that finds a nil configuration returns at once and changes nothing.
Evaluate(e, p, price) ==
  /\ ~panicked /\ pc[e] = "idle" /\ config # NoConfig
  /\ pc' = [pc EXCEPT ![e] = "checkEnabled"]
  /\ call' = [call EXCEPT ![e] = NewCall(p, price)]
  /\ signal' = [signal EXCEPT ![e] = None]
  /\ UNCHANGED <<config, executedTiers, highestPrices, panicked>>

CheckEnabled(e) ==
  /\ ~panicked /\ pc[e] = "checkEnabled" /\ config # NoConfig
  /\ pc' = [pc EXCEPT ![e] = IF config.enabled THEN "updateHighest" ELSE "idle"]
  /\ UNCHANGED <<config, executedTiers, highestPrices, call, signal, panicked>>

\* updateHighestPrice, then the return for want of a profit.
UpdateHighestPrice(e) ==
  LET p == call[e].position
      price == call[e].price
  IN /\ ~panicked /\ pc[e] = "updateHighest"
     /\ highestPrices' =
          IF highestPrices[p] = None \/ price > highestPrices[p]
          THEN [highestPrices EXCEPT ![p] = price] ELSE highestPrices
     /\ pc' = [pc EXCEPT ![e] = IF price > EntryPrice THEN "range" ELSE "idle"]
     /\ UNCHANGED <<config, executedTiers, call, signal, panicked>>

\* range tp.config.Tiers evaluates its operand once.
RangeTiers(e) ==
  /\ ~panicked /\ pc[e] = "range" /\ config # NoConfig
  /\ call' = [call EXCEPT ![e].tiers = config.tiers, ![e].next = 1]
  /\ pc' = [pc EXCEPT ![e] = IF config.tiers = <<>> THEN "idle" ELSE "checkTier"]
  /\ UNCHANGED <<config, executedTiers, highestPrices, signal, panicked>>

\* tp.config has become nil since Evaluate looked.
NilConfig(e) ==
  /\ ~panicked /\ pc[e] \in {"checkEnabled", "range"} /\ config = NoConfig
  /\ panicked' = TRUE
  /\ UNCHANGED <<config, executedTiers, highestPrices, pc, call, signal>>

\* One tier of the loop, given whether it is to be sold and whether it is the last.
CheckTierIf(e, open, last) ==
  /\ ~panicked /\ pc[e] = "checkTier"
  /\ \/ open /\ Return(e, [tier |-> call[e].tiers[call[e].next], price |-> call[e].price])
             /\ UNCHANGED call
     \/ ~open /\ last /\ Return(e, None) /\ UNCHANGED call
     \/ ~open /\ ~last /\ call' = [call EXCEPT ![e].next = @ + 1] /\ UNCHANGED <<pc, signal>>
  /\ UNCHANGED <<config, executedTiers, highestPrices, panicked>>

TierIsOpen(c) == Open(c.tiers[c.next], executedTiers[c.position], c.price)

\* Mutant: a tier that is off or executed ends the loop (break for continue).
CheckTier_Breaks(e) ==
  LET c == call[e]
      tier == c.tiers[c.next]
  IN CheckTierIf(e, TierIsOpen(c),
                 \/ c.next = Len(c.tiers)
                 \/ ~tier.enabled \/ tier.tier \in executedTiers[c.position])

\* Mutant: sells a tier again that has been executed.
CheckTier_Again(e) ==
  CheckTierIf(e, Open(call[e].tiers[call[e].next], {}, call[e].price),
              call[e].next = Len(call[e].tiers))

CheckTier(e) ==
  CheckTierIf(e, TierIsOpen(call[e]), call[e].next = Len(call[e].tiers))

---------------------------------------------------------------------------
(* Other callers *)

MarkTierExecuted(p, n) ==
  /\ ~panicked
  /\ executedTiers' = [executedTiers EXCEPT ![p] = @ \cup {n}]
  /\ UNCHANGED <<config, highestPrices, pc, call, signal, panicked>>

\* Cleanup and ResetExecutedTiers; raced tells evaluations of p under way.
Cleanup(p) ==
  /\ ~panicked
  /\ executedTiers' = [executedTiers EXCEPT ![p] = {}]
  /\ highestPrices' = [highestPrices EXCEPT ![p] = None]
  /\ call' = [e \in Evaluators |->
                IF call[e].position = p THEN [call[e] EXCEPT !.raced = TRUE] ELSE call[e]]
  /\ UNCHANGED <<config, pc, signal, panicked>>

UpdateConfig(c) ==
  /\ ~panicked /\ validateConfigInternal(c)
  /\ config' = c
  /\ UNCHANGED <<executedTiers, highestPrices, pc, call, signal, panicked>>

Evaluation(e) ==
  \/ \E p \in Positions, price \in Prices : Evaluate(e, p, price)
  \/ CheckEnabled(e)
  \/ UpdateHighestPrice(e)
  \/ RangeTiers(e)
  \/ NilConfig(e)
  \/ CheckTier(e)

Next ==
  \/ \E e \in Evaluators : Evaluation(e)
  \/ \E p \in Positions, n \in TierNumbers : MarkTierExecuted(p, n)
  \/ \E p \in Positions : Cleanup(p)
  \/ \E c \in Configs \cup {NoConfig} : UpdateConfig(c)

Spec == Init /\ [][Next]_vars

---------------------------------------------------------------------------
(* Properties *)

CallType ==
  [position : Positions, price : Nat, tiers : Seq(TakeProfitTier),
   next : Nat \ {0}, raced : BOOLEAN]

\* The maps, the configuration and every evaluation are well typed; a loop over
\* tiers stays inside them.
TypeOK ==
  /\ config \in Configs \cup {NoConfig}
  /\ executedTiers \in [Positions -> SUBSET TierNumbers]
  /\ highestPrices \in [Positions -> Nat \cup {None}]
  /\ pc \in [Evaluators -> {"idle", "checkEnabled", "updateHighest", "range", "checkTier"}]
  /\ call \in [Evaluators -> CallType]
  /\ \A e \in Evaluators : pc[e] = "checkTier" => call[e].next \in DOMAIN call[e].tiers
  /\ signal \in [Evaluators -> [tier : TakeProfitTier, price : Nat] \cup {None}]
  /\ panicked \in BOOLEAN

Ascending(tiers) ==
  \A i, j \in DOMAIN tiers : i < j => tiers[i].tier < tiers[j].tier

\* Evaluate sells the tier that GetNextTier names, although it looks at the tiers
\* one by one while others are being marked: nothing it has passed is still open
\* when it decides.  For that the tiers must be listed in order of their numbers,
\* and nobody may reset the position meanwhile.
SignalsTheNextTier ==
  [][\A e \in Evaluators :
       LET c == call[e] IN
       (signal[e] = None /\ signal'[e] # None /\ ~c.raced /\ Ascending(c.tiers)) =>
         \E i \in GetNextTier(c.tiers, executedTiers[c.position], c.price) :
           signal'[e].tier = c.tiers[i]]_vars

\* An evaluation that finds nothing to sell misses nothing: when its loop ends without a
\* sale, no tier of its copy is open any more, neither the one it looked at last nor those
\* it passed while others marked tiers and replaced the configuration.  The tiers may come
\* in any order; only a reset of the position under way can reopen one.
NoTierIsMissed ==
  [][\A e \in Evaluators :
       LET c == call[e] IN
       (pc[e] = "checkTier" /\ pc'[e] = "idle" /\ signal'[e] = None /\ ~c.raced) =>
         GetNextTier(c.tiers, executedTiers[c.position], c.price) = {}]_vars

\* The highest price of a position is no lower than any price an evaluation under way has
\* reported, however evaluations of it overlap, unless the position was reset.
HighestCoversEvaluations ==
  \A e \in Evaluators :
    LET high == highestPrices[call[e].position] IN
    (pc[e] \in {"range", "checkTier"} /\ ~call[e].raced) =>
      high # None /\ high >= call[e].price

===========================================================================
