----------------------------- MODULE GasPrices -----------------------------
(***************************************************************************)
(* internal/trader/gas.go: the prices of gas on Base, as the last headers  *)
(* tell them, and what the estimator suggests.  Prices are in tenths of a  *)
(* gwei, multipliers and the congestion in percent.                        *)
(***************************************************************************)
EXTENDS Integers, Sequences

CONSTANTS
  MaxPriorityFee,    \* e.maxPriorityFee, 50 gwei where none is given
  MaxFeePerGas,      \* e.maxFeePerGas, 100 gwei
  MinPriorityFee,    \* e.minPriorityFee, 0.1 gwei
  CongestionUnit,    \* the rise of the base fee that counts as full congestion, 5 gwei
  MaxHistory         \* gasPriceHistoryLength

\* NewGasEstimator takes any three fees, in any order.
ASSUME FeesAreNumbers ==
  /\ {MaxPriorityFee, MaxFeePerGas, MinPriorityFee} \subseteq Nat
  /\ {CongestionUnit, MaxHistory} \subseteq Nat \ {0}

VARIABLE tracker  \* e.tracker: currentBaseFee, currentTip, currentMaxFee, baseFeeHistory

Capped(x, max) == IF x > max THEN max ELSE x

Percent(x, percent) == (x * percent) \div 100

TrackerInit == tracker = [baseFee |-> 10, tip |-> 1, maxFee |-> 500, history |-> <<>>]

\* 15% of the base fee, which has a lower limit and no upper one.
estimateTipFromHistory(baseFee) ==
  IF Percent(baseFee, 15) < MinPriorityFee THEN MinPriorityFee ELSE Percent(baseFee, 15)

calculateMaxFee(baseFee, tip) == Capped(baseFee + 2 * tip, MaxFeePerGas)

\* UpdatePrices works under the tracker's lock, and forgets the oldest price.
UpdatePrices(baseFee) ==
  LET tip == estimateTipFromHistory(baseFee)
      all == Append(tracker.history, baseFee)
  IN  tracker' = [baseFee |-> baseFee, tip |-> tip, maxFee |-> calculateMaxFee(baseFee, tip),
                  history |-> IF Len(all) > MaxHistory THEN Tail(all) ELSE all]

calculateCongestionLevel ==
  LET h == tracker.history IN
  IF Len(h) < 2 THEN 50
  ELSE IF h[Len(h)] < h[1] THEN 0
  ELSE Capped(((h[Len(h)] - h[1]) * 100) \div CongestionUnit, 100)

GetSuggestedGasPrice == [tip |-> tracker.tip, cap |-> tracker.maxFee]

UrgencyMultiplier == [low |-> 100, medium |-> 150, high |-> 200, critical |-> 300]

GetSuggestedGasPriceForCongestion(urgency) ==
  LET level == calculateCongestionLevel
      more == IF level > 85 THEN 200 ELSE IF level > 60 THEN 150 ELSE 100
      tip == Capped(Percent(tracker.tip, Percent(UrgencyMultiplier[urgency], more)),
                    MaxPriorityFee)
  IN  [tip |-> tip, cap |-> calculateMaxFee(tracker.baseFee, tip)]

=============================================================================
