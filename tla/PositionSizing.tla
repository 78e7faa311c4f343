--------------------------- MODULE PositionSizing ---------------------------
(***************************************************************************)
(* internal/strategy/position_sizing.go: how much to buy.  Amounts are     *)
(* integers, a quotient of decimals is rounded down, percentages stay      *)
(* percentages.  The code rounds at sixteen digits instead.                *)
(***************************************************************************)
EXTENDS Integers, SequencesExt

CONSTANTS
  MinPositionSize,  \* defaultMinPositionSize
  MaxRiskAmount,    \* 100 * defaultMaxPositionRisk, of the placeholder portfolio
  DefaultValue,     \* getPortfolioValue of an empty portfolio, 100 in the code
  DefaultLimits     \* maxPerToken 1, maxTotalValue 10 and maxPerTrade 1 in the code

PositionLimits ==
  [maxPositions : Nat, maxPerToken : Nat, maxTotalValue : Nat, maxPerTrade : Nat,
   maxPortfolioRisk : Nat]

ASSUME SizingDefaults ==
  /\ MaxRiskAmount \in Nat /\ MinPositionSize \in 1 .. MaxRiskAmount /\ DefaultValue \in Nat
  /\ DefaultLimits \in PositionLimits
  /\ 0 \notin {DefaultLimits.maxPerToken, DefaultLimits.maxTotalValue, DefaultLimits.maxPerTrade}

\* NewPositionSizer writes its defaults into the limits it is given.
WithDefaults(l) ==
  [l EXCEPT !.maxPerToken = IF @ = 0 THEN DefaultLimits.maxPerToken ELSE @,
            !.maxTotalValue = IF @ = 0 THEN DefaultLimits.maxTotalValue ELSE @,
            !.maxPerTrade = IF @ = 0 THEN DefaultLimits.maxPerTrade ELSE @]

AtMost(x, max) == IF x > max THEN max ELSE x

---------------------------------------------------------------------------
(* What the portfolio holds *)

OpenAt(p) == {i \in DOMAIN p : p[i].status = "open"}

Amounts(p) == [i \in DOMAIN p |-> p[i].amount]

OpenValue(p) == SumFunctionOnSet(Amounts(p), OpenAt(p))

TotalInvested(p) == SumFunction(Amounts(p))

\* The code stops at the first open position of the token.
ExistingPosition(p, address) ==
  LET i == SelectInSeq(p, LAMBDA pos : pos.status = "open" /\ pos.token = address)
  IN  IF i = 0 THEN 0 ELSE p[i].amount

getPortfolioValue(p) == IF OpenValue(p) = 0 THEN DefaultValue ELSE OpenValue(p)

---------------------------------------------------------------------------
(* The limits, each applied to the amount the one before it left *)

\* What a limit leaves of the amount when so much of it is used.
Within(limit, used, amount) ==
  IF used + amount <= limit THEN amount ELSE IF limit > used THEN limit - used ELSE 0

applyMaxPerTrade(l, amount) ==
  IF l.maxPerTrade = 0 THEN amount ELSE AtMost(amount, l.maxPerTrade)

\* Mutant: compares the limit with the amount alone.
applyMaxPerToken_Alone(l, p, address, amount) ==
  IF l.maxPerToken = 0 THEN amount ELSE Within(l.maxPerToken, 0, amount)

applyMaxPerToken(l, p, address, amount) ==
  IF l.maxPerToken = 0 THEN amount
  ELSE Within(l.maxPerToken, ExistingPosition(p, address), amount)

applyMaxTotalValue(l, p, amount) ==
  IF l.maxTotalValue = 0 THEN amount ELSE Within(l.maxTotalValue, OpenValue(p), amount)

\* Closed positions count too, and an empty portfolio leaves nothing.
applyPortfolioRisk(l, p, amount) ==
  IF l.maxPortfolioRisk = 0 THEN amount
  ELSE AtMost(amount, (TotalInvested(p) * l.maxPortfolioRisk) \div 100)

applyMaxPositionRisk(amount) == AtMost(amount, MaxRiskAmount)

applyMinPositionSize(amount) ==
  IF amount \in 1 .. MinPositionSize - 1 THEN MinPositionSize ELSE amount

\* Mutant: forgets the limit on the value of all positions.
CalculatePositionSize_AnyTotal(l, p, address, amount) ==
  applyMinPositionSize(applyMaxPositionRisk(applyPortfolioRisk(l, p,
    applyMaxPerToken(l, p, address, applyMaxPerTrade(l, amount)))))

\* For a positive amount; any other is an error.
CalculatePositionSize(l, p, address, amount) ==
  LET perToken == applyMaxPerToken(l, p, address, applyMaxPerTrade(l, amount))
      portfolio == applyPortfolioRisk(l, p, applyMaxTotalValue(l, p, perToken))
  IN  applyMinPositionSize(applyMaxPositionRisk(portfolio))

---------------------------------------------------------------------------
(* Other sizes.  "error" is an error return, "panic" a division by zero. *)

\* Kelly's fraction in percent: a quarter of p - q / (win / loss), at most 25.
KellyPercent(winRate, avgWin, avgLoss) ==
  AtMost(((winRate * avgWin - (100 - winRate) * avgLoss) * 25) \div (avgWin * 100), 25)

CalculateOptimalSize(l, p, address, winRate, avgWin, avgLoss) ==
  IF avgLoss = 0 THEN "error"
  ELSE IF avgWin = 0 THEN "panic"
  ELSE IF winRate * avgWin < (100 - winRate) * avgLoss THEN 0
  ELSE LET size == (getPortfolioValue(p) * KellyPercent(winRate, avgWin, avgLoss)) \div 100
       IN  applyMinPositionSize(applyMaxPerToken(l, p, address, applyMaxPerTrade(l, size)))

CalculatePyramidSize(l, p, address, buyAmount, pnlPercent) ==
  IF pnlPercent < 0 THEN "error"
  ELSE IF pnlPercent < 10 THEN 0
  ELSE applyMaxTotalValue(l, p, applyMaxPerToken(l, p, address, buyAmount \div 2))

\* Two percent of the portfolio at risk, with none of the limits.
CalculateRiskAdjustedSize(p, entry, target, stop) ==
  IF entry <= stop \/ target - entry < 2 * (entry - stop) THEN "error"
  ELSE (getPortfolioValue(p) * 2 * entry) \div (100 * (entry - stop))

ValidatePositionSize(l, p, address, size) ==
  /\ size > 0
  /\ l.maxPerTrade # 0 => size <= l.maxPerTrade
  /\ l.maxPerToken # 0 => ExistingPosition(p, address) + size <= l.maxPerToken

=============================================================================
