--------------------------- MODULE TradersProofs ---------------------------
(***************************************************************************)
(* Proofs about Traders, for any callers, prices, limits, sizes and number *)
(* of attempts.  On Base: that nonces are distinct, that every transaction *)
(* can pay its tip where the limits are in order, and that a relay gets it *)
(* at most once.  Of both: that what ends is counted once, with its        *)
(* outcome.                                                                *)
(***************************************************************************)
EXTENDS Traders, FiniteSetTheorems, TLAPS

TradeSteps == {"idle", "quoting", "quoted", "numbered", "built", "priced", "protecting",
               "public", "protected", "failed", "done"}
Txs == [nonce : Nat, tip : Int, cap : Int]
Trades == [at : TradeSteps, tx : Txs]

\* The fees a transaction may have.
GoodTx(tx) == LimitsInOrder => tx.tip <= tx.cap

---------------------------------------------------------------------------
(* Prices *)

\* With limits in order, the tip the tracker suggests is allowed by the fee cap it
\* suggests, and is not the zero that stands for none.
PricesInv ==
  /\ tracker.baseFee \in Nat /\ tracker.tip \in Nat /\ tracker.maxFee \in Nat
  /\ LimitsInOrder => /\ tracker.tip > 0
                      /\ Capped(tracker.tip, BuilderMaxPriorityFee) <= tracker.maxFee
  /\ tracker.history \in Seq(Int)

LEMMA PercentIsANumber ==
  ASSUME NEW x \in Int, NEW p \in Int
  PROVE  Percent(x, p) \in Int
<1>1. x * p \in Int
  OBVIOUS
<1> QED
  BY <1>1 DEF Percent

\* What the builder pays for a price, before the limit of the cap.
Tip(price) ==
  Capped(IF price.tip = 0 THEN DefaultPriorityFee ELSE price.tip, BuilderMaxPriorityFee)

\* A price is good when its cap, if it has one, allows the tip that will be paid.
GoodPrice(price) ==
  /\ price.tip \in Nat /\ price.cap \in Nat
  /\ LimitsInOrder /\ price.cap # 0 => Tip(price) <= price.cap

LEMMA Limits ==
  /\ MaxPriorityFee \in Nat /\ MaxFeePerGas \in Nat /\ MinPriorityFee \in Nat
  /\ BuilderMaxPriorityFee \in Nat /\ BuilderMaxFee \in Nat /\ MevMaxPriorityFee \in Nat
  /\ DefaultPriorityFee \in Nat /\ LeastPriorityFee \in Nat \ {0}
  /\ DefaultCap \in Nat /\ CongestionUnit \in Nat \ {0}
BY FeesAreNumbers, TradeSizes

LEMMA BuildIsGood ==
  ASSUME NEW n \in Nat, NEW price, GoodPrice(price)
  PROVE  /\ BuildTransaction(n, price) \in Txs /\ GoodTx(BuildTransaction(n, price))
         /\ BuildTransaction(n, price).nonce = n
<1> DEFINE tip == Tip(price)
           asked == IF price.cap = 0 THEN 2 * tip ELSE price.cap
           cap == Capped(asked, BuilderMaxFee)
<1>1. tip \in Nat /\ tip <= BuilderMaxPriorityFee
  BY Limits DEF Capped, Tip, GoodPrice
<1>2. asked \in Nat /\ (LimitsInOrder => tip <= asked)
  BY <1>1 DEF GoodPrice
<1>3. BuildTransaction(n, price) = [nonce |-> n, tip |-> tip, cap |-> cap]
  BY DEF BuildTransaction, Tip
<1> HIDE DEF tip, asked
<1>4. cap \in Nat /\ (LimitsInOrder => tip <= cap)
  BY <1>1, <1>2, Limits DEF Capped, LimitsInOrder
<1> HIDE DEF cap
<1> QED
  BY <1>1, <1>3, <1>4 DEF Txs, GoodTx

\* A tip and the cap of twice that and the base fee.
LEMMA MaxFeeIsGood ==
  ASSUME NEW baseFee \in Nat, NEW tip \in Nat, LimitsInOrder => tip > 0
  PROVE  /\ calculateMaxFee(baseFee, tip) \in Nat
         /\ LimitsInOrder => Capped(tip, BuilderMaxPriorityFee) <= calculateMaxFee(baseFee, tip)
         /\ GoodPrice([tip |-> tip, cap |-> calculateMaxFee(baseFee, tip)])
<1> DEFINE cap == calculateMaxFee(baseFee, tip)
<1>1. cap \in Nat
  BY Limits DEF Capped, calculateMaxFee
<1>2. LimitsInOrder => Capped(tip, BuilderMaxPriorityFee) <= cap
  BY Limits DEF Capped, calculateMaxFee, LimitsInOrder
<1> HIDE DEF cap
<1>3. GoodPrice([tip |-> tip, cap |-> cap])
  BY <1>1, <1>2 DEF GoodPrice, Tip
<1> QED
  BY <1>1, <1>2, <1>3 DEF cap

LEMMA PriceIsGood ==
  ASSUME PricesInv, NEW source \in {"suggested", "builder"} \cup DOMAIN UrgencyMultiplier
  PROVE  GoodPrice(Price(source))
<1>1. CASE source = "suggested"
  <2>1. Price(source) = [tip |-> tracker.tip, cap |-> tracker.maxFee]
    BY <1>1 DEF Price, GetSuggestedGasPrice
  <2> QED
    BY <2>1 DEF PricesInv, GoodPrice, Tip
<1>2. CASE source = "builder"
  <2> DEFINE tip == EstimateMaxPriorityFee(tracker.baseFee)
             cap == CalculateMaxFeePerGas(tracker.baseFee, tip)
  <2>1. Price(source) = [tip |-> tip, cap |-> cap]
    BY <1>2 DEF Price, BuilderPrice
  <2>2. /\ tip \in Nat /\ tip <= BuilderMaxPriorityFee
        /\ tip = 0 => BuilderMaxPriorityFee = 0
    BY Limits DEF EstimateMaxPriorityFee, Capped, PricesInv
  <2>3. cap \in Nat /\ (LimitsInOrder => tip <= cap)
    <3> HIDE DEF tip
    <3> QED
      BY <2>2, Limits DEF CalculateMaxFeePerGas, Capped, PricesInv, LimitsInOrder
  <2> HIDE DEF tip, cap
  <2>4. GoodPrice([tip |-> tip, cap |-> cap])
    BY <2>2, <2>3, Limits DEF GoodPrice, Tip, Capped
  <2> QED
    BY <2>1, <2>4
<1>3. CASE source \notin {"suggested", "builder"}
  <2>1. PICK m \in {100, 150, 200, 300} : UrgencyMultiplier[source] = m
    <3>1. source \in {"low", "medium", "high", "critical"}
      BY <1>3 DEF UrgencyMultiplier
    <3>2. /\ UrgencyMultiplier["low"] = 100 /\ UrgencyMultiplier["medium"] = 150
          /\ UrgencyMultiplier["high"] = 200 /\ UrgencyMultiplier["critical"] = 300
      BY DEF UrgencyMultiplier
    <3> QED
      BY <3>1, <3>2
  <2>2. PICK more \in {100, 150, 200} :
          more = IF calculateCongestionLevel > 85 THEN 200
                 ELSE IF calculateCongestionLevel > 60 THEN 150 ELSE 100
    OBVIOUS
  <2> DEFINE raised == Percent(tracker.tip, Percent(m, more))
             tip == Capped(raised, MaxPriorityFee)
  <2>3. raised \in Nat /\ (LimitsInOrder => raised > 0)
    <3>1. tracker.tip \in Nat /\ (LimitsInOrder => tracker.tip > 0)
      BY DEF PricesInv
    <3>2. PICK t \in Nat : t = tracker.tip
      BY <3>1
    <3>3. PICK p \in {100, 150, 200, 225, 300, 400, 450, 600} : p = Percent(m, more)
      BY DEF Percent
    <3>4. Percent(t, p) \in Nat /\ (t > 0 => Percent(t, p) > 0)
      BY <3>2 DEF Percent
    <3> QED
      BY <3>1, <3>2, <3>3, <3>4
  <2>4. Price(source) = [tip |-> tip, cap |-> calculateMaxFee(tracker.baseFee, tip)]
    <3>1. Price(source) = GetSuggestedGasPriceForCongestion(source)
      BY <1>3 DEF Price
    <3> DEFINE factor == IF calculateCongestionLevel > 85 THEN 200
                         ELSE IF calculateCongestionLevel > 60 THEN 150 ELSE 100
    <3>2. GetSuggestedGasPriceForCongestion(source)
            = [tip |-> Capped(Percent(tracker.tip, Percent(UrgencyMultiplier[source], factor)),
                              MaxPriorityFee),
               cap |-> calculateMaxFee(tracker.baseFee,
                         Capped(Percent(tracker.tip, Percent(UrgencyMultiplier[source], factor)),
                                MaxPriorityFee))]
      BY DEF GetSuggestedGasPriceForCongestion
    <3>3. factor = more
      BY <2>2
    <3> QED
      BY <2>1, <3>1, <3>2, <3>3
  <2> HIDE DEF raised
  <2>5. tip \in Nat /\ (LimitsInOrder => tip > 0)
    BY <2>3, Limits DEF Capped, LimitsInOrder
  <2>6. tracker.baseFee \in Nat
    BY DEF PricesInv
  <2> HIDE DEF tip
  <2> QED
    BY <2>4, <2>5, <2>6, MaxFeeIsGood
<1> QED
  BY <1>1, <1>2, <1>3

LEMMA UpdateIsGood ==
  ASSUME PricesInv, NEW baseFee \in BaseFees, UpdatePrices(baseFee)
  PROVE  PricesInv'
<1> DEFINE tip == estimateTipFromHistory(baseFee)
           max == calculateMaxFee(baseFee, tip)
           all == Append(tracker.history, baseFee)
           kept == IF Len(all) > MaxHistory THEN Tail(all) ELSE all
<1>1. baseFee \in Nat
  BY TradeSizes
<1>2. tip \in Nat /\ (LimitsInOrder => tip > 0)
  <2>1. Percent(baseFee, 15) \in Nat
    BY <1>1 DEF Percent
  <2> QED
    BY <2>1, Limits DEF estimateTipFromHistory, LimitsInOrder
<1>3. max \in Nat /\ (LimitsInOrder => Capped(tip, BuilderMaxPriorityFee) <= max)
  <2> HIDE DEF tip
  <2> QED
    BY <1>1, <1>2, MaxFeeIsGood
<1>4. all \in Seq(Int) /\ Len(all) > 0
  BY <1>1 DEF PricesInv
<1>5. kept \in Seq(Int)
  <2> HIDE DEF all
  <2>1. all # <<>>
    BY <1>4
  <2>2. Tail(all) \in Seq(Int)
    BY <1>4, <2>1
  <2> QED
    BY <1>4, <2>2
<1>6. tracker' = [baseFee |-> baseFee, tip |-> tip, maxFee |-> max, history |-> kept]
  BY DEF UpdatePrices
<1> HIDE DEF tip, max, all, kept
<1> QED
  BY <1>1, <1>2, <1>3, <1>5, <1>6 DEF PricesInv

\* The priority fee of a protection is a number.
LEMMA PriorityFeeIsANumber ==
  ASSUME PricesInv, NEW strategy \in Strategies
  PROVE  CalculatePriorityFee(strategy) \in Int
<1>1. calculateCongestionLevel \in Int
  <2> DEFINE h == tracker.history
  <2>1. CASE Len(h) < 2
    BY <2>1 DEF calculateCongestionLevel
  <2>2. CASE ~(Len(h) < 2)
    <3>1. h[Len(h)] \in Int /\ h[1] \in Int
      BY <2>2 DEF PricesInv
    <3> DEFINE rise == (h[Len(h)] - h[1]) * 100
    <3>2. rise \in Int
      BY <3>1
    <3> HIDE DEF rise
    <3>3. rise \div CongestionUnit \in Int
      BY <3>2, Limits
    <3>4. Capped(rise \div CongestionUnit, 100) \in Int
      BY <3>3 DEF Capped
    <3> QED
      BY <2>2, <3>4 DEF calculateCongestionLevel, rise
  <2> QED
    BY <2>1, <2>2
<1>2. StrategyMultiplier(strategy, calculateCongestionLevel) \in Int
  <2> DEFINE c == calculateCongestionLevel
  <2>1. 100 + c \div 2 \in Int /\ 150 + c \in Int /\ 200 + 2 * c \in Int
    BY <1>1
  <2> QED
    BY <2>1 DEF StrategyMultiplier
<1> DEFINE factor == StrategyMultiplier(strategy, calculateCongestionLevel)
           multiple == Percent(tracker.baseFee, factor)
<1>3. CalculatePriorityFee(strategy) = IF strategy = "max" THEN MevMaxPriorityFee
                                       ELSE Capped(multiple, MevMaxPriorityFee)
  BY DEF CalculatePriorityFee
<1> HIDE DEF factor
<1>4. multiple \in Int
  <2>1. factor \in Int /\ tracker.baseFee \in Int
    BY <1>2 DEF PricesInv, factor
  <2> QED
    BY <2>1, PercentIsANumber
<1> HIDE DEF multiple
<1> QED
  BY <1>3, <1>4, Limits DEF Capped

---------------------------------------------------------------------------
(* Transactions *)

\* What is at a caller, and what is tracked under a nonce, has good fees and a nonce
\* that has been given out.
TradeInv ==
  /\ nonce \in Nat
  /\ trade \in [Callers -> Trades]
  /\ \A c \in Callers : GoodTx(trade[c].tx) /\ (Numbered(c) => trade[c].tx.nonce < nonce)
  /\ \A n \in DOMAIN pendingTxs :
       /\ n \in Nat /\ n < nonce
       /\ pendingTxs[n] \in Txs /\ GoodTx(pendingTxs[n]) /\ pendingTxs[n].nonce = n
  /\ \A c, d \in Callers : c # d /\ Numbered(c) /\ Numbered(d)
                             => trade[c].tx.nonce # trade[d].tx.nonce

LEMMA NoTxIsGood ==
  /\ NoTx \in Txs /\ GoodTx(NoTx)
  /\ \A n \in Nat : LET tx == [NoTx EXCEPT !.nonce = n]
                    IN  tx \in Txs /\ GoodTx(tx) /\ tx.nonce = n
BY Limits DEF NoTx, Txs, GoodTx

LEMMA TradeChanges ==
  ASSUME TradeInv, NEW c \in Callers, NEW x \in Trades, trade' = [trade EXCEPT ![c] = x]
  PROVE  /\ trade' \in [Callers -> Trades] /\ trade'[c] = x
         /\ \A d \in Callers \ {c} : trade'[d] = trade[d]
BY DEF TradeInv

LEMMA TradeMoves ==
  ASSUME TradeInv, NEW c \in Callers, NEW step \in TradeSteps, Moves(c, step)
  PROVE  /\ trade' \in [Callers -> Trades] /\ trade'[c].at = step
         /\ trade'[c].tx = trade[c].tx
         /\ \A d \in Callers \ {c} : trade'[d] = trade[d]
<1> DEFINE x == [trade[c] EXCEPT !.at = step]
<1>1. x \in Trades /\ x.at = step /\ x.tx = trade[c].tx
  BY DEF TradeInv, Trades
<1>2. trade' = [trade EXCEPT ![c] = x]
  BY DEF Moves
<1> HIDE DEF x
<1> QED
  BY <1>1, <1>2, TradeChanges

\* A caller that keeps its transaction, or its nonce at least, or has none.
LEMMA TradeInvKept ==
  ASSUME TradeInv, NEW c \in Callers, trade' \in [Callers -> Trades],
         \A d \in Callers \ {c} : trade'[d] = trade[d],
         GoodTx(trade'[c].tx),
         \/ ~Numbered(c)'
         \/ Numbered(c) /\ trade'[c].tx.nonce = trade[c].tx.nonce,
         nonce' = nonce, pendingTxs' = pendingTxs
  PROVE  TradeInv'
BY DEF TradeInv, Numbered

\* The transaction it tracks has its nonce.
LEMMA TrackedIsGood ==
  ASSUME TradeInv, NEW c \in Callers, NEW step \in TradeSteps, NEW tx \in Txs,
         Numbered(c), step \notin {"idle", "quoting", "quoted", "done"},
         GoodTx(tx), tx.nonce = trade[c].tx.nonce,
         trade' = [trade EXCEPT ![c] = [at |-> step, tx |-> tx]],
         TrackPendingTransaction(tx), nonce' = nonce
  PROVE  TradeInv'
<1> DEFINE x == [at |-> step, tx |-> tx]
<1>1. x \in Trades /\ x.at = step /\ x.tx = tx
  BY DEF Trades
<1>2. trade' = [trade EXCEPT ![c] = x]
  OBVIOUS
<1> HIDE DEF x
<1>3. /\ trade' \in [Callers -> Trades] /\ trade'[c].at = step /\ trade'[c].tx = tx
      /\ \A d \in Callers \ {c} : trade'[d] = trade[d]
  BY <1>1, <1>2, TradeChanges
<1>4. \A n \in DOMAIN pendingTxs' :
        \/ n = tx.nonce /\ pendingTxs'[n] = tx
        \/ n \in DOMAIN pendingTxs /\ pendingTxs'[n] = pendingTxs[n]
  BY DEF TrackPendingTransaction
<1>5. tx.nonce \in Nat /\ tx.nonce < nonce
  BY DEF TradeInv, Txs
<1> QED
  BY <1>3, <1>4, <1>5 DEF TradeInv, Numbered

LEMMA NextTrade ==
  ASSUME PricesInv, TradeInv, [Next]_vars
  PROVE  TradeInv'
<1>1. ASSUME UNCHANGED <<trade, nonce, pendingTxs>> PROVE TradeInv'
  BY <1>1 DEF TradeInv, Numbered
<1>2. ASSUME NEW c \in Callers, NEW step \in TradeSteps, Moves(c, step),
             step \in {"quoting", "quoted", "done"} \/ Numbered(c),
             UNCHANGED <<nonce, pendingTxs>>
      PROVE  TradeInv'
  <2>1. /\ trade' \in [Callers -> Trades] /\ trade'[c].at = step
        /\ trade'[c].tx = trade[c].tx
        /\ \A d \in Callers \ {c} : trade'[d] = trade[d]
    BY <1>2, TradeMoves
  <2>2. GoodTx(trade'[c].tx)
    BY <2>1 DEF TradeInv
  <2>3. ~Numbered(c)' \/ (Numbered(c) /\ trade'[c].tx.nonce = trade[c].tx.nonce)
    BY <1>2, <2>1 DEF Numbered
  <2> QED
    BY <1>2, <2>1, <2>2, <2>3, TradeInvKept
<1>3. ASSUME NEW c \in Callers, GetQuote(c) PROVE TradeInv'
  BY <1>2, <1>3 DEF GetQuote, TradeSteps
<1>4. ASSUME NEW c \in Callers, Quoted(c) PROVE TradeInv'
  <2>1. PICK step \in {"done", "quoted"} : Moves(c, step)
    BY <1>4 DEF Quoted
  <2> QED
    BY <1>2, <1>4, <2>1 DEF Quoted, TradeSteps
<1>5. ASSUME NEW c \in Callers, GetNextNonce(c) PROVE TradeInv'
  <2> DEFINE tx == [NoTx EXCEPT !.nonce = nonce]
             x == [at |-> "numbered", tx |-> tx]
  <2>1. tx \in Txs /\ GoodTx(tx) /\ tx.nonce = nonce
    BY NoTxIsGood DEF TradeInv
  <2>2. trade' = [trade EXCEPT ![c] = x] /\ nonce' = nonce + 1 /\ pendingTxs' = pendingTxs
    BY <1>5 DEF GetNextNonce
  <2> HIDE DEF tx
  <2>3. x \in Trades /\ x.tx = tx /\ x.at = "numbered"
    BY <2>1 DEF Trades, TradeSteps
  <2> HIDE DEF x
  <2>4. /\ trade' \in [Callers -> Trades] /\ trade'[c] = x
        /\ \A d \in Callers \ {c} : trade'[d] = trade[d]
    BY <2>2, <2>3, TradeChanges
  <2>5. nonce \in Nat
    BY DEF TradeInv
  <2>6. \A d \in Callers \ {c} : Numbered(d)' => Numbered(d) /\ trade'[d].tx.nonce < nonce
    BY <2>4 DEF TradeInv, Numbered
  <2>7. \A d \in Callers \ {c} : Numbered(d)' => trade'[d].tx.nonce # trade'[c].tx.nonce
    <3> SUFFICES ASSUME NEW d \in Callers \ {c}, Numbered(d)'
                 PROVE  trade'[d].tx.nonce # nonce
      BY <2>1, <2>3, <2>4
    <3>1. trade'[d].tx.nonce \in Nat
      BY <2>4 DEF Trades, Txs
    <3> QED
      BY <2>5, <2>6, <3>1
  <2>8. \A d \in Callers : GoodTx(trade'[d].tx)
    BY <2>1, <2>3, <2>4 DEF TradeInv
  <2>9. \A d \in Callers : Numbered(d)' => trade'[d].tx.nonce < nonce'
    <3> SUFFICES ASSUME NEW d \in Callers, Numbered(d)' PROVE trade'[d].tx.nonce < nonce + 1
      BY <2>2
    <3>1. trade'[d].tx.nonce \in Nat
      BY <2>4 DEF Trades, Txs
    <3>2. d = c \/ trade'[d].tx.nonce < nonce
      BY <2>6
    <3> QED
      BY <2>1, <2>3, <2>4, <2>5, <3>1, <3>2
  <2>10. \A n \in DOMAIN pendingTxs' :
           /\ n \in Nat /\ n < nonce'
           /\ pendingTxs'[n] \in Txs /\ GoodTx(pendingTxs'[n]) /\ pendingTxs'[n].nonce = n
    BY <2>2, <2>5 DEF TradeInv
  <2>11. \A d, e \in Callers : d # e /\ Numbered(d)' /\ Numbered(e)'
                                 => trade'[d].tx.nonce # trade'[e].tx.nonce
    BY <2>4, <2>7 DEF TradeInv, Numbered
  <2> QED
    BY <2>2, <2>4, <2>5, <2>8, <2>9, <2>10, <2>11 DEF TradeInv
<1>6. ASSUME NEW c \in Callers, NEW source \in Sources[c], Build(c, source) PROVE TradeInv'
  <2> DEFINE tx == BuildTransaction(trade[c].tx.nonce, Price(source))
  <2>1. Numbered(c) /\ trade[c].tx.nonce \in Nat
    BY <1>6 DEF Build, At, Numbered, TradeInv, Trades, Txs
  <2>2. source \in {"suggested", "builder"} \cup DOMAIN UrgencyMultiplier
    BY TradeSizes
  <2>3. tx \in Txs /\ GoodTx(tx) /\ tx.nonce = trade[c].tx.nonce
    BY <2>1, <2>2, PriceIsGood, BuildIsGood
  <2>4. /\ trade' = [trade EXCEPT ![c] = [at |-> "built", tx |-> tx]]
        /\ TrackPendingTransaction(tx) /\ nonce' = nonce
    BY <1>6 DEF Build
  <2>5. PICK t \in Txs : t = tx
    BY <2>3
  <2> QED
    BY <2>1, <2>3, <2>4, <2>5, TrackedIsGood DEF TradeSteps
<1>7. ASSUME NEW c \in Callers, Replace(c) PROVE TradeInv'
  <2> DEFINE old == pendingTxs[trade[c].tx.nonce]
  <2>1. Numbered(c) /\ trade[c].tx.nonce \in DOMAIN pendingTxs
    BY <1>7 DEF Replace, Numbered
  <2>2. old.nonce = trade[c].tx.nonce /\ old.nonce \in Nat
    BY <2>1 DEF TradeInv
  <2>3. ASSUME NEW p \in Nat
        PROVE  LET tx == BuildTransaction(old.nonce, Raised(extractDynamicFeeTx(old), p))
               IN  tx \in Txs /\ GoodTx(tx) /\ tx.nonce = old.nonce
    <3>1. Percent(0, 100 + p) = 0
      BY DEF Percent
    <3>2. Raised(extractDynamicFeeTx(old), p) = [tip |-> 0, cap |-> 0]
      BY <3>1 DEF Raised, extractDynamicFeeTx
    <3>3. GoodPrice([tip |-> 0, cap |-> 0])
      BY DEF GoodPrice
    <3>4. PICK n \in Nat : n = old.nonce
      BY <2>2
    <3> QED
      BY <3>2, <3>3, <3>4, BuildIsGood
  <2>4. \A p \in Percents : ReplacementPercent(p) \in Nat
    BY TradeSizes DEF ReplacementPercent
  <2>5. PICK tx \in {BuildCancelTransaction(old)}
                      \cup {BuildSpeedupTransaction(old, p) : p \in Percents} :
          /\ trade' = [trade EXCEPT ![c] = [at |-> "built", tx |-> tx]]
          /\ TrackPendingTransaction(tx)
    BY <1>7 DEF Replace
  <2>6. tx \in Txs /\ GoodTx(tx) /\ tx.nonce = old.nonce
    <3>1. CASE tx = BuildCancelTransaction(old)
      BY <2>3, <3>1 DEF BuildCancelTransaction
    <3>2. ASSUME NEW p \in Percents, tx = BuildSpeedupTransaction(old, p)
          PROVE  tx \in Txs /\ GoodTx(tx) /\ tx.nonce = old.nonce
      BY <2>3, <2>4, <3>2 DEF BuildSpeedupTransaction
    <3> QED
      BY <2>5, <3>1, <3>2
  <2> QED
    BY <1>7, <2>1, <2>2, <2>5, <2>6, TrackedIsGood DEF TradeSteps, Replace
<1>8. ASSUME NEW c \in Callers, NEW strategy \in Strategies, ProtectFees(c, strategy)
      PROVE  TradeInv'
  <2> DEFINE fee == CalculatePriorityFee(strategy)
             tx == BuildMevProtectedTx(trade[c].tx, fee)
             x == [at |-> "priced", tx |-> tx]
  <2>1. fee \in Int
    BY PriorityFeeIsANumber
  <2>2. trade[c].tx \in Txs /\ Numbered(c)
    BY <1>8 DEF ProtectFees, At, Numbered, TradeInv, Trades
  <2>3. trade' = [trade EXCEPT ![c] = x] /\ UNCHANGED <<nonce, pendingTxs>>
    BY <1>8 DEF ProtectFees
  <2> HIDE DEF fee
  <2>4. tx = [nonce |-> trade[c].tx.nonce, tip |-> fee, cap |-> DefaultCap + fee]
    BY <2>2 DEF BuildMevProtectedTx, Txs
  <2> HIDE DEF tx
  <2>5. tx \in Txs /\ GoodTx(tx) /\ tx.nonce = trade[c].tx.nonce
    BY <2>1, <2>2, <2>4, Limits DEF Txs, GoodTx
  <2>6. x \in Trades /\ x.at = "priced" /\ x.tx = tx
    BY <2>5 DEF Trades, TradeSteps
  <2> HIDE DEF x
  <2>7. /\ trade' \in [Callers -> Trades] /\ trade'[c] = x
        /\ \A d \in Callers \ {c} : trade'[d] = trade[d]
    BY <2>3, <2>6, TradeChanges
  <2> QED
    BY <2>2, <2>3, <2>5, <2>6, <2>7, TradeInvKept
<1>9. ASSUME NEW c \in Callers, ProtectTransaction(c) PROVE TradeInv'
  <2>1. PICK step \in {"protecting", "public"} : Moves(c, step)
    BY <1>9 DEF ProtectTransaction
  <2> QED
    BY <1>2, <1>9, <2>1 DEF ProtectTransaction, TradeSteps, Numbered
<1>10. ASSUME NEW c \in Callers, Answered(c) PROVE TradeInv'
  <2>1. PICK step \in {"protected", "failed"} : Moves(c, step)
    BY <1>10 DEF Answered
  <2> QED
    BY <1>2, <1>10, <2>1 DEF Answered, At, TradeSteps, Numbered
<1>11. ASSUME NEW c \in Callers, RemovePendingTransaction(c) PROVE TradeInv'
  <2> DEFINE x == [at |-> "done", tx |-> NoTx]
  <2>1. trade' = [trade EXCEPT ![c] = x] /\ nonce' = nonce
    BY <1>11 DEF RemovePendingTransaction
  <2>2. x \in Trades /\ x.at = "done" /\ x.tx = NoTx
    BY NoTxIsGood DEF Trades, TradeSteps
  <2> HIDE DEF x
  <2>3. /\ trade' \in [Callers -> Trades] /\ trade'[c] = x
        /\ \A d \in Callers \ {c} : trade'[d] = trade[d]
    BY <2>1, <2>2, TradeChanges
  <2>4. \A n \in DOMAIN pendingTxs' :
          n \in DOMAIN pendingTxs /\ pendingTxs'[n] = pendingTxs[n]
    BY <1>11 DEF RemovePendingTransaction, Restrict
  <2> QED
    BY <2>1, <2>2, <2>3, <2>4, NoTxIsGood DEF TradeInv, Numbered
<1>12. ASSUME NEW c \in Callers, BaseCall(c) PROVE TradeInv'
  BY <1>1, <1>4, <1>10, <1>12
     DEF BaseCall, QuoteAttempt, SendFails, Send, SendNothing, Trying, baseVars
<1>13. ASSUME NEW baseFee \in BaseFees, UpdatePricesStep(baseFee) PROVE TradeInv'
  BY <1>1, <1>13 DEF UpdatePricesStep
<1>14. CASE BaseNext
  BY <1>3, <1>5, <1>6, <1>7, <1>8, <1>9, <1>11, <1>12, <1>13, <1>14 DEF BaseNext
<1>15. CASE UNCHANGED baseVars
  BY <1>1, <1>15 DEF baseVars
<1> QED
  BY <1>14, <1>15 DEF Next, Cancel, vars

LEMMA NextPrices ==
  ASSUME PricesInv, [Next]_vars
  PROVE  PricesInv'
<1>1. CASE UNCHANGED tracker
  BY <1>1 DEF PricesInv
<1>2. ASSUME NEW baseFee \in BaseFees, UpdatePricesStep(baseFee) PROVE PricesInv'
  BY <1>2, UpdateIsGood DEF UpdatePricesStep
<1>3. CASE UNCHANGED baseVars
  BY <1>1, <1>3 DEF baseVars
<1>4. ASSUME NEW c \in Callers, BaseCall(c) PROVE PricesInv'
  BY <1>1, <1>4 DEF BaseCall, QuoteAttempt, Quoted, SendFails, Send, SendNothing, Answered,
                    Trying, baseVars
<1>5. CASE BaseNext
  BY <1>1, <1>2, <1>4, <1>5
     DEF BaseNext, GetQuote, GetNextNonce, Build, Replace, RemovePendingTransaction,
         ProtectFees, ProtectTransaction
<1> QED
  BY <1>3, <1>5 DEF Next, Cancel, vars

LEMMA InitTrade == Init => PricesInv /\ TradeInv
<1> SUFFICES ASSUME Init PROVE PricesInv /\ TradeInv
  OBVIOUS
<1>1. PricesInv
  BY Limits DEF Init, BaseInit, TrackerInit, PricesInv, Capped
<1>2. NoTrade \in Trades /\ NoTrade.at = "idle" /\ NoTrade.tx = NoTx
  BY NoTxIsGood DEF NoTrade, Trades, TradeSteps
<1>3. trade = [c \in Callers |-> NoTrade] /\ nonce = FirstNonce /\ DOMAIN pendingTxs = {}
  BY DEF Init, BaseInit
<1>4. nonce \in Nat
  BY <1>3, TradeSizes
<1> QED
  BY <1>1, <1>2, <1>3, <1>4, NoTxIsGood DEF TradeInv, Numbered

\* No two callers' transactions ever have the same nonce, and what is tracked under a
\* nonce has it, for any number of callers, retries and replacements (GetNextNonce,
\* BuildSpeedupTransaction, TrackPendingTransaction).
THEOREM NoncesAreDistinct == Spec => []NoncesDistinct
<1>1. PricesInv /\ TradeInv /\ [Next]_vars => PricesInv' /\ TradeInv'
  BY NextPrices, NextTrade
<1>2. TradeInv => NoncesDistinct
  BY DEF TradeInv, NoncesDistinct
<1> QED
  BY InitTrade, <1>1, <1>2, PTL DEF Spec

\* Limits that stand to one another as the defaults do, whatever they are, let every
\* transaction pay its tip, for any base fees, percentages and replacements and for each
\* source of the prices: no cap comes out below the tip, by any order of the limits
\* being applied (BuildTransaction, GetSuggestedGasPriceForCongestion,
\* BuildMevProtectedTx).
THEOREM EveryTipIsCovered == Spec => []TipsCovered
<1>1. PricesInv /\ TradeInv /\ [Next]_vars => PricesInv' /\ TradeInv'
  BY NextPrices, NextTrade
<1>2. TradeInv => TipsCovered
  BY DEF TradeInv, TipsCovered, GoodTx
<1> QED
  BY InitTrade, <1>1, <1>2, PTL DEF Spec

---------------------------------------------------------------------------
(* The relay *)

CallAts == {"idle", "trying", "waiting", "succeeded", "failed"}
Requests == [at : CallAts, attempt : Nat]
Sent == [sent : BOOLEAN, received : {0, 1}]

\* A body goes out once; a request succeeds only when the relay has got it.  Only one
\* of the two traders is there to use the retries.
RelayInv ==
  /\ call \in [Callers -> Requests]
  /\ relay \in [Callers -> Sent]
  /\ \A c \in Callers :
       /\ ~relay[c].sent => relay[c].received = 0
       /\ At(c, "protecting") /\ call[c].at = "succeeded" => relay[c].received = 1
       /\ At(c, "protected") => relay[c].received = 1
  /\ chain # "base" => \A c \in Callers : trade[c].at = "idle"

LEMMA CallEnds ==
  ASSUME RelayInv, NEW c \in Callers, NEW result \in CallAts, Ends(c, result)
  PROVE  /\ call' \in [Callers -> Requests] /\ call'[c].at = result
         /\ \A d \in Callers \ {c} : call'[d] = call[d]
<1> DEFINE x == [call[c] EXCEPT !.at = result]
<1>1. x \in Requests /\ x.at = result
  BY DEF RelayInv, Requests
<1>2. call' = [call EXCEPT ![c] = x]
  BY DEF Ends
<1> HIDE DEF x
<1> QED
  BY <1>1, <1>2 DEF RelayInv

\* A call that begins, is tried again or returns.
LEMMA CallBegins ==
  ASSUME RelayInv, NEW c \in Callers, RetryBegins(c) \/ Again(c) \/ Returns(c)
  PROVE  /\ call' \in [Callers -> Requests] /\ call'[c].at \in {"idle", "trying"}
         /\ \A d \in Callers \ {c} : call'[d] = call[d]
<1>1. call[c].attempt \in Nat
  BY DEF RelayInv, Requests
<1>2. PICK step \in {"idle", "trying"}, n \in Nat :
        call' = [call EXCEPT ![c] = [at |-> step, attempt |-> n]]
  <2>1. CASE RetryBegins(c)
    BY <2>1 DEF RetryBegins, Begun
  <2>2. CASE Again(c)
    <3>1. call' = [call EXCEPT ![c] = [at |-> "trying", attempt |-> call[c].attempt + 1]]
      BY <2>2 DEF Again
    <3>2. call[c].attempt + 1 \in Nat
      BY <1>1
    <3> QED
      BY <3>1, <3>2
  <2>3. CASE Returns(c)
    BY <2>3 DEF Returns, NoCall
  <2> QED
    BY <2>1, <2>2, <2>3
<1> DEFINE x == [at |-> step, attempt |-> n]
<1>3. x \in Requests /\ x.at = step
  BY DEF Requests, CallAts
<1>4. call' = [call EXCEPT ![c] = x]
  BY <1>2
<1> HIDE DEF x
<1> QED
  BY <1>3, <1>4 DEF RelayInv

LEMMA AttemptFailsInCall ==
  ASSUME RelayInv, NEW c \in Callers, NEW r \in BOOLEAN, AttemptFails(c, r)
  PROVE  /\ call' \in [Callers -> Requests] /\ call'[c].at \in {"waiting", "failed"}
         /\ \A d \in Callers \ {c} : call'[d] = call[d]
<1>1. PICK result \in {"waiting", "failed"} : Ends(c, result)
  BY DEF AttemptFails
<1> QED
  BY <1>1, CallEnds DEF CallAts

\* What one caller's step has to keep; the others are where they were.
LEMMA RelayInvKept ==
  ASSUME RelayInv, NEW c \in Callers, chain' = chain,
         call' \in [Callers -> Requests], relay' \in [Callers -> Sent],
         \A d \in Callers \ {c} : /\ call'[d] = call[d] /\ relay'[d] = relay[d]
                                  /\ trade'[d] = trade[d],
         ~relay'[c].sent => relay'[c].received = 0,
         trade'[c].at = "protecting" /\ call'[c].at = "succeeded" => relay'[c].received = 1,
         trade'[c].at = "protected" => relay'[c].received = 1,
         chain # "base" => trade'[c].at = trade[c].at
  PROVE  RelayInv'
BY DEF RelayInv, At

\* The steps of a caller that leave the requests and the relay alone.
LEMMA RelayUntouched ==
  ASSUME RelayInv, NEW c \in Callers, chain' = chain, chain = "base",
         UNCHANGED <<call, relay>>,
         \A d \in Callers \ {c} : trade'[d] = trade[d],
         trade'[c].at \notin {"protecting", "protected"}
  PROVE  RelayInv'
<1>1. call \in [Callers -> Requests] /\ relay \in [Callers -> Sent]
  BY DEF RelayInv
<1>2. ~relay[c].sent => relay[c].received = 0
  BY DEF RelayInv
<1> QED
  BY <1>1, <1>2, RelayInvKept

LEMMA NextRelayBase ==
  ASSUME TradeInv, RelayInv, chain = "base", chain' = chain, BaseNext
  PROVE  RelayInv'
<1>0. /\ call \in [Callers -> Requests] /\ relay \in [Callers -> Sent]
      /\ trade \in [Callers -> Trades]
      /\ \A c \in Callers : ~relay[c].sent => relay[c].received = 0
  BY DEF RelayInv, TradeInv
<1>1. ASSUME NEW c \in Callers, NEW x, x.at \notin {"protecting", "protected"},
             trade' = [trade EXCEPT ![c] = x], UNCHANGED <<call, relay>>
      PROVE  RelayInv'
  <2>1. trade'[c] = x /\ \A d \in Callers \ {c} : trade'[d] = trade[d]
    BY <1>0, <1>1
  <2> QED
    BY <1>1, <2>1, RelayUntouched
<1>2. ASSUME NEW c \in Callers, GetQuote(c) PROVE RelayInv'
  <2>1. trade'[c].at = "quoting" /\ \A d \in Callers \ {c} : trade'[d] = trade[d]
    BY <1>2, TradeMoves DEF GetQuote, TradeSteps
  <2>2. call' \in [Callers -> Requests] /\ \A d \in Callers \ {c} : call'[d] = call[d]
    BY <1>2, CallBegins DEF GetQuote
  <2> QED
    BY <1>0, <1>2, <2>1, <2>2, RelayInvKept DEF GetQuote
<1>3. ASSUME NEW c \in Callers, GetNextNonce(c) \/ \E source \in Sources[c] : Build(c, source)
      PROVE  RelayInv'
  <2>1. PICK x : /\ x.at \in {"numbered", "built"} /\ trade' = [trade EXCEPT ![c] = x]
                 /\ UNCHANGED <<call, relay>>
    BY <1>3 DEF GetNextNonce, Build
  <2> QED
    BY <1>1, <2>1
<1>4. ASSUME NEW c \in Callers, Replace(c) PROVE RelayInv'
  <2>1. PICK x : /\ x.at = "built" /\ trade' = [trade EXCEPT ![c] = x]
                 /\ UNCHANGED <<call, relay>>
    BY <1>4 DEF Replace
  <2> QED
    BY <1>1, <2>1
<1>5. ASSUME NEW c \in Callers, NEW strategy \in Strategies, ProtectFees(c, strategy)
      PROVE  RelayInv'
  <2>1. PICK x : /\ x.at = "priced" /\ trade' = [trade EXCEPT ![c] = x]
                 /\ UNCHANGED <<call, relay>>
    BY <1>5 DEF ProtectFees
  <2> QED
    BY <1>1, <2>1
<1>6. ASSUME NEW c \in Callers, NEW r \in Sent, r = NoRequest,
             relay' = [relay EXCEPT ![c] = r]
      PROVE  /\ relay' \in [Callers -> Sent] /\ ~relay'[c].sent /\ relay'[c].received = 0
             /\ \A d \in Callers \ {c} : relay'[d] = relay[d]
  BY <1>0, <1>6 DEF NoRequest
<1>7. NoRequest \in Sent
  BY DEF NoRequest, Sent
<1>8. ASSUME NEW c \in Callers, RemovePendingTransaction(c) PROVE RelayInv'
  <2>1. PICK x : x.at = "done" /\ trade' = [trade EXCEPT ![c] = x]
    BY <1>8 DEF RemovePendingTransaction
  <2>2. trade'[c].at = "done" /\ \A d \in Callers \ {c} : trade'[d] = trade[d]
    BY <1>0, <2>1
  <2>3. /\ relay' \in [Callers -> Sent] /\ relay'[c].received = 0
        /\ \A d \in Callers \ {c} : relay'[d] = relay[d]
    BY <1>6, <1>7, <1>8 DEF RemovePendingTransaction
  <2>4. call' = call
    BY <1>8 DEF RemovePendingTransaction
  <2> QED
    BY <1>0, <2>2, <2>3, <2>4, RelayInvKept
<1>9. ASSUME NEW c \in Callers, ProtectTransaction(c) PROVE RelayInv'
  <2>1. CASE ShouldProtect(Size[c])
    <3>1. trade'[c].at = "protecting" /\ \A d \in Callers \ {c} : trade'[d] = trade[d]
      BY <1>9, <2>1, TradeMoves DEF ProtectTransaction, TradeSteps
    <3>2. /\ call' \in [Callers -> Requests] /\ call'[c].at \in {"idle", "trying"}
          /\ \A d \in Callers \ {c} : call'[d] = call[d]
      BY <1>9, <2>1, CallBegins DEF ProtectTransaction
    <3>3. /\ relay' \in [Callers -> Sent] /\ relay'[c].received = 0
          /\ \A d \in Callers \ {c} : relay'[d] = relay[d]
      BY <1>6, <1>7, <1>9, <2>1 DEF ProtectTransaction
    <3> QED
      BY <3>1, <3>2, <3>3, RelayInvKept
  <2>2. CASE ~ShouldProtect(Size[c])
    <3>1. trade'[c].at = "public" /\ \A d \in Callers \ {c} : trade'[d] = trade[d]
      BY <1>9, <2>2, TradeMoves DEF ProtectTransaction, TradeSteps
    <3> QED
      BY <1>9, <2>2, <3>1, RelayUntouched DEF ProtectTransaction
  <2> QED
    BY <2>1, <2>2
<1>10. ASSUME NEW c \in Callers, NEW result \in CallAts, Ends(c, result),
              result = "succeeded" => ~At(c, "protecting"),
              UNCHANGED <<trade, relay>>
       PROVE  RelayInv'
  <2>1. /\ call' \in [Callers -> Requests] /\ call'[c].at = result
        /\ \A d \in Callers \ {c} : call'[d] = call[d]
    BY <1>10, CallEnds
  <2>2. At(c, "protected") => relay[c].received = 1
    BY DEF RelayInv
  <2> QED
    BY <1>0, <1>10, <2>1, <2>2, RelayInvKept DEF At
<1>11. ASSUME NEW c \in Callers, NEW r \in BOOLEAN, AttemptFails(c, r), UNCHANGED <<trade, relay>>
       PROVE  RelayInv'
  <2>1. PICK result \in {"waiting", "failed"} : Ends(c, result)
    BY <1>11 DEF AttemptFails
  <2> QED
    BY <1>10, <1>11, <2>1 DEF CallAts
<1>12. ASSUME NEW c \in Callers, QuoteAttempt(c) PROVE RelayInv'
  <2>1. At(c, "quoting") /\ UNCHANGED <<trade, relay>>
    BY <1>12 DEF QuoteAttempt, baseVars
  <2>2. CASE Ends(c, "succeeded")
    BY <1>10, <2>1, <2>2 DEF At, CallAts
  <2>3. CASE \E timeout \in BOOLEAN : AttemptFails(c, timeout)
    BY <1>11, <2>1, <2>3
  <2> QED
    BY <1>12, <2>2, <2>3 DEF QuoteAttempt
<1>13. ASSUME NEW c \in Callers, Quoted(c) PROVE RelayInv'
  <2>1. PICK step \in {"done", "quoted"} : Moves(c, step)
    BY <1>13 DEF Quoted
  <2>2. trade'[c].at = step /\ \A d \in Callers \ {c} : trade'[d] = trade[d]
    BY <2>1, TradeMoves DEF TradeSteps
  <2>3. call' \in [Callers -> Requests] /\ \A d \in Callers \ {c} : call'[d] = call[d]
    BY <1>13, CallBegins DEF Quoted
  <2> QED
    BY <1>0, <1>13, <2>2, <2>3, RelayInvKept DEF Quoted
<1>14. ASSUME NEW c \in Callers, SendFails(c) \/ SendNothing(c) PROVE RelayInv'
  <2>1. UNCHANGED <<trade, relay>>
    BY <1>14 DEF SendFails, SendNothing, Trying
  <2>2. \E r \in BOOLEAN : AttemptFails(c, r)
    BY <1>14 DEF SendFails, SendNothing
  <2> QED
    BY <1>11, <2>1, <2>2
<1>15. ASSUME NEW c \in Callers, Send(c) PROVE RelayInv'
  <2>1. relay[c] \in Sent /\ relay[c].received = 0 /\ At(c, "protecting") /\ trade' = trade
    BY <1>0, <1>15 DEF Send, Trying
  <2>2. PICK got \in {0, 1} :
          /\ relay' = [relay EXCEPT ![c] = [sent |-> TRUE, received |-> relay[c].received + got]]
          /\ \/ got = 1 /\ Ends(c, "succeeded")
             \/ \E isRetryableHTTP \in BOOLEAN : AttemptFails(c, isRetryableHTTP)
    BY <1>15 DEF Send
  <2> DEFINE x == [sent |-> TRUE, received |-> got]
  <2>3. relay' = [relay EXCEPT ![c] = x]
    BY <2>1, <2>2
  <2>4. x \in Sent /\ x.sent /\ x.received = got
    BY DEF Sent
  <2> HIDE DEF x
  <2>5. /\ relay' \in [Callers -> Sent] /\ relay'[c] = x
        /\ \A d \in Callers \ {c} : relay'[d] = relay[d]
    BY <1>0, <2>3, <2>4
  <2>6. /\ call' \in [Callers -> Requests]
        /\ call'[c].at = "succeeded" => got = 1
        /\ \A d \in Callers \ {c} : call'[d] = call[d]
    <3>1. CASE got = 1 /\ Ends(c, "succeeded")
      BY <3>1, CallEnds DEF CallAts
    <3>2. CASE \E r \in BOOLEAN : AttemptFails(c, r)
      BY <3>2, AttemptFailsInCall
    <3> QED
      BY <2>2, <3>1, <3>2
  <2> QED
    BY <2>1, <2>4, <2>5, <2>6, RelayInvKept DEF At
<1>16. ASSUME NEW c \in Callers, Answered(c) PROVE RelayInv'
  <2>1. PICK result \in {"protected", "failed"} :
          /\ result = "protected" => call[c].at = "succeeded"
          /\ Moves(c, result)
          /\ relay' = IF result = "failed" THEN [relay EXCEPT ![c] = NoRequest] ELSE relay
    BY <1>16 DEF Answered
  <2>2. trade'[c].at = result /\ \A d \in Callers \ {c} : trade'[d] = trade[d]
    BY <2>1, TradeMoves DEF TradeSteps
  <2>3. /\ call' \in [Callers -> Requests] /\ call'[c].at \in {"idle", "trying"}
        /\ \A d \in Callers \ {c} : call'[d] = call[d]
    BY <1>16, CallBegins DEF Answered
  <2>4. CASE result = "failed"
    <3>1. /\ relay' \in [Callers -> Sent] /\ relay'[c].received = 0
          /\ \A d \in Callers \ {c} : relay'[d] = relay[d]
      BY <1>6, <1>7, <2>1, <2>4
    <3> QED
      BY <2>2, <2>3, <2>4, <3>1, RelayInvKept
  <2>5. CASE result = "protected"
    <3>1. relay' = relay /\ relay[c].received = 1
      BY <1>16, <2>1, <2>5 DEF Answered, RelayInv
    <3> QED
      BY <1>0, <2>2, <2>3, <2>5, <3>1, RelayInvKept
  <2> QED
    BY <2>4, <2>5
<1>17. ASSUME NEW c \in Callers, UNCHANGED baseVars, Again(c) \/ RetryCanceled(c)
       PROVE  RelayInv'
  <2>1. UNCHANGED <<trade, relay>>
    BY <1>17 DEF baseVars
  <2>2. CASE RetryCanceled(c)
    BY <1>10, <2>1, <2>2 DEF RetryCanceled, CallAts
  <2>3. CASE Again(c)
    <3>1. /\ call' \in [Callers -> Requests] /\ call'[c].at \in {"idle", "trying"}
          /\ \A d \in Callers \ {c} : call'[d] = call[d]
      BY <2>3, CallBegins
    <3>2. At(c, "protected") => relay[c].received = 1
      BY DEF RelayInv
    <3> QED
      BY <1>0, <2>1, <3>1, <3>2, RelayInvKept DEF At
  <2> QED
    BY <1>17, <2>2, <2>3
<1>18. ASSUME NEW c \in Callers, BaseCall(c) PROVE RelayInv'
  BY <1>12, <1>13, <1>14, <1>15, <1>16, <1>17, <1>18 DEF BaseCall
<1>19. ASSUME NEW baseFee \in BaseFees, UpdatePricesStep(baseFee) PROVE RelayInv'
  BY <1>19 DEF UpdatePricesStep, RelayInv, At
<1> QED
  BY <1>2, <1>3, <1>4, <1>5, <1>8, <1>9, <1>18, <1>19 DEF BaseNext

\* The other trader's requests are its own.
LEMMA NextRelaySolana ==
  ASSUME RelayInv, chain = "solana", chain' = chain, UNCHANGED baseVars, SolanaNext
  PROVE  RelayInv'
<1>1. UNCHANGED <<trade, relay>> /\ \A c \in Callers : trade[c].at = "idle"
  BY DEF baseVars, RelayInv
<1>2. call' \in [Callers -> Requests]
  <2>1. CASE UNCHANGED call
    BY <2>1 DEF RelayInv
  <2>2. ASSUME NEW c \in Callers, RetryBegins(c) \/ Again(c) \/ Returns(c)
        PROVE  call' \in [Callers -> Requests]
    BY <2>2, CallBegins
  <2>3. ASSUME NEW c \in Callers, Attempt(c) PROVE call' \in [Callers -> Requests]
    BY <2>3, CallEnds, AttemptFailsInCall DEF Attempt, CallAts
  <2>4. ASSUME NEW c \in Callers, SolanaCall(c) PROVE call' \in [Callers -> Requests]
    BY <2>2, <2>3, <2>4
       DEF SolanaCall, getFeeEstimate, QuoteSwap, GetSwapTransaction, Abandon, QuoteAsked,
           TransactionBuilt
  <2>5. ASSUME NEW c \in Callers, \/ CalculateFee(c) \/ ExecuteSwap(c)
                                  \/ BuildSwapTransaction(c) \/ EstimateSwapCost(c)
        PROVE  call' \in [Callers -> Requests]
    BY <2>1, <2>2, <2>5 DEF CalculateFee, ExecuteSwap, BuildSwapTransaction, EstimateSwapCost
  <2> QED
    BY <2>1, <2>4, <2>5 DEF SolanaNext, ResetStats
<1> QED
  BY <1>1, <1>2 DEF RelayInv, At

LEMMA NextRelay ==
  ASSUME TradeInv, RelayInv, [Next]_vars
  PROVE  RelayInv'
<1>1. CASE chain = "base" /\ BaseNext /\ UNCHANGED <<chain, solanaVars>>
  BY <1>1, NextRelayBase
<1>2. CASE chain = "solana" /\ SolanaNext /\ UNCHANGED <<chain, baseVars>>
  BY <1>2, NextRelaySolana
<1>3. CASE UNCHANGED <<chain, call, baseVars>>
  BY <1>3 DEF RelayInv, At, baseVars
<1> QED
  BY <1>1, <1>2, <1>3 DEF Next, Cancel, vars

\* A relay gets a transaction at most once, and exactly once when its protection is
\* reported, whatever the number of callers and attempts and whenever a caller gives
\* up (protectWithFlashbots, RetryWithContext).
THEOREM RelayGetsItOnce == Spec => []RelayedOnce
<1>1. Init => RelayInv
  <2> SUFFICES ASSUME Init PROVE RelayInv
    OBVIOUS
  <2>1. NoCall \in Requests /\ NoRequest \in Sent /\ ~NoRequest.sent /\ NoRequest.received = 0
        /\ NoCall.at = "idle"
    BY DEF NoCall, NoRequest, Requests, Sent, CallAts
  <2>2. NoTrade.at = "idle"
    BY DEF NoTrade
  <2> QED
    BY <2>1, <2>2 DEF Init, BaseInit, RelayInv, At
<1>2. PricesInv /\ TradeInv /\ [Next]_vars => PricesInv' /\ TradeInv'
  BY NextPrices, NextTrade
<1>3. TradeInv /\ RelayInv /\ [Next]_vars => RelayInv'
  BY NextRelay
<1>4. RelayInv => RelayedOnce
  <2> SUFFICES ASSUME RelayInv, NEW c \in Callers
               PROVE  /\ relay[c].received <= 1
                      /\ At(c, "protected") => relay[c].received = 1
    BY DEF RelayedOnce
  <2>1. relay[c].received \in {0, 1}
    BY DEF RelayInv, Sent
  <2> QED
    BY <2>1 DEF RelayInv
<1> QED
  BY InitTrade, <1>1, <1>2, <1>3, <1>4, PTL DEF Spec

---------------------------------------------------------------------------
(* Outcomes *)

ProtectionStats == [begun : Nat, total : Nat, flashbots : Nat, merkle : Nat, failed : Nat]
ExecutionStats == [total : Nat, failed : Nat, simulated : Nat]

Protecting == {c \in Callers : At(c, "protecting")}

ProtectionsInv == stats \in ProtectionStats /\ ProtectionsCounted

ExecutionsInv == execStats \in ExecutionStats /\ carried \in Nat /\ ExecutionsCounted

LEMMA CallersCount ==
  ASSUME NEW S \in SUBSET Callers
  PROVE  /\ Cardinality(S) \in Nat
         /\ \A c \in Callers \ S : Cardinality(S \cup {c}) = Cardinality(S) + 1
         /\ \A c \in S : Cardinality(S \ {c}) = Cardinality(S) - 1
<1>1. IsFiniteSet(S)
  BY FS_Subset, TriesAtLeastOnce
<1> QED
  BY <1>1, FS_CardinalityType, FS_AddElement, FS_RemoveElement

\* The steps that end no protection and begin none.
LEMMA ProtectionsKept ==
  ASSUME ProtectionsInv, stats' = stats, Protecting' = Protecting
  PROVE  ProtectionsInv'
BY DEF ProtectionsInv, ProtectionsCounted, Protecting

LEMMA ProtectingChanges ==
  ASSUME NEW c \in Callers, \A d \in Callers \ {c} : trade'[d] = trade[d]
  PROVE  Protecting' = IF At(c, "protecting")' THEN Protecting \cup {c} ELSE Protecting \ {c}
BY DEF Protecting, At

LEMMA NextProtections ==
  ASSUME TradeInv, ProtectionsInv, BaseNext
  PROVE  ProtectionsInv'
<1>1. /\ stats \in ProtectionStats
      /\ stats.total = stats.flashbots + stats.merkle
      /\ stats.begun = stats.total + stats.failed + Cardinality(Protecting)
  BY DEF ProtectionsInv, ProtectionsCounted, Protecting
<1>2. Protecting \in SUBSET Callers /\ trade \in [Callers -> Trades]
  BY DEF Protecting, TradeInv
<1>3. ASSUME UNCHANGED <<stats, trade>> PROVE ProtectionsInv'
  BY <1>3, ProtectionsKept DEF Protecting, At
<1>4. ASSUME NEW c \in Callers, ~At(c, "protecting"), UNCHANGED stats,
             NEW x, x.at # "protecting", trade' = [trade EXCEPT ![c] = x]
      PROVE  ProtectionsInv'
  <2>1. trade'[c] = x /\ \A d \in Callers \ {c} : trade'[d] = trade[d]
    BY <1>2, <1>4
  <2>2. Protecting' = Protecting
    BY <1>4, <2>1 DEF Protecting, At
  <2> QED
    BY <1>4, <2>2, ProtectionsKept
<1>5. ASSUME NEW c \in Callers, ~At(c, "protecting"), UNCHANGED stats,
             NEW step \in TradeSteps \ {"protecting"}, Moves(c, step)
      PROVE  ProtectionsInv'
  <2>1. trade'[c].at = step /\ \A d \in Callers \ {c} : trade'[d] = trade[d]
    BY <1>5, TradeMoves
  <2>2. Protecting' = Protecting
    BY <1>5, <2>1 DEF Protecting, At
  <2> QED
    BY <1>5, <2>2, ProtectionsKept
<1>6. ASSUME NEW c \in Callers, GetQuote(c) PROVE ProtectionsInv'
  BY <1>5, <1>6 DEF GetQuote, At, TradeSteps
<1>7. ASSUME NEW c \in Callers, Quoted(c) PROVE ProtectionsInv'
  <2>1. PICK step \in {"done", "quoted"} : Moves(c, step)
    BY <1>7 DEF Quoted
  <2> QED
    BY <1>5, <1>7, <2>1 DEF Quoted, At, TradeSteps
<1>8. ASSUME NEW c \in Callers,
             \/ GetNextNonce(c) \/ (\E source \in Sources[c] : Build(c, source))
             \/ Replace(c) \/ (\E strategy \in Strategies : ProtectFees(c, strategy))
             \/ RemovePendingTransaction(c)
      PROVE  ProtectionsInv'
  <2>1. ~At(c, "protecting") /\ UNCHANGED stats
    BY <1>8 DEF GetNextNonce, Build, Replace, ProtectFees, RemovePendingTransaction, At
  <2>2. PICK x : x.at # "protecting" /\ trade' = [trade EXCEPT ![c] = x]
    BY <1>8 DEF GetNextNonce, Build, Replace, ProtectFees, RemovePendingTransaction
  <2> QED
    BY <1>4, <2>1, <2>2
<1>9. ASSUME NEW c \in Callers, ProtectTransaction(c) PROVE ProtectionsInv'
  <2>1. ~At(c, "protecting")
    BY <1>9 DEF ProtectTransaction, At
  <2>2. CASE ShouldProtect(Size[c])
    <3>1. trade'[c].at = "protecting" /\ \A d \in Callers \ {c} : trade'[d] = trade[d]
      BY <1>9, <2>2, TradeMoves DEF ProtectTransaction, TradeSteps
    <3>2. Cardinality(Protecting') = Cardinality(Protecting) + 1 /\ Cardinality(Protecting) \in Nat
      BY <1>2, <2>1, <3>1, ProtectingChanges, CallersCount DEF At, Protecting
    <3>3. stats' = [stats EXCEPT !.begun = @ + 1]
      BY <1>9, <2>2 DEF ProtectTransaction
    <3>4. /\ stats' \in ProtectionStats /\ stats'.begun = stats.begun + 1
          /\ stats'.total = stats.total /\ stats'.failed = stats.failed
          /\ stats'.flashbots = stats.flashbots /\ stats'.merkle = stats.merkle
      BY <1>1, <3>3 DEF ProtectionStats
    <3>5. stats'.begun = stats'.total + stats'.failed + Cardinality(Protecting')
      BY <1>1, <3>2, <3>4 DEF ProtectionStats
    <3> QED
      BY <1>1, <3>4, <3>5 DEF ProtectionsInv, ProtectionsCounted, Protecting
  <2>3. CASE ~ShouldProtect(Size[c])
    BY <1>5, <1>9, <2>1, <2>3 DEF ProtectTransaction, TradeSteps
  <2> QED
    BY <2>2, <2>3
<1>10. ASSUME NEW c \in Callers, Answered(c) PROVE ProtectionsInv'
  <2>1. PICK result \in {"protected", "failed"} :
          /\ Moves(c, result)
          /\ stats' = IF result = "failed" THEN recordFailure(c) ELSE recordProtected(c)
    BY <1>10 DEF Answered
  <2>2. trade'[c].at = result /\ \A d \in Callers \ {c} : trade'[d] = trade[d]
    BY <2>1, TradeMoves DEF TradeSteps
  <2>3. Cardinality(Protecting') = Cardinality(Protecting) - 1 /\ Cardinality(Protecting) \in Nat
    <3>1. c \in Protecting
      BY <1>10 DEF Answered, Protecting
    <3>2. Protecting' = Protecting \ {c}
      BY <2>2, ProtectingChanges DEF At
    <3> QED
      BY <1>2, <3>1, <3>2, CallersCount
  <2>4. /\ stats' \in ProtectionStats /\ stats'.begun = stats.begun
        /\ stats'.total = stats'.flashbots + stats'.merkle
        /\ stats'.total + stats'.failed = stats.total + stats.failed + 1
    <3>1. CASE stats' = [stats EXCEPT !.failed = @ + 1]
      BY <1>1, <3>1 DEF ProtectionStats
    <3>2. CASE stats' = [stats EXCEPT !.total = @ + 1, !.flashbots = @ + 1]
      <4>1. stats' = [begun |-> stats.begun, total |-> stats.total + 1,
                     flashbots |-> stats.flashbots + 1, merkle |-> stats.merkle,
                     failed |-> stats.failed]
        BY <1>1, <3>2 DEF ProtectionStats
      <4> QED
        BY <1>1, <4>1 DEF ProtectionStats
    <3>3. CASE stats' = [stats EXCEPT !.total = @ + 1, !.merkle = @ + 1]
      <4>1. stats' = [begun |-> stats.begun, total |-> stats.total + 1,
                     flashbots |-> stats.flashbots, merkle |-> stats.merkle + 1,
                     failed |-> stats.failed]
        BY <1>1, <3>3 DEF ProtectionStats
      <4> QED
        BY <1>1, <4>1 DEF ProtectionStats
    <3> QED
      BY <2>1, <3>1, <3>2, <3>3 DEF recordFailure, recordProtected
  <2>5. stats'.begun = stats'.total + stats'.failed + Cardinality(Protecting')
    BY <1>1, <2>3, <2>4 DEF ProtectionStats
  <2> QED
    BY <2>4, <2>5 DEF ProtectionsInv, ProtectionsCounted, Protecting
<1>11. ASSUME NEW c \in Callers, BaseCall(c) PROVE ProtectionsInv'
  BY <1>3, <1>7, <1>10, <1>11
     DEF BaseCall, QuoteAttempt, SendFails, Send, SendNothing, Trying, baseVars
<1>12. ASSUME NEW baseFee \in BaseFees, UpdatePricesStep(baseFee) PROVE ProtectionsInv'
  BY <1>3, <1>12 DEF UpdatePricesStep
<1> QED
  BY <1>6, <1>8, <1>9, <1>11, <1>12 DEF BaseNext

LEMMA ExecutionsKept ==
  ASSUME ExecutionsInv, UNCHANGED <<execStats, carried>>, Executing' = Executing
  PROVE  ExecutionsInv'
BY DEF ExecutionsInv, ExecutionsCounted

\* Every caller has a place.
SwapInv == DOMAIN swap = Callers

LEMMA NextSwap ==
  ASSUME SwapInv, [Next]_vars
  PROVE  SwapInv'
<1>1. CASE UNCHANGED swap
  BY <1>1 DEF SwapInv
<1>2. ASSUME NEW c \in Callers, NEW step, Becomes(c, step) PROVE SwapInv'
  BY <1>2 DEF SwapInv, Becomes
<1>3. ASSUME NEW c \in Callers, SolanaCall(c) PROVE SwapInv'
  BY <1>1, <1>2, <1>3 DEF SolanaCall, Attempt, getFeeEstimate, QuoteSwap, GetSwapTransaction,
                          QuoteAsked, TransactionBuilt, Abandon, solanaVars
<1>4. CASE SolanaNext
  BY <1>1, <1>2, <1>3, <1>4 DEF SolanaNext, CalculateFee, ExecuteSwap, BuildSwapTransaction,
                                EstimateSwapCost, ResetStats
<1> QED
  BY <1>1, <1>4 DEF Next, Cancel, vars, solanaVars

LEMMA ExecutingChanges ==
  ASSUME SwapInv, NEW c \in Callers, NEW step, Becomes(c, step)
  PROVE  Executing' = IF step \in {"quoting", "building"} THEN Executing \cup {c}
                      ELSE Executing \ {c}
<1>1. swap'[c] = step /\ \A d \in Callers \ {c} : swap'[d] = swap[d]
  BY DEF SwapInv, Becomes
<1> QED
  BY <1>1 DEF Executing

\* An execution ends with exactly one of the two counters raised.
LEMMA ExecutionEnds ==
  ASSUME SwapInv, ExecutionsInv, NEW c \in Executing,
         Becomes(c, "idle"), carried' = carried,
         \/ execStats' = [execStats EXCEPT !.failed = @ + 1]
         \/ execStats' = [execStats EXCEPT !.simulated = @ + 1]
  PROVE  ExecutionsInv'
<1>1. Executing \in SUBSET Callers /\ c \in Callers
  BY DEF Executing
<1>2. Executing' = Executing \ {c}
  BY <1>1, ExecutingChanges
<1>3. Cardinality(Executing') = Cardinality(Executing) - 1 /\ Cardinality(Executing) \in Nat
  BY <1>1, <1>2, CallersCount
<1>4. execStats \in ExecutionStats
  BY DEF ExecutionsInv
<1>5. /\ execStats' \in ExecutionStats /\ execStats'.total = execStats.total
      /\ execStats'.failed + execStats'.simulated = execStats.failed + execStats.simulated + 1
  BY <1>4 DEF ExecutionStats
<1> QED
  BY <1>3, <1>4, <1>5 DEF ExecutionsInv, ExecutionsCounted, ExecutionStats

LEMMA NextExecutions ==
  ASSUME SwapInv, ExecutionsInv, SolanaNext
  PROVE  ExecutionsInv'
<1>1. /\ execStats \in ExecutionStats /\ carried \in Nat
      /\ execStats.total + carried
           = execStats.failed + execStats.simulated + Cardinality(Executing)
  BY DEF ExecutionsInv, ExecutionsCounted
<1>2. Executing \in SUBSET Callers
  BY DEF Executing
<1>3. ASSUME UNCHANGED <<execStats, carried, swap>> PROVE ExecutionsInv'
  BY <1>3, ExecutionsKept DEF Executing
\* A caller that executes nothing goes where nothing is executed.
<1>4. ASSUME NEW c \in Callers, c \notin Executing, UNCHANGED <<execStats, carried>>,
             NEW step \in {"idle", "estimating", "priced", "asking", "costing", "assembling"},
             Becomes(c, step)
      PROVE  ExecutionsInv'
  <2>1. Executing' = Executing \ {c}
    BY <1>4, ExecutingChanges
  <2> QED
    BY <1>4, <2>1, ExecutionsKept
<1>5. ASSUME NEW c \in Callers,
             \/ CalculateFee(c) \/ getFeeEstimate(c) \/ BuildSwapTransaction(c)
             \/ EstimateSwapCost(c) \/ QuoteAsked(c) \/ TransactionBuilt(c)
      PROVE  ExecutionsInv'
  <2>1. c \notin Executing /\ UNCHANGED <<execStats, carried>>
    BY <1>5 DEF CalculateFee, getFeeEstimate, BuildSwapTransaction, EstimateSwapCost,
                QuoteAsked, TransactionBuilt, Executing, InState
  <2>2. PICK step \in {"idle", "estimating", "priced", "asking", "costing", "assembling"} :
          Becomes(c, step)
    BY <1>5 DEF CalculateFee, getFeeEstimate, BuildSwapTransaction, EstimateSwapCost,
                QuoteAsked, TransactionBuilt
  <2> QED
    BY <1>4, <2>1, <2>2
<1>6. ASSUME NEW c \in Callers, ExecuteSwap(c) PROVE ExecutionsInv'
  <2>1. c \in Callers \ Executing /\ carried' = carried
    BY <1>6 DEF ExecuteSwap, InState, Executing
  <2>2. Executing' = Executing \cup {c}
    BY <1>6, ExecutingChanges DEF ExecuteSwap
  <2>3. Cardinality(Executing') = Cardinality(Executing) + 1 /\ Cardinality(Executing) \in Nat
    BY <1>2, <2>1, <2>2, CallersCount
  <2>4. execStats' = [execStats EXCEPT !.total = @ + 1]
    BY <1>6 DEF ExecuteSwap
  <2>5. /\ execStats' \in ExecutionStats /\ execStats'.total = execStats.total + 1
        /\ execStats'.failed = execStats.failed /\ execStats'.simulated = execStats.simulated
    BY <1>1, <2>4 DEF ExecutionStats
  <2> QED
    BY <1>1, <2>1, <2>3, <2>5 DEF ExecutionsInv, ExecutionsCounted, ExecutionStats
<1>7. ASSUME NEW c \in Callers, c \in Executing, Abandon(c), carried' = carried
      PROVE  ExecutionsInv'
  BY <1>7, ExecutionEnds DEF Abandon, ExecutionFails
<1>8. ASSUME NEW c \in Callers, QuoteSwap(c) PROVE ExecutionsInv'
  <2>1. c \in Executing /\ carried' = carried
    BY <1>8 DEF QuoteSwap, Executing, InState
  <2>2. CASE ~Abandon(c)
    <3>1. Becomes(c, "building") /\ execStats' = execStats
      BY <1>8, <2>2 DEF QuoteSwap
    <3>2. Executing' = Executing \cup {c}
      BY <3>1, ExecutingChanges
    <3> QED
      BY <2>1, <3>1, <3>2, ExecutionsKept
  <2> QED
    BY <1>7, <2>1, <2>2
<1>9. ASSUME NEW c \in Callers, GetSwapTransaction(c) PROVE ExecutionsInv'
  <2>1. c \in Executing /\ carried' = carried
    BY <1>9 DEF GetSwapTransaction, Executing, InState
  <2>2. CASE ~Abandon(c)
    BY <1>9, <2>1, <2>2, ExecutionEnds DEF GetSwapTransaction
  <2> QED
    BY <1>7, <2>1, <2>2
<1>10. ASSUME NEW c \in Callers, SolanaCall(c) PROVE ExecutionsInv'
  BY <1>3, <1>5, <1>8, <1>9, <1>10 DEF SolanaCall, Attempt, solanaVars
<1>11. CASE ResetStats
  <2>1. /\ execStats' = NoStats /\ carried' = Cardinality(Executing)
        /\ Executing' = Executing
    BY <1>11 DEF ResetStats, Executing
  <2>2. Cardinality(Executing) \in Nat
    BY <1>2, CallersCount
  <2> QED
    BY <2>1, <2>2 DEF ExecutionsInv, ExecutionsCounted, ExecutionStats, NoStats
<1> QED
  BY <1>5, <1>6, <1>10, <1>11 DEF SolanaNext

\* Whatever the relays and the servers answer, whoever gives up and whenever the
\* statistics are reset, what has begun is counted as ended, once, or under way
\* (recordProtected, recordFailure, ExecuteSwap, ResetStats).
THEOREM OutcomesAreCounted == Spec => []OutcomesCounted
<1> DEFINE Inv == PricesInv /\ TradeInv /\ SwapInv /\ ProtectionsInv /\ ExecutionsInv
<1>1. Init => SwapInv /\ ProtectionsInv /\ ExecutionsInv
  <2> SUFFICES ASSUME Init PROVE SwapInv /\ ProtectionsInv /\ ExecutionsInv
    OBVIOUS
  <2>1. swap = [c \in Callers |-> "idle"]
    BY DEF Init, SolanaInit
  <2>2. SwapInv
    BY <2>1 DEF SwapInv
  <2>3. {c \in Callers : At(c, "protecting")} = {}
    BY DEF Init, BaseInit, NoTrade, At
  <2>4. ProtectionsInv
    <3>1. stats = [begun |-> 0, total |-> 0, flashbots |-> 0, merkle |-> 0, failed |-> 0]
      BY DEF Init, BaseInit
    <3>2. Cardinality({c \in Callers : At(c, "protecting")}) = 0
      BY <2>3, FS_EmptySet
    <3> QED
      BY <3>1, <3>2 DEF ProtectionsInv, ProtectionStats, ProtectionsCounted
  <2>5. Executing = {}
    BY <2>1 DEF Executing
  <2>6. ExecutionsInv
    BY <2>5, FS_EmptySet
       DEF Init, SolanaInit, NoStats, ExecutionsInv, ExecutionStats, ExecutionsCounted
  <2> QED
    BY <2>2, <2>4, <2>6
<1>2. Inv /\ [Next]_vars => Inv'
  <2> SUFFICES ASSUME Inv, [Next]_vars PROVE ProtectionsInv' /\ ExecutionsInv'
    BY NextPrices, NextTrade, NextSwap
  <2>1. ASSUME UNCHANGED baseVars PROVE ProtectionsInv'
    BY <2>1, ProtectionsKept DEF baseVars, Protecting, At
  <2>2. ASSUME UNCHANGED solanaVars PROVE ExecutionsInv'
    BY <2>2, ExecutionsKept DEF solanaVars, Executing
  <2> QED
    BY <2>1, <2>2, NextProtections, NextExecutions DEF Next, Cancel, vars
<1>3. Inv => OutcomesCounted
  BY DEF ProtectionsInv, ExecutionsInv, OutcomesCounted
<1> QED
  BY InitTrade, <1>1, <1>2, <1>3, PTL DEF Spec

=============================================================================
