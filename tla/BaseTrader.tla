----------------------------- MODULE BaseTrader -----------------------------
(***************************************************************************)
(* internal/trader on Base: uniswap.go asks for a quote, gas.go prices the *)
(* transaction, evm.go numbers and builds it, mev.go hands it to a private *)
(* relay.  Nothing in the repository calls them yet: a caller here uses    *)
(* them in the order their tests do, and owns the transaction it tracks    *)
(* from its first build to its removal.  The aggregator, the relays and    *)
(* the headers of the chain are the environment's.                         *)
(*                                                                         *)
(* A transaction is its nonce and its two fees; its recipient, gas, data   *)
(* and signature are left out.                                             *)
(***************************************************************************)
EXTENDS Retry, GasPrices, Functions

CONSTANTS
  DefaultPriorityFee, \* b.defaultPriorityFee, 1 gwei where none is given
  BuilderMaxPriorityFee, \* b.maxPriorityFee, 50 gwei
  BuilderMaxFee,      \* b.defaultMaxFee, 100 gwei
  MevMaxPriorityFee,  \* m.config.MaxPriorityFee, 50 gwei
  LeastPriorityFee,   \* minPriority in EstimateMaxPriorityFee, 1 gwei
  RaisedBaseFee,      \* the base fee above which EstimateMaxPriorityFee doubles it, 30 gwei
  DefaultCap,         \* the 50 gwei BuildMevProtectedTx takes for the current fee cap
  BaseFees,           \* base fees of the headers
  Sources,            \* [Callers -> where they may have their prices from]
  Strategies,         \* PriorityFeeStrategy
  Size,               \* [Callers -> the size of their trade]
  MinTradeSize,
  Providers,          \* providers that may be configured
  Percents,           \* percentIncrease callers ask for
  FirstNonce,         \* the nonce SetNonce is given
  MaxUpdates,         \* bound: UpdatePrices
  MaxReplacements     \* bound: speedups and cancels

ASSUME TradeSizes == /\ {DefaultPriorityFee, BuilderMaxPriorityFee, BuilderMaxFee,
                         MevMaxPriorityFee, DefaultCap, MinTradeSize, FirstNonce,
                         RaisedBaseFee} \subseteq Nat
                     /\ LeastPriorityFee \in Nat \ {0}
                     /\ BaseFees \cup Percents \subseteq Nat /\ Size \in [Callers -> Nat]
                     /\ Sources \in [Callers -> SUBSET ({"suggested", "builder"}
                                                      \cup DOMAIN UrgencyMultiplier)]
                     /\ Providers \subseteq {"none", "flashbots", "merkle", "auto"}

VARIABLES
  provider,   \* m.config.Provider
  updates,    \* how often the prices were updated
  replaced,   \* how many transactions were replaced
  nonce,      \* b.nonce
  pendingTxs, \* b.pendingTxs
  trade,      \* [Callers -> where the caller is, and its transaction]
  relay,      \* [Callers -> what has become of the request it sends to the relay]
  stats       \* m.stats, and how many protections have been begun

baseVars == <<provider, updates, replaced, tracker, nonce, pendingTxs, trade, relay, stats>>

NoTx == [nonce |-> 0, tip |-> 0, cap |-> 0]
NoTrade == [at |-> "idle", tx |-> NoTx]
NoRequest == [sent |-> FALSE, received |-> 0]

\* NewMEVProtection takes "none" for a provider nobody has configured.
BaseInit ==
  /\ \E configured \in Providers : provider = IF configured = "none" THEN "auto"
                                                ELSE configured
  /\ TrackerInit /\ updates = 0 /\ replaced = 0
  /\ nonce = FirstNonce
  /\ pendingTxs = [n \in {} |-> NoTx]
  /\ trade = [c \in Callers |-> NoTrade]
  /\ relay = [c \in Callers |-> NoRequest]
  /\ stats = [begun |-> 0, total |-> 0, flashbots |-> 0, merkle |-> 0, failed |-> 0]

At(c, step) == trade[c].at = step
Moves(c, step) == trade' = [trade EXCEPT ![c].at = step]

---------------------------------------------------------------------------
(* The prices *)

UpdatePricesStep(baseFee) ==
  /\ updates < MaxUpdates /\ updates' = updates + 1
  /\ UpdatePrices(baseFee)
  /\ UNCHANGED <<provider, replaced, nonce, pendingTxs, trade, relay, stats, call, cancelled>>

\* The builder's own estimates.
EstimateMaxPriorityFee(baseFee) ==
  Capped(IF baseFee > RaisedBaseFee THEN 2 * LeastPriorityFee ELSE LeastPriorityFee,
         BuilderMaxPriorityFee)

CalculateMaxFeePerGas(baseFee, priorityFee) == Capped(baseFee + 2 * priorityFee, BuilderMaxFee)

BuilderPrice ==
  LET tip == EstimateMaxPriorityFee(tracker.baseFee)
  IN  [tip |-> tip, cap |-> CalculateMaxFeePerGas(tracker.baseFee, tip)]

Price(source) ==
  CASE source = "suggested" -> GetSuggestedGasPrice
    [] source = "builder" -> BuilderPrice
    [] OTHER -> GetSuggestedGasPriceForCongestion(source)

\* MEVProtection.CalculatePriorityFee: a multiple of the base fee itself.
StrategyMultiplier(strategy, congestion) ==
  CASE strategy = "conservative" -> 100 + congestion \div 2
    [] strategy = "standard" -> 150 + congestion
    [] strategy = "aggressive" -> 200 + 2 * congestion
    [] OTHER -> 150

CalculatePriorityFee(strategy) ==
  IF strategy = "max" THEN MevMaxPriorityFee
  ELSE Capped(Percent(tracker.baseFee, StrategyMultiplier(strategy, calculateCongestionLevel)),
              MevMaxPriorityFee)

---------------------------------------------------------------------------
(* UniswapClient.GetQuote: the aggregator, and after it the chain, which always fails *)

GetQuote(c) ==
  /\ At(c, "idle")
  /\ Moves(c, "quoting")
  /\ RetryBegins(c)
  /\ UNCHANGED <<provider, updates, replaced, tracker, nonce, pendingTxs, relay, stats, cancelled>>

\* A request without a body can be sent again.  Only a timeout is worth it.
QuoteAttempt(c) ==
  /\ At(c, "quoting") /\ call[c].at = "trying"
  /\ \/ c \notin cancelled /\ Ends(c, "succeeded")
     \/ \E timeout \in BOOLEAN : AttemptFails(c, timeout)
  /\ UNCHANGED <<baseVars, cancelled>>

\* An answer may not be a quote, and ValidateUniswapQuote may refuse it.
Quoted(c) ==
  /\ At(c, "quoting") /\ call[c].at \in {"succeeded", "failed"}
  /\ Moves(c, IF call[c].at = "failed" THEN "done" ELSE "quoted")
  /\ Returns(c)
  /\ UNCHANGED <<provider, updates, replaced, tracker, nonce, pendingTxs, relay, stats>>

---------------------------------------------------------------------------
(* TransactionBuilder *)

\* Mutant: the nonce is taken and not counted.
GetNextNonce_Keeps(c) ==
  /\ At(c, "quoted")
  /\ trade' = [trade EXCEPT ![c] = [at |-> "numbered", tx |-> [NoTx EXCEPT !.nonce = nonce]]]
  /\ UNCHANGED <<provider, updates, replaced, tracker, nonce, pendingTxs, relay, stats,
                 call, cancelled>>

GetNextNonce(c) ==
  /\ At(c, "quoted")
  /\ trade' = [trade EXCEPT ![c] = [at |-> "numbered", tx |-> [NoTx EXCEPT !.nonce = nonce]]]
  /\ nonce' = nonce + 1
  /\ UNCHANGED <<provider, updates, replaced, tracker, pendingTxs, relay, stats, call, cancelled>>

\* Mutant: the priority fee is not capped.
BuildTransaction_Uncapped(n, price) ==
  LET tip == IF price.tip = 0 THEN DefaultPriorityFee ELSE price.tip
      cap == IF price.cap = 0 THEN 2 * tip ELSE price.cap
  IN  [nonce |-> n, tip |-> tip, cap |-> Capped(cap, BuilderMaxFee)]

\* Zero stands for a fee that is not given.
BuildTransaction(n, price) ==
  LET tip == Capped(IF price.tip = 0 THEN DefaultPriorityFee ELSE price.tip,
                    BuilderMaxPriorityFee)
      cap == IF price.cap = 0 THEN 2 * tip ELSE price.cap
  IN  [nonce |-> n, tip |-> tip, cap |-> Capped(cap, BuilderMaxFee)]

TrackPendingTransaction(tx) ==
  pendingTxs' = [n \in DOMAIN pendingTxs \cup {tx.nonce} |->
                   IF n = tx.nonce THEN tx ELSE pendingTxs[n]]

Build(c, source) ==
  LET tx == BuildTransaction(trade[c].tx.nonce, Price(source)) IN
  /\ At(c, "numbered")
  /\ trade' = [trade EXCEPT ![c] = [at |-> "built", tx |-> tx]]
  /\ TrackPendingTransaction(tx)
  /\ UNCHANGED <<provider, updates, replaced, tracker, nonce, relay, stats, call, cancelled>>

\* extractDynamicFeeTx leaves both fees to its caller, who raises two zeros.
extractDynamicFeeTx(tx) == [tip |-> 0, cap |-> 0]

Raised(price, percent) ==
  [tip |-> Percent(price.tip, 100 + percent), cap |-> Percent(price.cap, 100 + percent)]

\* Zero stands for ten percent, and five is the least.
ReplacementPercent(percent) == IF percent = 0 THEN 10 ELSE IF percent < 5 THEN 5 ELSE percent

BuildSpeedupTransaction(tx, percent) ==
  BuildTransaction(tx.nonce, Raised(extractDynamicFeeTx(tx), ReplacementPercent(percent)))

BuildCancelTransaction(tx) ==
  BuildTransaction(tx.nonce, Raised(extractDynamicFeeTx(tx), 10))

\* What GetPendingTransaction finds under the trade's nonce is replaced.
Replace(c) ==
  /\ trade[c].at \in {"public", "protected", "failed"}
  /\ replaced < MaxReplacements /\ replaced' = replaced + 1
  /\ trade[c].tx.nonce \in DOMAIN pendingTxs
  /\ LET old == pendingTxs[trade[c].tx.nonce]
     IN  \E tx \in {BuildCancelTransaction(old)}
                   \cup {BuildSpeedupTransaction(old, p) : p \in Percents} :
           /\ trade' = [trade EXCEPT ![c] = [at |-> "built", tx |-> tx]]
           /\ TrackPendingTransaction(tx)
  /\ UNCHANGED <<provider, updates, tracker, nonce, relay, stats, call, cancelled>>

\* Its fee cap has nothing to do with the transaction's, and no limit.
BuildMevProtectedTx(tx, priorityFee) ==
  [nonce |-> tx.nonce, tip |-> priorityFee, cap |-> DefaultCap + priorityFee]

ProtectFees(c, strategy) ==
  /\ At(c, "built")
  /\ LET tx == BuildMevProtectedTx(trade[c].tx, CalculatePriorityFee(strategy))
     IN  trade' = [trade EXCEPT ![c] = [at |-> "priced", tx |-> tx]]
  /\ UNCHANGED <<provider, updates, replaced, tracker, nonce, pendingTxs, relay, stats,
                 call, cancelled>>

RemovePendingTransaction(c) ==
  /\ trade[c].at \in {"public", "protected", "failed"}
  /\ pendingTxs' = Restrict(pendingTxs, DOMAIN pendingTxs \ {trade[c].tx.nonce})
  /\ trade' = [trade EXCEPT ![c] = [at |-> "done", tx |-> NoTx]]
  /\ relay' = [relay EXCEPT ![c] = NoRequest]
  /\ UNCHANGED <<provider, updates, replaced, tracker, nonce, stats, call, cancelled>>

=============================================================================
