---------------------------- MODULE SolanaTrader ----------------------------
(***************************************************************************)
(* internal/trader on Solana: fees.go asks what priority fee to pay,       *)
(* executor.go gets a quote and a transaction from jupiter.go.  Nothing in *)
(* the repository calls them yet: a caller here asks for a fee, and with   *)
(* it executes a swap, only builds its transaction, or estimates its cost. *)
(* The Helius and Jupiter servers are the environment's.                   *)
(*                                                                         *)
(* How much a fee is decides nothing of what happens here, and is left     *)
(* out with the multiplier, the history and the limits it is made from.    *)
(***************************************************************************)
EXTENDS Retry

CONSTANTS
  Impacts,          \* quote.PriceImpactPct, Unparsed when it is none
  Unparsed,
  Keys,             \* whether there may be an API key
  MaxExecutions     \* bound: executions counted between two resets

ASSUME SwapSizes == MaxExecutions \in Nat /\ Keys \subseteq BOOLEAN

VARIABLES
  apiKey,     \* f.apiKey is not empty
  swap,       \* [Callers -> where the caller is]
  execStats,  \* e.stats
  carried     \* history: executions under way when the statistics were last reset

solanaVars == <<apiKey, swap, execStats, carried>>

NoStats == [total |-> 0, failed |-> 0, simulated |-> 0]

SolanaInit ==
  /\ apiKey \in Keys
  /\ swap = [c \in Callers |-> "idle"]
  /\ execStats = NoStats /\ carried = 0

InState(c, step) == swap[c] = step
Becomes(c, step) == swap' = [swap EXCEPT ![c] = step]

---------------------------------------------------------------------------
(* FeeCalculator *)

\* Without a key the fallback is at hand.
CalculateFee(c) ==
  /\ InState(c, "idle")
  /\ IF apiKey THEN RetryBegins(c) /\ Becomes(c, "estimating")
               ELSE Becomes(c, "priced") /\ UNCHANGED call
  /\ UNCHANGED <<apiKey, execStats, carried, cancelled>>

\* Whatever has become of the request, there is a fee: of the answer, or the fallback.
getFeeEstimate(c) ==
  /\ InState(c, "estimating") /\ call[c].at \in {"succeeded", "failed"}
  /\ Becomes(c, "priced")
  /\ Returns(c)
  /\ UNCHANGED <<apiKey, execStats, carried>>

---------------------------------------------------------------------------
(* JupiterClient.  Its retries are given no context and take every error for a
   temporary one: they go on when the context is done, if only to fail.  The
   request for the swap is sent without the context too. *)

Attempt(c) ==
  /\ swap[c] \in {"estimating", "quoting", "building", "asking", "costing", "assembling"}
  /\ call[c].at = "trying"
  /\ \/ /\ c \in cancelled => swap[c] \in {"building", "assembling"}
        /\ Ends(c, "succeeded")
     \/ AttemptFails(c, TRUE)
  /\ UNCHANGED <<solanaVars, cancelled>>

\* An impact above ten percent is refused, one that is no number is not.
ValidateQuote(impact) == impact = Unparsed \/ impact <= 10

---------------------------------------------------------------------------
(* Executor *)

ExecuteSwap(c) ==
  /\ InState(c, "priced") /\ execStats.total + carried < MaxExecutions
  /\ execStats' = [execStats EXCEPT !.total = @ + 1]
  /\ Becomes(c, "quoting")
  /\ RetryBegins(c)
  /\ UNCHANGED <<apiKey, carried, cancelled>>

ExecutionFails == execStats' = [execStats EXCEPT !.failed = @ + 1]

Abandon(c) ==
  /\ ExecutionFails
  /\ Becomes(c, "idle")
  /\ Returns(c)

QuoteSwap(c) ==
  /\ InState(c, "quoting") /\ call[c].at \in {"succeeded", "failed"}
  /\ \/ call[c].at = "failed" /\ Abandon(c)
     \/ /\ call[c].at = "succeeded"
        /\ \E impact \in Impacts :
             IF ValidateQuote(impact)
             THEN /\ Becomes(c, "building")
                  /\ RetryBegins(c)
                  /\ UNCHANGED <<execStats, cancelled>>
             ELSE Abandon(c)
  /\ UNCHANGED <<apiKey, carried>>

\* A transaction that can be decoded is counted as simulated, and ExecuteSwap
\* returns an error that is counted as nothing.
GetSwapTransaction(c) ==
  /\ InState(c, "building") /\ call[c].at \in {"succeeded", "failed"}
  /\ \/ Abandon(c)
     \/ /\ call[c].at = "succeeded"
        /\ execStats' = [execStats EXCEPT !.simulated = @ + 1]
        /\ Becomes(c, "idle")
        /\ Returns(c)
  /\ UNCHANGED <<apiKey, carried>>

\* The swap is not executed, and counted as nothing.
BuildSwapTransaction(c) ==
  /\ InState(c, "priced")
  /\ Becomes(c, "asking")
  /\ RetryBegins(c)
  /\ UNCHANGED <<apiKey, execStats, carried, cancelled>>

\* Only what a quote says of the cost is asked for.
EstimateSwapCost(c) ==
  /\ InState(c, "priced")
  /\ Becomes(c, "costing")
  /\ RetryBegins(c)
  /\ UNCHANGED <<apiKey, execStats, carried, cancelled>>

\* Neither of the two validates the quote.
QuoteAsked(c) ==
  /\ call[c].at \in {"succeeded", "failed"}
  /\ \/ /\ InState(c, "asking") /\ call[c].at = "succeeded"
        /\ Becomes(c, "assembling")
        /\ RetryBegins(c)
        /\ UNCHANGED cancelled
     \/ /\ InState(c, "asking") /\ call[c].at = "failed"
        /\ Becomes(c, "idle")
        /\ Returns(c)
     \/ /\ InState(c, "costing")
        /\ Becomes(c, "priced")
        /\ Returns(c)
  /\ UNCHANGED <<apiKey, execStats, carried>>

TransactionBuilt(c) ==
  /\ InState(c, "assembling") /\ call[c].at \in {"succeeded", "failed"}
  /\ Becomes(c, "idle")
  /\ Returns(c)
  /\ UNCHANGED <<apiKey, execStats, carried>>

Executing == {c \in Callers : swap[c] \in {"quoting", "building"}}

\* Mutant: the total goes on.
ResetStats_KeepsTotal ==
  /\ execStats' = [NoStats EXCEPT !.total = execStats.total]
  /\ carried' = Cardinality(Executing)
  /\ UNCHANGED <<apiKey, swap, call, cancelled>>

ResetStats ==
  /\ execStats' = NoStats
  /\ carried' = Cardinality(Executing)
  /\ UNCHANGED <<apiKey, swap, call, cancelled>>

---------------------------------------------------------------------------
(* Specification *)

SolanaCall(c) ==
  \/ Attempt(c) \/ getFeeEstimate(c) \/ QuoteSwap(c) \/ GetSwapTransaction(c)
  \/ QuoteAsked(c) \/ TransactionBuilt(c)
  \/ Again(c) /\ UNCHANGED <<solanaVars, cancelled>>

SolanaNext ==
  \/ \E c \in Callers :
       CalculateFee(c) \/ ExecuteSwap(c) \/ BuildSwapTransaction(c) \/ EstimateSwapCost(c)
         \/ SolanaCall(c)
  \/ ResetStats

---------------------------------------------------------------------------
(* Properties *)

\* Executions that have ended are counted as failed or as simulated, once each,
\* also those that were under way when the statistics were reset, and a transaction
\* that is only built, or a cost that is only estimated, is counted as neither.
ExecutionsCounted ==
  execStats.total + carried
    = execStats.failed + execStats.simulated + Cardinality(Executing)

=============================================================================
