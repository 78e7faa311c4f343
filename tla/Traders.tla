------------------------------ MODULE Traders ------------------------------
(***************************************************************************)
(* internal/trader: the traders of the two chains, which share nothing but *)
(* the way they retry.  A behaviour shows one of them: chain says which.   *)
(***************************************************************************)
EXTENDS MevProtection, SolanaTrader

VARIABLE chain

vars == <<chain, call, cancelled, baseVars, solanaVars>>

Init ==
  /\ chain \in {"base", "solana"}
  /\ call = [c \in Callers |-> NoCall]
  /\ cancelled = {}
  /\ BaseInit /\ SolanaInit
  \* The configuration of the other chain's trader makes no difference.
  /\ IF chain = "base" THEN apiKey ELSE provider = "auto"

Busy(c) == call[c].at \in {"trying", "waiting"}

\* A caller gives up while a request is under way.
Cancel(c) ==
  /\ Busy(c) /\ c \notin cancelled
  /\ cancelled' = cancelled \cup {c}
  /\ UNCHANGED <<chain, call, baseVars, solanaVars>>

BaseCallStep(c) == chain = "base" /\ BaseCall(c) /\ UNCHANGED <<chain, solanaVars>>
SolanaCallStep(c) == chain = "solana" /\ SolanaCall(c) /\ UNCHANGED <<chain, baseVars>>

Next ==
  \/ chain = "base" /\ BaseNext /\ UNCHANGED <<chain, solanaVars>>
  \/ chain = "solana" /\ SolanaNext /\ UNCHANGED <<chain, baseVars>>
  \/ \E c \in Callers : Cancel(c)

\* Every attempt ends, by the timeout of its client, and so does every wait.
Fairness == \A c \in Callers : WF_vars(BaseCallStep(c) \/ SolanaCallStep(c))

Spec == Init /\ [][Next]_vars /\ Fairness

---------------------------------------------------------------------------
(* Properties *)

\* What ends is counted once, with its outcome: protections by their provider or as
\* failed, and executions as simulated or failed, also those under way when the
\* statistics are reset (recordProtected, recordFailure, ExecuteSwap, ResetStats).
OutcomesCounted == ProtectionsCounted /\ ExecutionsCounted

Calling(c) == \/ trade[c].at \in {"quoting", "protecting"}
              \/ swap[c] \in {"estimating", "quoting", "building",
                             "asking", "costing", "assembling"}

\* A call that makes requests returns, whatever the servers answer and whether or
\* not its retries are given a context (RetryWithContext, ExecuteSwap).
CallsReturn == \A c \in Callers : Calling(c) ~> ~Calling(c)

=============================================================================
