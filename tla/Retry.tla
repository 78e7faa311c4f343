------------------------------- MODULE Retry -------------------------------
(***************************************************************************)
(* pkg/util/retry.go: a request is tried again, after a delay, until it    *)
(* succeeds, fails for good, or has been tried often enough.  How long the *)
(* delays are is left out.  Every client below makes one request at a      *)
(* time for its caller.                                                    *)
(***************************************************************************)
EXTENDS Integers, FiniteSets

CONSTANTS
  Callers,     \* goroutines that call the traders
  MaxAttempts  \* RetryConfig.MaxAttempts

ASSUME TriesAtLeastOnce == MaxAttempts \in Nat \ {0} /\ IsFiniteSet(Callers)

VARIABLES
  call,      \* [Callers -> the request RetryWithContext is at]
  cancelled  \* the callers whose context is done

NoCall == [at |-> "idle", attempt |-> 0]

Begun == [at |-> "trying", attempt |-> 1]

RetryBegins(c) == call' = [call EXCEPT ![c] = Begun]

\* The call that made the request returns; the next has a context of its own.
Returns(c) ==
  /\ call' = [call EXCEPT ![c] = NoCall]
  /\ cancelled' = cancelled \ {c}

Ends(c, result) == call' = [call EXCEPT ![c].at = result]

\* The attempt has failed.  After the last one nobody waits.
AttemptFails(c, isRetryable) ==
  Ends(c, IF isRetryable /\ call[c].attempt < MaxAttempts THEN "waiting" ELSE "failed")

\* Mutant: the attempts are not counted.
Again_Uncounted(c) ==
  /\ call[c].at = "waiting"
  /\ call' = [call EXCEPT ![c].at = "trying"]

Again(c) ==
  /\ call[c].at = "waiting"
  /\ call' = [call EXCEPT ![c] = [at |-> "trying", attempt |-> @.attempt + 1]]

\* The wait is cut short by the context, if the retry was given one.
RetryCanceled(c) ==
  /\ call[c].at = "waiting" /\ c \in cancelled
  /\ Ends(c, "failed")

=============================================================================
