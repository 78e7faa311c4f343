--------------------------- MODULE MevProtection ---------------------------
(***************************************************************************)
(* internal/trader/mev.go: ProtectTransaction sends a transaction to the   *)
(* relay of the provider.  One http.Request is made before the retries and *)
(* used by every attempt: net/http has read its body to the end once it    *)
(* has been sent, and refuses to send it again with none left.             *)
(***************************************************************************)
EXTENDS BaseTrader

ShouldProtect(size) == provider = "auto" => size >= MinTradeSize

GetProvider(size) ==
  IF provider # "auto" THEN provider ELSE IF size >= MinTradeSize THEN "flashbots" ELSE "merkle"

ProtectTransaction(c) ==
  /\ trade[c].at \in {"built", "priced"}
  /\ IF ShouldProtect(Size[c])
     THEN /\ Moves(c, "protecting")
          /\ RetryBegins(c)
          /\ relay' = [relay EXCEPT ![c] = NoRequest]
          /\ stats' = [stats EXCEPT !.begun = @ + 1]
     ELSE Moves(c, "public") /\ UNCHANGED <<call, relay, stats>>
  /\ UNCHANGED <<provider, updates, replaced, tracker, nonce, pendingTxs, cancelled>>

Trying(c) ==
  /\ At(c, "protecting") /\ call[c].at = "trying"
  /\ UNCHANGED <<provider, updates, replaced, tracker, nonce, pendingTxs, trade, stats, cancelled>>

\* Before anything was sent: only a timeout, or the context, is retryable.
SendFails(c) ==
  /\ Trying(c) /\ ~relay[c].sent
  /\ \E isRetryableHTTP \in BOOLEAN : AttemptFails(c, isRetryableHTTP)
  /\ UNCHANGED relay

\* The body has been sent, and the relay may have got all of it.
Send(c) ==
  /\ Trying(c) /\ ~relay[c].sent /\ c \notin cancelled
  /\ \E got \in {0, 1} :
       /\ relay' = [relay EXCEPT ![c] = [sent |-> TRUE, received |-> @.received + got]]
       /\ \/ got = 1 /\ Ends(c, "succeeded")
          \/ \E isRetryableHTTP \in BOOLEAN : AttemptFails(c, isRetryableHTTP)

\* Mutant: every attempt sends the body.
SendNothing_Rewinds(c) ==
  /\ Trying(c) /\ relay[c].sent
  /\ \E got \in {0, 1} :
       /\ relay' = [relay EXCEPT ![c].received = @ + got]
       /\ \/ got = 1 /\ Ends(c, "succeeded")
          \/ \E isRetryableHTTP \in BOOLEAN : AttemptFails(c, isRetryableHTTP)

\* "http: ContentLength=... with Body length 0"
SendNothing(c) ==
  /\ Trying(c) /\ relay[c].sent
  /\ AttemptFails(c, FALSE)
  /\ UNCHANGED relay

\* Mutant: an answer that is an error is not counted.
recordFailure_OnlyUnanswered(c) ==
  [stats EXCEPT !.failed = IF call[c].at = "failed" THEN @ + 1 ELSE @]

recordFailure(c) == [stats EXCEPT !.failed = @ + 1]

recordProtected(c) ==
  IF GetProvider(Size[c]) = "flashbots"
  THEN [stats EXCEPT !.total = @ + 1, !.flashbots = @ + 1]
  ELSE [stats EXCEPT !.total = @ + 1, !.merkle = @ + 1]

\* The answer is a success, or a status or a body that says otherwise.
Answered(c) ==
  /\ At(c, "protecting") /\ call[c].at \in {"succeeded", "failed"}
  /\ \E result \in {"protected", "failed"} :
       /\ result = "protected" => call[c].at = "succeeded"
       /\ Moves(c, result)
       /\ stats' = IF result = "failed" THEN recordFailure(c) ELSE recordProtected(c)
       /\ relay' = IF result = "failed" THEN [relay EXCEPT ![c] = NoRequest] ELSE relay
  /\ Returns(c)
  /\ UNCHANGED <<provider, updates, replaced, tracker, nonce, pendingTxs>>

---------------------------------------------------------------------------
(* Specification *)

\* The steps of a call that is under way.
BaseCall(c) ==
  \/ QuoteAttempt(c) \/ Quoted(c)
  \/ SendFails(c) \/ Send(c) \/ SendNothing(c) \/ Answered(c)
  \/ UNCHANGED baseVars /\ UNCHANGED cancelled /\ (Again(c) \/ RetryCanceled(c))

BaseNext ==
  \/ \E baseFee \in BaseFees : UpdatePricesStep(baseFee)
  \/ \E c \in Callers :
       \/ GetQuote(c)
       \/ GetNextNonce(c)
       \/ \E source \in Sources[c] : Build(c, source)
       \/ Replace(c) \/ RemovePendingTransaction(c)
       \/ \E strategy \in Strategies : ProtectFees(c, strategy)
       \/ ProtectTransaction(c)
       \/ BaseCall(c)

---------------------------------------------------------------------------
(* Properties *)

Numbered(c) == trade[c].at \notin {"idle", "quoting", "quoted", "done"}

\* The transactions of two callers never have the same nonce, and the one tracked
\* under a nonce is not another caller's (GetNextNonce, BuildSpeedupTransaction).
NoncesDistinct ==
  /\ \A c, d \in Callers : c # d /\ Numbered(c) /\ Numbered(d)
                             => trade[c].tx.nonce # trade[d].tx.nonce
  /\ \A n \in DOMAIN pendingTxs : pendingTxs[n].nonce = n /\ n < nonce

\* How the limits of the estimator and of the builder stand to one another by default.
\* They are configured apart, and nothing compares them.
LimitsInOrder ==
  /\ MinPriorityFee > 0 /\ MaxPriorityFee > 0
  /\ BuilderMaxPriorityFee <= MaxFeePerGas /\ BuilderMaxPriorityFee <= BuilderMaxFee

\* Limits in that order let every transaction pay its tip: whichever of the estimator,
\* the builder and the relay's builder priced it, for whatever base fee and whether it
\* is new or a replacement, its fee cap is not below its tip, which a node would refuse
\* (BuildTransaction, GetSuggestedGasPriceForCongestion, BuildMevProtectedTx).
TipsCovered ==
  LimitsInOrder =>
    \A tx \in {trade[c].tx : c \in {d \in Callers : Numbered(d)}}
              \cup {pendingTxs[n] : n \in DOMAIN pendingTxs} : tx.tip <= tx.cap

\* However often a protection is retried, the relay gets its transaction once at
\* the most, and has got it when the protection is reported (protectWithFlashbots).
RelayedOnce ==
  \A c \in Callers : /\ relay[c].received <= 1
                     /\ At(c, "protected") => relay[c].received = 1

\* Every protection that has ended is counted once, as failed or for its provider.
ProtectionsCounted ==
  /\ stats.total = stats.flashbots + stats.merkle
  /\ stats.begun = stats.total + stats.failed + Cardinality({c \in Callers : At(c, "protecting")})

=============================================================================
