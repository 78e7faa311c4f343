------------------------------ MODULE RpcPool ------------------------------
(***************************************************************************)
(* pkg/rpc/pool.go: a pool of endpoints that requests are spread over, and *)
(* that a ticker has checked.  A failed request or check makes its         *)
(* endpoint unhealthy, and only a check that succeeds, or a call of        *)
(* MarkEndpointHealthy, makes it healthy again.  Every check is a          *)
(* goroutine nobody waits for: one that is late ends after the next has    *)
(* begun, and after Close.  The counters of an endpoint are atomic, its    *)
(* status and its average are under its lock, and the pool's own lock is   *)
(* held for one step at a time.  Whether a node answers is the             *)
(* environment's, and so is how long it takes.  A node is up when it       *)
(* answers a check in time and with a status below 500; what becomes of a  *)
(* request says nothing of that: its context may end before a node that is *)
(* up has answered, and status 500 is no error of a request.  A chain      *)
(* whose checks always fail, neither Solana nor an EVM one, is left out.   *)
(***************************************************************************)
EXTENDS Integers, FiniteSets

CONSTANTS
  Endpoints,    \* the endpoints configured
  Requests,     \* goroutines in Do
  Checks,       \* bound: checks of one endpoint that overlap
  Latencies,    \* how long an answer may take
  MaxSelected,  \* bound: selections of one endpoint
  MaxOutages    \* bound: how often nodes come and go

ASSUME PoolSizes == /\ Endpoints # {}
                    /\ Latencies \subseteq Nat /\ Latencies # {}
                    /\ {MaxSelected, MaxOutages} \subseteq Nat

VARIABLES
  up,            \* the nodes that answer their checks
  outages,       \* how often nodes have come or gone
  endpoints,     \* p.endpoints, emptied by Close
  status,        \* [Endpoints -> Status]
  RequestCount,  \* [Endpoints -> RequestCount]
  ErrorCount,    \* [Endpoints -> ErrorCount]
  AvgLatency,    \* [Endpoints -> AvgLatency]
  locked,        \* the endpoints whose lock is held from one step to the next
  request,       \* [Requests -> where Do is, and what it has read]
  check,         \* [Endpoints -> [Checks -> where checkEndpointHealth is]]
  closing        \* where Close is; the ticker's goroutine ends in between

counters == <<RequestCount, ErrorCount, AvgLatency>>
nodes == <<up, outages>>
poolVars == <<nodes, endpoints, status, counters, locked, request, check, closing>>

NoRequest == [at |-> "idle", endpoint |-> CHOOSE e \in Endpoints : TRUE, failed |-> FALSE,
              latency |-> 0, sum |-> 0]
NoCheck == [at |-> "idle", healthy |-> FALSE, errors |-> 0]

PoolTypeOK ==
  /\ up \subseteq Endpoints /\ endpoints \subseteq Endpoints /\ locked \subseteq Endpoints
  /\ status \in [Endpoints -> {"healthy", "unhealthy"}]
  /\ {RequestCount, ErrorCount, AvgLatency} \subseteq [Endpoints -> Nat]
  /\ request \in [Requests ->
       [at : {"idle", "sent", "answered", "dividing", "counting", "failing"},
        endpoint : Endpoints, failed : BOOLEAN, latency : Nat, sum : Nat]]
  /\ check \in [Endpoints -> [Checks ->
       [at : {"idle", "asking", "answered", "resetting"}, healthy : BOOLEAN, errors : Nat]]]
  /\ closing \in {"open", "waiting", "closed"}

\* NewPool.  An endpoint is healthy until it is found not to be.
PoolInit ==
  /\ up \in SUBSET Endpoints /\ outages = 0
  /\ endpoints = Endpoints
  /\ status = [e \in Endpoints |-> "healthy"]
  /\ RequestCount = [e \in Endpoints |-> 0]
  /\ ErrorCount = [e \in Endpoints |-> 0]
  /\ AvgLatency = [e \in Endpoints |-> 0]
  /\ locked = {}
  /\ request = [r \in Requests |-> NoRequest]
  /\ check = [e \in Endpoints |-> [c \in Checks |-> NoCheck]]
  /\ closing = "open"

ComesOrGoes(e) ==
  /\ outages < MaxOutages /\ outages' = outages + 1
  /\ up' = IF e \in up THEN up \ {e} ELSE up \cup {e}
  /\ UNCHANGED <<endpoints, status, counters, locked, request, check, closing>>

---------------------------------------------------------------------------
(* Do *)

\* GetEndpoint: any healthy endpoint, by its weight.  Without one it returns the
\* first, but with an error, which every caller takes for a refusal.
GetEndpoint(r, e) ==
  /\ request[r].at = "idle"
  /\ e \in endpoints /\ status[e] = "healthy"
  /\ RequestCount[e] < MaxSelected
  /\ RequestCount' = [RequestCount EXCEPT ![e] = @ + 1]
  /\ request' = [request EXCEPT ![r] = [NoRequest EXCEPT !.at = "sent", !.endpoint = e]]
  /\ UNCHANGED <<nodes, endpoints, status, ErrorCount, AvgLatency, locked, check, closing>>

\* Or no answer: every error makes the endpoint unhealthy, also the caller's own.
Answer(r, latency, failed) ==
  /\ request[r].at = "sent"
  /\ request' = [request EXCEPT ![r].at = "answered", ![r].latency = latency,
                                ![r].failed = failed]
  /\ UNCHANGED <<nodes, endpoints, status, counters, locked, check, closing>>

\* Mutant: the request itself is among those the average stands for.
SumLatency_All(r) ==
  LET e == request[r].endpoint IN
  /\ request[r].at = "answered" /\ e \notin locked
  /\ locked' = locked \cup {e}
  /\ request' = [request EXCEPT ![r].at = "dividing", ![r].sum =
                   AvgLatency[e] * RequestCount[e] + request[r].latency]
  /\ UNCHANGED <<nodes, endpoints, status, counters, check, closing>>

\* RequestCount is read once for the sum and once more for the division.
SumLatency(r) ==
  LET e == request[r].endpoint IN
  /\ request[r].at = "answered" /\ e \notin locked
  /\ locked' = locked \cup {e}
  /\ request' = [request EXCEPT ![r].at = "dividing", ![r].sum =
                   AvgLatency[e] * (RequestCount[e] - 1) + request[r].latency]
  /\ UNCHANGED <<nodes, endpoints, status, counters, check, closing>>

UpdateLatency(r) ==
  LET e == request[r].endpoint IN
  /\ request[r].at = "dividing"
  /\ AvgLatency' = [AvgLatency EXCEPT ![e] = request[r].sum \div RequestCount[e]]
  /\ locked' = locked \ {e}
  /\ request' = [request EXCEPT ![r] = IF @.failed THEN [@ EXCEPT !.at = "counting"]
                                       ELSE NoRequest]
  /\ UNCHANGED <<nodes, endpoints, status, RequestCount, ErrorCount, check, closing>>

CountError(r) ==
  /\ request[r].at = "counting"
  /\ ErrorCount' = [ErrorCount EXCEPT ![request[r].endpoint] = @ + 1]
  /\ request' = [request EXCEPT ![r].at = "failing"]
  /\ UNCHANGED <<nodes, endpoints, status, RequestCount, AvgLatency, locked, check, closing>>

\* updateEndpointHealth(endpoint, false)
RequestFails(r) ==
  LET e == request[r].endpoint IN
  /\ request[r].at = "failing" /\ e \notin locked
  /\ status' = [status EXCEPT ![e] = "unhealthy"]
  /\ request' = [request EXCEPT ![r] = NoRequest]
  /\ UNCHANGED <<nodes, endpoints, counters, locked, check, closing>>

---------------------------------------------------------------------------
(* Health checks *)

\* Mutant: only the endpoints that are healthy are checked.
runHealthChecks_Healthy ==
  /\ closing # "closed" /\ endpoints # {}
  /\ \A e \in endpoints : \E c \in Checks : check[e][c].at = "idle"
  /\ LET slot(e) == CHOOSE c \in Checks : check[e][c].at = "idle"
     IN  check' = [e \in Endpoints |-> [c \in Checks |->
                     IF e \in endpoints /\ c = slot(e) /\ status[e] = "healthy"
                     THEN [NoCheck EXCEPT !.at = "asking"] ELSE check[e][c]]]
  /\ UNCHANGED <<nodes, endpoints, status, counters, locked, request, closing>>

\* The ticker's goroutine starts a check of every endpoint.
runHealthChecks ==
  /\ closing # "closed" /\ endpoints # {}
  /\ \A e \in endpoints : \E c \in Checks : check[e][c].at = "idle"
  /\ LET slot(e) == CHOOSE c \in Checks : check[e][c].at = "idle"
     IN  check' = [e \in Endpoints |-> [c \in Checks |->
                     IF e \in endpoints /\ c = slot(e)
                     THEN [NoCheck EXCEPT !.at = "asking"] ELSE check[e][c]]]
  /\ UNCHANGED <<nodes, endpoints, status, counters, locked, request, closing>>

\* The answer, or the timeout of ten seconds.
CheckAnswer(e, c) ==
  /\ check[e][c].at = "asking"
  /\ check' = [check EXCEPT ![e][c].at = "answered", ![e][c].healthy = e \in up]
  /\ UNCHANGED <<nodes, endpoints, status, counters, locked, request, closing>>

\* Mutant: the check updates the endpoint without its lock.
checkEndpointHealth_Unlocked(e, c) ==
  /\ check[e][c].at = "answered"
  /\ status' = [status EXCEPT ![e] = IF check[e][c].healthy THEN "healthy" ELSE "unhealthy"]
  /\ check' = [check EXCEPT ![e][c] =
                 IF @.healthy THEN [@ EXCEPT !.at = "resetting", !.errors = ErrorCount[e]]
                 ELSE NoCheck]
  /\ UNCHANGED <<nodes, endpoints, counters, locked, request, closing>>

\* Mutant: a check that fails leaves the endpoint as it is.
checkEndpointHealth_Lenient(e, c) ==
  /\ check[e][c].at = "answered" /\ e \notin locked
  /\ status' = [status EXCEPT ![e] = IF check[e][c].healthy THEN "healthy" ELSE @]
  /\ check' = [check EXCEPT ![e][c] =
                 IF @.healthy THEN [@ EXCEPT !.at = "resetting", !.errors = ErrorCount[e]]
                 ELSE NoCheck]
  /\ locked' = IF check[e][c].healthy THEN locked \cup {e} ELSE locked
  /\ UNCHANGED <<nodes, endpoints, counters, request, closing>>

\* updateEndpointHealth: the number of errors is read, and then taken off it.
checkEndpointHealth(e, c) ==
  /\ check[e][c].at = "answered" /\ e \notin locked
  /\ status' = [status EXCEPT ![e] = IF check[e][c].healthy THEN "healthy" ELSE "unhealthy"]
  /\ check' = [check EXCEPT ![e][c] =
                 IF @.healthy THEN [@ EXCEPT !.at = "resetting", !.errors = ErrorCount[e]]
                 ELSE NoCheck]
  /\ locked' = IF check[e][c].healthy THEN locked \cup {e} ELSE locked
  /\ UNCHANGED <<nodes, endpoints, counters, request, closing>>

ResetErrors(e, c) ==
  /\ check[e][c].at = "resetting"
  /\ ErrorCount' = [ErrorCount EXCEPT ![e] = @ - check[e][c].errors]
  /\ check' = [check EXCEPT ![e][c] = NoCheck]
  /\ locked' = locked \ {e}
  /\ UNCHANGED <<nodes, endpoints, status, RequestCount, AvgLatency, request, closing>>

---------------------------------------------------------------------------
(* The owner *)

\* MarkEndpointUnhealthy and MarkEndpointHealthy
MarkEndpoint(e, mark) ==
  /\ e \in endpoints \ locked
  /\ status[e] # mark /\ outages < MaxOutages /\ outages' = outages + 1
  /\ status' = [status EXCEPT ![e] = mark]
  /\ UNCHANGED <<up, endpoints, counters, locked, request, check, closing>>

\* Close stops the ticker, waits for its goroutine and forgets the endpoints; the
\* requests and the checks under way keep theirs.
Close ==
  \/ closing = "open" /\ closing' = "waiting" /\ UNCHANGED endpoints
  \/ closing = "waiting" /\ closing' = "closed" /\ endpoints' = {}

CloseStep == Close /\ UNCHANGED <<nodes, status, counters, locked, request, check>>

Do(r) == \/ \E latency \in Latencies, failed \in BOOLEAN : Answer(r, latency, failed)
         \/ SumLatency(r) \/ UpdateLatency(r) \/ CountError(r) \/ RequestFails(r)

Check(e, c) == CheckAnswer(e, c) \/ checkEndpointHealth(e, c) \/ ResetErrors(e, c)

PoolNext ==
  \/ \E e \in Endpoints : ComesOrGoes(e)
  \/ \E r \in Requests : Do(r) \/ \E e \in Endpoints : GetEndpoint(r, e)
  \/ runHealthChecks
  \/ \E e \in Endpoints, c \in Checks : Check(e, c)
  \/ \E e \in Endpoints, mark \in {"healthy", "unhealthy"} : MarkEndpoint(e, mark)
  \/ CloseStep

\* Requests and checks end, by their timeouts, and the ticker ticks.  The lock of
\* an endpoint is handed on to whoever waits for it.
PoolFairness ==
  /\ \A r \in Requests : SF_poolVars(Do(r))
  /\ WF_poolVars(runHealthChecks)
  /\ \A e \in Endpoints, c \in Checks : SF_poolVars(Check(e, c))

PoolSpec == PoolInit /\ [][PoolNext]_poolVars /\ PoolFairness

---------------------------------------------------------------------------
(* Properties *)

\* Requests count errors while checks reset them, and take and return the latency
\* while others are counted: no error is taken off twice, and the average, which is
\* divided by a count that is read a second time, is never above the longest
\* latency (updateEndpointHealth, Do).
CountersAgree ==
  \A e \in Endpoints : /\ ErrorCount[e] >= 0
                       /\ \E latency \in Latencies : AvgLatency[e] <= latency

\* An endpoint whose node has come back is given to requests again, however late
\* the failures of before are reported, and one whose node is gone is not given to
\* them for ever, even when a check that found it healthy ends late
\* (checkEndpointHealth, Do).
HealthFollowsNode ==
  \A e \in Endpoints :
    /\ (e \in up /\ status[e] = "unhealthy")
         ~> (status[e] = "healthy" \/ e \notin up \/ closing # "open")
    /\ (e \notin up /\ status[e] = "healthy")
         ~> (status[e] = "unhealthy" \/ e \in up \/ closing # "open")

=============================================================================
