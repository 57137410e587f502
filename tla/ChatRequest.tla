---------------------------- MODULE ChatRequest ----------------------------
(***************************************************************************)
(* handleSingleModelChat() of src/sse/handlers/chat.ts for one provider    *)
(* and model: the pipeline gate, the credential retry loop over the        *)
(* provider's connections, and the provider breaker they share.  A request *)
(* yields at every await, so a gate passed before an await is stale after  *)
(* it.                                                                     *)
(*                                                                         *)
(* Modelled: a plain request (no combo, no forced connection, no live      *)
(* test, no emergency fallback to another model), which neither bypasses   *)
(* the breaker nor disables the cooldown-aware retry, to a provider        *)
(* without handling of its own (antigravity has some).  A connection is    *)
(* cooling or not; how long is left open.                                  *)
(***************************************************************************)
EXTENDS BreakerCore, FiniteSets

CONSTANTS
    Requests, Accounts,   \* concurrent requests; the provider's connections
    NoAccount,            \* no connection selected yet
    Opt,                  \* the breaker's options
    MaxRetries,           \* retrySettings.maxRetries
    MaxFailures           \* bound of this model: no arrivals at this failureCount

ASSUME OptAssumption == Opt \in Options
ASSUME RetriesAssumption == MaxRetries \in Nat
ASSUME AccountsAssumption == NoAccount \notin Accounts /\ IsFiniteSet(Accounts)

VARIABLES
    breaker,              \* the provider's CircuitBreaker
    req,                  \* req[r]: the local variables of r's handler
    cooling,              \* cooling[a]: rateLimitedUntil lies in the future
    errorCode,            \* errorCode[a]: what the connection last failed with
    streak                \* ghost: calls the upstream (or its proxy) failed in a row

vars == <<breaker, req, cooling, errorCode, streak>>

(* A result is told apart by what the handler does with it.                *)
(*   trip     408/500/502/503/504 of the upstream, connection cooled       *)
(*   timeout  504 the gateway inflicted on itself: connection spared       *)
(*   refused  the 503 executeChatWithBreaker makes of CircuitBreakerOpenError *)
(*   account  401, 403, 429: a failure of the connection, not the provider *)
(*   client   400, 499, a stalled stream: returned as it is                *)
(*   eof      the stream ended before useful content                       *)
(*   capacity the connection is at its local concurrency cap               *)
Results  == {"ok", "trip", "timeout", "account", "client", "eof", "capacity"}
Statuses == {"none", "trip", "refused", "account", "capacity"}
(* PROVIDER_BREAKER_FAILURE_STATUSES: the made-up 503 is one of them. *)
BreakerFailureStatuses == {"trip", "timeout", "refused"}

(* One dispatch per connection and attempt, and one after an early end of stream. *)
DispatchBound == Cardinality(Accounts) * (MaxRetries + 1) + 1

Pcs == {"idle", "select", "wait", "dispatch", "running", "result"}

Local ==
    [pc : Pcs, account : Accounts \cup {NoAccount}, excluded : SUBSET Accounts,
     lastStatus : Statuses, attempt : 0 .. MaxRetries, eofRetries : 0 .. 1,
     result : Results \cup {"none", "refused"},
     sent : 0 .. DispatchBound + 1]   \* ghost: dispatches so far, saturating

Idle ==
    [pc |-> "idle", account |-> NoAccount, excluded |-> {}, lastStatus |-> "none",
     attempt |-> 0, eofRetries |-> 0, result |-> "none", sent |-> 0]

TypeOK ==
    /\ breaker \in Breaker
    /\ req \in [Requests -> Local]
    /\ cooling \in [Accounts -> BOOLEAN]
    /\ errorCode \in [Accounts -> Statuses]
    /\ streak \in 0 .. Opt.failureThreshold

Init ==
    /\ breaker = Fresh
    /\ req = [r \in Requests |-> Idle]
    /\ cooling = [a \in Accounts |-> FALSE]
    /\ errorCode = [a \in Accounts |-> "none"]
    /\ streak = 0

Set(r, local) == req' = [req EXCEPT ![r] = local]
Return(r)     == Set(r, Idle)

RecordSuccess == breaker' = OnSuccess(breaker, Opt)
RecordFailure == breaker' = OnFailure(breaker, Opt, NoKind)

-----------------------------------------------------------------------------
(* checkPipelineGates(): a 503 to the client, or on to the credential loop.  The
   model's bound is on arrivals; a request under way is never held up by it. *)
Gate(r) ==
    /\ req[r].pc = "idle"
    /\ breaker.failureCount < MaxFailures
    /\ breaker' = RefreshOpenState(breaker, Opt)
    /\ IF Admits(breaker') THEN Set(r, [Idle EXCEPT !.pc = "select"]) ELSE Return(r)
    /\ UNCHANGED <<cooling, errorCode, streak>>

Candidates(r) == {a \in Accounts : a \notin req[r].excluded /\ ~cooling[a]}

(* getProviderCredentials() found a connection. *)
Select(r, a) ==
    /\ req[r].pc = "select"
    /\ a \in Candidates(r)
    /\ Set(r, [req[r] EXCEPT !.pc = "dispatch", !.account = a])
    /\ UNCHANGED <<breaker, cooling, errorCode, streak>>

(* Every connection is excluded or cooling and one is cooling: allRateLimited.
   With retries left the handler may wait for the earliest cooldown ... *)
SelectWait(r) ==
    /\ req[r].pc = "select"
    /\ Candidates(r) = {}
    /\ \E a \in Accounts : cooling[a]
    /\ req[r].attempt < MaxRetries
    /\ Set(r, [req[r] EXCEPT !.pc = "wait"])
    /\ UNCHANGED <<breaker, cooling, errorCode, streak>>

(* ... or, too long a wait or no retry left, give up: the breaker records a
   failure when the last status of this request, or of the connection that will
   be back first, is one it counts. *)
SelectAllRateLimited(r, a) ==
    LET status == IF req[r].lastStatus # "none" THEN req[r].lastStatus ELSE errorCode[a]
    IN  /\ req[r].pc = "select"
        /\ Candidates(r) = {}
        /\ cooling[a]
        /\ IF status \in BreakerFailureStatuses THEN RecordFailure ELSE UNCHANGED breaker
        /\ Return(r)
        /\ UNCHANGED <<cooling, errorCode, streak>>

(* No connection left and none cooling: credentials are null. *)
SelectNone(r) ==
    /\ req[r].pc = "select"
    /\ Candidates(r) = {}
    /\ \A a \in Accounts : ~cooling[a]
    /\ Return(r)
    /\ UNCHANGED <<breaker, cooling, errorCode, streak>>

(* waitForCooldownAwareRetry() ran out: the attempt loop starts over with no
   exclusions, keeping the last status; a client abort answers 499. *)
WaitElapsed(r) ==
    /\ req[r].pc = "wait"
    /\ Set(r, [req[r] EXCEPT !.pc = "select", !.attempt = @ + 1, !.excluded = {}])
    /\ UNCHANGED <<breaker, cooling, errorCode, streak>>

WaitAborted(r) ==
    /\ req[r].pc = "wait"
    /\ Return(r)
    /\ UNCHANGED <<breaker, cooling, errorCode, streak>>

(* executeChatWithBreaker() after the token refresh and proxy awaits. *)
Dispatch(r) ==
    LET b == RefreshOpenState(breaker, Opt)
    IN  /\ req[r].pc = "dispatch"
        /\ IF Admits(b)
             THEN /\ breaker' = TakeProbe(b)
                  /\ Set(r, [req[r] EXCEPT !.pc = "running",
                                            !.sent = Lesser(@ + 1, DispatchBound + 1)])
             ELSE /\ breaker' = b
                  /\ Set(r, [req[r] EXCEPT !.pc = "result", !.result = "refused"])
        /\ UNCHANGED <<cooling, errorCode, streak>>

UpstreamFailed == streak' = Lesser(streak + 1, Opt.failureThreshold)

(* handleChatCore() resolved.  It resolves for upstream errors too (success:
   false), so execute() records a success whatever the result says; a true
   success has also cleared the connection's error by now. *)
Settle(r, result) ==
    /\ req[r].pc = "running"
    /\ RecordSuccess
    /\ Set(r, [req[r] EXCEPT !.pc = "result", !.result = result])
    /\ CASE result = "ok" ->
              /\ cooling' = [cooling EXCEPT ![req[r].account] = FALSE]
              /\ errorCode' = [errorCode EXCEPT ![req[r].account] = "none"]
              /\ streak' = 0
         [] result \in {"trip", "timeout"} ->
              /\ UpstreamFailed
              /\ UNCHANGED <<cooling, errorCode>>
         [] OTHER -> UNCHANGED <<cooling, errorCode, streak>>

(* handleChatCore() threw an error that execute() counts and rethrows, out of
   the handler. *)
SettleThrown(r) ==
    /\ req[r].pc = "running"
    /\ RecordFailure
    /\ Return(r)
    /\ UpstreamFailed
    /\ UNCHANGED <<cooling, errorCode>>

(* It threw because the proxy is unreachable: counted by execute() too, then
   turned into a 503 result like any other. *)
SettleUnreachable(r) ==
    /\ req[r].pc = "running"
    /\ RecordFailure
    /\ Set(r, [req[r] EXCEPT !.pc = "result", !.result = "trip"])
    /\ UpstreamFailed
    /\ UNCHANGED <<cooling, errorCode>>

(* It threw because the client left: nothing is counted. *)
SettleAborted(r) ==
    /\ req[r].pc = "running"
    /\ Return(r)
    /\ UNCHANGED <<breaker, cooling, errorCode, streak>>

(* result.success: the handler records the success a second time. *)
HandleOk(r) ==
    /\ req[r].pc = "result" /\ req[r].result = "ok"
    /\ RecordSuccess
    /\ Return(r)
    /\ UNCHANGED <<cooling, errorCode, streak>>

(* Mutant: streamEarlyEofRetries is never incremented. *)
HandleEofUncounted(r) ==
    /\ req[r].pc = "result" /\ req[r].result = "eof"
    /\ Set(r, [req[r] EXCEPT !.pc = "select"])
    /\ UNCHANGED <<breaker, cooling, errorCode, streak>>

(* An early end of stream is retried once per request, on any connection. *)
HandleEof(r) ==
    /\ req[r].pc = "result" /\ req[r].result = "eof"
    /\ IF req[r].eofRetries = 0
         THEN Set(r, [req[r] EXCEPT !.pc = "select", !.eofRetries = 1])
         ELSE Return(r)
    /\ UNCHANGED <<breaker, cooling, errorCode, streak>>

(* Mutant: the failed connection is not excluded. *)
FallBackAnywhere(r, status) ==
    Set(r, [req[r] EXCEPT !.pc = "select", !.lastStatus = status])

(* Try the next connection: the failed one is excluded for this attempt. *)
FallBack(r, status) ==
    Set(r, [req[r] EXCEPT !.pc = "select", !.lastStatus = status,
                          !.excluded = @ \cup {req[r].account}])

HandleCapacity(r) ==
    /\ req[r].pc = "result" /\ req[r].result = "capacity"
    /\ FallBack(r, "capacity")
    /\ UNCHANGED <<breaker, cooling, errorCode, streak>>

(* markAccountUnavailable(): the connection cools down, or stays up when its
   cooldown is switched off or a bare 500 of a per-model provider; either way the
   loop goes on with the next one. *)
HandleUnavailable(r, cools) ==
    /\ req[r].pc = "result" /\ req[r].result \in {"trip", "refused", "account"}
    /\ cooling' = [cooling EXCEPT ![req[r].account] = @ \/ cools]
    /\ errorCode' = [errorCode EXCEPT ![req[r].account] =
                        IF cooling[req[r].account] THEN @ ELSE req[r].result]
    /\ FallBack(r, req[r].result)
    /\ UNCHANGED <<breaker, streak>>

(* shouldSkipConnDisable(): no fallback; shouldTripProviderBreakerForResult()
   decides whether the provider is to blame. *)
HandleFinal(r) ==
    /\ req[r].pc = "result" /\ req[r].result \in {"timeout", "client"}
    /\ IF req[r].result \in BreakerFailureStatuses THEN RecordFailure ELSE UNCHANGED breaker
    /\ Return(r)
    /\ UNCHANGED <<cooling, errorCode, streak>>

(* A connection's cooldown runs out. *)
Expire(a) ==
    /\ cooling[a]
    /\ cooling' = [cooling EXCEPT ![a] = FALSE]
    /\ UNCHANGED <<breaker, req, errorCode, streak>>

Tick ==
    /\ breaker' = Older(breaker)
    /\ UNCHANGED <<req, cooling, errorCode, streak>>

(* What an admitted request does next; everything but its arrival. *)
Step(r) ==
    \/ \E a \in Accounts : Select(r, a) \/ SelectAllRateLimited(r, a)
    \/ SelectWait(r) \/ SelectNone(r) \/ WaitElapsed(r) \/ WaitAborted(r)
    \/ Dispatch(r)
    \/ \E result \in Results : Settle(r, result)
    \/ SettleThrown(r) \/ SettleUnreachable(r) \/ SettleAborted(r)
    \/ HandleOk(r) \/ HandleEof(r) \/ HandleCapacity(r)
    \/ \E cools \in BOOLEAN : HandleUnavailable(r, cools)
    \/ HandleFinal(r)

Next ==
    \/ \E r \in Requests : Gate(r) \/ Step(r)
    \/ \E a \in Accounts : Expire(a)
    \/ Tick

Spec == Init /\ [][Next]_vars

(* Upstream calls end (handleChatCore has timeouts), timers fire, and the event
   loop runs every ready continuation; nobody is obliged to send requests. *)
FairSpec == Spec /\ \A r \in Requests : WF_vars(Step(r))

-----------------------------------------------------------------------------
(* The retry loop is bounded: one request reaches the upstream at most once per
   connection and attempt, plus the single retry after an early end of stream,
   whatever cooldowns, refusals and other requests do in between. *)
BoundedDispatch ==
    \A r \in Requests : req[r].sent <= DispatchBound

(* Every admitted request is answered: no order of failures, expiring cooldowns
   and waits keeps the loop going for ever. *)
EveryRequestReturns ==
    \A r \in Requests : req[r].pc # "idle" ~> req[r].pc = "idle"

(* "Opens at <failureThreshold> failures": once that many upstream failures came
   in a row and their requests are done, the breaker no longer passes traffic. *)
OutageOpens ==
    streak = Opt.failureThreshold /\ (\A r \in Requests : req[r].pc = "idle") =>
        breaker.state \notin {"CLOSED", "DEGRADED"}
============================================================================
