--------------------------- MODULE CircuitBreaker ---------------------------
(***************************************************************************)
(* One provider breaker and the requests that go through its execute().    *)
(* The process is a single JavaScript thread: what runs between two awaits *)
(* is one step, and between the await of fn() and its settlement any other *)
(* request, status read or operator command may run.  So the results of    *)
(* requests admitted in one breaker state arrive in another one.           *)
(***************************************************************************)
EXTENDS BreakerCore, FiniteSets

CONSTANTS
    Requests,         \* identities of concurrent execute() calls
    Opt,              \* the breaker's options, fixed here
    MaxFailures       \* bound of this model on the failure counters

ASSUME OptAssumption == Opt \in Options
ASSUME AgeAssumption ==
    /\ Opt.resetTimeout * MaxMultiplier <= MaxAge
    /\ \A k \in Kinds : Opt.cooldownByKind[k] <= MaxAge
ASSUME RequestsAssumption == IsFiniteSet(Requests)

VARIABLES
    breaker,          \* the CircuitBreaker object
    phase             \* phase[r]: where execute() of r stands

vars == <<breaker, phase>>

(* "call": admitted in CLOSED or DEGRADED; "probe": admitted in the HALF_OPEN
   episode that is or was the latest; "stale": a probe of an earlier one.  *)
Phases == {"idle", "call", "probe", "stale"}
Probes  == {r \in Requests : phase[r] = "probe"}

TypeOK ==
    /\ breaker \in Breaker
    /\ phase \in [Requests -> Phases]

Init ==
    /\ breaker = Fresh
    /\ phase = [r \in Requests |-> "idle"]

(* Entering HALF_OPEN starts a new episode with a new probe budget. *)
PhaseAfterRefresh ==
    IF breaker.state = "OPEN" /\ ShouldAttemptReset(breaker, Opt)
      THEN [r \in Requests |-> IF phase[r] = "probe" THEN "stale" ELSE phase[r]]
      ELSE phase

-----------------------------------------------------------------------------
(* execute() up to the await of fn(): refused with CircuitBreakerOpenError ... *)
ExecuteRefused(r) ==
    LET b == RefreshOpenState(breaker, Opt)
    IN  /\ phase[r] = "idle"
        /\ ~Admits(b)
        /\ breaker' = b
        /\ phase' = PhaseAfterRefresh

(* ... or admitted, consuming a probe when HALF_OPEN. *)
ExecuteAdmitted(r) ==
    LET b == RefreshOpenState(breaker, Opt)
    IN  /\ phase[r] = "idle"
        /\ Admits(b)
        /\ breaker' = TakeProbe(b)
        /\ phase' = [PhaseAfterRefresh EXCEPT
                        ![r] = IF b.state = "HALF_OPEN" THEN "probe" ELSE "call"]

Finish(r) == phase' = [phase EXCEPT ![r] = "idle"]

(* fn() resolved. *)
ExecuteResolved(r) ==
    /\ phase[r] # "idle"
    /\ breaker' = OnSuccess(breaker, Opt)
    /\ Finish(r)

(* The model's bound.  Per-kind counts grow through successes, the total does not. *)
Countable(kind) ==
    /\ breaker.failureCount < MaxFailures
    /\ kind \in Kinds => breaker.kindFailureCounts[kind] < MaxFailures

(* fn() rejected with an error that isFailure() counts; classifyError, if any,
   gives its kind. *)
ExecuteFailed(r, kind) ==
    /\ phase[r] # "idle"
    /\ Countable(kind)
    /\ breaker' = OnFailure(breaker, Opt, kind)
    /\ Finish(r)

(* fn() rejected with an error isFailure() ignores (a client abort, a closed
   stream controller): execute() rethrows and records nothing. *)
ExecuteIgnored(r) ==
    /\ phase[r] # "idle"
    /\ Finish(r)
    /\ UNCHANGED breaker

(* canExecute(), getStatus(), getRetryAfterMs() of gates, dashboards and the
   registry sweep. *)
Read ==
    /\ breaker' = RefreshOpenState(breaker, Opt)
    /\ phase' = PhaseAfterRefresh

(* recordProviderFailure() of accountFallback.ts, past its per-connection
   dedup: skipped while the breaker blocks.  The canExecute() it ends with only
   chooses a log line; the timeout is positive, so it refreshes nothing. *)
RecordProviderFailure ==
    LET b == RefreshOpenState(breaker, Opt)
    IN  /\ Countable(NoKind)
        /\ breaker' = IF Admits(b) THEN OnFailure(b, Opt, NoKind) ELSE b
        /\ phase' = PhaseAfterRefresh

(* reset() from the resilience API or clearProviderFailure(). *)
Reset ==
    /\ breaker' = ResetBreaker(breaker, Opt)
    /\ UNCHANGED phase

Tick ==
    /\ breaker' = Older(breaker)
    /\ UNCHANGED phase

Next ==
    \/ \E r \in Requests :
          \/ ExecuteRefused(r)
          \/ ExecuteAdmitted(r)
          \/ ExecuteResolved(r)
          \/ \E kind \in Kinds \cup {NoKind} : ExecuteFailed(r, kind)
          \/ ExecuteIgnored(r)
    \/ Read
    \/ RecordProviderFailure
    \/ Reset
    \/ Tick

Spec == Init /\ [][Next]_vars

(* Time passes, and the registry sweep (every five minutes) reads the status of
   every breaker.  Nothing is assumed of the requests: an upstream may hang. *)
FairSpec == Spec /\ WF_vars(Tick) /\ WF_vars(Read)

-----------------------------------------------------------------------------
(* In one HALF_OPEN episode the probes still in flight and the probes still on
   offer together never exceed halfOpenRequests, however results of calls and
   probes of earlier episodes interleave: execute() and _transition() hand out
   the budget once per episode. *)
ProbeBudget ==
    breaker.state = "HALF_OPEN" =>
        Cardinality(Probes) + breaker.halfOpenAllowed <= Opt.halfOpenRequests

(* The state _onSuccess() and _onFailure() leave behind agrees with the count
   they keep: a breaker that lets traffic pass is below failureThreshold, a
   CLOSED one has not risen above degradationThreshold, a DEGRADED one has not
   sunk below it. *)
InBand(b, o) ==
    /\ b.state \in {"CLOSED", "DEGRADED"} => b.failureCount < o.failureThreshold
    /\ b.state = "CLOSED" => b.failureCount <= o.degradationThreshold
    /\ b.state = "DEGRADED" => b.failureCount >= o.degradationThreshold
HealthBand == InBand(breaker, Opt)

(* Whichever way the breaker came back to traffic, the backoff escalation of the
   last outage is forgotten and no failure kind is at its own limit: neither
   survives into the next outage's cooldown or threshold. *)
Clean(b, o) ==
    b.state \in {"CLOSED", "DEGRADED"} =>
        /\ b.openCycleCount = 0
        /\ \A k \in Kinds :
              o.kindLimit[k] # NoOverride => b.kindFailureCounts[k] < o.kindLimit[k]
ClosedIsClean == Clean(breaker, Opt)

(* Lazy recovery: an OPEN breaker leaves OPEN although no timer of its own runs
   and late failures keep renewing lastFailureTime. *)
OpenRecovers == (breaker.state = "OPEN") ~> (breaker.state # "OPEN")

(* Within a HALF_OPEN episode the probes on offer and in flight only ever get
   fewer by a probe that ends in an error isFailure() ignores, one at a time: no
   refusal, status read, late result or dashboard call uses one up.  (Such a probe
   is not returned, so a breaker all of whose probes end like that refuses
   everybody until it is reset.) *)
Offer == Cardinality(Probes) + breaker.halfOpenAllowed
HalfOpen == breaker.state = "HALF_OPEN"
ProbesConserved ==
    [][HalfOpen /\ HalfOpen' =>
         \/ Offer' = Offer
         \/ Offer' = Offer - 1 /\ UNCHANGED breaker]_vars
=============================================================================
