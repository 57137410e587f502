-------------------------- MODULE MCCircuitBreaker --------------------------
(* Three concurrent requests against one breaker that admits two probes and
   escalates its timeout after one failed probe phase. *)
EXTENDS CircuitBreaker

CONSTANTS rateLimit, r1, r2, r3

MCRequests == {r1, r2, r3}
MCKinds    == {rateLimit}

(* Opens at three failures and degrades at one; rate_limit has a cooldown of its
   own and opens at the second failure. *)
MCOpt ==
    [failureThreshold |-> 3, degradationThreshold |-> 1, halfOpenRequests |-> 2,
     resetTimeout |-> 1,
     cooldownByKind |-> [k \in MCKinds |-> 2], kindLimit |-> [k \in MCKinds |-> 2]]
=============================================================================
