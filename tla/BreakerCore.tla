---------------------------- MODULE BreakerCore ----------------------------
(***************************************************************************)
(* The CircuitBreaker object of src/shared/utils/circuitBreaker.ts as a    *)
(* value: a breaker is a record b, its options a record o, and each method *)
(* that changes the object is an operator from the old record to the new   *)
(* one.  A JavaScript method body without an await runs to completion, so  *)
(* one operator is one atomic step of whoever calls it.                    *)
(*                                                                         *)
(* The code stores the instant of the last failure and only ever uses      *)
(* Date.now() - lastFailureTime.  The model stores that difference, b.age, *)
(* which saturates at MaxAge: no cooldown exceeds MaxAge, so a larger age  *)
(* would be compared in the same way.  NoFailure stands for null.  The     *)
(* transition history, the success counter and the log callback are never  *)
(* read by the breaker and are left out.                                   *)
(***************************************************************************)
EXTENDS Integers

CONSTANTS
    Kinds,            \* FailureKind: rate_limit, quota_exhausted, transient
    NoKind,           \* the failure carried no kind (null)
    EscalationCount,  \* backoffEscalationCount
    MaxMultiplier,    \* maxBackoffMultiplier
    MaxAge            \* ages saturate here

ASSUME KindsAssumption == NoKind \notin Kinds
ASSUME BackoffAssumption ==
    /\ EscalationCount \in Nat
    /\ MaxMultiplier \in Nat \ {0}
    /\ MaxAge \in Nat

NoFailure  == -1      \* lastFailureTime === null
NoOverride == -1      \* no entry in cooldownByKind / kindThresholds

States == {"CLOSED", "DEGRADED", "OPEN", "HALF_OPEN"}

(***************************************************************************)
(* What getCircuitBreaker and the constructor take from their callers.     *)
(* kindLimit[k] is kindThresholds[k] reduced to the count at which kind k  *)
(* opens the circuit: its threshold; 1 when it has none and immediateOpen  *)
(* is set; failureThreshold when it has neither; NoOverride when k has no  *)
(* entry.                                                                  *)
(***************************************************************************)
Options ==
    [failureThreshold     : Nat \ {0},
     degradationThreshold : Nat,
     halfOpenRequests     : Nat,
     resetTimeout         : Nat \ {0},   \* settings.ts asks for at least a second
     cooldownByKind       : [Kinds -> Nat \cup {NoOverride}],
     kindLimit            : [Kinds -> (Nat \ {0}) \cup {NoOverride}]]

Breaker ==
    [state             : States,
     failureCount      : Nat,
     age               : (0 .. MaxAge) \cup {NoFailure},
     lastFailureKind   : Kinds \cup {NoKind},
     halfOpenAllowed   : Nat,
     openCycleCount    : Nat,
     kindFailureCounts : [Kinds -> Nat]]

(* The constructor, before _restoreFromDb answers. *)
Fresh ==
    [state             |-> "CLOSED",
     failureCount      |-> 0,
     age               |-> NoFailure,
     lastFailureKind   |-> NoKind,
     halfOpenAllowed   |-> 0,
     openCycleCount    |-> 0,
     kindFailureCounts |-> [k \in Kinds |-> 0]]

Lesser(x, y) == IF x <= y THEN x ELSE y

(* Doubling from the escalation point on, capped at maxBackoffMultiplier. *)
EffectiveResetTimeout(b, o) ==
    IF b.openCycleCount <= EscalationCount
      THEN o.resetTimeout
      ELSE Lesser(o.resetTimeout * 2^(b.openCycleCount - EscalationCount),
                  o.resetTimeout * MaxMultiplier)

EffectiveCooldown(b, o) ==
    IF b.lastFailureKind # NoKind /\ o.cooldownByKind[b.lastFailureKind] # NoOverride
      THEN o.cooldownByKind[b.lastFailureKind]
      ELSE EffectiveResetTimeout(b, o)

ShouldAttemptReset(b, o) ==
    b.age = NoFailure \/ b.age >= EffectiveCooldown(b, o)

Transition(b, o, newState) ==
    [b EXCEPT !.state = newState,
              !.halfOpenAllowed = IF newState = "HALF_OPEN" THEN o.halfOpenRequests ELSE @]

(* Mutant: the elapsed time is never looked at. *)
RefreshUnstamped(b, o) ==
    IF b.state = "OPEN" /\ b.age = NoFailure THEN Transition(b, o, "HALF_OPEN") ELSE b

(* _refreshOpenState: the lazy OPEN -> HALF_OPEN move every read performs. *)
RefreshOpenState(b, o) ==
    IF b.state = "OPEN" /\ ShouldAttemptReset(b, o)
      THEN Transition(b, o, "HALF_OPEN")
      ELSE b

(* What canExecute answers on an already refreshed breaker. *)
Admits(b) ==
    \/ b.state \in {"CLOSED", "DEGRADED"}
    \/ b.state = "HALF_OPEN" /\ b.halfOpenAllowed > 0

(* Mutants of TakeProbe: the decrement dropped, the whole budget taken. *)
TakeProbeNever(b)  == b
TakeProbeAll(b)    == IF b.state = "HALF_OPEN" THEN [b EXCEPT !.halfOpenAllowed = 0] ELSE b

(* execute() takes one unit of the probe budget when it probes. *)
TakeProbe(b) ==
    IF b.state = "HALF_OPEN" THEN [b EXCEPT !.halfOpenAllowed = @ - 1] ELSE b

(* Mutant: the escalation outlives the outage. *)
RecoveredKeepsCycles(b, o) ==
    [Transition(b, o, "CLOSED") EXCEPT
        !.failureCount = 0, !.lastFailureKind = NoKind,
        !.kindFailureCounts = [k \in Kinds |-> 0]]

(* What _onSuccess (from OPEN and HALF_OPEN) and reset() have in common. *)
Recovered(b, o) ==
    [Transition(b, o, "CLOSED") EXCEPT
        !.failureCount = 0,
        !.lastFailureKind = NoKind,
        !.openCycleCount = 0,
        !.kindFailureCounts = [k \in Kinds |-> 0]]

(* A success in OPEN also forgets lastFailureTime; one in HALF_OPEN does not. *)
OnSuccess(b, o) ==
    CASE b.state = "OPEN"      -> [Recovered(b, o) EXCEPT !.age = NoFailure]
      [] b.state = "HALF_OPEN" -> Recovered(b, o)
      [] OTHER ->
           LET c == [b EXCEPT !.failureCount = IF @ > 0 THEN @ - 1 ELSE 0]
           IN  IF c.state = "DEGRADED" /\ c.failureCount <= o.degradationThreshold
                 THEN Transition(c, o, "CLOSED")
                 ELSE c

(* The bookkeeping at the head of _onFailure. *)
CountFailure(b, kind) ==
    [b EXCEPT !.failureCount = @ + 1,
              !.age = 0,
              !.lastFailureKind = kind,
              !.kindFailureCounts =
                  [k \in Kinds |-> b.kindFailureCounts[k] + (IF k = kind THEN 1 ELSE 0)]]

KindLimitReached(c, o, kind) ==
    /\ kind # NoKind
    /\ o.kindLimit[kind] # NoOverride
    /\ c.kindFailureCounts[kind] >= o.kindLimit[kind]

(* Mutant: the threshold is one off. *)
OnFailureOneLate(b, o, kind) ==
    LET c == CountFailure(b, kind)
    IN  IF KindLimitReached(c, o, kind)
          THEN Transition(c, o, "OPEN")
          ELSE CASE c.state = "HALF_OPEN" ->
                      Transition([c EXCEPT !.openCycleCount = @ + 1], o, "OPEN")
                 [] c.state = "DEGRADED" /\ c.failureCount > o.failureThreshold ->
                      Transition(c, o, "OPEN")
                 [] c.state = "CLOSED" /\ c.failureCount >= o.degradationThreshold ->
                      Transition(c, o, "DEGRADED")
                 [] OTHER -> c

OnFailure(b, o, kind) ==
    LET c == CountFailure(b, kind)
    IN  IF KindLimitReached(c, o, kind)
          THEN Transition(c, o, "OPEN")
          ELSE CASE c.state = "HALF_OPEN" ->
                      Transition([c EXCEPT !.openCycleCount = @ + 1], o, "OPEN")
                 [] /\ c.state \in {"CLOSED", "DEGRADED"}
                    /\ c.failureCount >= o.failureThreshold ->
                      Transition(c, o, "OPEN")
                 [] /\ c.state = "CLOSED"
                    /\ c.failureCount < o.failureThreshold
                    /\ c.failureCount >= o.degradationThreshold ->
                      Transition(c, o, "DEGRADED")
                 [] OTHER -> c

(* reset(): the operator's way back to CLOSED. *)
ResetBreaker(b, o) == [Recovered(b, o) EXCEPT !.age = NoFailure]

(* One unit of wall-clock time. *)
Older(b) ==
    [b EXCEPT !.age = IF @ = NoFailure THEN NoFailure ELSE Lesser(@ + 1, MaxAge)]
=============================================================================
