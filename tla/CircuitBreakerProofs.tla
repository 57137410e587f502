------------------------ MODULE CircuitBreakerProofs ------------------------
(***************************************************************************)
(* Type correctness and the safety invariants of CircuitBreaker for every  *)
(* set of requests, every set of failure kinds and every option record.    *)
(***************************************************************************)
EXTENDS CircuitBreaker, FiniteSetTheorems, TLAPS

-----------------------------------------------------------------------------
(* Every method of BreakerCore maps breakers to breakers, for every set of failure
   kinds and every option record. *)

(* _transition keeps the object's type and touches only state and budget. *)
LEMMA TransitionType ==
    ASSUME NEW b \in Breaker, NEW o \in Options, NEW s \in States
    PROVE  Transition(b, o, s) \in Breaker
BY DEF Transition, Breaker, Options

(* A status read keeps the object's type. *)
LEMMA RefreshType ==
    ASSUME NEW b \in Breaker, NEW o \in Options
    PROVE  RefreshOpenState(b, o) \in Breaker
BY TransitionType DEF RefreshOpenState, States

(* Closing the circuit, by success or by reset(), keeps the object's type. *)
LEMMA RecoveredType ==
    ASSUME NEW b \in Breaker, NEW o \in Options
    PROVE  /\ Recovered(b, o) \in Breaker
           /\ ResetBreaker(b, o) \in Breaker
BY DEF Recovered, ResetBreaker, Transition, Breaker, Options, States, NoFailure

(* _onSuccess() keeps the object's type; in particular no count goes negative. *)
LEMMA OnSuccessType ==
    ASSUME NEW b \in Breaker, NEW o \in Options
    PROVE  OnSuccess(b, o) \in Breaker
<1>1. CASE b.state = "OPEN"
  BY <1>1, RecoveredType DEF OnSuccess, ResetBreaker
<1>2. CASE b.state = "HALF_OPEN"
  BY <1>2, RecoveredType DEF OnSuccess
<1>3. CASE b.state \notin {"OPEN", "HALF_OPEN"}
  <2> DEFINE c == [b EXCEPT !.failureCount = IF @ > 0 THEN @ - 1 ELSE 0]
  <2>1. c \in Breaker
    BY DEF Breaker
  <2>2. OnSuccess(b, o) \in {c, Transition(c, o, "CLOSED")}
    BY <1>3 DEF OnSuccess
  <2> QED
    BY <2>1, <2>2, TransitionType DEF States
<1> QED
  BY <1>1, <1>2, <1>3

(* The bookkeeping of _onFailure() keeps the object's type. *)
LEMMA CountFailureType ==
    ASSUME NEW b \in Breaker, NEW kind \in Kinds \cup {NoKind}
    PROVE  CountFailure(b, kind) \in Breaker
<1> DEFINE f == [k \in Kinds |-> b.kindFailureCounts[k] + (IF k = kind THEN 1 ELSE 0)]
<1>1. f \in [Kinds -> Nat]
  BY DEF Breaker
<1>2. CountFailure(b, kind) =
          [b EXCEPT !.failureCount = @ + 1, !.age = 0, !.lastFailureKind = kind,
                    !.kindFailureCounts = f]
  BY DEF CountFailure
<1>3. 0 \in 0 .. MaxAge /\ b.failureCount + 1 \in Nat
  BY BackoffAssumption DEF Breaker
<1> HIDE DEF f
<1>4. [b EXCEPT !.failureCount = @ + 1, !.age = 0, !.lastFailureKind = kind] \in Breaker
  BY <1>3 DEF Breaker
<1> QED
  BY <1>1, <1>2, <1>4 DEF Breaker

(* _onFailure() keeps the object's type, whatever kind the failure has. *)
LEMMA OnFailureType ==
    ASSUME NEW b \in Breaker, NEW o \in Options, NEW kind \in Kinds \cup {NoKind}
    PROVE  OnFailure(b, o, kind) \in Breaker
<1> DEFINE c == CountFailure(b, kind)
           d == [c EXCEPT !.openCycleCount = @ + 1]
<1>1. c \in Breaker
  BY CountFailureType
<1>2. d \in Breaker
  BY <1>1 DEF Breaker
<1>3. OnFailure(b, o, kind) \in {c, Transition(c, o, "OPEN"), Transition(d, o, "OPEN"),
                                 Transition(c, o, "DEGRADED")}
  <2> HIDE DEF c, d
  <2>1. CASE KindLimitReached(c, o, kind)
    BY <2>1 DEF OnFailure, c
  <2>2. CASE ~KindLimitReached(c, o, kind)
    BY <2>2 DEF OnFailure, c, d
  <2> QED
    BY <2>1, <2>2
<1> QED
  BY <1>1, <1>2, <1>3, TransitionType DEF States

(* A probe is only taken of what is left. *)
LEMMA TakeProbeType ==
    ASSUME NEW b \in Breaker, b.state = "HALF_OPEN" => b.halfOpenAllowed > 0
    PROVE  TakeProbe(b) \in Breaker
BY DEF TakeProbe, Breaker

(* Time passes. *)
LEMMA OlderType ==
    ASSUME NEW b \in Breaker
    PROVE  Older(b) \in Breaker
BY BackoffAssumption DEF Older, Breaker, Lesser, NoFailure

-----------------------------------------------------------------------------
(* Every step of the breaker and its requests keeps the type invariant. *)
LEMMA TypeStep == TypeOK /\ [Next]_vars => TypeOK'
<1> SUFFICES ASSUME TypeOK, [Next]_vars PROVE TypeOK'
  OBVIOUS
<1> USE OptAssumption DEF TypeOK
<1>1. /\ RefreshOpenState(breaker, Opt) \in Breaker
      /\ PhaseAfterRefresh \in [Requests -> Phases]
  BY RefreshType DEF PhaseAfterRefresh, Phases
<1>2. ASSUME NEW r \in Requests, ExecuteRefused(r) PROVE TypeOK'
  BY <1>1, <1>2 DEF ExecuteRefused
<1>3. ASSUME NEW r \in Requests, ExecuteAdmitted(r) PROVE TypeOK'
  <2> DEFINE b == RefreshOpenState(breaker, Opt)
  <2>1. TakeProbe(b) \in Breaker
    <3> HIDE DEF b
    <3>1. b \in Breaker
      BY <1>1 DEF b
    <3>2. b.state = "HALF_OPEN" => b.halfOpenAllowed > 0
      BY <1>3 DEF ExecuteAdmitted, Admits, b
    <3> QED
      BY <3>1, <3>2, TakeProbeType
  <2> QED
    BY <1>1, <1>3, <2>1 DEF ExecuteAdmitted, Phases
<1>4. ASSUME NEW r \in Requests, ExecuteResolved(r) PROVE TypeOK'
  BY <1>4, OnSuccessType DEF ExecuteResolved, Finish, Phases
<1>5. ASSUME NEW r \in Requests, NEW kind \in Kinds \cup {NoKind}, ExecuteFailed(r, kind)
      PROVE  TypeOK'
  BY <1>5, OnFailureType DEF ExecuteFailed, Finish, Phases
<1>6. ASSUME NEW r \in Requests, ExecuteIgnored(r) PROVE TypeOK'
  BY <1>6 DEF ExecuteIgnored, Finish, Phases
<1>7. CASE Read
  BY <1>1, <1>7 DEF Read
<1>8. CASE RecordProviderFailure
  BY <1>1, <1>8, OnFailureType DEF RecordProviderFailure
<1>9. CASE Reset
  BY <1>9, RecoveredType DEF Reset
<1>10. CASE Tick
  <2>1. Older(breaker) \in Breaker
    BY OlderType
  <2> QED
    BY <1>10, <2>1 DEF Tick
<1>11. CASE UNCHANGED vars
  BY <1>11 DEF vars
<1> QED
  BY <1>2, <1>3, <1>4, <1>5, <1>6, <1>7, <1>8, <1>9, <1>10, <1>11 DEF Next

(* Whatever order results, reads and commands come in, the fields of the breaker
   object keep their types: no counter or probe budget goes below zero. *)
THEOREM TypeCorrect == Spec => []TypeOK
<1>1. Init => TypeOK
  BY DEF Init, TypeOK, Fresh, Breaker, States, Phases, NoFailure
<1> QED
  BY <1>1, TypeStep, PTL DEF Spec

-----------------------------------------------------------------------------
(* The two invariants on the object alone hold of the record each method
   returns, for any record it is given. *)
Sound(b) == InBand(b, Opt) /\ Clean(b, Opt)

(* A status read never turns a blocked breaker into one that passes traffic. *)
LEMMA RefreshSound ==
    ASSUME NEW b \in Breaker, Sound(b)
    PROVE  Sound(RefreshOpenState(b, Opt))
BY DEF Sound, InBand, Clean, RefreshOpenState, Transition, Breaker

(* Closing the circuit resets everything the bands speak of. *)
LEMMA RecoveredSound ==
    ASSUME NEW b \in Breaker
    PROVE  Sound(Recovered(b, Opt)) /\ Sound(ResetBreaker(b, Opt))
BY OptAssumption DEF Sound, InBand, Clean, Recovered, ResetBreaker, Transition, Breaker,
                    Options, NoOverride

(* _onSuccess(): the gradual recovery leaves DEGRADED no later than at
   degradationThreshold. *)
LEMMA OnSuccessSound ==
    ASSUME NEW b \in Breaker, Sound(b)
    PROVE  Sound(OnSuccess(b, Opt))
<1>1. CASE b.state \in {"OPEN", "HALF_OPEN"}
  BY <1>1, RecoveredSound DEF OnSuccess, ResetBreaker
<1>2. CASE b.state \in {"CLOSED", "DEGRADED"}
  BY <1>2, OptAssumption
     DEF OnSuccess, Sound, InBand, Clean, Transition, Breaker, Options
<1> QED
  BY <1>1, <1>2 DEF Breaker, States

(* _onFailure(): at a threshold the circuit opens, below it nothing is lost. *)
LEMMA OnFailureSound ==
    ASSUME NEW b \in Breaker, Sound(b), NEW kind \in Kinds \cup {NoKind}
    PROVE  Sound(OnFailure(b, Opt, kind))
<1> DEFINE c == CountFailure(b, kind)
<1>1. /\ c.state = b.state
      /\ c.failureCount = b.failureCount + 1
      /\ c.openCycleCount = b.openCycleCount
      /\ \A k \in Kinds : c.kindFailureCounts[k] =
                              b.kindFailureCounts[k] + (IF k = kind THEN 1 ELSE 0)
  BY DEF CountFailure, Breaker
<1>2. c \in Breaker
  BY CountFailureType
<1> HIDE DEF c
<1>3. CASE KindLimitReached(c, Opt, kind)
  BY <1>2, <1>3 DEF OnFailure, c, Sound, InBand, Clean, Transition, Breaker
<1>4. CASE ~KindLimitReached(c, Opt, kind) /\ c.state \in {"OPEN", "HALF_OPEN"}
  BY <1>2, <1>4 DEF OnFailure, c, Sound, InBand, Clean, Transition, Breaker
<1>5. CASE ~KindLimitReached(c, Opt, kind) /\ c.state \in {"CLOSED", "DEGRADED"}
  <2>1. Clean(c, Opt)
    <3> SUFFICES ASSUME NEW k \in Kinds, Opt.kindLimit[k] # NoOverride
                 PROVE  c.kindFailureCounts[k] < Opt.kindLimit[k]
      BY <1>1, <1>5 DEF Clean, Sound
    <3>1. CASE k = kind
      BY <1>1, <1>2, <1>5, <3>1, KindsAssumption, OptAssumption
         DEF KindLimitReached, Breaker, Options, NoOverride
    <3>2. CASE k # kind
      BY <1>1, <1>5, <3>2 DEF Sound, Clean, Breaker
    <3> QED
      BY <3>1, <3>2
  <2>2. OnFailure(b, Opt, kind) =
            CASE c.failureCount >= Opt.failureThreshold -> Transition(c, Opt, "OPEN")
              [] /\ c.state = "CLOSED"
                 /\ c.failureCount < Opt.failureThreshold
                 /\ c.failureCount >= Opt.degradationThreshold ->
                   Transition(c, Opt, "DEGRADED")
              [] OTHER -> c
    BY <1>5 DEF OnFailure, c
  <2>3. CASE c.failureCount >= Opt.failureThreshold
    BY <1>2, <2>3, <2>2, OptAssumption
       DEF Sound, InBand, Clean, Transition, Breaker, Options
  <2>4. CASE ~(c.failureCount >= Opt.failureThreshold)
    BY <1>1, <1>2, <1>5, <2>1, <2>2, <2>4, OptAssumption
       DEF Sound, InBand, Clean, Transition, Breaker, Options
  <2> QED
    BY <2>3, <2>4
<1> QED
  BY <1>2, <1>3, <1>4, <1>5 DEF Breaker, States

(* Every step preserves both bands. *)
LEMMA SoundStep ==
    ASSUME TypeOK, Sound(breaker), [Next]_vars
    PROVE  Sound(breaker')
<1> USE DEF TypeOK
<1>1. Sound(RefreshOpenState(breaker, Opt)) /\ RefreshOpenState(breaker, Opt) \in Breaker
  BY RefreshSound, RefreshType, OptAssumption
<1>2. ASSUME NEW r \in Requests, ExecuteRefused(r) PROVE Sound(breaker')
  BY <1>1, <1>2 DEF ExecuteRefused
<1>3. ASSUME NEW r \in Requests, ExecuteAdmitted(r) PROVE Sound(breaker')
  <2> DEFINE b == RefreshOpenState(breaker, Opt)
  <2> HIDE DEF b
  <2>1. Sound(TakeProbe(b))
    BY <1>1 DEF b, TakeProbe, Sound, InBand, Clean, Breaker
  <2> QED
    BY <1>3, <2>1 DEF ExecuteAdmitted, b
<1>4. ASSUME NEW r \in Requests, ExecuteResolved(r) PROVE Sound(breaker')
  BY <1>4, OnSuccessSound DEF ExecuteResolved
<1>5. ASSUME NEW r \in Requests, NEW kind \in Kinds \cup {NoKind}, ExecuteFailed(r, kind)
      PROVE  Sound(breaker')
  BY <1>5, OnFailureSound DEF ExecuteFailed
<1>6. ASSUME NEW r \in Requests, ExecuteIgnored(r) PROVE Sound(breaker')
  BY <1>6 DEF ExecuteIgnored
<1>7. CASE Read
  BY <1>1, <1>7 DEF Read
<1>8. CASE RecordProviderFailure
  BY <1>1, <1>8, OnFailureSound DEF RecordProviderFailure
<1>9. CASE Reset
  BY <1>9, RecoveredSound DEF Reset
<1>10. CASE Tick
  BY <1>10 DEF Tick, Older, Sound, InBand, Clean, Breaker
<1>11. CASE UNCHANGED vars
  BY <1>11 DEF vars
<1> QED
  BY <1>2, <1>3, <1>4, <1>5, <1>6, <1>7, <1>8, <1>9, <1>10, <1>11 DEF Next

(* Every breaker that passes traffic is inside its failure band and carries
   nothing over from its last outage, for every option record. *)
THEOREM BandsHold == Spec => [](HealthBand /\ ClosedIsClean)
<1> DEFINE Inv == TypeOK /\ Sound(breaker)
<1>1. Init => Inv
  <2>1. Init => TypeOK
    BY DEF Init, TypeOK, Fresh, Breaker, States, Phases, NoFailure
  <2>2. Init => Sound(breaker)
    BY OptAssumption DEF Init, Sound, InBand, Clean, Fresh, Options, NoOverride
  <2> QED
    BY <2>1, <2>2
<1>2. Inv /\ [Next]_vars => Inv'
  <2> SUFFICES ASSUME Inv, [Next]_vars PROVE Inv'
    OBVIOUS
  <2>1. TypeOK'
    BY TypeStep
  <2>2. Sound(breaker')
    BY SoundStep
  <2>3. Sound(breaker)' = Sound(breaker')
    BY DEF Sound, InBand, Clean
  <2> QED
    BY <2>1, <2>2, <2>3
<1>3. Inv => HealthBand /\ ClosedIsClean
  BY DEF Sound, HealthBand, ClosedIsClean
<1> QED
  BY <1>1, <1>2, <1>3, PTL DEF Spec

(* Coming back to traffic forgets the escalation of the last outage and leaves no
   failure kind at its own limit. *)
THEOREM NothingCarriedOver == Spec => []ClosedIsClean
BY BandsHold, PTL

-----------------------------------------------------------------------------
(* No recorded result leaves the breaker HALF_OPEN: a success closes it, a
   failure opens it. *)
LEMMA ResultEndsEpisode ==
    ASSUME NEW b \in Breaker, NEW kind \in Kinds \cup {NoKind}
    PROVE  /\ OnSuccess(b, Opt).state # "HALF_OPEN"
           /\ OnFailure(b, Opt, kind).state # "HALF_OPEN"
<1>1. OnSuccess(b, Opt).state # "HALF_OPEN"
  BY DEF OnSuccess, Recovered, Transition, Breaker
<1> DEFINE c == CountFailure(b, kind)
<1>2. c \in Breaker
  BY CountFailureType
<1> HIDE DEF c
<1>3. OnFailure(b, Opt, kind).state # "HALF_OPEN"
  <2>1. CASE KindLimitReached(c, Opt, kind)
    BY <1>2, <2>1 DEF OnFailure, c, Transition, Breaker
  <2>2. CASE ~KindLimitReached(c, Opt, kind)
    BY <1>2, <2>2 DEF OnFailure, c, Transition, Breaker
  <2> QED
    BY <2>1, <2>2
<1> QED
  BY <1>1, <1>3

(* A subset of a budgeted set of probes is within the same budget. *)
LEMMA FewerProbes ==
    ASSUME NEW S \in SUBSET Requests, NEW T \in SUBSET S
    PROVE  /\ Cardinality(S) \in Nat
           /\ Cardinality(T) \in Nat
           /\ Cardinality(T) <= Cardinality(S)
BY RequestsAssumption, FS_Subset, FS_CardinalityType

(* The read every gate performs opens a new episode or keeps the current one. *)
LEMMA RefreshBudget ==
    ASSUME TypeOK, ProbeBudget
    PROVE  LET b == RefreshOpenState(breaker, Opt)
               P == {r \in Requests : PhaseAfterRefresh[r] = "probe"}
           IN  /\ P \subseteq Probes
               /\ b.state = "HALF_OPEN" =>
                     Cardinality(P) + b.halfOpenAllowed <= Opt.halfOpenRequests
<1> DEFINE b == RefreshOpenState(breaker, Opt)
           P == {r \in Requests : PhaseAfterRefresh[r] = "probe"}
<1>1. CASE breaker.state = "OPEN" /\ ShouldAttemptReset(breaker, Opt)
  <2>1. P = {}
    BY <1>1 DEF PhaseAfterRefresh
  <2>2. b.halfOpenAllowed = Opt.halfOpenRequests
    BY <1>1 DEF RefreshOpenState, Transition, TypeOK, Breaker
  <2>3. Cardinality(P) = 0
    BY <2>1, FS_EmptySet
  <2> HIDE DEF b, P
  <2> QED
    BY <2>1, <2>2, <2>3, OptAssumption DEF Options, b, P
<1>2. CASE ~(breaker.state = "OPEN" /\ ShouldAttemptReset(breaker, Opt))
  BY <1>2 DEF RefreshOpenState, PhaseAfterRefresh, ProbeBudget, Probes
<1> QED
  BY <1>1, <1>2

(* Every step respects the budget of the current episode. *)
LEMMA BudgetStep ==
    ASSUME TypeOK, ProbeBudget, [Next]_vars
    PROVE  ProbeBudget'
<1> DEFINE b == RefreshOpenState(breaker, Opt)
           P == {r \in Requests : PhaseAfterRefresh[r] = "probe"}
<1>1. /\ b \in Breaker
      /\ b.state = "HALF_OPEN" =>
            Cardinality(P) + b.halfOpenAllowed <= Opt.halfOpenRequests
  BY RefreshBudget, RefreshType, OptAssumption DEF TypeOK
<1> HIDE DEF b
<1>2. ASSUME breaker' = b, phase' = PhaseAfterRefresh PROVE ProbeBudget'
  BY <1>1, <1>2 DEF ProbeBudget, Probes
<1>3. ASSUME NEW r \in Requests, ExecuteAdmitted(r) PROVE ProbeBudget'
  <2> SUFFICES ASSUME breaker'.state = "HALF_OPEN"
               PROVE  Cardinality(Probes') + breaker'.halfOpenAllowed <= Opt.halfOpenRequests
    BY DEF ProbeBudget
  <2>1. /\ b.state = "HALF_OPEN"
        /\ breaker'.halfOpenAllowed = b.halfOpenAllowed - 1
    BY <1>1, <1>3 DEF ExecuteAdmitted, TakeProbe, b, Breaker
  <2>2. PhaseAfterRefresh \in [Requests -> Phases] /\ phase[r] = "idle"
    BY <1>3 DEF ExecuteAdmitted, PhaseAfterRefresh, TypeOK, Phases
  <2>3. PhaseAfterRefresh[r] = "idle"
    BY <2>2 DEF PhaseAfterRefresh
  <2>4. Probes' = P \cup {r} /\ r \notin P
    BY <1>3, <2>1, <2>2, <2>3 DEF ExecuteAdmitted, Probes, b
  <2>5. IsFiniteSet(P) /\ Cardinality(P) \in Nat
    BY RequestsAssumption, FS_Subset, FS_CardinalityType
  <2>6. Cardinality(Probes') = Cardinality(P) + 1
    BY <2>4, <2>5, FS_AddElement
  <2> HIDE DEF P
  <2> QED
    BY <1>1, <2>1, <2>5, <2>6, OptAssumption DEF Breaker, Options
<1>4. ASSUME NEW r \in Requests, ExecuteIgnored(r) PROVE ProbeBudget'
  <2>1. Probes' \subseteq Probes /\ Probes \subseteq Requests
    BY <1>4 DEF ExecuteIgnored, Finish, Probes, TypeOK, Phases
  <2>2. Cardinality(Probes') <= Cardinality(Probes) /\ Cardinality(Probes) \in Nat
        /\ Cardinality(Probes') \in Nat
    BY <2>1, FewerProbes
  <2> QED
    BY <1>4, <2>2, OptAssumption DEF ExecuteIgnored, ProbeBudget, TypeOK, Breaker, Options
<1>5. ASSUME breaker'.state # "HALF_OPEN" PROVE ProbeBudget'
  BY <1>5 DEF ProbeBudget
<1>6. ASSUME NEW r \in Requests, ExecuteResolved(r) PROVE breaker'.state # "HALF_OPEN"
  BY <1>6, ResultEndsEpisode DEF ExecuteResolved, TypeOK
<1>7. ASSUME NEW r \in Requests, NEW kind \in Kinds \cup {NoKind}, ExecuteFailed(r, kind)
      PROVE  breaker'.state # "HALF_OPEN"
  BY <1>7, ResultEndsEpisode DEF ExecuteFailed, TypeOK
<1>8. CASE RecordProviderFailure
  <2>1. CASE Admits(b)
    BY <1>1, <1>5, <1>8, <2>1, ResultEndsEpisode DEF RecordProviderFailure, b
  <2>2. CASE ~Admits(b)
    BY <1>2, <1>8, <2>2 DEF RecordProviderFailure, b
  <2> QED
    BY <2>1, <2>2
<1>9. CASE Reset
  <2>1. breaker'.state # "HALF_OPEN"
    BY <1>9 DEF Reset, ResetBreaker, Recovered, Transition, TypeOK, Breaker
  <2> QED
    BY <1>5, <2>1
<1>10. CASE Tick
  BY <1>10 DEF Tick, Older, ProbeBudget, Probes, TypeOK, Breaker
<1>11. CASE UNCHANGED vars
  BY <1>11 DEF vars, ProbeBudget, Probes
<1>12. ASSUME NEW r \in Requests, ExecuteRefused(r) PROVE ProbeBudget'
  BY <1>2, <1>12 DEF ExecuteRefused, b
<1>13. CASE Read
  BY <1>2, <1>13 DEF Read, b
<1> QED
  BY <1>3, <1>4, <1>5, <1>6, <1>7, <1>8, <1>9, <1>10, <1>11, <1>12, <1>13 DEF Next

(* At no time are more probes of one HALF_OPEN episode in flight or on offer than
   halfOpenRequests, for any number of concurrent requests. *)
THEOREM ProbeBudgetHolds == Spec => []ProbeBudget
<1>1. Init => TypeOK /\ ProbeBudget
  BY DEF Init, TypeOK, Fresh, Breaker, States, Phases, NoFailure, ProbeBudget
<1>2. TypeOK /\ ProbeBudget /\ [Next]_vars => (TypeOK /\ ProbeBudget)'
  BY TypeStep, BudgetStep
<1> QED
  BY <1>1, <1>2, PTL DEF Spec

-----------------------------------------------------------------------------
(* A step inside a HALF_OPEN episode keeps its probes, or loses the one of a
   request whose error is ignored. *)
LEMMA ConserveStep ==
    ASSUME TypeOK, [Next]_vars, HalfOpen, HalfOpen'
    PROVE  \/ Offer' = Offer
           \/ Offer' = Offer - 1 /\ UNCHANGED breaker
<1> DEFINE b == RefreshOpenState(breaker, Opt)
<1>1. b = breaker /\ PhaseAfterRefresh = phase
  BY DEF HalfOpen, RefreshOpenState, PhaseAfterRefresh
<1>2. IsFiniteSet(Probes) /\ Cardinality(Probes) \in Nat /\ breaker.halfOpenAllowed \in Nat
  BY RequestsAssumption, FS_Subset, FS_CardinalityType DEF Probes, TypeOK, Breaker
<1> HIDE DEF b
<1>3. ASSUME breaker' = breaker, phase' = phase PROVE Offer' = Offer
  BY <1>3 DEF Offer, Probes
<1>4. ASSUME NEW r \in Requests, ExecuteAdmitted(r) PROVE Offer' = Offer
  <2>1. Probes' = Probes \cup {r} /\ r \notin Probes
    BY <1>1, <1>4 DEF ExecuteAdmitted, Probes, b, HalfOpen, TypeOK, Phases
  <2>2. breaker'.halfOpenAllowed = breaker.halfOpenAllowed - 1
    BY <1>1, <1>4 DEF ExecuteAdmitted, TakeProbe, b, HalfOpen, TypeOK, Breaker
  <2>3. Cardinality(Probes') = Cardinality(Probes) + 1
    BY <1>2, <2>1, FS_AddElement
  <2> QED
    BY <1>2, <2>2, <2>3 DEF Offer
<1>5. ASSUME NEW r \in Requests, ExecuteIgnored(r)
      PROVE  (Offer' = Offer \/ Offer' = Offer - 1) /\ UNCHANGED breaker
  <2>1. Probes' = Probes \ {r} /\ UNCHANGED breaker
    BY <1>5 DEF ExecuteIgnored, Finish, Probes, TypeOK, Phases
  <2>2. Cardinality(Probes') = IF r \in Probes THEN Cardinality(Probes) - 1
                                               ELSE Cardinality(Probes)
    BY <1>2, <2>1, FS_RemoveElement
  <2> QED
    BY <1>2, <2>1, <2>2 DEF Offer
<1>6. ASSUME NEW r \in Requests, ExecuteResolved(r) PROVE FALSE
  BY <1>6, ResultEndsEpisode DEF ExecuteResolved, TypeOK, HalfOpen
<1>7. ASSUME NEW r \in Requests, NEW kind \in Kinds \cup {NoKind}, ExecuteFailed(r, kind)
      PROVE  FALSE
  BY <1>7, ResultEndsEpisode DEF ExecuteFailed, TypeOK, HalfOpen
<1>8. CASE RecordProviderFailure
  <2>1. ~Admits(b)
    BY <1>1, <1>8, ResultEndsEpisode DEF RecordProviderFailure, b, TypeOK, HalfOpen
  <2> QED
    BY <1>1, <1>3, <1>8, <2>1 DEF RecordProviderFailure, b
<1>9. CASE Reset
  BY <1>9 DEF Reset, ResetBreaker, Recovered, Transition, TypeOK, Breaker, HalfOpen
<1>10. CASE Tick
  BY <1>10 DEF Tick, Older, Offer, Probes, TypeOK, Breaker
<1>11. CASE UNCHANGED vars
  BY <1>3, <1>11 DEF vars
<1>12. ASSUME NEW r \in Requests, ExecuteRefused(r) PROVE Offer' = Offer
  BY <1>1, <1>3, <1>12 DEF ExecuteRefused, b
<1>13. CASE Read
  BY <1>1, <1>3, <1>13 DEF Read, b
<1> QED
  BY <1>4, <1>5, <1>6, <1>7, <1>8, <1>9, <1>10, <1>11, <1>12, <1>13 DEF Next

(* Only probes that end in an ignored error are ever lost to an episode, for any
   number of requests and probes. *)
THEOREM ProbesConservedHolds == Spec => ProbesConserved
<1>1. Init => TypeOK
  BY DEF Init, TypeOK, Fresh, Breaker, States, Phases, NoFailure
<1>2. TypeOK /\ [Next]_vars => TypeOK'
  BY TypeStep
<1>3. TypeOK /\ [Next]_vars =>
          [HalfOpen /\ HalfOpen' =>
             \/ Offer' = Offer
             \/ Offer' = Offer - 1 /\ UNCHANGED breaker]_vars
  BY ConserveStep
<1> QED
  BY <1>1, <1>2, <1>3, PTL DEF Spec, ProbesConserved
=============================================================================
