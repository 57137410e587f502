-------------------------- MODULE ChatRequestProofs --------------------------
(***************************************************************************)
(* Type correctness of ChatRequest and the bound on what one request sends *)
(* upstream, for every set of requests, every finite set of connections    *)
(* and every number of retries.                                            *)
(***************************************************************************)
EXTENDS ChatRequest, FiniteSetTheorems, TLAPS

-----------------------------------------------------------------------------
(* Every method of BreakerCore maps breakers to breakers, for every set of failure
   kinds and every option record. *)

(* _transition keeps the object's type and touches only state and budget. *)
LEMMA TransitionType ==
    ASSUME NEW b \in Breaker, NEW o \in Options, NEW s \in States
    PROVE  Transition(b, o, s) \in Breaker
BY DEF Transition, Breaker, Options

(* A status read keeps the object's type. *)
LEMMA RefreshType ==
    ASSUME NEW b \in Breaker, NEW o \in Options
    PROVE  RefreshOpenState(b, o) \in Breaker
BY TransitionType DEF RefreshOpenState, States

(* Closing the circuit, by success or by reset(), keeps the object's type. *)
LEMMA RecoveredType ==
    ASSUME NEW b \in Breaker, NEW o \in Options
    PROVE  /\ Recovered(b, o) \in Breaker
           /\ ResetBreaker(b, o) \in Breaker
BY DEF Recovered, ResetBreaker, Transition, Breaker, Options, States, NoFailure

(* _onSuccess() keeps the object's type; in particular no count goes negative. *)
LEMMA OnSuccessType ==
    ASSUME NEW b \in Breaker, NEW o \in Options
    PROVE  OnSuccess(b, o) \in Breaker
<1>1. CASE b.state = "OPEN"
  BY <1>1, RecoveredType DEF OnSuccess, ResetBreaker
<1>2. CASE b.state = "HALF_OPEN"
  BY <1>2, RecoveredType DEF OnSuccess
<1>3. CASE b.state \notin {"OPEN", "HALF_OPEN"}
  <2> DEFINE c == [b EXCEPT !.failureCount = IF @ > 0 THEN @ - 1 ELSE 0]
  <2>1. c \in Breaker
    BY DEF Breaker
  <2>2. OnSuccess(b, o) \in {c, Transition(c, o, "CLOSED")}
    BY <1>3 DEF OnSuccess
  <2> QED
    BY <2>1, <2>2, TransitionType DEF States
<1> QED
  BY <1>1, <1>2, <1>3

(* The bookkeeping of _onFailure() keeps the object's type. *)
LEMMA CountFailureType ==
    ASSUME NEW b \in Breaker, NEW kind \in Kinds \cup {NoKind}
    PROVE  CountFailure(b, kind) \in Breaker
<1> DEFINE f == [k \in Kinds |-> b.kindFailureCounts[k] + (IF k = kind THEN 1 ELSE 0)]
<1>1. f \in [Kinds -> Nat]
  BY DEF Breaker
<1>2. CountFailure(b, kind) =
          [b EXCEPT !.failureCount = @ + 1, !.age = 0, !.lastFailureKind = kind,
                    !.kindFailureCounts = f]
  BY DEF CountFailure
<1>3. 0 \in 0 .. MaxAge /\ b.failureCount + 1 \in Nat
  BY BackoffAssumption DEF Breaker
<1> HIDE DEF f
<1>4. [b EXCEPT !.failureCount = @ + 1, !.age = 0, !.lastFailureKind = kind] \in Breaker
  BY <1>3 DEF Breaker
<1> QED
  BY <1>1, <1>2, <1>4 DEF Breaker

(* _onFailure() keeps the object's type, whatever kind the failure has. *)
LEMMA OnFailureType ==
    ASSUME NEW b \in Breaker, NEW o \in Options, NEW kind \in Kinds \cup {NoKind}
    PROVE  OnFailure(b, o, kind) \in Breaker
<1> DEFINE c == CountFailure(b, kind)
           d == [c EXCEPT !.openCycleCount = @ + 1]
<1>1. c \in Breaker
  BY CountFailureType
<1>2. d \in Breaker
  BY <1>1 DEF Breaker
<1>3. OnFailure(b, o, kind) \in {c, Transition(c, o, "OPEN"), Transition(d, o, "OPEN"),
                                 Transition(c, o, "DEGRADED")}
  <2> HIDE DEF c, d
  <2>1. CASE KindLimitReached(c, o, kind)
    BY <2>1 DEF OnFailure, c
  <2>2. CASE ~KindLimitReached(c, o, kind)
    BY <2>2 DEF OnFailure, c, d
  <2> QED
    BY <2>1, <2>2
<1> QED
  BY <1>1, <1>2, <1>3, TransitionType DEF States

(* A probe is only taken of what is left. *)
LEMMA TakeProbeType ==
    ASSUME NEW b \in Breaker, b.state = "HALF_OPEN" => b.halfOpenAllowed > 0
    PROVE  TakeProbe(b) \in Breaker
BY DEF TakeProbe, Breaker

(* Time passes. *)
LEMMA OlderType ==
    ASSUME NEW b \in Breaker
    PROVE  Older(b) \in Breaker
BY BackoffAssumption DEF Older, Breaker, Lesser, NoFailure

(* A breaker that was just made is one. *)
LEMMA FreshType == Fresh \in Breaker
BY DEF Fresh, Breaker, States, NoFailure

-----------------------------------------------------------------------------
(* The inductive invariant.  BoundedDispatch is not inductive: it holds because
   every dispatch uses up a connection of the attempt or the one retry after an
   early end of stream, which is what Paid counts. *)
OnConnection == {"dispatch", "running", "result"}

(* What the locals q of a request account for: all connections in each attempt
   that is over, the excluded ones in this attempt, the retry. *)
Paid(q) == Cardinality(Accounts) * q.attempt + Cardinality(q.excluded) + q.eofRetries

(* The dispatch whose result is not handled yet is not paid for. *)
Outstanding(q) == IF q.pc \in {"running", "result"} THEN 1 ELSE 0

Accounted(q) ==
    /\ q.pc \in OnConnection => q.account \in Accounts \ q.excluded
    /\ q.pc = "wait" => q.attempt < MaxRetries
    /\ q.sent <= Paid(q) + Outstanding(q)

Inv == TypeOK /\ \A r \in Requests : Accounted(req[r])

-----------------------------------------------------------------------------
(* The sizes Paid adds up are natural numbers; the excluded connections are at
   most all of them, fewer when one is in use. *)
LEMMA ExcludedSize ==
    ASSUME NEW q \in Local
    PROVE  /\ Cardinality(Accounts) \in Nat
           /\ Cardinality(q.excluded) \in Nat
           /\ Cardinality(q.excluded) <= Cardinality(Accounts)
           /\ \A a \in Accounts \ q.excluded :
                 /\ Cardinality(q.excluded \cup {a}) = Cardinality(q.excluded) + 1
                 /\ Cardinality(q.excluded) < Cardinality(Accounts)
<1>1. q.excluded \subseteq Accounts /\ IsFiniteSet(Accounts)
  BY AccountsAssumption DEF Local
<1>2. IsFiniteSet(q.excluded) /\ Cardinality(q.excluded) <= Cardinality(Accounts)
  BY <1>1, FS_Subset
<1>3. Cardinality(Accounts) \in Nat /\ Cardinality(q.excluded) \in Nat
  BY <1>1, <1>2, FS_CardinalityType
<1>4. ASSUME NEW a \in Accounts \ q.excluded
      PROVE  /\ Cardinality(q.excluded \cup {a}) = Cardinality(q.excluded) + 1
             /\ Cardinality(q.excluded) < Cardinality(Accounts)
  <2>1. Cardinality(q.excluded \cup {a}) = Cardinality(q.excluded) + 1
    BY <1>2, FS_AddElement
  <2>2. q.excluded \cup {a} \subseteq Accounts
    BY <1>1
  <2>3. Cardinality(q.excluded \cup {a}) <= Cardinality(Accounts)
    BY <1>1, <2>2, FS_Subset
  <2> QED
    BY <1>3, <2>1, <2>3
<1> QED
  BY <1>2, <1>3, <1>4

(* Multiplication by a natural number is monotonic and distributes over + 1. *)
LEMMA Times ==
    ASSUME NEW n \in Nat, NEW x \in Nat, NEW y \in Nat, x <= y
    PROVE  n * x \in Nat /\ n * y \in Nat /\ n * x <= n * y /\ n * (x + 1) = n * x + n
BY SMTT(30)

(* The bound is a natural number. *)
LEMMA DispatchBoundType == DispatchBound \in Nat
<1>1. Cardinality(Accounts) \in Nat
  BY AccountsAssumption, FS_CardinalityType
<1> QED
  BY <1>1, RetriesAssumption DEF DispatchBound

(* A request that accounts for what it sent stays within the bound. *)
LEMMA AccountedBounded ==
    ASSUME NEW q \in Local, Accounted(q)
    PROVE  q.sent <= DispatchBound
<1> DEFINE N == Cardinality(Accounts)
           E == Cardinality(q.excluded)
<1>1. N \in Nat /\ E \in Nat /\ E <= N /\ (q.pc \in {"running", "result"} => E < N)
  BY ExcludedSize DEF Accounted, OnConnection
<1>2. /\ q.attempt \in Nat /\ q.attempt <= MaxRetries /\ q.eofRetries \in 0 .. 1
      /\ q.sent \in Nat
  BY RetriesAssumption, DispatchBoundType DEF Local
<1>3. q.sent <= N * q.attempt + E + q.eofRetries + Outstanding(q)
  BY DEF Accounted, Paid
<1>4. DispatchBound = N * (MaxRetries + 1) + 1
  BY DEF DispatchBound
<1> HIDE DEF N, E
<1>5. /\ N * q.attempt \in Nat /\ N * MaxRetries \in Nat
      /\ N * q.attempt <= N * MaxRetries
      /\ N * (MaxRetries + 1) = N * MaxRetries + N
  <2>1. N * q.attempt <= N * MaxRetries /\ N * q.attempt \in Nat
    BY <1>1, <1>2, RetriesAssumption, Times
  <2>2. N * MaxRetries \in Nat /\ N * (MaxRetries + 1) = N * MaxRetries + N
    BY <1>1, RetriesAssumption, Times
  <2> QED
    BY <2>1, <2>2
<1>6. /\ Outstanding(q) \in 0 .. 1
      /\ Outstanding(q) = 1 => q.pc \in {"running", "result"}
  BY DEF Outstanding
<1> DEFINE over == N * q.attempt
           most == N * MaxRetries
<1>7. /\ q.sent <= over + E + q.eofRetries + Outstanding(q)
      /\ DispatchBound = (most + N) + 1
      /\ over \in Nat /\ most \in Nat /\ over <= most
  BY <1>3, <1>4, <1>5
<1> HIDE DEF over, most
<1> QED
  BY <1>1, <1>2, <1>6, <1>7, RetriesAssumption

-----------------------------------------------------------------------------
(* An idle handler has sent nothing. *)
LEMMA IdleAccounted == Idle \in Local /\ Accounted(Idle)
<1>1. Idle \in Local
  BY RetriesAssumption, DispatchBoundType DEF Idle, Local, Pcs, Statuses
<1>2. Paid(Idle) \in Nat
  BY <1>1, ExcludedSize DEF Paid, Idle
<1> QED
  BY <1>1, <1>2 DEF Accounted, Outstanding, OnConnection, Idle

(* A step that gives one handler accounted locals leaves all of them so. *)
LEMMA SetAccounted ==
    ASSUME Inv, NEW r \in Requests, NEW q \in Local, Accounted(q), Set(r, q)
    PROVE  req' \in [Requests -> Local] /\ (\A s \in Requests : Accounted(req[s]))'
<1>1. /\ req' \in [Requests -> Local]
      /\ \A s \in Requests : req'[s] = IF s = r THEN q ELSE req[s]
  BY DEF Inv, TypeOK, Set
<1>2. ASSUME NEW s \in Requests PROVE Accounted(req'[s])
  <2>1. CASE s = r
    BY <1>1, <2>1
  <2>2. CASE s # r
    <3>1. req'[s] = req[s]
      BY <1>1, <2>2
    <3> QED
      BY <3>1 DEF Inv
  <2> QED
    BY <2>1, <2>2
<1> QED
  BY <1>1, <1>2 DEF Accounted, Paid, Outstanding

(* A handler that returns leaves the others as they are. *)
LEMMA ReturnAccounted ==
    ASSUME Inv, NEW r \in Requests, Return(r)
    PROVE  req' \in [Requests -> Local] /\ (\A s \in Requests : Accounted(req[s]))'
BY IdleAccounted, SetAccounted DEF Return

(* Handing the failed connection to the exclusion set pays for its dispatch. *)
LEMMA FallBackAccounted ==
    ASSUME Inv, NEW r \in Requests, NEW status \in Statuses, req[r].pc = "result",
           FallBack(r, status)
    PROVE  req' \in [Requests -> Local] /\ (\A s \in Requests : Accounted(req[s]))'
<1> DEFINE q == req[r]
           p == [q EXCEPT !.pc = "select", !.lastStatus = status,
                          !.excluded = @ \cup {q.account}]
<1>1. q \in Local /\ Accounted(q)
  BY DEF Inv, TypeOK
<1>2. q.account \in Accounts \ q.excluded
  BY <1>1 DEF Accounted, OnConnection
<1>3. /\ p \in Local
      /\ p.pc = "select" /\ p.sent = q.sent /\ p.attempt = q.attempt
      /\ p.eofRetries = q.eofRetries /\ p.excluded = q.excluded \cup {q.account}
  BY <1>1, <1>2 DEF Local, Pcs
<1>4. Set(r, p)
  BY DEF FallBack
<1>5. q.sent <= Paid(q) + 1
  BY <1>1 DEF Accounted, Outstanding
<1>6. Paid(p) = Paid(q) + 1 /\ Paid(q) \in Nat
  <2> HIDE DEF p, q
  <2>1. /\ Cardinality(p.excluded) = Cardinality(q.excluded) + 1
        /\ Cardinality(q.excluded) \in Nat
        /\ Cardinality(Accounts) \in Nat
    BY <1>1, <1>2, <1>3, ExcludedSize
  <2>2. q.attempt \in Nat /\ q.eofRetries \in Nat
    BY <1>1 DEF Local
  <2> DEFINE over == Cardinality(Accounts) * q.attempt
  <2>3. over \in Nat
    BY <2>1, <2>2, Times
  <2>4. /\ Paid(q) = over + Cardinality(q.excluded) + q.eofRetries
        /\ Paid(p) = over + (Cardinality(q.excluded) + 1) + q.eofRetries
    BY <1>3, <2>1, Zenon DEF Paid
  <2> HIDE DEF over
  <2> QED
    BY <2>1, <2>2, <2>3, <2>4
<1>7. Accounted(p)
  <2> HIDE DEF p, q
  <2>1. q.sent \in Nat
    BY <1>1, DispatchBoundType DEF Local
  <2> QED
    BY <1>3, <1>5, <1>6, <2>1 DEF Accounted, Outstanding, OnConnection
<1> QED
  BY <1>3, <1>4, <1>7, SetAccounted

(* Paid adds up natural numbers. *)
LEMMA PaidType ==
    ASSUME NEW q \in Local
    PROVE  Paid(q) \in Nat /\ q.sent \in Nat
<1>1. /\ Cardinality(Accounts) \in Nat /\ Cardinality(q.excluded) \in Nat
      /\ q.attempt \in Nat /\ q.eofRetries \in Nat /\ q.sent \in Nat
  BY ExcludedSize, DispatchBoundType DEF Local
<1>2. Cardinality(Accounts) * q.attempt \in Nat
  BY <1>1, Times
<1> DEFINE over == Cardinality(Accounts) * q.attempt
<1>3. Paid(q) = over + Cardinality(q.excluded) + q.eofRetries
  BY Zenon DEF Paid
<1>4. over \in Nat
  BY <1>2
<1> HIDE DEF over
<1> QED
  BY <1>1, <1>3, <1>4

(* Another attempt pays for every connection, and the excluded ones were at most
   those. *)
LEMMA NextAttemptAccounted ==
    ASSUME NEW q \in Local, Accounted(q), q.pc = "wait"
    PROVE  /\ [q EXCEPT !.pc = "select", !.attempt = @ + 1, !.excluded = {}] \in Local
           /\ Accounted([q EXCEPT !.pc = "select", !.attempt = @ + 1, !.excluded = {}])
<1> DEFINE p == [q EXCEPT !.pc = "select", !.attempt = @ + 1, !.excluded = {}]
           N == Cardinality(Accounts)
<1>1. q.attempt \in Nat /\ q.attempt < MaxRetries /\ q.eofRetries \in Nat
  BY DEF Accounted, Local
<1>2. q.attempt + 1 \in 0 .. MaxRetries
  BY <1>1, RetriesAssumption
<1>3. /\ p \in Local
      /\ p.pc = "select" /\ p.sent = q.sent /\ p.attempt = q.attempt + 1
      /\ p.eofRetries = q.eofRetries /\ p.excluded = {}
  BY <1>2 DEF Local, Pcs
<1>4. N \in Nat /\ Cardinality(q.excluded) \in Nat /\ Cardinality(q.excluded) <= N
  BY ExcludedSize
<1>5. Cardinality(p.excluded) = 0
  BY <1>3, FS_EmptySet
<1>6. N * q.attempt \in Nat /\ N * (q.attempt + 1) = N * q.attempt + N
  BY <1>1, <1>4, Times
<1> HIDE DEF p, N
<1>7. Paid(q) <= Paid(p)
  <2>1. Paid(q) = N * q.attempt + Cardinality(q.excluded) + q.eofRetries
    BY DEF Paid, N
  <2>2. Paid(p) = N * (q.attempt + 1) + 0 + q.eofRetries
    BY <1>3, <1>5, Zenon DEF Paid, N
  <2> DEFINE over == N * q.attempt
             next == N * (q.attempt + 1)
  <2>3. /\ Paid(q) = over + Cardinality(q.excluded) + q.eofRetries
        /\ Paid(p) = next + 0 + q.eofRetries
        /\ over \in Nat /\ next = over + N
    BY <1>6, <2>1, <2>2
  <2> HIDE DEF over, next
  <2> QED
    BY <1>1, <1>4, <2>3
<1>8. q.sent <= Paid(q) /\ q.sent \in Nat /\ Paid(q) \in Nat /\ Paid(p) \in Nat
  BY <1>3, PaidType DEF Accounted, Outstanding
<1>9. Accounted(p)
  BY <1>3, <1>7, <1>8 DEF Accounted, Outstanding, OnConnection
<1> QED
  BY <1>3, <1>9 DEF p

-----------------------------------------------------------------------------
(* Every step of the handlers, the cooldowns and the clock keeps the invariant. *)
LEMMA InvStep == Inv /\ [Next]_vars => Inv'
<1> SUFFICES ASSUME Inv, [Next]_vars PROVE Inv'
  OBVIOUS
<1> DEFINE ReqOK  == /\ req \in [Requests -> Local]
                     /\ \A r \in Requests : Accounted(req[r])
           RestOK == /\ breaker \in Breaker
                     /\ cooling \in [Accounts -> BOOLEAN]
                     /\ errorCode \in [Accounts -> Statuses]
                     /\ streak \in 0 .. Opt.failureThreshold
<1>1. ReqOK /\ RestOK
  BY DEF Inv, TypeOK
<1>2. SUFFICES ReqOK' /\ RestOK'
  BY DEF Inv, TypeOK
<1>3. ASSUME NEW r \in Requests
      PROVE  /\ req[r] \in Local /\ Accounted(req[r])
             /\ req[r].pc \in OnConnection => req[r].account \in Accounts
             /\ req[r].sent \in Nat /\ Paid(req[r]) \in Nat
             /\ req[r].sent <= Paid(req[r]) + Outstanding(req[r])
  BY <1>1, PaidType DEF Accounted
<1>4. /\ RefreshOpenState(breaker, Opt) \in Breaker
      /\ OnSuccess(breaker, Opt) \in Breaker
      /\ OnFailure(breaker, Opt, NoKind) \in Breaker
      /\ Older(breaker) \in Breaker
  BY <1>1, OptAssumption, RefreshType, OnSuccessType, OnFailureType, OlderType
<1>5. UpstreamFailed => streak' \in 0 .. Opt.failureThreshold
  BY <1>1, OptAssumption DEF UpstreamFailed, Lesser, Options
<1>6. UNCHANGED req => ReqOK'
  BY <1>1 DEF Accounted, Paid, Outstanding
<1>7. ASSUME NEW r \in Requests, Return(r) PROVE ReqOK'
  BY <1>7, ReturnAccounted
(* A handler moves on without paying or owing anything new. *)
<1>8. ASSUME NEW r \in Requests, NEW q \in Local, Set(r, q),
             q.pc \in OnConnection => q.account \in Accounts \ q.excluded,
             q.pc = "wait" => q.attempt < MaxRetries,
             Paid(q) >= Paid(req[r]), q.sent = req[r].sent,
             Outstanding(q) >= Outstanding(req[r])
      PROVE  ReqOK'
  <2>1. Paid(q) \in Nat /\ Outstanding(q) \in 0 .. 1 /\ Outstanding(req[r]) \in 0 .. 1
    BY PaidType DEF Outstanding
  <2>2. q.sent <= Paid(q) + Outstanding(q)
    BY <1>3, <1>8, <2>1
  <2>3. Accounted(q)
    BY <1>8, <2>2 DEF Accounted
  <2> QED
    BY <1>8, <2>3, SetAccounted
<1> HIDE DEF ReqOK
<1>9. ASSUME NEW r \in Requests, Gate(r) PROVE ReqOK' /\ RestOK'
  <2>1. RestOK'
    BY <1>1, <1>4, <1>9 DEF Gate
  <2>2. CASE Return(r)
    BY <1>7, <2>1, <2>2
  <2>3. CASE Set(r, [Idle EXCEPT !.pc = "select"])
    <3> DEFINE q == [Idle EXCEPT !.pc = "select"]
    <3>1. q \in Local /\ Accounted(q)
      <4>1. q \in Local
        BY IdleAccounted DEF Local, Pcs
      <4>2. q.pc = "select" /\ q.sent = 0
        BY DEF Idle
      <4> QED
        BY <4>1, <4>2, PaidType DEF Accounted, Outstanding, OnConnection
    <3>2. ReqOK'
      BY <2>3, <3>1, SetAccounted DEF ReqOK
    <3> QED
      BY <2>1, <3>2
  <2> QED
    BY <1>9, <2>2, <2>3 DEF Gate
<1>10. ASSUME NEW r \in Requests, NEW a \in Accounts, Select(r, a) PROVE ReqOK' /\ RestOK'
  <2> DEFINE q == [req[r] EXCEPT !.pc = "dispatch", !.account = a]
  <2>1. /\ q \in Local /\ q.pc = "dispatch" /\ q.account = a /\ q.sent = req[r].sent
        /\ q.excluded = req[r].excluded /\ q.attempt = req[r].attempt
        /\ q.eofRetries = req[r].eofRetries
    BY <1>3 DEF Local, Pcs
  <2>2. Set(r, q) /\ a \in Accounts \ req[r].excluded /\ req[r].pc = "select"
    BY <1>10 DEF Select, Candidates
  <2> HIDE DEF q
  <2>3. Paid(q) = Paid(req[r]) /\ Outstanding(q) = 0 /\ Outstanding(req[r]) = 0
    BY <2>1, <2>2 DEF Paid, Outstanding
  <2>4. ReqOK'
    BY <1>3, <1>8, <2>1, <2>2, <2>3 DEF OnConnection
  <2> QED
    BY <1>1, <1>10, <2>4 DEF Select
<1>11. ASSUME NEW r \in Requests, SelectWait(r) PROVE ReqOK' /\ RestOK'
  <2> DEFINE q == [req[r] EXCEPT !.pc = "wait"]
  <2>1. /\ q \in Local /\ q.pc = "wait" /\ q.sent = req[r].sent
        /\ q.excluded = req[r].excluded /\ q.attempt = req[r].attempt
        /\ q.eofRetries = req[r].eofRetries
    BY <1>3 DEF Local, Pcs
  <2>2. Set(r, q) /\ req[r].pc = "select" /\ req[r].attempt < MaxRetries
    BY <1>11 DEF SelectWait
  <2> HIDE DEF q
  <2>3. Paid(q) = Paid(req[r]) /\ Outstanding(q) = 0 /\ Outstanding(req[r]) = 0
    BY <2>1, <2>2 DEF Paid, Outstanding
  <2>4. ReqOK'
    BY <1>3, <1>8, <2>1, <2>2, <2>3 DEF OnConnection
  <2> QED
    BY <1>1, <1>11, <2>4 DEF SelectWait
<1>12. ASSUME NEW r \in Requests, NEW a \in Accounts, SelectAllRateLimited(r, a)
       PROVE  ReqOK' /\ RestOK'
  BY <1>1, <1>4, <1>7, <1>12 DEF SelectAllRateLimited, RecordFailure
<1>13. ASSUME NEW r \in Requests, SelectNone(r) \/ WaitAborted(r) \/ SettleAborted(r)
       PROVE  ReqOK' /\ RestOK'
  BY <1>1, <1>7, <1>13 DEF SelectNone, WaitAborted, SettleAborted
<1>14. ASSUME NEW r \in Requests, WaitElapsed(r) PROVE ReqOK' /\ RestOK'
  <2> DEFINE q == [req[r] EXCEPT !.pc = "select", !.attempt = @ + 1, !.excluded = {}]
  <2>1. q \in Local /\ Accounted(q) /\ Set(r, q)
    BY <1>3, <1>14, NextAttemptAccounted DEF WaitElapsed
  <2>2. ReqOK'
    BY <2>1, SetAccounted DEF ReqOK
  <2> QED
    BY <1>1, <1>14, <2>2 DEF WaitElapsed
<1>15. ASSUME NEW r \in Requests, Dispatch(r) PROVE ReqOK' /\ RestOK'
  <2> DEFINE b == RefreshOpenState(breaker, Opt)
             p == [req[r] EXCEPT !.pc = "running",
                                 !.sent = Lesser(@ + 1, DispatchBound + 1)]
             q == [req[r] EXCEPT !.pc = "result", !.result = "refused"]
  <2>1. req[r].pc = "dispatch" /\ Outstanding(req[r]) = 0
    BY <1>15 DEF Dispatch, Outstanding
  <2>2. req[r].account \in Accounts \ req[r].excluded
    BY <1>3, <2>1 DEF Accounted, OnConnection
  <2>3. CASE Admits(b)
    <3>1. TakeProbe(b) \in Breaker
      <4> HIDE DEF b
      <4>1. b \in Breaker /\ (b.state = "HALF_OPEN" => b.halfOpenAllowed > 0)
        BY <1>4, <2>3 DEF Admits, b
      <4> QED
        BY <4>1, TakeProbeType
    <3>2. /\ Lesser(req[r].sent + 1, DispatchBound + 1) \in 0 .. DispatchBound + 1
          /\ Lesser(req[r].sent + 1, DispatchBound + 1) <= req[r].sent + 1
      BY <1>3, DispatchBoundType DEF Lesser
    <3>3. /\ p \in Local /\ p.pc = "running" /\ p.account = req[r].account
          /\ p.sent = Lesser(req[r].sent + 1, DispatchBound + 1)
          /\ p.excluded = req[r].excluded /\ p.attempt = req[r].attempt
          /\ p.eofRetries = req[r].eofRetries
      BY <1>3, <3>2 DEF Local, Pcs
    <3>4. Set(r, p) /\ breaker' = TakeProbe(b) /\ UNCHANGED <<cooling, errorCode, streak>>
      BY <1>15, <2>3 DEF Dispatch
    <3>5. Accounted(p)
      <4> HIDE DEF p
      <4>1. Paid(p) = Paid(req[r]) /\ Outstanding(p) = 1
        BY <3>3 DEF Paid, Outstanding
      <4>2. p.sent <= Paid(p) + Outstanding(p)
        BY <1>3, <2>1, <3>2, <3>3, <4>1, PaidType
      <4> QED
        BY <2>2, <3>3, <4>2 DEF Accounted
    <3>6. ReqOK'
      BY <3>3, <3>4, <3>5, SetAccounted DEF ReqOK
    <3> QED
      BY <1>1, <3>1, <3>4, <3>6
  <2>4. CASE ~Admits(b)
    <3>1. /\ q \in Local /\ q.pc = "result" /\ q.account = req[r].account
          /\ q.sent = req[r].sent
          /\ q.excluded = req[r].excluded /\ q.attempt = req[r].attempt
          /\ q.eofRetries = req[r].eofRetries
      BY <1>3 DEF Local, Pcs
    <3>2. Set(r, q) /\ breaker' = b /\ UNCHANGED <<cooling, errorCode, streak>>
      BY <1>15, <2>4 DEF Dispatch
    <3>3. Paid(q) = Paid(req[r]) /\ Outstanding(q) = 1
      <4> HIDE DEF q
      <4> QED BY <3>1 DEF Paid, Outstanding
    <3>4. ReqOK'
      <4> HIDE DEF q
      <4> QED BY <1>3, <1>8, <2>1, <2>2, <3>1, <3>2, <3>3
    <3> QED
      BY <1>1, <1>4, <3>2, <3>4
  <2> QED
    BY <2>3, <2>4
(* A call came back with a result: the dispatch stays outstanding. *)
<1>16. ASSUME NEW r \in Requests, NEW result \in Results, req[r].pc = "running",
              Set(r, [req[r] EXCEPT !.pc = "result", !.result = result])
       PROVE  ReqOK'
  <2> DEFINE q == [req[r] EXCEPT !.pc = "result", !.result = result]
  <2>1. /\ q \in Local /\ q.pc = "result" /\ q.account = req[r].account
        /\ q.sent = req[r].sent
        /\ q.excluded = req[r].excluded /\ q.attempt = req[r].attempt
        /\ q.eofRetries = req[r].eofRetries
    BY <1>3 DEF Local, Pcs
  <2>2. Set(r, q)
    BY <1>16
  <2> HIDE DEF q
  <2>3. Paid(q) = Paid(req[r]) /\ Outstanding(q) = 1 /\ Outstanding(req[r]) = 1
    BY <1>16, <2>1 DEF Paid, Outstanding
  <2>4. req[r].account \in Accounts \ req[r].excluded
    BY <1>3, <1>16 DEF Accounted, OnConnection
  <2> QED
    BY <1>3, <1>8, <2>1, <2>2, <2>3, <2>4
<1>17. ASSUME NEW r \in Requests, NEW result \in Results, Settle(r, result)
       PROVE  ReqOK' /\ RestOK'
  <2>1. ReqOK'
    BY <1>16, <1>17 DEF Settle
  <2>2. breaker' \in Breaker
    BY <1>4, <1>17 DEF Settle, RecordSuccess
  <2>3. CASE result = "ok"
    <3>1. /\ cooling' = [cooling EXCEPT ![req[r].account] = FALSE]
          /\ errorCode' = [errorCode EXCEPT ![req[r].account] = "none"]
          /\ streak' = 0
      BY <1>17, <2>3 DEF Settle
    <3>2. errorCode' \in [Accounts -> Statuses] /\ cooling' \in [Accounts -> BOOLEAN]
      BY <1>1, <3>1 DEF Statuses
    <3>3. streak' \in 0 .. Opt.failureThreshold
      BY <3>1, OptAssumption DEF Options
    <3> QED
      BY <2>1, <2>2, <3>2, <3>3
  <2>4. CASE result # "ok"
    BY <1>1, <1>5, <1>17, <2>1, <2>2, <2>4 DEF Settle
  <2> QED
    BY <2>3, <2>4
<1>18. ASSUME NEW r \in Requests, SettleThrown(r) PROVE ReqOK' /\ RestOK'
  BY <1>1, <1>4, <1>5, <1>7, <1>18 DEF SettleThrown, RecordFailure
<1>19. ASSUME NEW r \in Requests, SettleUnreachable(r) PROVE ReqOK' /\ RestOK'
  <2>1. ReqOK'
    BY <1>16, <1>19 DEF SettleUnreachable, Results
  <2> QED
    BY <1>1, <1>4, <1>5, <1>19, <2>1 DEF SettleUnreachable, RecordFailure
<1>20. ASSUME NEW r \in Requests, HandleOk(r) PROVE ReqOK' /\ RestOK'
  BY <1>1, <1>4, <1>7, <1>20 DEF HandleOk, RecordSuccess
<1>21. ASSUME NEW r \in Requests, HandleEof(r) PROVE ReqOK' /\ RestOK'
  <2>1. RestOK'
    BY <1>1, <1>21 DEF HandleEof
  <2>2. CASE req[r].eofRetries # 0
    BY <1>7, <1>21, <2>1, <2>2 DEF HandleEof
  <2>3. CASE req[r].eofRetries = 0
    <3> DEFINE q == [req[r] EXCEPT !.pc = "select", !.eofRetries = 1]
    <3>1. /\ q \in Local /\ q.pc = "select" /\ q.sent = req[r].sent
          /\ q.excluded = req[r].excluded /\ q.attempt = req[r].attempt
          /\ q.eofRetries = 1
      <4>1. req[r] \in Local /\ "select" \in Pcs /\ 1 \in 0 .. 1
        BY <1>3 DEF Pcs
      <4> QED
        BY <4>1 DEF Local
    <3>2. Set(r, q) /\ req[r].pc = "result"
      BY <1>21, <2>3 DEF HandleEof
    <3> HIDE DEF q
    (* The retry pays for the dispatch that ended early. *)
    <3>3. Paid(q) = Paid(req[r]) + 1
      <4>1. Cardinality(Accounts) \in Nat /\ Cardinality(req[r].excluded) \in Nat
        BY <1>3, ExcludedSize
      <4>2. req[r].attempt \in Nat
        BY <1>3 DEF Local
      <4> DEFINE over == Cardinality(Accounts) * req[r].attempt
      <4>3. over \in Nat
        BY <4>1, <4>2, Times
      <4>4. /\ Paid(req[r]) = over + Cardinality(req[r].excluded) + 0
            /\ Paid(q) = over + Cardinality(req[r].excluded) + 1
        BY <2>3, <3>1, Zenon DEF Paid
      <4> HIDE DEF over
      <4> QED
        BY <4>1, <4>3, <4>4
    <3>4. q.sent <= Paid(q) + Outstanding(q)
      BY <1>3, <3>1, <3>2, <3>3 DEF Outstanding
    <3>5. Accounted(q)
      BY <3>1, <3>4 DEF Accounted, OnConnection
    <3>6. ReqOK'
      BY <3>1, <3>2, <3>5, SetAccounted DEF ReqOK
    <3> QED
      BY <2>1, <3>6
  <2> QED
    BY <2>2, <2>3
<1>22. ASSUME NEW r \in Requests, HandleCapacity(r) PROVE ReqOK' /\ RestOK'
  <2>1. ReqOK'
    BY <1>22, FallBackAccounted DEF HandleCapacity, Statuses, ReqOK
  <2> QED
    BY <1>1, <1>22, <2>1 DEF HandleCapacity
<1>23. ASSUME NEW r \in Requests, NEW cools \in BOOLEAN, HandleUnavailable(r, cools)
       PROVE  ReqOK' /\ RestOK'
  <2>1. req[r].result \in Statuses /\ req[r].pc = "result" /\ FallBack(r, req[r].result)
    BY <1>23 DEF HandleUnavailable, Statuses
  <2>2. ReqOK'
    BY <2>1, FallBackAccounted DEF ReqOK
  <2>3. cooling' \in [Accounts -> BOOLEAN]
    BY <1>1, <1>23 DEF HandleUnavailable
  <2>4. errorCode' \in [Accounts -> Statuses]
    BY <1>1, <1>23, <2>1 DEF HandleUnavailable
  <2> QED
    BY <1>1, <1>23, <2>2, <2>3, <2>4 DEF HandleUnavailable
<1>24. ASSUME NEW r \in Requests, HandleFinal(r) PROVE ReqOK' /\ RestOK'
  BY <1>1, <1>4, <1>7, <1>24 DEF HandleFinal, RecordFailure
<1>25. ASSUME NEW a \in Accounts, Expire(a) PROVE ReqOK' /\ RestOK'
  BY <1>1, <1>6, <1>25 DEF Expire
<1>26. CASE Tick
  BY <1>1, <1>4, <1>6, <1>26 DEF Tick
<1>27. CASE UNCHANGED vars
  BY <1>1, <1>6, <1>27 DEF vars
<1>28. ASSUME NEW r \in Requests, Step(r) PROVE ReqOK' /\ RestOK'
  <2> HIDE DEF RestOK
  <2> QED
    BY <1>10, <1>11, <1>12, <1>13, <1>14, <1>15, <1>17, <1>18, <1>19, <1>20, <1>21,
       <1>22, <1>23, <1>24, <1>28 DEF Step
<1> QED
  <2> HIDE DEF RestOK
  <2> QED
    BY <1>9, <1>25, <1>26, <1>27, <1>28 DEF Next

(* A handler starts idle, a breaker closed. *)
LEMMA InvInit == Init => Inv
<1> SUFFICES ASSUME Init PROVE Inv
  OBVIOUS
<1>1. breaker \in Breaker /\ streak \in 0 .. Opt.failureThreshold
  BY FreshType, OptAssumption DEF Init, Options
<1>2. \A r \in Requests : req[r] = Idle
  BY DEF Init
<1>3. /\ req \in [Requests -> Local]
      /\ cooling \in [Accounts -> BOOLEAN] /\ errorCode \in [Accounts -> Statuses]
  BY IdleAccounted DEF Init, Statuses
<1> QED
  BY <1>1, <1>2, <1>3, IdleAccounted DEF Inv, TypeOK

(* Whatever the upstream answers and however the requests interleave, the locals
   of every handler and the shared breaker keep their types. *)
THEOREM TypeCorrect == Spec => []TypeOK
<1>1. Inv => TypeOK
  BY DEF Inv
<1> QED
  BY <1>1, InvInit, InvStep, PTL DEF Spec

(* No request reaches the upstream more often than once per connection and
   attempt plus the one retry after an early end of stream, for any number of
   connections, requests and retries. *)
THEOREM BoundedDispatchHolds == Spec => []BoundedDispatch
<1>1. Inv => BoundedDispatch
  BY AccountedBounded DEF Inv, TypeOK, BoundedDispatch
<1> QED
  BY <1>1, InvInit, InvStep, PTL DEF Spec
=============================================================================
