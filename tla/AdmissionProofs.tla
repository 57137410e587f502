-------------------------- MODULE AdmissionProofs --------------------------
(***************************************************************************)
(* What a request passes in chatCore before it is sent upstream: the       *)
(* deduplication of identical calls, for any set of calls, any hashes and  *)
(* any bound of the map; and the semaphore of its account, for any finite  *)
(* set of callers, any caps, queue size and number of timers.  The two     *)
(* share no state.                                                         *)
(***************************************************************************)
EXTENDS RequestDedup, AccountSemaphore, FiniteSetTheorems, SequenceTheorems, TLAPS

-----------------------------------------------------------------------------
(* Deduplication. *)

(* Who awaits a promise is sharing, and awaits no other one. *)
SharersShare ==
    /\ \A r \in Calls : \A q \in joined[r] : pc[q] = "sharing"
    /\ \A r, s \in Calls : \A q \in joined[r] : q \in joined[s] => r = s

(* A call without an entry has lost it. *)
Accounted == Calling \ dropped \subseteq Entries

DedupInv == DedupTypeOK /\ EntriesInFlight /\ SharersShare /\ Accounted

(* The entries that "values of the sequence s" stands for. *)
Values(s) == {s[i] : i \in DOMAIN s}
Distinct(s) == \A i, j \in DOMAIN s : Hash[s[i]] = Hash[s[j]] => i = j

(* Evicting the oldest entry leaves room for one more and no new hash. *)
LEMMA KeptProperties ==
    ASSUME DedupTypeOK
    PROVE  /\ Kept \in Seq(Calls)
           /\ Len(Kept) + 1 <= MaxInflight
           /\ Values(Kept) \subseteq Entries
           /\ Distinct(Kept)
<1>1. CASE Len(inflight) >= MaxInflight
  <2>1. inflight # <<>>
    BY <1>1, MaxInflightAssumption DEF DedupTypeOK
  <2>2. /\ Tail(inflight) \in Seq(Calls)
        /\ Len(Tail(inflight)) = Len(inflight) - 1
        /\ \A i \in 1 .. Len(inflight) - 1 : Tail(inflight)[i] = inflight[i + 1]
    BY <2>1, HeadTailProperties DEF DedupTypeOK
  <2> QED
    BY <1>1, <2>2, MaxInflightAssumption DEF Kept, Values, Distinct, Entries, DedupTypeOK
<1>2. CASE ~(Len(inflight) >= MaxInflight)
  BY <1>2, MaxInflightAssumption DEF Kept, Values, Distinct, Entries, DedupTypeOK
<1> QED
  BY <1>1, <1>2

(* Deleting one's own entry deletes that entry and no other. *)
LEMMA WithoutProperties ==
    ASSUME DedupTypeOK, NEW r \in Calls
    PROVE  /\ Without(r) \in Seq(Calls)
           /\ Len(Without(r)) <= MaxInflight
           /\ Values(Without(r)) = Entries \ {r}
           /\ Distinct(Without(r))
<1>1. CASE r \notin Entries
  BY <1>1 DEF Without, Values, Distinct, Entries, DedupTypeOK
<1>2. CASE r \in Entries
  <2> DEFINE n == Len(inflight)
             i == CHOOSE i \in DOMAIN inflight : inflight[i] = r
             w == [j \in 1 .. n - 1 |-> inflight[IF j < i THEN j ELSE j + 1]]
  <2>1. Without(r) = w
    BY <1>2 DEF Without
  <2>2. n \in Nat /\ DOMAIN inflight = 1 .. n /\ n <= MaxInflight
        /\ \A k \in 1 .. n : inflight[k] \in Calls
    BY DEF DedupTypeOK
  <2>3. i \in 1 .. n /\ inflight[i] = r
    BY <1>2, <2>2 DEF Entries
  <2>4. \A k \in 1 .. n : inflight[k] = r => k = i
    BY <2>2, <2>3 DEF DedupTypeOK
  <2> HIDE DEF i
  <2>5. w \in [1 .. n - 1 -> Calls] /\ n - 1 \in Nat
    BY <2>2, <2>3
  <2>6. w \in Seq(Calls) /\ Len(w) = n - 1 /\ DOMAIN w = 1 .. n - 1
    BY <2>5, IsASeq, LenProperties
  <2>7. Values(w) \subseteq Entries \ {r}
    BY <2>2, <2>3, <2>4, <2>6 DEF Values, Entries
  <2>8. ASSUME NEW q \in Entries \ {r} PROVE q \in Values(w)
    <3>1. PICK k \in 1 .. n : inflight[k] = q /\ k # i
      BY <2>2, <2>3 DEF Entries
    <3>2. CASE k < i
      <4>1. k \in 1 .. n - 1 /\ w[k] = q
        BY <2>2, <2>3, <3>1, <3>2
      <4> QED
        BY <2>6, <4>1 DEF Values
    <3>3. CASE k > i
      <4>1. k - 1 \in 1 .. n - 1 /\ w[k - 1] = q
        BY <2>2, <2>3, <3>1, <3>3
      <4> QED
        BY <2>6, <4>1 DEF Values
    <3> QED
      BY <2>2, <2>3, <3>1, <3>2, <3>3
  <2>9. Distinct(w)
    BY <2>2, <2>3, <2>6 DEF Distinct, DedupTypeOK
  <2>10. Values(w) = Entries \ {r}
    BY <2>7, <2>8
  <2> HIDE DEF w, n
  <2>11. Len(w) <= MaxInflight
    BY <2>2, <2>6, MaxInflightAssumption
  <2> QED
    BY <2>1, <2>6, <2>9, <2>10, <2>11
<1> QED
  BY <1>1, <1>2

(* A call that finds an identical one in the map changes no entry. *)
LEMMA JoinStep ==
    ASSUME DedupInv, NEW r \in Calls, NEW owner \in Calls, Join(r, owner)
    PROVE  DedupInv'
<1> USE DEF DedupInv, Join
<1>1. DedupTypeOK'
  BY DEF DedupTypeOK, Pcs
<1>2. Entries' = Entries /\ r \notin Calling /\ Calling' = Calling
  BY DEF Entries, Calling, DedupTypeOK
<1>3. EntriesInFlight' /\ Accounted'
  BY <1>2 DEF EntriesInFlight, Accounted
<1>4. \A s \in Calls : r \notin joined[s]
  BY DEF SharersShare
<1>5. SharersShare'
  BY <1>4 DEF SharersShare, DedupTypeOK
<1> QED
  BY <1>1, <1>3, <1>5

(* A call that finds none enters the map, which may cost the oldest its entry. *)
LEMMA OwnStep ==
    ASSUME DedupInv, NEW r \in Calls, Own(r)
    PROVE  DedupInv'
<1> USE DEF DedupInv
<1> DEFINE s == Append(Kept, r)
<1>1. /\ Kept \in Seq(Calls)
      /\ Len(Kept) + 1 <= MaxInflight
      /\ Values(Kept) \subseteq Entries
      /\ Distinct(Kept)
  BY KeptProperties
<1> HIDE DEF Kept
<1>2. /\ s \in Seq(Calls)
      /\ Len(s) = Len(Kept) + 1
      /\ \A i \in 1 .. Len(Kept) : s[i] = Kept[i]
      /\ s[Len(Kept) + 1] = r
  BY <1>1, AppendProperties
<1>3. /\ inflight' = s
      /\ pc' = [pc EXCEPT ![r] = "calling"]
      /\ timer' = timer \cup {r}
      /\ dropped' = dropped \cup (Entries \ Values(Kept))
      /\ joined' = joined
      /\ pc[r] = "new"
      /\ \A owner \in Entries : Hash[owner] # Hash[r]
  BY DEF Own, Values
<1> HIDE DEF s
<1>4. Entries' = Values(Kept) \cup {r}
  <2>1. DOMAIN Kept = 1 .. Len(Kept) /\ DOMAIN s = 1 .. Len(Kept) + 1 /\ Len(Kept) \in Nat
    BY <1>1, <1>2
  <2>2. Values(s) \subseteq Values(Kept) \cup {r}
    BY <1>2, <2>1 DEF Values
  <2>3. Values(Kept) \cup {r} \subseteq Values(s)
    BY <1>2, <2>1 DEF Values
  <2> QED
    BY <1>3, <2>2, <2>3 DEF Entries, Values
<1>5. Distinct(s)
  BY <1>1, <1>2, <1>3 DEF Distinct, Values
<1>6. DedupTypeOK'
  BY <1>1, <1>2, <1>3, <1>5 DEF DedupTypeOK, Pcs, Distinct, Entries, Values
<1>7. Calling' = Calling \cup {r}
  BY <1>3 DEF Calling, DedupTypeOK
<1>8. EntriesInFlight'
  BY <1>1, <1>4, <1>7 DEF EntriesInFlight
<1>9. Accounted'
  BY <1>1, <1>3, <1>4, <1>7 DEF Accounted
<1>10. SharersShare'
  BY <1>3 DEF SharersShare, DedupTypeOK
<1> QED
  BY <1>6, <1>8, <1>9, <1>10

(* The timer takes away the entry of its own call only. *)
LEMMA TimeoutStep ==
    ASSUME DedupInv, NEW r \in Calls, Timeout(r)
    PROVE  DedupInv'
<1> USE DEF DedupInv
<1>1. /\ Without(r) \in Seq(Calls)
      /\ Len(Without(r)) <= MaxInflight
      /\ Values(Without(r)) = Entries \ {r}
      /\ Distinct(Without(r))
  BY WithoutProperties
<1>2. /\ inflight' = Without(r)
      /\ timer' = timer \ {r}
      /\ dropped' = dropped \cup {r}
      /\ UNCHANGED <<pc, joined>>
  BY DEF Timeout
<1>3. Entries' = Entries \ {r}
  BY <1>1, <1>2 DEF Entries, Values
<1>4. DedupTypeOK'
  BY <1>1, <1>2 DEF DedupTypeOK, Distinct
<1>5. Calling' = Calling
  BY <1>2 DEF Calling
<1>6. EntriesInFlight' /\ Accounted'
  BY <1>2, <1>3, <1>5 DEF EntriesInFlight, Accounted
<1>7. SharersShare'
  BY <1>2 DEF SharersShare
<1> QED
  BY <1>4, <1>6, <1>7

(* The end of a call concerns its own entry and those who share it. *)
LEMMA SettleStep ==
    ASSUME DedupInv, NEW r \in Calls, NEW outcome \in {"answered", "failed"}, Settle(r, outcome)
    PROVE  DedupInv'
<1> USE DEF DedupInv
<1>1. /\ Without(r) \in Seq(Calls)
      /\ Len(Without(r)) <= MaxInflight
      /\ Values(Without(r)) = Entries \ {r}
      /\ Distinct(Without(r))
  BY WithoutProperties
<1>2. /\ pc[r] = "calling"
      /\ pc' = [q \in Calls |-> IF q \in joined[r] \cup {r} THEN outcome ELSE pc[q]]
      /\ inflight' = Without(r)
      /\ timer' = timer \ {r}
      /\ joined' = [joined EXCEPT ![r] = {}]
      /\ dropped' = dropped
  BY DEF Settle
<1>3. Entries' = Entries \ {r}
  BY <1>1, <1>2 DEF Entries, Values
<1>4. DedupTypeOK'
  BY <1>1, <1>2 DEF DedupTypeOK, Distinct, Pcs
<1>5. Calling' = Calling \ {r}
  BY <1>2 DEF Calling, SharersShare, DedupTypeOK
<1>6. EntriesInFlight' /\ Accounted'
  BY <1>2, <1>3, <1>5 DEF EntriesInFlight, Accounted
<1>7. SharersShare'
  <2>1. ASSUME NEW s \in Calls, NEW q \in joined'[s]
        PROVE  s # r /\ q \in joined[s] /\ pc'[q] = "sharing"
    <3>1. s # r /\ q \in joined[s] /\ q \in Calls
      BY <1>2 DEF DedupTypeOK
    <3>2. q \notin joined[r] /\ q # r
      BY <1>2, <3>1 DEF SharersShare
    <3> QED
      BY <1>2, <3>1, <3>2 DEF SharersShare
  <2> QED
    BY <2>1 DEF SharersShare
<1> QED
  BY <1>4, <1>6, <1>7

(* The invariant holds in every reachable state. *)
LEMMA DedupInvHolds == DedupSpec => []DedupInv
<1>1. DedupInit => DedupInv
  <2> SUFFICES ASSUME DedupInit PROVE DedupInv
    OBVIOUS
  <2>1. DedupTypeOK
    BY MaxInflightAssumption DEF DedupInit, DedupTypeOK, Pcs
  <2>2. Entries = {} /\ Calling = {}
    BY DEF DedupInit, Entries, Calling
  <2>3. SharersShare
    BY DEF DedupInit, SharersShare
  <2> QED
    BY <2>1, <2>2, <2>3 DEF DedupInv, EntriesInFlight, Accounted
<1>2. DedupInv /\ [DedupNext]_dedupVars => DedupInv'
  <2> SUFFICES ASSUME DedupInv, [DedupNext]_dedupVars PROVE DedupInv'
    OBVIOUS
  <2>1. CASE UNCHANGED dedupVars
    BY <2>1 DEF dedupVars, DedupInv, DedupTypeOK, EntriesInFlight, Entries, Calling, SharersShare, Accounted
  <2> QED
    BY <2>1, JoinStep, OwnStep, TimeoutStep, SettleStep DEF DedupNext
<1> QED
  BY <1>1, <1>2, PTL DEF DedupSpec

(* The map stays within its bound and holds one entry per hash, for any number of
   concurrent calls. *)
THEOREM DedupTypeCorrect == DedupSpec => []DedupTypeOK
<1>1. DedupInv => DedupTypeOK
  BY DEF DedupInv
<1> QED
  BY <1>1, DedupInvHolds, PTL

(* Every promise the map hands out is one whose call is still in flight. *)
THEOREM EntriesInFlightHolds == DedupSpec => []EntriesInFlight
<1>1. DedupInv => EntriesInFlight
  BY DEF DedupInv
<1> QED
  BY <1>1, DedupInvHolds, PTL

(* Two identical calls are in flight only when one of them has lost its entry to
   its timer or to the bound of the map. *)
THEOREM OneUpstreamCallHolds == DedupSpec => []OneUpstreamCall
<1>1. DedupInv => OneUpstreamCall
  BY DEF DedupInv, OneUpstreamCall, Accounted, Entries, DedupTypeOK
<1> QED
  BY <1>1, DedupInvHolds, PTL

(* Whoever awaits a promise awaits that of a call under way, whatever became of the
   entry it found: a call ends for all who joined it in one step. *)
THEOREM SharersHaveOwnerHolds == DedupSpec => []SharersHaveOwner
<1>1. DedupInit => SharersHaveOwner
  BY DEF DedupInit, SharersHaveOwner
<1>2. DedupInv /\ SharersHaveOwner /\ [DedupNext]_dedupVars => SharersHaveOwner'
  <2> SUFFICES ASSUME DedupInv, SharersHaveOwner, [DedupNext]_dedupVars,
                      NEW q \in Calls, pc'[q] = "sharing"
               PROVE  \E owner \in Calls : pc'[owner] = "calling" /\ q \in joined'[owner]
    BY DEF SharersHaveOwner, Calling
  <2>1. /\ pc \in [Calls -> Pcs] /\ joined \in [Calls -> SUBSET Calls]
        /\ \A s \in Calls : \A x \in joined[s] : pc[x] = "sharing"
        /\ \A owner \in Entries : owner \in Calls /\ pc[owner] = "calling"
        /\ pc[q] = "sharing" => \E s \in Calls : pc[s] = "calling" /\ q \in joined[s]
    BY DEF DedupInv, DedupTypeOK, SharersShare, EntriesInFlight, Calling, SharersHaveOwner
  <2>2. CASE UNCHANGED dedupVars
    BY <2>1, <2>2 DEF dedupVars
  <2>3. ASSUME NEW r \in Calls, NEW owner \in Calls, Join(r, owner)
        PROVE  \E s \in Calls : pc'[s] = "calling" /\ q \in joined'[s]
    <3>1. /\ pc[r] = "new" /\ pc[owner] = "calling"
          /\ \A s \in Calls : s # r => pc'[s] = pc[s]
          /\ \A s \in Calls : joined[s] \subseteq joined'[s]
          /\ r \in joined'[owner]
      BY <2>1, <2>3 DEF Join
    <3> QED
      BY <2>1, <3>1
  <2>4. ASSUME NEW r \in Calls, Own(r)
        PROVE  \E s \in Calls : pc'[s] = "calling" /\ q \in joined'[s]
    BY <2>1, <2>4 DEF Own
  <2>5. ASSUME NEW r \in Calls, Timeout(r)
        PROVE  \E s \in Calls : pc'[s] = "calling" /\ q \in joined'[s]
    BY <2>1, <2>5 DEF Timeout
  <2>6. ASSUME NEW r \in Calls, NEW outcome \in {"answered", "failed"}, Settle(r, outcome)
        PROVE  \E s \in Calls : pc'[s] = "calling" /\ q \in joined'[s]
    <3>1. q \notin joined[r] /\ q # r /\ pc[q] = "sharing"
      BY <2>6 DEF Settle
    <3>2. PICK s \in Calls : pc[s] = "calling" /\ q \in joined[s]
      BY <2>1, <3>1
    <3>3. s # r /\ s \notin joined[r]
      BY <2>1, <3>1, <3>2
    <3>4. pc'[s] = "calling" /\ joined'[s] = joined[s]
      BY <2>1, <2>6, <3>2, <3>3 DEF Settle
    <3> QED
      BY <3>2, <3>4
  <2> QED
    BY <2>2, <2>3, <2>4, <2>5, <2>6 DEF DedupNext
<1> QED
  BY <1>1, <1>2, DedupInvHolds, PTL DEF DedupSpec

-----------------------------------------------------------------------------
(* The account semaphore. *)

Gate == [exists : BOOLEAN, running : Nat, cap : Nat, queue : Seq(Requests),
         blocked : Blocks, cleanup : BOOLEAN]

HoldersOf(ph) == {r \in Requests : ph[r] = "holding"}
WaitingOf(ph) == {r \in Requests : ph[r] = "waiting"}

(* The queue of gate g holds each caller that waits, once, within its bound. *)
QueueOK(g, ph) ==
    /\ IsInjective(g.queue)
    /\ ToSet(g.queue) = WaitingOf(ph)
    /\ Len(g.queue) <= MaxQueueSize

(* Its counter is that of the holders, or lower after a reset took a gate away from
   under them (d). *)
CountOK(g, ph, d) ==
    /\ g.running <= Cardinality(HoldersOf(ph))
    /\ ~d => g.running = Cardinality(HoldersOf(ph))

(* The inductive invariant.  It takes gate, phases, block timer and ghost as
   parameters because a release and a drain are several changes in one step.  A block
   stands only with its timer pending; a gate nobody holds a slot of is blocked, or
   has an empty queue and its cleanup scheduled. *)
GateOK(g, ph, t, d) ==
    /\ g \in Gate /\ ph \in [Requests -> Phases] /\ t \in BOOLEAN /\ d \in BOOLEAN
    /\ QueueOK(g, ph) /\ CountOK(g, ph, d)
    /\ ~g.exists => g = NoGate
    /\ g.exists => g.cap > 0
    /\ g.blocked # "no" => t
    /\ g.exists /\ g.running = 0 /\ g.blocked = "no" => g.queue = <<>> /\ g.cleanup

GateInv == GateOK(gate, phase, blockTimer, disturbed) /\ oldTimers \in 0 .. MaxOldTimers

(* The first k places of a queue without repetitions hold k callers. *)
LEMMA PrefixSize ==
    ASSUME NEW q \in Seq(Requests), IsInjective(q), NEW k \in 0 .. Len(q)
    PROVE  /\ IsFiniteSet({q[i] : i \in 1 .. k})
           /\ Cardinality({q[i] : i \in 1 .. k}) = k
<1> DEFINE T == {q[i] : i \in 1 .. k}
           f == [i \in 1 .. k |-> q[i]]
<1>1. k \in Nat /\ 1 .. k \subseteq DOMAIN q
  OBVIOUS
<1>2. f \in Surjection(1 .. k, T)
  BY DEF Surjection
<1>3. f \in Injection(1 .. k, T)
  BY <1>1, <1>2 DEF Injection, IsInjective, Surjection
<1>4. IsFiniteSet(1 .. k) /\ Cardinality(1 .. k) = k
  BY <1>1, FS_Interval
<1> HIDE DEF T, f
<1>5. IsFiniteSet(T) /\ Cardinality(T) = k
  BY <1>2, <1>3, <1>4, FS_Surjection
<1> QED
  BY <1>5 DEF T

(* Those after the first k places are the others, in the same order. *)
LEMMA SuffixOf ==
    ASSUME NEW q \in Seq(Requests), IsInjective(q), NEW k \in 0 .. Len(q)
    PROVE  /\ SubSeq(q, k + 1, Len(q)) \in Seq(Requests)
           /\ Len(SubSeq(q, k + 1, Len(q))) = Len(q) - k
           /\ IsInjective(SubSeq(q, k + 1, Len(q)))
           /\ ToSet(SubSeq(q, k + 1, Len(q))) = ToSet(q) \ {q[i] : i \in 1 .. k}
<1> DEFINE s == SubSeq(q, k + 1, Len(q))
<1>1. /\ s \in Seq(Requests) /\ Len(s) = Len(q) - k /\ DOMAIN s = 1 .. Len(q) - k
      /\ \A i \in 1 .. Len(q) - k : s[i] = q[k + i]
  OBVIOUS
<1>2. DOMAIN q = 1 .. Len(q) /\ Len(q) \in Nat /\ k \in Nat /\ k <= Len(q)
  OBVIOUS
<1> HIDE DEF s
<1>3. IsInjective(s)
  <2> SUFFICES ASSUME NEW i \in DOMAIN s, NEW j \in DOMAIN s, s[i] = s[j] PROVE i = j
    BY DEF IsInjective
  <2>1. k + i \in DOMAIN q /\ k + j \in DOMAIN q /\ q[k + i] = q[k + j]
    BY <1>1, <1>2
  <2>2. k + i = k + j
    BY <2>1 DEF IsInjective
  <2> QED
    BY <1>1, <1>2, <2>2
<1>4. ASSUME NEW i \in DOMAIN s PROVE s[i] \in ToSet(q) \ {q[j] : j \in 1 .. k}
  <2>1. s[i] = q[k + i] /\ k + i \in DOMAIN q /\ i > 0
    BY <1>1, <1>2
  <2>2. ASSUME NEW j \in 1 .. k, q[j] = q[k + i] PROVE FALSE
    <3>1. j \in DOMAIN q
      BY <1>2
    <3>2. j = k + i
      BY <2>1, <2>2, <3>1 DEF IsInjective
    <3> QED
      BY <1>2, <2>1, <3>2
  <2> QED
    BY <2>1, <2>2 DEF ToSet
<1>5. ASSUME NEW i \in DOMAIN q, q[i] \notin {q[j] : j \in 1 .. k} PROVE q[i] \in ToSet(s)
  <2>1. i > k
    BY <1>2, <1>5
  <2>2. i - k \in DOMAIN s /\ s[i - k] = q[i]
    BY <1>1, <1>2, <2>1
  <2> QED
    BY <2>2 DEF ToSet
<1>6. ToSet(s) = ToSet(q) \ {q[i] : i \in 1 .. k}
  BY <1>4, <1>5 DEF ToSet
<1> QED
  BY <1>1, <1>3, <1>6 DEF s

(* A waiter that gives up leaves the others in their order. *)
LEMMA RemovedFrom ==
    ASSUME NEW q \in Seq(Requests), IsInjective(q), NEW k \in DOMAIN q
    PROVE  /\ RemoveAt(q, k) \in Seq(Requests)
           /\ Len(RemoveAt(q, k)) = Len(q) - 1
           /\ IsInjective(RemoveAt(q, k))
           /\ ToSet(RemoveAt(q, k)) = ToSet(q) \ {q[k]}
<1> DEFINE s == RemoveAt(q, k)
           At(i) == IF i < k THEN i ELSE i + 1
<1>1. DOMAIN q = 1 .. Len(q) /\ Len(q) \in Nat /\ k \in Nat /\ 1 <= k /\ k <= Len(q)
  OBVIOUS
<1>2. /\ s \in Seq(Requests) /\ Len(s) = Len(q) - 1 /\ DOMAIN s = 1 .. Len(q) - 1
      /\ \A i \in 1 .. Len(q) - 1 : s[i] = q[At(i)]
  <2> DEFINE a == SubSeq(q, 1, k - 1)
             b == SubSeq(q, k + 1, Len(q))
  <2>1. a \in Seq(Requests) /\ Len(a) = k - 1 /\ \A i \in 1 .. k - 1 : a[i] = q[i]
    BY <1>1
  <2>2. /\ b \in Seq(Requests) /\ Len(b) = Len(q) - k
        /\ \A i \in 1 .. Len(q) - k : b[i] = q[k + i]
    BY <1>1
  <2>3. s = a \o b
    BY DEF RemoveAt
  <2> HIDE DEF a, b, s
  <2>4. /\ s \in Seq(Requests) /\ Len(s) = (k - 1) + (Len(q) - k)
        /\ \A i \in 1 .. Len(s) : s[i] = IF i <= k - 1 THEN a[i] ELSE b[i - (k - 1)]
    <3>1. /\ s \in Seq(Requests) /\ Len(s) = Len(a) + Len(b)
          /\ \A i \in 1 .. Len(a) + Len(b) : s[i] = IF i <= Len(a) THEN a[i] ELSE b[i - Len(a)]
      BY <2>1, <2>2, <2>3, ConcatProperties
    <3> QED
      BY <2>1, <2>2, <3>1
  <2>5. Len(s) = Len(q) - 1 /\ DOMAIN s = 1 .. Len(q) - 1
    BY <1>1, <2>4
  <2>6. ASSUME NEW i \in 1 .. Len(q) - 1 PROVE s[i] = q[At(i)]
    <3>1. CASE i < k
      BY <1>1, <2>1, <2>4, <2>5, <3>1
    <3>2. CASE i >= k
      <4>1. s[i] = b[i - (k - 1)] /\ i - (k - 1) \in 1 .. Len(q) - k
        BY <1>1, <2>4, <2>5, <3>2
      <4>2. k + (i - (k - 1)) = i + 1
        BY <1>1
      <4> QED
        BY <2>2, <3>2, <4>1, <4>2
    <3> QED
      BY <1>1, <3>1, <3>2
  <2> QED
    BY <2>4, <2>5, <2>6
<1>3. \A i \in DOMAIN s : At(i) \in DOMAIN q /\ At(i) # k
  BY <1>1, <1>2
<1>4. \A i, j \in DOMAIN s : At(i) = At(j) => i = j
  BY <1>1, <1>2
<1>5. \A i \in DOMAIN q : i # k => \E j \in DOMAIN s : At(j) = i
  <2> SUFFICES ASSUME NEW i \in DOMAIN q, i # k PROVE \E j \in DOMAIN s : At(j) = i
    OBVIOUS
  <2>1. CASE i < k
    BY <1>1, <1>2, <2>1
  <2>2. CASE i > k
    <3>1. i - 1 \in DOMAIN s /\ At(i - 1) = i
      BY <1>1, <1>2, <2>2
    <3> QED
      BY <3>1
  <2> QED
    BY <1>1, <2>1, <2>2
<1> HIDE DEF s, At
<1>6. IsInjective(s)
  BY <1>2, <1>3, <1>4 DEF IsInjective
<1>7. ToSet(s) = ToSet(q) \ {q[k]}
  <2>1. \A i \in DOMAIN s : s[i] \in ToSet(q) /\ s[i] # q[k]
    BY <1>2, <1>3 DEF ToSet, IsInjective
  <2>2. \A i \in DOMAIN q : q[i] # q[k] => q[i] \in ToSet(s)
    BY <1>2, <1>5 DEF ToSet
  <2> QED
    BY <2>1, <2>2 DEF ToSet
<1> QED
  BY <1>2, <1>6, <1>7 DEF s

(* A newcomer at the end of the queue. *)
LEMMA AppendedTo ==
    ASSUME NEW q \in Seq(Requests), IsInjective(q), NEW r \in Requests, r \notin ToSet(q)
    PROVE  /\ Append(q, r) \in Seq(Requests)
           /\ Len(Append(q, r)) = Len(q) + 1
           /\ IsInjective(Append(q, r))
           /\ ToSet(Append(q, r)) = ToSet(q) \cup {r}
<1> DEFINE s == Append(q, r)
<1>1. DOMAIN q = 1 .. Len(q) /\ Len(q) \in Nat
  OBVIOUS
<1>2. /\ s \in Seq(Requests) /\ Len(s) = Len(q) + 1 /\ DOMAIN s = DOMAIN q \cup {Len(q) + 1}
      /\ \A i \in DOMAIN q : s[i] = q[i]
      /\ s[Len(q) + 1] = r
  OBVIOUS
<1> HIDE DEF s
<1>3. \A i \in DOMAIN q : q[i] # r
  BY DEF ToSet
<1>4. IsInjective(s)
  BY <1>1, <1>2, <1>3 DEF IsInjective
<1>5. ToSet(s) = ToSet(q) \cup {r}
  BY <1>2 DEF ToSet
<1> QED
  BY <1>2, <1>4, <1>5 DEF s

-----------------------------------------------------------------------------
(* Holders and waiters are finitely many, and nobody is both. *)
LEMMA PhaseSets ==
    ASSUME NEW ph \in [Requests -> Phases]
    PROVE  /\ IsFiniteSet(HoldersOf(ph)) /\ Cardinality(HoldersOf(ph)) \in Nat
           /\ HoldersOf(ph) \subseteq Requests /\ WaitingOf(ph) \subseteq Requests
           /\ HoldersOf(ph) \cap WaitingOf(ph) = {}
<1>1. HoldersOf(ph) \subseteq Requests /\ WaitingOf(ph) \subseteq Requests
  BY DEF HoldersOf, WaitingOf
<1>2. HoldersOf(ph) \cap WaitingOf(ph) = {}
  BY DEF HoldersOf, WaitingOf
<1>3. IsFiniteSet(HoldersOf(ph))
  BY <1>1, RequestsAssumption, FS_Subset
<1> QED
  BY <1>1, <1>2, <1>3, FS_CardinalityType

(* The head of a queue, as the set of its first k places. *)
LEMMA PrefixSet ==
    ASSUME NEW q \in Seq(Requests), NEW k \in 0 .. Len(q)
    PROVE  ToSet(SubSeq(q, 1, k)) = {q[i] : i \in 1 .. k}
<1> DEFINE s == SubSeq(q, 1, k)
<1>1. DOMAIN s = 1 .. k /\ \A i \in 1 .. k : s[i] = q[i]
  OBVIOUS
<1> HIDE DEF s
<1>2. ToSet(s) = {q[i] : i \in 1 .. k}
  BY <1>1 DEF ToSet
<1> QED
  BY <1>2 DEF s

(* drainQueue() stops for one of its reasons. *)
LEMMA GrantsStop ==
    ASSUME NEW g \in Gate
    PROVE  /\ Grants(g) \in 0 .. Len(g.queue)
           /\ Grants(g) > 0 => g.running + Grants(g) <= g.cap /\ g.blocked # "yes"
           /\ Grants(g) = 0 => \/ g.blocked = "yes" \/ g.running >= g.cap
                              \/ g.queue = <<>>
<1>1. g.running \in Nat /\ g.cap \in Nat /\ Len(g.queue) \in Nat /\ g.queue \in Seq(Requests)
  BY DEF Gate
<1>2. Len(g.queue) = 0 => g.queue = <<>>
  BY <1>1
<1> QED
  BY <1>1, <1>2 DEF Grants

(* The drain turns the head of the queue into holders. *)
LEMMA DrainedSets ==
    ASSUME NEW g \in Gate, NEW ph \in [Requests -> Phases], QueueOK(g, ph)
    PROVE  LET granted == {g.queue[i] : i \in 1 .. Grants(g)} IN
           /\ AfterDrain(g, ph) \in [Requests -> Phases]
           /\ granted \subseteq WaitingOf(ph)
           /\ HoldersOf(AfterDrain(g, ph)) = HoldersOf(ph) \cup granted
           /\ WaitingOf(AfterDrain(g, ph)) = WaitingOf(ph) \ granted
           /\ Cardinality(HoldersOf(AfterDrain(g, ph)))
                = Cardinality(HoldersOf(ph)) + Grants(g)
<1> DEFINE granted == {g.queue[i] : i \in 1 .. Grants(g)}
           new == AfterDrain(g, ph)
<1>1. Grants(g) \in 0 .. Len(g.queue) /\ g.queue \in Seq(Requests)
  BY GrantsStop DEF Gate
<1>2. granted \subseteq WaitingOf(ph)
  <2>1. granted \subseteq ToSet(g.queue)
    BY <1>1 DEF ToSet
  <2> QED
    BY <2>1 DEF QueueOK
<1>3. ToSet(SubSeq(g.queue, 1, Grants(g))) = granted
  BY <1>1, PrefixSet
<1>4. IsFiniteSet(granted) /\ Cardinality(granted) = Grants(g)
  BY <1>1, PrefixSize DEF QueueOK
<1> HIDE DEF granted
<1>5. /\ new \in [Requests -> Phases]
      /\ \A r \in Requests : new[r] = IF r \in granted THEN "holding" ELSE ph[r]
  BY <1>3 DEF AfterDrain, Phases
<1> HIDE DEF new
<1>6. HoldersOf(new) = HoldersOf(ph) \cup granted
  BY <1>2, <1>5 DEF HoldersOf, WaitingOf
<1>7. WaitingOf(new) = WaitingOf(ph) \ granted
  BY <1>5 DEF WaitingOf
<1>8. Cardinality(HoldersOf(new)) = Cardinality(HoldersOf(ph)) + Grants(g)
  <2>1. HoldersOf(ph) \cap granted = {}
    BY <1>2, PhaseSets
  <2>2. Cardinality(HoldersOf(ph) \cup granted)
          = Cardinality(HoldersOf(ph)) + Cardinality(granted) - 0
    BY <1>4, <2>1, PhaseSets, FS_Union, FS_EmptySet
  <2> QED
    BY <1>1, <1>4, <1>6, <2>2, PhaseSets
<1> QED
  BY <1>2, <1>5, <1>6, <1>7, <1>8 DEF granted, new

(* What drainQueue() makes of a gate that is there, with the block timer t and the
   ghost d it has.  When a block is past, t may be the timer that just fired. *)
LEMMA DrainOK ==
    ASSUME NEW g \in Gate, NEW ph \in [Requests -> Phases], NEW t \in BOOLEAN,
           NEW d \in BOOLEAN, QueueOK(g, ph), CountOK(g, ph, d), g.exists, g.cap > 0,
           g.blocked # "no" => t
    PROVE  /\ GateOK(Drained(g), AfterDrain(g, ph), t, d)
           /\ Drained(g).cap = g.cap
           /\ Drained(g).queue = SubSeq(g.queue, Grants(g) + 1, Len(g.queue))
<1> DEFINE n == Grants(g)
           q == SubSeq(g.queue, n + 1, Len(g.queue))
           new == AfterDrain(g, ph)
           h == Drained(g)
<1>1. /\ n \in 0 .. Len(g.queue)
      /\ n > 0 => g.running + n <= g.cap /\ g.blocked # "yes"
      /\ n = 0 => g.blocked = "yes" \/ g.running >= g.cap \/ g.queue = <<>>
  BY GrantsStop
<1>2. /\ g.queue \in Seq(Requests) /\ g.running \in Nat /\ g.cap \in Nat
      /\ g.blocked \in Blocks /\ g.cleanup \in BOOLEAN /\ IsInjective(g.queue)
      /\ Len(g.queue) \in Nat /\ n \in Nat
  BY <1>1 DEF Gate, QueueOK
<1>3. /\ q \in Seq(Requests) /\ Len(q) = Len(g.queue) - n /\ IsInjective(q)
      /\ ToSet(q) = ToSet(g.queue) \ {g.queue[i] : i \in 1 .. n}
  BY <1>1, <1>2, SuffixOf
<1>4. /\ new \in [Requests -> Phases]
      /\ WaitingOf(new) = WaitingOf(ph) \ {g.queue[i] : i \in 1 .. n}
      /\ Cardinality(HoldersOf(new)) = Cardinality(HoldersOf(ph)) + n
  BY DrainedSets
<1>5. h = [g EXCEPT !.running = @ + n, !.queue = q, !.blocked = IF n > 0 THEN "no" ELSE @,
                    !.cleanup = @ \/ (g.running + n = 0 /\ n = Len(g.queue))]
  BY DEF Drained
<1>6. /\ h.exists /\ h.cap = g.cap /\ h.running = g.running + n /\ h.queue = q
      /\ h.blocked = (IF n > 0 THEN "no" ELSE g.blocked)
      /\ h.cleanup = (g.cleanup \/ (g.running + n = 0 /\ n = Len(g.queue)))
  BY <1>5 DEF Gate
<1>7. h \in Gate
  <2> HIDE DEF n, q, h
  <2>1. /\ g.running + n \in Nat /\ (IF n > 0 THEN "no" ELSE g.blocked) \in Blocks
        /\ (g.cleanup \/ (g.running + n = 0 /\ n = Len(g.queue))) \in BOOLEAN
    BY <1>2 DEF Blocks
  <2> QED
    BY <1>2, <1>3, <1>5, <2>1 DEF Gate
<1>8. QueueOK(h, new)
  <2> HIDE DEF h, q, new
  <2>1. Len(q) <= MaxQueueSize
    BY <1>1, <1>2, <1>3, QueueAssumption DEF QueueOK
  <2> QED
    BY <1>3, <1>4, <1>6, <2>1 DEF QueueOK
<1> HIDE DEF h, q, new, n
<1>9. CountOK(h, new, d)
  BY <1>2, <1>4, <1>6, PhaseSets DEF CountOK
<1>10. h.running = 0 /\ h.blocked = "no" => h.queue = <<>> /\ h.cleanup
  <2> SUFFICES ASSUME h.running = 0, h.blocked = "no" PROVE h.queue = <<>> /\ h.cleanup
    OBVIOUS
  <2>1. n = 0 /\ g.running = 0 /\ g.blocked = "no"
    BY <1>2, <1>6
  <2>2. Len(g.queue) = 0
    BY <1>1, <1>2, <2>1
  <2>3. Len(q) = 0
    BY <1>3, <2>1, <2>2
  <2>4. q = <<>>
    BY <1>3, <2>3
  <2>5. g.running + n = 0 /\ n = Len(g.queue)
    BY <2>1, <2>2
  <2> QED
    BY <1>6, <2>4, <2>5
<1>11. h.blocked # "no" => t
  BY <1>6
<1>12. GateOK(h, new, t, d)
  BY <1>4, <1>6, <1>7, <1>8, <1>9, <1>10, <1>11 DEF GateOK
<1> QED
  BY <1>6, <1>12 DEF h, q, new, n

-----------------------------------------------------------------------------
(* ensureGate(): the gate that is there, or an empty one, with the caller's cap. *)
LEMMA EnsureGateKeeps ==
    ASSUME GateInv, NEW cap \in Caps
    PROVE  /\ EnsureGate(cap) \in Gate /\ cap \in Nat /\ cap > 0
           /\ EnsureGate(cap).exists /\ EnsureGate(cap).cap = cap
           /\ EnsureGate(cap).running = gate.running
           /\ EnsureGate(cap).queue = gate.queue
           /\ EnsureGate(cap).blocked = gate.blocked
           /\ QueueOK(EnsureGate(cap), phase) /\ CountOK(EnsureGate(cap), phase, disturbed)
<1>1. /\ gate \in Gate /\ (~gate.exists => gate = NoGate)
      /\ QueueOK(gate, phase) /\ CountOK(gate, phase, disturbed)
  BY DEF GateInv, GateOK
<1>2. cap \in Nat /\ cap > 0
  BY CapsAssumption
<1>3. /\ EnsureGate(cap) \in Gate
      /\ EnsureGate(cap).exists /\ EnsureGate(cap).cap = cap
      /\ EnsureGate(cap).running = gate.running
      /\ EnsureGate(cap).queue = gate.queue
      /\ EnsureGate(cap).blocked = gate.blocked
  BY <1>1, <1>2 DEF EnsureGate, NoGate, Gate, Blocks
<1> HIDE DEF EnsureGate
<1> QED
  BY <1>1, <1>2, <1>3 DEF QueueOK, CountOK

(* acquire() that finds a slot. *)
LEMMA AcquireNowInv ==
    ASSUME GateInv, NEW r \in Requests, NEW cap \in Caps, AcquireNow(r, cap)
    PROVE  /\ GateInv'
           /\ ~disturbed => Cardinality(HoldersOf(phase')) <= gate'.cap
<1> DEFINE g == EnsureGate(cap)
           h == [g EXCEPT !.running = @ + 1, !.blocked = "no"]
           ph == [phase EXCEPT ![r] = "holding"]
<1>1. /\ g \in Gate /\ g.exists /\ g.cap = cap /\ cap > 0 /\ cap \in Nat
      /\ QueueOK(g, phase) /\ CountOK(g, phase, disturbed)
  BY EnsureGateKeeps
<1>2. /\ phase \in [Requests -> Phases] /\ phase[r] = "idle" /\ g.running < g.cap
      /\ gate' = h /\ phase' = ph /\ UNCHANGED <<blockTimer, oldTimers, disturbed>>
      /\ blockTimer \in BOOLEAN /\ disturbed \in BOOLEAN
  BY DEF AcquireNow, SlotFree, GateInv, GateOK
<1> HIDE DEF g
<1>3. /\ h \in Gate /\ h.exists /\ h.cap = cap /\ h.running = g.running + 1
      /\ h.queue = g.queue /\ h.blocked = "no" /\ g.running \in Nat
  <2>1. g.running + 1 \in Nat /\ "no" \in Blocks /\ g.running \in Nat
    BY <1>1 DEF Gate, Blocks
  <2> QED
    BY <1>1, <2>1 DEF Gate
<1>4. /\ ph \in [Requests -> Phases] /\ HoldersOf(ph) = HoldersOf(phase) \cup {r}
      /\ WaitingOf(ph) = WaitingOf(phase) /\ r \notin HoldersOf(phase)
  BY <1>2 DEF HoldersOf, WaitingOf, Phases
<1>5. Cardinality(HoldersOf(ph)) = Cardinality(HoldersOf(phase)) + 1
  BY <1>2, <1>4, PhaseSets, FS_AddElement
<1> HIDE DEF h, ph
<1>6. QueueOK(h, ph)
  BY <1>1, <1>3, <1>4 DEF QueueOK
<1>7. CountOK(h, ph, disturbed)
  BY <1>1, <1>2, <1>3, <1>5, PhaseSets DEF CountOK
<1>8. GateOK(h, ph, blockTimer, disturbed)
  BY <1>1, <1>2, <1>3, <1>4, <1>6, <1>7 DEF GateOK
<1>9. ~disturbed => Cardinality(HoldersOf(ph)) <= h.cap
  BY <1>1, <1>2, <1>3, <1>7 DEF CountOK
<1> QED
  BY <1>2, <1>8, <1>9 DEF GateInv

(* acquire() that joins the queue. *)
LEMMA AcquireQueuedInv ==
    ASSUME GateInv, NEW r \in Requests, NEW cap \in Caps, AcquireQueued(r, cap)
    PROVE  GateInv'
<1> DEFINE g == EnsureGate(cap)
           h == [g EXCEPT !.queue = Append(@, r)]
           ph == [phase EXCEPT ![r] = "waiting"]
<1>1. /\ g \in Gate /\ g.exists /\ g.cap = cap /\ cap > 0 /\ cap \in Nat
      /\ g.blocked = gate.blocked /\ QueueOK(g, phase) /\ CountOK(g, phase, disturbed)
  BY EnsureGateKeeps
<1>2. /\ phase \in [Requests -> Phases] /\ phase[r] = "idle"
      /\ ~(g.running < g.cap /\ g.blocked # "yes") /\ Len(g.queue) < MaxQueueSize
      /\ gate' = h /\ phase' = ph /\ UNCHANGED <<blockTimer, oldTimers, disturbed>>
      /\ blockTimer \in BOOLEAN /\ disturbed \in BOOLEAN
  BY DEF AcquireQueued, SlotFree, GateInv, GateOK
<1> HIDE DEF g
<1>3. g.queue \in Seq(Requests) /\ IsInjective(g.queue) /\ r \notin ToSet(g.queue)
  BY <1>1, <1>2 DEF QueueOK, WaitingOf, Gate
<1>4. /\ Append(g.queue, r) \in Seq(Requests) /\ Len(Append(g.queue, r)) = Len(g.queue) + 1
      /\ IsInjective(Append(g.queue, r)) /\ ToSet(Append(g.queue, r)) = ToSet(g.queue) \cup {r}
  BY <1>3, AppendedTo
<1>5. /\ h \in Gate /\ h.exists /\ h.cap = cap /\ h.running = g.running
      /\ h.queue = Append(g.queue, r) /\ h.blocked = g.blocked
  BY <1>1, <1>4 DEF Gate
<1>6. /\ ph \in [Requests -> Phases] /\ HoldersOf(ph) = HoldersOf(phase)
      /\ WaitingOf(ph) = WaitingOf(phase) \cup {r}
  BY <1>2 DEF HoldersOf, WaitingOf, Phases
<1> HIDE DEF h, ph
<1>7. Len(h.queue) <= MaxQueueSize
  BY <1>2, <1>3, <1>4, <1>5, QueueAssumption
<1>8. QueueOK(h, ph) /\ CountOK(h, ph, disturbed)
  BY <1>1, <1>4, <1>5, <1>6, <1>7 DEF QueueOK, CountOK
<1>9. h.running = 0 => h.blocked # "no"
  BY <1>1, <1>2, <1>5 DEF Gate
<1>10. GateOK(h, ph, blockTimer, disturbed)
  BY <1>1, <1>2, <1>5, <1>6, <1>8, <1>9 DEF GateOK, GateInv
<1> QED
  BY <1>2, <1>10 DEF GateInv

(* acquire() that is refused: whoever is refused leaves a gate that is busy, or
   blocked with a timer pending, and so needs no cleanup of its own. *)
LEMMA AcquireRefusedInv ==
    ASSUME GateInv, NEW r \in Requests, NEW cap \in Caps, AcquireRefused(r, cap)
    PROVE  GateInv'
<1> DEFINE g == EnsureGate(cap)
<1>1. /\ g \in Gate /\ g.exists /\ g.cap = cap /\ cap > 0 /\ cap \in Nat
      /\ g.blocked = gate.blocked /\ QueueOK(g, phase) /\ CountOK(g, phase, disturbed)
  BY EnsureGateKeeps
<1>2. /\ ~(g.running < g.cap /\ g.blocked # "yes")
      /\ gate' = g /\ UNCHANGED <<phase, blockTimer, oldTimers, disturbed>>
  BY DEF AcquireRefused, SlotFree
<1> HIDE DEF g
<1>3. g.running = 0 => g.blocked # "no"
  BY <1>1, <1>2 DEF Gate
<1>4. GateOK(g, phase, blockTimer, disturbed)
  BY <1>1, <1>3 DEF GateOK, GateInv
<1> QED
  BY <1>2, <1>4 DEF GateInv

(* A holder leaves: the counter goes down with the holders, and not below zero. *)
LEMMA SlotReturned ==
    ASSUME GateInv, NEW r \in Requests, phase[r] = "holding"
    PROVE  LET g == [gate EXCEPT !.running = IF @ > 0 THEN @ - 1 ELSE 0]
               left == [phase EXCEPT ![r] = "idle"]
           IN  /\ ~disturbed => gate.running > 0 /\ gate.exists
               /\ g \in Gate /\ g.exists = gate.exists /\ g.cap = gate.cap
               /\ g.queue = gate.queue /\ g.blocked = gate.blocked
               /\ left \in [Requests -> Phases]
               /\ HoldersOf(left) = HoldersOf(phase) \ {r}
               /\ QueueOK(g, left) /\ CountOK(g, left, disturbed)
<1> DEFINE g == [gate EXCEPT !.running = IF @ > 0 THEN @ - 1 ELSE 0]
           left == [phase EXCEPT ![r] = "idle"]
<1>1. /\ gate \in Gate /\ phase \in [Requests -> Phases] /\ gate.running \in Nat
      /\ QueueOK(gate, phase) /\ CountOK(gate, phase, disturbed)
      /\ ~gate.exists => gate = NoGate
  BY DEF GateInv, GateOK, Gate
<1>2. /\ left \in [Requests -> Phases] /\ HoldersOf(left) = HoldersOf(phase) \ {r}
      /\ WaitingOf(left) = WaitingOf(phase) /\ r \in HoldersOf(phase)
  BY <1>1 DEF HoldersOf, WaitingOf, Phases
<1>3. /\ Cardinality(HoldersOf(left)) = Cardinality(HoldersOf(phase)) - 1
      /\ Cardinality(HoldersOf(left)) \in Nat /\ Cardinality(HoldersOf(phase)) \in Nat
  BY <1>1, <1>2, PhaseSets, FS_RemoveElement
<1>4. ~disturbed => gate.running > 0
  BY <1>1, <1>3 DEF CountOK
<1>5. ~disturbed => gate.exists
  BY <1>1, <1>4 DEF NoGate
<1>6. /\ g \in Gate /\ g.exists = gate.exists /\ g.cap = gate.cap /\ g.queue = gate.queue
      /\ g.blocked = gate.blocked
      /\ g.running = IF gate.running > 0 THEN gate.running - 1 ELSE 0
  <2>1. (IF gate.running > 0 THEN gate.running - 1 ELSE 0) \in Nat
    BY <1>1
  <2> QED
    BY <1>1, <2>1 DEF Gate
<1> HIDE DEF g, left
<1>7. QueueOK(g, left)
  BY <1>1, <1>2, <1>6 DEF QueueOK
<1>8. CountOK(g, left, disturbed)
  BY <1>1, <1>3, <1>4, <1>6 DEF CountOK
<1> QED
  BY <1>2, <1>4, <1>5, <1>6, <1>7, <1>8 DEF g, left

(* Once nobody holds a slot, the counter is right again. *)
LEMMA CalmAgain ==
    ASSUME NEW g, NEW ph, NEW t, NEW d, GateOK(g, ph, t, d)
    PROVE  GateOK(g, ph, t, d /\ HoldersOf(ph) # {})
<1>1. HoldersOf(ph) = {} => Cardinality(HoldersOf(ph)) = 0
  BY FS_EmptySet
<1>2. g.running \in Nat /\ d \in BOOLEAN
  BY DEF GateOK, Gate
<1>3. CountOK(g, ph, d /\ HoldersOf(ph) # {})
  BY <1>1, <1>2 DEF GateOK, CountOK
<1> QED
  BY <1>2, <1>3 DEF GateOK

(* The release function. *)
LEMMA ReleaseInv ==
    ASSUME GateInv, NEW r \in Requests, Release(r)
    PROVE  GateInv'
<1> DEFINE g == [gate EXCEPT !.running = IF @ > 0 THEN @ - 1 ELSE 0]
           left == [phase EXCEPT ![r] = "idle"]
           h == [g EXCEPT !.cleanup = TRUE]
<1>1. /\ g \in Gate /\ g.exists = gate.exists /\ g.cap = gate.cap
      /\ g.queue = gate.queue /\ g.blocked = gate.blocked /\ left \in [Requests -> Phases]
      /\ QueueOK(g, left) /\ CountOK(g, left, disturbed)
      /\ ~disturbed => gate.exists
  BY SlotReturned DEF Release
<1>2. /\ IF ~gate.exists
           THEN gate' = gate /\ phase' = left
           ELSE IF gate.queue # <<>>
                  THEN gate' = Drained(g) /\ phase' = AfterDrain(g, left)
                  ELSE gate' = h /\ phase' = left
      /\ disturbed' = (disturbed /\ HoldersOf(phase') # {})
      /\ UNCHANGED <<blockTimer, oldTimers>>
  BY DEF Release, Holders, HoldersOf
<1>3. /\ gate \in Gate /\ blockTimer \in BOOLEAN /\ disturbed \in BOOLEAN
      /\ gate.exists => gate.cap > 0
      /\ gate.blocked # "no" => blockTimer
      /\ ~gate.exists => gate = NoGate
  BY DEF GateInv, GateOK
<1>4. h \in Gate /\ h.exists = g.exists /\ h.cap = g.cap /\ h.running = g.running
      /\ h.queue = g.queue /\ h.blocked = g.blocked /\ h.cleanup
  BY <1>1 DEF Gate
<1>5. ~gate.exists => g = gate
  BY <1>3 DEF NoGate
<1> HIDE DEF g, left, h
<1>6. GateOK(gate', phase', blockTimer, disturbed)
  <2>1. CASE ~gate.exists
    <3>1. GateOK(g, left, blockTimer, disturbed)
      BY <1>1, <1>3, <1>5, <2>1 DEF GateOK
    <3> QED
      BY <1>2, <1>5, <2>1, <3>1
  <2>2. CASE gate.exists /\ gate.queue # <<>>
    <3>1. GateOK(Drained(g), AfterDrain(g, left), blockTimer, disturbed)
      BY <1>1, <1>3, <2>2, DrainOK
    <3> QED
      BY <1>2, <2>2, <3>1
  <2>3. CASE gate.exists /\ gate.queue = <<>>
    <3>1. QueueOK(h, left) /\ CountOK(h, left, disturbed)
      BY <1>1, <1>4 DEF QueueOK, CountOK
    <3>2. GateOK(h, left, blockTimer, disturbed)
      BY <1>1, <1>3, <1>4, <2>3, <3>1 DEF GateOK
    <3> QED
      BY <1>2, <2>3, <3>2
  <2> QED
    BY <2>1, <2>2, <2>3
<1>7. GateOK(gate', phase', blockTimer, disturbed')
  BY <1>2, <1>6, CalmAgain
<1> QED
  BY <1>2, <1>7 DEF GateInv

(* The queue timeout and the abort of a waiter. *)
LEMMA LeaveInv ==
    ASSUME GateInv, NEW r \in Requests, Leave(r)
    PROVE  GateInv'
<1>1. PICK i \in DOMAIN gate.queue :
         /\ phase[r] = "waiting" /\ gate.queue[i] = r
         /\ gate' = [gate EXCEPT !.queue = RemoveAt(gate.queue, i),
                                 !.cleanup = @ \/ (gate.running = 0 /\ RemoveAt(gate.queue, i) = <<>>)]
         /\ phase' = [phase EXCEPT ![r] = "idle"]
         /\ UNCHANGED <<blockTimer, oldTimers, disturbed>>
  BY DEF Leave
<1> DEFINE q == RemoveAt(gate.queue, i)
           c == gate.cleanup \/ (gate.running = 0 /\ q = <<>>)
           h == [gate EXCEPT !.queue = q, !.cleanup = c]
           ph == [phase EXCEPT ![r] = "idle"]
<1>2. /\ gate \in Gate /\ phase \in [Requests -> Phases] /\ gate.queue \in Seq(Requests)
      /\ QueueOK(gate, phase) /\ CountOK(gate, phase, disturbed)
      /\ IsInjective(gate.queue) /\ gate.cleanup \in BOOLEAN
      /\ blockTimer \in BOOLEAN /\ disturbed \in BOOLEAN
      /\ gate.blocked # "no" => blockTimer
  BY DEF GateInv, GateOK, QueueOK, Gate
<1>3. /\ q \in Seq(Requests) /\ Len(q) = Len(gate.queue) - 1 /\ IsInjective(q)
      /\ ToSet(q) = ToSet(gate.queue) \ {r}
  BY <1>1, <1>2, RemovedFrom
<1>4. gate' = h /\ phase' = ph
  BY <1>1
<1> HIDE DEF q
<1>5. c \in BOOLEAN
  BY <1>2
<1> HIDE DEF c
<1>6. /\ h \in Gate /\ h.exists = gate.exists /\ h.cap = gate.cap /\ h.queue = q
      /\ h.running = gate.running /\ h.blocked = gate.blocked /\ h.cleanup = c
  BY <1>2, <1>3, <1>5 DEF Gate
<1>7. /\ ph \in [Requests -> Phases] /\ HoldersOf(ph) = HoldersOf(phase)
      /\ WaitingOf(ph) = WaitingOf(phase) \ {r}
  BY <1>1, <1>2 DEF HoldersOf, WaitingOf, Phases
<1>8. gate.queue # <<>>
  BY <1>1, <1>2
<1>9. gate.exists /\ gate.cap > 0
  BY <1>8 DEF GateInv, GateOK, NoGate
<1> HIDE DEF h, ph
<1>10. Len(q) <= MaxQueueSize
  BY <1>2, <1>3, QueueAssumption DEF QueueOK
<1>11. QueueOK(h, ph) /\ CountOK(h, ph, disturbed)
  BY <1>2, <1>3, <1>6, <1>7, <1>10 DEF QueueOK, CountOK
<1>12. ~(h.running = 0 /\ h.blocked = "no")
  BY <1>6, <1>8, <1>9 DEF GateInv, GateOK
<1>13. GateOK(h, ph, blockTimer, disturbed)
  BY <1>2, <1>6, <1>7, <1>9, <1>11, <1>12 DEF GateOK
<1> QED
  BY <1>1, <1>4, <1>13 DEF GateInv

(* A block, and its end by the clock. *)
LEMMA BlockInv ==
    ASSUME GateInv, MarkBlocked \/ BlockPasses
    PROVE  GateInv'
<1>1. /\ gate \in Gate /\ phase \in [Requests -> Phases]
      /\ QueueOK(gate, phase) /\ CountOK(gate, phase, disturbed)
      /\ blockTimer \in BOOLEAN /\ disturbed \in BOOLEAN /\ oldTimers \in 0 .. MaxOldTimers
      /\ ~gate.exists => gate = NoGate
      /\ gate.exists => gate.cap > 0
      /\ gate.blocked # "no" => blockTimer
  BY DEF GateInv, GateOK
<1>2. CASE MarkBlocked
  <2> DEFINE g == IF gate.exists THEN gate ELSE [NoGate EXCEPT !.exists = TRUE, !.cap = 1]
             h == [g EXCEPT !.blocked = "yes", !.cleanup = FALSE]
  <2>1. /\ gate' = h /\ blockTimer' = TRUE /\ UNCHANGED <<phase, disturbed>>
        /\ oldTimers' = (IF blockTimer THEN oldTimers + 1 ELSE oldTimers)
        /\ oldTimers < MaxOldTimers \/ ~blockTimer
    BY <1>2 DEF MarkBlocked
  <2>2. /\ h \in Gate /\ h.exists /\ h.cap > 0 /\ h.running = gate.running
        /\ h.queue = gate.queue /\ h.blocked = "yes"
    <3>1. /\ g \in Gate /\ g.exists /\ g.cap > 0 /\ g.running = gate.running
          /\ g.queue = gate.queue
      <4>1. CASE gate.exists
        BY <1>1, <4>1
      <4>2. CASE ~gate.exists
        <5>1. g = [exists |-> TRUE, running |-> 0, cap |-> 1, queue |-> <<>>, blocked |-> "no",
                   cleanup |-> FALSE]
          BY <4>2 DEF NoGate
        <5>2. gate.running = 0 /\ gate.queue = <<>>
          BY <1>1, <4>2 DEF NoGate
        <5> HIDE DEF g
        <5>3. g \in Gate
          BY <5>1 DEF Gate, Blocks
        <5> QED
          BY <5>1, <5>2, <5>3
      <4> QED
        BY <4>1, <4>2
    <3> HIDE DEF g
    <3> QED
      BY <3>1 DEF Gate, Blocks
  <2> HIDE DEF h
  <2>3. QueueOK(h, phase) /\ CountOK(h, phase, disturbed)
    BY <1>1, <2>2 DEF QueueOK, CountOK
  <2>4. GateOK(h, phase, TRUE, disturbed)
    BY <1>1, <2>2, <2>3 DEF GateOK
  <2>5. oldTimers' \in 0 .. MaxOldTimers
    BY <1>1, <2>1, TimerAssumption
  <2> QED
    BY <2>1, <2>4, <2>5 DEF GateInv
<1>3. CASE BlockPasses
  <2> DEFINE h == [gate EXCEPT !.blocked = "past"]
  <2>1. gate' = h /\ gate.blocked = "yes" /\ UNCHANGED <<phase, blockTimer, oldTimers, disturbed>>
    BY <1>3 DEF BlockPasses
  <2>2. /\ h \in Gate /\ h.exists = gate.exists /\ h.cap = gate.cap /\ h.running = gate.running
        /\ h.queue = gate.queue /\ h.blocked = "past"
    BY <1>1 DEF Gate, Blocks
  <2>3. gate.exists
    BY <1>1, <2>1 DEF NoGate
  <2> HIDE DEF h
  <2>4. QueueOK(h, phase) /\ CountOK(h, phase, disturbed)
    BY <1>1, <2>2 DEF QueueOK, CountOK
  <2>5. GateOK(h, phase, blockTimer, disturbed)
    BY <1>1, <2>1, <2>2, <2>3, <2>4 DEF GateOK
  <2> QED
    BY <2>1, <2>5 DEF GateInv
<1> QED
  BY <1>2, <1>3

(* The gate without its block. *)
LEMMA Unblocked ==
    ASSUME GateInv, gate.exists
    PROVE  LET g == [gate EXCEPT !.blocked = "no"]
           IN  /\ g \in Gate /\ g.exists /\ g.cap = gate.cap /\ g.cap > 0
               /\ g.queue = gate.queue /\ g.running = gate.running /\ g.blocked = "no"
               /\ QueueOK(g, phase) /\ CountOK(g, phase, disturbed)
<1> DEFINE g == [gate EXCEPT !.blocked = "no"]
<1>1. /\ gate \in Gate /\ QueueOK(gate, phase) /\ CountOK(gate, phase, disturbed)
      /\ gate.cap > 0
  BY DEF GateInv, GateOK
<1>2. /\ g \in Gate /\ g.exists /\ g.cap = gate.cap
      /\ g.queue = gate.queue /\ g.running = gate.running /\ g.blocked = "no"
  BY <1>1 DEF Gate, Blocks
<1> HIDE DEF g
<1>3. QueueOK(g, phase) /\ CountOK(g, phase, disturbed)
  BY <1>1, <1>2 DEF QueueOK, CountOK
<1> QED
  BY <1>1, <1>2, <1>3 DEF g

(* markBlocked() without a cooldown, and the block timers. *)
LEMMA UnblockInv ==
    ASSUME GateInv, Unblock \/ BlockTimerFires \/ OldTimerFires
    PROVE  GateInv'
<1> DEFINE g == [gate EXCEPT !.blocked = "no"]
<1>1. /\ phase \in [Requests -> Phases] /\ gate \in Gate
      /\ blockTimer \in BOOLEAN /\ disturbed \in BOOLEAN /\ oldTimers \in 0 .. MaxOldTimers
      /\ ~gate.exists => gate = NoGate
  BY DEF GateInv, GateOK
<1>2. ASSUME gate.exists, NEW t \in BOOLEAN
      PROVE  GateOK(Drained(g), AfterDrain(g, phase), t, disturbed)
  <2>1. /\ g \in Gate /\ g.exists /\ g.cap > 0 /\ g.blocked = "no"
        /\ QueueOK(g, phase) /\ CountOK(g, phase, disturbed)
    BY <1>2, Unblocked
  <2> HIDE DEF g
  <2> QED
    BY <1>1, <2>1, DrainOK
<1>3. CASE Unblock
  <2>1. /\ gate.exists /\ gate' = Drained(g) /\ phase' = AfterDrain(g, phase)
        /\ UNCHANGED <<blockTimer, oldTimers, disturbed>>
    BY <1>3 DEF Unblock
  <2> HIDE DEF g
  <2>2. GateOK(gate', phase', blockTimer', disturbed')
    BY <1>1, <1>2, <2>1
  <2> QED
    BY <1>1, <2>1, <2>2 DEF GateInv
<1>4. ASSUME BlockTimerBody, disturbed' = disturbed, blockTimer' \in BOOLEAN,
             gate.blocked = "yes" => blockTimer',
             oldTimers' \in 0 .. MaxOldTimers
      PROVE  GateInv'
  <2>1. CASE gate.blocked = "past"
    <3>1. gate.exists
      BY <1>1, <2>1 DEF NoGate
    <3>2. gate' = Drained(g) /\ phase' = AfterDrain(g, phase)
      BY <1>4, <2>1 DEF BlockTimerBody
    <3> HIDE DEF g
    <3>3. GateOK(gate', phase', blockTimer', disturbed')
      BY <1>2, <1>4, <3>1, <3>2
    <3> QED
      BY <1>4, <3>3 DEF GateInv
  <2>2. CASE gate.blocked # "past"
    <3>1. gate' = gate /\ phase' = phase
      BY <1>4, <2>2 DEF BlockTimerBody
    <3>2. gate.blocked \in Blocks
      BY <1>1 DEF Gate
    <3>3. gate.blocked # "no" => blockTimer'
      BY <1>4, <2>2, <3>2 DEF Blocks
    <3>4. GateOK(gate, phase, blockTimer', disturbed)
      BY <1>4, <3>3 DEF GateOK, GateInv
    <3> QED
      BY <1>4, <3>1, <3>4 DEF GateInv
  <2> QED
    BY <2>1, <2>2
<1>5. CASE BlockTimerFires
  <2>1. /\ gate.blocked # "yes" /\ blockTimer' = FALSE /\ BlockTimerBody
        /\ UNCHANGED <<oldTimers, disturbed>>
    BY <1>5 DEF BlockTimerFires
  <2> QED
    BY <1>1, <1>4, <2>1
<1>6. CASE OldTimerFires
  <2>1. /\ oldTimers > 0 /\ oldTimers' = oldTimers - 1 /\ BlockTimerBody
        /\ UNCHANGED <<blockTimer, disturbed>>
    BY <1>6 DEF OldTimerFires
  <2>2. oldTimers' \in 0 .. MaxOldTimers
    BY <1>1, <2>1, TimerAssumption
  <2>3. gate.blocked = "yes" => blockTimer
    BY DEF GateInv, GateOK
  <2> QED
    BY <1>1, <1>4, <2>1, <2>2, <2>3
<1> QED
  BY <1>3, <1>5, <1>6

(* The cleanup timer and a reset leave no gate, or one that needs no cleanup yet. *)
LEMMA GoneInv ==
    ASSUME GateInv, Cleanup \/ Reset
    PROVE  GateInv'
<1>1. /\ gate \in Gate /\ phase \in [Requests -> Phases]
      /\ QueueOK(gate, phase) /\ CountOK(gate, phase, disturbed)
      /\ blockTimer \in BOOLEAN /\ disturbed \in BOOLEAN
  BY DEF GateInv, GateOK
<1>2. /\ NoGate \in Gate /\ ~NoGate.exists /\ NoGate.running = 0 /\ NoGate.queue = <<>>
      /\ NoGate.blocked = "no" /\ Len(NoGate.queue) = 0
  BY DEF NoGate, Gate, Blocks
<1>3. 0 <= MaxQueueSize
  BY QueueAssumption
<1>4. CASE Cleanup
  <2>1. CASE gate.running > 0 \/ gate.queue # <<>> \/ gate.blocked = "yes"
    <3> DEFINE h == [gate EXCEPT !.cleanup = FALSE]
    <3>1. gate' = h /\ UNCHANGED <<phase, blockTimer, oldTimers, disturbed>>
      BY <1>4, <2>1 DEF Cleanup
    <3>2. /\ h \in Gate /\ h.exists = gate.exists /\ h.cap = gate.cap /\ h.queue = gate.queue
          /\ h.running = gate.running /\ h.blocked = gate.blocked
      BY <1>1 DEF Gate
    <3>3. gate.exists /\ gate.cap > 0
      BY <1>4 DEF Cleanup, GateInv, GateOK, NoGate
    <3> HIDE DEF h
    <3>4. QueueOK(h, phase) /\ CountOK(h, phase, disturbed)
      BY <1>1, <3>2 DEF QueueOK, CountOK
    <3>5. ~(h.running = 0 /\ h.blocked = "no")
      BY <2>1, <3>2, <3>3 DEF GateInv, GateOK
    <3>6. GateOK(h, phase, blockTimer, disturbed)
      BY <1>1, <3>2, <3>3, <3>4, <3>5 DEF GateOK, GateInv
    <3> QED
      BY <3>1, <3>6 DEF GateInv
  <2>2. CASE ~(gate.running > 0 \/ gate.queue # <<>> \/ gate.blocked = "yes")
    <3>1. gate' = NoGate /\ UNCHANGED <<phase, blockTimer, oldTimers, disturbed>>
      BY <1>4, <2>2 DEF Cleanup
    <3>2. gate.running = 0 /\ gate.queue = <<>>
      BY <1>1, <2>2 DEF Gate
    <3>3. QueueOK(NoGate, phase) /\ CountOK(NoGate, phase, disturbed)
      BY <1>1, <1>2, <1>3, <3>2 DEF QueueOK, CountOK
    <3>4. GateOK(NoGate, phase, blockTimer, disturbed)
      BY <1>1, <1>2, <3>3 DEF GateOK
    <3> QED
      BY <3>1, <3>4 DEF GateInv
  <2> QED
    BY <2>1, <2>2
<1>5. CASE Reset
  <2> DEFINE ph == [r \in Requests |-> IF phase[r] = "waiting" THEN "idle" ELSE phase[r]]
  <2>1. /\ gate' = NoGate /\ phase' = ph /\ UNCHANGED <<blockTimer, oldTimers>>
        /\ disturbed' = (HoldersOf(phase) # {})
    BY <1>5 DEF Reset, Holders, HoldersOf
  <2>2. /\ ph \in [Requests -> Phases] /\ HoldersOf(ph) = HoldersOf(phase)
        /\ WaitingOf(ph) = {}
    BY <1>1 DEF HoldersOf, WaitingOf, Phases
  <2> HIDE DEF ph
  <2>3. QueueOK(NoGate, ph)
    BY <1>2, <1>3, <2>2 DEF QueueOK, ToSet, IsInjective
  <2>4. CountOK(NoGate, ph, HoldersOf(phase) # {})
    <3>1. Cardinality(HoldersOf(phase)) \in Nat
      BY <1>1, PhaseSets
    <3>2. HoldersOf(phase) = {} => Cardinality(HoldersOf(phase)) = 0
      BY FS_EmptySet
    <3> QED
      BY <1>2, <2>2, <3>1, <3>2 DEF CountOK
  <2>5. GateOK(NoGate, ph, blockTimer, HoldersOf(phase) # {})
    BY <1>1, <1>2, <2>2, <2>3, <2>4 DEF GateOK
  <2> QED
    BY <2>1, <2>5 DEF GateInv
<1> QED
  BY <1>4, <1>5

-----------------------------------------------------------------------------
(* No gate, nobody in it, no timer. *)
LEMMA GateInvInit == Init => GateInv
<1> SUFFICES ASSUME Init PROVE GateInv
  OBVIOUS
<1>1. /\ NoGate \in Gate /\ ~NoGate.exists /\ NoGate.running = 0 /\ NoGate.queue = <<>>
      /\ NoGate.blocked = "no" /\ Len(NoGate.queue) = 0 /\ gate = NoGate
  BY DEF NoGate, Gate, Blocks, Init
<1>2. phase \in [Requests -> Phases] /\ HoldersOf(phase) = {} /\ WaitingOf(phase) = {}
  BY DEF Init, Phases, HoldersOf, WaitingOf
<1>3. QueueOK(NoGate, phase) /\ CountOK(NoGate, phase, FALSE)
  BY <1>1, <1>2, FS_EmptySet, QueueAssumption DEF QueueOK, CountOK, ToSet, IsInjective
<1>4. GateOK(NoGate, phase, FALSE, FALSE)
  BY <1>1, <1>2, <1>3 DEF GateOK
<1>5. blockTimer = FALSE /\ disturbed = FALSE /\ oldTimers \in 0 .. MaxOldTimers
  BY TimerAssumption DEF Init
<1> QED
  BY <1>1, <1>4, <1>5 DEF GateInv

(* Every step keeps the invariant. *)
LEMMA GateInvStep == GateInv /\ [Next]_vars => GateInv'
<1> SUFFICES ASSUME GateInv, [Next]_vars PROVE GateInv'
  OBVIOUS
<1>1. CASE UNCHANGED vars
  BY <1>1 DEF vars, GateInv
<1>2. CASE Next
  BY <1>2, AcquireNowInv, AcquireQueuedInv, AcquireRefusedInv, ReleaseInv, LeaveInv, BlockInv,
     UnblockInv, GoneInv DEF Next
<1> QED
  BY <1>1, <1>2

(* The invariant, from which the theorems follow. *)
LEMMA GateInvHolds == Spec => []GateInv
BY GateInvInit, GateInvStep, PTL DEF Spec

(* The gate keeps its types, an absent one has no state, and the queue never grows
   past MaxQueueSize, whatever caps the callers pass. *)
THEOREM SemaphoreTypeCorrect == Spec => []TypeOK
<1>1. GateInv => TypeOK
  BY DEF GateInv, GateOK, QueueOK, TypeOK, Gate
<1> QED
  BY <1>1, GateInvHolds, PTL

(* acquire(), the release functions, the drain loop and the cleanup timer agree on the
   slots in use and on who waits; a reset makes the counter too low at most, until
   nobody holds a slot. *)
THEOREM SlotAccountingHolds == Spec => []SlotAccounting
<1>1. GateInv => SlotAccounting
  <2> SUFFICES ASSUME GateInv PROVE SlotAccounting
    OBVIOUS
  <2>1. /\ gate.queue \in Seq(Requests) /\ IsInjective(gate.queue)
        /\ gate.running <= Cardinality(Holders)
        /\ ~disturbed => gate.running = Cardinality(Holders)
        /\ ToSet(gate.queue) = Waiting
    BY DEF GateInv, GateOK, QueueOK, CountOK, Gate, HoldersOf, WaitingOf, Holders, Waiting
  <2>2. Cardinality(ToSet(gate.queue)) = Len(gate.queue)
    <3>1. Len(gate.queue) \in 0 .. Len(gate.queue)
      BY <2>1
    <3>2. ToSet(gate.queue) = {gate.queue[i] : i \in 1 .. Len(gate.queue)}
      BY <2>1 DEF ToSet
    <3> QED
      BY <2>1, <3>1, <3>2, PrefixSize
  <2> QED
    BY <2>1, <2>2 DEF SlotAccounting
<1> QED
  BY <1>1, GateInvHolds, PTL

(* Those who wait have a holder that will drain the queue, or a block whose last timer
   is still to fire. *)
THEOREM NoLostWakeupHolds == Spec => []NoLostWakeup
<1>1. GateInv => NoLostWakeup
  BY DEF GateInv, GateOK, NoGate, NoLostWakeup
<1> QED
  BY <1>1, GateInvHolds, PTL

(* An idle gate has its cleanup scheduled, or a block timer that will schedule it. *)
THEOREM NoGateLeakHolds == Spec => []NoGateLeak
<1>1. GateInv => NoGateLeak
  BY DEF GateInv, GateOK, NoGateLeak
<1> QED
  BY <1>1, GateInvHolds, PTL

-----------------------------------------------------------------------------
(* A drain that serves anybody leaves the holders within the cap, if the counter was
   right. *)
LEMMA DrainCap ==
    ASSUME NEW g \in Gate, NEW ph \in [Requests -> Phases], QueueOK(g, ph),
           g.running = Cardinality(HoldersOf(ph)), Grants(g) > 0
    PROVE  Cardinality(HoldersOf(AfterDrain(g, ph))) <= g.cap
BY GrantsStop, DrainedSets

(* A drain without grants makes no holder. *)
LEMMA DrainIdle ==
    ASSUME NEW g \in Gate, NEW ph \in [Requests -> Phases], QueueOK(g, ph), Grants(g) = 0,
           NEW r \in Requests, ph[r] # "holding"
    PROVE  AfterDrain(g, ph)[r] # "holding"
<1>1. HoldersOf(AfterDrain(g, ph)) = HoldersOf(ph) \cup {g.queue[i] : i \in 1 .. 0}
  BY DrainedSets
<1>2. {g.queue[i] : i \in 1 .. 0} = {}
  OBVIOUS
<1> QED
  BY <1>1, <1>2 DEF HoldersOf

(* Whoever becomes a holder by a drain of gate g, which differs from the gate that is
   there in its counter or its block, finds the cap respected. *)
LEMMA DrainRespectsCap ==
    ASSUME NEW g \in Gate, NEW ph \in [Requests -> Phases], QueueOK(g, ph),
           CountOK(g, ph, disturbed), ~disturbed,
           gate' = Drained(g), phase' = AfterDrain(g, ph),
           NEW r \in Requests, ph[r] # "holding", phase'[r] = "holding"
    PROVE  Cardinality(Holders') <= gate'.cap
<1>1. Grants(g) \in Nat
  BY GrantsStop DEF Gate
<1>2. Grants(g) > 0
  BY <1>1, DrainIdle
<1>3. Cardinality(HoldersOf(phase')) <= g.cap
  BY <1>2, DrainCap DEF CountOK
<1>4. gate'.cap = g.cap
  BY DEF Drained, Gate
<1>5. Holders' = HoldersOf(phase')
  BY DEF Holders, HoldersOf
<1> QED
  BY <1>3, <1>4, <1>5

(* No grant takes the requests in flight above the cap in force when it is made, by
   acquire(), a release, an unblock or a timer, unless a reset dropped the gate of
   requests still in flight. *)
THEOREM CapRespectedHolds == Spec => CapRespected
<1> DEFINE Capped == \A r \in Requests :
                        (phase[r] # "holding" /\ phase'[r] = "holding" /\ ~disturbed) =>
                            Cardinality(Holders') <= gate'.cap
<1>1. GateInv /\ [Next]_vars => [Capped]_vars
  <2> SUFFICES ASSUME GateInv, Next, ~disturbed, NEW s \in Requests,
                      phase[s] # "holding", phase'[s] = "holding"
               PROVE  Cardinality(Holders') <= gate'.cap
    OBVIOUS
  <2>1. /\ gate \in Gate /\ phase \in [Requests -> Phases] /\ (gate.exists => gate.cap > 0)
        /\ ~gate.exists => gate = NoGate
        /\ Holders' = HoldersOf(phase')
    BY DEF GateInv, GateOK, Holders, HoldersOf
  <2>2. ASSUME NEW r \in Requests, NEW cap \in Caps, AcquireNow(r, cap)
        PROVE  Cardinality(Holders') <= gate'.cap
    BY <2>1, <2>2, AcquireNowInv
  <2>3. ASSUME NEW r \in Requests, NEW cap \in Caps,
               AcquireQueued(r, cap) \/ AcquireRefused(r, cap)
        PROVE  FALSE
    BY <2>1, <2>3 DEF AcquireQueued, AcquireRefused
  <2>4. ASSUME NEW r \in Requests, Release(r)
        PROVE  Cardinality(Holders') <= gate'.cap
    <3> DEFINE g == [gate EXCEPT !.running = IF @ > 0 THEN @ - 1 ELSE 0]
               left == [phase EXCEPT ![r] = "idle"]
    <3>1. /\ g \in Gate /\ g.exists = gate.exists /\ g.cap = gate.cap
          /\ left \in [Requests -> Phases] /\ gate.exists
          /\ QueueOK(g, left) /\ CountOK(g, left, disturbed)
      BY <2>4, SlotReturned DEF Release
    <3>2. left[s] # "holding"
      BY <2>1
    <3>3. \/ gate' = Drained(g) /\ phase' = AfterDrain(g, left)
          \/ phase' = left
      BY <2>4 DEF Release
    <3> HIDE DEF g, left
    <3> QED
      BY <2>1, <3>1, <3>2, <3>3, DrainRespectsCap
  <2>5. ASSUME NEW r \in Requests, Leave(r) PROVE FALSE
    BY <2>1, <2>5 DEF Leave
  <2>6. CASE MarkBlocked \/ BlockPasses \/ Cleanup
    BY <2>6 DEF MarkBlocked, BlockPasses, Cleanup
  <2>7. CASE Reset
    BY <2>1, <2>7 DEF Reset
  <2>8. CASE Unblock \/ BlockTimerBody
    <3> DEFINE g == [gate EXCEPT !.blocked = "no"]
    <3>1. gate.exists /\ gate' = Drained(g) /\ phase' = AfterDrain(g, phase)
      BY <2>1, <2>8 DEF Unblock, BlockTimerBody, NoGate
    <3>2. /\ g \in Gate /\ g.exists /\ g.cap > 0
          /\ QueueOK(g, phase) /\ CountOK(g, phase, disturbed)
      BY <3>1, Unblocked
    <3> HIDE DEF g
    <3> QED
      BY <2>1, <3>1, <3>2, DrainRespectsCap
  <2> QED
    BY <2>2, <2>3, <2>4, <2>5, <2>6, <2>7, <2>8 DEF Next, BlockTimerFires, OldTimerFires
<1>2. Spec => [][Capped]_vars
  BY <1>1, GateInvHolds, PTL DEF Spec
<1> QED
  BY <1>2 DEF CapRespected

-----------------------------------------------------------------------------
(* The pool of slots the account semaphore is, as long as nobody resets it. *)
Pool == INSTANCE SlotPool WITH holders <- Holders, queue <- gate.queue, limit <- gate.cap

(* What the refinement needs: without resets the counter is never wrong. *)
PoolInv == GateInv /\ disturbed = FALSE

(* Only a reset makes the counter wrong. *)
LEMMA PoolInvStep == PoolInv /\ [Next /\ ~Reset]_vars => PoolInv'
<1> SUFFICES ASSUME PoolInv, [Next /\ ~Reset]_vars PROVE PoolInv'
  OBVIOUS
<1>1. GateInv'
  BY GateInvStep DEF PoolInv
<1>2. disturbed' = FALSE
  <2>1. disturbed = FALSE
    BY DEF PoolInv
  <2>2. CASE UNCHANGED vars
    BY <2>1, <2>2 DEF vars
  <2>3. CASE Next /\ ~Reset
    BY <2>1, <2>3
       DEF Next, AcquireNow, AcquireQueued, AcquireRefused, Release, Leave, MarkBlocked, Unblock,
           BlockPasses, BlockTimerFires, OldTimerFires, Cleanup
  <2> QED
    BY <2>2, <2>3
<1> QED
  BY <1>1, <1>2 DEF PoolInv

(* The instance of SlotPool counts as the rest of the module does. *)
LEMMA PoolCardinality == \A S : Pool!Cardinality(S) = Cardinality(S)
BY DEF Pool!Cardinality, Cardinality

(* A drain of gate g with phases ph, reached from the state of the step by slots given
   back by the requests gone, is a Serve of the pool. *)
LEMMA DrainServes ==
    ASSUME NEW g \in Gate, NEW ph \in [Requests -> Phases], QueueOK(g, ph),
           CountOK(g, ph, FALSE), g.queue = gate.queue, NEW gone,
           HoldersOf(ph) = Holders \ gone, gate' = Drained(g), phase' = AfterDrain(g, ph)
    PROVE  Grants(g) \in 0 .. Len(gate.queue) /\ Pool!Serve(gone, Grants(g))
<1> DEFINE k == Grants(g)
<1>1. k \in 0 .. Len(gate.queue)
  BY GrantsStop
<1>2. HoldersOf(phase') = HoldersOf(ph) \cup {g.queue[i] : i \in 1 .. k}
  BY DrainedSets
<1>3. k > 0 => Cardinality(HoldersOf(phase')) <= g.cap
  BY DrainCap DEF CountOK
<1>4. /\ gate'.queue = SubSeq(gate.queue, k + 1, Len(gate.queue))
      /\ gate'.cap = g.cap /\ g.cap \in Nat
  BY DEF Drained, Gate
<1>5. Holders' = HoldersOf(phase')
  BY DEF Holders, HoldersOf
<1> HIDE DEF k
<1>6. Pool!Serve(gone, k)
  BY <1>2, <1>3, <1>4, <1>5, PoolCardinality DEF Pool!Serve
<1> QED
  BY <1>1, <1>6 DEF k

(* A step that serves nobody: those of gone leave, and the cap may change. *)
LEMMA NobodyServed ==
    ASSUME GateInv, NEW gone, Holders' = Holders \ gone, gate'.queue = gate.queue,
           gate'.cap \in Nat
    PROVE  0 \in 0 .. Len(gate.queue) /\ Pool!Serve(gone, 0)
<1>1. gate.queue \in Seq(Requests) /\ 0 \in 0 .. Len(gate.queue)
  BY DEF GateInv, GateOK, Gate
<1>2. gate.queue = SubSeq(gate.queue, 0 + 1, Len(gate.queue))
  BY <1>1
<1>3. {gate.queue[i] : i \in 1 .. 0} = {}
  OBVIOUS
<1>4. Pool!Serve(gone, 0)
  BY <1>2, <1>3 DEF Pool!Serve
<1> QED
  BY <1>1, <1>4

(* Holders and queue as they are, whatever the cap becomes, is a step of the pool. *)
LEMMA IdleServes ==
    ASSUME GateInv, Holders' = Holders, gate'.queue = gate.queue, gate'.cap \in Nat
    PROVE  Pool!Next
<1>1. Holders' = Holders \ {}
  OBVIOUS
<1>2. 0 \in 0 .. Len(gate.queue) /\ Pool!Serve({}, 0)
  BY <1>1, NobodyServed
<1> QED
  BY <1>2 DEF Pool!Next

(* Every step but a reset is a step of the pool. *)
LEMMA PoolStep == PoolInv /\ [Next /\ ~Reset]_vars => [Pool!Next]_(Pool!vars)
<1> SUFFICES ASSUME PoolInv, [Next /\ ~Reset]_vars PROVE Pool!Next \/ UNCHANGED Pool!vars
  OBVIOUS
<1>1. /\ GateInv /\ gate \in Gate /\ phase \in [Requests -> Phases]
      /\ QueueOK(gate, phase) /\ CountOK(gate, phase, FALSE)
      /\ gate.queue \in Seq(Requests) /\ disturbed = FALSE
      /\ Holders = HoldersOf(phase) /\ Waiting = WaitingOf(phase)
      /\ ~gate.exists => gate = NoGate
  BY DEF PoolInv, GateInv, GateOK, Gate, Holders, HoldersOf, Waiting, WaitingOf
<1>2. gate'.cap \in Nat
  BY PoolInvStep DEF PoolInv, GateInv, GateOK, Gate
<1>3. \A r \in Requests : phase[r] = "idle" => r \notin Holders \cup Pool!Queued
  <2>1. Pool!Queued = ToSet(gate.queue)
    BY DEF Pool!Queued, ToSet
  <2> QED
    BY <1>1, <2>1 DEF QueueOK, HoldersOf, WaitingOf
<1>4. ASSUME NEW r \in Requests, NEW cap \in Caps, AcquireNow(r, cap) PROVE Pool!Next
  <2> DEFINE g == EnsureGate(cap)
  <2>1. /\ g \in Gate /\ g.cap = cap /\ g.running = gate.running /\ g.queue = gate.queue
        /\ cap \in Nat
    BY <1>1, EnsureGateKeeps
  <2>2. /\ phase[r] = "idle" /\ g.running < g.cap /\ phase' = [phase EXCEPT ![r] = "holding"]
        /\ gate' = [g EXCEPT !.running = @ + 1, !.blocked = "no"]
    BY <1>4 DEF AcquireNow, SlotFree
  <2> HIDE DEF g
  <2>3. gate'.queue = gate.queue /\ gate'.cap = cap
    BY <2>1, <2>2 DEF Gate
  <2>4. Holders' = Holders \cup {r}
    BY <1>1, <2>2 DEF Holders
  <2>5. Cardinality(Holders) < gate'.cap
    BY <1>1, <2>1, <2>2, <2>3 DEF CountOK
  <2>6. Pool!Enter(r)
    BY <1>2, <1>3, <2>2, <2>3, <2>4, <2>5, PoolCardinality DEF Pool!Enter
  <2> QED
    BY <2>6 DEF Pool!Next
<1>5. ASSUME NEW r \in Requests, NEW cap \in Caps, AcquireQueued(r, cap) PROVE Pool!Next
  <2> DEFINE g == EnsureGate(cap)
  <2>1. g \in Gate /\ g.queue = gate.queue
    BY <1>1, EnsureGateKeeps
  <2>2. /\ phase[r] = "idle" /\ phase' = [phase EXCEPT ![r] = "waiting"]
        /\ gate' = [g EXCEPT !.queue = Append(@, r)]
    BY <1>5 DEF AcquireQueued
  <2> HIDE DEF g
  <2>3. gate'.queue = Append(gate.queue, r)
    BY <2>1, <2>2 DEF Gate
  <2>4. Holders' = Holders
    BY <1>1, <2>2 DEF Holders
  <2>5. Pool!Join(r)
    BY <1>2, <1>3, <2>2, <2>3, <2>4 DEF Pool!Join
  <2> QED
    BY <2>5 DEF Pool!Next
<1>6. ASSUME NEW r \in Requests, NEW cap \in Caps, AcquireRefused(r, cap) PROVE Pool!Next
  <2>1. gate'.queue = gate.queue /\ phase' = phase
    BY <1>1, <1>6, EnsureGateKeeps DEF AcquireRefused
  <2>2. Holders' = Holders
    BY <2>1 DEF Holders
  <2> QED
    BY <1>1, <1>2, <2>1, <2>2, IdleServes
<1>7. ASSUME NEW r \in Requests, Release(r) PROVE Pool!Next
  <2> DEFINE g == [gate EXCEPT !.running = IF @ > 0 THEN @ - 1 ELSE 0]
             left == [phase EXCEPT ![r] = "idle"]
             h == [g EXCEPT !.cleanup = TRUE]
  <2>1. /\ gate.exists /\ g \in Gate /\ g.queue = gate.queue
        /\ left \in [Requests -> Phases] /\ HoldersOf(left) = Holders \ {r}
        /\ QueueOK(g, left) /\ CountOK(g, left, FALSE)
    BY <1>1, <1>7, SlotReturned DEF Release
  <2>2. /\ r \in Holders
        /\ \/ gate' = Drained(g) /\ phase' = AfterDrain(g, left)
           \/ gate' = h /\ phase' = left
    BY <1>7, <2>1 DEF Release, Holders
  <2> HIDE DEF g, left
  <2>3. h.queue = gate.queue
    BY <2>1 DEF Gate
  <2> HIDE DEF h
  <2>4. CASE gate' = Drained(g) /\ phase' = AfterDrain(g, left)
    <3>1. Grants(g) \in 0 .. Len(gate.queue) /\ Pool!Serve({r}, Grants(g))
      BY <2>1, <2>4, DrainServes
    <3> QED
      BY <2>2, <3>1 DEF Pool!Next
  <2>5. CASE gate' = h /\ phase' = left
    <3>1. Holders' = Holders \ {r}
      BY <2>1, <2>5 DEF Holders, HoldersOf
    <3>2. 0 \in 0 .. Len(gate.queue) /\ Pool!Serve({r}, 0)
      BY <1>1, <1>2, <2>3, <2>5, <3>1, NobodyServed
    <3> QED
      BY <2>2, <3>2 DEF Pool!Next
  <2> QED
    BY <2>2, <2>4, <2>5
<1>8. ASSUME NEW r \in Requests, Leave(r) PROVE Pool!Next
  <2>1. PICK i \in DOMAIN gate.queue :
           /\ phase[r] = "waiting"
           /\ gate' = [gate EXCEPT !.queue = RemoveAt(gate.queue, i),
                                   !.cleanup = @ \/ (gate.running = 0 /\ RemoveAt(gate.queue, i) = <<>>)]
           /\ phase' = [phase EXCEPT ![r] = "idle"]
    BY <1>8 DEF Leave
  <2>2. gate'.queue = RemoveAt(gate.queue, i) /\ gate'.cap = gate.cap
    BY <1>1, <2>1 DEF Gate
  <2>3. Holders' = Holders
    BY <1>1, <2>1 DEF Holders
  <2>4. Pool!GiveUp(i)
    BY <2>2, <2>3 DEF Pool!GiveUp, RemoveAt
  <2> QED
    BY <2>4 DEF Pool!Next
<1>9. CASE MarkBlocked \/ BlockPasses \/ Cleanup
  <2>1. phase' = phase
    BY <1>9 DEF MarkBlocked, BlockPasses, Cleanup
  <2>2. gate'.queue = gate.queue
    <3>1. CASE MarkBlocked
      BY <1>1, <3>1 DEF MarkBlocked, NoGate, Gate
    <3>2. CASE BlockPasses
      BY <1>1, <3>2 DEF BlockPasses, Gate
    <3>3. CASE Cleanup
      BY <1>1, <3>3 DEF Cleanup, NoGate, Gate
    <3> QED
      BY <1>9, <3>1, <3>2, <3>3
  <2>3. Holders' = Holders
    BY <2>1 DEF Holders
  <2> QED
    BY <1>1, <1>2, <2>2, <2>3, IdleServes
<1>10. CASE Unblock \/ BlockTimerBody
  <2> DEFINE g == [gate EXCEPT !.blocked = "no"]
  <2>1. \/ gate.exists /\ gate' = Drained(g) /\ phase' = AfterDrain(g, phase)
        \/ gate' = gate /\ phase' = phase
    BY <1>1, <1>10 DEF Unblock, BlockTimerBody, NoGate
  <2>2. CASE gate.exists /\ gate' = Drained(g) /\ phase' = AfterDrain(g, phase)
    <3>1. /\ g \in Gate /\ g.queue = gate.queue
          /\ QueueOK(g, phase) /\ CountOK(g, phase, FALSE)
      BY <1>1, <2>2, Unblocked
    <3> HIDE DEF g
    <3>2. Grants(g) \in 0 .. Len(gate.queue) /\ Pool!Serve({}, Grants(g))
      BY <1>1, <2>2, <3>1, DrainServes
    <3> QED
      BY <3>2 DEF Pool!Next
  <2>3. CASE gate' = gate /\ phase' = phase
    BY <1>1, <1>2, <2>3, IdleServes DEF Holders
  <2> QED
    BY <2>1, <2>2, <2>3
<1>11. CASE UNCHANGED vars
  BY <1>1, <1>2, <1>11, IdleServes DEF vars, Holders
<1> QED
  BY <1>4, <1>5, <1>6, <1>7, <1>8, <1>9, <1>10, <1>11
     DEF Next, BlockTimerFires, OldTimerFires

(* Without resets the account semaphore, with its lazily cleared blocks, its block
   timers and a gate that is collected and made again, implements a pool of slots: no
   grant above the cap the latest caller passed, and waiters served first in, first
   out. *)
THEOREM ImplementsPoolUnlessReset == Spec /\ [][~Reset]_vars => Pool!Spec
<1>1. Init => Pool!Init /\ PoolInv
  <2> SUFFICES ASSUME Init PROVE Pool!Init /\ PoolInv
    OBVIOUS
  <2>1. Pool!Init
    BY DEF Init, Pool!Init, Holders, NoGate
  <2>2. PoolInv
    BY GateInvInit DEF Init, PoolInv
  <2> QED
    BY <2>1, <2>2
<1>2. [Next]_vars /\ [~Reset]_vars => [Next /\ ~Reset]_vars
  OBVIOUS
<1> QED
  BY <1>1, <1>2, PoolInvStep, PoolStep, PTL DEF Spec, Pool!Spec
=============================================================================
