---------------------- MODULE RateLimitSemaphoreProofs ----------------------
(***************************************************************************)
(* The safety properties of RateLimitSemaphore and its refinement of       *)
(* SlotPool, for any finite set of callers, any limits, queue sizes and    *)
(* number of timers.                                                       *)
(***************************************************************************)
EXTENDS RateLimitSemaphore, FiniteSetTheorems, SequenceTheorems, TLAPS

Gate == [exists : BOOLEAN, running : Nat, max : Nat, queue : Seq(Requests), limited : Pauses]

HoldersOf(ph) == {r \in Requests : ph[r] = "holding"}
WaitingOf(ph) == {r \in Requests : ph[r] = "waiting"}

(* SlotAccounting as a relation between any gate and any phases, with the order of
   the queue in place of its length. *)
Slots(g, ph) ==
    /\ g.running = Cardinality(HoldersOf(ph))
    /\ IsInjective(g.queue)
    /\ ToSet(g.queue) = WaitingOf(ph)

-----------------------------------------------------------------------------
(* The inductive invariant.  GateOK takes gate, phases, pause timer and cooldown as
   parameters because a drain is several changes in one step.  Beyond the types:
   the pause of the gate is the cooldown that runs; its own timer is pending until
   somebody has noticed the end; and a gate without holders is there for its pause
   only. *)
GateOK(g, ph, t, c) ==
    /\ g \in Gate /\ ph \in [Requests -> Phases] /\ Slots(g, ph)
    /\ ~g.exists => g = NoGate /\ ~t
    /\ g.queue # <<>> => \E size \in QueueSizes : Len(g.queue) <= size
    /\ t \in BOOLEAN /\ c \in {"over", "kept", "lost"}
    /\ g.limited = "yes" <=> c = "kept"
    /\ g.limited # "no" => t
    /\ g.exists => g.max > 0
    /\ g.exists /\ g.running = 0 => g.limited # "no"

(* What the guard of MarkRateLimited bounds: all timers together. *)
CountsOK ==
    /\ older \in 0 .. MaxTimers /\ strays \in 0 .. MaxTimers + 1
    /\ ~gate.exists => older = 0
    /\ older + strays + (IF timer THEN 1 ELSE 0) <= MaxTimers + 1

Inv == GateOK(gate, phase, timer, cooling) /\ CountsOK

-----------------------------------------------------------------------------
(* The first k places of a queue without repetitions hold k callers. *)
LEMMA PrefixSize ==
    ASSUME NEW q \in Seq(Requests), IsInjective(q), NEW k \in 0 .. Len(q)
    PROVE  /\ IsFiniteSet({q[i] : i \in 1 .. k})
           /\ Cardinality({q[i] : i \in 1 .. k}) = k
<1> DEFINE T == {q[i] : i \in 1 .. k}
           f == [i \in 1 .. k |-> q[i]]
<1>1. k \in Nat /\ 1 .. k \subseteq DOMAIN q
  OBVIOUS
<1>2. f \in Surjection(1 .. k, T)
  BY DEF Surjection
<1>3. f \in Injection(1 .. k, T)
  BY <1>1, <1>2 DEF Injection, IsInjective, Surjection
<1>4. IsFiniteSet(1 .. k) /\ Cardinality(1 .. k) = k
  BY <1>1, FS_Interval
<1> HIDE DEF T, f
<1>5. IsFiniteSet(T) /\ Cardinality(T) = k
  BY <1>2, <1>3, <1>4, FS_Surjection
<1> QED
  BY <1>5 DEF T

(* Those after the first k places are the others, in the same order. *)
LEMMA SuffixOf ==
    ASSUME NEW q \in Seq(Requests), IsInjective(q), NEW k \in 0 .. Len(q)
    PROVE  /\ SubSeq(q, k + 1, Len(q)) \in Seq(Requests)
           /\ Len(SubSeq(q, k + 1, Len(q))) = Len(q) - k
           /\ IsInjective(SubSeq(q, k + 1, Len(q)))
           /\ ToSet(SubSeq(q, k + 1, Len(q))) = ToSet(q) \ {q[i] : i \in 1 .. k}
<1> DEFINE s == SubSeq(q, k + 1, Len(q))
<1>1. /\ s \in Seq(Requests) /\ Len(s) = Len(q) - k /\ DOMAIN s = 1 .. Len(q) - k
      /\ \A i \in 1 .. Len(q) - k : s[i] = q[k + i]
  OBVIOUS
<1>2. DOMAIN q = 1 .. Len(q) /\ Len(q) \in Nat /\ k \in Nat /\ k <= Len(q)
  OBVIOUS
<1> HIDE DEF s
<1>3. IsInjective(s)
  <2> SUFFICES ASSUME NEW i \in DOMAIN s, NEW j \in DOMAIN s, s[i] = s[j] PROVE i = j
    BY DEF IsInjective
  <2>1. k + i \in DOMAIN q /\ k + j \in DOMAIN q /\ q[k + i] = q[k + j]
    BY <1>1, <1>2
  <2>2. k + i = k + j
    BY <2>1 DEF IsInjective
  <2> QED
    BY <1>1, <1>2, <2>2
<1>4. ASSUME NEW i \in DOMAIN s PROVE s[i] \in ToSet(q) \ {q[j] : j \in 1 .. k}
  <2>1. s[i] = q[k + i] /\ k + i \in DOMAIN q /\ i > 0
    BY <1>1, <1>2
  <2>2. ASSUME NEW j \in 1 .. k, q[j] = q[k + i] PROVE FALSE
    <3>1. j \in DOMAIN q
      BY <1>2
    <3>2. j = k + i
      BY <2>1, <2>2, <3>1 DEF IsInjective
    <3> QED
      BY <1>2, <2>1, <3>2
  <2> QED
    BY <2>1, <2>2 DEF ToSet
<1>5. ASSUME NEW i \in DOMAIN q, q[i] \notin {q[j] : j \in 1 .. k} PROVE q[i] \in ToSet(s)
  <2>1. i > k
    BY <1>2, <1>5
  <2>2. i - k \in DOMAIN s /\ s[i - k] = q[i]
    BY <1>1, <1>2, <2>1
  <2> QED
    BY <2>2 DEF ToSet
<1>6. ToSet(s) = ToSet(q) \ {q[i] : i \in 1 .. k}
  BY <1>4, <1>5 DEF ToSet
<1> QED
  BY <1>1, <1>3, <1>6 DEF s

(* A waiter that gives up leaves the others in their order. *)
LEMMA RemovedFrom ==
    ASSUME NEW q \in Seq(Requests), IsInjective(q), NEW k \in DOMAIN q
    PROVE  /\ RemoveAt(q, k) \in Seq(Requests)
           /\ Len(RemoveAt(q, k)) = Len(q) - 1
           /\ IsInjective(RemoveAt(q, k))
           /\ ToSet(RemoveAt(q, k)) = ToSet(q) \ {q[k]}
<1> DEFINE s == RemoveAt(q, k)
           At(i) == IF i < k THEN i ELSE i + 1
<1>1. DOMAIN q = 1 .. Len(q) /\ Len(q) \in Nat /\ k \in Nat /\ 1 <= k /\ k <= Len(q)
  OBVIOUS
<1>2. /\ s \in Seq(Requests) /\ Len(s) = Len(q) - 1 /\ DOMAIN s = 1 .. Len(q) - 1
      /\ \A i \in 1 .. Len(q) - 1 : s[i] = q[At(i)]
  <2> DEFINE a == SubSeq(q, 1, k - 1)
             b == SubSeq(q, k + 1, Len(q))
  <2>1. a \in Seq(Requests) /\ Len(a) = k - 1 /\ \A i \in 1 .. k - 1 : a[i] = q[i]
    BY <1>1
  <2>2. /\ b \in Seq(Requests) /\ Len(b) = Len(q) - k
        /\ \A i \in 1 .. Len(q) - k : b[i] = q[k + i]
    BY <1>1
  <2>3. s = a \o b
    BY DEF RemoveAt
  <2> HIDE DEF a, b, s
  <2>4. /\ s \in Seq(Requests) /\ Len(s) = (k - 1) + (Len(q) - k)
        /\ \A i \in 1 .. Len(s) : s[i] = IF i <= k - 1 THEN a[i] ELSE b[i - (k - 1)]
    <3>1. /\ s \in Seq(Requests) /\ Len(s) = Len(a) + Len(b)
          /\ \A i \in 1 .. Len(a) + Len(b) : s[i] = IF i <= Len(a) THEN a[i] ELSE b[i - Len(a)]
      BY <2>1, <2>2, <2>3, ConcatProperties
    <3> QED
      BY <2>1, <2>2, <3>1
  <2>5. Len(s) = Len(q) - 1 /\ DOMAIN s = 1 .. Len(q) - 1
    BY <1>1, <2>4
  <2>6. ASSUME NEW i \in 1 .. Len(q) - 1 PROVE s[i] = q[At(i)]
    <3>1. CASE i < k
      BY <1>1, <2>1, <2>4, <2>5, <3>1
    <3>2. CASE i >= k
      <4>1. s[i] = b[i - (k - 1)] /\ i - (k - 1) \in 1 .. Len(q) - k
        BY <1>1, <2>4, <2>5, <3>2
      <4>2. k + (i - (k - 1)) = i + 1
        BY <1>1
      <4> QED
        BY <2>2, <3>2, <4>1, <4>2
    <3> QED
      BY <1>1, <3>1, <3>2
  <2> QED
    BY <2>4, <2>5, <2>6
<1>3. \A i \in DOMAIN s : At(i) \in DOMAIN q /\ At(i) # k
  BY <1>1, <1>2
<1>4. \A i, j \in DOMAIN s : At(i) = At(j) => i = j
  BY <1>1, <1>2
<1>5. \A i \in DOMAIN q : i # k => \E j \in DOMAIN s : At(j) = i
  <2> SUFFICES ASSUME NEW i \in DOMAIN q, i # k PROVE \E j \in DOMAIN s : At(j) = i
    OBVIOUS
  <2>1. CASE i < k
    BY <1>1, <1>2, <2>1
  <2>2. CASE i > k
    <3>1. i - 1 \in DOMAIN s /\ At(i - 1) = i
      BY <1>1, <1>2, <2>2
    <3> QED
      BY <3>1
  <2> QED
    BY <1>1, <2>1, <2>2
<1> HIDE DEF s, At
<1>6. IsInjective(s)
  BY <1>2, <1>3, <1>4 DEF IsInjective
<1>7. ToSet(s) = ToSet(q) \ {q[k]}
  <2>1. \A i \in DOMAIN s : s[i] \in ToSet(q) /\ s[i] # q[k]
    BY <1>2, <1>3 DEF ToSet, IsInjective
  <2>2. \A i \in DOMAIN q : q[i] # q[k] => q[i] \in ToSet(s)
    BY <1>2, <1>5 DEF ToSet
  <2> QED
    BY <2>1, <2>2 DEF ToSet
<1> QED
  BY <1>2, <1>6, <1>7 DEF s

(* A newcomer at the end of the queue. *)
LEMMA AppendedTo ==
    ASSUME NEW q \in Seq(Requests), IsInjective(q), NEW r \in Requests, r \notin ToSet(q)
    PROVE  /\ Append(q, r) \in Seq(Requests)
           /\ Len(Append(q, r)) = Len(q) + 1
           /\ IsInjective(Append(q, r))
           /\ ToSet(Append(q, r)) = ToSet(q) \cup {r}
<1> DEFINE s == Append(q, r)
<1>1. DOMAIN q = 1 .. Len(q) /\ Len(q) \in Nat
  OBVIOUS
<1>2. /\ s \in Seq(Requests) /\ Len(s) = Len(q) + 1 /\ DOMAIN s = DOMAIN q \cup {Len(q) + 1}
      /\ \A i \in DOMAIN q : s[i] = q[i]
      /\ s[Len(q) + 1] = r
  OBVIOUS
<1> HIDE DEF s
<1>3. \A i \in DOMAIN q : q[i] # r
  BY DEF ToSet
<1>4. IsInjective(s)
  BY <1>1, <1>2, <1>3 DEF IsInjective
<1>5. ToSet(s) = ToSet(q) \cup {r}
  BY <1>2 DEF ToSet
<1> QED
  BY <1>2, <1>4, <1>5 DEF s

-----------------------------------------------------------------------------
(* Holders and waiters are finitely many, and nobody is both. *)
LEMMA PhaseSets ==
    ASSUME NEW ph \in [Requests -> Phases]
    PROVE  /\ IsFiniteSet(HoldersOf(ph)) /\ Cardinality(HoldersOf(ph)) \in Nat
           /\ HoldersOf(ph) \subseteq Requests /\ WaitingOf(ph) \subseteq Requests
           /\ HoldersOf(ph) \cap WaitingOf(ph) = {}
<1>1. HoldersOf(ph) \subseteq Requests /\ WaitingOf(ph) \subseteq Requests
  BY DEF HoldersOf, WaitingOf
<1>2. HoldersOf(ph) \cap WaitingOf(ph) = {}
  BY DEF HoldersOf, WaitingOf
<1>3. IsFiniteSet(HoldersOf(ph))
  BY <1>1, RequestsAssumption, FS_Subset
<1> QED
  BY <1>1, <1>2, <1>3, FS_CardinalityType

(* drainQueue() stops for one of its reasons. *)
LEMMA GrantsStop ==
    ASSUME NEW g \in Gate
    PROVE  /\ Grants(g) \in 0 .. Len(g.queue)
           /\ Grants(g) > 0 => g.running + Grants(g) <= g.max /\ g.limited # "yes"
           /\ Grants(g) = 0 => \/ g.limited = "yes" \/ g.running >= g.max
                              \/ g.queue = <<>>
<1>1. g.running \in Nat /\ g.max \in Nat /\ Len(g.queue) \in Nat /\ g.queue \in Seq(Requests)
  BY DEF Gate
<1>2. Len(g.queue) = 0 => g.queue = <<>>
  BY <1>1
<1> QED
  BY <1>1, <1>2 DEF Grants

(* The drain turns the head of the queue into holders. *)
LEMMA ServedSets ==
    ASSUME NEW g \in Gate, NEW ph \in [Requests -> Phases], Slots(g, ph)
    PROVE  LET granted == {g.queue[i] : i \in 1 .. Grants(g)} IN
           /\ Served(g, ph) \in [Requests -> Phases]
           /\ granted \subseteq WaitingOf(ph)
           /\ HoldersOf(Served(g, ph)) = HoldersOf(ph) \cup granted
           /\ WaitingOf(Served(g, ph)) = WaitingOf(ph) \ granted
           /\ Cardinality(HoldersOf(Served(g, ph))) = g.running + Grants(g)
<1> DEFINE granted == {g.queue[i] : i \in 1 .. Grants(g)}
           new == Served(g, ph)
<1>1. Grants(g) \in 0 .. Len(g.queue) /\ g.queue \in Seq(Requests)
  BY GrantsStop DEF Gate
<1>2. granted \subseteq WaitingOf(ph)
  <2>1. granted \subseteq ToSet(g.queue)
    BY <1>1 DEF ToSet
  <2> QED
    BY <2>1 DEF Slots
<1>3. /\ new \in [Requests -> Phases]
      /\ \A r \in Requests : new[r] = IF r \in granted THEN "holding" ELSE ph[r]
  BY DEF Served, Phases
<1>4. IsFiniteSet(granted) /\ Cardinality(granted) = Grants(g)
  BY <1>1, PrefixSize DEF Slots
<1> HIDE DEF granted, new
<1>5. HoldersOf(new) = HoldersOf(ph) \cup granted
  BY <1>2, <1>3 DEF HoldersOf, WaitingOf
<1>6. WaitingOf(new) = WaitingOf(ph) \ granted
  BY <1>3 DEF WaitingOf
<1>7. Cardinality(HoldersOf(new)) = g.running + Grants(g)
  <2>1. HoldersOf(ph) \cap granted = {}
    BY <1>2, PhaseSets
  <2>2. Cardinality(HoldersOf(ph) \cup granted)
          = Cardinality(HoldersOf(ph)) + Cardinality(granted) - 0
    BY <1>4, <2>1, PhaseSets, FS_Union, FS_EmptySet
  <2> QED
    BY <1>1, <1>4, <1>5, <2>2, PhaseSets DEF Slots
<1> QED
  BY <1>2, <1>3, <1>5, <1>6, <1>7 DEF granted, new

(* What drainQueue() makes of a gate and the phases of its callers. *)
LEMMA DrainedKeeps ==
    ASSUME NEW g \in Gate, NEW ph \in [Requests -> Phases], Slots(g, ph),
           g.exists, g.max > 0
    PROVE  /\ Drained(g) \in Gate
           /\ Slots(Drained(g), Served(g, ph))
           /\ ~Drained(g).exists => Drained(g) = NoGate
           /\ Drained(g).exists =>
                 /\ Drained(g).max = g.max
                 /\ Drained(g).limited \in {"no", g.limited}
                 /\ g.limited = "yes" => Drained(g).limited = "yes"
                 /\ Drained(g).running = 0 => Drained(g).limited = "yes"
           /\ Drained(g).queue = SubSeq(g.queue, Grants(g) + 1, Len(g.queue))
           /\ Len(Drained(g).queue) <= Len(g.queue)
           /\ Drained(g).queue # <<>> => g.queue # <<>>
           /\ Grants(g) > 0 => g.running + Grants(g) <= Drained(g).max
<1> DEFINE n == Grants(g)
           q == SubSeq(g.queue, n + 1, Len(g.queue))
           new == Served(g, ph)
<1>1. /\ n \in 0 .. Len(g.queue)
      /\ n > 0 => g.running + n <= g.max /\ g.limited # "yes"
      /\ n = 0 => g.limited = "yes" \/ g.running >= g.max \/ g.queue = <<>>
  BY GrantsStop
<1>2. /\ g.queue \in Seq(Requests) /\ g.running \in Nat /\ g.max \in Nat
      /\ g.limited \in Pauses /\ IsInjective(g.queue)
  BY DEF Gate, Slots
<1>3. /\ q \in Seq(Requests) /\ Len(q) = Len(g.queue) - n /\ IsInjective(q)
      /\ ToSet(q) = ToSet(g.queue) \ {g.queue[i] : i \in 1 .. n}
  BY <1>1, <1>2, SuffixOf
<1>4. /\ WaitingOf(new) = WaitingOf(ph) \ {g.queue[i] : i \in 1 .. n}
      /\ Cardinality(HoldersOf(new)) = g.running + n
  BY ServedSets
<1>5. CASE IsIdle(g)
  <2>1. g.queue = <<>> /\ g.running = 0 /\ n = 0 /\ Drained(g) = NoGate
    <3>1. Len(<<>>) = 0
      OBVIOUS
    <3> QED
      BY <1>1, <1>5, <3>1 DEF IsIdle, Drained
  <2>2. q = <<>> /\ NoGate.queue = <<>> /\ NoGate.running = 0 /\ ~NoGate.exists
    BY <1>2, <1>3, <2>1 DEF NoGate
  <2>3. NoGate \in Gate
    BY DEF NoGate, Gate, Pauses
  <2>4. Slots(NoGate, new)
    BY <1>3, <1>4, <2>1, <2>2 DEF Slots
  <2> QED
    BY <1>2, <2>1, <2>2, <2>3, <2>4
<1>6. CASE ~IsIdle(g)
  <2> DEFINE d == Drained(g)
  <2>1. d = [g EXCEPT !.running = @ + n, !.queue = q, !.limited = IF n > 0 THEN "no" ELSE @]
    BY <1>6 DEF Drained
  <2>2. /\ d.exists /\ d.max = g.max /\ d.running = g.running + n /\ d.queue = q
        /\ d.limited = IF n > 0 THEN "no" ELSE g.limited
    BY <2>1 DEF Gate
  <2>3. d \in Gate
    <3> HIDE DEF n, q
    <3>1. g.running + n \in Nat /\ "no" \in Pauses
      BY <1>1, <1>2 DEF Pauses
    <3> QED
      BY <1>2, <1>3, <2>1, <3>1 DEF Gate
  <2> HIDE DEF d, n, q
  <2>4. Slots(d, new)
    BY <1>3, <1>4, <2>2 DEF Slots, n
  <2>5. d.running = 0 => d.limited = "yes"
    BY <1>1, <1>2, <1>6, <2>2 DEF IsIdle
  <2>6. Len(d.queue) <= Len(g.queue) /\ (d.queue # <<>> => g.queue # <<>>)
    BY <1>1, <1>2, <1>3, <2>2
  <2> QED
    BY <1>1, <2>2, <2>3, <2>4, <2>5, <2>6 DEF d, n, q
<1> QED
  BY <1>5, <1>6

-----------------------------------------------------------------------------
(* getGate(): the gate that is there, or an empty one, with the caller's maximum. *)
LEMMA GetGateKeeps ==
    ASSUME Inv, NEW max \in Nat \ {0}
    PROVE  /\ GetGate(max) \in Gate
           /\ GetGate(max).exists /\ GetGate(max).max = max
           /\ GetGate(max).running = gate.running
           /\ GetGate(max).queue = gate.queue
           /\ GetGate(max).limited = gate.limited
           /\ Slots(GetGate(max), phase)
<1>1. gate \in Gate /\ (~gate.exists => gate = NoGate) /\ Slots(gate, phase)
  BY DEF Inv, GateOK
<1>2. /\ GetGate(max) \in Gate
      /\ GetGate(max).exists /\ GetGate(max).max = max
      /\ GetGate(max).running = gate.running
      /\ GetGate(max).queue = gate.queue
      /\ GetGate(max).limited = gate.limited
  BY <1>1 DEF GetGate, NoGate, Gate, Pauses
<1> QED
  BY <1>1, <1>2 DEF Slots

(* A drain of a gate that differs from a sound one at most in a pause noticed to be
   past leaves a sound one; the timer that made it may be the gate's own when no
   pause is left. *)
LEMMA DrainOK ==
    ASSUME NEW g \in Gate, NEW ph \in [Requests -> Phases], Slots(g, ph), g.exists, g.max > 0,
           g.queue # <<>> => \E size \in QueueSizes : Len(g.queue) <= size,
           NEW t \in BOOLEAN, NEW c \in {"over", "kept", "lost"},
           g.limited = "yes" <=> c = "kept", g.limited # "no" => t
    PROVE  GateOK(Drained(g), Served(g, ph), t /\ Drained(g).exists,
                  IF c = "kept" /\ ~Drained(g).exists THEN "lost" ELSE c)
<1> DEFINE d == Drained(g)
           u == t /\ d.exists
           e == IF c = "kept" /\ ~d.exists THEN "lost" ELSE c
<1>1. /\ d \in Gate /\ Slots(d, Served(g, ph))
      /\ ~d.exists => d = NoGate
      /\ d.exists => /\ d.max = g.max /\ d.limited \in {"no", g.limited}
                     /\ g.limited = "yes" => d.limited = "yes"
                     /\ d.running = 0 => d.limited = "yes"
      /\ Len(d.queue) <= Len(g.queue) /\ (d.queue # <<>> => g.queue # <<>>)
  BY DrainedKeeps
<1>2. Served(g, ph) \in [Requests -> Phases]
  BY ServedSets
<1> HIDE DEF d
<1>3. ~NoGate.exists /\ NoGate.limited = "no"
  BY DEF NoGate
<1>4. d.queue # <<>> => \E size \in QueueSizes : Len(d.queue) <= size
  <2> SUFFICES ASSUME d.queue # <<>> PROVE \E size \in QueueSizes : Len(d.queue) <= size
    OBVIOUS
  <2>1. PICK size \in QueueSizes : Len(g.queue) <= size
    BY <1>1
  <2>2. Len(d.queue) \in Nat /\ Len(g.queue) \in Nat /\ size \in Nat
    BY <1>1, QueueAssumption DEF Gate
  <2> QED
    BY <1>1, <2>1, <2>2
<1>5. (d.limited = "yes" <=> e = "kept") /\ (d.limited # "no" => u)
  BY <1>1, <1>3
<1>6. d.exists => d.max > 0 /\ (d.running = 0 => d.limited # "no")
  BY <1>1
<1>7. u \in BOOLEAN /\ e \in {"over", "kept", "lost"} /\ (~d.exists => d = NoGate /\ ~u)
  BY <1>1
<1> QED
  BY <1>1, <1>2, <1>4, <1>5, <1>6, <1>7 DEF GateOK, d

-----------------------------------------------------------------------------
(* acquire() that finds a slot. *)
LEMMA AcquireNowInv ==
    ASSUME Inv, NEW r \in Requests, NEW max \in Limits, AcquireNow(r, max)
    PROVE  Inv'
<1> DEFINE g == GetGate(max)
           h == [g EXCEPT !.running = @ + 1, !.limited = "no"]
           ph == [phase EXCEPT ![r] = "holding"]
<1>1. /\ g \in Gate /\ g.exists /\ g.max = max /\ max > 0
      /\ g.running = gate.running /\ g.queue = gate.queue /\ g.limited = gate.limited
      /\ Slots(g, phase)
  BY GetGateKeeps, LimitsAssumption
<1>2. /\ phase \in [Requests -> Phases] /\ phase[r] = "idle" /\ g.limited # "yes"
      /\ gate' = h /\ phase' = ph /\ UNCHANGED <<timer, older, strays, cooling>>
  BY DEF AcquireNow, SlotFree, Inv, GateOK
<1> HIDE DEF g
<1>3. /\ h \in Gate /\ h.exists /\ h.max = max /\ h.running = g.running + 1
      /\ h.queue = g.queue /\ h.limited = "no"
  <2>1. g.running + 1 \in Nat /\ "no" \in Pauses
    BY <1>1 DEF Gate, Pauses
  <2> QED
    BY <1>1, <2>1 DEF Gate
<1>4. ph \in [Requests -> Phases] /\ HoldersOf(ph) = HoldersOf(phase) \cup {r}
      /\ WaitingOf(ph) = WaitingOf(phase) /\ r \notin HoldersOf(phase)
  BY <1>2 DEF HoldersOf, WaitingOf, Phases
<1>5. Slots(h, ph)
  <2>1. Cardinality(HoldersOf(ph)) = Cardinality(HoldersOf(phase)) + 1
    BY <1>2, <1>4, PhaseSets, FS_AddElement
  <2> HIDE DEF h, ph
  <2> QED
    BY <1>1, <1>3, <1>4, <2>1 DEF Slots
<1>6. cooling # "kept"
  BY <1>1, <1>2 DEF Inv, GateOK
<1>7. h.running # 0
  BY <1>1, <1>3 DEF Gate
<1> HIDE DEF h, ph
<1>8. GateOK(h, ph, timer, cooling)
  BY <1>1, <1>3, <1>4, <1>5, <1>6, <1>7 DEF GateOK, Inv
<1>9. CountsOK'
  BY <1>2, <1>3 DEF CountsOK, Inv
<1> QED
  BY <1>2, <1>8, <1>9 DEF Inv

(* acquire() that joins the queue. *)
LEMMA AcquireQueuedInv ==
    ASSUME Inv, NEW r \in Requests, NEW max \in Limits, NEW size \in QueueSizes,
           AcquireQueued(r, max, size)
    PROVE  Inv'
<1> DEFINE g == GetGate(max)
           h == [g EXCEPT !.queue = Append(@, r)]
           ph == [phase EXCEPT ![r] = "waiting"]
<1>1. /\ g \in Gate /\ g.exists /\ g.max = max /\ max > 0 /\ max \in Nat
      /\ g.running = gate.running /\ g.queue = gate.queue /\ g.limited = gate.limited
      /\ Slots(g, phase)
  BY GetGateKeeps, LimitsAssumption
<1>2. /\ phase \in [Requests -> Phases] /\ phase[r] = "idle"
      /\ ~(g.running < g.max /\ g.limited # "yes") /\ Len(g.queue) < size
      /\ gate' = h /\ phase' = ph /\ UNCHANGED <<timer, older, strays, cooling>>
  BY DEF AcquireQueued, SlotFree, Inv, GateOK
<1> HIDE DEF g
<1>3. g.queue \in Seq(Requests) /\ IsInjective(g.queue) /\ r \notin ToSet(g.queue)
  BY <1>1, <1>2 DEF Slots, WaitingOf, Gate
<1>4. /\ Append(g.queue, r) \in Seq(Requests) /\ Len(Append(g.queue, r)) = Len(g.queue) + 1
      /\ IsInjective(Append(g.queue, r)) /\ ToSet(Append(g.queue, r)) = ToSet(g.queue) \cup {r}
  BY <1>3, AppendedTo
<1>5. /\ h \in Gate /\ h.exists /\ h.max = max /\ h.running = g.running
      /\ h.queue = Append(g.queue, r) /\ h.limited = g.limited
  BY <1>1, <1>4 DEF Gate
<1>6. ph \in [Requests -> Phases] /\ HoldersOf(ph) = HoldersOf(phase)
      /\ WaitingOf(ph) = WaitingOf(phase) \cup {r}
  BY <1>2 DEF HoldersOf, WaitingOf, Phases
<1> HIDE DEF h, ph
<1>7. Slots(h, ph)
  BY <1>1, <1>4, <1>5, <1>6 DEF Slots
<1>8. Len(h.queue) <= size
  BY <1>2, <1>3, <1>4, <1>5, QueueAssumption
<1>9. h.running = 0 => h.limited # "no"
  BY <1>1, <1>2, <1>5 DEF Gate
<1>10. GateOK(h, ph, timer, cooling)
  BY <1>1, <1>5, <1>6, <1>7, <1>8, <1>9 DEF GateOK, Inv
<1>11. CountsOK'
  BY <1>2, <1>5 DEF CountsOK, Inv
<1> QED
  BY <1>2, <1>10, <1>11 DEF Inv

(* acquire() that is refused. *)
LEMMA AcquireRefusedInv ==
    ASSUME Inv, NEW r \in Requests, NEW max \in Limits, NEW size \in QueueSizes,
           AcquireRefused(r, max, size)
    PROVE  Inv'
<1> DEFINE g == GetGate(max)
           h == IF IsIdle(g) THEN NoGate ELSE g
<1>1. /\ g \in Gate /\ g.exists /\ g.max = max /\ max > 0 /\ max \in Nat
      /\ g.running = gate.running /\ g.queue = gate.queue /\ g.limited = gate.limited
      /\ Slots(g, phase)
  BY GetGateKeeps, LimitsAssumption
<1>2. /\ ~(g.running < g.max /\ g.limited # "yes")
      /\ PutGate(h) /\ MayLoseCooldown /\ phase' = phase
  BY DEF AcquireRefused, SlotFree
<1>3. /\ NoGate \in Gate /\ ~NoGate.exists /\ NoGate.running = 0 /\ NoGate.queue = <<>>
      /\ NoGate.limited = "no"
  BY DEF NoGate, Gate, Pauses
<1> HIDE DEF g
<1>4. CASE IsIdle(g)
  <2>1. /\ gate' = NoGate /\ timer' = FALSE /\ older' = 0
        /\ strays' = strays + older + IF timer THEN 1 ELSE 0
        /\ cooling' = IF cooling = "kept" THEN "lost" ELSE cooling
    BY <1>2, <1>3, <1>4 DEF PutGate, MayLoseCooldown
  <2>2. Slots(NoGate, phase)
    BY <1>1, <1>3, <1>4 DEF Slots, IsIdle
  <2>3. GateOK(gate', phase', timer', cooling')
    BY <1>2, <1>3, <2>1, <2>2 DEF GateOK, Inv
  <2>4. CountsOK'
    BY <1>3, <2>1, TimersAssumption DEF CountsOK, Inv
  <2> QED
    BY <2>3, <2>4 DEF Inv
<1>5. CASE ~IsIdle(g)
  <2>1. gate' = g /\ UNCHANGED <<timer, older, strays, cooling>>
    BY <1>1, <1>2, <1>5 DEF PutGate, MayLoseCooldown
  <2>2. g.running = 0 => g.limited # "no"
    BY <1>1, <1>2 DEF Gate
  <2>3. GateOK(g, phase, timer, cooling)
    BY <1>1, <2>2 DEF GateOK, Inv
  <2>4. CountsOK'
    BY <1>1, <2>1 DEF CountsOK, Inv
  <2> QED
    BY <1>2, <2>1, <2>3, <2>4 DEF Inv
<1> QED
  BY <1>4, <1>5

(* A holder leaves: its slot is free, the queue as it was. *)
LEMMA SlotReturned ==
    ASSUME Inv, NEW r \in Requests, phase[r] = "holding"
    PROVE  LET g == [gate EXCEPT !.running = @ - 1]
               left == [phase EXCEPT ![r] = "idle"]
           IN  /\ gate.running > 0 /\ gate.exists
               /\ g \in Gate /\ g.exists /\ g.max = gate.max /\ g.queue = gate.queue
               /\ g.limited = gate.limited /\ g.running = gate.running - 1
               /\ left \in [Requests -> Phases]
               /\ HoldersOf(left) = HoldersOf(phase) \ {r}
               /\ Slots(g, left)
<1> DEFINE g == [gate EXCEPT !.running = @ - 1]
           left == [phase EXCEPT ![r] = "idle"]
<1>1. /\ gate \in Gate /\ phase \in [Requests -> Phases] /\ Slots(gate, phase)
      /\ ~gate.exists => gate = NoGate
  BY DEF Inv, GateOK
<1>2. /\ left \in [Requests -> Phases] /\ HoldersOf(left) = HoldersOf(phase) \ {r}
      /\ WaitingOf(left) = WaitingOf(phase) /\ r \in HoldersOf(phase)
  BY <1>1 DEF HoldersOf, WaitingOf, Phases
<1>3. Cardinality(HoldersOf(left)) = Cardinality(HoldersOf(phase)) - 1
  BY <1>1, <1>2, PhaseSets, FS_RemoveElement
<1>4. gate.running > 0
  <2>1. Cardinality(HoldersOf(phase)) # 0
    BY <1>1, <1>2, PhaseSets, FS_EmptySet
  <2> QED
    BY <1>1, <2>1, PhaseSets DEF Slots
<1>5. gate.exists
  BY <1>1, <1>4 DEF NoGate
<1>6. /\ g \in Gate /\ g.exists /\ g.max = gate.max /\ g.queue = gate.queue
      /\ g.limited = gate.limited /\ g.running = gate.running - 1
  <2>1. gate.running - 1 \in Nat
    BY <1>1, <1>4 DEF Gate
  <2> QED
    BY <1>1, <1>5, <2>1 DEF Gate
<1> HIDE DEF g, left
<1>7. Slots(g, left)
  BY <1>1, <1>2, <1>3, <1>6 DEF Slots
<1> QED
  BY <1>2, <1>4, <1>5, <1>6, <1>7 DEF g, left

(* The release function. *)
LEMMA ReleaseInv ==
    ASSUME Inv, NEW r \in Requests, Release(r)
    PROVE  Inv'
<1> DEFINE g == [gate EXCEPT !.running = @ - 1]
           left == [phase EXCEPT ![r] = "idle"]
           d == Drained(g)
<1>1. /\ gate.running > 0 /\ gate.exists
      /\ g \in Gate /\ g.exists /\ g.max = gate.max /\ g.queue = gate.queue
      /\ g.limited = gate.limited /\ left \in [Requests -> Phases] /\ Slots(g, left)
  BY SlotReturned DEF Release
<1>2. PutGate(d) /\ phase' = Served(g, left) /\ MayLoseCooldown
  BY <1>1 DEF Release
<1> HIDE DEF g, left
<1>3. GateOK(d, Served(g, left), timer /\ d.exists,
             IF cooling = "kept" /\ ~d.exists THEN "lost" ELSE cooling)
  BY <1>1, DrainOK DEF Inv, GateOK
<1> HIDE DEF d
<1>4. /\ gate' = d /\ timer' = (timer /\ d.exists)
      /\ cooling' = IF cooling = "kept" /\ ~d.exists THEN "lost" ELSE cooling
  BY <1>2 DEF PutGate, MayLoseCooldown, Inv, GateOK
<1>5. CountsOK'
  BY <1>2, TimersAssumption DEF PutGate, CountsOK, Inv
<1> QED
  BY <1>2, <1>3, <1>4, <1>5 DEF Inv

(* The queue timeout. *)
LEMMA TimeoutInv ==
    ASSUME Inv, NEW r \in Requests, Timeout(r)
    PROVE  Inv'
<1>1. PICK i \in DOMAIN gate.queue :
         /\ phase[r] = "waiting" /\ gate.queue[i] = r
         /\ gate' = [gate EXCEPT !.queue = RemoveAt(@, i)]
         /\ phase' = [phase EXCEPT ![r] = "idle"]
         /\ UNCHANGED <<timer, older, strays, cooling>>
  BY DEF Timeout
<1> DEFINE q == RemoveAt(gate.queue, i)
           h == [gate EXCEPT !.queue = q]
           ph == [phase EXCEPT ![r] = "idle"]
<1>2. /\ gate \in Gate /\ phase \in [Requests -> Phases] /\ Slots(gate, phase)
      /\ gate.queue \in Seq(Requests)
  BY DEF Inv, GateOK, Gate
<1>3. /\ q \in Seq(Requests) /\ Len(q) = Len(gate.queue) - 1 /\ IsInjective(q)
      /\ ToSet(q) = ToSet(gate.queue) \ {r}
  BY <1>1, <1>2, RemovedFrom DEF Slots
<1> HIDE DEF q
<1>4. /\ h \in Gate /\ h.exists = gate.exists /\ h.max = gate.max /\ h.queue = q
      /\ h.running = gate.running /\ h.limited = gate.limited
  BY <1>2, <1>3 DEF Gate
<1>5. /\ ph \in [Requests -> Phases] /\ HoldersOf(ph) = HoldersOf(phase)
      /\ WaitingOf(ph) = WaitingOf(phase) \ {r}
  BY <1>1, <1>2 DEF HoldersOf, WaitingOf, Phases
<1>6. gate.exists
  <2>1. gate.queue # <<>>
    BY <1>1, <1>2
  <2> QED
    BY <2>1 DEF Inv, GateOK, NoGate
<1>7. gate' = h /\ phase' = ph
  BY <1>1 DEF q
<1> HIDE DEF h, ph
<1>8. Slots(h, ph)
  BY <1>2, <1>3, <1>4, <1>5 DEF Slots
<1>9. \E size \in QueueSizes : Len(q) <= size
  <2>1. gate.queue # <<>>
    BY <1>1, <1>2
  <2>2. PICK size \in QueueSizes : Len(gate.queue) <= size
    BY <2>1 DEF Inv, GateOK
  <2>3. Len(q) <= size
    BY <1>2, <1>3, <2>2, QueueAssumption
  <2> QED
    BY <2>3
<1>10. GateOK(h, ph, timer, cooling)
  BY <1>4, <1>5, <1>6, <1>8, <1>9 DEF GateOK, Inv
<1>11. CountsOK'
  BY <1>1, <1>4, <1>7 DEF CountsOK, Inv
<1> QED
  BY <1>1, <1>7, <1>10, <1>11 DEF Inv

(* A rate limit, and its end by the clock. *)
LEMMA PauseInv ==
    ASSUME Inv, (\E r \in Requests : MarkRateLimited(r)) \/ CooldownPasses
    PROVE  Inv'
<1>1. ASSUME NEW r \in Requests, MarkRateLimited(r) PROVE Inv'
  <2> DEFINE g == GetGate(DefaultMax)
             h == [g EXCEPT !.limited = "yes"]
  <2>1. /\ g \in Gate /\ g.exists /\ g.max = DefaultMax /\ DefaultMax > 0
        /\ g.running = gate.running /\ g.queue = gate.queue /\ Slots(g, phase)
    BY GetGateKeeps, DefaultAssumption
  <2> HIDE DEF g
  <2>2. /\ h \in Gate /\ h.exists /\ h.max = DefaultMax /\ h.running = g.running
        /\ h.queue = g.queue /\ h.limited = "yes"
    BY <2>1 DEF Gate, Pauses
  <2>3. /\ gate' = h /\ timer' = TRUE /\ cooling' = "kept" /\ UNCHANGED <<phase, strays>>
        /\ older' = (IF timer THEN older + 1 ELSE older)
        /\ older + strays < MaxTimers \/ (~timer /\ older + strays <= MaxTimers)
    BY <1>1 DEF MarkRateLimited, g
  <2> HIDE DEF h
  <2>4. Slots(h, phase)
    BY <2>1, <2>2 DEF Slots
  <2>5. GateOK(h, phase, TRUE, "kept")
    BY <2>1, <2>2, <2>4 DEF GateOK, Inv
  <2>6. CountsOK'
    BY <2>2, <2>3, TimersAssumption DEF CountsOK, Inv
  <2> QED
    BY <2>3, <2>5, <2>6 DEF Inv
<1>2. CASE CooldownPasses
  <2> DEFINE h == [gate EXCEPT !.limited = IF @ = "yes" THEN "past" ELSE @]
  <2>1. gate \in Gate /\ Slots(gate, phase)
    BY DEF Inv, GateOK
  <2>2. /\ h \in Gate /\ h.exists = gate.exists /\ h.max = gate.max
        /\ h.running = gate.running /\ h.queue = gate.queue
        /\ h.limited = IF gate.limited = "yes" THEN "past" ELSE gate.limited
    BY <2>1 DEF Gate, Pauses
  <2>3. gate.limited # "yes" => h = gate
    BY <2>1 DEF Gate
  <2>4. gate' = h /\ cooling' = "over" /\ UNCHANGED <<phase, timer, older, strays>>
    BY <1>2 DEF CooldownPasses
  <2> HIDE DEF h
  <2>5. Slots(h, phase)
    BY <2>1, <2>2 DEF Slots
  <2>6. ~gate.exists => h = NoGate
    BY <2>3 DEF Inv, GateOK, NoGate
  <2>7. GateOK(h, phase, timer, "over")
    BY <2>1, <2>2, <2>5, <2>6 DEF GateOK, Inv
  <2>8. CountsOK'
    BY <2>2, <2>4 DEF CountsOK, Inv
  <2> QED
    BY <2>4, <2>7, <2>8 DEF Inv
<1> QED
  BY <1>1, <1>2

(* A gate whose pause is past becomes one without a pause. *)
LEMMA Unpaused ==
    ASSUME Inv, gate.limited = "past"
    PROVE  LET g == [gate EXCEPT !.limited = "no"]
           IN  /\ g \in Gate /\ Slots(g, phase) /\ g.exists /\ g.max > 0 /\ gate.exists
               /\ g.queue = gate.queue /\ g.running = gate.running /\ g.limited = "no"
               /\ g.max = gate.max /\ cooling # "kept"
<1> DEFINE g == [gate EXCEPT !.limited = "no"]
<1>1. gate \in Gate /\ Slots(gate, phase) /\ gate.exists /\ gate.max > 0 /\ cooling # "kept"
  BY DEF Inv, GateOK, NoGate
<1>2. /\ g \in Gate /\ g.exists /\ g.max = gate.max
      /\ g.queue = gate.queue /\ g.running = gate.running /\ g.limited = "no"
  BY <1>1 DEF Gate, Pauses
<1> HIDE DEF g
<1>3. Slots(g, phase)
  BY <1>1, <1>2 DEF Slots
<1> QED
  BY <1>1, <1>2, <1>3 DEF g

(* The timers: of the last rate limit, of earlier ones, of gates deleted before. *)
LEMMA TimersInv ==
    ASSUME Inv, TimerFires \/ OlderTimerFires \/ StrayFires
    PROVE  Inv'
<1> DEFINE g == [gate EXCEPT !.limited = "no"]
<1>1. /\ gate \in Gate /\ phase \in [Requests -> Phases] /\ Slots(gate, phase)
      /\ ~gate.exists => ~timer /\ gate.limited = "no"
      /\ cooling = "kept" => gate.exists
      /\ timer \in BOOLEAN /\ cooling \in {"over", "kept", "lost"}
      /\ gate.limited \in Pauses
  BY DEF Inv, GateOK, NoGate, Gate
(* The pause is past: the gate is drained, and t tells whether its own timer stays. *)
<1>2. ASSUME gate.limited = "past", NEW t \in BOOLEAN
      PROVE  GateOK(Drained(g), Served(g, phase), t /\ Drained(g).exists,
                    IF cooling = "kept" /\ ~Drained(g).exists THEN "lost" ELSE cooling)
  <2>1. /\ g \in Gate /\ Slots(g, phase) /\ g.exists /\ g.max > 0
        /\ g.queue = gate.queue /\ g.limited = "no" /\ cooling # "kept"
    BY <1>2, Unpaused
  <2> HIDE DEF g
  <2>2. g.queue # <<>> => \E size \in QueueSizes : Len(g.queue) <= size
    BY <2>1 DEF Inv, GateOK
  <2> QED
    BY <1>1, <2>1, <2>2, DrainOK
<1> HIDE DEF g
<1>3. CASE TimerFires
  <2>1. /\ timer /\ gate.limited # "yes" /\ timer' = FALSE
        /\ older' = (IF gate'.exists THEN older ELSE 0)
        /\ strays' = (IF gate'.exists THEN strays ELSE strays + older)
        /\ cooling' = (IF cooling = "kept" /\ ~gate'.exists THEN "lost" ELSE cooling)
    BY <1>3 DEF TimerFires, MayLoseCooldown
  <2>2. CountsOK'
    BY <2>1, TimersAssumption DEF CountsOK, Inv
  <2>3. CASE gate.limited = "past"
    <3>1. gate' = Drained(g) /\ phase' = Served(g, phase)
      BY <1>3, <2>3 DEF TimerFires, TimerBody, g
    <3>2. GateOK(gate', phase', FALSE /\ gate'.exists, cooling')
      BY <1>2, <2>1, <2>3, <3>1
    <3>3. timer' = (FALSE /\ gate'.exists)
      BY <2>1
    <3> QED
      BY <2>2, <3>2, <3>3 DEF Inv
  <2>4. CASE gate.limited # "past"
    <3>1. gate' = gate /\ phase' = phase /\ gate.limited = "no" /\ cooling' = cooling
      BY <1>1, <1>3, <2>1, <2>4 DEF TimerFires, TimerBody, Pauses
    <3>2. GateOK(gate, phase, FALSE, cooling)
      BY <3>1 DEF GateOK, Inv
    <3> QED
      BY <2>1, <2>2, <3>1, <3>2 DEF Inv
  <2> QED
    BY <2>3, <2>4
<1>4. CASE OlderTimerFires
  <2>1. /\ older > 0 /\ timer' = (timer /\ gate'.exists)
        /\ older' = (IF gate'.exists THEN older - 1 ELSE 0)
        /\ strays' = (IF gate'.exists THEN strays ELSE strays + older - 1 + IF timer THEN 1 ELSE 0)
        /\ cooling' = (IF cooling = "kept" /\ ~gate'.exists THEN "lost" ELSE cooling)
    BY <1>4 DEF OlderTimerFires, MayLoseCooldown
  <2>2. CountsOK'
    BY <1>1, <2>1, TimersAssumption DEF CountsOK, Inv
  <2>3. CASE gate.limited = "past"
    <3>1. gate' = Drained(g) /\ phase' = Served(g, phase)
      BY <1>4, <2>3 DEF OlderTimerFires, TimerBody, g
    <3>2. GateOK(gate', phase', timer', cooling')
      BY <1>1, <1>2, <2>1, <2>3, <3>1
    <3> QED
      BY <2>2, <3>2 DEF Inv
  <2>4. CASE gate.limited # "past"
    <3>1. gate' = gate /\ phase' = phase
      BY <1>4, <2>4 DEF OlderTimerFires, TimerBody
    <3>2. timer' = timer /\ cooling' = cooling
      BY <1>1, <2>1, <3>1
    <3> QED
      BY <2>2, <3>1, <3>2 DEF Inv
  <2> QED
    BY <2>3, <2>4
<1>5. CASE StrayFires
  <2>1. /\ strays > 0 /\ timer' = (timer /\ gate'.exists)
        /\ older' = (IF gate'.exists THEN older ELSE 0)
        /\ strays' = strays - 1 + (IF gate'.exists THEN 0 ELSE older + IF timer THEN 1 ELSE 0)
        /\ cooling' = (IF cooling = "kept" /\ ~gate'.exists THEN "lost" ELSE cooling)
    BY <1>5 DEF StrayFires, MayLoseCooldown
  <2>2. CountsOK'
    BY <1>1, <2>1, TimersAssumption DEF CountsOK, Inv
  <2>3. CASE UNCHANGED <<gate, phase>>
    <3>1. timer' = timer /\ cooling' = cooling
      BY <1>1, <2>1, <2>3
    <3> QED
      BY <2>2, <2>3, <3>1 DEF Inv
  <2>4. CASE gate.exists /\ gate' = Drained(gate) /\ phase' = Served(gate, phase)
    <3>1. GateOK(Drained(gate), Served(gate, phase), timer /\ Drained(gate).exists,
                 IF cooling = "kept" /\ ~Drained(gate).exists THEN "lost" ELSE cooling)
      BY <1>1, <2>4, DrainOK DEF Inv, GateOK
    <3>2. GateOK(gate', phase', timer', cooling')
      BY <2>1, <2>4, <3>1
    <3> QED
      BY <2>2, <3>2 DEF Inv
  <2> QED
    BY <1>5, <2>3, <2>4 DEF StrayFires
<1> QED
  BY <1>3, <1>4, <1>5

-----------------------------------------------------------------------------
(* No gate, nobody in it, no timer. *)
LEMMA InvInit == Init => Inv
<1> SUFFICES ASSUME Init PROVE Inv
  OBVIOUS
<1>1. /\ NoGate \in Gate /\ ~NoGate.exists /\ NoGate.running = 0 /\ NoGate.queue = <<>>
      /\ NoGate.limited = "no" /\ gate = NoGate
  BY DEF NoGate, Gate, Pauses, Init
<1>2. phase \in [Requests -> Phases] /\ HoldersOf(phase) = {} /\ WaitingOf(phase) = {}
  BY DEF Init, Phases, HoldersOf, WaitingOf
<1>3. Slots(NoGate, phase)
  BY <1>1, <1>2, FS_EmptySet DEF Slots, ToSet, IsInjective
<1>4. GateOK(NoGate, phase, FALSE, "over")
  BY <1>1, <1>2, <1>3 DEF GateOK
<1>5. CountsOK
  BY TimersAssumption DEF CountsOK, Init
<1> QED
  BY <1>1, <1>4, <1>5 DEF Inv, Init

(* Every step keeps the invariant. *)
LEMMA InvStep == Inv /\ [Next]_vars => Inv'
<1> SUFFICES ASSUME Inv, [Next]_vars PROVE Inv'
  OBVIOUS
<1>1. CASE UNCHANGED vars
  BY <1>1 DEF vars, Inv, CountsOK
<1>2. CASE Next
  BY <1>2, AcquireNowInv, AcquireQueuedInv, AcquireRefusedInv, ReleaseInv, TimeoutInv, PauseInv,
     TimersInv DEF Next
<1> QED
  BY <1>1, <1>2

(* The invariant, from which the theorems follow. *)
LEMMA Invariant == Spec => []Inv
BY InvInit, InvStep, PTL DEF Spec

(* Gate, phases and timers keep their types; an absent gate has no state, the queue
   is bounded by what some caller asked for, and a gate that says it is paused is so
   by the clock. *)
THEOREM TypeCorrect == Spec => []TypeOK
<1>1. Inv => TypeOK
  BY DEF Inv, GateOK, CountsOK, TypeOK, Gate
<1> QED
  BY <1>1, Invariant, PTL

(* However gates are deleted and made again under release functions and timers, the
   counter is the number of slots in use and the queue holds those who wait. *)
THEOREM SlotAccountingHolds == Spec => []SlotAccounting
<1>1. Inv => SlotAccounting
  <2> SUFFICES ASSUME Inv PROVE SlotAccounting
    OBVIOUS
  <2>1. /\ gate.queue \in Seq(Requests) /\ IsInjective(gate.queue)
        /\ gate.running = Cardinality(Holders) /\ ToSet(gate.queue) = Waiting
    BY DEF Inv, GateOK, Slots, Gate, HoldersOf, WaitingOf, Holders, Waiting
  <2>2. Cardinality(ToSet(gate.queue)) = Len(gate.queue)
    <3>1. Len(gate.queue) \in 0 .. Len(gate.queue)
      BY <2>1
    <3>2. ToSet(gate.queue) = {gate.queue[i] : i \in 1 .. Len(gate.queue)}
      BY <2>1 DEF ToSet
    <3> QED
      BY <2>1, <3>1, <3>2, PrefixSize
  <2> QED
    BY <2>1, <2>2 DEF SlotAccounting
<1> QED
  BY <1>1, Invariant, PTL

(* Those who wait have a holder that will drain the queue, or a pause whose own timer
   is still to come. *)
THEOREM NoLostWakeupHolds == Spec => []NoLostWakeup
<1>1. Inv => NoLostWakeup
  BY DEF Inv, GateOK, NoGate, NoLostWakeup
<1> QED
  BY <1>1, Invariant, PTL

(* A gate nobody uses waits for the timer that will delete it. *)
THEOREM NoGateLeakHolds == Spec => []NoGateLeak
<1>1. Inv => NoGateLeak
  BY DEF Inv, GateOK, IsIdle, NoGateLeak
<1> QED
  BY <1>1, Invariant, PTL

-----------------------------------------------------------------------------
(* A drain during a pause serves nobody. *)
LEMMA PausedServesNobody ==
    ASSUME NEW g \in Gate, g.limited = "yes", NEW ph, NEW r \in Requests
    PROVE  Served(g, ph)[r] = ph[r]
BY DEF Served, Grants

(* As long as the gate of a rate limit lives, nobody gets a slot before its cooldown
   is over: not by acquire(), not by the drains of releases and of timers of shorter
   pauses or of deleted gates. *)
THEOREM PauseHoldsAlways == Spec => PauseHolds
<1> DEFINE Quiet == \A r \in Requests :
                       phase[r] # "holding" /\ phase'[r] = "holding" => cooling # "kept"
<1>1. Inv /\ [Next]_vars => [Quiet]_vars
  <2> SUFFICES ASSUME Inv, Next, cooling = "kept", NEW s \in Requests, phase[s] # "holding"
               PROVE  phase'[s] # "holding"
    OBVIOUS
  <2>1. gate.limited = "yes" /\ gate \in Gate /\ phase \in [Requests -> Phases]
    BY DEF Inv, GateOK
  <2>2. ASSUME NEW r \in Requests, NEW max \in Limits, AcquireNow(r, max) PROVE FALSE
    BY <2>1, <2>2, GetGateKeeps, LimitsAssumption DEF AcquireNow, SlotFree
  <2>3. ASSUME NEW r \in Requests, NEW max \in Limits, NEW size \in QueueSizes,
               AcquireQueued(r, max, size) \/ AcquireRefused(r, max, size)
        PROVE  phase'[s] # "holding"
    BY <2>1, <2>3 DEF AcquireQueued, AcquireRefused
  <2>4. ASSUME NEW r \in Requests, Release(r) PROVE phase'[s] # "holding"
    <3> DEFINE g == [gate EXCEPT !.running = @ - 1]
               left == [phase EXCEPT ![r] = "idle"]
    <3>1. g \in Gate /\ g.limited = "yes" /\ gate.running > 0
      BY <2>1, <2>4, SlotReturned DEF Release
    <3>2. phase' = Served(g, left)
      BY <2>4, <3>1 DEF Release
    <3>3. phase'[s] = left[s]
      BY <3>1, <3>2, PausedServesNobody
    <3> QED
      BY <2>1, <3>3
  <2>5. ASSUME NEW r \in Requests, Timeout(r) \/ MarkRateLimited(r) PROVE phase'[s] # "holding"
    BY <2>1, <2>5 DEF Timeout, MarkRateLimited
  <2>6. CASE CooldownPasses
    BY <2>6 DEF CooldownPasses
  <2>7. CASE TimerFires \/ OlderTimerFires
    BY <2>1, <2>7 DEF TimerFires, OlderTimerFires, TimerBody
  <2>8. CASE StrayFires
    BY <2>1, <2>8, PausedServesNobody DEF StrayFires
  <2> QED
    BY <2>2, <2>3, <2>4, <2>5, <2>6, <2>7, <2>8 DEF Next
<1>2. Spec => [][Quiet]_vars
  BY <1>1, Invariant, PTL DEF Spec
<1> QED
  BY <1>2 DEF PauseHolds

-----------------------------------------------------------------------------
(* The instance of SlotPool counts as the rest of the module does. *)
LEMMA PoolCardinality == \A S : Pool!Cardinality(S) = Cardinality(S)
BY DEF Pool!Cardinality, Cardinality

(* The refinement.  A drain of gate g with phases ph, reached from the state of the
   step by slots given back by the requests gone, is a Serve of the pool. *)
LEMMA DrainServes ==
    ASSUME NEW g \in Gate, NEW ph \in [Requests -> Phases], Slots(g, ph), g.exists, g.max > 0,
           g.queue = gate.queue, NEW gone, HoldersOf(ph) = Holders \ gone,
           gate' = Drained(g), phase' = Served(g, ph)
    PROVE  Grants(g) \in 0 .. Len(gate.queue) /\ Pool!Serve(gone, Grants(g))
<1> DEFINE k == Grants(g)
<1>1. k \in 0 .. Len(gate.queue)
  BY GrantsStop
<1>2. /\ HoldersOf(phase') = HoldersOf(ph) \cup {g.queue[i] : i \in 1 .. k}
      /\ Cardinality(HoldersOf(phase')) = g.running + k
  BY ServedSets
<1>3. /\ gate'.queue = SubSeq(gate.queue, k + 1, Len(gate.queue))
      /\ gate'.max \in Nat
      /\ k > 0 => g.running + k <= gate'.max
  BY DrainedKeeps DEF Gate
<1>4. Holders' = HoldersOf(phase')
  BY DEF Holders, HoldersOf
<1> HIDE DEF k
<1>5. Pool!Serve(gone, k)
  BY <1>2, <1>3, <1>4, PoolCardinality DEF Pool!Serve
<1> QED
  BY <1>1, <1>5 DEF k

(* Holders and queue as they are, whatever the maximum becomes, is a Serve of nobody. *)
LEMMA IdleServes ==
    ASSUME Inv, Holders' = Holders, gate'.queue = gate.queue, gate'.max \in Nat
    PROVE  Pool!Next
<1>1. gate.queue \in Seq(Requests) /\ 0 \in 0 .. Len(gate.queue)
  BY DEF Inv, GateOK, Gate
<1>2. gate.queue = SubSeq(gate.queue, 0 + 1, Len(gate.queue))
  BY <1>1
<1>3. {gate.queue[i] : i \in 1 .. 0} = {}
  OBVIOUS
<1>4. Pool!Serve({}, 0)
  BY <1>2, <1>3 DEF Pool!Serve
<1> QED
  BY <1>1, <1>4 DEF Pool!Next

(* Every step of the gate, its callers and its timers is a step of the pool. *)
LEMMA PoolStep == Inv /\ [Next]_vars => [Pool!Next]_(Pool!vars)
<1> SUFFICES ASSUME Inv, [Next]_vars PROVE Pool!Next \/ UNCHANGED Pool!vars
  OBVIOUS
<1>1. /\ gate \in Gate /\ phase \in [Requests -> Phases] /\ Slots(gate, phase)
      /\ gate.queue \in Seq(Requests) /\ gate.max \in Nat
      /\ Holders = HoldersOf(phase) /\ Waiting = WaitingOf(phase)
  BY DEF Inv, GateOK, Gate, Holders, HoldersOf, Waiting, WaitingOf
<1>2. Inv'
  BY InvStep
<1>3. gate'.max \in Nat
  BY <1>2 DEF Inv, GateOK, Gate
<1>4. /\ Pool!Queued = WaitingOf(phase)
      /\ \A r \in Requests : phase[r] = "idle" => r \notin Holders \cup Pool!Queued
  <2>1. Pool!Queued = ToSet(gate.queue)
    BY DEF Pool!Queued, ToSet
  <2> QED
    BY <1>1, <2>1 DEF Slots, HoldersOf, WaitingOf
<1>5. ASSUME NEW r \in Requests, NEW max \in Limits, AcquireNow(r, max) PROVE Pool!Next
  <2> DEFINE g == GetGate(max)
  <2>1. /\ g \in Gate /\ g.max = max /\ g.running = gate.running /\ g.queue = gate.queue
        /\ max \in Nat
    BY GetGateKeeps, LimitsAssumption
  <2>2. phase[r] = "idle" /\ g.running < g.max /\ phase' = [phase EXCEPT ![r] = "holding"]
    BY <1>5 DEF AcquireNow, SlotFree
  <2>3. gate'.queue = gate.queue /\ gate'.max = max
    BY <1>5, <2>1 DEF AcquireNow, Gate
  <2>4. Holders' = Holders \cup {r}
    BY <1>1, <2>2 DEF Holders
  <2>5. Cardinality(Holders) < gate'.max
    BY <1>1, <2>1, <2>2, <2>3 DEF Slots
  <2>6. Pool!Enter(r)
    BY <1>3, <1>4, <2>2, <2>3, <2>4, <2>5, PoolCardinality DEF Pool!Enter
  <2> QED
    BY <2>6 DEF Pool!Next
<1>6. ASSUME NEW r \in Requests, NEW max \in Limits, NEW size \in QueueSizes,
             AcquireQueued(r, max, size)
      PROVE  Pool!Next
  <2> DEFINE g == GetGate(max)
  <2>1. g \in Gate /\ g.queue = gate.queue
    BY GetGateKeeps, LimitsAssumption
  <2>2. phase[r] = "idle" /\ phase' = [phase EXCEPT ![r] = "waiting"]
    BY <1>6 DEF AcquireQueued
  <2>3. gate'.queue = Append(gate.queue, r)
    BY <1>6, <2>1 DEF AcquireQueued, Gate
  <2>4. Holders' = Holders
    BY <1>1, <2>2 DEF Holders
  <2>5. Pool!Join(r)
    BY <1>3, <1>4, <2>2, <2>3, <2>4 DEF Pool!Join
  <2> QED
    BY <2>5 DEF Pool!Next
<1>7. ASSUME NEW r \in Requests, NEW max \in Limits, NEW size \in QueueSizes,
             AcquireRefused(r, max, size)
      PROVE  Pool!Next
  <2> DEFINE g == GetGate(max)
  <2>1. g.queue = gate.queue
    BY GetGateKeeps, LimitsAssumption
  <2>2. phase' = phase /\ gate' = IF IsIdle(g) THEN NoGate ELSE g
    BY <1>7 DEF AcquireRefused, PutGate
  <2>3. gate'.queue = gate.queue
    BY <2>1, <2>2 DEF IsIdle, NoGate
  <2>4. Holders' = Holders
    BY <2>2 DEF Holders
  <2> QED
    BY <1>3, <2>3, <2>4, IdleServes
<1>8. ASSUME NEW r \in Requests, Release(r) PROVE Pool!Next
  <2> DEFINE g == [gate EXCEPT !.running = @ - 1]
             left == [phase EXCEPT ![r] = "idle"]
  <2>1. /\ gate.running > 0 /\ gate.max > 0
        /\ g \in Gate /\ g.exists /\ g.max = gate.max /\ g.queue = gate.queue
        /\ left \in [Requests -> Phases] /\ HoldersOf(left) = HoldersOf(phase) \ {r}
        /\ Slots(g, left)
    BY <1>8, SlotReturned DEF Release, Inv, GateOK
  <2>2. gate' = Drained(g) /\ phase' = Served(g, left) /\ r \in Holders
    BY <1>8, <2>1 DEF Release, PutGate, Holders
  <2> HIDE DEF g, left
  <2>3. Grants(g) \in 0 .. Len(gate.queue) /\ Pool!Serve({r}, Grants(g))
    BY <1>1, <2>1, <2>2, DrainServes
  <2> QED
    BY <2>2, <2>3 DEF Pool!Next
<1>9. ASSUME NEW r \in Requests, Timeout(r) PROVE Pool!Next
  <2>1. PICK i \in DOMAIN gate.queue :
           /\ phase[r] = "waiting"
           /\ gate' = [gate EXCEPT !.queue = RemoveAt(@, i)]
           /\ phase' = [phase EXCEPT ![r] = "idle"]
    BY <1>9 DEF Timeout
  <2>2. gate'.queue = RemoveAt(gate.queue, i) /\ gate'.max = gate.max
    BY <1>1, <2>1 DEF Gate
  <2>3. Holders' = Holders
    BY <1>1, <2>1 DEF Holders
  <2>4. Pool!GiveUp(i)
    BY <2>2, <2>3 DEF Pool!GiveUp, RemoveAt
  <2> QED
    BY <2>4 DEF Pool!Next
<1>10. ASSUME NEW r \in Requests, MarkRateLimited(r) PROVE Pool!Next
  <2>1. gate'.queue = gate.queue /\ phase' = phase
    BY <1>10, GetGateKeeps, DefaultAssumption DEF MarkRateLimited, Gate
  <2>2. Holders' = Holders
    BY <2>1 DEF Holders
  <2> QED
    BY <1>3, <2>1, <2>2, IdleServes
<1>11. CASE CooldownPasses
  <2>1. gate'.queue = gate.queue /\ phase' = phase
    BY <1>1, <1>11 DEF CooldownPasses, Gate
  <2>2. Holders' = Holders
    BY <2>1 DEF Holders
  <2> QED
    BY <1>3, <2>1, <2>2, IdleServes
<1>12. CASE TimerBody
  <2> DEFINE g == [gate EXCEPT !.limited = "no"]
  <2>1. CASE gate.limited = "past"
    <3>1. gate' = Drained(g) /\ phase' = Served(g, phase)
      BY <1>12, <2>1 DEF TimerBody
    <3>2. g \in Gate /\ Slots(g, phase) /\ g.exists /\ g.max > 0 /\ g.queue = gate.queue
      BY <2>1, Unpaused
    <3> HIDE DEF g
    <3>3. Grants(g) \in 0 .. Len(gate.queue) /\ Pool!Serve({}, Grants(g))
      BY <1>1, <3>1, <3>2, DrainServes
    <3> QED
      BY <3>3 DEF Pool!Next
  <2>2. CASE gate.limited # "past"
    <3>1. gate' = gate /\ phase' = phase
      BY <1>12, <2>2 DEF TimerBody
    <3> QED
      BY <1>3, <3>1, IdleServes DEF Holders
  <2> QED
    BY <2>1, <2>2
<1>13. CASE StrayFires
  <2>1. CASE UNCHANGED <<gate, phase>>
    BY <1>3, <2>1, IdleServes DEF Holders
  <2>2. CASE gate.exists /\ gate' = Drained(gate) /\ phase' = Served(gate, phase)
    <3>1. gate.max > 0
      BY <2>2 DEF Inv, GateOK
    <3>2. Grants(gate) \in 0 .. Len(gate.queue) /\ Pool!Serve({}, Grants(gate))
      BY <1>1, <2>2, <3>1, DrainServes
    <3> QED
      BY <3>2 DEF Pool!Next
  <2> QED
    BY <1>13, <2>1, <2>2 DEF StrayFires
<1>14. CASE UNCHANGED vars
  <2>1. gate' = gate /\ phase' = phase
    BY <1>14 DEF vars
  <2> QED
    BY <1>3, <2>1, IdleServes DEF Holders
<1> QED
  BY <1>5, <1>6, <1>7, <1>8, <1>9, <1>10, <1>11, <1>12, <1>13, <1>14
     DEF Next, TimerFires, OlderTimerFires

(* The gate with its map entry, pauses and timers implements a pool of slots: nobody
   gets a slot above the maximum in force, and the queue is first in, first out. *)
THEOREM ImplementsPoolHolds == Spec => ImplementsPool
<1>1. Init => Pool!Init
  <2> SUFFICES ASSUME Init PROVE Pool!Init
    OBVIOUS
  <2> QED
    BY DEF Init, Pool!Init, Holders, NoGate
<1>2. Spec => Pool!Spec
  BY <1>1, Invariant, PoolStep, PTL DEF Spec, Pool!Spec
<1> QED
  BY <1>2 DEF ImplementsPool
=============================================================================
