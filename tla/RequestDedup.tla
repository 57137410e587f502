---------------------------- MODULE RequestDedup ----------------------------
(***************************************************************************)
(* open-sse/services/requestDedup.ts: requests with the same hash that are *)
(* in flight at the same time share one upstream call.  deduplicate() runs *)
(* to its first await in one step; calls, upstream answers and the timers  *)
(* that drop an entry interleave, and an entry may be evicted while others *)
(* still await its promise.                                                *)
(***************************************************************************)
EXTENDS Integers, Sequences, FiniteSets

CONSTANTS
    Calls,          \* calls of deduplicate() with config.enabled
    Hash,           \* Hash[r]: computeRequestHash() of the call's body
    MaxInflight     \* MAX_INFLIGHT

ASSUME CallsAssumption == IsFiniteSet(Calls)
ASSUME HashAssumption == DOMAIN Hash = Calls
ASSUME MaxInflightAssumption == MaxInflight \in Nat \ {0}

VARIABLES
    inflight,       \* the map in insertion order: the calls whose promises it holds
    pc,             \* pc[r]: where the call stands
    joined,         \* joined[r]: the calls that await r's promise
    timer,          \* the calls whose timer has not fired
    dropped         \* ghost: calls whose entry was evicted or timed out in flight

dedupVars == <<inflight, pc, joined, timer, dropped>>

Pcs == {"new", "calling", "sharing", "answered", "failed"}

Entries == {inflight[i] : i \in DOMAIN inflight}

(* Types, the bound of the map, and one entry per hash. *)
DedupTypeOK ==
    /\ inflight \in Seq(Calls)
    /\ Len(inflight) <= MaxInflight
    /\ \A i, j \in DOMAIN inflight : Hash[inflight[i]] = Hash[inflight[j]] => i = j
    /\ pc \in [Calls -> Pcs]
    /\ joined \in [Calls -> SUBSET Calls]
    /\ timer \in SUBSET Calls
    /\ dropped \in SUBSET Calls

DedupInit ==
    /\ inflight = <<>>
    /\ pc = [r \in Calls |-> "new"]
    /\ joined = [r \in Calls |-> {}]
    /\ timer = {}
    /\ dropped = {}

-----------------------------------------------------------------------------
(* An identical call is in the map: await its promise. *)
Join(r, owner) ==
    /\ pc[r] = "new"
    /\ owner \in Entries /\ Hash[owner] = Hash[r]
    /\ pc' = [pc EXCEPT ![r] = "sharing"]
    /\ joined' = [joined EXCEPT ![owner] = @ \cup {r}]
    /\ UNCHANGED <<inflight, timer, dropped>>

(* Mutant of Kept: the size is compared with > instead of >=. *)
KeptOneMore ==
    IF Len(inflight) > MaxInflight THEN Tail(inflight) ELSE inflight

(* A full map loses its oldest entry. *)
Kept ==
    IF Len(inflight) >= MaxInflight THEN Tail(inflight) ELSE inflight

(* No identical call: enter the map, arm the timer and call upstream. *)
Own(r) ==
    /\ pc[r] = "new"
    /\ \A owner \in Entries : Hash[owner] # Hash[r]
    /\ inflight' = Append(Kept, r)
    /\ pc' = [pc EXCEPT ![r] = "calling"]
    /\ timer' = timer \cup {r}
    /\ dropped' = dropped \cup (Entries \ {Kept[i] : i \in DOMAIN Kept})
    /\ UNCHANGED joined

(* Mutant of Without: the entry of the hash goes, whoever put it there. *)
WithoutHash(r) == SelectSeq(inflight, LAMBDA owner : Hash[owner] # Hash[r])

(* "if (inflight.get(hash) === sharedPromise) inflight.delete(hash)" *)
Without(r) ==
    IF r \notin Entries
      THEN inflight
      ELSE LET i == CHOOSE i \in DOMAIN inflight : inflight[i] = r
           IN  [j \in 1 .. Len(inflight) - 1 |-> inflight[IF j < i THEN j ELSE j + 1]]

(* After timeoutMs the entry goes; the call and those who share it go on. *)
Timeout(r) ==
    /\ r \in timer
    /\ inflight' = Without(r)
    /\ timer' = timer \ {r}
    /\ dropped' = dropped \cup {r}
    /\ UNCHANGED <<pc, joined>>

(* Mutant of Settle: a failed call leaves its entry to the timer, which has been
   cleared. *)
SettleKept(r, outcome) ==
    /\ pc[r] = "calling"
    /\ pc' = [q \in Calls |-> IF q \in joined[r] \cup {r} THEN outcome ELSE pc[q]]
    /\ inflight' = IF outcome = "failed" THEN inflight ELSE Without(r)
    /\ timer' = timer \ {r}
    /\ joined' = [joined EXCEPT ![r] = {}]
    /\ UNCHANGED dropped

(* Mutant of Settle: those who joined are not told of a failure. *)
SettleUnheard(r, outcome) ==
    /\ pc[r] = "calling"
    /\ pc' = [q \in Calls |->
                IF q = r \/ (q \in joined[r] /\ outcome = "answered") THEN outcome ELSE pc[q]]
    /\ inflight' = Without(r)
    /\ timer' = timer \ {r}
    /\ joined' = [joined EXCEPT ![r] = {}]
    /\ UNCHANGED dropped

(* The upstream call ends: the promise settles for everybody who awaits it, in or
   out of the map, and the finally block clears the timer and the entry. *)
Settle(r, outcome) ==
    /\ pc[r] = "calling"
    /\ pc' = [q \in Calls |-> IF q \in joined[r] \cup {r} THEN outcome ELSE pc[q]]
    /\ inflight' = Without(r)
    /\ timer' = timer \ {r}
    /\ joined' = [joined EXCEPT ![r] = {}]
    /\ UNCHANGED dropped

DedupNext ==
    \E r \in Calls :
        \/ \E owner \in Calls : Join(r, owner)
        \/ Own(r) \/ Timeout(r)
        \/ \E outcome \in {"answered", "failed"} : Settle(r, outcome)

DedupSpec == DedupInit /\ [][DedupNext]_dedupVars

(* Upstream calls end: the executors have timeouts of their own. *)
DedupFairSpec ==
    /\ DedupSpec
    /\ \A r \in Calls : WF_dedupVars(\E outcome \in {"answered", "failed"} : Settle(r, outcome))

-----------------------------------------------------------------------------
Calling == {r \in Calls : pc[r] = "calling"}

(* "Concurrent identical requests share one upstream call": of two identical calls
   in flight one has lost its entry to the timer or to the bound of the map.  A call
   that ends after losing its entry must not take away that of its successor. *)
OneUpstreamCall ==
    \A r, q \in Calling : r # q /\ Hash[r] = Hash[q] => r \in dropped \/ q \in dropped

(* "Deduplicates concurrent identical requests": the map never answers with a call
   that is over, failed ones included. *)
EntriesInFlight == Entries \subseteq Calling

(* Nobody awaits a promise that no call under way will settle: the safety half of
   SharersAnswered, which holds for every instance by a theorem of AdmissionProofs. *)
SharersHaveOwner ==
    \A r \in Calls : pc[r] = "sharing" => \E owner \in Calling : r \in joined[owner]

(* A call that joined another one is answered when that ends, although the entry it
   found may have been evicted, timed out or replaced by then. *)
SharersAnswered == \A r \in Calls : pc[r] = "sharing" ~> pc[r] \in {"answered", "failed"}
=============================================================================
