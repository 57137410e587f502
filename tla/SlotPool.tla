------------------------------ MODULE SlotPool ------------------------------
(***************************************************************************)
(* What a concurrency gate with a FIFO queue promises its callers, with    *)
(* nothing said about maps, timers or rate limits: a slot is given only    *)
(* while fewer requests than the limit hold one, and those who wait are    *)
(* served in the order they came.  A newcomer may find a free slot before  *)
(* the queue is looked at, as acquire() lets it.                           *)
(***************************************************************************)
EXTENDS Naturals, Sequences, FiniteSets

CONSTANT Requests

VARIABLES
    holders,        \* requests that hold a slot
    queue,          \* requests that wait, oldest first
    limit           \* how many slots there are; callers bring it along

vars == <<holders, queue, limit>>

Queued == {queue[i] : i \in DOMAIN queue}

Init ==
    /\ holders = {}
    /\ queue = <<>>
    /\ limit = 0

(* The first k waiters get slots, after those of gone have been given back. *)
Serve(gone, k) ==
    /\ holders' = (holders \ gone) \cup {queue[i] : i \in 1 .. k}
    /\ queue' = SubSeq(queue, k + 1, Len(queue))
    /\ limit' \in Nat
    /\ k > 0 => Cardinality(holders') <= limit'

Enter(r) ==
    /\ r \notin holders \cup Queued
    /\ limit' \in Nat
    /\ Cardinality(holders) < limit'
    /\ holders' = holders \cup {r}
    /\ UNCHANGED queue

Join(r) ==
    /\ r \notin holders \cup Queued
    /\ limit' \in Nat
    /\ queue' = Append(queue, r)
    /\ UNCHANGED holders

(* The i-th waiter gives up. *)
GiveUp(i) ==
    /\ queue' = SubSeq(queue, 1, i - 1) \o SubSeq(queue, i + 1, Len(queue))
    /\ UNCHANGED <<holders, limit>>

Next ==
    \/ \E r \in Requests : Enter(r) \/ Join(r)
    \/ \E i \in DOMAIN queue : GiveUp(i)
    \/ \E k \in 0 .. Len(queue) :
          Serve({}, k) \/ \E r \in holders : Serve({r}, k)

Spec == Init /\ [][Next]_vars
=============================================================================
