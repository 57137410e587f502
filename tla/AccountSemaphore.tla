-------------------------- MODULE AccountSemaphore --------------------------
(***************************************************************************)
(* open-sse/services/accountSemaphore.ts for one semaphore key: the        *)
(* concurrency cap of a provider connection, its FIFO queue, the temporary *)
(* block after an upstream rate limit, and the gate that exists only while *)
(* somebody needs it.  Every function runs to completion; what interleaves *)
(* are calls, the queue timeouts, the cleanup timer and the block timers.  *)
(***************************************************************************)
EXTENDS Integers, SequencesExt

CONSTANTS
    Requests,       \* callers of acquire()
    Caps,           \* values of maxConcurrency callers pass
    MaxQueueSize,   \* maxQueueSize
    MaxOldTimers    \* bound of this model on superseded block timers

ASSUME RequestsAssumption == IsFiniteSet(Requests)
ASSUME CapsAssumption == Caps \subseteq Nat \ {0}
ASSUME QueueAssumption == MaxQueueSize \in Nat \ {0}
ASSUME TimerAssumption == MaxOldTimers \in Nat

VARIABLES
    gate,           \* the AccountGate of the key in the gates map
    phase,          \* phase[r]: where the caller r stands
    blockTimer,     \* the timer of the last markBlocked() has not fired
    oldTimers,      \* timers of earlier markBlocked() calls that have not
    disturbed       \* ghost: a reset took place while slots were held, and there
                    \* has been a holder ever since

vars == <<gate, phase, blockTimer, oldTimers, disturbed>>

(* blockedUntil is null ("no"), ahead ("yes") or past but not yet noticed by
   isBlocked() ("past"). *)
Blocks == {"no", "yes", "past"}

Phases == {"idle", "waiting", "holding"}

NoGate ==
    [exists |-> FALSE, running |-> 0, cap |-> 0, queue |-> <<>>, blocked |-> "no",
     cleanup |-> FALSE]

(* Types, no gate that is absent keeps state, and the queue bound holds. *)
TypeOK ==
    /\ gate \in [exists : BOOLEAN, running : Nat, cap : Nat, queue : Seq(Requests),
                 blocked : Blocks, cleanup : BOOLEAN]
    /\ ~gate.exists => gate = NoGate
    /\ Len(gate.queue) <= MaxQueueSize
    /\ phase \in [Requests -> Phases]
    /\ blockTimer \in BOOLEAN
    /\ oldTimers \in 0 .. MaxOldTimers
    /\ disturbed \in BOOLEAN

Init ==
    /\ gate = NoGate
    /\ phase = [r \in Requests |-> "idle"]
    /\ blockTimer = FALSE
    /\ oldTimers = 0
    /\ disturbed = FALSE

Waiting == {r \in Requests : phase[r] = "waiting"}
Holders == {r \in Requests : phase[r] = "holding"}

-----------------------------------------------------------------------------
(* Mutant of Grants: the drain loop forgets that slots are in use. *)
GrantsWholeCap(g) ==
    IF g.blocked = "yes"
      THEN 0
      ELSE IF Len(g.queue) <= g.cap THEN Len(g.queue) ELSE g.cap

(* drainQueue() on gate g hands out this many slots, in queue order. *)
Grants(g) ==
    IF g.blocked = "yes" \/ g.running >= g.cap
      THEN 0
      ELSE IF Len(g.queue) <= g.cap - g.running THEN Len(g.queue) ELSE g.cap - g.running

(* isBlocked() inside the drain loop forgets a block that is past; a drained,
   idle gate is scheduled for cleanup. *)
Drained(g) ==
    LET n == Grants(g)
    IN  [g EXCEPT !.running = @ + n,
                  !.queue = SubSeq(@, n + 1, Len(@)),
                  !.blocked = IF n > 0 THEN "no" ELSE @,
                  !.cleanup = @ \/ (g.running + n = 0 /\ n = Len(g.queue))]

(* The waiters that drainQueue() on g turns into holders. *)
AfterDrain(g, ph) ==
    LET granted == ToSet(SubSeq(g.queue, 1, Grants(g)))
    IN  [r \in Requests |-> IF r \in granted THEN "holding" ELSE ph[r]]

(* ensureGate() and the clearCleanupTimer() that follows it in acquire(). *)
EnsureGate(cap) ==
    [(IF gate.exists THEN gate ELSE [NoGate EXCEPT !.exists = TRUE])
        EXCEPT !.cap = cap, !.cleanup = FALSE]

SlotFree(g) == g.running < g.cap /\ g.blocked # "yes"

(* acquire() with a positive cap and a live signal: a slot at once ... *)
AcquireNow(r, cap) ==
    LET g == EnsureGate(cap)
    IN  /\ phase[r] = "idle"
        /\ SlotFree(g)
        /\ gate' = [g EXCEPT !.running = @ + 1, !.blocked = "no"]
        /\ phase' = [phase EXCEPT ![r] = "holding"]
        /\ UNCHANGED <<blockTimer, oldTimers, disturbed>>

(* Mutant of AcquireQueued: the queue bound is off by one. *)
AcquireQueuedOneMore(r, cap) ==
    LET g == EnsureGate(cap)
    IN  /\ phase[r] = "idle"
        /\ ~SlotFree(g)
        /\ Len(g.queue) <= MaxQueueSize
        /\ gate' = [g EXCEPT !.queue = Append(@, r)]
        /\ phase' = [phase EXCEPT ![r] = "waiting"]
        /\ UNCHANGED <<blockTimer, oldTimers, disturbed>>

(* ... a place in the queue ... *)
AcquireQueued(r, cap) ==
    LET g == EnsureGate(cap)
    IN  /\ phase[r] = "idle"
        /\ ~SlotFree(g)
        /\ Len(g.queue) < MaxQueueSize
        /\ gate' = [g EXCEPT !.queue = Append(@, r)]
        /\ phase' = [phase EXCEPT ![r] = "waiting"]
        /\ UNCHANGED <<blockTimer, oldTimers, disturbed>>

(* ... or SEMAPHORE_QUEUE_FULL, which has still updated the cap. *)
AcquireRefused(r, cap) ==
    LET g == EnsureGate(cap)
    IN  /\ phase[r] = "idle"
        /\ ~SlotFree(g)
        /\ Len(g.queue) >= MaxQueueSize
        /\ gate' = g
        /\ UNCHANGED <<phase, blockTimer, oldTimers, disturbed>>

(* Mutant of Release: the slot is given back but the queue is not drained. *)
ReleaseUndrained(r) ==
    /\ phase[r] = "holding"
    /\ gate' = IF gate.exists
                 THEN [gate EXCEPT !.running = IF @ > 0 THEN @ - 1 ELSE 0,
                                   !.cleanup = @ \/ gate.queue = <<>>]
                 ELSE gate
    /\ phase' = [phase EXCEPT ![r] = "idle"]
    /\ disturbed' = (disturbed /\ Holders # {r})
    /\ UNCHANGED <<blockTimer, oldTimers>>

(* The release function: idempotent, so only its first call counts.  It looks
   the gate up by key and gives the slot back to whatever gate is there. *)
Release(r) ==
    LET g == [gate EXCEPT !.running = IF @ > 0 THEN @ - 1 ELSE 0]
        left == [phase EXCEPT ![r] = "idle"]
    IN  /\ phase[r] = "holding"
        /\ IF ~gate.exists
             THEN gate' = gate /\ phase' = left
             ELSE IF gate.queue # <<>>
                    THEN gate' = Drained(g) /\ phase' = AfterDrain(g, left)
                    ELSE gate' = [g EXCEPT !.cleanup = TRUE] /\ phase' = left
        /\ disturbed' = (disturbed /\ Holders' # {})
        /\ UNCHANGED <<blockTimer, oldTimers>>

(* The queue timeout or the abort signal of a waiter: it leaves the queue and
   its acquire() rejects. *)
Leave(r) ==
    \E i \in DOMAIN gate.queue :
        LET q == RemoveAt(gate.queue, i)
        IN
        /\ phase[r] = "waiting"
        /\ gate.queue[i] = r
        /\ gate' = [gate EXCEPT !.queue = q,
                                !.cleanup = @ \/ (gate.running = 0 /\ q = <<>>)]
        /\ phase' = [phase EXCEPT ![r] = "idle"]
        /\ UNCHANGED <<blockTimer, oldTimers, disturbed>>

(* markBlocked() with a positive cooldown: a missing gate is created with cap 1. *)
MarkBlocked ==
    /\ oldTimers < MaxOldTimers \/ ~blockTimer
    /\ gate' = [(IF gate.exists THEN gate ELSE [NoGate EXCEPT !.exists = TRUE, !.cap = 1])
                   EXCEPT !.blocked = "yes", !.cleanup = FALSE]
    /\ blockTimer' = TRUE
    /\ oldTimers' = IF blockTimer THEN oldTimers + 1 ELSE oldTimers
    /\ UNCHANGED <<phase, disturbed>>

(* markBlocked() with no cooldown lifts the block and drains. *)
Unblock ==
    LET g == [gate EXCEPT !.blocked = "no"]
    IN  /\ gate.exists
        /\ gate' = Drained(g)
        /\ phase' = AfterDrain(g, phase)
        /\ UNCHANGED <<blockTimer, oldTimers, disturbed>>

(* The clock passes blockedUntil. *)
BlockPasses ==
    /\ gate.blocked = "yes"
    /\ gate' = [gate EXCEPT !.blocked = "past"]
    /\ UNCHANGED <<phase, blockTimer, oldTimers, disturbed>>

(* Mutant of BlockTimerBody: the block is lifted without draining. *)
BlockTimerBodyQuiet ==
    /\ gate' = IF gate.blocked = "past" THEN [gate EXCEPT !.blocked = "no"] ELSE gate
    /\ UNCHANGED phase

(* What a block timer does when it fires. *)
BlockTimerBody ==
    LET g == [gate EXCEPT !.blocked = "no"]
    IN  IF gate.blocked = "past"
          THEN gate' = Drained(g) /\ phase' = AfterDrain(g, phase)
          ELSE UNCHANGED <<gate, phase>>

(* The last one fires 50 ms after blockedUntil; earlier ones at any time. *)
BlockTimerFires ==
    /\ blockTimer /\ gate.blocked # "yes"
    /\ blockTimer' = FALSE
    /\ BlockTimerBody
    /\ UNCHANGED <<oldTimers, disturbed>>

OldTimerFires ==
    /\ oldTimers > 0
    /\ oldTimers' = oldTimers - 1
    /\ BlockTimerBody
    /\ UNCHANGED <<blockTimer, disturbed>>

(* Mutant of Cleanup: the gate goes although a request still holds a slot. *)
CleanupUnchecked ==
    /\ gate.cleanup
    /\ gate' = IF gate.queue # <<>> \/ gate.blocked = "yes"
                 THEN [gate EXCEPT !.cleanup = FALSE]
                 ELSE NoGate
    /\ UNCHANGED <<phase, blockTimer, oldTimers, disturbed>>

(* The cleanup timer: cleanupGateIfIdle(). *)
Cleanup ==
    /\ gate.cleanup
    /\ gate' = IF gate.running > 0 \/ gate.queue # <<>> \/ gate.blocked = "yes"
                 THEN [gate EXCEPT !.cleanup = FALSE]
                 ELSE NoGate
    /\ UNCHANGED <<phase, blockTimer, oldTimers, disturbed>>

(* resetAll(), which an administrator may call: waiters are rejected, holders
   keep running, and their release functions will find no gate or a later one. *)
Reset ==
    /\ gate.exists
    /\ gate' = NoGate
    /\ phase' = [r \in Requests |-> IF phase[r] = "waiting" THEN "idle" ELSE phase[r]]
    /\ disturbed' = (Holders # {})
    /\ UNCHANGED <<blockTimer, oldTimers>>

Next ==
    \/ \E r \in Requests :
          \/ \E cap \in Caps :
                AcquireNow(r, cap) \/ AcquireQueued(r, cap) \/ AcquireRefused(r, cap)
          \/ Release(r)
          \/ Leave(r)
    \/ MarkBlocked \/ Unblock \/ BlockPasses
    \/ BlockTimerFires \/ OldTimerFires \/ Cleanup \/ Reset

Spec == Init /\ [][Next]_vars

(* Requests end and give their slot back, and timers fire.  Queue timeouts are
   not assumed: the properties below must not depend on them. *)
FairSpec ==
    /\ Spec
    /\ \A r \in Requests : WF_vars(Release(r))
    /\ WF_vars(BlockPasses) /\ WF_vars(BlockTimerFires)

-----------------------------------------------------------------------------
(* The gate's counter is the number of slots really in use, and a gate is never
   cleaned up under a holder or a waiter: acquire(), the release functions, the
   drain loop and the cleanup timer agree however they interleave.  A reset while
   slots are held makes the counter too low, never too high (no capacity is
   lost), and only until a moment when nobody holds a slot. *)
SlotAccounting ==
    /\ gate.running <= Cardinality(Holders)
    /\ ~disturbed => gate.running = Cardinality(Holders)
    /\ ToSet(gate.queue) = Waiting
    /\ Len(gate.queue) = Cardinality(Waiting)

(* No grant ever takes the number of requests in flight above the cap in force
   when it is made, unless a reset dropped the gate of requests still in flight. *)
CapRespected ==
    [][\A r \in Requests :
         (phase[r] # "holding" /\ phase'[r] = "holding" /\ ~disturbed) =>
             Cardinality(Holders') <= gate'.cap]_vars

(* No wake-up is lost: while requests wait either a holder will release and
   drain the queue, or a block stands whose last timer is still to fire, even
   though a lazily cleared block turns that timer into a no-op. *)
NoLostWakeup ==
    gate.queue # <<>> /\ gate.running = 0 => gate.blocked # "no" /\ blockTimer

(* An idle gate does not stay in the map: its cleanup is scheduled, or will be
   when the block timer fires. *)
NoGateLeak ==
    gate.exists /\ gate.running = 0 /\ gate.queue = <<>> =>
        gate.cleanup \/ (gate.blocked # "no" /\ blockTimer)

(* Once the operator stops changing the cap and the upstream stops rate limiting,
   every waiter gets its slot or leaves, without the help of the queue timeout
   and although acquire() lets newcomers overtake the queue. *)
WaiterServed ==
    (\E cap \in Caps : <>[](gate.blocked # "yes" /\ gate.cap \in {0, cap})) =>
        \A r \in Requests : phase[r] = "waiting" ~> phase[r] # "waiting"
=============================================================================
