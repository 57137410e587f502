------------------------- MODULE RateLimitSemaphore -------------------------
(***************************************************************************)
(* open-sse/services/rateLimitSemaphore.ts for one model: the gate of      *)
(* round-robin combos with its FIFO queue, and the pause after a rate      *)
(* limit.  The gate is an entry of a map that is deleted when nobody uses  *)
(* it; timers keep the object they were made for, release functions look   *)
(* the gate up by name.  Each function runs to completion; calls, queue    *)
(* timeouts and pause timers interleave.                                   *)
(***************************************************************************)
EXTENDS Integers, SequencesExt

CONSTANTS
    Requests,       \* callers of acquire()
    Limits,         \* values of maxConcurrency the callers pass
    DefaultMax,     \* maxConcurrency of getGate() when none is passed: 3
    QueueSizes,     \* values of maxQueueSize they pass
    MaxTimers       \* bound of this model on pause timers of earlier calls

ASSUME RequestsAssumption == IsFiniteSet(Requests)
ASSUME LimitsAssumption == Limits \subseteq Nat \ {0}
ASSUME DefaultAssumption == DefaultMax \in Nat \ {0}
ASSUME QueueAssumption == QueueSizes \subseteq Nat
ASSUME TimersAssumption == MaxTimers \in Nat

VARIABLES
    gate,           \* the ModelGate in the gates map
    phase,          \* phase[r]: where the caller r stands
    timer,          \* the timer of the gate's last markRateLimited() is pending
    older,          \* timers of earlier calls on the same gate object
    strays,         \* timers of gate objects that have been deleted
    cooling         \* the cooldown of the last markRateLimited(): over, running on
                    \* its gate, or running although that gate is gone

vars == <<gate, phase, timer, older, strays, cooling>>

Phases == {"idle", "waiting", "holding"}

(* rateLimitedUntil is null ("no"), ahead ("yes") or past and not yet noticed by
   isRateLimited() ("past"). *)
Pauses == {"no", "yes", "past"}

NoGate == [exists |-> FALSE, running |-> 0, max |-> 0, queue |-> <<>>, limited |-> "no"]

(* Types; an absent gate has no state and no timer of its own, the queue is
   bounded, and a gate that says it is limited is so by the clock. *)
TypeOK ==
    /\ gate \in [exists : BOOLEAN, running : Nat, max : Nat, queue : Seq(Requests),
                 limited : Pauses]
    /\ ~gate.exists => gate = NoGate /\ ~timer /\ older = 0
    /\ gate.queue # <<>> => \E size \in QueueSizes : Len(gate.queue) <= size
    /\ phase \in [Requests -> Phases]
    /\ timer \in BOOLEAN
    /\ older \in 0 .. MaxTimers
    /\ strays \in 0 .. MaxTimers + 1
    /\ cooling \in {"over", "kept", "lost"}
    /\ gate.limited = "yes" => cooling = "kept"

Init ==
    /\ gate = NoGate
    /\ phase = [r \in Requests |-> "idle"]
    /\ timer = FALSE
    /\ older = 0
    /\ strays = 0
    /\ cooling = "over"

Waiting == {r \in Requests : phase[r] = "waiting"}
Holders == {r \in Requests : phase[r] = "holding"}

-----------------------------------------------------------------------------
(* The gate becomes g; deleted, it leaves its timers behind. *)
PutGate(g) ==
    /\ gate' = g
    /\ IF g.exists
         THEN UNCHANGED <<timer, older, strays>>
         ELSE /\ timer' = FALSE
              /\ older' = 0
              /\ strays' = strays + older + IF timer THEN 1 ELSE 0

(* A cooldown does not follow its gate when that is deleted. *)
MayLoseCooldown ==
    cooling' = IF cooling = "kept" /\ ~gate'.exists THEN "lost" ELSE cooling

(* getGate(): a gate that exists takes over the maximum of the latest call. *)
GetGate(max) == [(IF gate.exists THEN gate ELSE [NoGate EXCEPT !.exists = TRUE]) EXCEPT !.max = max]

SlotFree(g) == g.running < g.max /\ g.limited # "yes"

IsIdle(g) == g.running = 0 /\ g.queue = <<>>

(* Mutant of Grants: the loop goes on at the maximum. *)
GrantsOneMore(g) ==
    IF g.limited = "yes" \/ g.running > g.max
      THEN 0
      ELSE IF Len(g.queue) <= g.max + 1 - g.running THEN Len(g.queue)
                                                     ELSE g.max + 1 - g.running

(* drainQueue() on gate g hands out this many slots, in queue order. *)
Grants(g) ==
    IF g.limited = "yes" \/ g.running >= g.max
      THEN 0
      ELSE IF Len(g.queue) <= g.max - g.running THEN Len(g.queue) ELSE g.max - g.running

(* Mutant of Drained: an idle gate stays in the map. *)
DrainedKept(g) ==
    LET n == Grants(g)
    IN  [g EXCEPT !.running = @ + n,
                  !.queue = SubSeq(@, n + 1, Len(@)),
                  !.limited = IF n > 0 THEN "no" ELSE @]

(* isRateLimited() in the loop forgets a pause that is past; an idle gate goes. *)
Drained(g) ==
    LET n == Grants(g)
    IN  IF IsIdle(g)
          THEN NoGate
          ELSE [g EXCEPT !.running = @ + n,
                         !.queue = SubSeq(@, n + 1, Len(@)),
                         !.limited = IF n > 0 THEN "no" ELSE @]

(* The waiters that drainQueue() on g turns into holders. *)
Served(g, ph) ==
    LET granted == {g.queue[i] : i \in 1 .. Grants(g)}
    IN  [r \in Requests |-> IF r \in granted THEN "holding" ELSE ph[r]]

-----------------------------------------------------------------------------
(* acquire(): a slot at once, whether or not others wait ... *)
AcquireNow(r, max) ==
    LET g == GetGate(max)
    IN  /\ phase[r] = "idle"
        /\ SlotFree(g)
        /\ gate' = [g EXCEPT !.running = @ + 1, !.limited = "no"]
        /\ phase' = [phase EXCEPT ![r] = "holding"]
        /\ UNCHANGED <<timer, older, strays, cooling>>

(* Mutant of AcquireQueued: the queue bound is off by one. *)
AcquireQueuedOneMore(r, max, size) ==
    LET g == GetGate(max)
    IN  /\ phase[r] = "idle"
        /\ ~SlotFree(g)
        /\ Len(g.queue) <= size
        /\ gate' = [g EXCEPT !.queue = Append(@, r)]
        /\ phase' = [phase EXCEPT ![r] = "waiting"]
        /\ UNCHANGED <<timer, older, strays, cooling>>

(* ... a place in the queue: an omitted or negative maxQueueSize is a size as large as
   the number of callers, which never refuses ... *)
AcquireQueued(r, max, size) ==
    LET g == GetGate(max)
    IN  /\ phase[r] = "idle"
        /\ ~SlotFree(g)
        /\ Len(g.queue) < size
        /\ gate' = [g EXCEPT !.queue = Append(@, r)]
        /\ phase' = [phase EXCEPT ![r] = "waiting"]
        /\ UNCHANGED <<timer, older, strays, cooling>>

(* Mutant of AcquireRefused: the gate is dropped although requests hold slots. *)
AcquireRefusedDrops(r, max, size) ==
    LET g == GetGate(max)
    IN  /\ phase[r] = "idle"
        /\ ~SlotFree(g)
        /\ Len(g.queue) >= size
        /\ PutGate(IF g.queue = <<>> THEN NoGate ELSE g)
        /\ MayLoseCooldown
        /\ UNCHANGED phase

(* ... or SEMAPHORE_QUEUE_FULL; a gate nobody uses is dropped, paused or not. *)
AcquireRefused(r, max, size) ==
    LET g == GetGate(max)
    IN  /\ phase[r] = "idle"
        /\ ~SlotFree(g)
        /\ Len(g.queue) >= size
        /\ PutGate(IF IsIdle(g) THEN NoGate ELSE g)
        /\ MayLoseCooldown
        /\ UNCHANGED phase

(* Mutant of Release: the slot is given back but the queue is not drained. *)
ReleaseUndrained(r) ==
    LET g == [gate EXCEPT !.running = @ - 1]
    IN  /\ phase[r] = "holding"
        /\ gate.running > 0
        /\ PutGate(IF IsIdle(g) THEN NoGate ELSE g)
        /\ phase' = [phase EXCEPT ![r] = "idle"]
        /\ MayLoseCooldown

(* The release function, of which only the first call counts. *)
Release(r) ==
    LET g == [gate EXCEPT !.running = @ - 1]
        left == [phase EXCEPT ![r] = "idle"]
    IN  /\ phase[r] = "holding"
        /\ IF gate.running > 0
             THEN PutGate(Drained(g)) /\ phase' = Served(g, left)
             ELSE UNCHANGED <<gate, timer, older, strays>> /\ phase' = left
        /\ MayLoseCooldown

(* The queue timeout of a waiter.  The gate stays, even if nobody uses it now. *)
Timeout(r) ==
    \E i \in DOMAIN gate.queue :
        /\ phase[r] = "waiting"
        /\ gate.queue[i] = r
        /\ gate' = [gate EXCEPT !.queue = RemoveAt(@, i)]
        /\ phase' = [phase EXCEPT ![r] = "idle"]
        /\ UNCHANGED <<timer, older, strays, cooling>>

(* markRateLimited(): its one caller, the round-robin loop, holds a slot when it
   calls.  getGate() without a maximum resets it to the default. *)
MarkRateLimited(r) ==
    /\ phase[r] = "holding"
    /\ older + strays < MaxTimers \/ (~timer /\ older + strays <= MaxTimers)
    /\ gate' = [GetGate(DefaultMax) EXCEPT !.limited = "yes"]
    /\ timer' = TRUE
    /\ older' = IF timer THEN older + 1 ELSE older
    /\ cooling' = "kept"
    /\ UNCHANGED <<phase, strays>>

(* The clock passes rateLimitedUntil. *)
CooldownPasses ==
    /\ cooling # "over"
    /\ cooling' = "over"
    /\ gate' = [gate EXCEPT !.limited = IF @ = "yes" THEN "past" ELSE @]
    /\ UNCHANGED <<phase, timer, older, strays>>

(* Mutant of TimerBody: a timer does not ask whether the pause was extended. *)
TimerBodyEarly ==
    LET g == [gate EXCEPT !.limited = "no"]
    IN  IF gate.limited # "no"
          THEN gate' = Drained(g) /\ phase' = Served(g, phase)
          ELSE UNCHANGED <<gate, phase>>

(* Mutant of TimerBody: the pause is lifted and the queue forgotten. *)
TimerBodyQuiet ==
    /\ gate' = IF gate.limited = "past" THEN [gate EXCEPT !.limited = "no"] ELSE gate
    /\ UNCHANGED phase

(* A timer of this gate does something only if nobody noticed the end of the pause
   before it; whatever it leaves of the gate, gate' and phase' say. *)
TimerBody ==
    LET g == [gate EXCEPT !.limited = "no"]
    IN  IF gate.limited = "past"
          THEN gate' = Drained(g) /\ phase' = Served(g, phase)
          ELSE UNCHANGED <<gate, phase>>

(* The last timer fires 50 ms after rateLimitedUntil, earlier ones at any time. *)
TimerFires ==
    /\ timer /\ gate.limited # "yes"
    /\ TimerBody
    /\ timer' = FALSE
    /\ older' = IF gate'.exists THEN older ELSE 0
    /\ strays' = IF gate'.exists THEN strays ELSE strays + older
    /\ MayLoseCooldown

OlderTimerFires ==
    /\ older > 0
    /\ TimerBody
    /\ timer' = (timer /\ gate'.exists)
    /\ older' = IF gate'.exists THEN older - 1 ELSE 0
    /\ strays' = IF gate'.exists THEN strays ELSE strays + older - 1 + IF timer THEN 1 ELSE 0
    /\ MayLoseCooldown

(* A timer of a deleted gate judges by that object, where the pause may have been
   extended, and drains the gate the model has now. *)
StrayFires ==
    /\ strays > 0
    /\ \/ UNCHANGED <<gate, phase>>
       \/ gate.exists /\ gate' = Drained(gate) /\ phase' = Served(gate, phase)
    /\ timer' = (timer /\ gate'.exists)
    /\ older' = IF gate'.exists THEN older ELSE 0
    /\ strays' = strays - 1 + IF gate'.exists THEN 0 ELSE older + IF timer THEN 1 ELSE 0
    /\ MayLoseCooldown

Next ==
    \/ \E r \in Requests :
          \/ \E max \in Limits :
                \/ AcquireNow(r, max)
                \/ \E size \in QueueSizes :
                      AcquireQueued(r, max, size) \/ AcquireRefused(r, max, size)
          \/ Release(r) \/ Timeout(r) \/ MarkRateLimited(r)
    \/ CooldownPasses \/ TimerFires \/ OlderTimerFires \/ StrayFires

Spec == Init /\ [][Next]_vars

(* Requests end and release in a finally block, and timers fire.  Queue timeouts
   are not assumed: the properties below must not depend on them. *)
FairSpec ==
    /\ Spec
    /\ \A r \in Requests : WF_vars(Release(r))
    /\ WF_vars(CooldownPasses) /\ WF_vars(TimerFires)

-----------------------------------------------------------------------------
(* The counter of the gate is the number of slots in use and its queue holds those
   who wait, although the gate is deleted and made again by name under release
   functions and timers that outlive it. *)
SlotAccounting ==
    /\ gate.running = Cardinality(Holders)
    /\ ToSet(gate.queue) = Waiting
    /\ Len(gate.queue) = Cardinality(Waiting)

(* "After expiry, the queue drains automatically": those who wait have a holder
   that will drain the queue or a pause whose own timer is still to come, although
   the timer does nothing when acquire() has noticed the end of the pause first. *)
NoLostWakeup ==
    gate.queue # <<>> /\ gate.running = 0 => gate.limited # "no" /\ timer

(* A gate nobody uses does not stay in the map for good: the timeout of its last
   waiter leaves it there only with a timer that will delete it. *)
NoGateLeak ==
    gate.exists /\ IsIdle(gate) => gate.limited # "no" /\ timer

(* Once callers agree on a maximum and rate limits stop, every waiter is served or
   leaves, without the queue timeout and although newcomers overtake the queue. *)
WaiterServed ==
    (\E max \in Limits : <>[](gate.limited # "yes" /\ gate.max \in {0, max})) =>
        \A r \in Requests : phase[r] = "waiting" ~> phase[r] # "waiting"

Pool == INSTANCE SlotPool WITH holders <- Holders, queue <- gate.queue, limit <- gate.max

(* The gate is a pool of slots: no more holders than the maximum in force at a
   grant, and a queue that is served first in, first out. *)
ImplementsPool == Pool!Spec

(* "Existing running requests continue, but new acquisitions are blocked until the
   cooldown expires": as long as the gate lives nobody gets a slot during the
   cooldown, neither by acquire() nor by the drains of releases and of timers left
   from shorter pauses and from gates deleted before.  The cooldown is lost with its
   gate: the last release deletes it. *)
PauseHolds ==
    [][\A r \in Requests :
         phase[r] # "holding" /\ phase'[r] = "holding" => cooling # "kept"]_vars
=============================================================================
