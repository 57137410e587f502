--------------------------- MODULE BatchProcessor ---------------------------
(***************************************************************************)
(* open-sse/services/batchProcessor.ts: asynchronous batches, their item   *)
(* checkpoints, and what a restart makes of batches a crash interrupted.   *)
(* The poller, one background run per started batch, the cancel and delete *)
(* routes and crashes interleave at every await.  A statement the code     *)
(* does not await lands when it lands: at once with SQLite, later and in   *)
(* any order with the connection pool of the Postgres driver, maybe after  *)
(* further polls; or it is rejected, and nobody learns of it.              *)
(***************************************************************************)
EXTENDS Integers, FiniteSets, Functions

CONSTANTS
    Batches,        \* rows of the batches table
    Requested,      \* batches that clients may cancel and delete
    NItems,         \* lines of an input file
    MaxConcurrent,  \* BATCH_MAX_CONCURRENT
    MaxRuns,        \* bound of this model on runs of one batch at a time
    MaxWrites,      \* bound of this model on statements about a batch under way
    MaxRejections,  \* bound of this model on rejections that fail no run
    MaxCrashes      \* bound of this model on crashes

ASSUME BatchesAssumption == IsFiniteSet(Batches)
ASSUME ItemsAssumption == NItems \in Nat
ASSUME ConcurrentAssumption == MaxConcurrent \in Nat \ {0}
ASSUME RunsAssumption == MaxRuns \in Nat \ {0}
ASSUME WritesAssumption == MaxWrites \in Nat \ {0}
ASSUME RejectionsAssumption == MaxRejections \in Nat
ASSUME CrashAssumption == MaxCrashes \in Nat

Items  == 1 .. NItems
Copies == 1 .. MaxRuns      \* names for the runs of a batch

VARIABLES
    status,         \* status[b]: the row's status, "deleted" when it is gone
    counted,        \* counted[b]: request_counts_total is set
    ck,             \* ck[b][i]: status of the item's checkpoint row
    files,          \* files[b]: items in the output and error files of the row
    writes,         \* writes[b][o]: statements issued without await, not landed yet
    active,         \* activeBatches
    pc, at,         \* pc[b][k], at[b][k]: where processBatchItems() stands in run k of b
    snap, done,     \* its copy of the checkpoints; items with a result or an error
    poll,           \* where processPendingBatches() stands
    rows, todo,     \* the rows it read; the batches it still has to look at
    starting,       \* the batch, if any, whose input file startBatch() is reading
    slots,          \* its activeCount
    crashes, rejections,
    sent,           \* ghost: sent[b][i], how many runs sent item i to a provider
    asked,          \* ghost: batches somebody asked to cancel
    erased,         \* ghost: batches somebody deleted
    adrift          \* ghost: batches a poll met before their row said what was decided

stored == <<status, counted, ck, files>>
runner == <<active, pc, at, snap, done>>
poller == <<poll, rows, todo, starting, slots>>
limits == <<crashes, rejections>>
ghosts == <<sent, asked, erased, adrift>>
vars == <<stored, writes, runner, poller, limits, ghosts>>

Pending    == {"validating", "in_progress", "finalizing", "cancelling"}
Terminal   == {"completed", "failed", "cancelled", "expired"}
Statuses   == Pending \cup Terminal \cup {"deleted"}
Marks      == {"none", "pending", "processing", "completed", "errored"}
Updates    == {"validating", "in_progress", "cancelling", "cancelled", "failed", "expired"}
Operations == Updates \cup {"checkpoints", "purge", "drop"}
Pcs        == {"idle", "load", "check", "item", "marked", "waiting", "final", "finalize",
               "files", "report"}
Polls      == {"idle", "recover", "scan"}

TypeOK ==
    /\ status \in [Batches -> Statuses]
    /\ counted \in [Batches -> BOOLEAN]
    /\ ck \in [Batches -> [Items -> Marks]]
    /\ files \in [Batches -> SUBSET Items]
    /\ writes \in [Batches -> [Operations -> Nat]]
    /\ active \in SUBSET Batches
    /\ pc \in [Batches -> [Copies -> Pcs]]
    /\ at \in [Batches -> [Copies -> 1 .. NItems + 1]]
    /\ snap \in [Batches -> [Copies -> [Items -> Marks]]]
    /\ done \in [Batches -> [Copies -> SUBSET Items]]
    /\ poll \in Polls
    /\ rows \in [Batches -> Statuses]
    /\ todo \in SUBSET Batches
    /\ starting \in SUBSET Batches
    /\ slots \in Nat
    /\ crashes \in 0 .. MaxCrashes
    /\ rejections \in 0 .. MaxRejections
    /\ sent \in [Batches -> [Items -> Nat]]
    /\ asked \in SUBSET Batches
    /\ erased \in SUBSET Batches
    /\ adrift \in SUBSET Batches

NoMarks == [i \in Items |-> "none"]
Idle(v) == [b \in Batches |-> [k \in Copies |-> v]]

Init ==
    /\ status = [b \in Batches |-> "validating"]
    /\ counted = [b \in Batches |-> FALSE]
    /\ ck = [b \in Batches |-> NoMarks]
    /\ files = [b \in Batches |-> {}]
    /\ writes = [b \in Batches |-> [o \in Operations |-> 0]]
    /\ active = {}
    /\ pc = Idle("idle") /\ at = Idle(1) /\ snap = Idle(NoMarks) /\ done = Idle({})
    /\ poll = "idle"
    /\ rows = [b \in Batches |-> "validating"]
    /\ todo = {} /\ starting = {} /\ slots = 0
    /\ crashes = 0 /\ rejections = 0
    /\ sent = [b \in Batches |-> [i \in Items |-> 0]]
    /\ asked = {} /\ erased = {} /\ adrift = {}

-----------------------------------------------------------------------------
(* Statements os about batch b are issued, and nobody waits for them. *)
Issue(b, os) ==
    /\ os # {} => SumFunction(writes[b]) + Cardinality(os) <= MaxWrites
    /\ writes' = [writes EXCEPT ![b] =
                    [o \in Operations |-> IF o \in os THEN @[o] + 1 ELSE @[o]]]

(* One of them is over. *)
Settle(b, o) ==
    /\ writes[b][o] > 0
    /\ writes' = [writes EXCEPT ![b][o] = @ - 1]

(* updateBatch(), ensureBatchItemCheckpoints() and deleteBatch() that nobody
   awaits reach the database.  A row that is gone takes no update. *)
LandCheckpoints(b) ==
    /\ Settle(b, "checkpoints")
    /\ ck' = IF status[b] = "deleted"
               THEN ck
               ELSE [ck EXCEPT ![b] = [i \in Items |->
                        IF ck[b][i] = "none" THEN "pending" ELSE ck[b][i]]]
    /\ UNCHANGED <<status, counted, files, runner, poller, limits, ghosts>>

LandStatus(b, s) ==
    /\ Settle(b, s)
    /\ IF status[b] = "deleted"
         THEN UNCHANGED <<status, counted, files>>
         ELSE /\ status' = [status EXCEPT ![b] = s]
              /\ counted' = [counted EXCEPT ![b] = @ \/ (s = "in_progress" /\ NItems > 0)]
              /\ files' = [files EXCEPT ![b] = IF s = "validating" THEN {} ELSE @]
    /\ UNCHANGED <<ck, runner, poller, limits, ghosts>>

(* deleteBatch() removes the checkpoints and, after more awaits, the row. *)
LandPurge(b) ==
    /\ writes[b]["purge"] > 0
    /\ writes' = [writes EXCEPT ![b] =
                    [writes[b] EXCEPT !["purge"] = @ - 1, !["drop"] = @ + 1]]
    /\ ck' = [ck EXCEPT ![b] = NoMarks]
    /\ UNCHANGED <<status, counted, files, runner, poller, limits, ghosts>>

LandDrop(b) ==
    /\ Settle(b, "drop")
    /\ status' = [status EXCEPT ![b] = "deleted"]
    /\ ck' = [ck EXCEPT ![b] = NoMarks]
    /\ UNCHANGED <<counted, files, runner, poller, limits, ghosts>>

Land(b) ==
    \/ LandCheckpoints(b) \/ LandPurge(b) \/ LandDrop(b)
    \/ \E s \in Updates : LandStatus(b, s)

(* The database rejects one of them: an unhandled rejection, and the row stays as
   it is. *)
Lose(b, o) ==
    /\ rejections < MaxRejections
    /\ rejections' = rejections + 1
    /\ Settle(b, o)
    /\ adrift' = IF o = "in_progress" THEN adrift \cup {b} ELSE adrift
    /\ UNCHANGED <<stored, runner, poller, crashes, sent, asked, erased>>

(* The cancel route: the row was not terminal when it was read.  The read and
   the write are apart, so this write is late with both drivers.  Bound of this
   model: a client cancels a batch once. *)
Cancel(b) ==
    /\ b \in Requested \ asked
    /\ status[b] \in Pending \ {"cancelling"}
    /\ Issue(b, {"cancelling"})
    /\ asked' = asked \cup {b}
    /\ UNCHANGED <<stored, runner, poller, limits, sent, erased, adrift>>

(* The delete routes: terminal batches only, and here once. *)
Delete(b) ==
    /\ b \in Requested \ erased
    /\ status[b] \in Terminal
    /\ Issue(b, {"purge"})
    /\ erased' = erased \cup {b}
    /\ UNCHANGED <<stored, runner, poller, limits, sent, asked, adrift>>

-----------------------------------------------------------------------------
(* What the row of such a batch is going to say was decided before this poll. *)
Undecided == {b \in Batches : writes[b]["in_progress"] > 0 \/ writes[b]["validating"] > 0}

(* A poll that does not look for batches left in finalizing. *)
PollBeginInProgressOnly ==
    /\ poll = "idle"
    /\ poll' = "recover"
    /\ rows' = status
    /\ todo' = {b \in Batches : status[b] = "in_progress"}
    /\ adrift' = adrift \cup Undecided
    /\ UNCHANGED <<stored, writes, runner, starting, slots, limits, sent, asked, erased>>

(* processPendingBatches().  isProcessing keeps polls apart, and nothing else: the
   timer may fire as soon as the last poll is over. *)
PollBegin ==
    /\ poll = "idle"
    /\ poll' = "recover"
    /\ rows' = status
    /\ todo' = {b \in Batches : status[b] \in {"in_progress", "finalizing"}}
    /\ adrift' = adrift \cup Undecided
    /\ UNCHANGED <<stored, writes, runner, starting, slots, limits, sent, asked, erased>>

(* A step of the poll's loops that is done with batch b and issues os. *)
Handled(b, os) ==
    /\ b \in todo
    /\ starting = {}
    /\ todo' = todo \ {b}
    /\ Issue(b, os)
    /\ UNCHANGED <<stored, poll, rows, limits, ghosts>>

(* Phase 1 passes over batches this process is working on. *)
RecoverSkip(b) ==
    /\ poll = "recover" /\ b \in active
    /\ Handled(b, {})
    /\ UNCHANGED <<runner, starting, slots>>

(* No item checkpoints, although items may have been sent. *)
Unreplayable(b) == ck[b] = NoMarks /\ (counted[b] \/ rows[b] = "finalizing")

(* recoverStaleBatch(): such a batch fails, any other one starts over. *)
Recover(b) ==
    /\ poll = "recover" /\ b \notin active
    /\ Handled(b, {IF Unreplayable(b) THEN "failed" ELSE "validating"})
    /\ UNCHANGED <<runner, starting, slots>>

(* Phase 2 reads the rows again and counts the batches at work. *)
Scan ==
    /\ poll = "recover" /\ todo = {}
    /\ poll' = "scan"
    /\ rows' = status
    /\ todo' = {b \in Batches : status[b] \in {"validating", "cancelling"}}
    /\ slots' = Cardinality(active)
    /\ UNCHANGED <<stored, writes, runner, starting, limits, ghosts>>

(* cancelBatch(), whether or not items of the batch are in flight. *)
ScanCancel(b) ==
    /\ poll = "scan" /\ rows[b] = "cancelling"
    /\ Handled(b, {"cancelled"})
    /\ UNCHANGED <<runner, starting, slots>>

(* Phase 2 without the comparison with the limit. *)
ScanValidatingUnlimited(b) ==
    /\ poll = "scan" /\ rows[b] = "validating"
    /\ Handled(b, {})
    /\ starting' = {b}
    /\ slots' = slots + 1
    /\ UNCHANGED runner

(* A validating batch is left for a later poll, or startBatch() goes to read its
   input file, whether or not the batch is in activeBatches ... *)
ScanValidating(b) ==
    /\ poll = "scan" /\ rows[b] = "validating"
    /\ Handled(b, {})
    /\ starting' = IF slots < MaxConcurrent THEN {b} ELSE {}
    /\ slots' = IF slots < MaxConcurrent THEN slots + 1 ELSE slots
    /\ UNCHANGED runner

(* ... finds it missing or invalid (the counts this sets too are read only of batches
   that were in progress) and calls failBatch() ... *)
StartFailed(b) ==
    /\ b \in starting
    /\ starting' = {}
    /\ Issue(b, {"failed"})
    /\ active' = active \ {b}
    /\ UNCHANGED <<stored, pc, at, snap, done, poll, rows, todo, slots, limits, ghosts>>

(* ... or starts a background run of its items, beside any that is at work: here
   under the first free name. *)
Start(b, k) ==
    /\ b \in starting
    /\ pc[b][k] = "idle" /\ \A l \in Copies : pc[b][l] = "idle" => k <= l
    /\ starting' = {}
    /\ Issue(b, {"checkpoints", "in_progress"})
    /\ active' = active \cup {b}
    /\ pc' = [pc EXCEPT ![b][k] = "load"]
    /\ UNCHANGED <<stored, at, snap, done, poll, rows, todo, slots, limits, ghosts>>

PollOver ==
    /\ poll' = "idle"
    /\ rows' = [b \in Batches |-> "validating"]
    /\ todo' = {} /\ starting' = {} /\ slots' = 0
    /\ UNCHANGED <<stored, runner, crashes, ghosts>>

(* cleanupExpiredBatches() ends the poll: validating batches past their window
   expire. *)
PollEnd ==
    /\ poll = "scan" /\ todo = {} /\ starting = {}
    /\ \E late \in SUBSET {b \in Batches : status[b] = "validating"} :
          /\ \A b \in late : SumFunction(writes[b]) < MaxWrites
          /\ writes' = [b \in Batches |->
                IF b \in late THEN [writes[b] EXCEPT !["expired"] = @ + 1] ELSE writes[b]]
    /\ PollOver
    /\ UNCHANGED rejections

(* A query the poll awaits is rejected: the timer's callback logs "Polling error". *)
PollFails ==
    /\ poll # "idle"
    /\ rejections < MaxRejections
    /\ rejections' = rejections + 1
    /\ PollOver
    /\ UNCHANGED writes

-----------------------------------------------------------------------------
(* processBatchItems(): it copies the checkpoints ... *)
Load(b, k) ==
    /\ pc[b][k] = "load"
    /\ pc' = [pc EXCEPT ![b][k] = "check"]
    /\ snap' = [snap EXCEPT ![b][k] = ck[b]]
    /\ UNCHANGED <<stored, writes, active, at, done, poller, limits, ghosts>>

(* ... and asks before each item whether the batch has been cancelled. *)
Check(b, k) ==
    /\ pc[b][k] = "check"
    /\ pc' = [pc EXCEPT ![b][k] =
                IF at[b][k] > NItems \/ status[b] \in {"cancelling", "cancelled", "deleted"}
                  THEN "final" ELSE "item"]
    /\ UNCHANGED <<stored, writes, active, at, snap, done, poller, limits, ghosts>>

(* The item has an outcome; ck becomes m if its checkpoint row exists. *)
ItemDone(b, k, m) ==
    /\ ck' = [ck EXCEPT ![b][at[b][k]] = IF @ = "none" THEN @ ELSE m]
    /\ done' = [done EXCEPT ![b][k] = @ \cup {at[b][k]}]
    /\ at' = [at EXCEPT ![b][k] = @ + 1]
    /\ pc' = [pc EXCEPT ![b][k] = "check"]
    /\ UNCHANGED <<status, counted, files, writes, active, snap, poller, limits, ghosts>>

(* A recovered item whose outcome is not carried over. *)
RecoveredForgotten(b, k) ==
    /\ pc[b][k] = "item"
    /\ snap[b][k][at[b][k]] \in {"completed", "errored", "processing"}
    /\ at' = [at EXCEPT ![b][k] = @ + 1]
    /\ pc' = [pc EXCEPT ![b][k] = "check"]
    /\ UNCHANGED <<stored, writes, active, snap, done, poller, limits, ghosts>>

(* applyRecoveredCheckpoint(): an item of an earlier run keeps its outcome; one
   that was in flight then becomes an error and is not sent again. *)
Recovered(b, k) ==
    /\ pc[b][k] = "item"
    /\ snap[b][k][at[b][k]] \in {"completed", "errored", "processing"}
    /\ ItemDone(b, k, IF snap[b][k][at[b][k]] = "processing" THEN "errored" ELSE ck[b][at[b][k]])

(* An item that was in flight when the process died is sent again. *)
MarkReplays(b, k) ==
    /\ pc[b][k] = "item"
    /\ snap[b][k][at[b][k]] \in {"none", "pending", "processing"}
    /\ status[b] # "deleted"
    /\ ck' = [ck EXCEPT ![b][at[b][k]] = "processing"]
    /\ pc' = [pc EXCEPT ![b][k] = "marked"]
    /\ UNCHANGED <<status, counted, files, writes, active, at, snap, done, poller, limits, ghosts>>

(* markBatchItemProcessing(), awaited before anything is sent. *)
Mark(b, k) ==
    /\ pc[b][k] = "item"
    /\ snap[b][k][at[b][k]] \in {"none", "pending"}
    /\ status[b] # "deleted"
    /\ ck' = [ck EXCEPT ![b][at[b][k]] = "processing"]
    /\ pc' = [pc EXCEPT ![b][k] = "marked"]
    /\ UNCHANGED <<status, counted, files, writes, active, at, snap, done, poller, limits, ghosts>>

(* processSingleItemWithRetry(): the attempts of one run count as one. *)
Send(b, k) ==
    /\ pc[b][k] = "marked"
    /\ sent' = [sent EXCEPT ![b][at[b][k]] = @ + 1]
    /\ pc' = [pc EXCEPT ![b][k] = "waiting"]
    /\ UNCHANGED <<stored, writes, active, at, snap, done, poller, limits, asked, erased, adrift>>

(* The provider's answer, or an exception, is recorded. *)
Record(b, k) ==
    /\ pc[b][k] = "waiting"
    /\ \E m \in {"completed", "errored"} : ItemDone(b, k, m)

(* The run is over: p.finally().  Its local variables are gone, and activeBatches
   forgets the batch, whichever run of it this was. *)
RunEnds(b, k) ==
    /\ pc' = [pc EXCEPT ![b][k] = "idle"]
    /\ active' = active \ {b}
    /\ at' = [at EXCEPT ![b][k] = 1]
    /\ snap' = [snap EXCEPT ![b][k] = NoMarks]
    /\ done' = [done EXCEPT ![b][k] = {}]
    /\ UNCHANGED <<stored, poller, limits, ghosts>>

(* finalizeBatch(): handleCancellation() decides on the row it reads ... *)
FinalCancelled(b, k) ==
    /\ pc[b][k] = "final"
    /\ status[b] \in {"cancelling", "cancelled", "deleted"}
    /\ Issue(b, IF status[b] = "cancelling" THEN {"cancelled"} ELSE {})
    /\ RunEnds(b, k)

Final(b, k) ==
    /\ pc[b][k] = "final"
    /\ status[b] \notin {"cancelling", "cancelled", "deleted"}
    /\ pc' = [pc EXCEPT ![b][k] = "finalize"]
    /\ UNCHANGED <<stored, writes, active, at, snap, done, poller, limits, ghosts>>

(* ... and the statuses that follow overwrite whatever is there by then. *)
MarkFinalizing(b, k) ==
    /\ pc[b][k] = "finalize"
    /\ pc' = [pc EXCEPT ![b][k] = "files"]
    /\ status' = [status EXCEPT ![b] = IF @ = "deleted" THEN @ ELSE "finalizing"]
    /\ UNCHANGED <<counted, ck, files, writes, active, at, snap, done, poller, limits, ghosts>>

(* completeBatch() ... *)
CompleteBatch(b, k) ==
    /\ pc[b][k] = "files"
    /\ status[b] # "deleted"
    /\ status' = [status EXCEPT ![b] = "completed"]
    /\ files' = [files EXCEPT ![b] = done[b][k]]
    /\ pc' = [pc EXCEPT ![b][k] = "report"]
    /\ UNCHANGED <<counted, ck, writes, active, at, snap, done, poller, limits, ghosts>>

(* ... reads the row once more, for its log line. *)
Report(b, k) ==
    /\ pc[b][k] = "report"
    /\ RunEnds(b, k)
    /\ UNCHANGED writes

(* A statement of the run is rejected, that last read included: failBatch(). *)
Throw(b, k) ==
    /\ pc[b][k] \notin {"idle", "marked"}
    /\ Issue(b, {"failed"})
    /\ RunEnds(b, k)

(* The process dies and comes back: what was not stored is gone. *)
Crash ==
    /\ crashes < MaxCrashes
    /\ crashes' = crashes + 1
    /\ writes' = [b \in Batches |-> [o \in Operations |-> 0]]
    /\ active' = {}
    /\ pc' = Idle("idle") /\ at' = Idle(1) /\ snap' = Idle(NoMarks) /\ done' = Idle({})
    /\ poll' = "idle"
    /\ rows' = [b \in Batches |-> "validating"]
    /\ todo' = {} /\ starting' = {} /\ slots' = 0
    /\ UNCHANGED <<stored, rejections, ghosts>>

Run(b, k) ==
    \/ Load(b, k) \/ Check(b, k) \/ Recovered(b, k) \/ Mark(b, k) \/ Send(b, k) \/ Record(b, k)
    \/ FinalCancelled(b, k) \/ Final(b, k) \/ MarkFinalizing(b, k) \/ CompleteBatch(b, k)
    \/ Report(b, k)

Poll ==
    \/ PollBegin \/ Scan \/ PollEnd
    \/ \E b \in Batches :
          \/ RecoverSkip(b) \/ Recover(b)
          \/ ScanCancel(b) \/ ScanValidating(b)
          \/ StartFailed(b) \/ \E k \in Copies : Start(b, k)

Next ==
    \/ Poll \/ PollFails \/ Crash
    \/ \E b \in Batches :
          \/ Land(b) \/ Cancel(b) \/ Delete(b)
          \/ \E o \in Operations : Lose(b, o)
          \/ \E k \in Copies : Run(b, k) \/ Throw(b, k)

Spec == Init /\ [][Next]_vars

(* The poll timer fires, each statement is executed or rejected some time, and a
   run takes its steps: dispatches end, since their retries are bounded. *)
FairSpec ==
    /\ Spec
    /\ WF_vars(Poll)
    /\ \A b \in Batches :
          /\ WF_vars(LandCheckpoints(b)) /\ WF_vars(LandPurge(b)) /\ WF_vars(LandDrop(b))
          /\ \A s \in Updates : WF_vars(LandStatus(b, s))
          /\ \A k \in Copies : WF_vars(Run(b, k) \/ Throw(b, k))

-----------------------------------------------------------------------------
(* Phase 2 does not look at activeBatches.  With one slot, the default, a running
   batch is still not started again, since it fills the slot; with more slots that
   takes a row that says what was decided about it. *)
Sound(b) == MaxConcurrent = 1 \/ b \notin adrift

Working(b) == \E k \in Copies : pc[b][k] # "idle"

(* "reset checkpointed batches to validating so they can be completed without
   replaying already-dispatched items": no item reaches a provider in two runs,
   wherever crashes, cancellations, deletions, late and rejected statements fall.
   With more than one slot this is of batches that are not adrift. *)
NeverReplayed == \A b \in Batches \ erased, i \in Items : Sound(b) => sent[b][i] <= 1

(* A batch is never started while an earlier run of it is at work, although the
   poll starts it because of what a row said when the poll read it, statements
   are late or lost, and phase 2 does not ask which batches run. *)
OneRun == \A b \in starting : Sound(b) => ~Working(b)

(* "Maximum number of batches processed concurrently" (BATCH_MAX_CONCURRENT). *)
LimitRespected ==
    (\A b \in Batches : Sound(b)) => Cardinality({b \in Batches : Working(b)}) <= MaxConcurrent

(* A batch nobody asked to cancel completes with an outcome of every item in its
   files, whichever runs the outcomes come from, and its checkpoints agree. *)
CompletedIsComplete ==
    \A b \in Batches :
        status[b] = "completed" /\ b \notin asked =>
            /\ files[b] = Items
            /\ b \notin erased /\ Sound(b) =>
                  \A i \in Items : ck[b][i] \in {"completed", "errored"}

(* Every accepted batch comes to an end, although crashes leave batches half done,
   cancellations are overwritten and statements are lost. *)
BatchEnds == \A b \in Batches : status[b] \in Pending ~> status[b] \notin Pending
=============================================================================
