------------------------ MODULE BatchProcessorProofs ------------------------
(***************************************************************************)
(* BatchProcessor for any set of batches, any number of items, any limit   *)
(* and any number of crashes, late and lost statements.                    *)
(***************************************************************************)
EXTENDS BatchProcessor, FiniteSetTheorems, TLAPS

Queued(b, o)  == writes[b][o] > 0
Running(b, k) == pc[b][k] # "idle"
Picked(b)     == poll = "scan" /\ b \in todo /\ rows[b] = "validating"
Startable(b)  == Picked(b) /\ slots < MaxConcurrent

(* Of a sound batch there is one run at a time, which activeBatches knows; and a run
   that is at an item is inside the file. *)
RunsOK ==
    /\ \A b \in Batches : Sound(b) =>
          /\ b \in active <=> Working(b)
          /\ \A k, l \in Copies : Running(b, k) /\ Running(b, l) => k = l
    /\ \A b \in Batches, k \in Copies :
          pc[b][k] \in {"item", "marked", "waiting"} => at[b][k] \in Items

(* What phase 1 and phase 2 of a poll may rely on although statements are late:
   nothing sound is being restarted, or can still be, that is running. *)
PollOK ==
    /\ starting # {} => poll = "scan"
    /\ starting \cap todo = {}
    /\ \A b, c \in starting : b = c
    /\ \A b \in Batches : Sound(b) /\ (b \in starting \/ Startable(b)) => ~Working(b)
    /\ \A b \in Batches \ adrift :
          /\ Picked(b) => ~Working(b)
          /\ poll = "recover" => ~Queued(b, "in_progress")
          /\ poll = "recover" /\ b \in todo =>
                status[b] # "validating" /\ ~Queued(b, "validating")
          /\ Working(b) /\ status[b] = "validating" => Queued(b, "in_progress")
          /\ Queued(b, "validating") =>
                /\ writes[b]["validating"] = 1
                /\ ~Working(b) /\ b \notin starting
                /\ status[b] # "validating"
                /\ ~Picked(b)

(* Only deleted batches lose their checkpoints. *)
ErasedOK ==
    \A b \in Batches :
        Queued(b, "purge") \/ Queued(b, "drop") \/ status[b] = "deleted" => b \in erased

Unsent == {"none", "pending"}

(* The items run k of b still has to look at. *)
Ahead(b, k, i) ==
    \/ pc[b][k] \in {"check", "item", "marked"} /\ i >= at[b][k]
    \/ pc[b][k] = "waiting" /\ i > at[b][k]

(* An item counts as not sent, in its checkpoint or in the copy of the run, only
   if it was not. *)
SentOK ==
    \A b \in Batches : b \notin erased /\ Sound(b) =>
        /\ \A i \in Items : sent[b][i] <= 1
        /\ \A i \in Items : ck[b][i] \in Unsent => sent[b][i] = 0
        /\ \A k \in Copies :
              /\ \A i \in Items : Ahead(b, k, i) /\ snap[b][k][i] \in Unsent => sent[b][i] = 0
              /\ pc[b][k] \in {"marked", "waiting"} => ck[b][at[b][k]] = "processing"
              /\ pc[b][k] = "marked" => snap[b][k][at[b][k]] \in Unsent

(* The runs and the batch about to start stay within the limit. *)
LimitOK ==
    /\ Cardinality(active) <= MaxConcurrent
    /\ poll = "scan" => /\ Cardinality(active) + Cardinality(starting) <= slots
                        /\ slots <= MaxConcurrent

(* Cancelled states come from somebody who asked. *)
AskedOK ==
    \A b \in Batches : b \notin asked =>
        /\ status[b] \notin {"cancelling", "cancelled"}
        /\ rows[b] # "cancelling"
        /\ ~Queued(b, "cancelling") /\ ~Queued(b, "cancelled")

(* The outcomes a run has gathered so far, and what it found in the checkpoints. *)
DoneAt(b, k) ==
    /\ done[b][k] = {i \in Items : i < at[b][k]}
    /\ pc[b][k] \in {"idle", "load"} => at[b][k] = 1
    /\ pc[b][k] \in {"final", "finalize", "files"} /\ b \notin asked /\ status[b] # "deleted" =>
          at[b][k] = NItems + 1
    /\ b \notin erased /\ Sound(b) /\ Running(b, k) =>
          \A i \in Items :
             /\ i < at[b][k] => ck[b][i] \in {"completed", "errored"}
             /\ (\/ pc[b][k] \in {"check", "item"} /\ i >= at[b][k]
                 \/ pc[b][k] \in {"marked", "waiting"} /\ i > at[b][k])
                /\ snap[b][k][i] \notin Unsent
                => ck[b][i] = snap[b][k][i]

DoneOK == \A b \in Batches, k \in Copies : DoneAt(b, k)

(* A completed batch is at rest and has everything. *)
CompleteOK ==
    /\ \A b \in Batches : Sound(b) /\ status[b] = "completed" =>
          /\ \A k \in Copies : pc[b][k] \in {"idle", "report"}
          /\ b \notin starting /\ ~Startable(b)
    /\ CompletedIsComplete

Inv == TypeOK /\ RunsOK /\ PollOK /\ ErasedOK /\ SentOK /\ LimitOK /\ AskedOK /\ DoneOK /\ CompleteOK
-----------------------------------------------------------------------------
(* Statements are counted up when they are issued ... *)
LEMMA Issued ==
    ASSUME TypeOK, NEW b \in Batches, NEW os \in SUBSET Operations, Issue(b, os)
    PROVE  /\ writes' \in [Batches -> [Operations -> Nat]]
           /\ \A c \in Batches, o \in Operations :
                 writes'[c][o] = IF c = b /\ o \in os THEN writes[c][o] + 1 ELSE writes[c][o]
BY DEF Issue, TypeOK

(* ... and down when they are over. *)
LEMMA Settled ==
    ASSUME TypeOK, NEW b \in Batches, NEW p \in Operations, Settle(b, p)
    PROVE  /\ writes' \in [Batches -> [Operations -> Nat]]
           /\ \A c \in Batches, o \in Operations :
                 writes'[c][o] = IF c = b /\ o = p THEN writes[c][o] - 1 ELSE writes[c][o]
           /\ writes[b][p] > 0
BY DEF Settle, TypeOK

(* A deletion goes on from the checkpoints to the row. *)
LEMMA Purged ==
    ASSUME TypeOK, NEW b \in Batches, LandPurge(b)
    PROVE  /\ writes' \in [Batches -> [Operations -> Nat]]
           /\ \A c \in Batches, o \in Operations :
                 writes'[c][o] = IF c = b /\ o = "purge" THEN writes[c][o] - 1
                                 ELSE IF c = b /\ o = "drop" THEN writes[c][o] + 1
                                 ELSE writes[c][o]
           /\ writes[b]["purge"] > 0
<1> DEFINE w == [writes[b] EXCEPT !["purge"] = @ - 1, !["drop"] = @ + 1]
<1>1. writes' = [writes EXCEPT ![b] = w] /\ writes[b]["purge"] > 0
  BY DEF LandPurge
<1>2. "purge" \in Operations /\ "drop" \in Operations /\ writes[b] \in [Operations -> Nat]
  BY DEF Operations, TypeOK
<1>3. /\ w \in [Operations -> Nat]
      /\ \A o \in Operations : w[o] = IF o = "purge" THEN writes[b][o] - 1
                                      ELSE IF o = "drop" THEN writes[b][o] + 1
                                      ELSE writes[b][o]
  BY <1>1, <1>2
<1> QED
  BY <1>1, <1>3 DEF TypeOK

(* A run begins before the first item and may end behind the last one. *)
LEMMA FirstItem ==
    /\ 1 \in 1 .. NItems + 1
    /\ \A i \in Items : i \in 1 .. NItems + 1 /\ i + 1 \in 1 .. NItems + 1
    /\ NoMarks \in [Items -> Marks]
BY ItemsAssumption DEF Items, NoMarks, Marks

(* Sets of batches are finite. *)
LEMMA FewBatches ==
    ASSUME NEW S \in SUBSET Batches
    PROVE  IsFiniteSet(S) /\ Cardinality(S) \in Nat
BY BatchesAssumption, FS_Subset, FS_CardinalityType

(* The outcome of an item is well-typed and moves the run to the next one. *)
LEMMA ItemDoneType ==
    ASSUME TypeOK, NEW b \in Batches, NEW k \in Copies, NEW m \in Marks,
           at[b][k] \in Items, ItemDone(b, k, m)
    PROVE  TypeOK'
<1>1. ck' \in [Batches -> [Items -> Marks]]
  BY DEF ItemDone, TypeOK, Marks
<1>2. at' \in [Batches -> [Copies -> 1 .. NItems + 1]]
  BY FirstItem DEF ItemDone, TypeOK
<1>3. pc' \in [Batches -> [Copies -> Pcs]] /\ done' \in [Batches -> [Copies -> SUBSET Items]]
  BY DEF ItemDone, TypeOK, Pcs
<1> QED
  BY <1>1, <1>2, <1>3 DEF ItemDone, TypeOK, runner, poller, limits, ghosts

(* So is the end of a run. *)
LEMMA RunEndsType ==
    ASSUME TypeOK, NEW b \in Batches, NEW k \in Copies, RunEnds(b, k),
           writes' \in [Batches -> [Operations -> Nat]]
    PROVE  TypeOK'
<1>1. /\ active' \in SUBSET Batches
      /\ pc' \in [Batches -> [Copies -> Pcs]]
      /\ at' \in [Batches -> [Copies -> 1 .. NItems + 1]]
  BY FirstItem DEF RunEnds, TypeOK, Pcs
<1>2. /\ snap' \in [Batches -> [Copies -> [Items -> Marks]]]
      /\ done' \in [Batches -> [Copies -> SUBSET Items]]
  BY FirstItem DEF RunEnds, TypeOK
<1> QED
  BY <1>1, <1>2 DEF RunEnds, TypeOK, stored, poller, limits, ghosts

(* Every step keeps the types. *)
LEMMA TypeStep ==
    ASSUME TypeOK, RunsOK, [Next]_vars
    PROVE  TypeOK'
<1>1. ASSUME NEW b \in Batches, LandCheckpoints(b) PROVE TypeOK'
  <2>1. writes' \in [Batches -> [Operations -> Nat]]
    BY <1>1, Settled DEF LandCheckpoints, Operations, Updates
  <2>2. ck' \in [Batches -> [Items -> Marks]]
    BY <1>1 DEF LandCheckpoints, TypeOK, Marks
  <2> QED
    BY <1>1, <2>1, <2>2 DEF LandCheckpoints, runner, poller, limits, ghosts, TypeOK
<1>2. ASSUME NEW b \in Batches, NEW s \in Updates, LandStatus(b, s) PROVE TypeOK'
  <2>1. writes' \in [Batches -> [Operations -> Nat]]
    BY <1>2, Settled DEF LandStatus, Operations, Updates
  <2>2. status' \in [Batches -> Statuses] /\ files' \in [Batches -> SUBSET Items]
    BY <1>2 DEF LandStatus, TypeOK, Statuses, Updates, Pending, Terminal
  <2>3. counted' \in [Batches -> BOOLEAN]
    <3>1. CASE status[b] = "deleted"
      BY <1>2, <3>1 DEF LandStatus, TypeOK
    <3>2. CASE status[b] # "deleted"
      <4> DEFINE v == counted[b] \/ (s = "in_progress" /\ NItems > 0)
      <4>1. v \in BOOLEAN
        OBVIOUS
      <4>2. counted' = [counted EXCEPT ![b] = v]
        BY <1>2, <3>2 DEF LandStatus
      <4> HIDE DEF v
      <4> QED
        BY <4>1, <4>2 DEF TypeOK
    <3> QED
      BY <3>1, <3>2
  <2> QED
    BY <1>2, <2>1, <2>2, <2>3 DEF LandStatus, runner, poller, limits, ghosts, TypeOK
<1>3. ASSUME NEW b \in Batches, LandPurge(b) PROVE TypeOK'
  <2>1. writes' \in [Batches -> [Operations -> Nat]]
    BY <1>3, Purged
  <2> QED
    BY <1>3, <2>1, FirstItem DEF LandPurge, runner, poller, limits, ghosts, TypeOK
<1>4. ASSUME NEW b \in Batches, LandDrop(b) PROVE TypeOK'
  <2>1. writes' \in [Batches -> [Operations -> Nat]]
    BY <1>4, Settled DEF LandDrop, Operations, Updates
  <2> QED
    BY <1>4, <2>1, FirstItem DEF LandDrop, runner, poller, limits, ghosts, TypeOK, Statuses
<1>5. ASSUME NEW b \in Batches, NEW o \in Operations, Lose(b, o) PROVE TypeOK'
  <2>1. writes' \in [Batches -> [Operations -> Nat]]
    BY <1>5, Settled DEF Lose
  <2>2. rejections' \in 0 .. MaxRejections
    BY <1>5, RejectionsAssumption DEF Lose, TypeOK
  <2> QED
    BY <1>5, <2>1, <2>2 DEF Lose, stored, runner, poller, TypeOK
<1>6. CASE PollBegin
  BY <1>6 DEF PollBegin, Undecided, stored, runner, poller, limits, ghosts, TypeOK,
         Pending, Terminal, Statuses, Marks, Updates, Operations, Pcs, Polls
<1>7. ASSUME NEW b \in Batches, RecoverSkip(b) PROVE TypeOK'
  <2>1. {} \in SUBSET Operations
    BY DEF Operations, Updates
  <2>2. writes' \in [Batches -> [Operations -> Nat]]
    BY <1>7, <2>1, Issued DEF RecoverSkip, Handled
  <2> QED
    BY <1>7, <2>2 DEF RecoverSkip, Handled, stored, runner, poller, limits, ghosts, TypeOK
<1>8. ASSUME NEW b \in Batches, Recover(b) PROVE TypeOK'
  <2>1. {IF Unreplayable(b) THEN "failed" ELSE "validating"} \in SUBSET Operations
    BY DEF Operations, Updates
  <2>2. writes' \in [Batches -> [Operations -> Nat]]
    BY <1>8, <2>1, Issued DEF Recover, Handled
  <2> QED
    BY <1>8, <2>2 DEF Recover, Handled, stored, runner, poller, limits, ghosts, TypeOK
<1>9. CASE Scan
  BY <1>9, FewBatches DEF Scan, stored, runner, poller, limits, ghosts, TypeOK, Polls
<1>10. ASSUME NEW b \in Batches, ScanCancel(b) PROVE TypeOK'
  <2>1. {"cancelled"} \in SUBSET Operations
    BY DEF Operations, Updates
  <2>2. writes' \in [Batches -> [Operations -> Nat]]
    BY <1>10, <2>1, Issued DEF ScanCancel, Handled
  <2> QED
    BY <1>10, <2>2 DEF ScanCancel, Handled, stored, runner, poller, limits, ghosts, TypeOK
<1>11. ASSUME NEW b \in Batches, ScanValidating(b) PROVE TypeOK'
  <2>1. {} \in SUBSET Operations
    BY DEF Operations, Updates
  <2>2. writes' \in [Batches -> [Operations -> Nat]]
    BY <1>11, <2>1, Issued DEF ScanValidating, Handled
  <2> QED
    BY <1>11, <2>2 DEF ScanValidating, Handled, stored, runner, poller, limits, ghosts, TypeOK
<1>12. ASSUME NEW b \in Batches, StartFailed(b) PROVE TypeOK'
  <2>1. {"failed"} \in SUBSET Operations
    BY DEF Operations, Updates
  <2>2. writes' \in [Batches -> [Operations -> Nat]]
    BY <1>12, <2>1, Issued DEF StartFailed
  <2> QED
    BY <1>12, <2>2 DEF StartFailed, stored, runner, poller, limits, ghosts, TypeOK
<1>13. ASSUME NEW b \in Batches, NEW k \in Copies, Start(b, k) PROVE TypeOK'
  <2>1. {"checkpoints", "in_progress"} \in SUBSET Operations
    BY DEF Operations, Updates
  <2>2. writes' \in [Batches -> [Operations -> Nat]]
    BY <1>13, <2>1, Issued DEF Start
  <2> QED
    BY <1>13, <2>2 DEF Start, Pcs, stored, runner, poller, limits, ghosts, TypeOK
<1>14. CASE PollEnd
  <2>1. writes' \in [Batches -> [Operations -> Nat]]
    BY <1>14 DEF PollEnd, TypeOK, Operations, Updates
  <2> QED
    BY <1>14, <2>1 DEF PollEnd, PollOver, stored, runner, poller, limits, ghosts, TypeOK, Polls,
       Statuses, Pending
<1>15. CASE PollFails
  <2>1. rejections' \in 0 .. MaxRejections
    BY <1>15, RejectionsAssumption DEF PollFails, TypeOK
  <2> QED
    BY <1>15, <2>1 DEF PollFails, PollOver, stored, runner, ghosts, TypeOK, Polls, Statuses, Pending
<1>16. ASSUME NEW b \in Batches, NEW k \in Copies, Load(b, k) PROVE TypeOK'
  BY <1>16 DEF Load, stored, runner, poller, limits, ghosts, TypeOK, Pending, Terminal,
         Statuses, Marks, Updates, Operations, Pcs, Polls
<1>17. ASSUME NEW b \in Batches, NEW k \in Copies, Check(b, k) PROVE TypeOK'
  BY <1>17 DEF Check, stored, runner, poller, limits, ghosts, TypeOK, Pending, Terminal,
         Statuses, Marks, Updates, Operations, Pcs, Polls
<1>18. ASSUME NEW b \in Batches, NEW k \in Copies, Recovered(b, k) PROVE TypeOK'
  <2>1. at[b][k] \in Items /\ ck[b][at[b][k]] \in Marks
    BY <1>18 DEF Recovered, RunsOK, TypeOK
  <2> QED
    BY <1>18, <2>1, ItemDoneType DEF Recovered, Marks
<1>19. ASSUME NEW b \in Batches, NEW k \in Copies, Mark(b, k) PROVE TypeOK'
  <2>1. at[b][k] \in Items
    BY <1>19 DEF Mark, RunsOK
  <2>2. ck' \in [Batches -> [Items -> Marks]]
    BY <1>19, <2>1 DEF Mark, TypeOK, Marks
  <2>3. pc' \in [Batches -> [Copies -> Pcs]]
    BY <1>19 DEF Mark, TypeOK, Pcs
  <2> QED
    BY <1>19, <2>2, <2>3 DEF Mark, runner, poller, limits, ghosts, TypeOK
<1>20. ASSUME NEW b \in Batches, NEW k \in Copies, Send(b, k) PROVE TypeOK'
  <2>1. at[b][k] \in Items
    BY <1>20 DEF Send, RunsOK
  <2>2. sent' \in [Batches -> [Items -> Nat]]
    BY <1>20, <2>1 DEF Send, TypeOK
  <2>3. pc' \in [Batches -> [Copies -> Pcs]]
    BY <1>20 DEF Send, TypeOK, Pcs
  <2> QED
    BY <1>20, <2>2, <2>3 DEF Send, stored, runner, poller, limits, TypeOK
<1>21. ASSUME NEW b \in Batches, NEW k \in Copies, Record(b, k) PROVE TypeOK'
  <2>1. at[b][k] \in Items
    BY <1>21 DEF Record, RunsOK, TypeOK
  <2> QED
    BY <1>21, <2>1, ItemDoneType DEF Record, Marks
<1>22. ASSUME NEW b \in Batches, NEW k \in Copies, FinalCancelled(b, k) PROVE TypeOK'
  <2>1. (IF status[b] = "cancelling" THEN {"cancelled"} ELSE {}) \in SUBSET Operations
    BY DEF Operations, Updates
  <2>2. writes' \in [Batches -> [Operations -> Nat]]
    BY <1>22, <2>1, Issued DEF FinalCancelled
  <2> QED
    BY <1>22, <2>2, RunEndsType DEF FinalCancelled
<1>23. ASSUME NEW b \in Batches, NEW k \in Copies, Final(b, k) PROVE TypeOK'
  BY <1>23 DEF Final, stored, runner, poller, limits, ghosts, TypeOK, Pending, Terminal,
         Statuses, Marks, Updates, Operations, Pcs, Polls
<1>24. ASSUME NEW b \in Batches, NEW k \in Copies, MarkFinalizing(b, k) PROVE TypeOK'
  BY <1>24 DEF MarkFinalizing, stored, runner, poller, limits, ghosts, TypeOK, Pending,
         Terminal, Statuses, Marks, Updates, Operations, Pcs, Polls
<1>25. ASSUME NEW b \in Batches, NEW k \in Copies, CompleteBatch(b, k) PROVE TypeOK'
  BY <1>25 DEF CompleteBatch, stored, runner, poller, limits, ghosts, TypeOK, Pending,
         Terminal, Statuses, Marks, Updates, Operations, Pcs, Polls
<1>26. ASSUME NEW b \in Batches, NEW k \in Copies, Report(b, k) PROVE TypeOK'
  <2>1. writes' \in [Batches -> [Operations -> Nat]]
    BY <1>26 DEF Report, TypeOK
  <2> QED
    BY <1>26, <2>1, RunEndsType DEF Report
<1>27. ASSUME NEW b \in Batches, NEW k \in Copies, Throw(b, k) PROVE TypeOK'
  <2>1. {"failed"} \in SUBSET Operations
    BY DEF Operations, Updates
  <2>2. writes' \in [Batches -> [Operations -> Nat]]
    BY <1>27, <2>1, Issued DEF Throw
  <2> QED
    BY <1>27, <2>2, RunEndsType DEF Throw
<1>28. ASSUME NEW b \in Batches, Cancel(b) PROVE TypeOK'
  <2>1. {"cancelling"} \in SUBSET Operations
    BY DEF Operations, Updates
  <2>2. writes' \in [Batches -> [Operations -> Nat]]
    BY <1>28, <2>1, Issued DEF Cancel
  <2> QED
    BY <1>28, <2>2 DEF Cancel, stored, runner, poller, limits, ghosts, TypeOK
<1>29. ASSUME NEW b \in Batches, Delete(b) PROVE TypeOK'
  <2>1. {"purge"} \in SUBSET Operations
    BY DEF Operations, Updates
  <2>2. writes' \in [Batches -> [Operations -> Nat]]
    BY <1>29, <2>1, Issued DEF Delete
  <2> QED
    BY <1>29, <2>2 DEF Delete, stored, runner, poller, limits, ghosts, TypeOK
<1>30. CASE Crash
  <2>1. /\ crashes' \in 0 .. MaxCrashes /\ slots' \in Nat
        /\ writes' \in [Batches -> [Operations -> Nat]]
    BY <1>30, CrashAssumption DEF Crash, TypeOK
  <2>2. /\ pc' \in [Batches -> [Copies -> Pcs]] /\ at' \in [Batches -> [Copies -> 1 .. NItems + 1]]
        /\ snap' \in [Batches -> [Copies -> [Items -> Marks]]]
        /\ done' \in [Batches -> [Copies -> SUBSET Items]]
    BY <1>30, FirstItem DEF Crash, Idle, Pcs
  <2> QED
    BY <1>30, <2>1, <2>2 DEF Crash, stored, ghosts, TypeOK, Polls, Statuses, Pending
<1>31. CASE UNCHANGED vars
  BY <1>31 DEF vars, stored, runner, poller, limits, ghosts, TypeOK, Pending, Terminal,
         Statuses, Marks, Updates, Operations, Pcs, Polls
<1> QED
  BY <1>1, <1>2, <1>3, <1>4, <1>5, <1>6, <1>7, <1>8, <1>9, <1>10, <1>11, <1>12, <1>13,
         <1>14, <1>15, <1>16, <1>17, <1>18, <1>19, <1>20, <1>21, <1>22, <1>23, <1>24,
         <1>25, <1>26, <1>27, <1>28, <1>29, <1>30, <1>31 DEF Next, Land, Poll, Run

(* Every step keeps track of who runs. *)
LEMMA RunsStep ==
    ASSUME TypeOK, RunsOK, PollOK, [Next]_vars
    PROVE  RunsOK'
<1>1. ASSUME NEW b \in Batches, LandCheckpoints(b) PROVE RunsOK'
  BY <1>1 DEF LandCheckpoints, Settle, stored, runner, poller, limits, ghosts, TypeOK,
         RunsOK, Running, Working, Sound
<1>2. ASSUME NEW b \in Batches, NEW s \in Updates, LandStatus(b, s) PROVE RunsOK'
  BY <1>2 DEF LandStatus, Settle, Updates, stored, runner, poller, limits, ghosts, TypeOK,
         RunsOK, Running, Working, Sound
<1>3. ASSUME NEW b \in Batches, LandPurge(b) PROVE RunsOK'
  BY <1>3 DEF LandPurge, stored, runner, poller, limits, ghosts, TypeOK, RunsOK, Running,
         Working, Sound
<1>4. ASSUME NEW b \in Batches, LandDrop(b) PROVE RunsOK'
  BY <1>4 DEF LandDrop, Settle, stored, runner, poller, limits, ghosts, TypeOK, RunsOK,
         Running, Working, Sound
<1>5. ASSUME NEW b \in Batches, NEW o \in Operations, Lose(b, o) PROVE RunsOK'
  BY <1>5 DEF Lose, Settle, stored, runner, poller, limits, ghosts, TypeOK, RunsOK,
         Running, Working, Sound
<1>6. CASE PollBegin
  BY <1>6 DEF PollBegin, Undecided, stored, runner, poller, limits, ghosts, TypeOK, RunsOK,
         Running, Working, Sound
<1>7. ASSUME NEW b \in Batches, RecoverSkip(b) PROVE RunsOK'
  BY <1>7 DEF RecoverSkip, Handled, Issue, stored, runner, poller, limits, ghosts, TypeOK,
         RunsOK, Running, Working, Sound
<1>8. ASSUME NEW b \in Batches, Recover(b) PROVE RunsOK'
  BY <1>8 DEF Recover, Handled, Issue, stored, runner, poller, limits, ghosts, TypeOK,
         RunsOK, Running, Working, Sound
<1>9. CASE Scan
  BY <1>9 DEF Scan, stored, runner, poller, limits, ghosts, TypeOK, RunsOK, Running,
         Working, Sound
<1>10. ASSUME NEW b \in Batches, ScanCancel(b) PROVE RunsOK'
  BY <1>10 DEF ScanCancel, Handled, Issue, stored, runner, poller, limits, ghosts, TypeOK,
         RunsOK, Running, Working, Sound
<1>11. ASSUME NEW b \in Batches, ScanValidating(b) PROVE RunsOK'
  BY <1>11 DEF ScanValidating, Handled, Issue, stored, runner, poller, limits, ghosts,
         TypeOK, RunsOK, Running, Working, Sound
<1>12. ASSUME NEW b \in Batches, StartFailed(b) PROVE RunsOK'
  <2>1. Sound(b) => b \notin active /\ ~Working(b)
    BY <1>12 DEF StartFailed, PollOK, RunsOK
  <2>2. \A c \in Batches : Sound(c) => (c \in active' <=> c \in active)
    BY <1>12, <2>1 DEF StartFailed
  <2>3. UNCHANGED <<pc, at, adrift>>
    BY <1>12 DEF StartFailed, ghosts
  <2> QED
    BY <2>2, <2>3 DEF RunsOK, Running, Working, Sound
<1>13. ASSUME NEW b \in Batches, NEW k \in Copies, Start(b, k) PROVE RunsOK'
  <2>1. Sound(b) => ~Working(b)
    BY <1>13 DEF Start, PollOK
  <2>2. /\ \A c \in Batches, l \in Copies :
              pc'[c][l] = IF c = b /\ l = k THEN "load" ELSE pc[c][l]
        /\ active' = active \cup {b} /\ UNCHANGED <<at, adrift>>
    BY <1>13 DEF Start, TypeOK, ghosts
  <2>3. ASSUME NEW c \in Batches, Sound(c)'
        PROVE  /\ c \in active' <=> Working(c)'
               /\ \A l, m \in Copies : Running(c, l)' /\ Running(c, m)' => l = m
    <3>1. Sound(c)
      BY <2>2, <2>3 DEF Sound
    <3>2. CASE c = b
      BY <2>1, <2>2, <3>1, <3>2 DEF Working, Running
    <3>3. CASE c # b
      <4>1. \A l \in Copies : pc'[c][l] = pc[c][l]
        BY <2>2, <3>3
      <4> QED
        BY <2>2, <3>1, <3>3, <4>1 DEF RunsOK, Working, Running
    <3> QED
      BY <3>2, <3>3
  <2>4. \A c \in Batches, l \in Copies :
            pc'[c][l] \in {"item", "marked", "waiting"} => at'[c][l] \in Items
    BY <2>2 DEF RunsOK
  <2> QED
    BY <2>3, <2>4 DEF RunsOK
<1>14. CASE PollEnd
  BY <1>14 DEF PollEnd, PollOver, stored, runner, poller, limits, ghosts, TypeOK, RunsOK,
         Running, Working, Sound
<1>15. CASE PollFails
  BY <1>15 DEF PollFails, PollOver, stored, runner, poller, limits, ghosts, TypeOK, RunsOK,
         Running, Working, Sound
<1>16. ASSUME NEW b \in Batches, NEW k \in Copies, Load(b, k) PROVE RunsOK'
  BY <1>16 DEF Load, stored, runner, poller, limits, ghosts, TypeOK, RunsOK, Running,
         Working, Sound
<1>17. ASSUME NEW b \in Batches, NEW k \in Copies, Check(b, k) PROVE RunsOK'
  <2>1. /\ \A c \in Batches, l \in Copies : c # b \/ l # k => pc'[c][l] = pc[c][l]
        /\ pc[b][k] # "idle" /\ pc'[b][k] \in {"final", "item"}
        /\ pc'[b][k] = "item" => ~(at[b][k] > NItems)
        /\ UNCHANGED <<at, active, adrift>>
    BY <1>17 DEF Check, TypeOK, ghosts
  <2>2. pc'[b][k] = "item" => at[b][k] \in Items
    BY <2>1, ItemsAssumption DEF TypeOK, Items
  <2>3. \A c \in Batches, l \in Copies : Running(c, l)' <=> Running(c, l)
    BY <2>1 DEF Running
  <2>4. \A c \in Batches : Working(c)' <=> Working(c)
    BY <2>3 DEF Running, Working
  <2>5. \A c \in Batches, l \in Copies :
            pc'[c][l] \in {"item", "marked", "waiting"} => at'[c][l] \in Items
    BY <2>1, <2>2 DEF RunsOK
  <2> QED
    BY <2>1, <2>3, <2>4, <2>5 DEF RunsOK, Sound
<1>18. ASSUME NEW b \in Batches, NEW k \in Copies, Recovered(b, k) PROVE RunsOK'
  BY <1>18 DEF Recovered, ItemDone, stored, runner, poller, limits, ghosts, TypeOK, RunsOK,
         Running, Working, Sound
<1>19. ASSUME NEW b \in Batches, NEW k \in Copies, Mark(b, k) PROVE RunsOK'
  BY <1>19 DEF Mark, stored, runner, poller, limits, ghosts, TypeOK, RunsOK, Running,
         Working, Sound
<1>20. ASSUME NEW b \in Batches, NEW k \in Copies, Send(b, k) PROVE RunsOK'
  BY <1>20 DEF Send, stored, runner, poller, limits, ghosts, TypeOK, RunsOK, Running,
         Working, Sound
<1>21. ASSUME NEW b \in Batches, NEW k \in Copies, Record(b, k) PROVE RunsOK'
  BY <1>21 DEF Record, ItemDone, stored, runner, poller, limits, ghosts, TypeOK, RunsOK,
         Running, Working, Sound
<1>22. ASSUME NEW b \in Batches, NEW k \in Copies, FinalCancelled(b, k) PROVE RunsOK'
  BY <1>22 DEF FinalCancelled, RunEnds, Issue, stored, runner, poller, limits, ghosts,
         TypeOK, RunsOK, Running, Working, Sound
<1>23. ASSUME NEW b \in Batches, NEW k \in Copies, Final(b, k) PROVE RunsOK'
  BY <1>23 DEF Final, stored, runner, poller, limits, ghosts, TypeOK, RunsOK, Running,
         Working, Sound
<1>24. ASSUME NEW b \in Batches, NEW k \in Copies, MarkFinalizing(b, k) PROVE RunsOK'
  BY <1>24 DEF MarkFinalizing, stored, runner, poller, limits, ghosts, TypeOK, RunsOK,
         Running, Working, Sound
<1>25. ASSUME NEW b \in Batches, NEW k \in Copies, CompleteBatch(b, k) PROVE RunsOK'
  BY <1>25 DEF CompleteBatch, stored, runner, poller, limits, ghosts, TypeOK, RunsOK,
         Running, Working, Sound
<1>26. ASSUME NEW b \in Batches, NEW k \in Copies, Report(b, k) PROVE RunsOK'
  BY <1>26 DEF Report, RunEnds, stored, runner, poller, limits, ghosts, TypeOK, RunsOK,
         Running, Working, Sound
<1>27. ASSUME NEW b \in Batches, NEW k \in Copies, Throw(b, k) PROVE RunsOK'
  BY <1>27 DEF Throw, RunEnds, Issue, stored, runner, poller, limits, ghosts, TypeOK,
         RunsOK, Running, Working, Sound
<1>28. ASSUME NEW b \in Batches, Cancel(b) PROVE RunsOK'
  BY <1>28 DEF Cancel, Issue, stored, runner, poller, limits, ghosts, TypeOK, RunsOK,
         Running, Working, Sound
<1>29. ASSUME NEW b \in Batches, Delete(b) PROVE RunsOK'
  BY <1>29 DEF Delete, Issue, stored, runner, poller, limits, ghosts, TypeOK, RunsOK,
         Running, Working, Sound
<1>30. CASE Crash
  BY <1>30 DEF Crash, Idle, stored, runner, poller, limits, ghosts, TypeOK, RunsOK,
         Running, Working, Sound
<1>31. CASE UNCHANGED vars
  BY <1>31 DEF vars, stored, runner, poller, limits, ghosts, TypeOK, RunsOK, Running,
         Working, Sound
<1> QED
  BY <1>1, <1>2, <1>3, <1>4, <1>5, <1>6, <1>7, <1>8, <1>9, <1>10, <1>11, <1>12, <1>13,
         <1>14, <1>15, <1>16, <1>17, <1>18, <1>19, <1>20, <1>21, <1>22, <1>23, <1>24,
         <1>25, <1>26, <1>27, <1>28, <1>29, <1>30, <1>31 DEF Next, Land, Poll, Run

(* Checkpoints and rows go only with a deletion. *)
LEMMA ErasedStep ==
    ASSUME TypeOK, ErasedOK, [Next]_vars
    PROVE  ErasedOK'
<1>1. ASSUME NEW b \in Batches, LandCheckpoints(b) PROVE ErasedOK'
  BY <1>1 DEF LandCheckpoints, Settle, stored, runner, poller, limits, ghosts, TypeOK,
         ErasedOK, Queued, Operations, Updates
<1>2. ASSUME NEW b \in Batches, NEW s \in Updates, LandStatus(b, s) PROVE ErasedOK'
  BY <1>2 DEF LandStatus, Settle, Updates, stored, runner, poller, limits, ghosts, TypeOK,
         ErasedOK, Queued, Operations
<1>3. ASSUME NEW b \in Batches, LandPurge(b) PROVE ErasedOK'
  BY <1>3 DEF LandPurge, stored, runner, poller, limits, ghosts, TypeOK, ErasedOK, Queued,
         Operations, Updates
<1>4. ASSUME NEW b \in Batches, LandDrop(b) PROVE ErasedOK'
  BY <1>4 DEF LandDrop, Settle, stored, runner, poller, limits, ghosts, TypeOK, ErasedOK,
         Queued, Operations, Updates
<1>5. ASSUME NEW b \in Batches, NEW o \in Operations, Lose(b, o) PROVE ErasedOK'
  BY <1>5 DEF Lose, Settle, stored, runner, poller, limits, ghosts, TypeOK, ErasedOK,
         Queued, Operations, Updates
<1>6. CASE PollBegin
  BY <1>6 DEF PollBegin, Undecided, stored, runner, poller, limits, ghosts, TypeOK,
         ErasedOK, Queued, Operations, Updates
<1>7. ASSUME NEW b \in Batches, RecoverSkip(b) PROVE ErasedOK'
  BY <1>7 DEF RecoverSkip, Handled, Issue, stored, runner, poller, limits, ghosts, TypeOK,
         ErasedOK, Queued, Operations, Updates
<1>8. ASSUME NEW b \in Batches, Recover(b) PROVE ErasedOK'
  BY <1>8 DEF Recover, Handled, Issue, stored, runner, poller, limits, ghosts, TypeOK,
         ErasedOK, Queued, Operations, Updates
<1>9. CASE Scan
  BY <1>9 DEF Scan, stored, runner, poller, limits, ghosts, TypeOK, ErasedOK, Queued,
         Operations, Updates
<1>10. ASSUME NEW b \in Batches, ScanCancel(b) PROVE ErasedOK'
  BY <1>10 DEF ScanCancel, Handled, Issue, stored, runner, poller, limits, ghosts, TypeOK,
         ErasedOK, Queued, Operations, Updates
<1>11. ASSUME NEW b \in Batches, ScanValidating(b) PROVE ErasedOK'
  BY <1>11 DEF ScanValidating, Handled, Issue, stored, runner, poller, limits, ghosts,
         TypeOK, ErasedOK, Queued, Operations, Updates
<1>12. ASSUME NEW b \in Batches, StartFailed(b) PROVE ErasedOK'
  BY <1>12 DEF StartFailed, Issue, stored, runner, poller, limits, ghosts, TypeOK,
         ErasedOK, Queued, Operations, Updates
<1>13. ASSUME NEW b \in Batches, NEW k \in Copies, Start(b, k) PROVE ErasedOK'
  BY <1>13 DEF Start, Issue, stored, runner, poller, limits, ghosts, TypeOK, ErasedOK,
         Queued, Operations, Updates
<1>14. CASE PollEnd
  BY <1>14 DEF PollEnd, PollOver, stored, runner, poller, limits, ghosts, TypeOK, ErasedOK,
         Queued, Operations, Updates
<1>15. CASE PollFails
  BY <1>15 DEF PollFails, PollOver, stored, runner, poller, limits, ghosts, TypeOK,
         ErasedOK, Queued, Operations, Updates
<1>16. ASSUME NEW b \in Batches, NEW k \in Copies, Load(b, k) PROVE ErasedOK'
  BY <1>16 DEF Load, stored, runner, poller, limits, ghosts, TypeOK, ErasedOK, Queued,
         Operations, Updates
<1>17. ASSUME NEW b \in Batches, NEW k \in Copies, Check(b, k) PROVE ErasedOK'
  BY <1>17 DEF Check, stored, runner, poller, limits, ghosts, TypeOK, ErasedOK, Queued,
         Operations, Updates
<1>18. ASSUME NEW b \in Batches, NEW k \in Copies, Recovered(b, k) PROVE ErasedOK'
  BY <1>18 DEF Recovered, ItemDone, stored, runner, poller, limits, ghosts, TypeOK,
         ErasedOK, Queued, Operations, Updates
<1>19. ASSUME NEW b \in Batches, NEW k \in Copies, Mark(b, k) PROVE ErasedOK'
  BY <1>19 DEF Mark, stored, runner, poller, limits, ghosts, TypeOK, ErasedOK, Queued,
         Operations, Updates
<1>20. ASSUME NEW b \in Batches, NEW k \in Copies, Send(b, k) PROVE ErasedOK'
  BY <1>20 DEF Send, stored, runner, poller, limits, ghosts, TypeOK, ErasedOK, Queued,
         Operations, Updates
<1>21. ASSUME NEW b \in Batches, NEW k \in Copies, Record(b, k) PROVE ErasedOK'
  BY <1>21 DEF Record, ItemDone, stored, runner, poller, limits, ghosts, TypeOK, ErasedOK,
         Queued, Operations, Updates
<1>22. ASSUME NEW b \in Batches, NEW k \in Copies, FinalCancelled(b, k) PROVE ErasedOK'
  BY <1>22 DEF FinalCancelled, RunEnds, Issue, stored, runner, poller, limits, ghosts,
         TypeOK, ErasedOK, Queued, Operations, Updates
<1>23. ASSUME NEW b \in Batches, NEW k \in Copies, Final(b, k) PROVE ErasedOK'
  BY <1>23 DEF Final, stored, runner, poller, limits, ghosts, TypeOK, ErasedOK, Queued,
         Operations, Updates
<1>24. ASSUME NEW b \in Batches, NEW k \in Copies, MarkFinalizing(b, k) PROVE ErasedOK'
  BY <1>24 DEF MarkFinalizing, stored, runner, poller, limits, ghosts, TypeOK, ErasedOK,
         Queued, Operations, Updates
<1>25. ASSUME NEW b \in Batches, NEW k \in Copies, CompleteBatch(b, k) PROVE ErasedOK'
  BY <1>25 DEF CompleteBatch, stored, runner, poller, limits, ghosts, TypeOK, ErasedOK,
         Queued, Operations, Updates
<1>26. ASSUME NEW b \in Batches, NEW k \in Copies, Report(b, k) PROVE ErasedOK'
  BY <1>26 DEF Report, RunEnds, stored, runner, poller, limits, ghosts, TypeOK, ErasedOK,
         Queued, Operations, Updates
<1>27. ASSUME NEW b \in Batches, NEW k \in Copies, Throw(b, k) PROVE ErasedOK'
  BY <1>27 DEF Throw, RunEnds, Issue, stored, runner, poller, limits, ghosts, TypeOK,
         ErasedOK, Queued, Operations, Updates
<1>28. ASSUME NEW b \in Batches, Cancel(b) PROVE ErasedOK'
  BY <1>28 DEF Cancel, Issue, stored, runner, poller, limits, ghosts, TypeOK, ErasedOK,
         Queued, Operations, Updates
<1>29. ASSUME NEW b \in Batches, Delete(b) PROVE ErasedOK'
  BY <1>29 DEF Delete, Issue, stored, runner, poller, limits, ghosts, TypeOK, ErasedOK,
         Queued, Operations, Updates
<1>30. CASE Crash
  BY <1>30 DEF Crash, Idle, stored, runner, poller, limits, ghosts, TypeOK, ErasedOK,
         Queued, Operations, Updates
<1>31. CASE UNCHANGED vars
  BY <1>31 DEF vars, stored, runner, poller, limits, ghosts, TypeOK, ErasedOK, Queued,
         Operations, Updates
<1> QED
  BY <1>1, <1>2, <1>3, <1>4, <1>5, <1>6, <1>7, <1>8, <1>9, <1>10, <1>11, <1>12, <1>13,
         <1>14, <1>15, <1>16, <1>17, <1>18, <1>19, <1>20, <1>21, <1>22, <1>23, <1>24,
         <1>25, <1>26, <1>27, <1>28, <1>29, <1>30, <1>31 DEF Next, Land, Poll, Run

(* Nobody is cancelled who did not ask. *)
LEMMA AskedStep ==
    ASSUME TypeOK, AskedOK, [Next]_vars
    PROVE  AskedOK'
<1>1. ASSUME NEW b \in Batches, LandCheckpoints(b) PROVE AskedOK'
  BY <1>1 DEF LandCheckpoints, Settle, stored, runner, poller, limits, ghosts, TypeOK,
         AskedOK, Queued, Operations, Updates
<1>2. ASSUME NEW b \in Batches, NEW s \in Updates, LandStatus(b, s) PROVE AskedOK'
  BY <1>2 DEF LandStatus, Settle, Updates, stored, runner, poller, limits, ghosts, TypeOK,
         AskedOK, Queued, Operations
<1>3. ASSUME NEW b \in Batches, LandPurge(b) PROVE AskedOK'
  <2>1. /\ \A c \in Batches, o \in Operations \ {"purge", "drop"} : Queued(c, o)' <=> Queued(c, o)
        /\ UNCHANGED <<status, rows, asked>>
    BY <1>3, Purged DEF LandPurge, Queued, poller, ghosts
  <2> QED
    BY <2>1 DEF AskedOK, Operations, Updates
<1>4. ASSUME NEW b \in Batches, LandDrop(b) PROVE AskedOK'
  BY <1>4 DEF LandDrop, Settle, stored, runner, poller, limits, ghosts, TypeOK, AskedOK,
         Queued, Operations, Updates
<1>5. ASSUME NEW b \in Batches, NEW o \in Operations, Lose(b, o) PROVE AskedOK'
  BY <1>5 DEF Lose, Settle, stored, runner, poller, limits, ghosts, TypeOK, AskedOK,
         Queued, Operations, Updates
<1>6. CASE PollBegin
  BY <1>6 DEF PollBegin, Undecided, stored, runner, poller, limits, ghosts, TypeOK,
         AskedOK, Queued, Operations, Updates
<1>7. ASSUME NEW b \in Batches, RecoverSkip(b) PROVE AskedOK'
  BY <1>7 DEF RecoverSkip, Handled, Issue, stored, runner, poller, limits, ghosts, TypeOK,
         AskedOK, Queued, Operations, Updates
<1>8. ASSUME NEW b \in Batches, Recover(b) PROVE AskedOK'
  BY <1>8 DEF Recover, Handled, Issue, stored, runner, poller, limits, ghosts, TypeOK,
         AskedOK, Queued, Operations, Updates
<1>9. CASE Scan
  BY <1>9 DEF Scan, stored, runner, poller, limits, ghosts, TypeOK, AskedOK, Queued,
         Operations, Updates
<1>10. ASSUME NEW b \in Batches, ScanCancel(b) PROVE AskedOK'
  BY <1>10 DEF ScanCancel, Handled, Issue, stored, runner, poller, limits, ghosts, TypeOK,
         AskedOK, Queued, Operations, Updates
<1>11. ASSUME NEW b \in Batches, ScanValidating(b) PROVE AskedOK'
  BY <1>11 DEF ScanValidating, Handled, Issue, stored, runner, poller, limits, ghosts,
         TypeOK, AskedOK, Queued, Operations, Updates
<1>12. ASSUME NEW b \in Batches, StartFailed(b) PROVE AskedOK'
  BY <1>12 DEF StartFailed, Issue, stored, runner, poller, limits, ghosts, TypeOK, AskedOK,
         Queued, Operations, Updates
<1>13. ASSUME NEW b \in Batches, NEW k \in Copies, Start(b, k) PROVE AskedOK'
  BY <1>13 DEF Start, Issue, stored, runner, poller, limits, ghosts, TypeOK, AskedOK,
         Queued, Operations, Updates
<1>14. CASE PollEnd
  BY <1>14 DEF PollEnd, PollOver, stored, runner, poller, limits, ghosts, TypeOK, AskedOK,
         Queued, Operations, Updates
<1>15. CASE PollFails
  BY <1>15 DEF PollFails, PollOver, stored, runner, poller, limits, ghosts, TypeOK,
         AskedOK, Queued, Operations, Updates
<1>16. ASSUME NEW b \in Batches, NEW k \in Copies, Load(b, k) PROVE AskedOK'
  BY <1>16 DEF Load, stored, runner, poller, limits, ghosts, TypeOK, AskedOK, Queued,
         Operations, Updates
<1>17. ASSUME NEW b \in Batches, NEW k \in Copies, Check(b, k) PROVE AskedOK'
  BY <1>17 DEF Check, stored, runner, poller, limits, ghosts, TypeOK, AskedOK, Queued,
         Operations, Updates
<1>18. ASSUME NEW b \in Batches, NEW k \in Copies, Recovered(b, k) PROVE AskedOK'
  BY <1>18 DEF Recovered, ItemDone, stored, runner, poller, limits, ghosts, TypeOK,
         AskedOK, Queued, Operations, Updates
<1>19. ASSUME NEW b \in Batches, NEW k \in Copies, Mark(b, k) PROVE AskedOK'
  BY <1>19 DEF Mark, stored, runner, poller, limits, ghosts, TypeOK, AskedOK, Queued,
         Operations, Updates
<1>20. ASSUME NEW b \in Batches, NEW k \in Copies, Send(b, k) PROVE AskedOK'
  BY <1>20 DEF Send, stored, runner, poller, limits, ghosts, TypeOK, AskedOK, Queued,
         Operations, Updates
<1>21. ASSUME NEW b \in Batches, NEW k \in Copies, Record(b, k) PROVE AskedOK'
  BY <1>21 DEF Record, ItemDone, stored, runner, poller, limits, ghosts, TypeOK, AskedOK,
         Queued, Operations, Updates
<1>22. ASSUME NEW b \in Batches, NEW k \in Copies, FinalCancelled(b, k) PROVE AskedOK'
  BY <1>22 DEF FinalCancelled, RunEnds, Issue, stored, runner, poller, limits, ghosts,
         TypeOK, AskedOK, Queued, Operations, Updates
<1>23. ASSUME NEW b \in Batches, NEW k \in Copies, Final(b, k) PROVE AskedOK'
  BY <1>23 DEF Final, stored, runner, poller, limits, ghosts, TypeOK, AskedOK, Queued,
         Operations, Updates
<1>24. ASSUME NEW b \in Batches, NEW k \in Copies, MarkFinalizing(b, k) PROVE AskedOK'
  BY <1>24 DEF MarkFinalizing, stored, runner, poller, limits, ghosts, TypeOK, AskedOK,
         Queued, Operations, Updates
<1>25. ASSUME NEW b \in Batches, NEW k \in Copies, CompleteBatch(b, k) PROVE AskedOK'
  BY <1>25 DEF CompleteBatch, stored, runner, poller, limits, ghosts, TypeOK, AskedOK,
         Queued, Operations, Updates
<1>26. ASSUME NEW b \in Batches, NEW k \in Copies, Report(b, k) PROVE AskedOK'
  BY <1>26 DEF Report, RunEnds, stored, runner, poller, limits, ghosts, TypeOK, AskedOK,
         Queued, Operations, Updates
<1>27. ASSUME NEW b \in Batches, NEW k \in Copies, Throw(b, k) PROVE AskedOK'
  BY <1>27 DEF Throw, RunEnds, Issue, stored, runner, poller, limits, ghosts, TypeOK,
         AskedOK, Queued, Operations, Updates
<1>28. ASSUME NEW b \in Batches, Cancel(b) PROVE AskedOK'
  BY <1>28 DEF Cancel, Issue, stored, runner, poller, limits, ghosts, TypeOK, AskedOK,
         Queued, Operations, Updates
<1>29. ASSUME NEW b \in Batches, Delete(b) PROVE AskedOK'
  BY <1>29 DEF Delete, Issue, stored, runner, poller, limits, ghosts, TypeOK, AskedOK,
         Queued, Operations, Updates
<1>30. CASE Crash
  BY <1>30 DEF Crash, Idle, stored, runner, poller, limits, ghosts, TypeOK, AskedOK,
         Queued, Operations, Updates
<1>31. CASE UNCHANGED vars
  BY <1>31 DEF vars, stored, runner, poller, limits, ghosts, TypeOK, AskedOK, Queued,
         Operations, Updates
<1> QED
  BY <1>1, <1>2, <1>3, <1>4, <1>5, <1>6, <1>7, <1>8, <1>9, <1>10, <1>11, <1>12, <1>13,
         <1>14, <1>15, <1>16, <1>17, <1>18, <1>19, <1>20, <1>21, <1>22, <1>23, <1>24,
         <1>25, <1>26, <1>27, <1>28, <1>29, <1>30, <1>31 DEF Next, Land, Poll, Run

(* No step lets a poll restart what is running. *)
LEMMA PollStep ==
    ASSUME TypeOK, RunsOK, PollOK, [Next]_vars
    PROVE  PollOK'
<1>1. ASSUME NEW b \in Batches, LandCheckpoints(b) PROVE PollOK'
  BY <1>1 DEF LandCheckpoints, Settle, stored, runner, poller, limits, ghosts, TypeOK,
         RunsOK, PollOK, Running, Working, Startable, Picked, Queued, Sound, Operations,
         Updates
<1>2. ASSUME NEW b \in Batches, NEW s \in Updates, LandStatus(b, s) PROVE PollOK'
  BY <1>2 DEF LandStatus, Settle, Updates, stored, runner, poller, limits, ghosts, TypeOK,
         RunsOK, PollOK, Running, Working, Startable, Picked, Queued, Sound, Operations
<1>3. ASSUME NEW b \in Batches, LandPurge(b) PROVE PollOK'
  <2>1. /\ \A c \in Batches : writes'[c]["in_progress"] = writes[c]["in_progress"]
                             /\ writes'[c]["validating"] = writes[c]["validating"]
    BY <1>3, Purged DEF Operations, Updates
  <2>3. UNCHANGED <<status, runner, poller, adrift>>
    BY <1>3 DEF LandPurge, ghosts
  <2>2. UNCHANGED <<pc, poll, rows, todo, starting, slots>>
    BY <2>3 DEF runner, poller
  <2> QED
    BY <2>1, <2>2, <2>3 DEF PollOK, Queued, Startable, Picked, Working, Sound
<1>4. ASSUME NEW b \in Batches, LandDrop(b) PROVE PollOK'
  BY <1>4 DEF LandDrop, Settle, stored, runner, poller, limits, ghosts, TypeOK, RunsOK,
         PollOK, Running, Working, Startable, Picked, Queued, Sound, Operations, Updates
<1>5. ASSUME NEW b \in Batches, NEW o \in Operations, Lose(b, o) PROVE PollOK'
  BY <1>5 DEF Lose, Settle, stored, runner, poller, limits, ghosts, TypeOK, RunsOK, PollOK,
         Running, Working, Startable, Picked, Queued, Sound, Operations, Updates
<1>6. CASE PollBegin
  BY <1>6 DEF PollBegin, Undecided, stored, runner, poller, limits, ghosts, TypeOK, RunsOK,
         PollOK, Running, Working, Startable, Picked, Queued, Sound, Operations, Updates
<1>7. ASSUME NEW b \in Batches, RecoverSkip(b) PROVE PollOK'
  BY <1>7 DEF RecoverSkip, Handled, Issue, stored, runner, poller, limits, ghosts, TypeOK,
         RunsOK, PollOK, Running, Working, Startable, Picked, Queued, Sound, Operations,
         Updates
<1>8. ASSUME NEW b \in Batches, Recover(b) PROVE PollOK'
  BY <1>8 DEF Recover, Handled, Issue, stored, runner, poller, limits, ghosts, TypeOK,
         RunsOK, PollOK, Running, Working, Startable, Picked, Queued, Sound, Operations,
         Updates
<1>9. CASE Scan
  <2>1. /\ poll = "recover" /\ poll' = "scan" /\ rows' = status /\ starting' = starting
        /\ todo' \subseteq {b \in Batches : status[b] \in {"validating", "cancelling"}}
        /\ slots' = Cardinality(active)
        /\ UNCHANGED <<writes, status, pc, active, adrift>>
    BY <1>9 DEF Scan, stored, runner, ghosts
  <2>2. starting = {}
    BY <2>1 DEF PollOK
  <2>3. \A b \in Batches \ adrift : Picked(b)' => ~Working(b) /\ ~Queued(b, "validating")
    BY <2>1 DEF PollOK, Picked
  <2>4. ASSUME NEW b \in Batches, Sound(b), Startable(b)' PROVE ~Working(b)
    <3>1. CASE b \notin adrift
      BY <2>3, <2>4, <3>1 DEF Startable
    <3>2. CASE MaxConcurrent = 1
      <4>1. IsFiniteSet(active) /\ Cardinality(active) \in Nat /\ Cardinality(active) < 1
        BY <2>1, <2>4, <3>2, FewBatches DEF Startable, TypeOK
      <4>2. active = {}
        BY <4>1, FS_EmptySet
      <4> QED
        BY <2>4, <4>2 DEF RunsOK
    <3> QED
      BY <2>4, <3>1, <3>2 DEF Sound
  <2> QED
    BY <2>1, <2>2, <2>3, <2>4 DEF PollOK, Sound, Working, Queued
<1>10. ASSUME NEW b \in Batches, ScanCancel(b) PROVE PollOK'
  BY <1>10 DEF ScanCancel, Handled, Issue, stored, runner, poller, limits, ghosts, TypeOK,
         RunsOK, PollOK, Running, Working, Startable, Picked, Queued, Sound, Operations,
         Updates
<1>11. ASSUME NEW b \in Batches, ScanValidating(b) PROVE PollOK'
  BY <1>11 DEF ScanValidating, Handled, Issue, stored, runner, poller, limits, ghosts,
         TypeOK, RunsOK, PollOK, Running, Working, Startable, Picked, Queued, Sound,
         Operations, Updates
<1>12. ASSUME NEW b \in Batches, StartFailed(b) PROVE PollOK'
  BY <1>12 DEF StartFailed, Issue, stored, runner, poller, limits, ghosts, TypeOK, RunsOK,
         PollOK, Running, Working, Startable, Picked, Queued, Sound, Operations, Updates
<1>13. ASSUME NEW b \in Batches, NEW k \in Copies, Start(b, k) PROVE PollOK'
  BY <1>13 DEF Start, Issue, stored, runner, poller, limits, ghosts, TypeOK, RunsOK,
         PollOK, Running, Working, Startable, Picked, Queued, Sound, Operations, Updates
<1>14. CASE PollEnd
  BY <1>14 DEF PollEnd, PollOver, stored, runner, poller, limits, ghosts, TypeOK, RunsOK,
         PollOK, Running, Working, Startable, Picked, Queued, Sound, Operations, Updates
<1>15. CASE PollFails
  BY <1>15 DEF PollFails, PollOver, stored, runner, poller, limits, ghosts, TypeOK, RunsOK,
         PollOK, Running, Working, Startable, Picked, Queued, Sound, Operations, Updates
<1>16. ASSUME NEW b \in Batches, NEW k \in Copies, Load(b, k) PROVE PollOK'
  BY <1>16 DEF Load, stored, runner, poller, limits, ghosts, TypeOK, RunsOK, PollOK,
         Running, Working, Startable, Picked, Queued, Sound, Operations, Updates
<1>17. ASSUME NEW b \in Batches, NEW k \in Copies, Check(b, k) PROVE PollOK'
  BY <1>17 DEF Check, stored, runner, poller, limits, ghosts, TypeOK, RunsOK, PollOK,
         Running, Working, Startable, Picked, Queued, Sound, Operations, Updates
<1>18. ASSUME NEW b \in Batches, NEW k \in Copies, Recovered(b, k) PROVE PollOK'
  BY <1>18 DEF Recovered, ItemDone, stored, runner, poller, limits, ghosts, TypeOK, RunsOK,
         PollOK, Running, Working, Startable, Picked, Queued, Sound, Operations, Updates
<1>19. ASSUME NEW b \in Batches, NEW k \in Copies, Mark(b, k) PROVE PollOK'
  BY <1>19 DEF Mark, stored, runner, poller, limits, ghosts, TypeOK, RunsOK, PollOK,
         Running, Working, Startable, Picked, Queued, Sound, Operations, Updates
<1>20. ASSUME NEW b \in Batches, NEW k \in Copies, Send(b, k) PROVE PollOK'
  BY <1>20 DEF Send, stored, runner, poller, limits, ghosts, TypeOK, RunsOK, PollOK,
         Running, Working, Startable, Picked, Queued, Sound, Operations, Updates
<1>21. ASSUME NEW b \in Batches, NEW k \in Copies, Record(b, k) PROVE PollOK'
  BY <1>21 DEF Record, ItemDone, stored, runner, poller, limits, ghosts, TypeOK, RunsOK,
         PollOK, Running, Working, Startable, Picked, Queued, Sound, Operations, Updates
<1>22. ASSUME NEW b \in Batches, NEW k \in Copies, FinalCancelled(b, k) PROVE PollOK'
  BY <1>22 DEF FinalCancelled, RunEnds, Issue, stored, runner, poller, limits, ghosts,
         TypeOK, RunsOK, PollOK, Running, Working, Startable, Picked, Queued, Sound,
         Operations, Updates
<1>23. ASSUME NEW b \in Batches, NEW k \in Copies, Final(b, k) PROVE PollOK'
  BY <1>23 DEF Final, stored, runner, poller, limits, ghosts, TypeOK, RunsOK, PollOK,
         Running, Working, Startable, Picked, Queued, Sound, Operations, Updates
<1>24. ASSUME NEW b \in Batches, NEW k \in Copies, MarkFinalizing(b, k) PROVE PollOK'
  BY <1>24 DEF MarkFinalizing, stored, runner, poller, limits, ghosts, TypeOK, RunsOK,
         PollOK, Running, Working, Startable, Picked, Queued, Sound, Operations, Updates
<1>25. ASSUME NEW b \in Batches, NEW k \in Copies, CompleteBatch(b, k) PROVE PollOK'
  BY <1>25 DEF CompleteBatch, stored, runner, poller, limits, ghosts, TypeOK, RunsOK,
         PollOK, Running, Working, Startable, Picked, Queued, Sound, Operations, Updates
<1>26. ASSUME NEW b \in Batches, NEW k \in Copies, Report(b, k) PROVE PollOK'
  BY <1>26 DEF Report, RunEnds, stored, runner, poller, limits, ghosts, TypeOK, RunsOK,
         PollOK, Running, Working, Startable, Picked, Queued, Sound, Operations, Updates
<1>27. ASSUME NEW b \in Batches, NEW k \in Copies, Throw(b, k) PROVE PollOK'
  BY <1>27 DEF Throw, RunEnds, Issue, stored, runner, poller, limits, ghosts, TypeOK,
         RunsOK, PollOK, Running, Working, Startable, Picked, Queued, Sound, Operations,
         Updates
<1>28. ASSUME NEW b \in Batches, Cancel(b) PROVE PollOK'
  BY <1>28 DEF Cancel, Issue, stored, runner, poller, limits, ghosts, TypeOK, RunsOK,
         PollOK, Running, Working, Startable, Picked, Queued, Sound, Operations, Updates
<1>29. ASSUME NEW b \in Batches, Delete(b) PROVE PollOK'
  BY <1>29 DEF Delete, Issue, stored, runner, poller, limits, ghosts, TypeOK, RunsOK,
         PollOK, Running, Working, Startable, Picked, Queued, Sound, Operations, Updates
<1>30. CASE Crash
  BY <1>30 DEF Crash, Idle, stored, runner, poller, limits, ghosts, TypeOK, RunsOK, PollOK,
         Running, Working, Startable, Picked, Queued, Sound, Operations, Updates
<1>31. CASE UNCHANGED vars
  BY <1>31 DEF vars, stored, runner, poller, limits, ghosts, TypeOK, RunsOK, PollOK,
         Running, Working, Startable, Picked, Queued, Sound, Operations, Updates
<1> QED
  BY <1>1, <1>2, <1>3, <1>4, <1>5, <1>6, <1>7, <1>8, <1>9, <1>10, <1>11, <1>12, <1>13,
         <1>14, <1>15, <1>16, <1>17, <1>18, <1>19, <1>20, <1>21, <1>22, <1>23, <1>24,
         <1>25, <1>26, <1>27, <1>28, <1>29, <1>30, <1>31 DEF Next, Land, Poll, Run

(* An item that got an outcome does not look unsent if it did not before. *)
LEMMA ItemDoneSent ==
    ASSUME TypeOK, RunsOK, SentOK, NEW b \in Batches, NEW k \in Copies, NEW m, ItemDone(b, k, m),
           pc[b][k] \in {"item", "waiting"},
           ck'[b][at[b][k]] \in Unsent => ck[b][at[b][k]] \in Unsent
    PROVE  SentOK'
<1> DEFINE n == at[b][k]
<1>1. n \in Items /\ n \in Int /\ Running(b, k)
  BY ItemsAssumption DEF RunsOK, Items, Running
<1>2. /\ at'[b][k] = n + 1 /\ pc'[b][k] = "check"
      /\ snap' = snap /\ sent' = sent /\ erased' = erased /\ adrift' = adrift
      /\ \A c \in Batches, i \in Items : c # b \/ i # n => ck'[c][i] = ck[c][i]
      /\ \A c \in Batches, l \in Copies : c # b \/ l # k => at'[c][l] = at[c][l] /\ pc'[c][l] = pc[c][l]
  BY <1>1 DEF ItemDone, TypeOK, ghosts
<1> HIDE DEF n
<1>3. SUFFICES ASSUME NEW c \in Batches, c \notin erased, Sound(c)
               PROVE  /\ \A i \in Items : sent[c][i] <= 1
                      /\ \A i \in Items : ck'[c][i] \in Unsent => sent[c][i] = 0
                      /\ \A l \in Copies :
                            /\ \A i \in Items : Ahead(c, l, i)' /\ snap[c][l][i] \in Unsent => sent[c][i] = 0
                            /\ pc'[c][l] \in {"marked", "waiting"} => ck'[c][at'[c][l]] = "processing"
                            /\ pc'[c][l] = "marked" => snap[c][l][at'[c][l]] \in Unsent
  BY <1>2 DEF SentOK, Sound
<1>4. /\ \A i \in Items : sent[c][i] <= 1
      /\ \A i \in Items : ck'[c][i] \in Unsent => sent[c][i] = 0
  BY <1>1, <1>2, <1>3 DEF SentOK, n
<1>5. ASSUME NEW l \in Copies
      PROVE  /\ \A i \in Items : Ahead(c, l, i)' /\ snap[c][l][i] \in Unsent => sent[c][i] = 0
             /\ pc'[c][l] \in {"marked", "waiting"} => ck'[c][at'[c][l]] = "processing"
             /\ pc'[c][l] = "marked" => snap[c][l][at'[c][l]] \in Unsent
  <2>1. CASE c = b /\ l = k
    <3>1. ASSUME NEW i \in Items, Ahead(c, l, i)', snap[c][l][i] \in Unsent PROVE sent[c][i] = 0
      <4>1. i > n /\ i >= n
        BY <1>1, <1>2, <2>1, <3>1, ItemsAssumption DEF Ahead, Items
      <4>2. Ahead(c, l, i)
        BY <2>1, <4>1 DEF Ahead, n
      <4> QED
        BY <1>3, <3>1, <4>2 DEF SentOK
    <3> QED
      BY <1>2, <2>1, <3>1
  <2>2. CASE c = b /\ l # k
    <3>1. pc'[c][l] = "idle"
      BY <1>1, <1>2, <1>3, <2>2 DEF RunsOK, Running
    <3> QED
      BY <3>1 DEF Ahead
  <2>3. CASE c # b
    <3>1. /\ at'[c][l] = at[c][l] /\ pc'[c][l] = pc[c][l]
          /\ \A i \in Items : ck'[c][i] = ck[c][i]
      BY <1>2, <2>3
    <3>2. pc[c][l] \in {"marked", "waiting"} => at[c][l] \in Items
      BY DEF RunsOK
    <3> QED
      BY <1>3, <3>1, <3>2 DEF SentOK, Ahead
  <2> QED
    BY <2>1, <2>2, <2>3
<1> QED
  BY <1>4, <1>5

(* No step sends an item that was sent. *)
LEMMA SentStep ==
    ASSUME TypeOK, RunsOK, ErasedOK, PollOK, SentOK, [Next]_vars
    PROVE  SentOK'
<1>1. ASSUME NEW b \in Batches, LandCheckpoints(b) PROVE SentOK'
  BY <1>1 DEF LandCheckpoints, Settle, stored, runner, poller, limits, ghosts, TypeOK,
         RunsOK, ErasedOK, SentOK, Unsent, Ahead, Queued, Running, Sound, Operations,
         Updates
<1>2. ASSUME NEW b \in Batches, NEW s \in Updates, LandStatus(b, s) PROVE SentOK'
  BY <1>2 DEF LandStatus, Settle, Updates, stored, runner, poller, limits, ghosts, TypeOK,
         RunsOK, ErasedOK, SentOK, Unsent, Ahead, Queued, Running, Sound, Operations
<1>3. ASSUME NEW b \in Batches, LandPurge(b) PROVE SentOK'
  BY <1>3 DEF LandPurge, stored, runner, poller, limits, ghosts, TypeOK, RunsOK, ErasedOK,
         SentOK, Unsent, Ahead, Queued, Running, Sound, Operations, Updates
<1>4. ASSUME NEW b \in Batches, LandDrop(b) PROVE SentOK'
  BY <1>4 DEF LandDrop, Settle, stored, runner, poller, limits, ghosts, TypeOK, RunsOK,
         ErasedOK, SentOK, Unsent, Ahead, Queued, Running, Sound, Operations, Updates
<1>5. ASSUME NEW b \in Batches, NEW o \in Operations, Lose(b, o) PROVE SentOK'
  BY <1>5 DEF Lose, Settle, stored, runner, poller, limits, ghosts, TypeOK, RunsOK,
         ErasedOK, SentOK, Unsent, Ahead, Queued, Running, Sound, Operations, Updates
<1>6. CASE PollBegin
  BY <1>6 DEF PollBegin, Undecided, stored, runner, poller, limits, ghosts, TypeOK, RunsOK,
         ErasedOK, SentOK, Unsent, Ahead, Queued, Running, Sound, Operations, Updates
<1>7. ASSUME NEW b \in Batches, RecoverSkip(b) PROVE SentOK'
  BY <1>7 DEF RecoverSkip, Handled, Issue, stored, runner, poller, limits, ghosts, TypeOK,
         RunsOK, ErasedOK, SentOK, Unsent, Ahead, Queued, Running, Sound, Operations,
         Updates
<1>8. ASSUME NEW b \in Batches, Recover(b) PROVE SentOK'
  BY <1>8 DEF Recover, Handled, Issue, stored, runner, poller, limits, ghosts, TypeOK,
         RunsOK, ErasedOK, SentOK, Unsent, Ahead, Queued, Running, Sound, Operations,
         Updates
<1>9. CASE Scan
  BY <1>9 DEF Scan, stored, runner, poller, limits, ghosts, TypeOK, RunsOK, ErasedOK,
         SentOK, Unsent, Ahead, Queued, Running, Sound, Operations, Updates
<1>10. ASSUME NEW b \in Batches, ScanCancel(b) PROVE SentOK'
  BY <1>10 DEF ScanCancel, Handled, Issue, stored, runner, poller, limits, ghosts, TypeOK,
         RunsOK, ErasedOK, SentOK, Unsent, Ahead, Queued, Running, Sound, Operations,
         Updates
<1>11. ASSUME NEW b \in Batches, ScanValidating(b) PROVE SentOK'
  BY <1>11 DEF ScanValidating, Handled, Issue, stored, runner, poller, limits, ghosts,
         TypeOK, RunsOK, ErasedOK, SentOK, Unsent, Ahead, Queued, Running, Sound,
         Operations, Updates
<1>12. ASSUME NEW b \in Batches, StartFailed(b) PROVE SentOK'
  BY <1>12 DEF StartFailed, Issue, stored, runner, poller, limits, ghosts, TypeOK, RunsOK,
         ErasedOK, SentOK, Unsent, Ahead, Queued, Running, Sound, Operations, Updates
<1>13. ASSUME NEW b \in Batches, NEW k \in Copies, Start(b, k) PROVE SentOK'
  BY <1>13 DEF Start, Issue, stored, runner, poller, limits, ghosts, TypeOK, RunsOK,
         ErasedOK, SentOK, Unsent, Ahead, Queued, Running, Sound, Operations, Updates
<1>14. CASE PollEnd
  BY <1>14 DEF PollEnd, PollOver, stored, runner, poller, limits, ghosts, TypeOK, RunsOK,
         ErasedOK, SentOK, Unsent, Ahead, Queued, Running, Sound, Operations, Updates
<1>15. CASE PollFails
  BY <1>15 DEF PollFails, PollOver, stored, runner, poller, limits, ghosts, TypeOK, RunsOK,
         ErasedOK, SentOK, Unsent, Ahead, Queued, Running, Sound, Operations, Updates
<1>16. ASSUME NEW b \in Batches, NEW k \in Copies, Load(b, k) PROVE SentOK'
  BY <1>16 DEF Load, stored, runner, poller, limits, ghosts, TypeOK, RunsOK, ErasedOK,
         SentOK, Unsent, Ahead, Queued, Running, Sound, Operations, Updates
<1>17. ASSUME NEW b \in Batches, NEW k \in Copies, Check(b, k) PROVE SentOK'
  BY <1>17 DEF Check, stored, runner, poller, limits, ghosts, TypeOK, RunsOK, ErasedOK,
         SentOK, Unsent, Ahead, Queued, Running, Sound, Operations, Updates
<1>18. ASSUME NEW b \in Batches, NEW k \in Copies, Recovered(b, k) PROVE SentOK'
  <2> DEFINE m == IF snap[b][k][at[b][k]] = "processing" THEN "errored" ELSE ck[b][at[b][k]]
  <2>1. pc[b][k] = "item" /\ at[b][k] \in Items /\ ItemDone(b, k, m)
    BY <1>18 DEF Recovered, RunsOK
  <2>2. ck'[b][at[b][k]] = IF ck[b][at[b][k]] = "none" THEN "none" ELSE m
    BY <2>1 DEF ItemDone, TypeOK
  <2>3. ck'[b][at[b][k]] \in Unsent => ck[b][at[b][k]] \in Unsent
    BY <2>2 DEF Unsent
  <2> QED
    BY <2>1, <2>3, ItemDoneSent
<1>19. ASSUME NEW b \in Batches, NEW k \in Copies, Mark(b, k) PROVE SentOK'
  BY <1>19 DEF Mark, stored, runner, poller, limits, ghosts, TypeOK, RunsOK, ErasedOK,
         SentOK, Unsent, Ahead, Queued, Running, Sound, Operations, Updates
<1>20. ASSUME NEW b \in Batches, NEW k \in Copies, Send(b, k) PROVE SentOK'
  <2> DEFINE n == at[b][k]
  <2>1. n \in Items /\ n \in Int /\ pc[b][k] = "marked" /\ Running(b, k)
    BY <1>20, ItemsAssumption DEF Send, RunsOK, Items, Running
  <2>2. /\ pc'[b][k] = "waiting" /\ sent'[b][n] = sent[b][n] + 1
        /\ \A c \in Batches, i \in Items : c # b \/ i # n => sent'[c][i] = sent[c][i]
        /\ \A c \in Batches, l \in Copies : c # b \/ l # k => pc'[c][l] = pc[c][l]
        /\ UNCHANGED <<ck, at, snap, erased, adrift>>
    BY <1>20, <2>1 DEF Send, TypeOK, stored
  <2> HIDE DEF n
  <2>3. SUFFICES ASSUME NEW c \in Batches, c \notin erased, Sound(c)
                 PROVE  /\ \A i \in Items : sent'[c][i] <= 1
                        /\ \A i \in Items : ck[c][i] \in Unsent => sent'[c][i] = 0
                        /\ \A l \in Copies :
                              /\ \A i \in Items : Ahead(c, l, i)' /\ snap[c][l][i] \in Unsent
                                                    => sent'[c][i] = 0
                              /\ pc'[c][l] \in {"marked", "waiting"} => ck[c][at[c][l]] = "processing"
                              /\ pc'[c][l] = "marked" => snap[c][l][at[c][l]] \in Unsent
    BY <2>2 DEF SentOK, Sound
  <2>4. CASE c # b
    <3>1. /\ \A i \in Items : sent'[c][i] = sent[c][i]
          /\ \A l \in Copies : pc'[c][l] = pc[c][l]
      BY <2>2, <2>4
    <3> QED
      BY <2>2, <2>3, <3>1 DEF SentOK, Ahead
  <2>5. CASE c = b
    <3>1. ck[b][n] = "processing" /\ snap[b][k][n] \in Unsent
      BY <2>1, <2>3, <2>5 DEF SentOK, n
    <3>2. Ahead(b, k, n)
      BY <2>1 DEF Ahead, n
    <3>3. sent[b][n] = 0
      BY <2>1, <2>3, <2>5, <3>1, <3>2 DEF SentOK
    <3>4. \A i \in Items : sent'[b][i] <= 1 /\ (ck[b][i] \in Unsent => sent'[b][i] = 0)
      BY <2>1, <2>2, <2>3, <2>5, <3>1, <3>3 DEF SentOK, Unsent
    <3>5. \A l \in Copies : l # k => pc'[b][l] = "idle"
      BY <2>1, <2>2, <2>3, <2>5 DEF RunsOK, Running
    <3>6. \A l \in Copies : l # k => \A i \in Items : ~Ahead(b, l, i)'
      BY <3>5 DEF Ahead
    <3>7. ASSUME NEW i \in Items, Ahead(b, k, i)', snap[b][k][i] \in Unsent PROVE sent'[b][i] = 0
      <4>1. i # n /\ i >= n
        BY <2>1, <2>2, <3>7, ItemsAssumption DEF Ahead, n, Items
      <4>2. Ahead(b, k, i)
        BY <2>1, <4>1 DEF Ahead, n
      <4> QED
        BY <2>2, <2>3, <2>5, <3>7, <4>1, <4>2 DEF SentOK
    <3> QED
      BY <2>2, <2>5, <3>1, <3>4, <3>5, <3>6, <3>7 DEF n
  <2> QED
    BY <2>4, <2>5
<1>21. ASSUME NEW b \in Batches, NEW k \in Copies, Record(b, k) PROVE SentOK'
  <2>1. pc[b][k] = "waiting" /\ at[b][k] \in Items
    BY <1>21 DEF Record, RunsOK
  <2>2. PICK m \in {"completed", "errored"} : ItemDone(b, k, m)
    BY <1>21 DEF Record
  <2>3. ck'[b][at[b][k]] = IF ck[b][at[b][k]] = "none" THEN "none" ELSE m
    BY <2>1, <2>2 DEF ItemDone, TypeOK
  <2>4. ck'[b][at[b][k]] \in Unsent => ck[b][at[b][k]] \in Unsent
    BY <2>2, <2>3 DEF Unsent
  <2> QED
    BY <2>1, <2>2, <2>4, ItemDoneSent
<1>22. ASSUME NEW b \in Batches, NEW k \in Copies, FinalCancelled(b, k) PROVE SentOK'
  BY <1>22 DEF FinalCancelled, RunEnds, Issue, stored, runner, poller, limits, ghosts,
         TypeOK, RunsOK, ErasedOK, SentOK, Unsent, Ahead, Queued, Running, Sound,
         Operations, Updates
<1>23. ASSUME NEW b \in Batches, NEW k \in Copies, Final(b, k) PROVE SentOK'
  BY <1>23 DEF Final, stored, runner, poller, limits, ghosts, TypeOK, RunsOK, ErasedOK,
         SentOK, Unsent, Ahead, Queued, Running, Sound, Operations, Updates
<1>24. ASSUME NEW b \in Batches, NEW k \in Copies, MarkFinalizing(b, k) PROVE SentOK'
  BY <1>24 DEF MarkFinalizing, stored, runner, poller, limits, ghosts, TypeOK, RunsOK,
         ErasedOK, SentOK, Unsent, Ahead, Queued, Running, Sound, Operations, Updates
<1>25. ASSUME NEW b \in Batches, NEW k \in Copies, CompleteBatch(b, k) PROVE SentOK'
  BY <1>25 DEF CompleteBatch, stored, runner, poller, limits, ghosts, TypeOK, RunsOK,
         ErasedOK, SentOK, Unsent, Ahead, Queued, Running, Sound, Operations, Updates
<1>26. ASSUME NEW b \in Batches, NEW k \in Copies, Report(b, k) PROVE SentOK'
  BY <1>26 DEF Report, RunEnds, stored, runner, poller, limits, ghosts, TypeOK, RunsOK,
         ErasedOK, SentOK, Unsent, Ahead, Queued, Running, Sound, Operations, Updates
<1>27. ASSUME NEW b \in Batches, NEW k \in Copies, Throw(b, k) PROVE SentOK'
  BY <1>27 DEF Throw, RunEnds, Issue, stored, runner, poller, limits, ghosts, TypeOK,
         RunsOK, ErasedOK, SentOK, Unsent, Ahead, Queued, Running, Sound, Operations,
         Updates
<1>28. ASSUME NEW b \in Batches, Cancel(b) PROVE SentOK'
  BY <1>28 DEF Cancel, Issue, stored, runner, poller, limits, ghosts, TypeOK, RunsOK,
         ErasedOK, SentOK, Unsent, Ahead, Queued, Running, Sound, Operations, Updates
<1>29. ASSUME NEW b \in Batches, Delete(b) PROVE SentOK'
  BY <1>29 DEF Delete, Issue, stored, runner, poller, limits, ghosts, TypeOK, RunsOK,
         ErasedOK, SentOK, Unsent, Ahead, Queued, Running, Sound, Operations, Updates
<1>30. CASE Crash
  BY <1>30 DEF Crash, Idle, stored, runner, poller, limits, ghosts, TypeOK, RunsOK,
         ErasedOK, SentOK, Unsent, Ahead, Queued, Running, Sound, Operations, Updates
<1>31. CASE UNCHANGED vars
  BY <1>31 DEF vars, stored, runner, poller, limits, ghosts, TypeOK, RunsOK, ErasedOK,
         SentOK, Unsent, Ahead, Queued, Running, Sound, Operations, Updates
<1> QED
  BY <1>1, <1>2, <1>3, <1>4, <1>5, <1>6, <1>7, <1>8, <1>9, <1>10, <1>11, <1>12, <1>13,
         <1>14, <1>15, <1>16, <1>17, <1>18, <1>19, <1>20, <1>21, <1>22, <1>23, <1>24,
         <1>25, <1>26, <1>27, <1>28, <1>29, <1>30, <1>31 DEF Next, Land, Poll, Run

(* Steps outside the runs leave the outcomes alone. *)
LEMMA DoneFrame ==
    ASSUME TypeOK, DoneOK, UNCHANGED <<pc, at, snap, done>>,
           asked \subseteq asked', erased \subseteq erased', adrift \subseteq adrift',
           \A c \in Batches : status[c] = "deleted" => status'[c] = "deleted",
           \A c \in Batches \ erased, i \in Items : ck[c][i] # "none" => ck'[c][i] = ck[c][i]
    PROVE  DoneOK'
<1> SUFFICES ASSUME NEW b \in Batches, NEW k \in Copies PROVE DoneAt(b, k)'
  BY DEF DoneOK
<1>1. DoneAt(b, k)
  BY DEF DoneOK
<1>2. /\ done'[b][k] = {i \in Items : i < at'[b][k]}
      /\ pc'[b][k] \in {"idle", "load"} => at'[b][k] = 1
      /\ pc'[b][k] \in {"final", "finalize", "files"} /\ b \notin asked' /\ status'[b] # "deleted" =>
            at'[b][k] = NItems + 1
  BY <1>1 DEF DoneAt
<1>3. ASSUME b \notin erased', Sound(b)', Running(b, k)', NEW i \in Items
      PROVE  /\ i < at'[b][k] => ck'[b][i] \in {"completed", "errored"}
             /\ (\/ pc'[b][k] \in {"check", "item"} /\ i >= at'[b][k]
                 \/ pc'[b][k] \in {"marked", "waiting"} /\ i > at'[b][k])
                /\ snap'[b][k][i] \notin Unsent
                => ck'[b][i] = snap'[b][k][i]
  <2>1. b \notin erased /\ Sound(b) /\ Running(b, k)
    BY <1>3 DEF Sound, Running
  <2>2. ck[b][i] # "none" => ck'[b][i] = ck[b][i]
    BY <2>1
  <2> QED
    BY <1>1, <2>1, <2>2 DEF DoneAt, Unsent
<1> QED
  BY <1>2, <1>3 DEF DoneAt

(* A step of run k of b matters to the outcomes of this run only. *)
LEMMA DoneOne ==
    ASSUME TypeOK, DoneOK, NEW b \in Batches, NEW k \in Copies, DoneAt(b, k)',
           \A c \in Batches, l \in Copies : c # b \/ l # k =>
              /\ pc'[c][l] = pc[c][l] /\ at'[c][l] = at[c][l]
              /\ snap'[c][l] = snap[c][l] /\ done'[c][l] = done[c][l],
           UNCHANGED <<asked, erased, adrift>>,
           \A c \in Batches : status[c] = "deleted" => status'[c] = "deleted",
           \A c \in Batches \ {b} : ck'[c] = ck[c],
           ck'[b] = ck[b] \/ (Sound(b) => \A l \in Copies : l # k => ~Running(b, l))
    PROVE  DoneOK'
<1> SUFFICES ASSUME NEW c \in Batches, NEW l \in Copies, c # b \/ l # k PROVE DoneAt(c, l)'
  BY DEF DoneOK
<1>1. /\ DoneAt(c, l)
      /\ pc'[c][l] = pc[c][l] /\ at'[c][l] = at[c][l]
      /\ snap'[c][l] = snap[c][l] /\ done'[c][l] = done[c][l]
  BY DEF DoneOK
<1>2. Sound(c) /\ Running(c, l) => ck'[c] = ck[c]
  OBVIOUS
<1>3. (Sound(c)' <=> Sound(c)) /\ (Running(c, l)' <=> Running(c, l))
  BY <1>1 DEF Sound, Running
<1> QED
  BY <1>1, <1>2, <1>3 DEF DoneAt

(* A run that is over leaves nothing behind. *)
LEMMA RunEndsDone ==
    ASSUME TypeOK, DoneOK, NEW b \in Batches, NEW k \in Copies, RunEnds(b, k)
    PROVE  DoneOK'
<1>1. /\ pc'[b][k] = "idle" /\ at'[b][k] = 1 /\ done'[b][k] = {}
      /\ \A c \in Batches, l \in Copies : c # b \/ l # k =>
            /\ pc'[c][l] = pc[c][l] /\ at'[c][l] = at[c][l]
            /\ snap'[c][l] = snap[c][l] /\ done'[c][l] = done[c][l]
      /\ UNCHANGED <<status, ck, asked, erased, adrift>>
  BY DEF RunEnds, TypeOK, stored, ghosts
<1>2. {i \in Items : i < 1} = {}
  BY ItemsAssumption DEF Items
<1>3. DoneAt(b, k)'
  BY <1>1, <1>2 DEF DoneAt, Running
<1> QED
  BY <1>1, <1>3, DoneOne

(* An outcome of an item that is also in its checkpoint is carried over. *)
LEMMA ItemDoneDone ==
    ASSUME TypeOK, RunsOK, DoneOK, NEW b \in Batches, NEW k \in Copies, NEW m \in Marks,
           ItemDone(b, k, m), pc[b][k] \in {"item", "waiting"},
           b \notin erased /\ Sound(b) => ck'[b][at[b][k]] \in {"completed", "errored"}
    PROVE  DoneOK'
<1> DEFINE n == at[b][k]
<1>1. n \in Items /\ n \in Int /\ Running(b, k)
  BY ItemsAssumption DEF RunsOK, Items, Running
<1>2. /\ at'[b][k] = n + 1 /\ pc'[b][k] = "check" /\ done'[b][k] = done[b][k] \cup {n}
      /\ snap' = snap /\ status' = status /\ asked' = asked /\ erased' = erased /\ adrift' = adrift
      /\ \A c \in Batches, i \in Items : c # b \/ i # n => ck'[c][i] = ck[c][i]
      /\ \A c \in Batches, l \in Copies : c # b \/ l # k =>
            at'[c][l] = at[c][l] /\ pc'[c][l] = pc[c][l] /\ done'[c][l] = done[c][l]
  BY <1>1 DEF ItemDone, TypeOK, ghosts
<1> HIDE DEF n
<1>3. done'[b][k] = {i \in Items : i < at'[b][k]}
  <2>1. done[b][k] = {i \in Items : i < n}
    BY DEF DoneOK, DoneAt, n
  <2> QED
    BY <1>1, <1>2, <2>1, ItemsAssumption DEF Items
<1>4. ASSUME b \notin erased, Sound(b), NEW i \in Items
      PROVE  /\ i < at'[b][k] => ck'[b][i] \in {"completed", "errored"}
             /\ i >= at'[b][k] /\ snap'[b][k][i] \notin Unsent => ck'[b][i] = snap'[b][k][i]
  <2>1. CASE i = n
    BY <1>1, <1>2, <1>4, <2>1 DEF n
  <2>2. CASE i < n
    <3>1. i # n /\ ~(i >= n + 1)
      BY <1>1, <2>2, ItemsAssumption DEF Items
    <3>2. ck[b][i] \in {"completed", "errored"}
      BY <1>1, <1>4, <2>2 DEF DoneOK, DoneAt, n
    <3> QED
      BY <1>2, <3>1, <3>2
  <2>3. CASE i > n
    <3>1. i # n /\ i >= n /\ ~(i < n + 1)
      BY <1>1, <2>3, ItemsAssumption DEF Items
    <3>2. snap[b][k][i] \notin Unsent => ck[b][i] = snap[b][k][i]
      BY <1>1, <1>4, <2>3, <3>1 DEF DoneOK, DoneAt, n
    <3> QED
      BY <1>2, <3>1, <3>2
  <2> QED
    BY <1>1, <2>1, <2>2, <2>3, ItemsAssumption DEF Items
<1>5. SUFFICES ASSUME NEW c \in Batches, NEW l \in Copies
      PROVE  /\ done'[c][l] = {i \in Items : i < at'[c][l]}
             /\ pc'[c][l] \in {"idle", "load"} => at'[c][l] = 1
             /\ pc'[c][l] \in {"final", "finalize", "files"} /\ c \notin asked /\ status[c] # "deleted" =>
                   at'[c][l] = NItems + 1
             /\ c \notin erased /\ Sound(c) /\ pc'[c][l] # "idle" =>
                   \A i \in Items :
                      /\ i < at'[c][l] => ck'[c][i] \in {"completed", "errored"}
                      /\ (\/ pc'[c][l] \in {"check", "item"} /\ i >= at'[c][l]
                          \/ pc'[c][l] \in {"marked", "waiting"} /\ i > at'[c][l])
                         /\ snap[c][l][i] \notin Unsent
                         => ck'[c][i] = snap[c][l][i]
  BY <1>2 DEF DoneOK, DoneAt, Running, Sound
<1>6. CASE c = b /\ l = k
  BY <1>2, <1>3, <1>4, <1>6
<1>7. CASE c = b /\ l # k
  <2>1. Sound(b) => pc'[b][l] = "idle"
    BY <1>1, <1>2, <1>7 DEF RunsOK, Running
  <2> QED
    BY <1>2, <1>7, <2>1 DEF DoneOK, DoneAt
<1>8. CASE c # b
  <2>1. /\ at'[c][l] = at[c][l] /\ pc'[c][l] = pc[c][l] /\ done'[c][l] = done[c][l]
        /\ \A i \in Items : ck'[c][i] = ck[c][i]
    BY <1>2, <1>8
  <2> QED
    BY <2>1 DEF DoneOK, DoneAt, Running
<1> QED
  BY <1>6, <1>7, <1>8

(* Every step carries the outcomes over. *)
LEMMA DoneStep ==
    ASSUME TypeOK, RunsOK, PollOK, ErasedOK, AskedOK, SentOK, DoneOK, [Next]_vars
    PROVE  DoneOK'
<1>1. ASSUME NEW b \in Batches, LandCheckpoints(b) PROVE DoneOK'
  <2>1. UNCHANGED <<pc, at, snap, done, status, asked, erased, adrift>>
    BY <1>1 DEF LandCheckpoints, runner, ghosts
  <2>2. \A c \in Batches, i \in Items : ck[c][i] # "none" => ck'[c][i] = ck[c][i]
    BY <1>1 DEF LandCheckpoints, TypeOK
  <2> QED
    BY <2>1, <2>2, DoneFrame
<1>2. ASSUME NEW b \in Batches, NEW s \in Updates, LandStatus(b, s) PROVE DoneOK'
  <2>1. UNCHANGED <<pc, at, snap, done, ck, asked, erased, adrift>>
    BY <1>2 DEF LandStatus, runner, ghosts
  <2>2. \A c \in Batches : status[c] = "deleted" => status'[c] = "deleted"
    BY <1>2 DEF LandStatus, TypeOK
  <2> QED
    BY <2>1, <2>2, DoneFrame
<1>3. ASSUME NEW b \in Batches, LandPurge(b) PROVE DoneOK'
  <2>1. b \in erased /\ UNCHANGED <<pc, at, snap, done, status, asked, erased, adrift>>
    BY <1>3 DEF LandPurge, ErasedOK, Queued, runner, ghosts
  <2>2. \A c \in Batches \ {b} : ck'[c] = ck[c]
    BY <1>3 DEF LandPurge, TypeOK
  <2> QED
    BY <2>1, <2>2, DoneFrame
<1>4. ASSUME NEW b \in Batches, LandDrop(b) PROVE DoneOK'
  <2>1. b \in erased /\ UNCHANGED <<pc, at, snap, done, asked, erased, adrift>>
    BY <1>4 DEF LandDrop, Settle, ErasedOK, Queued, runner, ghosts
  <2>2. \A c \in Batches \ {b} : ck'[c] = ck[c]
    BY <1>4 DEF LandDrop, TypeOK
  <2>3. \A c \in Batches : status[c] = "deleted" => status'[c] = "deleted"
    BY <1>4 DEF LandDrop, TypeOK
  <2> QED
    BY <2>1, <2>2, <2>3, DoneFrame
<1>5. ASSUME NEW b \in Batches, NEW o \in Operations, Lose(b, o) PROVE DoneOK'
  <2>1. /\ UNCHANGED <<pc, at, snap, done, ck, status>>
        /\ asked \subseteq asked' /\ erased \subseteq erased' /\ adrift \subseteq adrift'
    BY <1>5 DEF Lose, stored, runner, ghosts
  <2> QED
    BY <2>1, DoneFrame
<1>6. CASE PollBegin
  <2>1. /\ UNCHANGED <<pc, at, snap, done, ck, status>>
        /\ asked \subseteq asked' /\ erased \subseteq erased' /\ adrift \subseteq adrift'
    BY <1>6 DEF PollBegin, stored, runner, ghosts
  <2> QED
    BY <2>1, DoneFrame
<1>7. ASSUME NEW b \in Batches, RecoverSkip(b) PROVE DoneOK'
  <2>1. /\ UNCHANGED <<pc, at, snap, done, ck, status>>
        /\ asked \subseteq asked' /\ erased \subseteq erased' /\ adrift \subseteq adrift'
    BY <1>7 DEF RecoverSkip, Handled, stored, runner, ghosts
  <2> QED
    BY <2>1, DoneFrame
<1>8. ASSUME NEW b \in Batches, Recover(b) PROVE DoneOK'
  <2>1. /\ UNCHANGED <<pc, at, snap, done, ck, status>>
        /\ asked \subseteq asked' /\ erased \subseteq erased' /\ adrift \subseteq adrift'
    BY <1>8 DEF Recover, Handled, stored, runner, ghosts
  <2> QED
    BY <2>1, DoneFrame
<1>9. CASE Scan
  <2>1. /\ UNCHANGED <<pc, at, snap, done, ck, status>>
        /\ asked \subseteq asked' /\ erased \subseteq erased' /\ adrift \subseteq adrift'
    BY <1>9 DEF Scan, stored, runner, ghosts
  <2> QED
    BY <2>1, DoneFrame
<1>10. ASSUME NEW b \in Batches, ScanCancel(b) PROVE DoneOK'
  <2>1. /\ UNCHANGED <<pc, at, snap, done, ck, status>>
        /\ asked \subseteq asked' /\ erased \subseteq erased' /\ adrift \subseteq adrift'
    BY <1>10 DEF ScanCancel, Handled, stored, runner, ghosts
  <2> QED
    BY <2>1, DoneFrame
<1>11. ASSUME NEW b \in Batches, ScanValidating(b) PROVE DoneOK'
  <2>1. /\ UNCHANGED <<pc, at, snap, done, ck, status>>
        /\ asked \subseteq asked' /\ erased \subseteq erased' /\ adrift \subseteq adrift'
    BY <1>11 DEF ScanValidating, Handled, stored, runner, ghosts
  <2> QED
    BY <2>1, DoneFrame
<1>12. ASSUME NEW b \in Batches, StartFailed(b) PROVE DoneOK'
  <2>1. /\ UNCHANGED <<pc, at, snap, done, ck, status>>
        /\ asked \subseteq asked' /\ erased \subseteq erased' /\ adrift \subseteq adrift'
    BY <1>12 DEF StartFailed, stored, runner, ghosts
  <2> QED
    BY <2>1, DoneFrame
<1>13. ASSUME NEW b \in Batches, NEW k \in Copies, Start(b, k) PROVE DoneOK'
  <2>1. /\ \A c \in Batches, l \in Copies : c # b \/ l # k =>
              /\ pc'[c][l] = pc[c][l] /\ at'[c][l] = at[c][l]
              /\ snap'[c][l] = snap[c][l] /\ done'[c][l] = done[c][l]
        /\ pc[b][k] = "idle" /\ pc'[b][k] = "load"
        /\ UNCHANGED <<at, snap, done, ck, status, asked, erased, adrift>>
    BY <1>13 DEF Start, TypeOK, stored, ghosts
  <2>2. DoneAt(b, k)
    BY DEF DoneOK
  <2>3. {i \in Items : i < 1} = {} /\ \A i \in Items : ~(i < 1)
    BY ItemsAssumption DEF Items
  <2>4. DoneAt(b, k)'
    BY <2>1, <2>2, <2>3 DEF DoneAt, Running
  <2> QED
    BY <2>1, <2>4, DoneOne
<1>14. CASE PollEnd
  <2>1. /\ UNCHANGED <<pc, at, snap, done, ck, status>>
        /\ asked \subseteq asked' /\ erased \subseteq erased' /\ adrift \subseteq adrift'
    BY <1>14 DEF PollEnd, PollOver, stored, runner, ghosts
  <2> QED
    BY <2>1, DoneFrame
<1>15. CASE PollFails
  <2>1. /\ UNCHANGED <<pc, at, snap, done, ck, status>>
        /\ asked \subseteq asked' /\ erased \subseteq erased' /\ adrift \subseteq adrift'
    BY <1>15 DEF PollFails, PollOver, stored, runner, ghosts
  <2> QED
    BY <2>1, DoneFrame
<1>16. ASSUME NEW b \in Batches, NEW k \in Copies, Load(b, k) PROVE DoneOK'
  <2>1. /\ \A c \in Batches, l \in Copies : c # b \/ l # k =>
              /\ pc'[c][l] = pc[c][l] /\ at'[c][l] = at[c][l]
              /\ snap'[c][l] = snap[c][l] /\ done'[c][l] = done[c][l]
        /\ pc[b][k] = "load" /\ pc'[b][k] = "check" /\ snap'[b][k] = ck[b]
        /\ UNCHANGED <<at, done, ck, status, asked, erased, adrift>>
    BY <1>16 DEF Load, TypeOK, stored, ghosts
  <2>2. DoneAt(b, k)
    BY DEF DoneOK
  <2>3. {i \in Items : i < 1} = {} /\ \A i \in Items : ~(i < 1)
    BY ItemsAssumption DEF Items
  <2>4. DoneAt(b, k)'
    BY <2>1, <2>2, <2>3 DEF DoneAt, Running
  <2> QED
    BY <2>1, <2>4, DoneOne
<1>17. ASSUME NEW b \in Batches, NEW k \in Copies, Check(b, k) PROVE DoneOK'
  <2>1. /\ \A c \in Batches, l \in Copies : c # b \/ l # k =>
              /\ pc'[c][l] = pc[c][l] /\ at'[c][l] = at[c][l]
              /\ snap'[c][l] = snap[c][l] /\ done'[c][l] = done[c][l]
        /\ pc[b][k] = "check" /\ pc'[b][k] \in {"final", "item"}
        /\ pc'[b][k] = "final" =>
              at[b][k] > NItems \/ status[b] \in {"cancelling", "cancelled", "deleted"}
        /\ UNCHANGED <<at, snap, done, ck, status, asked, erased, adrift>>
    BY <1>17 DEF Check, TypeOK, stored, ghosts
  <2>2. DoneAt(b, k)
    BY DEF DoneOK
  <2>3. b \notin asked => status[b] \notin {"cancelling", "cancelled"}
    BY DEF AskedOK
  <2>4. at[b][k] \in 1 .. NItems + 1 /\ (at[b][k] > NItems => at[b][k] = NItems + 1)
    <3>1. at[b][k] \in 1 .. NItems + 1
      BY DEF TypeOK
    <3> QED
      BY <3>1, ItemsAssumption
  <2>5. pc'[b][k] = "final" /\ b \notin asked /\ status[b] # "deleted" => at[b][k] = NItems + 1
    BY <2>1, <2>3, <2>4
  <2>6. (Sound(b)' <=> Sound(b)) /\ Running(b, k)
    BY <2>1 DEF Sound, Running
  <2>7. DoneAt(b, k)'
    BY <2>1, <2>2, <2>5, <2>6 DEF DoneAt, Running
  <2> QED
    BY <2>1, <2>7, DoneOne
<1>18. ASSUME NEW b \in Batches, NEW k \in Copies, Recovered(b, k) PROVE DoneOK'
  <2> DEFINE m == IF snap[b][k][at[b][k]] = "processing" THEN "errored" ELSE ck[b][at[b][k]]
  <2>1. pc[b][k] = "item" /\ at[b][k] \in Items /\ at[b][k] \in Int
    BY <1>18, ItemsAssumption DEF Recovered, RunsOK, Items
  <2>2. ItemDone(b, k, m) /\ m \in Marks
    BY <1>18, <2>1 DEF Recovered, Marks, TypeOK
  <2>3. b \notin erased /\ Sound(b) => ck[b][at[b][k]] = snap[b][k][at[b][k]]
    BY <1>18, <2>1 DEF DoneOK, DoneAt, Recovered, Running, Unsent
  <2>4. ck'[b][at[b][k]] = IF ck[b][at[b][k]] = "none" THEN "none" ELSE m
    BY <2>1, <2>2 DEF ItemDone, TypeOK
  <2>5. b \notin erased /\ Sound(b) => ck'[b][at[b][k]] \in {"completed", "errored"}
    BY <1>18, <2>3, <2>4 DEF Recovered
  <2> HIDE DEF m
  <2> QED
    BY <2>1, <2>2, <2>5, ItemDoneDone
<1>19. ASSUME NEW b \in Batches, NEW k \in Copies, Mark(b, k) PROVE DoneOK'
  <2>1. /\ \A c \in Batches, l \in Copies : c # b \/ l # k =>
              /\ pc'[c][l] = pc[c][l] /\ at'[c][l] = at[c][l]
              /\ snap'[c][l] = snap[c][l] /\ done'[c][l] = done[c][l]
        /\ pc[b][k] = "item" /\ pc'[b][k] = "marked"
        /\ UNCHANGED <<at, snap, done, status, asked, erased, adrift>>
    BY <1>19 DEF Mark, TypeOK, stored, ghosts
  <2>2. DoneAt(b, k)
    BY DEF DoneOK
  <2>3. at[b][k] \in Items /\ at[b][k] \in Int
    BY <2>1, ItemsAssumption DEF RunsOK, Items
  <2>4. /\ \A c \in Batches \ {b} : ck'[c] = ck[c]
        /\ \A i \in Items : i # at[b][k] => ck'[b][i] = ck[b][i]
    BY <1>19, <2>3 DEF Mark, TypeOK
  <2>5. (Sound(b)' <=> Sound(b)) /\ Running(b, k)
    BY <2>1 DEF Sound, Running
  <2>6. ASSUME b \notin erased, Sound(b), NEW i \in Items
        PROVE  /\ i < at[b][k] => ck'[b][i] \in {"completed", "errored"}
               /\ i > at[b][k] /\ snap[b][k][i] \notin Unsent => ck'[b][i] = snap[b][k][i]
    <3>1. (i < at[b][k] => i # at[b][k]) /\ (i > at[b][k] => i # at[b][k] /\ i >= at[b][k])
      BY <2>3, ItemsAssumption DEF Items
    <3> QED
      BY <2>1, <2>2, <2>4, <2>5, <2>6, <3>1 DEF DoneAt
  <2>7. DoneAt(b, k)'
    BY <2>1, <2>2, <2>5, <2>6 DEF DoneAt, Running
  <2>8. Sound(b) => \A l \in Copies : l # k => ~Running(b, l)
    BY <2>5 DEF RunsOK
  <2> QED
    BY <2>1, <2>4, <2>7, <2>8, DoneOne
<1>20. ASSUME NEW b \in Batches, NEW k \in Copies, Send(b, k) PROVE DoneOK'
  <2>1. /\ \A c \in Batches, l \in Copies : c # b \/ l # k =>
              /\ pc'[c][l] = pc[c][l] /\ at'[c][l] = at[c][l]
              /\ snap'[c][l] = snap[c][l] /\ done'[c][l] = done[c][l]
        /\ pc[b][k] = "marked" /\ pc'[b][k] = "waiting"
        /\ UNCHANGED <<at, snap, done, ck, status, asked, erased, adrift>>
    BY <1>20 DEF Send, TypeOK, stored, ghosts
  <2>2. DoneAt(b, k)
    BY DEF DoneOK
  <2>3. DoneAt(b, k)'
    <3>1. (Sound(b)' <=> Sound(b)) /\ Running(b, k)
      BY <2>1 DEF Sound, Running
    <3> QED
      BY <2>1, <2>2, <3>1 DEF DoneAt, Running
  <2> QED
    BY <2>1, <2>3, DoneOne
<1>21. ASSUME NEW b \in Batches, NEW k \in Copies, Record(b, k) PROVE DoneOK'
  <2>1. pc[b][k] = "waiting" /\ at[b][k] \in Items
    BY <1>21 DEF Record, RunsOK
  <2>2. PICK m \in {"completed", "errored"} : ItemDone(b, k, m)
    BY <1>21 DEF Record
  <2>3. b \notin erased /\ Sound(b) => ck[b][at[b][k]] = "processing"
    BY <2>1 DEF SentOK
  <2>4. b \notin erased /\ Sound(b) => ck'[b][at[b][k]] = m
    BY <2>1, <2>2, <2>3 DEF ItemDone, TypeOK
  <2> QED
    BY <2>1, <2>2, <2>4, ItemDoneDone DEF Marks
<1>22. ASSUME NEW b \in Batches, NEW k \in Copies, FinalCancelled(b, k) PROVE DoneOK'
  BY <1>22, RunEndsDone DEF FinalCancelled
<1>23. ASSUME NEW b \in Batches, NEW k \in Copies, Final(b, k) PROVE DoneOK'
  <2>1. /\ \A c \in Batches, l \in Copies : c # b \/ l # k =>
              /\ pc'[c][l] = pc[c][l] /\ at'[c][l] = at[c][l]
              /\ snap'[c][l] = snap[c][l] /\ done'[c][l] = done[c][l]
        /\ pc[b][k] = "final" /\ pc'[b][k] = "finalize"
        /\ UNCHANGED <<at, snap, done, ck, status, asked, erased, adrift>>
    BY <1>23 DEF Final, TypeOK, stored, ghosts
  <2>2. DoneAt(b, k)
    BY DEF DoneOK
  <2>3. DoneAt(b, k)'
    <3>1. (Sound(b)' <=> Sound(b)) /\ Running(b, k)
      BY <2>1 DEF Sound, Running
    <3> QED
      BY <2>1, <2>2, <3>1 DEF DoneAt, Running
  <2> QED
    BY <2>1, <2>3, DoneOne
<1>24. ASSUME NEW b \in Batches, NEW k \in Copies, MarkFinalizing(b, k) PROVE DoneOK'
  <2>1. /\ \A c \in Batches, l \in Copies : c # b \/ l # k =>
              /\ pc'[c][l] = pc[c][l] /\ at'[c][l] = at[c][l]
              /\ snap'[c][l] = snap[c][l] /\ done'[c][l] = done[c][l]
        /\ pc[b][k] = "finalize" /\ pc'[b][k] = "files"
        /\ UNCHANGED <<at, snap, done, ck, asked, erased, adrift>>
        /\ \A c \in Batches : status[c] = "deleted" <=> status'[c] = "deleted"
    BY <1>24 DEF MarkFinalizing, TypeOK, stored, ghosts
  <2>2. DoneAt(b, k)
    BY DEF DoneOK
  <2>3. DoneAt(b, k)'
    <3>1. (Sound(b)' <=> Sound(b)) /\ Running(b, k)
      BY <2>1 DEF Sound, Running
    <3> QED
      BY <2>1, <2>2, <3>1 DEF DoneAt, Running
  <2> QED
    BY <2>1, <2>3, DoneOne
<1>25. ASSUME NEW b \in Batches, NEW k \in Copies, CompleteBatch(b, k) PROVE DoneOK'
  <2>1. /\ \A c \in Batches, l \in Copies : c # b \/ l # k =>
              /\ pc'[c][l] = pc[c][l] /\ at'[c][l] = at[c][l]
              /\ snap'[c][l] = snap[c][l] /\ done'[c][l] = done[c][l]
        /\ pc[b][k] = "files" /\ pc'[b][k] = "report"
        /\ UNCHANGED <<at, snap, done, ck, asked, erased, adrift>>
        /\ \A c \in Batches : status[c] = "deleted" <=> status'[c] = "deleted"
    BY <1>25 DEF CompleteBatch, TypeOK, stored, ghosts
  <2>2. DoneAt(b, k)
    BY DEF DoneOK
  <2>3. DoneAt(b, k)'
    <3>1. (Sound(b)' <=> Sound(b)) /\ Running(b, k)
      BY <2>1 DEF Sound, Running
    <3> QED
      BY <2>1, <2>2, <3>1 DEF DoneAt, Running
  <2> QED
    BY <2>1, <2>3, DoneOne
<1>26. ASSUME NEW b \in Batches, NEW k \in Copies, Report(b, k) PROVE DoneOK'
  BY <1>26, RunEndsDone DEF Report
<1>27. ASSUME NEW b \in Batches, NEW k \in Copies, Throw(b, k) PROVE DoneOK'
  BY <1>27, RunEndsDone DEF Throw
<1>28. ASSUME NEW b \in Batches, Cancel(b) PROVE DoneOK'
  <2>1. /\ UNCHANGED <<pc, at, snap, done, ck, status>>
        /\ asked \subseteq asked' /\ erased \subseteq erased' /\ adrift \subseteq adrift'
    BY <1>28 DEF Cancel, stored, runner, ghosts
  <2> QED
    BY <2>1, DoneFrame
<1>29. ASSUME NEW b \in Batches, Delete(b) PROVE DoneOK'
  <2>1. /\ UNCHANGED <<pc, at, snap, done, ck, status>>
        /\ asked \subseteq asked' /\ erased \subseteq erased' /\ adrift \subseteq adrift'
    BY <1>29 DEF Delete, stored, runner, ghosts
  <2> QED
    BY <2>1, DoneFrame
<1>30. CASE Crash
  <2>1. \A c \in Batches, l \in Copies : pc'[c][l] = "idle" /\ at'[c][l] = 1 /\ done'[c][l] = {}
    BY <1>30 DEF Crash, Idle
  <2>2. {i \in Items : i < 1} = {}
    BY ItemsAssumption DEF Items
  <2> QED
    BY <2>1, <2>2 DEF DoneOK, DoneAt, Running
<1>31. CASE UNCHANGED vars
  <2>1. UNCHANGED <<pc, at, snap, done, ck, status, asked, erased, adrift>>
    BY <1>31 DEF vars, stored, runner, ghosts
  <2> QED
    BY <2>1, DoneFrame
<1> QED
  BY <1>1, <1>2, <1>3, <1>4, <1>5, <1>6, <1>7, <1>8, <1>9, <1>10, <1>11, <1>12, <1>13,
         <1>14, <1>15, <1>16, <1>17, <1>18, <1>19, <1>20, <1>21, <1>22, <1>23, <1>24,
         <1>25, <1>26, <1>27, <1>28, <1>29, <1>30, <1>31 DEF Next, Land, Poll, Run

(* A batch completes with everything and then rests. *)
LEMMA CompleteStep ==
    ASSUME TypeOK, RunsOK, PollOK, ErasedOK, AskedOK, DoneOK, CompleteOK, [Next]_vars
    PROVE  CompleteOK'
<1>1. ASSUME NEW b \in Batches, LandCheckpoints(b) PROVE CompleteOK'
  BY <1>1 DEF LandCheckpoints, Settle, stored, runner, poller, limits, ghosts, TypeOK,
         CompleteOK, CompletedIsComplete, Startable, Picked, Sound
<1>2. ASSUME NEW b \in Batches, NEW s \in Updates, LandStatus(b, s) PROVE CompleteOK'
  BY <1>2 DEF LandStatus, Settle, Updates, stored, runner, poller, limits, ghosts, TypeOK,
         CompleteOK, CompletedIsComplete, Startable, Picked, Sound
<1>3. ASSUME NEW b \in Batches, LandPurge(b) PROVE CompleteOK'
  <2>1. b \in erased
    BY <1>3 DEF LandPurge, ErasedOK, Queued
  <2>2. \A c \in Batches \ {b} : ck'[c] = ck[c]
    BY <1>3 DEF LandPurge, TypeOK
  <2>3. UNCHANGED <<status, files, pc, poll, rows, todo, starting, slots, asked, erased, adrift>>
    BY <1>3 DEF LandPurge, runner, poller, ghosts
  <2> QED
    BY <2>1, <2>2, <2>3 DEF CompleteOK, CompletedIsComplete, Startable, Picked, Sound
<1>4. ASSUME NEW b \in Batches, LandDrop(b) PROVE CompleteOK'
  BY <1>4 DEF LandDrop, Settle, stored, runner, poller, limits, ghosts, TypeOK, CompleteOK,
         CompletedIsComplete, Startable, Picked, Sound
<1>5. ASSUME NEW b \in Batches, NEW o \in Operations, Lose(b, o) PROVE CompleteOK'
  BY <1>5 DEF Lose, Settle, stored, runner, poller, limits, ghosts, TypeOK, CompleteOK,
         CompletedIsComplete, Startable, Picked, Sound
<1>6. CASE PollBegin
  BY <1>6 DEF PollBegin, Undecided, stored, runner, poller, limits, ghosts, TypeOK,
         CompleteOK, CompletedIsComplete, Startable, Picked, Sound
<1>7. ASSUME NEW b \in Batches, RecoverSkip(b) PROVE CompleteOK'
  BY <1>7 DEF RecoverSkip, Handled, Issue, stored, runner, poller, limits, ghosts, TypeOK,
         CompleteOK, CompletedIsComplete, Startable, Picked, Sound
<1>8. ASSUME NEW b \in Batches, Recover(b) PROVE CompleteOK'
  BY <1>8 DEF Recover, Handled, Issue, stored, runner, poller, limits, ghosts, TypeOK,
         CompleteOK, CompletedIsComplete, Startable, Picked, Sound
<1>9. CASE Scan
  BY <1>9 DEF Scan, stored, runner, poller, limits, ghosts, TypeOK, CompleteOK,
         CompletedIsComplete, Startable, Picked, Sound
<1>10. ASSUME NEW b \in Batches, ScanCancel(b) PROVE CompleteOK'
  BY <1>10 DEF ScanCancel, Handled, Issue, stored, runner, poller, limits, ghosts, TypeOK,
         CompleteOK, CompletedIsComplete, Startable, Picked, Sound
<1>11. ASSUME NEW b \in Batches, ScanValidating(b) PROVE CompleteOK'
  BY <1>11 DEF ScanValidating, Handled, Issue, stored, runner, poller, limits, ghosts,
         TypeOK, CompleteOK, CompletedIsComplete, Startable, Picked, Sound
<1>12. ASSUME NEW b \in Batches, StartFailed(b) PROVE CompleteOK'
  BY <1>12 DEF StartFailed, Issue, stored, runner, poller, limits, ghosts, TypeOK,
         CompleteOK, CompletedIsComplete, Startable, Picked, Sound
<1>13. ASSUME NEW b \in Batches, NEW k \in Copies, Start(b, k) PROVE CompleteOK'
  BY <1>13 DEF Start, Issue, stored, runner, poller, limits, ghosts, TypeOK, CompleteOK,
         CompletedIsComplete, Startable, Picked, Sound
<1>14. CASE PollEnd
  BY <1>14 DEF PollEnd, PollOver, stored, runner, poller, limits, ghosts, TypeOK,
         CompleteOK, CompletedIsComplete, Startable, Picked, Sound
<1>15. CASE PollFails
  BY <1>15 DEF PollFails, PollOver, stored, runner, poller, limits, ghosts, TypeOK,
         CompleteOK, CompletedIsComplete, Startable, Picked, Sound
<1>16. ASSUME NEW b \in Batches, NEW k \in Copies, Load(b, k) PROVE CompleteOK'
  BY <1>16 DEF Load, stored, runner, poller, limits, ghosts, TypeOK, CompleteOK,
         CompletedIsComplete, Startable, Picked, Sound
<1>17. ASSUME NEW b \in Batches, NEW k \in Copies, Check(b, k) PROVE CompleteOK'
  BY <1>17 DEF Check, stored, runner, poller, limits, ghosts, TypeOK, CompleteOK,
         CompletedIsComplete, Startable, Picked, Sound
<1>18. ASSUME NEW b \in Batches, NEW k \in Copies, Recovered(b, k) PROVE CompleteOK'
  BY <1>18 DEF Recovered, ItemDone, stored, runner, poller, limits, ghosts, TypeOK,
         CompleteOK, CompletedIsComplete, Startable, Picked, Sound
<1>19. ASSUME NEW b \in Batches, NEW k \in Copies, Mark(b, k) PROVE CompleteOK'
  <2>1. at[b][k] \in Items /\ pc[b][k] = "item"
    BY <1>19 DEF Mark, RunsOK
  <2>2. /\ \A c \in Batches \ {b} : ck'[c] = ck[c]
        /\ \A c \in Batches, l \in Copies : pc'[c][l] = IF c = b /\ l = k THEN "marked" ELSE pc[c][l]
        /\ UNCHANGED <<status, files, poll, rows, todo, starting, slots, asked, erased, adrift>>
    BY <1>19, <2>1 DEF Mark, TypeOK, poller, ghosts
  <2>3. Sound(b) => status[b] # "completed"
    BY <2>1 DEF CompleteOK
  <2>4. \A c \in Batches : Sound(c)' = Sound(c) /\ Startable(c)' = Startable(c)
    BY <2>2 DEF Sound, Startable, Picked
  <2>5. CompletedIsComplete'
    BY <2>2, <2>3, <2>4 DEF CompleteOK, CompletedIsComplete
  <2>6. ASSUME NEW c \in Batches, Sound(c), status[c] = "completed"
        PROVE  (\A l \in Copies : pc'[c][l] \in {"idle", "report"}) /\ c \notin starting /\ ~Startable(c)
    BY <2>2, <2>3, <2>6 DEF CompleteOK
  <2> QED
    BY <2>2, <2>4, <2>5, <2>6 DEF CompleteOK
<1>20. ASSUME NEW b \in Batches, NEW k \in Copies, Send(b, k) PROVE CompleteOK'
  BY <1>20 DEF Send, stored, runner, poller, limits, ghosts, TypeOK, CompleteOK,
         CompletedIsComplete, Startable, Picked, Sound
<1>21. ASSUME NEW b \in Batches, NEW k \in Copies, Record(b, k) PROVE CompleteOK'
  BY <1>21 DEF Record, ItemDone, stored, runner, poller, limits, ghosts, TypeOK,
         CompleteOK, CompletedIsComplete, Startable, Picked, Sound
<1>22. ASSUME NEW b \in Batches, NEW k \in Copies, FinalCancelled(b, k) PROVE CompleteOK'
  BY <1>22 DEF FinalCancelled, RunEnds, Issue, stored, runner, poller, limits, ghosts,
         TypeOK, CompleteOK, CompletedIsComplete, Startable, Picked, Sound
<1>23. ASSUME NEW b \in Batches, NEW k \in Copies, Final(b, k) PROVE CompleteOK'
  BY <1>23 DEF Final, stored, runner, poller, limits, ghosts, TypeOK, CompleteOK,
         CompletedIsComplete, Startable, Picked, Sound
<1>24. ASSUME NEW b \in Batches, NEW k \in Copies, MarkFinalizing(b, k) PROVE CompleteOK'
  BY <1>24 DEF MarkFinalizing, stored, runner, poller, limits, ghosts, TypeOK, CompleteOK,
         CompletedIsComplete, Startable, Picked, Sound
<1>25. ASSUME NEW b \in Batches, NEW k \in Copies, CompleteBatch(b, k) PROVE CompleteOK'
  <2>1. Sound(b) => /\ b \notin starting /\ ~Startable(b)
                    /\ \A l \in Copies : l # k => pc[b][l] = "idle"
    BY <1>25 DEF CompleteBatch, PollOK, RunsOK, Working, Running
  <2>2. /\ files'[b] = done[b][k] /\ status'[b] = "completed"
        /\ \A c \in Batches \ {b} : files'[c] = files[c] /\ status'[c] = status[c]
        /\ \A c \in Batches, l \in Copies :
              pc'[c][l] = IF c = b /\ l = k THEN "report" ELSE pc[c][l]
        /\ UNCHANGED <<ck, poll, rows, todo, starting, slots, asked, erased, adrift>>
    BY <1>25 DEF CompleteBatch, TypeOK, poller, ghosts
  <2>3. b \notin asked => at[b][k] = NItems + 1
    BY <1>25 DEF CompleteBatch, DoneOK, DoneAt
  <2>4. b \notin asked => \A i \in Items : i < at[b][k]
    BY <2>3, ItemsAssumption DEF Items
  <2>5. b \notin asked => done[b][k] = Items
    <3>1. done[b][k] = {i \in Items : i < at[b][k]}
      BY DEF DoneOK, DoneAt
    <3> QED
      BY <2>4, <3>1
  <2>6. b \notin asked /\ b \notin erased /\ Sound(b) =>
            \A i \in Items : ck[b][i] \in {"completed", "errored"}
    BY <1>25, <2>4 DEF CompleteBatch, DoneOK, DoneAt, Running
  <2>7. CompletedIsComplete'
    BY <2>2, <2>5, <2>6 DEF CompleteOK, CompletedIsComplete, Sound
  <2>8. ASSUME NEW c \in Batches, Sound(c), status'[c] = "completed"
        PROVE  (\A l \in Copies : pc'[c][l] \in {"idle", "report"}) /\ c \notin starting /\ ~Startable(c)
    BY <2>1, <2>2, <2>8 DEF CompleteOK
  <2> QED
    BY <2>2, <2>7, <2>8 DEF CompleteOK, Startable, Picked, Sound
<1>26. ASSUME NEW b \in Batches, NEW k \in Copies, Report(b, k) PROVE CompleteOK'
  BY <1>26 DEF Report, RunEnds, stored, runner, poller, limits, ghosts, TypeOK, CompleteOK,
         CompletedIsComplete, Startable, Picked, Sound
<1>27. ASSUME NEW b \in Batches, NEW k \in Copies, Throw(b, k) PROVE CompleteOK'
  BY <1>27 DEF Throw, RunEnds, Issue, stored, runner, poller, limits, ghosts, TypeOK,
         CompleteOK, CompletedIsComplete, Startable, Picked, Sound
<1>28. ASSUME NEW b \in Batches, Cancel(b) PROVE CompleteOK'
  BY <1>28 DEF Cancel, Issue, stored, runner, poller, limits, ghosts, TypeOK, CompleteOK,
         CompletedIsComplete, Startable, Picked, Sound
<1>29. ASSUME NEW b \in Batches, Delete(b) PROVE CompleteOK'
  BY <1>29 DEF Delete, Issue, stored, runner, poller, limits, ghosts, TypeOK, CompleteOK,
         CompletedIsComplete, Startable, Picked, Sound
<1>30. CASE Crash
  BY <1>30 DEF Crash, Idle, stored, runner, poller, limits, ghosts, TypeOK, CompleteOK,
         CompletedIsComplete, Startable, Picked, Sound
<1>31. CASE UNCHANGED vars
  BY <1>31 DEF vars, stored, runner, poller, limits, ghosts, TypeOK, CompleteOK,
         CompletedIsComplete, Startable, Picked, Sound
<1> QED
  BY <1>1, <1>2, <1>3, <1>4, <1>5, <1>6, <1>7, <1>8, <1>9, <1>10, <1>11, <1>12, <1>13,
         <1>14, <1>15, <1>16, <1>17, <1>18, <1>19, <1>20, <1>21, <1>22, <1>23, <1>24,
         <1>25, <1>26, <1>27, <1>28, <1>29, <1>30, <1>31 DEF Next, Land, Poll, Run

(* A batch that leaves activeBatches frees a place. *)
LEMMA FewerRuns ==
    ASSUME TypeOK, LimitOK, active' \subseteq active, UNCHANGED <<poll, starting, slots>>
    PROVE  LimitOK'
<1>1. /\ Cardinality(active') <= Cardinality(active)
      /\ Cardinality(active) \in Nat /\ Cardinality(active') \in Nat
      /\ Cardinality(starting) \in Nat
  BY FewBatches, FS_Subset DEF TypeOK
<1> QED
  BY <1>1, ConcurrentAssumption DEF LimitOK, TypeOK

(* No step goes beyond BATCH_MAX_CONCURRENT. *)
LEMMA LimitStep ==
    ASSUME TypeOK, PollOK, LimitOK, [Next]_vars
    PROVE  LimitOK'
<1>1. ASSUME NEW b \in Batches, LandCheckpoints(b) PROVE LimitOK'
  BY <1>1 DEF LandCheckpoints, Settle, stored, runner, poller, limits, ghosts, LimitOK
<1>2. ASSUME NEW b \in Batches, NEW s \in Updates, LandStatus(b, s) PROVE LimitOK'
  BY <1>2 DEF LandStatus, Settle, Updates, stored, runner, poller, limits, ghosts, LimitOK
<1>3. ASSUME NEW b \in Batches, LandPurge(b) PROVE LimitOK'
  BY <1>3 DEF LandPurge, stored, runner, poller, limits, ghosts, LimitOK
<1>4. ASSUME NEW b \in Batches, LandDrop(b) PROVE LimitOK'
  BY <1>4 DEF LandDrop, Settle, stored, runner, poller, limits, ghosts, LimitOK
<1>5. ASSUME NEW b \in Batches, NEW o \in Operations, Lose(b, o) PROVE LimitOK'
  BY <1>5 DEF Lose, Settle, stored, runner, poller, limits, ghosts, LimitOK
<1>6. CASE PollBegin
  BY <1>6 DEF PollBegin, Undecided, stored, runner, poller, limits, ghosts, LimitOK
<1>7. ASSUME NEW b \in Batches, RecoverSkip(b) PROVE LimitOK'
  BY <1>7 DEF RecoverSkip, Handled, Issue, stored, runner, poller, limits, ghosts, LimitOK
<1>8. ASSUME NEW b \in Batches, Recover(b) PROVE LimitOK'
  BY <1>8 DEF Recover, Handled, Issue, stored, runner, poller, limits, ghosts, LimitOK
<1>9. CASE Scan
  <2>1. starting = {}
    BY <1>9 DEF Scan, PollOK
  <2> QED
    BY <1>9, <2>1, FewBatches, FS_EmptySet DEF Scan, runner, LimitOK, TypeOK
<1>10. ASSUME NEW b \in Batches, ScanCancel(b) PROVE LimitOK'
  BY <1>10 DEF ScanCancel, Handled, Issue, stored, runner, poller, limits, ghosts, LimitOK
<1>11. ASSUME NEW b \in Batches, ScanValidating(b) PROVE LimitOK'
  <2>1. starting = {} /\ Cardinality(starting) = 0 /\ Cardinality({b}) = 1
    BY <1>11, FS_EmptySet, FS_Singleton DEF ScanValidating, Handled
  <2>2. Cardinality(active) \in Nat /\ slots \in Nat /\ active' = active
    BY <1>11, FewBatches DEF ScanValidating, runner, TypeOK
  <2>3. poll' = "scan" /\ poll = "scan"
    BY <1>11 DEF ScanValidating, Handled
  <2>4. CASE slots < MaxConcurrent
    BY <1>11, <2>1, <2>2, <2>3, <2>4, ConcurrentAssumption DEF ScanValidating, LimitOK
  <2>5. CASE ~(slots < MaxConcurrent)
    BY <1>11, <2>1, <2>2, <2>3, <2>5, ConcurrentAssumption DEF ScanValidating, LimitOK
  <2> QED
    BY <2>4, <2>5
<1>12. ASSUME NEW b \in Batches, StartFailed(b) PROVE LimitOK'
  <2>1. /\ Cardinality({}) = 0 /\ Cardinality(starting) \in Nat /\ Cardinality(active) \in Nat
        /\ Cardinality(active') \in Nat /\ Cardinality(active') <= Cardinality(active)
    BY <1>12, FS_EmptySet, FewBatches, FS_Subset DEF StartFailed, TypeOK
  <2> QED
    BY <1>12, <2>1, ConcurrentAssumption DEF StartFailed, LimitOK, TypeOK
<1>13. ASSUME NEW b \in Batches, NEW k \in Copies, Start(b, k) PROVE LimitOK'
  <2>1. starting = {b} /\ poll = "scan" /\ starting' = {} /\ poll' = poll /\ slots' = slots
        /\ active' = active \cup {b}
    BY <1>13 DEF Start, PollOK
  <2>2. Cardinality(starting) = 1 /\ Cardinality({}) = 0
    BY <2>1, FS_Singleton, FS_EmptySet
  <2>3. /\ Cardinality(active') <= Cardinality(active) + 1
        /\ Cardinality(active) \in Nat /\ Cardinality(active') \in Nat
    <3>1. IsFiniteSet(active) /\ Cardinality(active) \in Nat
      BY FewBatches DEF TypeOK
    <3>2. Cardinality(active \cup {b}) = IF b \in active THEN Cardinality(active) ELSE Cardinality(active) + 1
      BY <3>1, FS_AddElement
    <3> QED
      BY <2>1, <3>1, <3>2
  <2> QED
    BY <2>1, <2>2, <2>3, ConcurrentAssumption DEF LimitOK, TypeOK
<1>14. CASE PollEnd
  BY <1>14 DEF PollEnd, PollOver, stored, runner, poller, limits, ghosts, TypeOK, LimitOK
<1>15. CASE PollFails
  BY <1>15 DEF PollFails, PollOver, stored, runner, poller, limits, ghosts, LimitOK
<1>16. ASSUME NEW b \in Batches, NEW k \in Copies, Load(b, k) PROVE LimitOK'
  BY <1>16 DEF Load, stored, runner, poller, limits, ghosts, LimitOK
<1>17. ASSUME NEW b \in Batches, NEW k \in Copies, Check(b, k) PROVE LimitOK'
  BY <1>17 DEF Check, stored, runner, poller, limits, ghosts, LimitOK
<1>18. ASSUME NEW b \in Batches, NEW k \in Copies, Recovered(b, k) PROVE LimitOK'
  BY <1>18 DEF Recovered, ItemDone, stored, runner, poller, limits, ghosts, LimitOK
<1>19. ASSUME NEW b \in Batches, NEW k \in Copies, Mark(b, k) PROVE LimitOK'
  BY <1>19 DEF Mark, stored, runner, poller, limits, ghosts, LimitOK
<1>20. ASSUME NEW b \in Batches, NEW k \in Copies, Send(b, k) PROVE LimitOK'
  BY <1>20 DEF Send, stored, runner, poller, limits, ghosts, LimitOK
<1>21. ASSUME NEW b \in Batches, NEW k \in Copies, Record(b, k) PROVE LimitOK'
  BY <1>21 DEF Record, ItemDone, stored, runner, poller, limits, ghosts, LimitOK
<1>22. ASSUME NEW b \in Batches, NEW k \in Copies, FinalCancelled(b, k) PROVE LimitOK'
  <2>1. active' \subseteq active /\ UNCHANGED <<poll, starting, slots>>
    BY <1>22 DEF FinalCancelled, RunEnds, poller
  <2> QED
    BY <2>1, FewerRuns
<1>23. ASSUME NEW b \in Batches, NEW k \in Copies, Final(b, k) PROVE LimitOK'
  BY <1>23 DEF Final, stored, runner, poller, limits, ghosts, LimitOK
<1>24. ASSUME NEW b \in Batches, NEW k \in Copies, MarkFinalizing(b, k) PROVE LimitOK'
  BY <1>24 DEF MarkFinalizing, stored, runner, poller, limits, ghosts, LimitOK
<1>25. ASSUME NEW b \in Batches, NEW k \in Copies, CompleteBatch(b, k) PROVE LimitOK'
  BY <1>25 DEF CompleteBatch, stored, runner, poller, limits, ghosts, LimitOK
<1>26. ASSUME NEW b \in Batches, NEW k \in Copies, Report(b, k) PROVE LimitOK'
  <2>1. active' \subseteq active /\ UNCHANGED <<poll, starting, slots>>
    BY <1>26 DEF Report, RunEnds, poller
  <2> QED
    BY <2>1, FewerRuns
<1>27. ASSUME NEW b \in Batches, NEW k \in Copies, Throw(b, k) PROVE LimitOK'
  <2>1. active' \subseteq active /\ UNCHANGED <<poll, starting, slots>>
    BY <1>27 DEF Throw, RunEnds, poller
  <2> QED
    BY <2>1, FewerRuns
<1>28. ASSUME NEW b \in Batches, Cancel(b) PROVE LimitOK'
  BY <1>28 DEF Cancel, Issue, stored, runner, poller, limits, ghosts, LimitOK
<1>29. ASSUME NEW b \in Batches, Delete(b) PROVE LimitOK'
  BY <1>29 DEF Delete, Issue, stored, runner, poller, limits, ghosts, LimitOK
<1>30. CASE Crash
  BY <1>30, FS_EmptySet, ConcurrentAssumption DEF Crash, LimitOK
<1>31. CASE UNCHANGED vars
  BY <1>31 DEF vars, stored, runner, poller, limits, ghosts, LimitOK
<1> QED
  BY <1>1, <1>2, <1>3, <1>4, <1>5, <1>6, <1>7, <1>8, <1>9, <1>10, <1>11, <1>12, <1>13,
         <1>14, <1>15, <1>16, <1>17, <1>18, <1>19, <1>20, <1>21, <1>22, <1>23, <1>24,
         <1>25, <1>26, <1>27, <1>28, <1>29, <1>30, <1>31 DEF Next, Land, Poll, Run

-----------------------------------------------------------------------------
(* The invariant holds in every reachable state. *)
LEMMA InvHolds == Spec => []Inv
<1>1. Init => Inv
  <2> SUFFICES ASSUME Init PROVE Inv
    OBVIOUS
  <2>1. TypeOK
    <3>1. /\ pc \in [Batches -> [Copies -> Pcs]] /\ at \in [Batches -> [Copies -> 1 .. NItems + 1]]
          /\ snap \in [Batches -> [Copies -> [Items -> Marks]]]
          /\ done \in [Batches -> [Copies -> SUBSET Items]]
      BY FirstItem DEF Init, Idle, Pcs
    <3> QED
      BY <3>1, FirstItem, CrashAssumption, RejectionsAssumption
         DEF Init, TypeOK, Pending, Statuses, Polls
  <2>2. \A b \in Batches, k \in Copies :
            pc[b][k] = "idle" /\ at[b][k] = 1 /\ done[b][k] = {} /\ ~Running(b, k)
    BY DEF Init, Idle, Running
  <2>3. \A b \in Batches, o \in Operations : ~Queued(b, o)
    BY DEF Init, Queued
  <2>4. RunsOK
    BY <2>2 DEF Init, RunsOK, Working, Running
  <2>5. ErasedOK /\ AskedOK
    BY <2>3 DEF Init, ErasedOK, AskedOK, Operations, Updates
  <2>6. PollOK
    BY <2>2, <2>3 DEF Init, PollOK, Working, Picked, Startable, Operations, Updates
  <2>7. SentOK
    BY <2>2 DEF Init, SentOK, Ahead
  <2>8. LimitOK
    BY FS_EmptySet, ConcurrentAssumption DEF Init, LimitOK
  <2>9. DoneOK
    BY <2>2, ItemsAssumption DEF DoneOK, DoneAt, Items
  <2>10. CompleteOK
    BY DEF Init, CompleteOK, CompletedIsComplete
  <2> QED
    BY <2>1, <2>4, <2>5, <2>6, <2>7, <2>8, <2>9, <2>10 DEF Inv
<1>2. Inv /\ [Next]_vars => Inv'
  BY TypeStep, RunsStep, PollStep, ErasedStep, SentStep, LimitStep, AskedStep, DoneStep, CompleteStep
     DEF Inv
<1> QED
  BY <1>1, <1>2, PTL DEF Spec

(* The rows, the checkpoints and the state of polls and runs keep their types. *)
THEOREM TypeCorrect == Spec => []TypeOK
<1>1. Inv => TypeOK
  BY DEF Inv
<1> QED
  BY <1>1, InvHolds, PTL

(* No item of a batch that was not deleted reaches a provider in two runs, wherever
   and however often the process crashes and whichever statements are late or lost:
   of any batch with one slot, of a batch that is not adrift with more. *)
THEOREM NeverReplayedHolds == Spec => []NeverReplayed
<1>1. Inv => NeverReplayed
  BY DEF Inv, SentOK, NeverReplayed
<1> QED
  BY <1>1, InvHolds, PTL

(* The poll never starts a batch that is running, although phase 2 does not consult
   activeBatches: with one slot because the run fills it, with more as long as the
   row says by the next poll what was decided. *)
THEOREM OneRunHolds == Spec => []OneRun
<1>1. Inv => OneRun
  BY DEF Inv, TypeOK, PollOK, OneRun
<1> QED
  BY <1>1, InvHolds, PTL

(* A completed batch nobody asked to cancel has an outcome of every item. *)
THEOREM CompletedIsCompleteHolds == Spec => []CompletedIsComplete
<1>1. Inv => CompletedIsComplete
  BY DEF Inv, CompleteOK
<1> QED
  BY <1>1, InvHolds, PTL

(* At most BATCH_MAX_CONCURRENT batches are processed at a time, although the
   count of them is taken once per poll and batches are started from what a row
   said then. *)
THEOREM LimitRespectedHolds == Spec => []LimitRespected
<1>1. Inv => LimitRespected
  <2> SUFFICES ASSUME Inv, \A b \in Batches : Sound(b)
               PROVE  Cardinality({b \in Batches : Working(b)}) <= MaxConcurrent
    BY DEF LimitRespected
  <2>1. active = {b \in Batches : Working(b)}
    BY DEF Inv, RunsOK, TypeOK
  <2> QED
    BY <2>1 DEF Inv, LimitOK
<1> QED
  BY <1>1, InvHolds, PTL
=============================================================================
