------------------------- MODULE ConnectionCooldown -------------------------
(***************************************************************************)
(* One row of provider_connections and everybody who writes its error      *)
(* state: requests that fail (markAccountUnavailable) or succeed           *)
(* (clearAccountError), the recovery tick, the quota recovery and the      *)
(* backoff decay of credential selection.  Every await is a point where    *)
(* the others run; updateProviderConnection() is a SELECT followed by an   *)
(* UPDATE of the whole row.                                                *)
(***************************************************************************)
EXTENDS Integers, FiniteSets

CONSTANTS
    Requests,       \* calls in flight; an idle one may start again
    Failures,       \* the kinds of failure that happen
    MaxBackoff,     \* maxBackoffSteps
    MaxMarks,       \* bound of this model on markAccountUnavailable() calls
    None

ASSUME RequestsAssumption == IsFiniteSet(Requests) /\ None \notin Requests
ASSUME BoundsAssumption == MaxBackoff \in Nat /\ MaxMarks \in Nat

VARIABLES
    row,            \* the connection as stored
    call,           \* call[r]: the local state of r
    tail,           \* markMutexes.get(connectionId): whose promise, or None
    prev,           \* prev[r]: the unresolved promise r awaits, or None
    decay,          \* requests whose resetConnectionBackoff() is still to run
    marks,          \* failures so far; their number stands for their time
    elapsed         \* the marks whose cooldown is over

vars == <<row, call, tail, prev, decay, marks, elapsed>>

(* Times are the numbers of the marks that wrote them; 0 is null.  lastError,
   errorCode and lastErrorType are set and cleared with lastErrorAt. *)
Times == 0 .. MaxMarks
Row ==
    [status : {"active", "unavailable", "terminal"}, until : Times,
     level : 0 .. MaxBackoff, errorAt : Times, active : BOOLEAN]

(* How a failure is classified, by what markAccountUnavailable() then does:
   bypass    a resource 404, nothing read or written
   refuse    no fallback, or a Codex scope that is limited already: no write
   model     a lockout of the model; the error is noted without waiting
   mode      a lockout of a Grok mode; the error is noted, holding the mutex
   cool      a cooldown with the next backoff level
   hint      a cooldown taken from the upstream's own reset time, level 0
   combo     the combo engine handles it: error and level, no cooldown
   uncooled  no cooldown (disableCooling, or a length of zero)
   scope     the Codex scope is limited, not the connection
   terminal  expired or out of credits
   ban       permanent, and autoDisableBannedAccounts is on
   "disable" and "clear" are the other updates a call can make. *)
Kinds ==
    {"bypass", "refuse", "model", "mode", "cool", "hint", "combo", "uncooled", "scope",
     "terminal", "ban"}

ASSUME FailuresAssumption == Failures \subseteq Kinds

MarkPhases == {"wait", "read", "select", "write", "close"}

Idle ==
    [phase |-> "idle", kind |-> "clear", at |-> 0, level |-> 0,
     view |-> [status |-> "active", until |-> 0, level |-> 0, errorAt |-> 0,
               active |-> TRUE]]

(* Types, the backoff never passes its cap, and only failures carry a time. *)
TypeOK ==
    /\ row \in Row
    /\ call \in [Requests ->
                   [phase : {"idle", "flying", "quota"} \cup MarkPhases,
                    kind : Kinds \cup {"clear", "disable"}, at : Times,
                    level : 0 .. MaxBackoff, view : Row]]
    /\ tail \in Requests \cup {None}
    /\ prev \in [Requests -> Requests \cup {None}]
    /\ decay \subseteq Requests
    /\ marks \in Times
    /\ elapsed \subseteq 1 .. marks

Init ==
    /\ row = Idle.view
    /\ call = [r \in Requests |-> Idle]
    /\ tail = None
    /\ prev = [r \in Requests |-> None]
    /\ decay = {}
    /\ marks = 0
    /\ elapsed = {}

Terminal(c) == c.status = "terminal"
Cooling(c) == c.until # 0 /\ c.until \notin elapsed
HasError(c) == c.status # "active" \/ c.errorAt # 0 \/ c.until # 0

-----------------------------------------------------------------------------
(* Mutant of SelectConnection: a terminal connection whose cooldown is over, or
   that has none, is eligible again. *)
SelectConnectionTerminal(r) ==
    /\ call[r].phase = "idle"
    /\ row.active /\ ~Cooling(row)
    /\ call' = [call EXCEPT ![r] = [Idle EXCEPT !.phase = "flying", !.view = row]]
    /\ decay' = IF row.level > 0 THEN decay \cup {r} ELSE decay
    /\ UNCHANGED <<row, tail, prev, marks, elapsed>>

(* getProviderCredentials() picks the connection.  An elapsed cooldown with a
   backoff level left starts resetConnectionBackoff(), which nobody awaits. *)
SelectConnection(r) ==
    /\ call[r].phase = "idle"
    /\ row.active /\ ~Terminal(row) /\ ~Cooling(row)
    /\ call' = [call EXCEPT ![r] = [Idle EXCEPT !.phase = "flying", !.view = row]]
    /\ decay' = IF row.level > 0 THEN decay \cup {r} ELSE decay
    /\ UNCHANGED <<row, tail, prev, marks, elapsed>>

(* resetConnectionBackoff(): leaves rate_limited_until and is_active alone. *)
ResetConnectionBackoff(r) ==
    /\ r \in decay
    /\ row' = [row EXCEPT !.level = 0, !.status = "active", !.errorAt = 0]
    /\ decay' = decay \ {r}
    /\ UNCHANGED <<call, tail, prev, marks, elapsed>>

(* The upstream answers: clearAccountError() decides on the row as it was when
   the connection was selected. *)
Succeed(r) ==
    /\ call[r].phase = "flying"
    /\ call' = [call EXCEPT ![r] =
                  IF HasError(@.view) THEN [Idle EXCEPT !.phase = "select"] ELSE Idle]
    /\ UNCHANGED <<row, tail, prev, decay, marks, elapsed>>

(* The recovery tick found an elapsed cooldown and calls clearAccountError(). *)
RecoveryTick(r) ==
    /\ call[r].phase = "idle"
    /\ row.active /\ row.status = "unavailable" /\ row.until \in elapsed
    /\ call' = [call EXCEPT ![r] = [Idle EXCEPT !.phase = "select"]]
    /\ UNCHANGED <<row, tail, prev, decay, marks, elapsed>>

-----------------------------------------------------------------------------
(* markAccountUnavailable() up to its first await: remember the promise in the
   map and put an own one there. *)
MarkEnter(r, kind) ==
    /\ call[r].phase = "flying"
    /\ marks < MaxMarks
    /\ marks' = marks + 1
    /\ call' = [call EXCEPT ![r] = [Idle EXCEPT !.phase = "wait", !.kind = kind,
                                                !.at = marks + 1]]
    /\ prev' = [prev EXCEPT ![r] = tail]
    /\ tail' = r
    /\ UNCHANGED <<row, decay, elapsed>>

(* Mutant of Finally: the entry stays. *)
FinallyKeepsEntry(r) ==
    /\ prev' = [x \in Requests |-> IF prev[x] = r THEN None ELSE prev[x]]
    /\ UNCHANGED tail

(* The finally block: resolve the own promise, delete whatever the map holds. *)
Finally(r) ==
    /\ prev' = [x \in Requests |-> IF prev[x] = r THEN None ELSE prev[x]]
    /\ tail' = None

(* The awaited promise is resolved; a resource 404 returns before any read. *)
MarkStart(r) ==
    /\ call[r].phase = "wait" /\ prev[r] = None
    /\ IF call[r].kind = "bypass"
         THEN Finally(r) /\ call' = [call EXCEPT ![r] = Idle]
         ELSE call' = [call EXCEPT ![r].phase = "read"] /\ UNCHANGED <<tail, prev>>
    /\ UNCHANGED <<row, decay, marks, elapsed>>

(* Mutant of NextLevel: the backoff is not capped. *)
NextLevelUncapped(kind, level) ==
    CASE kind = "cool" -> level + 1
      [] kind = "hint" -> 0
      [] OTHER -> level

(* newBackoffLevel ?? backoffLevel *)
NextLevel(kind, level) ==
    CASE kind = "cool" -> IF level < MaxBackoff THEN level + 1 ELSE MaxBackoff
      [] kind = "hint" -> 0
      [] OTHER -> level

(* The read, the guards on what it returned, and the classification. *)
MarkRead(r) ==
    LET skip == Terminal(row) \/ Cooling(row) \/ call[r].kind = "refuse"
    IN  /\ call[r].phase = "read"
        /\ call' = [call EXCEPT ![r] =
                      IF skip THEN Idle
                              ELSE [@ EXCEPT !.phase = "select",
                                             !.level = NextLevel(call[r].kind, row.level)]]
        /\ IF skip \/ call[r].kind = "model"
             THEN Finally(r)
             ELSE UNCHANGED <<tail, prev>>
        /\ UNCHANGED <<row, decay, marks, elapsed>>

(* The SELECT of updateProviderConnection(). *)
UpdateSelect(r) ==
    /\ call[r].phase = "select"
    /\ call' = [call EXCEPT ![r].phase = "write", ![r].view = row]
    /\ UNCHANGED <<row, tail, prev, decay, marks, elapsed>>

(* Mutant of Merged: an error the combo engine handles is not stamped. *)
MergedUnstamped(c) ==
    LET noted == [c.view EXCEPT !.errorAt = c.at, !.level = c.level]
    IN  CASE c.kind = "clear" -> [Idle.view EXCEPT !.active = c.view.active]
          [] c.kind = "disable" -> [c.view EXCEPT !.active = FALSE]
          [] c.kind \in {"model", "mode"} -> [c.view EXCEPT !.errorAt = c.at]
          [] c.kind \in {"cool", "hint"} ->
                [noted EXCEPT !.until = c.at, !.status = "unavailable"]
          [] c.kind = "combo" -> [c.view EXCEPT !.level = c.level]
          [] c.kind = "uncooled" -> [noted EXCEPT !.until = 0]
          [] c.kind = "scope" -> [noted EXCEPT !.status = "unavailable"]
          [] c.kind \in {"terminal", "ban"} ->
                [noted EXCEPT !.until = 0, !.status = "terminal"]

(* The selected row overlaid with the fields of the update. *)
Merged(c) ==
    LET noted == [c.view EXCEPT !.errorAt = c.at, !.level = c.level]
    IN  CASE c.kind = "clear" -> [Idle.view EXCEPT !.active = c.view.active]
          [] c.kind = "disable" -> [c.view EXCEPT !.active = FALSE]
          [] c.kind \in {"model", "mode"} -> [c.view EXCEPT !.errorAt = c.at]
          [] c.kind \in {"cool", "hint"} ->
                [noted EXCEPT !.until = c.at, !.status = "unavailable"]
          [] c.kind = "combo" -> noted
          [] c.kind = "uncooled" -> [noted EXCEPT !.until = 0]
          [] c.kind = "scope" -> [noted EXCEPT !.status = "unavailable"]
          [] c.kind \in {"terminal", "ban"} ->
                [noted EXCEPT !.until = 0, !.status = "terminal"]

(* Its UPDATE.  A ban goes on to disable the account with a second update;
   clears and model errors hold no mutex and are done. *)
UpdateWrite(r) ==
    /\ call[r].phase = "write"
    /\ row' = Merged(call[r])
    /\ call' = [call EXCEPT ![r] =
                  CASE call[r].kind \in {"clear", "model"} -> Idle
                    [] call[r].kind = "ban" ->
                          [@ EXCEPT !.phase = "select", !.kind = "disable"]
                    [] OTHER -> [@ EXCEPT !.phase = "close"]]
    /\ UNCHANGED <<tail, prev, decay, marks, elapsed>>

MarkClose(r) ==
    /\ call[r].phase = "close"
    /\ Finally(r)
    /\ call' = [call EXCEPT ![r] = Idle]
    /\ UNCHANGED <<row, decay, marks, elapsed>>

(* r runs markAccountUnavailable(): it waits for the mutex or holds it. *)
InMark(r) ==
    /\ call[r].phase \in MarkPhases
    /\ call[r].kind \in (Kinds \cup {"disable"}) \ {"model"} \/ call[r].phase \in {"wait", "read"}

(* Mutant of DatabaseThrows: the exception leaves past the finally block. *)
DatabaseThrowsPast(r) ==
    /\ call[r].phase \in {"read", "select", "write"}
    /\ call' = [call EXCEPT ![r] = Idle]
    /\ UNCHANGED <<row, tail, prev, decay, marks, elapsed>>

(* A read or an update is rejected: markAccountUnavailable() leaves through its
   finally block, a clear and the update of a model error without one. *)
DatabaseThrows(r) ==
    /\ call[r].phase \in {"read", "select", "write"}
    /\ call' = [call EXCEPT ![r] = Idle]
    /\ IF InMark(r) THEN Finally(r) ELSE UNCHANGED <<tail, prev>>
    /\ UNCHANGED <<row, decay, marks, elapsed>>

-----------------------------------------------------------------------------
(* maybeClearRecoveredQuotaState() has a snapshot with transient error state and a
   usage report that shows quota, and the error is not one of an exhausted quota whose
   cooldown still runs (rows do not tell the types of errors apart) ... *)
QuotaSnapshot(r) ==
    /\ call[r].phase = "idle"
    /\ ~Terminal(row) /\ (HasError(row) \/ row.level > 0)
    /\ call' = [call EXCEPT ![r] = [Idle EXCEPT !.phase = "quota", !.view = row]]
    /\ UNCHANGED <<row, tail, prev, decay, marks, elapsed>>

Token(c) == <<c.status, c.errorAt, c.until>>

(* ... and clearConnectionErrorIfUnchanged() runs its conditional UPDATE. *)
QuotaClear(r) ==
    /\ call[r].phase = "quota"
    /\ row' = IF Token(row) = Token(call[r].view)
                THEN [Idle.view EXCEPT !.active = row.active]
                ELSE row
    /\ call' = [call EXCEPT ![r] = Idle]
    /\ UNCHANGED <<tail, prev, decay, marks, elapsed>>

(* The clock passes the cooldown of mark m. *)
Expire(m) ==
    /\ m \in 1 .. marks /\ m \notin elapsed
    /\ elapsed' = elapsed \cup {m}
    /\ UNCHANGED <<row, call, tail, prev, decay, marks>>

MarkStep(r) ==
    \/ MarkStart(r) \/ MarkRead(r) \/ UpdateSelect(r) \/ UpdateWrite(r) \/ MarkClose(r)
    \/ DatabaseThrows(r)

Next ==
    \/ \E r \in Requests :
          \/ SelectConnection(r) \/ Succeed(r)
          \/ \E kind \in Failures : MarkEnter(r, kind)
          \/ MarkStep(r)
          \/ RecoveryTick(r) \/ QuotaSnapshot(r) \/ QuotaClear(r)
          \/ ResetConnectionBackoff(r)
    \/ \E m \in 1 .. MaxMarks : Expire(m)

Spec == Init /\ [][Next]_vars

(* A call that has its promise resolved or its database answer runs on, and a
   statement is answered or rejected. *)
FairSpec == Spec /\ \A r \in Requests : WF_vars(MarkStep(r))

-----------------------------------------------------------------------------
(* The per-connection mutex map holds no promise of a call that has returned,
   and nobody awaits one: deleting another caller's entry in the finally block
   leaks nothing and strands nobody. *)
MutexEntriesLive ==
    /\ tail # None => InMark(tail)
    /\ \A r \in Requests : prev[r] # None => InMark(prev[r])

(* Every failure that waits for the mutex gets its turn. *)
MarksProceed == \A r \in Requests : call[r].phase = "wait" ~> call[r].phase # "wait"

(* Calls never all wait for each other's promises, although the finally block deletes
   entries that are not its own: the safety half of MarksProceed, which holds for
   every instance by a theorem of ConnectionCooldownProofs. *)
Blocked(r) == call[r].phase = "wait" /\ prev[r] # None
NoStandstill ==
    (\E r \in Requests : Blocked(r)) => \E q \in Requests : InMark(q) /\ ~Blocked(q)

(* The columns clearConnectionErrorIfUnchanged() compares stand for the whole
   error state: when the quota recovery clears the row, the row is the one it
   saw, so no error recorded since is erased. *)
QuotaClearSeesAll ==
    [][\A r \in Requests :
         (call[r].phase = "quota" /\ call'[r].phase = "idle" /\ row' # row) =>
             [row EXCEPT !.active = call[r].view.active] = call[r].view]_vars

(* A terminal state is only ever undone by calls that were under way when it was
   written: once the row is terminal and they have all returned, no selection,
   recovery tick, quota recovery or backoff decay starts that would bring the
   connection back. *)
AtRest == decay = {} /\ \A r \in Requests : call[r].phase = "idle"
TerminalRests == [](Terminal(row) /\ AtRest => []Terminal(row))
=============================================================================
