---------------------------- MODULE TokenRefresh ----------------------------
(***************************************************************************)
(* OAuth refresh of the connections of one rotation group, whose refresh   *)
(* tokens are single-use: the per-connection mutex, the rotation map and   *)
(* the staleness check of open-sse/services/tokenRefresh.ts, the group's   *)
(* lane of refreshSerializer.ts, and what each caller does with the row    *)
(* afterwards.  The providers meant are those whose executor refreshes     *)
(* through getAccessToken() with a connectionId.                           *)
(*                                                                         *)
(* A connection's refresh tokens are numbered in the order upstream issues *)
(* them.  A refresh yields such a number, Fail (null) or Dead (an          *)
(* unrecoverable error).                                                   *)
(***************************************************************************)
EXTENDS Integers, FiniteSets

CONSTANTS
    Callers, Connections,
    Paths,          \* Paths[c]: the paths to a refresh of c in use, see AllPaths
    Expiries,       \* the stages of an access token told apart, see AllExpiries
    MaxToken,       \* MaxToken[c]: bound of this model on the rotations of c
    MaxAttempts,    \* maxRetries of refreshWithRetry()
    DbFailures,     \* the accesses to the database that may fail, see AllDbFailures
    NullOnDead,     \* the connections of CodexExecutor, which hides why a refresh failed
    None

(*   reactive   chatCore after a 401/403: compare-and-swap guard, retries  *)
(*   proactive  BaseExecutor.execute() when the token is about to expire   *)
(*   check      checkAndRefreshToken()                                     *)
(*   quota      refreshAndUpdateCredentials() of the usage pages           *)
AllPaths == {"reactive", "proactive", "check", "quota"}

(* expiresAt is beyond the refresh lead time ("long"), within it ("near"), or
   less than a minute away or past ("over"); only the paths that look ahead tell
   the first two apart. *)
AllExpiries == {"long", "near", "over"}

(* The staleness check, the guard's reread, a write, the read before deactivation. *)
AllDbFailures == {"stale", "reread", "write", "confirm"}

ASSUME ConnectionsAssumption == Connections # {}
ASSUME PathsAssumption == Paths \in [Connections -> SUBSET AllPaths]
ASSUME ExpiriesAssumption == {"long", "over"} \subseteq Expiries /\ Expiries \subseteq AllExpiries
ASSUME BoundsAssumption ==
    MaxToken \in [Connections -> Nat] /\ MaxAttempts \in Nat \ {0}
ASSUME DbAssumption == DbFailures \subseteq AllDbFailures
ASSUME NullAssumption == NullOnDead \subseteq Connections
ASSUME NoneAssumption ==
    None \notin Callers /\ None \notin Callers \X {"outer", "inner"}

VARIABLES
    row,            \* row[c]: the stored connection
    live,           \* live[c]: the token upstream accepts (external), or Dead
    rotated,        \* tokenRotationMap: <<connection, old token, new token>>
    mutex,          \* connectionRefreshMutex: who runs the refresh, or None
    call,           \* call[p]: the local state of p
    tail,           \* groupTail.get(group): whose ticket, or None
    after           \* after[t]: the unreleased ticket t awaits, or None

vars == <<row, live, rotated, mutex, call, tail, after>>

Tokens  == UNION {0 .. MaxToken[c] : c \in Connections}
Fail    == -1
Dead    == -2
Results == Tokens \cup {Fail, Dead}

(* Each serializeRefresh() call in progress; a caller may nest two. *)
Tickets == Callers \X {"outer", "inner"}

Pcs == {"idle", "start", "outer", "share", "check", "inner", "gap", "cas",
        "write", "after", "condemn", "outerGap", "final"}
OwnerPcs == {"check", "inner", "gap", "cas", "write"}

Row  == [token : Tokens, expiry : Expiries, active : BOOLEAN]
Call == [pc : Pcs, path : AllPaths, conn : Connections, attempted : Tokens,
         held : Tokens, result : Results, persisted : BOOLEAN, attempt : 1 .. MaxAttempts,
         lease : Expiries, \* the expiry a result that is a token comes with
         about : Tokens]   \* history: the token a result of Dead is about

(* Types, and the lane's tail is a ticket that somebody still holds. *)
TypeOK ==
    /\ row \in [Connections -> Row]
    /\ live \in [Connections -> Tokens \cup {Dead}]
    /\ rotated \subseteq Connections \X Tokens \X Tokens
    /\ mutex \in [Connections -> Callers \cup {None}]
    /\ call \in [Callers -> Call]
    /\ after \in [Tickets -> Tickets \cup {None}]
    /\ tail \in Tickets \cup {None}
    /\ tail # None => call[tail[1]].pc # "idle"

Idle ==
    [pc |-> "idle", path |-> "check", conn |-> CHOOSE c \in Connections : TRUE,
     attempted |-> 0, held |-> 0, result |-> Fail, persisted |-> FALSE, attempt |-> 1,
     lease |-> "long", about |-> 0]

Init ==
    /\ row = [c \in Connections |-> [token |-> 0, expiry |-> "long", active |-> TRUE]]
    /\ live = [c \in Connections |-> 0]
    /\ rotated = {}
    /\ mutex = [c \in Connections |-> None]
    /\ call = [p \in Callers |-> Idle]
    /\ tail = None
    /\ after = [t \in Tickets |-> None]

Set(p, local) == call' = [call EXCEPT ![p] = local]
At(p, pc) == call[p].pc = pc
Conn(p) == call[p].conn

-----------------------------------------------------------------------------
(* serializeRefresh(): join the lane behind its tail ... *)
Join(t) ==
    /\ after' = [after EXCEPT ![t] = tail]
    /\ tail' = t

(* Mutant of LeaveLane: the lane is collected although somebody chained. *)
LeaveLaneAlways(t) ==
    /\ after' = [s \in Tickets |-> IF after[s] = t THEN None ELSE after[s]]
    /\ tail' = None

(* Mutant of LeaveLane: the lane is never collected. *)
LeaveLaneKept(t) ==
    /\ after' = [s \in Tickets |-> IF after[s] = t THEN None ELSE after[s]]
    /\ UNCHANGED tail

(* Mutant of LeaveLane: releaseMine() is forgotten. *)
LeaveLaneUnreleased(t) ==
    /\ tail' = IF tail = t THEN None ELSE tail
    /\ UNCHANGED after

(* ... and leave it: the successor may run, an unchained lane is collected. *)
LeaveLane(t) ==
    /\ after' = [s \in Tickets |-> IF after[s] = t THEN None ELSE after[s]]
    /\ tail' = IF tail = t THEN None ELSE tail

(* The settle gap is only paid when a sibling is already queued. *)
HasSuccessor(t) == tail # t

-----------------------------------------------------------------------------
(* A caller loads an active connection and decides to refresh its token: for its
   expiry, or after upstream has refused the access token. *)
Begin(p, path, c) ==
    /\ At(p, "idle")
    /\ row[c].active /\ row[c].token < MaxToken[c]
    /\ path \in {"proactive", "check"} => row[c].expiry # "long"
    /\ Set(p, [Idle EXCEPT !.pc = "start", !.path = path, !.conn = c,
                           !.attempted = row[c].token, !.held = row[c].token])
    /\ UNCHANGED <<row, live, rotated, mutex, tail, after>>

(* refreshAndUpdateCredentials() takes the lane around the executor's refresh. *)
EnterOuter(p) ==
    /\ At(p, "start") /\ call[p].path = "quota"
    /\ Join(<<p, "outer">>)
    /\ Set(p, [call[p] EXCEPT !.pc = "outer"])
    /\ UNCHANGED <<row, live, rotated, mutex>>

(* getAccessToken() is reached directly, or when the outer lane is ours. *)
Calls(p) ==
    \/ At(p, "start") /\ call[p].path # "quota"
    \/ At(p, "outer") /\ after[<<p, "outer">>] = None

Rotations(p) == {e \in rotated : e[1] = Conn(p) /\ e[2] = call[p].held}

(* getAccessToken(), layer 1: share the refresh in flight ... *)
Share(p) ==
    /\ Calls(p)
    /\ mutex[Conn(p)] # None
    /\ Set(p, [call[p] EXCEPT !.pc = "share"])
    /\ UNCHANGED <<row, live, rotated, mutex, tail, after>>

(* ... or run it: lookupRotation() answers for a token rotated recently ... *)
RotationHit(p) ==
    /\ Calls(p)
    /\ mutex[Conn(p)] = None
    /\ \E e \in Rotations(p) :
          Set(p, [call[p] EXCEPT !.pc = "cas", !.result = e[3], !.lease = "long"])
    /\ mutex' = [mutex EXCEPT ![Conn(p)] = p]
    /\ UNCHANGED <<row, live, rotated, tail, after>>

(* Mutant of Own: the refresh in flight is not looked for. *)
OwnAnyway(p) ==
    /\ Calls(p)
    /\ Rotations(p) = {}
    /\ Set(p, [call[p] EXCEPT !.pc = "check"])
    /\ mutex' = [mutex EXCEPT ![Conn(p)] = p]
    /\ UNCHANGED <<row, live, rotated, tail, after>>

(* ... or the row is looked at next. *)
Own(p) ==
    /\ Calls(p)
    /\ mutex[Conn(p)] = None
    /\ Rotations(p) = {}
    /\ Set(p, [call[p] EXCEPT !.pc = "check"])
    /\ mutex' = [mutex EXCEPT ![Conn(p)] = p]
    /\ UNCHANGED <<row, live, rotated, tail, after>>

(* The staleness check: the row has a newer token that is valid; its expiresAt comes
   with it, whereas a minted token brings a lifetime that counts from its storing ... *)
UseStored(p) ==
    LET stored == row[Conn(p)]
    IN  /\ At(p, "check")
        /\ stored.token # call[p].held /\ stored.expiry # "over"
        /\ Set(p, [call[p] EXCEPT !.pc = "cas", !.result = stored.token,
                                  !.lease = stored.expiry])
        /\ UNCHANGED <<row, live, rotated, mutex, tail, after>>

(* ... or is refreshed with the row's token, in the group's lane.  A failure to
   read the row only warns. *)
EnterLane(p, readFails) ==
    LET stored == row[Conn(p)]
    IN  /\ At(p, "check")
        /\ readFails => "stale" \in DbFailures
        /\ readFails \/ stored.token = call[p].held \/ stored.expiry = "over"
        /\ Join(<<p, "inner">>)
        /\ Set(p, [call[p] EXCEPT !.pc = "inner",
                                  !.held = IF readFails THEN @ ELSE stored.token])
        /\ UNCHANGED <<row, live, rotated, mutex>>

(* Our turn: _getAccessTokenInternal() presents the token. *)
Posting(p) == At(p, "inner") /\ after[<<p, "inner">>] = None

(* The lane is left and recordRotation() notes a new token. *)
Minted(p, result) ==
    /\ LeaveLane(<<p, "inner">>)
    /\ rotated' = IF result >= 0 THEN rotated \cup {<<Conn(p), call[p].held, result>>}
                                 ELSE rotated
    /\ Set(p, [call[p] EXCEPT !.pc = "cas", !.result = result, !.lease = "long"])

(* What upstream (external) answers: a new token, no usable reply (the token spent
   or not), or for a token presented twice an error, which may revoke the family. *)
Answers(p) ==
    LET c == Conn(p)
        h == call[p].held
    IN  IF h = live[c]
          THEN {[result |-> Fail, live |-> h], [result |-> Fail, live |-> h + 1],
                [result |-> h + 1, live |-> h + 1]}
          ELSE {[result |-> Dead, live |-> Dead], [result |-> Dead, live |-> live[c]]}

Reply(p, a) ==
    LET c == Conn(p)
    IN  /\ Posting(p)
        /\ a \in Answers(p)
        /\ a.live <= MaxToken[c]
        /\ live' = [live EXCEPT ![c] = a.live]
        /\ IF HasSuccessor(<<p, "inner">>)
             THEN /\ Set(p, [call[p] EXCEPT !.pc = "gap", !.result = a.result])
                  /\ UNCHANGED <<rotated, tail, after>>
             ELSE Minted(p, a.result)
        /\ UNCHANGED <<row, mutex>>

GapOver(p) ==
    /\ At(p, "gap")
    /\ Minted(p, call[p].result)
    /\ UNCHANGED <<row, live, mutex>>

-----------------------------------------------------------------------------
(* What the caller gets of a result: CodexExecutor.refreshCredentials() returns null
   for an unrecoverable error, checkAndRefreshToken() does not go through it. *)
Seen(p, result) ==
    IF result = Dead /\ Conn(p) \in NullOnDead /\ call[p].path # "check" THEN Fail ELSE result

(* The promise settles: the mutex is free and everybody has the result; only
   the caller that ran it knows its onPersist fired. *)
Settle(p, persisted) ==
  LET subject == IF call[p].result = Dead THEN call[p].held ELSE 0
  IN
    /\ mutex' = [mutex EXCEPT ![Conn(p)] = None]
    /\ call' = [q \in Callers |->
                  IF q = p
                    THEN [call[q] EXCEPT !.pc = "after", !.result = Seen(q, @),
                                         !.persisted = @ \/ persisted, !.about = subject]
                    ELSE IF At(q, "share") /\ Conn(q) = Conn(p)
                           THEN [call[q] EXCEPT !.pc = "after",
                                                !.result = Seen(q, call[p].result),
                                                !.lease = call[p].lease, !.about = subject]
                           ELSE call[q]]

(* casGuardShouldSkipPersist() rereads the row for the reactive path. *)
CasSkips(p) == call[p].path = "reactive" /\ row[Conn(p)].token # call[p].attempted

(* Nothing to persist, nobody to persist it, or the guard says not to. *)
PersistSkipped(p) ==
    /\ At(p, "cas")
    /\ call[p].result < 0 \/ call[p].path = "quota" \/ CasSkips(p)
    /\ Settle(p, FALSE)
    /\ UNCHANGED <<row, live, rotated, tail, after>>

PersistBegun(p, rereadFails) ==
    /\ At(p, "cas")
    /\ call[p].result >= 0 /\ call[p].path # "quota"
    /\ rereadFails => "reread" \in DbFailures /\ CasSkips(p)
    /\ CasSkips(p) => rereadFails
    /\ Set(p, [call[p] EXCEPT !.pc = "write"])
    /\ UNCHANGED <<row, live, rotated, mutex, tail, after>>

(* updateProviderCredentials(): a failing write is logged, not thrown. *)
StoreToken(p, fails) ==
    /\ fails => "write" \in DbFailures
    /\ row' = IF fails THEN row
              ELSE [row EXCEPT ![Conn(p)] = [@ EXCEPT !.token = call[p].result,
                                                      !.expiry = call[p].lease]]

Persist(p, fails) ==
    /\ At(p, "write")
    /\ StoreToken(p, fails)
    /\ Settle(p, TRUE)
    /\ UNCHANGED <<live, rotated, tail, after>>

-----------------------------------------------------------------------------
(* After getAccessToken(): a path whose persist callback did not run writes the
   result itself, outside the mutex. *)
WritesItself(p) == call[p].path \in {"reactive", "proactive"} /\ ~call[p].persisted

Done(p) ==
    /\ At(p, "after") /\ call[p].path # "quota"
    /\ \/ call[p].result >= 0 /\ ~WritesItself(p)
       \/ call[p].result = Dead /\ call[p].path # "reactive"
       \/ call[p].result = Fail /\ (call[p].path # "reactive" \/ call[p].attempt = MaxAttempts)
    /\ Set(p, Idle)
    /\ UNCHANGED <<row, live, rotated, mutex, tail, after>>

FallbackWrite(p, fails) ==
    /\ At(p, "after")
    /\ call[p].result >= 0 /\ WritesItself(p)
    /\ StoreToken(p, fails)
    /\ Set(p, Idle)
    /\ UNCHANGED <<live, rotated, mutex, tail, after>>

(* refreshWithRetry() tries again after null. *)
Retry(p) ==
    /\ At(p, "after") /\ call[p].path = "reactive"
    /\ call[p].result = Fail /\ call[p].attempt < MaxAttempts
    /\ Set(p, [call[p] EXCEPT !.pc = "start", !.attempt = @ + 1])
    /\ UNCHANGED <<row, live, rotated, mutex, tail, after>>

(* Mutant of Confirm: the row is not reread. *)
ConfirmUnchecked(p, readFails) ==
    /\ At(p, "after") /\ call[p].path = "reactive" /\ call[p].result = Dead
    /\ readFails => "confirm" \in DbFailures
    /\ Set(p, [call[p] EXCEPT !.pc = "condemn"])
    /\ UNCHANGED <<row, live, rotated, mutex, tail, after>>

(* The reactive path rereads the row after an unrecoverable refresh: when it has moved
   on from the token the path started with the connection is kept ... *)
Confirm(p, readFails) ==
    /\ At(p, "after") /\ call[p].path = "reactive" /\ call[p].result = Dead
    /\ readFails => "confirm" \in DbFailures
    /\ Set(p, IF readFails \/ row[Conn(p)].token = call[p].attempted
                THEN [call[p] EXCEPT !.pc = "condemn"]
                ELSE Idle)
    /\ UNCHANGED <<row, live, rotated, mutex, tail, after>>

(* ... and is deactivated otherwise, by a statement that does not look again. *)
Condemn(p, fails) ==
    /\ At(p, "condemn")
    /\ fails => "write" \in DbFailures
    /\ row' = IF fails THEN row ELSE [row EXCEPT ![Conn(p)].active = FALSE]
    /\ Set(p, Idle)
    /\ UNCHANGED <<live, rotated, mutex, tail, after>>

(* The quota path leaves its lane, after the settle gap if there is one ... *)
OuterDone(p) ==
    /\ At(p, "after") /\ call[p].path = "quota"
    /\ IF HasSuccessor(<<p, "outer">>)
         THEN /\ Set(p, [call[p] EXCEPT !.pc = "outerGap"])
              /\ UNCHANGED <<tail, after>>
         ELSE /\ LeaveLane(<<p, "outer">>)
              /\ Set(p, [call[p] EXCEPT !.pc = "final"])
    /\ UNCHANGED <<row, live, rotated, mutex>>

OuterGapOver(p) ==
    /\ At(p, "outerGap")
    /\ LeaveLane(<<p, "outer">>)
    /\ Set(p, [call[p] EXCEPT !.pc = "final"])
    /\ UNCHANGED <<row, live, rotated, mutex>>

(* ... and stores what it got. *)
QuotaWrite(p, fails) ==
    /\ At(p, "final")
    /\ IF call[p].result >= 0 THEN StoreToken(p, fails) ELSE ~fails /\ UNCHANGED row
    /\ Set(p, Idle)
    /\ UNCHANGED <<live, rotated, mutex, tail, after>>

-----------------------------------------------------------------------------
(* The access token comes closer to its expiry.  It outlives the entry of the
   rotation map it came with. *)
ExpireAccess(c, e) ==
    /\ row[c].expiry = "long" \/ e = "over"
    /\ e # row[c].expiry
    /\ \A x \in rotated : x[1] # c
    /\ row' = [row EXCEPT ![c].expiry = e]
    /\ UNCHANGED <<live, rotated, mutex, call, tail, after>>

(* ROTATION_MAP_TTL_MS passes, first for the oldest entry. *)
ExpireRotation(e) ==
    /\ \A f \in rotated : f[1] = e[1] => f[2] >= e[2]
    /\ rotated' = rotated \ {e}
    /\ UNCHANGED <<row, live, mutex, call, tail, after>>

(* What p does without anybody starting anything. *)
Step(p) ==
    \/ EnterOuter(p) \/ Share(p) \/ RotationHit(p) \/ Own(p)
    \/ UseStored(p) \/ GapOver(p)
    \/ \E a \in Answers(p) : Reply(p, a)
    \/ PersistSkipped(p) \/ Done(p) \/ Retry(p) \/ OuterDone(p) \/ OuterGapOver(p)
    \/ \E fails \in BOOLEAN :
          \/ EnterLane(p, fails) \/ PersistBegun(p, fails) \/ Persist(p, fails)
          \/ FallbackWrite(p, fails) \/ QuotaWrite(p, fails)
          \/ Confirm(p, fails) \/ Condemn(p, fails)

Next ==
    \/ \E p \in Callers : Step(p)
    \/ \E p \in Callers, c \in Connections : \E path \in Paths[c] : Begin(p, path, c)
    \/ \E c \in Connections, e \in Expiries : ExpireAccess(c, e)
    \/ \E e \in rotated : ExpireRotation(e)

Spec == Init /\ [][Next]_vars

(* Promises that are ready run, timers fire, and a fetch ends one way or the
   other. *)
FairSpec == Spec /\ \A p \in Callers : WF_vars(Step(p))

-----------------------------------------------------------------------------
(* refreshSerializer.ts: "two siblings never POST to /oauth/token concurrently",
   although the lane is collected and reopened, joined during a settle gap and
   entered by refreshes of different connections. *)
LaneExclusive == Cardinality({p \in Callers : Posting(p)}) <= 1

(* One refresh of a connection at a time, from the staleness check to the write
   of the new token: nobody shares a settled promise or starts beside it. *)
OneRefreshPerConnection ==
    \A c \in Connections :
        LET owners == {p \in Callers : call[p].pc \in OwnerPcs /\ Conn(p) = c}
        IN  owners = IF mutex[c] = None THEN {} ELSE {mutex[c]}

(* The reactive path decides to deactivate a connection only when upstream has moved
   on from the stored token, whoever rotated it meanwhile and however replies, writes
   and rotation entries were lost; except for a caller that takes for its own token a
   verdict on another one: it shared a refresh begun with an older token, or had its
   token replaced by the staleness check. *)
MisledBy(p) == call[p].about # call[p].attempted
Condemns(p) == ~At(p, "condemn") /\ At(p, "condemn")'
DeactivationJustified ==
    [][\A p \in Callers :
          Condemns(p) => live[Conn(p)] # row[Conn(p)].token \/ MisledBy(p)]_vars

(* "SKIPS the persist so the DB stays at the fresher state" (casGuard.ts): a stored
   token is never replaced by an older one. *)
TokenNeverReverts ==
    [][\A c \in Connections : row'[c].token >= row[c].token]_vars

(* "the queue keeps flowing even after a failed refresh": whoever waits in the
   lane gets its turn. *)
QueueFlows == \A p \in Callers : At(p, "inner") ~> ~At(p, "inner")

(* The lane only ever stops behind a quota refresh that holds it while it waits
   for it again, or for a refresh that does: lost replies, failed refreshes, settle
   gaps and joins of any other path keep it flowing. *)
Nested(p) ==
    /\ call[p].path = "quota"
    /\ \/ At(p, "inner")
       \/ At(p, "share") /\ At(mutex[Conn(p)], "inner")
QueueFlowsUnlessNested ==
    \A p \in Callers : At(p, "inner") ~> (~At(p, "inner") \/ \E q \in Callers : Nested(q))

(* p awaits a promise that another caller settles. *)
Waits(p) ==
    \/ At(p, "share")
    \/ At(p, "inner") /\ ~Posting(p)
    \/ At(p, "outer") /\ after[<<p, "outer">>] # None

(* Without a nested refresh the callers never all wait for each other, in the lane
   and for a shared refresh: the safety half of QueueFlowsUnlessNested, which holds
   for every instance by a theorem of TokenRefreshProofs. *)
NoStandstill ==
    (\E p \in Callers : Waits(p)) =>
        \E q \in Callers : Nested(q) \/ (~At(q, "idle") /\ ~Waits(q))
=============================================================================
