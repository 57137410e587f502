------------------------- MODULE BreakerPersistence -------------------------
(***************************************************************************)
(* The registry of src/shared/utils/circuitBreaker.ts and the rows of      *)
(* domain_circuit_breakers, for one name.  Breakers are created on demand, *)
(* restored from their row later, saved without anybody waiting, evicted   *)
(* when they look idle and lost when the process dies; a request keeps the *)
(* object it was given.                                                    *)
(*                                                                         *)
(* A breaker is "clean" (CLOSED without failures) or "tripped" (anything   *)
(* else); what it does with outcomes is the subject of CircuitBreaker.     *)
(* Statements run in the order they are issued, as with SQLite.            *)
(***************************************************************************)
EXTENDS Integers, Sequences

CONSTANTS
    Requests,       \* requests that use the breaker
    MaxObjects,     \* bound of this model on breakers made between two crashes
    MaxStatements   \* bound of this model on statements under way

ASSUME ObjectsAssumption == MaxObjects \in Nat \ {0}
ASSUME StatementsAssumption == MaxStatements \in Nat \ {0}

Objects == 1 .. MaxObjects
NoObject == 0

VARIABLES
    registered,     \* the object in the registry, or NoObject
    made,           \* objects made so far
    health,         \* health[o]: state of object o
    held,           \* held[r]: the object request r works with
    row,            \* the stored state, or "none"
    statements,     \* issued and not yet executed, oldest first
    astray          \* ghost: the registered breaker was restored from a row that a save
                    \* of its own then overwrote, or opened without being saved, or an
                    \* object that is no longer registered has saved since its last save

vars == <<registered, made, health, held, row, statements, astray>>

Healths == {"clean", "tripped"}

Load(o)       == [op |-> "load", object |-> o, value |-> "none", known |-> TRUE]
Save(o, h)    == [op |-> "save", object |-> o, value |-> h, known |-> TRUE]
Delete(known) == [op |-> "delete", object |-> NoObject, value |-> "none", known |-> known]

Statement ==
    {Load(o) : o \in Objects} \cup {Delete(known) : known \in BOOLEAN}
        \cup {Save(o, h) : o \in Objects, h \in Healths}

TypeOK ==
    /\ registered \in Objects \cup {NoObject}
    /\ made \in 0 .. MaxObjects
    /\ registered <= made
    /\ health \in [Objects -> Healths]
    /\ held \in [Requests -> 0 .. made]
    /\ row \in Healths \cup {"none"}
    /\ statements \in Seq(Statement)
    /\ astray \in BOOLEAN

Init ==
    /\ registered = NoObject
    /\ made = 0
    /\ health = [o \in Objects |-> "clean"]
    /\ held = [r \in Requests |-> NoObject]
    /\ row = "none"
    /\ statements = <<>>
    /\ astray = FALSE

Issue(ss) ==
    /\ Len(statements) + Len(ss) <= MaxStatements
    /\ statements' = statements \o ss

Restoring(o) == \E i \in DOMAIN statements : statements[i] = Load(o)

(* A save of object o is issued: by the registered breaker, which the row then
   follows again, or by one that requests still use although it was evicted. *)
SavedBy(o) == astray' = (registered # NoObject /\ o # registered)

-----------------------------------------------------------------------------
(* getCircuitBreaker() finds no entry: a new breaker, whose constructor asks for
   its row.  Called with options it is saved at once, as it is: clean. *)
Created(options) ==
    /\ registered = NoObject
    /\ made < MaxObjects
    /\ made' = made + 1
    /\ registered' = made + 1
    /\ astray' = FALSE
    /\ Issue(<<Load(made + 1)>> \o IF options THEN <<Save(made + 1, "clean")>> ELSE <<>>)
    /\ UNCHANGED <<health, row>>

(* It finds one, and saves it if there are options. *)
Found(options) ==
    /\ registered # NoObject
    /\ IF options
         THEN Issue(<<Save(registered, health[registered])>>) /\ SavedBy(registered)
         ELSE UNCHANGED <<statements, astray>>
    /\ UNCHANGED <<registered, made, health, row>>

(* handleSingleModelChat() gets the provider's breaker, with options ... *)
Get(r) ==
    /\ held[r] = NoObject
    /\ Created(TRUE) \/ Found(TRUE)
    /\ held' = [held EXCEPT ![r] = registered']

(* ... and the combo engine and the status pages look at it without.
   getAllCircuitBreakerStatuses() does this for every row. *)
Peek ==
    /\ Created(FALSE)
    /\ UNCHANGED held

(* Mutant of Outcome: what happened is not saved. *)
OutcomeUnsaved(r, h) ==
    /\ held[r] # NoObject
    /\ health' = [health EXCEPT ![held[r]] = h]
    /\ held' = [held EXCEPT ![r] = NoObject]
    /\ UNCHANGED <<registered, made, row, statements, astray>>

(* _onFailure() leaves the breaker tripped, _onSuccess() may make it clean; both
   save it, whether or not it is still registered. *)
Outcome(r, h) ==
    /\ held[r] # NoObject
    /\ health' = [health EXCEPT ![held[r]] = h]
    /\ held' = [held EXCEPT ![r] = NoObject]
    /\ Issue(<<Save(held[r], h)>>)
    /\ SavedBy(held[r])
    /\ UNCHANGED <<registered, made, row>>

(* _onFailure() opens the breaker because one kind of failure reached its limit, and
   returns before it would save it. *)
TripUnsaved(r) ==
    /\ held[r] # NoObject
    /\ health' = [health EXCEPT ![held[r]] = "tripped"]
    /\ held' = [held EXCEPT ![r] = NoObject]
    /\ astray' = (astray \/ (held[r] = registered /\ health[held[r]] = "clean"))
    /\ UNCHANGED <<registered, made, row, statements>>

(* Mutant of Evict: breakers with failures go too. *)
EvictAny ==
    /\ registered # NoObject
    /\ Issue(<<Delete(~astray /\ ~Restoring(registered))>>)
    /\ registered' = NoObject
    /\ astray' = FALSE
    /\ UNCHANGED <<made, health, held, row>>

(* evictColdBreakersIfNeeded() when another name needs room, or the sweep of idle
   breakers: a clean breaker goes, and its row. *)
Evict ==
    /\ registered # NoObject
    /\ health[registered] = "clean"
    /\ Issue(<<Delete(~astray /\ ~Restoring(registered))>>)
    /\ registered' = NoObject
    /\ astray' = FALSE
    /\ UNCHANGED <<made, health, held, row>>

(* reset(), which clearProviderFailure() calls on the registered breaker. *)
Reset ==
    /\ registered # NoObject
    /\ health' = [health EXCEPT ![registered] = "clean"]
    /\ Issue(<<Save(registered, "clean")>>)
    /\ SavedBy(registered)
    /\ UNCHANGED <<registered, made, held, row>>

(* resetAllCircuitBreakers(): an administrator forgets everything. *)
ResetAll ==
    /\ health' = [o \in Objects |-> IF o = registered THEN "clean" ELSE health[o]]
    /\ Issue((IF registered = NoObject THEN <<>> ELSE <<Save(registered, "clean")>>)
                \o <<Delete(FALSE)>>)
    /\ registered' = NoObject
    /\ astray' = FALSE
    /\ UNCHANGED <<made, held, row>>

(* A statement is executed.  A restore overwrites what the breaker has become. *)
Land ==
    LET s == Head(statements)
        rest == Tail(statements)
        restores == s.op = "load" /\ row # "none"
    IN  /\ statements # <<>>
        /\ statements' = rest
        /\ health' = IF restores THEN [health EXCEPT ![s.object] = row] ELSE health
        /\ astray' = (\/ astray
                      \/ /\ restores /\ s.object = registered
                         /\ \E v \in Healths \ {row} :
                               \E i \in DOMAIN rest : rest[i] = Save(s.object, v))
        /\ row' = CASE s.op = "save" -> s.value
                    [] s.op = "delete" -> "none"
                    [] OTHER -> row
        /\ UNCHANGED <<registered, made, held>>

(* The process dies and is started again. *)
Crash ==
    /\ registered' = NoObject
    /\ made' = 0
    /\ health' = [o \in Objects |-> "clean"]
    /\ held' = [r \in Requests |-> NoObject]
    /\ statements' = <<>>
    /\ astray' = FALSE
    /\ UNCHANGED row

Next ==
    \/ \E r \in Requests : Get(r) \/ TripUnsaved(r) \/ \E h \in Healths : Outcome(r, h)
    \/ Peek \/ Evict \/ Reset \/ ResetAll \/ Land \/ Crash

Spec == Init /\ [][Next]_vars

-----------------------------------------------------------------------------
(* "SQLite write-through cache": with no statement under way the row says what the
   registered breaker is, so that a restart restores it, through crashes, evictions
   and late restores.  The exceptions are the three cases of astray. *)
WriteThrough ==
    statements = <<>> /\ registered # NoObject /\ ~astray =>
        health[registered] = IF row = "none" THEN "clean" ELSE row

(* "never evict OPEN/HALF_OPEN breakers, since those carry meaningful state": an
   eviction deletes the row of a tripped breaker only when the evicted object was
   not yet restored or was astray, which is when it does not know. *)
EvictionKeepsTrips ==
    [][row = "tripped" /\ row' = "none" => ~Head(statements).known]_vars
=============================================================================
