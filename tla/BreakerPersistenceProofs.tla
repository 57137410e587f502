---------------------- MODULE BreakerPersistenceProofs ----------------------
(***************************************************************************)
(* Theorems about BreakerPersistence, for any number of requests, breakers *)
(* and statements under way.                                               *)
(***************************************************************************)
EXTENDS BreakerPersistence, SequenceTheorems, TLAPS

(* A row that is not there stands for a clean breaker. *)
Stored == IF row = "none" THEN "clean" ELSE row

(* A restore is asked for once, when its breaker is made: the restores in the queue S
   are of different breakers among the m made so far, in this order. *)
LoadsIn(S, m) ==
    /\ \A i \in DOMAIN S : S[i].op = "load" => S[i] = Load(S[i].object) /\ S[i].object \in 1 .. m
    /\ \A i, j \in DOMAIN S :
          i < j /\ S[i].op = "load" /\ S[j].op = "load" => S[i].object < S[j].object

(* What has not been made is clean. *)
MadeOK ==
    /\ \A o \in Objects : o > made => health[o] = "clean"
    /\ LoadsIn(statements, made)

(* The last statement under way is the registered breaker's own: it saves what the
   breaker is, or will restore a breaker that is as good as new. *)
LastOK ==
    registered # NoObject /\ ~astray =>
        \/ statements = <<>> /\ health[registered] = Stored
        \/ /\ statements # <<>>
           /\ statements[Len(statements)] = Save(registered, health[registered])
        \/ /\ statements # <<>>
           /\ statements[Len(statements)] = Load(registered)
           /\ health[registered] = "clean"

(* In the queue S before row r, a deletion by somebody who knows follows a save of a
   clean breaker, or is next and finds no tripped row. *)
DeletesIn(S, r) ==
    \A i \in DOMAIN S :
        S[i].op = "delete" /\ S[i].known =>
            IF i = 1 THEN r # "tripped"
                     ELSE S[i - 1].op = "save" /\ S[i - 1].value = "clean"

Inv == TypeOK /\ MadeOK /\ LastOK /\ DeletesIn(statements, row)
-----------------------------------------------------------------------------
(* Statements are statements, and told apart by what they do. *)
LEMMA StatementTypes ==
    /\ \A o \in Objects : Load(o) \in Statement
    /\ \A o \in Objects, h \in Healths : Save(o, h) \in Statement
    /\ \A k \in BOOLEAN : Delete(k) \in Statement
BY DEF Statement

(* The fields of a statement say which it is. *)
LEMMA StatementsDiffer ==
    /\ \A s \in Statement : /\ s.op \in {"load", "save", "delete"}
                            /\ s.op = "save" => s.value \in Healths
    /\ \A o : Load(o).op = "load" /\ Load(o).object = o /\ Load(o).known
    /\ \A o, h : /\ Save(o, h).op = "save" /\ Save(o, h).object = o
                 /\ Save(o, h).value = h /\ Save(o, h).known
    /\ \A k : Delete(k).op = "delete" /\ Delete(k).known = k
BY DEF Load, Save, Delete, Statement

(* What one or two statements appended to the queue make of it. *)
LEMMA Appended ==
    ASSUME NEW S \in Seq(Statement), NEW s \in Statement
    PROVE  /\ S \o <<s>> \in Seq(Statement)
           /\ Len(S \o <<s>>) = Len(S) + 1
           /\ S \o <<s>> # <<>>
           /\ (S \o <<s>>)[Len(S) + 1] = s
           /\ \A i \in DOMAIN S : (S \o <<s>>)[i] = S[i]
           /\ DOMAIN (S \o <<s>>) = DOMAIN S \cup {Len(S) + 1}
OBVIOUS

(* Two statements issued together are issued one after the other. *)
LEMMA Twice ==
    ASSUME NEW S \in Seq(Statement), NEW s \in Statement, NEW t \in Statement
    PROVE  S \o (<<s>> \o <<t>>) = (S \o <<s>>) \o <<t>>
OBVIOUS

(* Executing the first statement leaves the others. *)
LEMMA Dropped ==
    ASSUME NEW S \in Seq(Statement), S # <<>>
    PROVE  /\ Head(S) = S[1] /\ Head(S) \in Statement
           /\ Tail(S) \in Seq(Statement)
           /\ Len(Tail(S)) = Len(S) - 1
           /\ DOMAIN Tail(S) = 1 .. Len(S) - 1
           /\ \A i \in DOMAIN Tail(S) : Tail(S)[i] = S[i + 1]
           /\ DOMAIN S = 1 .. Len(S) /\ Len(S) \in Nat \ {0}
OBVIOUS

(* A statement that is appended keeps the restores in order if it restores nothing,
   or the breaker just made. *)
LEMMA AppendLoads ==
    ASSUME NEW S \in Seq(Statement), NEW s \in Statement, NEW m \in Nat, NEW n \in Nat,
           LoadsIn(S, m), m <= n,
           s.op = "load" => s = Load(s.object) /\ s.object = n /\ m < n
    PROVE  LoadsIn(S \o <<s>>, n)
<1> DEFINE T == S \o <<s>>
<1>1. /\ T[Len(S) + 1] = s /\ DOMAIN T = DOMAIN S \cup {Len(S) + 1}
      /\ \A i \in DOMAIN S : T[i] = S[i]
      /\ DOMAIN S = 1 .. Len(S) /\ Len(S) \in Nat
  BY Appended
<1> HIDE DEF T
<1>2. \A i \in DOMAIN T : T[i].op = "load" => T[i] = Load(T[i].object) /\ T[i].object \in 1 .. n
  BY <1>1 DEF LoadsIn
<1>3. \A i, j \in DOMAIN T :
         i < j /\ T[i].op = "load" /\ T[j].op = "load" => T[i].object < T[j].object
  BY <1>1 DEF LoadsIn
<1>4. QED  BY <1>2, <1>3 DEF LoadsIn, T

(* ... and the deletions justified if it is itself. *)
LEMMA AppendDeletes ==
    ASSUME NEW S \in Seq(Statement), NEW s \in Statement, NEW r, DeletesIn(S, r),
           s.op = "delete" /\ s.known =>
               IF S = <<>> THEN r # "tripped"
                           ELSE S[Len(S)].op = "save" /\ S[Len(S)].value = "clean"
    PROVE  DeletesIn(S \o <<s>>, r)
<1> DEFINE T == S \o <<s>>
<1>1. /\ T[Len(S) + 1] = s /\ DOMAIN T = DOMAIN S \cup {Len(S) + 1}
      /\ \A i \in DOMAIN S : T[i] = S[i]
      /\ DOMAIN S = 1 .. Len(S) /\ Len(S) \in Nat
  BY Appended
<1>2. S = <<>> <=> Len(S) = 0
  BY EmptySeq
<1> HIDE DEF T
<1>3. SUFFICES ASSUME NEW i \in DOMAIN T, T[i].op = "delete", T[i].known
               PROVE  IF i = 1 THEN r # "tripped"
                               ELSE T[i - 1].op = "save" /\ T[i - 1].value = "clean"
  BY DEF DeletesIn, T
<1>4. CASE i \in DOMAIN S  BY <1>1, <1>3, <1>4 DEF DeletesIn
<1>5. CASE i = Len(S) + 1
  <2>1. s.op = "delete" /\ s.known  BY <1>1, <1>3, <1>5
  <2>2. CASE S = <<>>  BY <1>2, <1>5, <2>1, <2>2
  <2>3. CASE S # <<>>
    <3>1. Len(S) \in DOMAIN S /\ i - 1 = Len(S) /\ i # 1  BY <1>1, <1>2, <1>5, <2>3
    <3>2. T[i - 1] = S[Len(S)]  BY <1>1, <3>1
    <3>3. QED  BY <2>1, <2>3, <3>1, <3>2
  <2>4. QED  BY <2>2, <2>3
<1>6. QED  BY <1>1, <1>4, <1>5
-----------------------------------------------------------------------------
(* The last statement of a queue that just got one more. *)
LEMMA IssueOne ==
    ASSUME TypeOK, NEW s \in Statement, Issue(<<s>>)
    PROVE  /\ statements' = statements \o <<s>>
           /\ statements' \in Seq(Statement) /\ statements' # <<>>
           /\ statements'[Len(statements')] = s
BY Appended DEF Issue, TypeOK

(* No breaker, no row, no statement. *)
LEMMA InitInv == Init => Inv
<1> SUFFICES ASSUME Init PROVE Inv
  OBVIOUS
<1>1. TypeOK
  <2>1. statements \in Seq(Statement)
    BY DEF Init
  <2>2. health \in [Objects -> Healths] /\ row \in Healths \cup {"none"} /\ astray \in BOOLEAN
    BY DEF Init, Healths
  <2>3. /\ registered \in Objects \cup {NoObject} /\ made \in 0 .. MaxObjects /\ registered <= made
        /\ held \in [Requests -> 0 .. made]
    BY ObjectsAssumption DEF Init, NoObject
  <2>4. QED  BY <2>1, <2>2, <2>3 DEF TypeOK
<1>2. MadeOK
  BY DEF Init, MadeOK, LoadsIn
<1>3. LastOK /\ DeletesIn(statements, row)
  BY DEF Init, LastOK, DeletesIn, Stored
<1>4. QED  BY <1>1, <1>2, <1>3 DEF Inv

(* A save by a breaker that has been made, which may or may not be registered. *)
LEMMA SaveStep ==
    ASSUME Inv, NEW o \in 1 .. made, NEW h \in Healths,
           Issue(<<Save(o, h)>>), SavedBy(o),
           health' = [health EXCEPT ![o] = h],
           held' \in [Requests -> 0 .. made],
           UNCHANGED <<registered, made, row>>
    PROVE  Inv'
<1>1. o \in Objects /\ made \in Nat
  BY ObjectsAssumption DEF Inv, TypeOK, Objects
<1>2. Save(o, h) \in Statement /\ Save(o, h).op = "save"
  BY <1>1, StatementTypes, StatementsDiffer
<1>3. /\ statements' = statements \o <<Save(o, h)>>
      /\ statements' \in Seq(Statement) /\ statements' # <<>>
      /\ statements'[Len(statements')] = Save(o, h)
  BY <1>2, IssueOne DEF Inv
<1>4. TypeOK'
  BY <1>1, <1>3 DEF Inv, TypeOK, SavedBy
<1>5. MadeOK'
  <2>1. LoadsIn(statements', made)
    <3>1. statements \in Seq(Statement) /\ LoadsIn(statements, made)
      BY DEF Inv, TypeOK, MadeOK
    <3>2. QED  BY <3>1, <1>1, <1>2, <1>3, AppendLoads
  <2>2. \A x \in Objects : x > made => health'[x] = "clean"
    BY <1>1 DEF Inv, MadeOK, TypeOK, Objects
  <2>3. QED  BY <2>1, <2>2 DEF MadeOK
<1>6. LastOK'
  BY <1>1, <1>3 DEF Inv, TypeOK, LastOK, SavedBy
<1>7. DeletesIn(statements, row)'
  BY <1>2, <1>3, AppendDeletes DEF Inv, TypeOK
<1>8. QED  BY <1>4, <1>5, <1>6, <1>7 DEF Inv

(* A breaker is made: it asks for its row, and may then be saved. *)
LEMMA CreatedStep ==
    ASSUME Inv, NEW options \in BOOLEAN, Created(options),
           held' \in [Requests -> 0 .. made + 1]
    PROVE  Inv'
<1> DEFINE o == made + 1
           S == statements \o <<Load(o)>>
<1>1. o \in Objects /\ o \in Nat /\ made \in Nat /\ made' = o /\ registered' = o /\ astray' = FALSE
      /\ health' = health /\ row' = row
  BY ObjectsAssumption DEF Inv, TypeOK, Created, Objects
<1>2. /\ Load(o) \in Statement /\ Save(o, "clean") \in Statement
      /\ Load(o).op = "load" /\ Load(o).object = o /\ Save(o, "clean").op = "save"
  BY <1>1, StatementTypes, StatementsDiffer DEF Healths
<1>3. statements \in Seq(Statement)
  BY DEF Inv, TypeOK
<1>4. S \in Seq(Statement) /\ S # <<>> /\ S[Len(S)] = Load(o)
  BY <1>2, <1>3, Appended
<1>5. LoadsIn(S, o) /\ DeletesIn(S, row)
  <2>1. LoadsIn(S, o)
    BY <1>1, <1>2, <1>3, AppendLoads DEF Inv, MadeOK
  <2>2. DeletesIn(S, row)
    BY <1>2, <1>3, AppendDeletes DEF Inv
  <2>3. QED  BY <2>1, <2>2
<1>6. health[o] = "clean"
  BY <1>1 DEF Inv, MadeOK
<1>7. statements' = IF options THEN S \o <<Save(o, "clean")>> ELSE S
  <2>1. CASE options
    BY <2>1, <1>2, <1>3, Twice DEF Created, Issue
  <2>2. CASE ~options
    <3>1. statements' = statements \o (<<Load(o)>> \o <<>>)
      BY <2>2 DEF Created, Issue
    <3>2. <<Load(o)>> \o <<>> = <<Load(o)>>
      BY <1>2
    <3>3. QED  BY <2>2, <3>1, <3>2
  <2>3. QED  BY <2>1, <2>2
<1> HIDE DEF S
<1>8. /\ statements' \in Seq(Statement) /\ statements' # <<>>
      /\ statements'[Len(statements')] \in {Load(o), Save(o, "clean")}
  BY <1>2, <1>4, <1>7, Appended
<1>9. LoadsIn(statements', o) /\ DeletesIn(statements', row)
  <2>1. CASE options
    <3>1. LoadsIn(statements', o)
      BY <2>1, <1>1, <1>2, <1>4, <1>5, <1>7, AppendLoads
    <3>2. DeletesIn(statements', row)
      BY <2>1, <1>2, <1>4, <1>5, <1>7, AppendDeletes
    <3>3. QED  BY <3>1, <3>2
  <2>2. CASE ~options
    BY <2>2, <1>5, <1>7
  <2>3. QED  BY <2>1, <2>2
<1>10. TypeOK'
  <2>1. made' \in 0 .. MaxObjects /\ registered' <= made' /\ held' \in [Requests -> 0 .. made']
    BY <1>1, ObjectsAssumption DEF Objects
  <2>2. QED  BY <1>1, <1>8, <2>1 DEF Inv, TypeOK
<1>11. MadeOK'
  <2>1. \A x \in Objects : x > o => health[x] = "clean"
    BY <1>1 DEF Inv, MadeOK, Objects
  <2>2. QED  BY <2>1, <1>1, <1>9 DEF MadeOK
<1>12. LastOK'
  BY <1>1, <1>6, <1>8 DEF LastOK
<1>13. QED  BY <1>1, <1>9, <1>10, <1>11, <1>12 DEF Inv

(* The registered breaker goes, and a deletion of its row is issued: by somebody who
   knows only if the breaker was clean, restored and not astray. *)
LEMMA DeleteStep ==
    ASSUME Inv, NEW k \in BOOLEAN, Issue(<<Delete(k)>>),
           k => /\ registered # NoObject /\ ~astray /\ ~Restoring(registered)
                /\ health[registered] = "clean",
           registered' = NoObject, astray' = FALSE,
           UNCHANGED <<made, health, held, row>>
    PROVE  Inv'
<1>1. Delete(k) \in Statement /\ Delete(k).op = "delete" /\ Delete(k).known = k
  BY StatementTypes, StatementsDiffer
<1>2. statements \in Seq(Statement) /\ made \in Nat
  BY ObjectsAssumption DEF Inv, TypeOK
<1>3. /\ statements' = statements \o <<Delete(k)>>
      /\ statements' \in Seq(Statement)
  BY <1>1, IssueOne DEF Inv
<1>4. TypeOK'
  <2>1. registered' \in Objects \cup {NoObject} /\ registered' <= made'
    BY <1>2 DEF NoObject
  <2>2. QED  BY <2>1, <1>3 DEF Inv, TypeOK
<1>5. MadeOK'
  BY <1>1, <1>2, <1>3, AppendLoads DEF Inv, MadeOK
<1>6. LastOK'
  BY DEF LastOK
<1>7. DeletesIn(statements, row)'
  <2>1. SUFFICES k => IF statements = <<>> THEN row # "tripped"
                        ELSE /\ statements[Len(statements)].op = "save"
                             /\ statements[Len(statements)].value = "clean"
    BY <1>1, <1>2, <1>3, AppendDeletes DEF Inv
  <2>2. SUFFICES ASSUME k
                 PROVE  IF statements = <<>> THEN row # "tripped"
                          ELSE /\ statements[Len(statements)].op = "save"
                               /\ statements[Len(statements)].value = "clean"
    OBVIOUS
  <2>3. CASE statements = <<>>
    BY <2>2, <2>3 DEF Inv, LastOK, Stored
  <2>4. CASE statements # <<>>
    <3>1. Len(statements) \in DOMAIN statements
      BY <1>2, <2>4, EmptySeq
    <3>2. statements[Len(statements)] # Load(registered)
      BY <2>2, <3>1 DEF Restoring
    <3>3. statements[Len(statements)] = Save(registered, "clean")
      BY <2>2, <2>4, <3>2 DEF Inv, LastOK
    <3>4. QED  BY <2>4, <3>3, StatementsDiffer
  <2>5. QED  BY <2>3, <2>4
<1>8. QED  BY <1>4, <1>5, <1>6, <1>7 DEF Inv

(* resetAllCircuitBreakers() saves the registered breaker before it deletes the row. *)
LEMMA ResetAllStep ==
    ASSUME Inv, ResetAll
    PROVE  Inv'
<1> DEFINE saves == IF registered = NoObject THEN <<>> ELSE <<Save(registered, "clean")>>
           S == statements \o saves
<1>1. Delete(FALSE) \in Statement /\ Delete(FALSE).op = "delete" /\ Delete(FALSE).known = FALSE
  BY StatementTypes, StatementsDiffer
<1>2. statements \in Seq(Statement) /\ made \in Nat
  BY ObjectsAssumption DEF Inv, TypeOK
<1>3. S \in Seq(Statement) /\ LoadsIn(S, made) /\ DeletesIn(S, row)
  <2>1. CASE registered = NoObject
    <3>1. S = statements
      BY <1>2, <2>1
    <3>2. QED  BY <1>2, <3>1 DEF Inv, MadeOK
  <2>2. CASE registered # NoObject
    <3>1. /\ Save(registered, "clean") \in Statement
          /\ Save(registered, "clean").op = "save"
      BY <2>2, StatementTypes, StatementsDiffer DEF Inv, TypeOK, Healths
    <3>2. S = statements \o <<Save(registered, "clean")>>
      BY <2>2
    <3>3. LoadsIn(S, made)
      BY <1>2, <3>1, <3>2, AppendLoads DEF Inv, MadeOK
    <3>4. DeletesIn(S, row)
      BY <1>2, <3>1, <3>2, AppendDeletes DEF Inv
    <3>5. S \in Seq(Statement)
      BY <1>2, <3>1, <3>2, Appended
    <3>6. QED  BY <3>3, <3>4, <3>5
  <2>3. QED  BY <2>1, <2>2
<1>4. statements' = S \o <<Delete(FALSE)>>
  <2>1. statements' = statements \o (saves \o <<Delete(FALSE)>>)
    BY DEF ResetAll, Issue
  <2>2. CASE registered = NoObject
    BY <1>1, <1>2, <2>1, <2>2
  <2>3. CASE registered # NoObject
    <3>1. Save(registered, "clean") \in Statement
      BY <2>3, StatementTypes DEF Inv, TypeOK, Healths
    <3>2. QED  BY <1>1, <1>2, <2>1, <2>3, <3>1, Twice
  <2>4. QED  BY <2>2, <2>3
<1> HIDE DEF S, saves
<1>5. statements' \in Seq(Statement)
  BY <1>1, <1>3, <1>4, Appended
<1>6. LoadsIn(statements', made) /\ DeletesIn(statements', row)
  <2>1. made <= made
    BY <1>2
  <2>2. LoadsIn(S \o <<Delete(FALSE)>>, made)
    BY <1>1, <1>2, <1>3, <2>1, AppendLoads
  <2>3. DeletesIn(S \o <<Delete(FALSE)>>, row)
    BY <1>1, <1>3, AppendDeletes
  <2>4. QED  BY <1>4, <2>2, <2>3
<1>7. health' \in [Objects -> Healths] /\ \A o \in Objects : o > made => health'[o] = "clean"
  BY DEF Inv, TypeOK, MadeOK, ResetAll, Healths
<1>8. registered' = NoObject /\ astray' = FALSE /\ UNCHANGED <<made, held, row>>
  BY DEF ResetAll
<1>9. TypeOK'
  <2>1. registered' \in Objects \cup {NoObject} /\ registered' <= made'
    BY <1>2, <1>8 DEF NoObject
  <2>2. QED  BY <1>5, <1>7, <1>8, <2>1 DEF Inv, TypeOK
<1>10. MadeOK' /\ LastOK' /\ DeletesIn(statements, row)'
  BY <1>6, <1>7, <1>8 DEF MadeOK, LastOK
<1>11. QED  BY <1>9, <1>10 DEF Inv

(* A statement is executed. *)
LEMMA LandStep ==
    ASSUME Inv, Land
    PROVE  Inv'
<1> DEFINE s == statements[1]
           n == Len(statements)
           restores == s.op = "load" /\ row # "none"
<1>1. statements \in Seq(Statement) /\ statements # <<>>
  BY DEF Inv, TypeOK, Land
<1>2. /\ s = Head(statements) /\ s \in Statement
      /\ statements' = Tail(statements) /\ statements' \in Seq(Statement)
      /\ DOMAIN statements' = 1 .. n - 1 /\ Len(statements') = n - 1
      /\ \A i \in DOMAIN statements' : statements'[i] = statements[i + 1]
      /\ DOMAIN statements = 1 .. n /\ n \in Nat \ {0}
  BY <1>1, Dropped DEF Land
<1>3. /\ health' = IF restores THEN [health EXCEPT ![s.object] = row] ELSE health
      /\ row' = CASE s.op = "save" -> s.value [] s.op = "delete" -> "none" [] OTHER -> row
      /\ registered' = registered /\ made' = made /\ held' = held
  BY <1>2 DEF Land
<1>4. astray' = (\/ astray
                 \/ /\ restores /\ s.object = registered
                    /\ \E v \in Healths \ {row} :
                          \E i \in DOMAIN statements' : statements'[i] = Save(s.object, v))
  BY <1>2 DEF Land
<1>5. s.op = "load" => s = Load(s.object) /\ s.object \in 1 .. made /\ s.object \in Objects
  BY <1>2, ObjectsAssumption DEF Inv, MadeOK, LoadsIn, TypeOK, Objects
<1> HIDE DEF s, n
<1>6. TypeOK'
  <2>1. health' \in [Objects -> Healths]
    BY <1>3, <1>5 DEF Inv, TypeOK
  <2>2. row' \in Healths \cup {"none"}
    BY <1>2, <1>3, StatementsDiffer DEF Inv, TypeOK
  <2>3. astray' \in BOOLEAN
    BY <1>4 DEF Inv, TypeOK
  <2>4. QED  BY <1>2, <1>3, <2>1, <2>2, <2>3 DEF Inv, TypeOK
<1>7. MadeOK'
  <2>1. \A o \in Objects : o > made => health'[o] = "clean"
    BY <1>3, <1>5 DEF Inv, MadeOK, TypeOK, Objects
  <2>2. LoadsIn(statements', made)
    BY <1>2 DEF Inv, MadeOK, LoadsIn
  <2>3. QED  BY <1>3, <2>1, <2>2 DEF MadeOK
<1>8. DeletesIn(statements', row')
  <2>1. SUFFICES ASSUME NEW i \in DOMAIN statements',
                        statements'[i].op = "delete", statements'[i].known
                 PROVE  IF i = 1 THEN row' # "tripped"
                          ELSE /\ statements'[i - 1].op = "save"
                               /\ statements'[i - 1].value = "clean"
    BY DEF DeletesIn
  <2>2. /\ i + 1 \in DOMAIN statements /\ i + 1 # 1
        /\ statements[i + 1].op = "delete" /\ statements[i + 1].known
    BY <1>2, <2>1
  <2>3. statements[i].op = "save" /\ statements[i].value = "clean"
    <3>1. /\ statements[(i + 1) - 1].op = "save"
          /\ statements[(i + 1) - 1].value = "clean"
      BY <2>2 DEF Inv, DeletesIn
    <3>2. (i + 1) - 1 = i
      BY <1>2
    <3>3. QED  BY <3>1, <3>2
  <2>4. CASE i = 1
    BY <1>3, <2>3, <2>4 DEF s
  <2>5. CASE i # 1
    BY <1>2, <2>1, <2>3, <2>5
  <2>6. QED  BY <2>4, <2>5
<1>9. LastOK'
  <2>1. SUFFICES ASSUME registered # NoObject, ~astray'
                 PROVE  \/ statements' = <<>> /\ health'[registered] = Stored'
                        \/ /\ statements' # <<>>
                           /\ statements'[Len(statements')] = Save(registered, health'[registered])
                        \/ /\ statements' # <<>>
                           /\ statements'[Len(statements')] = Load(registered)
                           /\ health'[registered] = "clean"
    BY <1>3 DEF LastOK
  <2>2. ~astray
    BY <1>4, <2>1
  <2>3. /\ registered \in Objects /\ health[registered] \in Healths
        /\ row \in Healths \cup {"none"} /\ health \in [Objects -> Healths]
    BY <2>1 DEF Inv, TypeOK
  <2>4. \/ statements[n] = Save(registered, health[registered])
        \/ statements[n] = Load(registered) /\ health[registered] = "clean"
    BY <1>1, <2>1, <2>2 DEF Inv, LastOK, n
  <2>5. CASE n = 1
    <3>1. statements' = <<>>
      BY <1>2, <2>5, EmptySeq
    <3>2. CASE s = Save(registered, health[registered])
      <4>1. s.op = "save" /\ s.value = health[registered]
        BY <3>2, StatementsDiffer
      <4>2. row' = health[registered] /\ health' = health
        BY <1>3, <4>1
      <4>3. QED  BY <2>3, <3>1, <4>2 DEF Stored, Healths
    <3>3. CASE s = Load(registered) /\ health[registered] = "clean"
      <4>1. s.op = "load" /\ s.object = registered
        BY <3>3, StatementsDiffer
      <4>2. row' = row
        BY <1>3, <4>1
      <4>3. health'[registered] = IF row = "none" THEN "clean" ELSE row
        BY <1>3, <2>3, <3>3, <4>1
      <4>4. QED  BY <3>1, <4>2, <4>3 DEF Stored
    <3>4. QED  BY <2>4, <2>5, <3>2, <3>3 DEF s
  <2>6. CASE n # 1
    <3>1. /\ statements' # <<>> /\ Len(statements') \in DOMAIN statements'
          /\ statements'[Len(statements')] = statements[n] /\ 1 < n
          /\ 1 \in DOMAIN statements /\ n \in DOMAIN statements
      <4>1. /\ Len(statements') = n - 1 /\ n - 1 \in DOMAIN statements' /\ (n - 1) + 1 = n
            /\ 1 < n /\ 1 \in DOMAIN statements /\ n \in DOMAIN statements
        BY <1>2, <2>6
      <4>2. statements'[n - 1] = statements[n]
        BY <1>2, <4>1
      <4>3. statements' # <<>>
        <5>1. DOMAIN statements' # {}
          BY <4>1
        <5>2. QED  BY <5>1
      <4>4. QED  BY <4>1, <4>2, <4>3
    <3>2. CASE ~(restores /\ s.object = registered)
      <4>1. health'[registered] = health[registered]
        BY <1>3, <1>5, <2>3, <3>2
      <4>2. QED  BY <2>4, <3>1, <4>1
    <3>3. CASE restores /\ s.object = registered
      <4>1. statements[n] # Load(registered)
        <5>1. SUFFICES ASSUME statements[n] = Load(registered) PROVE FALSE
          OBVIOUS
        <5>2. statements[n].op = "load" /\ statements[n].object = registered
          BY <5>1, StatementsDiffer
        <5>3. s.object < registered
          BY <3>1, <3>3, <5>2 DEF Inv, MadeOK, LoadsIn, s
        <5>4. QED  BY <2>3, <3>3, <5>3 DEF Objects
      <4>2. statements'[Len(statements')] = Save(registered, health[registered])
        BY <2>4, <3>1, <4>1
      <4>3. health[registered] = row
        BY <1>4, <2>1, <2>3, <3>1, <3>3, <4>2
      <4>4. health'[registered] = row
        BY <1>3, <2>3, <3>3
      <4>5. QED  BY <3>1, <4>2, <4>3, <4>4
    <3>4. QED  BY <3>2, <3>3
  <2>7. QED  BY <2>5, <2>6
<1>10. QED  BY <1>6, <1>7, <1>8, <1>9 DEF Inv

(* Every action keeps every part of the invariant. *)
LEMMA NextInv ==
    ASSUME Inv, [Next]_vars
    PROVE  Inv'
<1>1. CASE UNCHANGED vars
  <2>1. TypeOK' /\ MadeOK' /\ LastOK' /\ DeletesIn(statements, row)'
    BY <1>1 DEF Inv, vars, TypeOK, MadeOK, LastOK, Stored
  <2>2. QED  BY <2>1 DEF Inv
<1>2. ASSUME NEW r \in Requests, Get(r)
      PROVE  Inv'
  <2>1. CASE Created(TRUE)
    <3>1. held' \in [Requests -> 0 .. made + 1]
      BY <1>2, <2>1, ObjectsAssumption DEF Get, Created, Inv, TypeOK
    <3>2. QED  BY <2>1, <3>1, CreatedStep
  <2>2. CASE Found(TRUE)
    <3>1. /\ registered \in 1 .. made /\ health[registered] \in Healths
          /\ health' = [health EXCEPT ![registered] = health[registered]]
          /\ Issue(<<Save(registered, health[registered])>>) /\ SavedBy(registered)
          /\ UNCHANGED <<registered, made, row>>
      BY <2>2, ObjectsAssumption DEF Found, Inv, TypeOK, Objects, NoObject
    <3>2. held' \in [Requests -> 0 .. made]
      BY <1>2, <3>1, ObjectsAssumption DEF Get, Inv, TypeOK
    <3>3. QED  BY <3>1, <3>2, SaveStep
  <2>3. QED  BY <1>2, <2>1, <2>2 DEF Get
<1>3. ASSUME NEW r \in Requests, NEW h \in Healths, Outcome(r, h)
      PROVE  Inv'
  <2>1. held[r] \in 1 .. made /\ held' \in [Requests -> 0 .. made]
    BY <1>3, ObjectsAssumption DEF Outcome, Inv, TypeOK, NoObject
  <2>2. QED  BY <1>3, <2>1, SaveStep DEF Outcome
<1>4. CASE Peek
  <2>1. held' \in [Requests -> 0 .. made + 1]
    BY <1>4, ObjectsAssumption DEF Peek, Inv, TypeOK
  <2>2. QED  BY <1>4, <2>1, CreatedStep DEF Peek
<1>5. CASE Evict
  <2> DEFINE k == ~astray /\ ~Restoring(registered)
  <2>1. k \in BOOLEAN
    BY DEF Restoring
  <2>2. QED  BY <1>5, <2>1, DeleteStep DEF Evict
<1>6. CASE Reset
  <2>1. registered \in 1 .. made /\ "clean" \in Healths /\ held' \in [Requests -> 0 .. made]
    BY <1>6, ObjectsAssumption DEF Reset, Inv, TypeOK, Objects, NoObject, Healths
  <2>2. QED  BY <1>6, <2>1, SaveStep DEF Reset
<1>7. CASE ResetAll
  BY <1>7, ResetAllStep
<1>8. CASE Land
  BY <1>8, LandStep
<1>9. CASE Crash
  <2>1. statements' \in Seq(Statement) /\ DOMAIN statements' = {}
    BY <1>9 DEF Crash
  <2>2. TypeOK'
    <3>1. health' \in [Objects -> Healths] /\ row' \in Healths \cup {"none"} /\ astray' \in BOOLEAN
      BY <1>9 DEF Crash, Healths, Inv, TypeOK
    <3>2. /\ registered' \in Objects \cup {NoObject} /\ made' \in 0 .. MaxObjects
          /\ registered' <= made' /\ held' \in [Requests -> 0 .. made']
      BY <1>9, ObjectsAssumption DEF Crash, NoObject
    <3>3. QED  BY <2>1, <3>1, <3>2 DEF TypeOK
  <2>3. MadeOK' /\ LastOK' /\ DeletesIn(statements, row)'
    BY <1>9, <2>1 DEF Crash, MadeOK, LoadsIn, LastOK, DeletesIn
  <2>4. QED  BY <2>2, <2>3 DEF Inv
<1>10. ASSUME NEW r \in Requests, TripUnsaved(r)
       PROVE  Inv'
  <2>1. /\ held[r] \in 1 .. made /\ held[r] \in Objects /\ held' \in [Requests -> 0 .. made]
        /\ health' \in [Objects -> Healths] /\ astray' \in BOOLEAN
    BY <1>10, ObjectsAssumption DEF TripUnsaved, Inv, TypeOK, Objects, NoObject, Healths
  <2>2. TypeOK'
    BY <1>10, <2>1 DEF TripUnsaved, Inv, TypeOK
  <2>3. MadeOK'
    BY <1>10, <2>1, ObjectsAssumption DEF TripUnsaved, Inv, MadeOK, TypeOK, Objects
  <2>4. LastOK'
    <3>1. SUFFICES ASSUME registered # NoObject, ~astray'
                   PROVE  LastOK'
      BY <1>10 DEF TripUnsaved, LastOK
    <3>2. ~astray /\ health'[registered] = health[registered]
      BY <1>10, <2>1, <3>1 DEF TripUnsaved, Inv, TypeOK, Healths
    <3>3. QED  BY <1>10, <3>1, <3>2 DEF TripUnsaved, Inv, LastOK, Stored
  <2>5. DeletesIn(statements, row)'
    BY <1>10 DEF TripUnsaved, Inv, DeletesIn
  <2>6. QED  BY <2>2, <2>3, <2>4, <2>5 DEF Inv
<1>11. QED  BY <1>1, <1>2, <1>3, <1>4, <1>5, <1>6, <1>7, <1>8, <1>9, <1>10 DEF Next

(* The invariant, from which the theorems follow. *)
LEMMA Invariant == Spec => []Inv
<1>1. Init => Inv  BY InitInv
<1>2. Inv /\ [Next]_vars => Inv'  BY NextInv
<1>3. QED  BY <1>1, <1>2, PTL DEF Spec
-----------------------------------------------------------------------------
(* The registry, the breakers and the queue of statements stay what they are; in
   particular no request holds a breaker that was not made since the last start. *)
THEOREM TypeCorrect == Spec => []TypeOK
<1>1. Inv => TypeOK  BY DEF Inv
<1>2. QED  BY <1>1, Invariant, PTL

(* Outside the three cases of astray, _persistToDb() and _restoreFromDb() keep the row
   and the registered breaker in agreement, whatever is evicted, reset or restarted
   in between. *)
THEOREM WriteThroughHolds == Spec => []WriteThrough
<1>1. Inv => WriteThrough
  BY DEF Inv, LastOK, Stored, WriteThrough
<1>2. QED  BY <1>1, Invariant, PTL

(* evictColdBreakersIfNeeded() and the idle sweep delete the row of a tripped breaker
   only if the object they judged by was not restored yet or was astray. *)
THEOREM EvictionKeepsTripsHolds == Spec => EvictionKeepsTrips
<1>1. Inv /\ [Next]_vars => [row = "tripped" /\ row' = "none" => ~Head(statements).known]_vars
  <2>1. SUFFICES ASSUME Inv, [Next]_vars, row = "tripped", row' = "none", Head(statements).known
                 PROVE  FALSE
    OBVIOUS
  <2>2. row' # row
    BY <2>1
  <2>3. Land
    BY <2>1, <2>2 DEF Next, vars, Get, Created, Found, Peek, Outcome, TripUnsaved, Evict, Reset, ResetAll, Crash
  <2>4. statements \in Seq(Statement) /\ statements # <<>>
    BY <2>1, <2>3 DEF Inv, TypeOK, Land
  <2>5. Head(statements) = statements[1] /\ 1 \in DOMAIN statements /\ statements[1] \in Statement
    BY <2>4, Dropped
  <2>6. CASE statements[1].op = "delete"
    BY <2>1, <2>5, <2>6 DEF Inv, DeletesIn
  <2>7. CASE statements[1].op = "save"
    <3>1. row' = statements[1].value
      BY <2>3, <2>5, <2>7 DEF Land
    <3>2. QED  BY <2>1, <2>5, <2>7, <3>1, StatementsDiffer DEF Healths
  <2>8. CASE statements[1].op = "load"
    <3>1. row' = row
      BY <2>3, <2>5, <2>8 DEF Land
    <3>2. QED  BY <3>1, <2>2
  <2>9. QED  BY <2>5, <2>6, <2>7, <2>8, StatementsDiffer
<1>2. QED  BY <1>1, Invariant, PTL DEF Spec, EvictionKeepsTrips
=============================================================================
