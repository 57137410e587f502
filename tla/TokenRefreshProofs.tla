------------------------- MODULE TokenRefreshProofs -------------------------
(***************************************************************************)
(* Theorems about TokenRefresh, for any callers, connections, paths, bounds *)
(* on the rotations and the retries, and failing database accesses.        *)
(***************************************************************************)
EXTENDS TokenRefresh, FiniteSetTheorems, SequenceTheorems, WellFoundedInduction, TLAPS

(* The types alone. *)
Types ==
    /\ row \in [Connections -> Row]
    /\ live \in [Connections -> Tokens \cup {Dead}]
    /\ rotated \subseteq Connections \X Tokens \X Tokens
    /\ mutex \in [Connections -> Callers \cup {None}]
    /\ call \in [Callers -> Call]
    /\ after \in [Tickets -> Tickets \cup {None}]
    /\ tail \in Tickets \cup {None}

(* Whoever stores the outcome of a refresh has a token to store. *)
Writers == \A p \in Callers : At(p, "write") => call[p].result >= 0

(* Whose tickets are in the lane: an inner one from EnterLane() to the end of the
   settle gap, an outer one from EnterOuter() to the end of the quota path's. *)
InnerIn(local) == local.pc \in {"inner", "gap"}
OuterIn(local) == local.path = "quota" /\ local.pc \notin {"idle", "start", "condemn", "final"}
InLane(t) == IF t[2] = "inner" THEN InnerIn(call[t[1]]) ELSE OuterIn(call[t[1]])
LaneTickets == {t \in Tickets : InLane(t)}

(* The lane of the tickets L is a queue: some order q of them in which each awaits
   the one before it, the first awaits nobody and the last is the tail. *)
Ordered(n, q, L, af, tl) ==
    /\ \A i, j \in 1 .. n : q[i] = q[j] => i = j
    /\ \A t \in L : \E i \in 1 .. n : q[i] = t
    /\ \A i \in 1 .. n : af[q[i]] = IF i = 1 THEN None ELSE q[i - 1]
    /\ tl = IF n = 0 THEN None ELSE q[n]
Lane(L, af, tl) ==
    /\ \A t \in Tickets \ L : af[t] = None
    /\ \E n \in Nat : \E q \in [1 .. n -> L] : Ordered(n, q, L, af, tl)

(* Whoever got past the wait for its turn is the head of the lane. *)
TurnOK(p, local, af) ==
    /\ local.pc = "gap" => af[<<p, "inner">>] = None
    /\ local.path = "quota" /\ local.pc # "outer" => af[<<p, "outer">>] = None
    /\ local.pc \in {"outer", "outerGap"} => local.path = "quota"
Turns == \A p \in Callers : TurnOK(p, call[p], after)

(* Upstream has moved on from the token, for good. *)
Spent(c, token, lv) == lv[c] = Dead \/ token < lv[c]

(* Nobody knows a token upstream has not issued yet ... *)
Stored(rw, rt, lv) ==
    \A c \in Connections : lv[c] # Dead =>
        /\ rw[c].token <= lv[c]
        /\ \A e \in rt : e[1] = c => e[3] <= lv[c]
Known(local, lv) ==
    lv[local.conn] # Dead => local.held <= lv[local.conn] /\ local.result <= lv[local.conn]

(* ... and a verdict of Dead is about a token that is spent. *)
Verdict(local, lv) ==
    local.result = Dead =>
        /\ local.pc \in {"gap", "cas", "write"} => Spent(local.conn, local.held, lv)
        /\ local.pc = "after" => Spent(local.conn, local.about, lv)

LaneInv   == Lane(LaneTickets, after, tail) /\ Turns

(* What a step does to the lane: nothing, or a ticket joins, or the head leaves. *)
LaneMove ==
    \/ UNCHANGED <<LaneTickets, after, tail>>
    \/ \E t \in Tickets \ LaneTickets : Join(t) /\ LaneTickets' = LaneTickets \cup {t}
    \/ \E t \in LaneTickets : /\ after[t] = None /\ LeaveLane(t)
                              /\ LaneTickets' = LaneTickets \ {t}

TokensInv ==
    /\ Stored(row, rotated, live)
    /\ \A p \in Callers : Known(call[p], live) /\ Verdict(call[p], live)
Inv == Types /\ Writers /\ OneRefreshPerConnection /\ LaneInv /\ TokensInv

-----------------------------------------------------------------------------
(* Nobody holds a ticket of a lane without a tail, and the tail is in the lane. *)
LEMMA TailInLane ==
    ASSUME NEW L, NEW af, NEW tl, Lane(L, af, tl)
    PROVE  tl # None => tl \in L
  BY DEF Lane, Ordered

(* At most one ticket of the lane awaits nobody. *)
LEMMA OneHead ==
    ASSUME NEW L \in SUBSET Tickets, NEW af, NEW tl, Lane(L, af, tl),
           NEW s \in L, NEW t \in L, af[s] = None, af[t] = None
    PROVE  s = t
  <1>1. None \notin L
    BY NoneAssumption DEF Tickets
  <1>0. PICK n \in Nat : \E q \in [1 .. n -> L] : Ordered(n, q, L, af, tl)
    BY DEF Lane
  <1>2. PICK q \in [1 .. n -> L] : Ordered(n, q, L, af, tl)
    BY <1>0
  <1>3. \A i \in 1 .. n : af[q[i]] = None => i = 1
    BY <1>1, <1>2 DEF Ordered
  <1> QED BY <1>2, <1>3 DEF Ordered

(* serializeRefresh() appends ticket t to the queue q, which gives r. *)
LEMMA JoinedOrder ==
    ASSUME NEW L \in SUBSET Tickets, NEW af \in [Tickets -> Tickets \cup {None}], NEW tl,
           NEW n \in Nat, NEW q \in [1 .. n -> L], Ordered(n, q, L, af, tl),
           NEW t \in Tickets \ L, NEW r, r[n + 1] = t, \A i \in 1 .. n : r[i] = q[i]
    PROVE  Ordered(n + 1, r, L \cup {t}, [af EXCEPT ![t] = tl], t)
  <1>1. /\ \A i \in 1 .. n : r[i] = q[i] /\ r[i] # t /\ r[i] \in L
        /\ \A i \in 1 .. n + 1 : i \in 1 .. n \/ i = n + 1
        /\ \A i \in 1 .. n : i \in 1 .. n + 1 /\ (i = 1 \/ i - 1 \in 1 .. n)
        /\ n + 1 \in 1 .. n + 1 /\ (n = 0 \/ n \in 1 .. n)
    OBVIOUS
  <1> DEFINE af2 == [af EXCEPT ![t] = tl]
  <1>2. /\ af2[t] = tl
        /\ \A s \in Tickets : s # t => af2[s] = af[s]
    OBVIOUS
  <1> HIDE DEF af2
  <1>3. \A i, j \in 1 .. n + 1 : r[i] = r[j] => i = j
    BY <1>1 DEF Ordered
  <1>4. \A s \in L \cup {t} : \E i \in 1 .. n + 1 : r[i] = s
    BY <1>1 DEF Ordered
  <1>5. \A i \in 1 .. n + 1 : af2[r[i]] = IF i = 1 THEN None ELSE r[i - 1]
    <2>1. \A i \in 1 .. n : af2[r[i]] = IF i = 1 THEN None ELSE r[i - 1]
      BY <1>1, <1>2 DEF Ordered
    <2>2. af2[r[n + 1]] = IF n + 1 = 1 THEN None ELSE r[n + 1 - 1]
      BY <1>1, <1>2 DEF Ordered
    <2> QED BY <1>1, <2>1, <2>2
  <1>6. Ordered(n + 1, r, L \cup {t}, af2, t)
    BY <1>1, <1>3, <1>4, <1>5 DEF Ordered
  <1> QED BY <1>6 DEF af2

(* The lane stays a queue. *)
LEMMA Joined ==
    ASSUME NEW L \in SUBSET Tickets, NEW af \in [Tickets -> Tickets \cup {None}], NEW tl,
           Lane(L, af, tl), NEW t \in Tickets \ L
    PROVE  Lane(L \cup {t}, [af EXCEPT ![t] = tl], t)
  <1>0. PICK n \in Nat : \E q \in [1 .. n -> L] : Ordered(n, q, L, af, tl)
    BY DEF Lane
  <1>1. PICK q \in [1 .. n -> L] : Ordered(n, q, L, af, tl)
    BY <1>0
  <1> DEFINE r == [i \in 1 .. n + 1 |-> IF i = n + 1 THEN t ELSE q[i]]
             af2 == [af EXCEPT ![t] = tl]
  <1>2. r \in [1 .. n + 1 -> L \cup {t}] /\ r[n + 1] = t /\ \A i \in 1 .. n : r[i] = q[i]
    OBVIOUS
  <1> HIDE DEF r
  <1>3. Ordered(n + 1, r, L \cup {t}, af2, t)
    BY <1>1, <1>2, JoinedOrder
  <1>4. \A s \in Tickets \ (L \cup {t}) : af2[s] = None
    BY DEF Lane
  <1> HIDE DEF af2
  <1>5. Lane(L \cup {t}, af2, t)
    BY <1>2, <1>3, <1>4 DEF Lane
  <1> QED BY <1>5 DEF af2

(* The head t of the queue q leaves it, which gives r with af2 and tl2. *)
Shifts(n, q, af, tl, t, r, af2, tl2) ==
    /\ n # 0 /\ q[1] = t
    /\ \A i \in 1 .. n - 1 : r[i] = q[i + 1]
    /\ \A s \in Tickets : af2[s] = IF af[s] = t THEN None ELSE af[s]
    /\ tl2 = IF tl = t THEN None ELSE tl

(* The successor of the head becomes the head. *)
LEMMA LeftOrder ==
    ASSUME NEW L \in SUBSET Tickets, NEW af \in [Tickets -> Tickets \cup {None}], NEW tl,
           NEW n \in Nat, NEW q \in [1 .. n -> L], Ordered(n, q, L, af, tl),
           NEW t \in L, NEW r, NEW af2, NEW tl2, Shifts(n, q, af, tl, t, r, af2, tl2)
    PROVE  (\A i \in 1 .. n - 1 : r[i] \in L \ {t}) /\ Ordered(n - 1, r, L \ {t}, af2, tl2)
  <1> USE DEF Shifts
  <1>1. \A i \in 2 .. n : q[i] # t /\ q[i] \in L
    BY DEF Ordered
  <1>2. \A i \in 1 .. n - 1 : r[i] \in L \ {t}
    BY <1>1
  <1>3. \A s \in Tickets : af2[s] = IF af[s] = t THEN None ELSE af[s]
    OBVIOUS
  <1>4. \A i, j \in 1 .. n - 1 : r[i] = r[j] => i = j
    BY DEF Ordered
  <1>5. \A s \in L \ {t} : \E i \in 1 .. n - 1 : r[i] = s
    <2> TAKE s \in L \ {t}
    <2>1. PICK i \in 1 .. n : q[i] = s
      BY DEF Ordered
    <2>2. i - 1 \in 1 .. n - 1 /\ i - 1 + 1 = i
      BY <2>1
    <2> QED BY <2>1, <2>2
  <1>6. \A i \in 1 .. n - 1 : af2[r[i]] = IF i = 1 THEN None ELSE r[i - 1]
    <2> TAKE i \in 1 .. n - 1
    <2>1. i + 1 \in 2 .. n /\ i + 1 \in 1 .. n /\ i \in 1 .. n
      OBVIOUS
    <2>2. af[r[i]] = q[i] /\ r[i] \in Tickets
      BY <1>1, <2>1 DEF Ordered
    <2>3. CASE i = 1
      BY <1>3, <2>2, <2>3
    <2>4. CASE i # 1
      <3>1. i \in 2 .. n /\ i - 1 \in 1 .. n - 1 /\ i - 1 + 1 = i
        BY <2>1, <2>4
      <3> QED BY <1>1, <1>3, <2>2, <2>4, <3>1
    <2> QED BY <2>3, <2>4
  <1>7. tl2 = IF n - 1 = 0 THEN None ELSE r[n - 1]
    <2>1. tl = q[n]
      BY DEF Ordered
    <2>2. CASE n = 1
      BY <2>1, <2>2
    <2>3. CASE n # 1
      <3>1. n \in 2 .. n /\ n - 1 \in 1 .. n - 1 /\ n - 1 + 1 = n
        BY <2>3
      <3> QED BY <1>1, <2>1, <2>3, <3>1
    <2> QED BY <2>2, <2>3
  <1>8. Ordered(n - 1, r, L \ {t}, af2, tl2)
    BY <1>4, <1>5, <1>6, <1>7 DEF Ordered
  <1> QED BY <1>2, <1>8

(* The lane stays a queue. *)
LEMMA Left ==
    ASSUME NEW L \in SUBSET Tickets, NEW af \in [Tickets -> Tickets \cup {None}], NEW tl,
           Lane(L, af, tl), NEW t \in L, af[t] = None
    PROVE  Lane(L \ {t}, [s \in Tickets |-> IF af[s] = t THEN None ELSE af[s]],
                IF tl = t THEN None ELSE tl)
  <1>0. PICK n \in Nat : \E q \in [1 .. n -> L] : Ordered(n, q, L, af, tl)
    BY DEF Lane
  <1>1. PICK q \in [1 .. n -> L] : Ordered(n, q, L, af, tl)
    BY <1>0
  <1>2. None \notin L
    BY NoneAssumption DEF Tickets
  <1>3. n \in Nat \ {0} /\ q[1] = t
    BY <1>1, <1>2 DEF Ordered
  <1> DEFINE r == [i \in 1 .. n - 1 |-> q[i + 1]]
             af2 == [s \in Tickets |-> IF af[s] = t THEN None ELSE af[s]]
             tl2 == IF tl = t THEN None ELSE tl
  <1>4. \A i \in 1 .. n - 1 : r[i] = q[i + 1]
    OBVIOUS
  <1>5. (\A i \in 1 .. n - 1 : r[i] \in L \ {t}) => r \in [1 .. n - 1 -> L \ {t}]
    OBVIOUS
  <1>6. \A s \in Tickets \ (L \ {t}) : af2[s] = None
    BY DEF Lane
  <1>7. Shifts(n, q, af, tl, t, r, af2, tl2)
    BY <1>3, <1>4 DEF Shifts
  <1> HIDE DEF r, af2, tl2
  <1>8. (\A i \in 1 .. n - 1 : r[i] \in L \ {t}) /\ Ordered(n - 1, r, L \ {t}, af2, tl2)
    BY <1>1, <1>7, LeftOrder
  <1>9. n - 1 \in Nat
    BY <1>3
  <1>10. Lane(L \ {t}, af2, tl2)
    BY <1>5, <1>6, <1>8, <1>9 DEF Lane
  <1> QED BY <1>10 DEF af2, tl2
-----------------------------------------------------------------------------
(* A connection exists, and so does the token every connection starts with. *)
LEMMA IdleIsACall == Idle \in Call /\ 0 \in Tokens /\ Tokens \subseteq Nat
  <1>1. PICK c \in Connections : TRUE
    BY ConnectionsAssumption
  <1>2. (CHOOSE d \in Connections : TRUE) \in Connections
    BY <1>1
  <1>3. 0 \in Tokens /\ Tokens \subseteq Nat
    <2>1. \A d \in Connections : MaxToken[d] \in Nat
      BY BoundsAssumption
    <2> QED BY <1>1, <2>1 DEF Tokens
  <1>4. 1 \in 1 .. MaxAttempts
    BY BoundsAssumption
  <1>5. "long" \in Expiries
    BY ExpiriesAssumption
  <1> QED BY <1>2, <1>3, <1>4, <1>5 DEF Idle, Call, Pcs, AllPaths, Results

(* A lane that is joined or left is one of tickets. *)
LEMMA LaneTypes ==
    ASSUME Types, NEW t \in Tickets, Join(t) \/ LeaveLane(t)
    PROVE  after' \in [Tickets -> Tickets \cup {None}] /\ tail' \in Tickets \cup {None}
  BY DEF Types, Join, LeaveLane

(* The types of a caller whose local state is replaced by a typed one. *)
LEMMA SetTypes ==
    ASSUME Types, NEW p \in Callers, NEW local \in Call, Set(p, local)
    PROVE  call' \in [Callers -> Call]
  BY DEF Types, Set

(* The stored token is replaced by one upstream has issued. *)
LEMMA StoreTypes ==
    ASSUME Types, NEW p \in Callers, NEW fails, call[p].result >= 0, StoreToken(p, fails)
    PROVE  row' \in [Connections -> Row]
  <1>1. call[p].result \in Tokens /\ Conn(p) \in Connections
    BY DEF Types, Call, Results, Fail, Dead, Conn
  <1>2. call[p].lease \in Expiries
    BY DEF Types, Call
  <1>3. [row[Conn(p)] EXCEPT !.token = call[p].result, !.expiry = call[p].lease] \in Row
    BY <1>1, <1>2 DEF Types, Row
  <1> QED BY <1>1, <1>3 DEF Types, StoreToken

(* Everybody who settles has the result of the refresh. *)
LEMMA SettleTypes ==
    ASSUME Types, NEW p \in Callers, NEW persisted \in BOOLEAN, Settle(p, persisted)
    PROVE  call' \in [Callers -> Call] /\ mutex' \in [Connections -> Callers \cup {None}]
  <1> DEFINE subject == IF call[p].result = Dead THEN call[p].held ELSE 0
  <1>1. /\ subject \in Tokens /\ call[p].lease \in Expiries
        /\ \A q \in Callers : Seen(q, call[p].result) \in Results
    BY IdleIsACall DEF Types, Call, Seen, Results
  <1> HIDE DEF subject
  <1>2. (call[p].persisted \/ persisted) \in BOOLEAN
    OBVIOUS
  <1>3. [call[p] EXCEPT !.pc = "after", !.result = Seen(p, @), !.persisted = @ \/ persisted,
                        !.about = subject] \in Call
    BY <1>1, <1>2 DEF Types, Call, Pcs
  <1>4. \A q \in Callers :
          [call[q] EXCEPT !.pc = "after", !.result = Seen(q, call[p].result),
                          !.lease = call[p].lease, !.about = subject] \in Call
    <2>1. ASSUME NEW local \in Call, NEW result \in Results, NEW lease \in Expiries,
                 NEW token \in Tokens
          PROVE  [local EXCEPT !.pc = "after", !.result = result, !.lease = lease,
                               !.about = token] \in Call
      BY DEF Call, Pcs
    <2>2. \A q \in Callers : call[q] \in Call
      BY DEF Types
    <2> QED BY <1>1, <2>1, <2>2
  <1> QED BY <1>3, <1>4 DEF Types, Settle, subject

(* An answer is a result, and leaves upstream with a token it may issue. *)
LEMMA AnswerTypes ==
    ASSUME Types, NEW p \in Callers, NEW a \in Answers(p), a.live <= MaxToken[Conn(p)]
    PROVE  a.result \in Results /\ a.live \in Tokens \cup {Dead}
  <1>1. Conn(p) \in Connections /\ call[p].held \in Tokens
    BY DEF Types, Call, Conn
  <1>2. MaxToken[Conn(p)] \in Nat /\ call[p].held \in Nat /\ live[Conn(p)] \in Tokens \cup {Dead}
    BY <1>1, BoundsAssumption, IdleIsACall DEF Types
  <1>3. call[p].held + 1 <= MaxToken[Conn(p)] => call[p].held + 1 \in Tokens
    BY <1>1, <1>2 DEF Tokens
  <1> HIDE DEF Conn
  <1> QED BY <1>1, <1>2, <1>3 DEF Answers, Results

(* Every step keeps the types. *)
LEMMA TypesStep ==
    ASSUME Types, Writers, Next
    PROVE  Types'
  <1>1. \A p \in Callers : /\ <<p, "outer">> \in Tickets /\ <<p, "inner">> \in Tickets
                           /\ call[p] \in Call /\ Conn(p) \in Connections
    BY DEF Types, Tickets, Call, Conn
  <1>2. ASSUME NEW p \in Callers, NEW path \in AllPaths, NEW c \in Connections, Begin(p, path, c)
        PROVE  Types'
    <2>1. row[c].token \in Tokens
      BY DEF Types, Row
    <2>2. [Idle EXCEPT !.pc = "start", !.path = path, !.conn = c,
                       !.attempted = row[c].token, !.held = row[c].token] \in Call
      BY <2>1, IdleIsACall DEF Call, Pcs
    <2> QED BY <1>2, <2>2, SetTypes DEF Begin, Types
  <1>3. ASSUME NEW p \in Callers, EnterOuter(p) PROVE Types'
    <2>1. [call[p] EXCEPT !.pc = "outer"] \in Call
      BY <1>1 DEF Call, Pcs
    <2> QED BY <1>1, <1>3, <2>1, SetTypes, LaneTypes DEF EnterOuter, Types
  <1>4. ASSUME NEW p \in Callers, Share(p) PROVE Types'
    <2>1. [call[p] EXCEPT !.pc = "share"] \in Call
      BY <1>1 DEF Call, Pcs
    <2> QED BY <1>4, <2>1, SetTypes DEF Share, Types
  <1>5. ASSUME NEW p \in Callers, RotationHit(p) PROVE Types'
    <2>1. PICK e \in Rotations(p) :
             Set(p, [call[p] EXCEPT !.pc = "cas", !.result = e[3], !.lease = "long"])
      BY <1>5 DEF RotationHit
    <2>2. e[3] \in Tokens /\ "long" \in Expiries
      BY ExpiriesAssumption DEF Types, Rotations
    <2>3. [call[p] EXCEPT !.pc = "cas", !.result = e[3], !.lease = "long"] \in Call
      BY <1>1, <2>2 DEF Call, Pcs, Results
    <2> QED BY <1>5, <2>1, <2>3, SetTypes DEF RotationHit, Types
  <1>6. ASSUME NEW p \in Callers, Own(p) PROVE Types'
    <2>1. [call[p] EXCEPT !.pc = "check"] \in Call
      BY <1>1 DEF Call, Pcs
    <2> QED BY <1>6, <2>1, SetTypes DEF Own, Types
  <1>7. ASSUME NEW p \in Callers, UseStored(p) PROVE Types'
    <2>1. row[Conn(p)].token \in Tokens /\ row[Conn(p)].expiry \in Expiries
      BY <1>1 DEF Types, Row
    <2>2. [call[p] EXCEPT !.pc = "cas", !.result = row[Conn(p)].token,
                          !.lease = row[Conn(p)].expiry] \in Call
      BY <1>1, <2>1 DEF Call, Pcs, Results
    <2> QED BY <1>7, <2>2, SetTypes DEF UseStored, Types
  <1>8. ASSUME NEW p \in Callers, NEW fails \in BOOLEAN, EnterLane(p, fails) PROVE Types'
    <2>1. row[Conn(p)].token \in Tokens
      BY <1>1 DEF Types, Row
    <2>2. [call[p] EXCEPT !.pc = "inner",
                          !.held = IF fails THEN @ ELSE row[Conn(p)].token] \in Call
      BY <1>1, <2>1 DEF Call, Pcs
    <2> QED BY <1>1, <1>8, <2>2, SetTypes, LaneTypes DEF EnterLane, Types
  <1>9. ASSUME NEW p \in Callers, NEW r \in Results, Minted(p, r)
        PROVE  /\ rotated' \subseteq Connections \X Tokens \X Tokens
               /\ call' \in [Callers -> Call]
               /\ after' \in [Tickets -> Tickets \cup {None}] /\ tail' \in Tickets \cup {None}
    <2>1. [call[p] EXCEPT !.pc = "cas", !.result = r, !.lease = "long"] \in Call
      BY <1>1, ExpiriesAssumption DEF Call, Pcs
    <2>2. r >= 0 => r \in Tokens
      BY DEF Results, Fail, Dead
    <2>3. call[p].held \in Tokens
      BY <1>1 DEF Call
    <2>4. rotated' \subseteq Connections \X Tokens \X Tokens
      <3>1. r >= 0 => <<Conn(p), call[p].held, r>> \in Connections \X Tokens \X Tokens
        BY <1>1, <2>2, <2>3
      <3>2. rotated \subseteq Connections \X Tokens \X Tokens
        BY DEF Types
      <3> DEFINE e == <<Conn(p), call[p].held, r>>
      <3>3. rotated' = IF r >= 0 THEN rotated \cup {e} ELSE rotated
        BY <1>9 DEF Minted
      <3> HIDE DEF e
      <3> QED BY <3>1, <3>2, <3>3 DEF e
    <2> QED BY <1>1, <1>9, <2>1, <2>4, SetTypes, LaneTypes DEF Minted
  <1>10. ASSUME NEW p \in Callers, NEW a \in Answers(p), Reply(p, a) PROVE Types'
    <2>1. a.result \in Results /\ a.live \in Tokens \cup {Dead}
      BY <1>10, AnswerTypes DEF Reply
    <2>2. live' \in [Connections -> Tokens \cup {Dead}]
      BY <1>1, <1>10, <2>1 DEF Reply, Types
    <2>3. [call[p] EXCEPT !.pc = "gap", !.result = a.result] \in Call
      BY <1>1, <2>1 DEF Call, Pcs
    <2>4. CASE HasSuccessor(<<p, "inner">>)
      BY <1>10, <2>2, <2>3, <2>4, SetTypes DEF Reply, Types
    <2>5. CASE ~HasSuccessor(<<p, "inner">>)
      BY <1>9, <1>10, <2>1, <2>2, <2>5 DEF Reply, Types
    <2> QED BY <2>4, <2>5
  <1>11. ASSUME NEW p \in Callers, GapOver(p) PROVE Types'
    <2>1. call[p].result \in Results
      BY <1>1 DEF Call
    <2> QED BY <1>9, <1>11, <2>1 DEF GapOver, Types
  <1>12. ASSUME NEW p \in Callers, PersistSkipped(p) PROVE Types'
    BY <1>12, SettleTypes DEF PersistSkipped, Types
  <1>13. ASSUME NEW p \in Callers, NEW fails \in BOOLEAN, PersistBegun(p, fails) PROVE Types'
    <2>1. [call[p] EXCEPT !.pc = "write"] \in Call
      BY <1>1 DEF Call, Pcs
    <2> QED BY <1>13, <2>1, SetTypes DEF PersistBegun, Types
  <1>14. ASSUME NEW p \in Callers, NEW fails \in BOOLEAN, Persist(p, fails) PROVE Types'
    BY <1>14, SettleTypes, StoreTypes DEF Persist, Types, Writers
  <1>15. ASSUME NEW p \in Callers, Done(p) PROVE Types'
    BY <1>15, SetTypes, IdleIsACall DEF Done, Types
  <1>16. ASSUME NEW p \in Callers, NEW fails \in BOOLEAN, FallbackWrite(p, fails) PROVE Types'
    BY <1>16, SetTypes, StoreTypes, IdleIsACall DEF FallbackWrite, Types
  <1>17. ASSUME NEW p \in Callers, Retry(p) PROVE Types'
    <2>0. call[p].attempt \in 1 .. MaxAttempts
      BY <1>1 DEF Call
    <2>1. call[p].attempt + 1 \in 1 .. MaxAttempts
      BY <1>17, <2>0, BoundsAssumption DEF Retry
    <2>2. [call[p] EXCEPT !.pc = "start", !.attempt = @ + 1] \in Call
      BY <1>1, <2>1 DEF Call, Pcs
    <2> QED BY <1>17, <2>2, SetTypes DEF Retry, Types
  <1>18. ASSUME NEW p \in Callers, NEW fails \in BOOLEAN, Confirm(p, fails) \/ Condemn(p, fails)
         PROVE  Types'
    <2>1. [row EXCEPT ![Conn(p)].active = FALSE] \in [Connections -> Row]
      BY <1>1 DEF Types, Row
    <2>2. [call[p] EXCEPT !.pc = "condemn"] \in Call
      BY <1>1 DEF Call, Pcs
    <2>3. CASE Confirm(p, fails)
      BY <2>2, <2>3, SetTypes, IdleIsACall DEF Confirm, Types
    <2>4. CASE Condemn(p, fails)
      BY <2>1, <2>4, SetTypes, IdleIsACall DEF Condemn, Types
    <2> QED BY <1>18, <2>3, <2>4
  <1>19. ASSUME NEW p \in Callers, OuterDone(p) \/ OuterGapOver(p) PROVE Types'
    <2>1. \A pc \in Pcs : [call[p] EXCEPT !.pc = pc] \in Call
      BY <1>1 DEF Call
    <2>2. {"outerGap", "final"} \subseteq Pcs
      BY DEF Pcs
    <2> QED BY <1>1, <1>19, <2>1, <2>2, SetTypes, LaneTypes DEF OuterDone, OuterGapOver, Types
  <1>20. ASSUME NEW p \in Callers, NEW fails \in BOOLEAN, QuotaWrite(p, fails) PROVE Types'
    BY <1>20, SetTypes, StoreTypes, IdleIsACall DEF QuotaWrite, Types
  <1>21. ASSUME NEW c \in Connections, NEW e \in Expiries, ExpireAccess(c, e) PROVE Types'
    <2>1. row' \in [Connections -> Row]
      BY <1>21 DEF ExpireAccess, Types, Row
    <2> QED BY <1>21, <2>1 DEF ExpireAccess, Types
  <1>22. ASSUME NEW e \in rotated, ExpireRotation(e) PROVE Types'
    BY <1>22 DEF ExpireRotation, Types
  <1> QED BY <1>2, <1>3, <1>4, <1>5, <1>6, <1>7, <1>8, <1>10, <1>11, <1>12, <1>13, <1>14,
             <1>15, <1>16, <1>17, <1>18, <1>19, <1>20, <1>21, <1>22, PathsAssumption
          DEF Next, Step

(* One caller alone gets a local state. *)
LEMMA SetOne ==
    ASSUME Types, NEW p \in Callers, NEW local, Set(p, local)
    PROVE  call'[p] = local /\ \A q \in Callers : q # p => call'[q] = call[q]
  BY DEF Types, Set

(* PersistBegun() alone leads to the write, and it has a token. *)
LEMMA WritersStep ==
    ASSUME Types, Writers, Next
    PROVE  Writers'
  <1>1. ASSUME NEW p \in Callers, NEW local, Set(p, local),
               local.pc = "write" => local.result >= 0
        PROVE  Writers'
    BY <1>1, SetOne DEF Writers, At
  <1>2. ASSUME NEW p \in Callers, NEW persisted, Settle(p, persisted) PROVE Writers'
    BY <1>2 DEF Settle, Writers, At, Types, Call
  <1>3. Idle.pc = "idle"
    BY DEF Idle
  <1>4. \A p \in Callers : call[p] \in Call
    BY DEF Types
  <1>5. ASSUME NEW p \in Callers, NEW path, NEW c \in Connections, Begin(p, path, c) PROVE Writers'
    BY <1>1, <1>5 DEF Begin, Idle
  <1>6. ASSUME NEW p \in Callers, EnterOuter(p) \/ Share(p) \/ Own(p) PROVE Writers'
    BY <1>1, <1>4, <1>6 DEF EnterOuter, Share, Own, Call
  <1>7. ASSUME NEW p \in Callers, RotationHit(p) \/ UseStored(p) PROVE Writers'
    BY <1>1, <1>4, <1>7 DEF RotationHit, UseStored, Call
  <1>8. ASSUME NEW p \in Callers, NEW fails, EnterLane(p, fails) PROVE Writers'
    BY <1>1, <1>4, <1>8 DEF EnterLane, Call
  <1>9. ASSUME NEW p \in Callers, NEW a, Reply(p, a) PROVE Writers'
    BY <1>1, <1>4, <1>9 DEF Reply, Minted, Call
  <1>10. ASSUME NEW p \in Callers, GapOver(p) PROVE Writers'
    BY <1>1, <1>4, <1>10 DEF GapOver, Minted, Call
  <1>11. ASSUME NEW p \in Callers, NEW fails, PersistSkipped(p) \/ Persist(p, fails) PROVE Writers'
    BY <1>2, <1>11 DEF PersistSkipped, Persist
  <1>12. ASSUME NEW p \in Callers, NEW fails, PersistBegun(p, fails) PROVE Writers'
    BY <1>1, <1>4, <1>12 DEF PersistBegun, Call
  <1>13. ASSUME NEW p \in Callers, NEW fails,
                \/ Done(p) \/ FallbackWrite(p, fails) \/ QuotaWrite(p, fails)
                \/ Confirm(p, fails) \/ Condemn(p, fails)
         PROVE  Writers'
    BY <1>1, <1>3, <1>4, <1>13 DEF Done, FallbackWrite, QuotaWrite, Confirm, Condemn, Call
  <1>14. ASSUME NEW p \in Callers, Retry(p) PROVE Writers'
    BY <1>1, <1>4, <1>14 DEF Retry, Call
  <1>15. ASSUME NEW p \in Callers, OuterDone(p) \/ OuterGapOver(p) PROVE Writers'
    BY <1>1, <1>4, <1>15 DEF OuterDone, OuterGapOver, Call
  <1>16. ASSUME NEW c, NEW e, ExpireAccess(c, e) \/ ExpireRotation(e) PROVE Writers'
    BY <1>16 DEF ExpireAccess, ExpireRotation, Writers, At
  <1> QED BY <1>5, <1>6, <1>7, <1>8, <1>9, <1>10, <1>11, <1>12, <1>13, <1>14, <1>15, <1>16,
             ConnectionsAssumption DEF Next, Step

-----------------------------------------------------------------------------
(* OneRefreshPerConnection, read from the callers and from the mutex. *)
Owners ==
    /\ \A p \in Callers : call[p].pc \in OwnerPcs => mutex[Conn(p)] = p
    /\ \A c \in Connections :
          mutex[c] # None => call[mutex[c]].pc \in OwnerPcs /\ Conn(mutex[c]) = c

(* The two readings agree. *)
LEMMA OwnersAgree ==
    ASSUME Types
    PROVE  OneRefreshPerConnection <=> Owners
  <1>1. \A p \in Callers : Conn(p) \in Connections
    BY DEF Types, Call, Conn
  <1>2. \A c \in Connections : mutex[c] \in Callers \cup {None}
    BY DEF Types
  <1>3. ASSUME OneRefreshPerConnection PROVE Owners
    <2>1. ASSUME NEW p \in Callers, call[p].pc \in OwnerPcs PROVE mutex[Conn(p)] = p
      BY <1>1, <1>3, <2>1 DEF OneRefreshPerConnection
    <2>2. ASSUME NEW c \in Connections, mutex[c] # None
          PROVE  call[mutex[c]].pc \in OwnerPcs /\ Conn(mutex[c]) = c
      BY <1>3, <2>2 DEF OneRefreshPerConnection
    <2> QED BY <2>1, <2>2 DEF Owners
  <1>4. ASSUME Owners PROVE OneRefreshPerConnection
    <2> SUFFICES ASSUME NEW c \in Connections
                 PROVE  {p \in Callers : call[p].pc \in OwnerPcs /\ Conn(p) = c}
                          = IF mutex[c] = None THEN {} ELSE {mutex[c]}
      BY DEF OneRefreshPerConnection
    <2>1. \A p \in Callers : call[p].pc \in OwnerPcs /\ Conn(p) = c => mutex[c] = p
      BY <1>4 DEF Owners
    <2>2. CASE mutex[c] = None
      BY <2>1, <2>2, NoneAssumption
    <2>3. CASE mutex[c] # None
      BY <1>2, <1>4, <2>1, <2>3 DEF Owners
    <2> QED BY <2>2, <2>3
  <1> QED BY <1>3, <1>4

(* A caller that neither starts nor ends a refresh. *)
LEMMA OwnersKept ==
    ASSUME Types, Owners, NEW p \in Callers, NEW local, Set(p, local), mutex' = mutex,
           local.pc \in OwnerPcs <=> call[p].pc \in OwnerPcs,
           call[p].pc \in OwnerPcs => local.conn = Conn(p)
    PROVE  Owners'
  <1>1. call'[p] = local /\ \A q \in Callers : q # p => call'[q] = call[q]
    BY SetOne
  <1>2. \A c \in Connections : mutex[c] \in Callers \cup {None}
    BY DEF Types
  <1> QED BY <1>1, <1>2 DEF Owners, Conn

(* A caller that takes the free mutex of its connection. *)
LEMMA OwnersTaken ==
    ASSUME Types, Owners, NEW p \in Callers, NEW local, Set(p, local),
           mutex[Conn(p)] = None, mutex' = [mutex EXCEPT ![Conn(p)] = p],
           local.pc \in OwnerPcs, call[p].pc \notin OwnerPcs, local.conn = Conn(p)
    PROVE  Owners'
  <1>1. call'[p] = local /\ \A q \in Callers : q # p => call'[q] = call[q]
    BY SetOne
  <1>2. \A q \in Callers : Conn(q) \in Connections
    BY DEF Types, Call, Conn
  <1>3. /\ mutex'[Conn(p)] = p
        /\ \A c \in Connections : mutex[c] \in Callers \cup {None}
        /\ \A c \in Connections : c # Conn(p) => mutex'[c] = mutex[c]
    BY <1>2 DEF Types
  <1>4. ASSUME NEW q \in Callers, call'[q].pc \in OwnerPcs PROVE mutex'[call'[q].conn] = q
    <2>1. CASE q = p
      BY <1>1, <1>3, <2>1
    <2>2. CASE q # p
      BY <1>1, <1>2, <1>3, <1>4, <2>2, NoneAssumption DEF Owners, Conn
    <2> QED BY <2>1, <2>2
  <1>5. ASSUME NEW c \in Connections, mutex'[c] # None
        PROVE  call'[mutex'[c]].pc \in OwnerPcs /\ call'[mutex'[c]].conn = c
    <2>1. CASE c = Conn(p)
      BY <1>1, <1>3, <2>1
    <2>2. CASE c # Conn(p)
      <3>1. mutex[c] \in Callers /\ call[mutex[c]].pc \in OwnerPcs /\ call[mutex[c]].conn = c
        BY <1>3, <1>5, <2>2 DEF Owners, Conn
      <3> QED BY <1>1, <1>3, <2>2, <3>1
    <2> QED BY <2>1, <2>2
  <1> QED BY <1>4, <1>5 DEF Owners, Conn

(* The promise of the owner settles. *)
LEMMA OwnersSettled ==
    ASSUME Types, Owners, NEW p \in Callers, NEW persisted, Settle(p, persisted),
           call[p].pc \in OwnerPcs
    PROVE  Owners'
  <1>1. \A q \in Callers : call[q] \in Call /\ Conn(q) \in Connections
    BY DEF Types, Call, Conn
  <1>2. \A q \in Callers : /\ call'[q].conn = call[q].conn
                           /\ q = p => call'[q].pc = "after"
                           /\ q # p => \/ call'[q].pc = "after" /\ call[q].pc = "share"
                                       \/ call'[q].pc = call[q].pc
    BY <1>1 DEF Settle, At, Call
  <1>3. \A q \in Callers : call'[q].pc \in OwnerPcs <=> q # p /\ call[q].pc \in OwnerPcs
    BY <1>2 DEF OwnerPcs
  <1>4. /\ mutex'[Conn(p)] = None
        /\ \A c \in Connections : mutex[c] \in Callers \cup {None}
        /\ \A c \in Connections : c # Conn(p) => mutex'[c] = mutex[c]
    BY <1>1 DEF Types, Settle
  <1>5. mutex[Conn(p)] = p
    BY DEF Owners
  <1>6. ASSUME NEW q \in Callers, call'[q].pc \in OwnerPcs PROVE mutex'[call'[q].conn] = q
    <2>1. q # p /\ mutex[Conn(q)] = q
      BY <1>3, <1>6 DEF Owners
    <2>2. Conn(q) # Conn(p)
      BY <1>5, <2>1
    <2> QED BY <1>1, <1>2, <1>4, <2>1, <2>2 DEF Conn
  <1>7. ASSUME NEW c \in Connections, mutex'[c] # None
        PROVE  call'[mutex'[c]].pc \in OwnerPcs /\ call'[mutex'[c]].conn = c
    <2>1. c # Conn(p) /\ mutex'[c] = mutex[c] /\ mutex[c] \in Callers
      BY <1>4, <1>7
    <2>2. call[mutex[c]].pc \in OwnerPcs /\ Conn(mutex[c]) = c
      BY <1>7, <2>1 DEF Owners
    <2> QED BY <1>2, <1>3, <2>1, <2>2 DEF Conn
  <1> QED BY <1>6, <1>7 DEF Owners, Conn

(* Every step keeps one refresh per connection. *)
LEMMA OwnersStep ==
    ASSUME Types, Owners, Next
    PROVE  Owners'
  <1>1. \A p \in Callers : call[p] \in Call
    BY DEF Types
  <1>2. Idle.pc = "idle"
    BY DEF Idle
  <1>3. ASSUME NEW p \in Callers, NEW path, NEW c \in Connections, Begin(p, path, c) PROVE Owners'
    BY <1>3, OwnersKept DEF Begin, At, Idle, OwnerPcs
  <1>4. ASSUME NEW p \in Callers, EnterOuter(p) \/ Share(p) PROVE Owners'
    BY <1>1, <1>4, OwnersKept DEF EnterOuter, Share, Calls, At, Call, OwnerPcs
  <1>5. ASSUME NEW p \in Callers, RotationHit(p) PROVE Owners'
    <2>1. PICK e \in Rotations(p) :
             Set(p, [call[p] EXCEPT !.pc = "cas", !.result = e[3], !.lease = "long"])
      BY <1>5 DEF RotationHit
    <2> QED BY <1>1, <1>5, <2>1, OwnersTaken DEF RotationHit, Calls, At, Call, OwnerPcs, Conn
  <1>6. ASSUME NEW p \in Callers, Own(p) PROVE Owners'
    BY <1>1, <1>6, OwnersTaken DEF Own, Calls, At, Call, OwnerPcs, Conn
  <1>7. ASSUME NEW p \in Callers, UseStored(p) PROVE Owners'
    BY <1>1, <1>7, OwnersKept DEF UseStored, At, Call, OwnerPcs, Conn
  <1>8. ASSUME NEW p \in Callers, NEW fails, EnterLane(p, fails) PROVE Owners'
    BY <1>1, <1>8, OwnersKept DEF EnterLane, At, Call, OwnerPcs, Conn
  <1>9. ASSUME NEW p \in Callers, NEW a, Reply(p, a) PROVE Owners'
    BY <1>1, <1>9, OwnersKept DEF Reply, Posting, Minted, At, Call, OwnerPcs, Conn
  <1>10. ASSUME NEW p \in Callers, GapOver(p) PROVE Owners'
    BY <1>1, <1>10, OwnersKept DEF GapOver, Minted, At, Call, OwnerPcs, Conn
  <1>11. ASSUME NEW p \in Callers, NEW fails, PersistSkipped(p) \/ Persist(p, fails) PROVE Owners'
    BY <1>11, OwnersSettled DEF PersistSkipped, Persist, At, OwnerPcs
  <1>12. ASSUME NEW p \in Callers, NEW fails, PersistBegun(p, fails) PROVE Owners'
    BY <1>1, <1>12, OwnersKept DEF PersistBegun, At, Call, OwnerPcs, Conn
  <1>13. ASSUME NEW p \in Callers, NEW fails,
                \/ Done(p) \/ FallbackWrite(p, fails) \/ QuotaWrite(p, fails)
                \/ Confirm(p, fails) \/ Condemn(p, fails)
         PROVE  Owners'
    BY <1>1, <1>2, <1>13, OwnersKept
       DEF Done, FallbackWrite, QuotaWrite, Confirm, Condemn, At, Call, OwnerPcs
  <1>14. ASSUME NEW p \in Callers, Retry(p) PROVE Owners'
    BY <1>1, <1>14, OwnersKept DEF Retry, At, Call, OwnerPcs
  <1>15. ASSUME NEW p \in Callers, OuterDone(p) \/ OuterGapOver(p) PROVE Owners'
    BY <1>1, <1>15, OwnersKept DEF OuterDone, OuterGapOver, At, Call, OwnerPcs
  <1>16. ASSUME NEW c, NEW e, ExpireAccess(c, e) \/ ExpireRotation(e) PROVE Owners'
    BY <1>16 DEF ExpireAccess, ExpireRotation, Owners, Conn
  <1> QED BY <1>3, <1>4, <1>5, <1>6, <1>7, <1>8, <1>9, <1>10, <1>11, <1>12, <1>13, <1>14,
             <1>15, <1>16, ConnectionsAssumption DEF Next, Step

-----------------------------------------------------------------------------
(* Which tickets are in the lane once one caller alone has moved. *)
LEMMA SetLane ==
    ASSUME Types, NEW p \in Callers, NEW local, Set(p, local)
    PROVE  \A q \in Callers, k \in {"outer", "inner"} :
             <<q, k>> \in LaneTickets' <=>
               IF q = p THEN IF k = "inner" THEN InnerIn(local) ELSE OuterIn(local)
               ELSE <<q, k>> \in LaneTickets
  BY SetOne DEF LaneTickets, InLane, Tickets

(* A set of tickets is known from the callers' tickets in it. *)
LEMMA TicketSets ==
    ASSUME NEW L \in SUBSET Tickets, NEW M \in SUBSET Tickets,
           \A q \in Callers, k \in {"outer", "inner"} : <<q, k>> \in L <=> <<q, k>> \in M
    PROVE  L = M
  <1>1. \A t \in Tickets : \E q \in Callers, k \in {"outer", "inner"} : t = <<q, k>>
    BY DEF Tickets
  <1>2. \A t \in Tickets : t \in L <=> t \in M
    BY <1>1
  <1> QED BY <1>2

(* A caller that moves without joining or leaving the lane. *)
LEMMA LaneKept ==
    ASSUME Types, LaneInv, NEW p \in Callers, NEW local, Set(p, local),
           UNCHANGED <<after, tail>>,
           InnerIn(local) <=> InnerIn(call[p]), OuterIn(local) <=> OuterIn(call[p]),
           TurnOK(p, local, after)
    PROVE  LaneInv' /\ LaneMove
  <1>1. LaneTickets' = LaneTickets
    <2>1. \A k \in {"outer", "inner"} :
            <<p, k>> \in LaneTickets <=> IF k = "inner" THEN InnerIn(call[p]) ELSE OuterIn(call[p])
      BY DEF LaneTickets, InLane, Tickets
    <2>2. \A q \in Callers, k \in {"outer", "inner"} :
            <<q, k>> \in LaneTickets' <=> <<q, k>> \in LaneTickets
      BY <2>1, SetLane
    <2>3. LaneTickets \in SUBSET Tickets /\ LaneTickets' \in SUBSET Tickets
      BY DEF LaneTickets, Tickets
    <2> QED BY <2>2, <2>3, TicketSets
  <1>2. Turns'
    BY SetOne DEF LaneInv, Turns
  <1> QED BY <1>1, <1>2 DEF LaneInv, LaneMove

(* A caller that joins the lane. *)
LEMMA LaneJoined ==
    ASSUME Types, LaneInv, NEW p \in Callers, NEW local, Set(p, local),
           NEW k \in {"outer", "inner"}, Join(<<p, k>>),
           ~InLane(<<p, k>>),
           k = "inner" => InnerIn(local) /\ (OuterIn(local) <=> OuterIn(call[p])),
           k = "outer" => OuterIn(local) /\ (InnerIn(local) <=> InnerIn(call[p])),
           TurnOK(p, local, after')
    PROVE  LaneInv' /\ LaneMove
  <1> DEFINE t == <<p, k>>
  <1>1. t \in Tickets \ LaneTickets /\ LaneTickets \in SUBSET Tickets
    BY DEF Tickets, LaneTickets
  <1>2. LaneTickets' = LaneTickets \cup {t}
    <2>1. \A j \in {"outer", "inner"} :
            <<p, j>> \in LaneTickets <=> IF j = "inner" THEN InnerIn(call[p]) ELSE OuterIn(call[p])
      BY DEF LaneTickets, InLane, Tickets
    <2>2. \A q \in Callers, j \in {"outer", "inner"} :
            <<q, j>> \in LaneTickets' <=> <<q, j>> \in LaneTickets \cup {t}
      BY <2>1, SetLane
    <2>3. LaneTickets' \in SUBSET Tickets
      BY DEF LaneTickets, Tickets
    <2>4. LaneTickets \cup {t} \in SUBSET Tickets
      BY <1>1
    <2> QED BY <2>2, <2>3, <2>4, TicketSets
  <1>3. Lane(LaneTickets', after', tail')
    <2>1. after \in [Tickets -> Tickets \cup {None}] /\ Lane(LaneTickets, after, tail)
      BY DEF Types, LaneInv
    <2>2. after' = [after EXCEPT ![t] = tail] /\ tail' = t
      BY DEF Join
    <2> HIDE DEF t
    <2> QED BY <1>1, <1>2, <2>1, <2>2, Joined
  <1>4. Turns'
    <2>1. \A q \in Callers, j \in {"outer", "inner"} : q # p => after'[<<q, j>>] = after[<<q, j>>]
      BY DEF Join, Types, Tickets
    <2> QED BY <2>1, SetOne DEF LaneInv, Turns, TurnOK
  <1>5. LaneMove
    BY <1>1, <1>2 DEF LaneMove
  <1> QED BY <1>3, <1>4, <1>5 DEF LaneInv

(* A caller that leaves the lane. *)
LEMMA LaneLeft ==
    ASSUME Types, LaneInv, NEW p \in Callers, NEW local, Set(p, local),
           NEW k \in {"outer", "inner"}, LeaveLane(<<p, k>>),
           InLane(<<p, k>>), after[<<p, k>>] = None,
           k = "inner" => ~InnerIn(local) /\ (OuterIn(local) <=> OuterIn(call[p])),
           k = "outer" => ~OuterIn(local) /\ (InnerIn(local) <=> InnerIn(call[p])),
           TurnOK(p, local, after)
    PROVE  LaneInv' /\ LaneMove
  <1> DEFINE t == <<p, k>>
  <1>1. t \in LaneTickets /\ LaneTickets \in SUBSET Tickets
    BY DEF Tickets, LaneTickets
  <1>2. LaneTickets' = LaneTickets \ {t}
    <2>1. \A j \in {"outer", "inner"} :
            <<p, j>> \in LaneTickets <=> IF j = "inner" THEN InnerIn(call[p]) ELSE OuterIn(call[p])
      BY DEF LaneTickets, InLane, Tickets
    <2>2. \A q \in Callers, j \in {"outer", "inner"} :
            <<q, j>> \in LaneTickets' <=> <<q, j>> \in LaneTickets \ {t}
      BY <2>1, SetLane
    <2>3. LaneTickets' \in SUBSET Tickets
      BY DEF LaneTickets, Tickets
    <2>4. LaneTickets \ {t} \in SUBSET Tickets
      BY <1>1
    <2> QED BY <2>2, <2>3, <2>4, TicketSets
  <1>3. Lane(LaneTickets', after', tail')
    <2>1. after \in [Tickets -> Tickets \cup {None}] /\ Lane(LaneTickets, after, tail)
      BY DEF Types, LaneInv
    <2>2. /\ after' = [s \in Tickets |-> IF after[s] = t THEN None ELSE after[s]]
          /\ tail' = IF tail = t THEN None ELSE tail
          /\ after[t] = None
      BY DEF LeaveLane
    <2> HIDE DEF t
    <2> QED BY <1>1, <1>2, <2>1, <2>2, Left
  <1>4. Turns'
    <2>1. \A q \in Callers, j \in {"outer", "inner"} :
            after[<<q, j>>] = None => after'[<<q, j>>] = None
      BY DEF LeaveLane, Tickets
    <2> QED BY <2>1, SetOne DEF LaneInv, Turns, TurnOK
  <1>5. LaneMove
    BY <1>1, <1>2 DEF LaneMove
  <1> QED BY <1>3, <1>4, <1>5 DEF LaneInv

(* A refresh settles outside the lane. *)
LEMMA LaneSettled ==
    ASSUME Types, LaneInv, NEW p \in Callers, NEW persisted, Settle(p, persisted),
           call[p].pc \in {"cas", "write"}, UNCHANGED <<after, tail>>
    PROVE  LaneInv' /\ LaneMove
  <1>1. \A q \in Callers : call[q] \in Call
    BY DEF Types
  <1>2. \A q \in Callers : /\ call'[q].path = call[q].path
                           /\ \/ call'[q].pc = call[q].pc
                              \/ call'[q].pc = "after" /\ call[q].pc \in {"share", "cas", "write"}
    BY <1>1 DEF Settle, At, Call
  <1>3. LaneTickets' = LaneTickets
    <2>1. \A q \in Callers : /\ InnerIn(call'[q]) <=> InnerIn(call[q])
                             /\ OuterIn(call'[q]) <=> OuterIn(call[q])
      BY <1>2 DEF InnerIn, OuterIn
    <2> QED BY <2>1 DEF LaneTickets, InLane, Tickets
  <1>4. Turns'
    BY <1>2 DEF LaneInv, Turns, TurnOK
  <1> QED BY <1>3, <1>4 DEF LaneInv, LaneMove

(* Every step keeps the lane a queue of those that are in it, who join at its end and
   leave it from its head. *)
LEMMA LaneStep ==
    ASSUME Types, LaneInv, Next
    PROVE  LaneInv' /\ LaneMove
  <1>1. \A p \in Callers : call[p] \in Call /\ TurnOK(p, call[p], after)
    BY DEF Types, LaneInv, Turns
  <1>2. \A p \in Callers :
          /\ ~InLane(<<p, "outer">>) => after[<<p, "outer">>] = None
          /\ InLane(<<p, "inner">>) <=> InnerIn(call[p])
          /\ InLane(<<p, "outer">>) <=> OuterIn(call[p])
    <2>1. \A t \in Tickets \ LaneTickets : after[t] = None
      BY DEF LaneInv, Lane
    <2>2. \A p \in Callers : <<p, "outer">> \in Tickets
      BY DEF Tickets
    <2> QED BY <2>1, <2>2 DEF LaneTickets, InLane
  <1> USE DEF InnerIn, OuterIn, At
  <1>3. ASSUME NEW p \in Callers, NEW path, NEW c \in Connections, Begin(p, path, c) PROVE LaneInv' /\ LaneMove
    <2> DEFINE local == [Idle EXCEPT !.pc = "start", !.path = path, !.conn = c,
                                     !.attempted = row[c].token, !.held = row[c].token]
    <2>1. local.pc = "start" /\ Set(p, local) /\ call[p].pc = "idle"
      BY <1>3 DEF Begin, Idle
    <2> HIDE DEF local
    <2>2. UNCHANGED <<after, tail>>
      BY <1>3 DEF Begin
    <2>3. TurnOK(p, local, after)
      BY <1>2, <2>1 DEF TurnOK
    <2> QED BY <2>1, <2>2, <2>3, LaneKept
  <1>4. ASSUME NEW p \in Callers, EnterOuter(p) PROVE LaneInv' /\ LaneMove
    <2> DEFINE local == [call[p] EXCEPT !.pc = "outer"]
    <2>1. local.pc = "outer" /\ local.path = "quota" /\ call[p].pc = "start"
      BY <1>1, <1>4 DEF EnterOuter, Call
    <2>2. Set(p, local) /\ Join(<<p, "outer">>)
      BY <1>4 DEF EnterOuter
    <2> HIDE DEF local
    <2> QED BY <1>2, <2>1, <2>2, LaneJoined DEF TurnOK
  <1>5. ASSUME NEW p \in Callers, Share(p) PROVE LaneInv' /\ LaneMove
    BY <1>1, <1>5, LaneKept DEF Share, Calls, Call, TurnOK
  <1>6. ASSUME NEW p \in Callers, RotationHit(p) PROVE LaneInv' /\ LaneMove
    BY <1>1, <1>6, LaneKept DEF RotationHit, Calls, Call, TurnOK
  <1>7. ASSUME NEW p \in Callers, Own(p) PROVE LaneInv' /\ LaneMove
    BY <1>1, <1>7, LaneKept DEF Own, Calls, Call, TurnOK
  <1>8. ASSUME NEW p \in Callers, UseStored(p) PROVE LaneInv' /\ LaneMove
    BY <1>1, <1>8, LaneKept DEF UseStored, Call, TurnOK
  <1>9. ASSUME NEW p \in Callers, NEW fails, EnterLane(p, fails) PROVE LaneInv' /\ LaneMove
    <2> DEFINE local == [call[p] EXCEPT !.pc = "inner",
                                        !.held = IF fails THEN @ ELSE row[Conn(p)].token]
    <2>1. local.pc = "inner" /\ local.path = call[p].path /\ call[p].pc = "check"
      BY <1>1, <1>9 DEF EnterLane, Call
    <2>2. Set(p, local) /\ Join(<<p, "inner">>)
      BY <1>9 DEF EnterLane
    <2> HIDE DEF local
    <2>3. after'[<<p, "outer">>] = after[<<p, "outer">>]
      BY <2>2 DEF Join, Types, Tickets
    <2>4. TurnOK(p, local, after')
      BY <1>1, <2>1, <2>3 DEF TurnOK
    <2> QED BY <1>2, <2>1, <2>2, <2>4, LaneJoined
  <1>10. ASSUME NEW p \in Callers, NEW result, Minted(p, result),
                call[p].pc \in {"inner", "gap"}, after[<<p, "inner">>] = None
         PROVE  LaneInv' /\ LaneMove
    <2> DEFINE local == [call[p] EXCEPT !.pc = "cas", !.result = result, !.lease = "long"]
    <2>1. local.pc = "cas" /\ local.path = call[p].path
      BY <1>1 DEF Call
    <2>2. Set(p, local) /\ LeaveLane(<<p, "inner">>)
      BY <1>10 DEF Minted
    <2> HIDE DEF local
    <2>3. TurnOK(p, local, after)
      BY <1>1, <1>10, <2>1 DEF TurnOK
    <2> QED BY <1>2, <1>10, <2>1, <2>2, <2>3, LaneLeft
  <1>11. ASSUME NEW p \in Callers, NEW a, Reply(p, a) PROVE LaneInv' /\ LaneMove
    <2>1. call[p].pc = "inner" /\ after[<<p, "inner">>] = None
      BY <1>11 DEF Reply, Posting
    <2>2. CASE HasSuccessor(<<p, "inner">>)
      BY <1>1, <1>11, <2>1, <2>2, LaneKept DEF Reply, Call, TurnOK
    <2>3. CASE ~HasSuccessor(<<p, "inner">>)
      BY <1>10, <1>11, <2>1, <2>3 DEF Reply
    <2> QED BY <2>2, <2>3
  <1>12. ASSUME NEW p \in Callers, GapOver(p) PROVE LaneInv' /\ LaneMove
    BY <1>1, <1>10, <1>12 DEF GapOver, TurnOK
  <1>13. ASSUME NEW p \in Callers, NEW fails, PersistSkipped(p) \/ Persist(p, fails) PROVE LaneInv' /\ LaneMove
    BY <1>13, LaneSettled DEF PersistSkipped, Persist
  <1>14. ASSUME NEW p \in Callers, NEW fails, PersistBegun(p, fails) PROVE LaneInv' /\ LaneMove
    BY <1>1, <1>14, LaneKept DEF PersistBegun, Call, TurnOK
  <1>15. ASSUME NEW p \in Callers, UNCHANGED <<after, tail>>, Set(p, Idle),
                ~InnerIn(call[p]), ~OuterIn(call[p])
         PROVE  LaneInv' /\ LaneMove
    <2>1. Idle.pc = "idle" /\ Idle.path = "check"
      BY DEF Idle
    <2> QED BY <1>15, <2>1, LaneKept DEF TurnOK
  <1>16. ASSUME NEW p \in Callers, NEW fails,
                \/ Done(p) \/ FallbackWrite(p, fails) \/ QuotaWrite(p, fails)
                \/ Confirm(p, fails) \/ Condemn(p, fails)
         PROVE  LaneInv' /\ LaneMove
    <2>1. CASE Set(p, Idle)
      BY <1>15, <1>16, <2>1 DEF Done, FallbackWrite, WritesItself, QuotaWrite, Confirm, Condemn
    <2>2. CASE Confirm(p, fails) /\ Set(p, [call[p] EXCEPT !.pc = "condemn"])
      BY <1>1, <2>2, LaneKept DEF Confirm, Call, TurnOK
    <2> QED BY <1>16, <2>1, <2>2 DEF Done, FallbackWrite, QuotaWrite, Confirm, Condemn
  <1>17. ASSUME NEW p \in Callers, Retry(p) PROVE LaneInv' /\ LaneMove
    BY <1>1, <1>17, LaneKept DEF Retry, Call, TurnOK
  <1>18. ASSUME NEW p \in Callers, LeaveLane(<<p, "outer">>),
                Set(p, [call[p] EXCEPT !.pc = "final"]),
                call[p].path = "quota", call[p].pc \in {"after", "outerGap"}
         PROVE  LaneInv' /\ LaneMove
    <2> DEFINE local == [call[p] EXCEPT !.pc = "final"]
    <2>1. local.pc = "final" /\ local.path = "quota" /\ Set(p, local)
      BY <1>1, <1>18 DEF Call
    <2> HIDE DEF local
    <2>2. after[<<p, "outer">>] = None
      BY <1>1, <1>18 DEF TurnOK
    <2>3. TurnOK(p, local, after)
      BY <2>1, <2>2 DEF TurnOK
    <2> QED BY <1>2, <1>18, <2>1, <2>2, <2>3, LaneLeft
  <1>19. ASSUME NEW p \in Callers, OuterDone(p) PROVE LaneInv' /\ LaneMove
    <2>1. CASE HasSuccessor(<<p, "outer">>)
      BY <1>1, <1>19, <2>1, LaneKept DEF OuterDone, Call, TurnOK
    <2>2. CASE ~HasSuccessor(<<p, "outer">>)
      BY <1>18, <1>19, <2>2 DEF OuterDone
    <2> QED BY <2>1, <2>2
  <1>20. ASSUME NEW p \in Callers, OuterGapOver(p) PROVE LaneInv' /\ LaneMove
    BY <1>1, <1>18, <1>20 DEF OuterGapOver, TurnOK
  <1>21. ASSUME NEW c, NEW e, ExpireAccess(c, e) \/ ExpireRotation(e) PROVE LaneInv' /\ LaneMove
    BY <1>21 DEF ExpireAccess, ExpireRotation, LaneInv, LaneMove, Turns, LaneTickets, InLane
  <1> QED BY <1>3, <1>4, <1>5, <1>6, <1>7, <1>8, <1>9, <1>11, <1>12, <1>13, <1>14,
             <1>16, <1>17, <1>19, <1>20, <1>21, ConnectionsAssumption DEF Next, Step

-----------------------------------------------------------------------------
(* What the steps below compare are numbers. *)
LEMMA Numbers ==
    ASSUME Types
    PROVE  /\ \A c \in Connections : /\ live[c] \in Int /\ live[c] >= Dead
                                     /\ live[c] # Dead => live[c] \in Nat
                                     /\ row[c].token \in Nat
           /\ \A e \in rotated : e[1] \in Connections /\ e[3] \in Nat
           /\ \A p \in Callers :
                /\ call[p].conn \in Connections
                /\ call[p].held \in Nat /\ call[p].about \in Nat
                /\ call[p].result \in Int /\ (call[p].result \in Nat \/ call[p].result \in {Fail, Dead})
  <1>1. Tokens \subseteq Nat /\ Fail \in Int /\ Dead \in Int /\ \A n \in Nat : n >= Dead /\ n # Dead
    BY IdleIsACall DEF Fail, Dead
  <1>2. \A c \in Connections : live[c] \in Tokens \cup {Dead} /\ row[c].token \in Tokens
    BY DEF Types, Row
  <1>3. \A e \in rotated : e[1] \in Connections /\ e[3] \in Tokens
    BY DEF Types
  <1>4. \A p \in Callers : /\ call[p].conn \in Connections /\ call[p].held \in Tokens
                           /\ call[p].about \in Tokens /\ call[p].result \in Results
    BY DEF Types, Call
  <1>5. Dead >= Dead
    BY DEF Dead
  <1>6. \A c \in Connections : /\ live[c] \in Int /\ live[c] >= Dead
                               /\ live[c] # Dead => live[c] \in Nat
                               /\ row[c].token \in Nat
    <2> TAKE c \in Connections
    <2>1. row[c].token \in Nat
      BY <1>1, <1>2
    <2>2. CASE live[c] = Dead
      BY <1>1, <1>5, <2>1, <2>2
    <2>3. CASE live[c] # Dead
      <3>1. live[c] \in Nat
        BY <1>1, <1>2, <2>3
      <3> QED BY <1>1, <2>1, <3>1
    <2> QED BY <2>2, <2>3
  <1>7. \A p \in Callers :
          /\ call[p].held \in Nat /\ call[p].about \in Nat
          /\ call[p].result \in Int /\ (call[p].result \in Nat \/ call[p].result \in {Fail, Dead})
    <2> TAKE p \in Callers
    <2>1. call[p].held \in Nat /\ call[p].about \in Nat
      BY <1>1, <1>4
    <2>2. call[p].result \in Tokens \/ call[p].result \in {Fail, Dead}
      BY <1>4 DEF Results
    <2>3. call[p].result \in Nat \/ call[p].result \in {Fail, Dead}
      BY <1>1, <2>2
    <2>4. call[p].result \in Int
      BY <2>3 DEF Fail, Dead
    <2> QED BY <2>1, <2>3, <2>4
  <1> QED BY <1>1, <1>3, <1>4, <1>6, <1>7

(* One caller alone moves, and upstream does not. *)
LEMMA TokensSet ==
    ASSUME Types, TokensInv, NEW p \in Callers, NEW local, Set(p, local), live' = live,
           Known(local, live), Verdict(local, live), Stored(row', rotated', live)
    PROVE  TokensInv'
  BY SetOne DEF TokensInv

(* A caller keeps the token it holds and its result, and they were not judged. *)
LEMMA TokensMoved ==
    ASSUME Types, TokensInv, NEW p \in Callers, NEW pc, Set(p, [call[p] EXCEPT !.pc = pc]),
           UNCHANGED <<row, live, rotated>>,
           pc \notin {"gap", "cas", "after"}, pc = "write" => call[p].result # Dead
    PROVE  TokensInv'
  <1> DEFINE local == [call[p] EXCEPT !.pc = pc]
  <1>1. call[p] \in Call
    BY DEF Types
  <1>2. /\ local.pc = pc /\ local.conn = call[p].conn /\ local.held = call[p].held
        /\ local.result = call[p].result
    BY <1>1 DEF Call
  <1> HIDE DEF local
  <1>3. Known(local, live) /\ Verdict(local, live)
    BY <1>2 DEF TokensInv, Known, Verdict
  <1> QED BY <1>3, TokensSet DEF local, TokensInv

(* A caller that is done knows nothing. *)
LEMMA TokensForgotten ==
    ASSUME Types, TokensInv, NEW p \in Callers, Set(p, Idle), UNCHANGED <<live, rotated>>,
           Stored(row', rotated, live)
    PROVE  TokensInv'
  <1>1. Idle.conn \in Connections
    BY IdleIsACall DEF Call
  <1>2. Idle.held = 0 /\ Idle.result = Fail
    BY DEF Idle
  <1>3. Known(Idle, live) /\ Verdict(Idle, live)
    BY <1>1, <1>2, Numbers DEF Known, Verdict, Fail, Dead
  <1> QED BY <1>3, TokensSet

(* The token that is written is one upstream has issued. *)
LEMMA TokensStored ==
    ASSUME Types, TokensInv, NEW p \in Callers, NEW fails, StoreToken(p, fails)
    PROVE  Stored(row', rotated, live)
  <1>1. Known(call[p], live) /\ Stored(row, rotated, live)
    BY DEF TokensInv
  <1>2. \A c \in Connections : \/ row'[c].token = row[c].token
                               \/ c = call[p].conn /\ row'[c].token = call[p].result
    <2>1. \A c \in Connections : row[c] \in Row
      BY DEF Types
    <2>2. CASE row' = row
      BY <2>2
    <2>3. CASE row' = [row EXCEPT ![Conn(p)] = [@ EXCEPT !.token = call[p].result, !.expiry = call[p].lease]]
      <3> TAKE c \in Connections
      <3>1. CASE c = Conn(p)
        BY <2>1, <2>3, <3>1 DEF Types, Conn, Row
      <3>2. CASE c # Conn(p)
        BY <2>3, <3>2 DEF Types
      <3> QED BY <3>1, <3>2
    <2> QED BY <2>2, <2>3 DEF StoreToken
  <1> QED BY <1>1, <1>2 DEF Stored, Known

(* A refresh settles: its verdict is about the token its owner held. *)
LEMMA TokensSettled ==
    ASSUME Types, TokensInv, NEW p \in Callers, NEW persisted, Settle(p, persisted),
           call[p].pc \in {"cas", "write"}, UNCHANGED <<live, rotated>>,
           Stored(row', rotated, live)
    PROVE  TokensInv'
  <1>1. \A q \in Callers : call[q] \in Call
    BY DEF Types
  <1>2. Known(call[p], live) /\ Verdict(call[p], live)
    BY DEF TokensInv
  <1>3. ASSUME NEW q \in Callers PROVE Known(call'[q], live) /\ Verdict(call'[q], live)
    <2> DEFINE subject == IF call[p].result = Dead THEN call[p].held ELSE 0
    <2>1. Known(call[q], live) /\ Verdict(call[q], live)
      BY DEF TokensInv
    <2>5. /\ live[call[p].conn] # Dead => Fail <= live[call[p].conn]
          /\ Seen(q, call[p].result) \in {call[p].result, Fail} /\ Fail # Dead
      BY Numbers DEF Seen, Fail, Dead
    <2>2. CASE q = p
      <3>1. /\ call'[q].pc = "after" /\ call'[q].conn = call[p].conn
            /\ call'[q].held = call[p].held /\ call'[q].result = Seen(q, call[p].result)
            /\ call'[q].about = subject
        BY <1>1, <2>2 DEF Settle, Call
      <3> HIDE DEF subject
      <3>2. call'[q].result \in {call[p].result, Fail}
        BY <2>5, <3>1
      <3> QED BY <1>2, <2>5, <3>1, <3>2 DEF Known, Verdict, subject
    <2>3. CASE q # p /\ call[q].pc = "share" /\ call[q].conn = call[p].conn
      <3>1. /\ call'[q].pc = "after" /\ call'[q].conn = call[p].conn
            /\ call'[q].held = call[q].held /\ call'[q].result = Seen(q, call[p].result)
            /\ call'[q].about = subject
        BY <1>1, <2>3 DEF Settle, Call, At, Conn
      <3> HIDE DEF subject
      <3>2. call'[q].result \in {call[p].result, Fail}
        BY <2>5, <3>1
      <3> QED BY <1>2, <2>1, <2>3, <2>5, <3>1, <3>2 DEF Known, Verdict, subject
    <2>4. CASE q # p /\ ~(call[q].pc = "share" /\ call[q].conn = call[p].conn)
      <3>1. call'[q] = call[q]
        BY <2>4 DEF Settle, At, Conn
      <3> QED BY <2>1, <3>1
    <2> QED BY <2>2, <2>3, <2>4
  <1> QED BY <1>3 DEF TokensInv

(* Upstream only moves on. *)
LEMMA LiveGrows ==
    ASSUME Types, TokensInv, NEW p \in Callers, NEW a, Reply(p, a), NEW c \in Connections
    PROVE  /\ live'[c] \in Int
           /\ live[c] = Dead => live'[c] = Dead
           /\ live'[c] # Dead => live[c] <= live'[c]
  <1>1. /\ Conn(p) \in Connections /\ call[p].held \in Nat
        /\ live[c] \in Int /\ live[Conn(p)] \in Int
    BY Numbers DEF Conn
  <1>2. live' = [live EXCEPT ![Conn(p)] = a.live] /\ a \in Answers(p)
    BY DEF Reply
  <1>3. CASE c # Conn(p)
    BY <1>1, <1>2, <1>3 DEF Types
  <1>4. CASE c = Conn(p)
    <2>1. live'[c] = a.live
      BY <1>1, <1>2, <1>4 DEF Types
    <2>2. \/ call[p].held = live[c] /\ (a.live = live[c] \/ a.live = live[c] + 1)
          \/ call[p].held # live[c] /\ (a.live = live[c] \/ a.live = Dead)
      BY <1>2, <1>4 DEF Answers
    <2> QED BY <1>1, <2>1, <2>2 DEF Dead
  <1> QED BY <1>3, <1>4

(* What is known and what is spent stays so as upstream moves on. *)
LEMMA StaysSpent ==
    ASSUME Types, TokensInv, NEW p \in Callers, NEW a, Reply(p, a)
    PROVE  /\ Stored(row, rotated, live')
           /\ \A q \in Callers : Known(call[q], live') /\ Verdict(call[q], live')
  <1>1. Stored(row, rotated, live)
    BY DEF TokensInv
  <1>2. Stored(row, rotated, live')
    BY <1>1, LiveGrows, Numbers DEF Stored
  <1>3. ASSUME NEW q \in Callers PROVE Known(call[q], live') /\ Verdict(call[q], live')
    <2>1. Known(call[q], live) /\ Verdict(call[q], live)
      BY DEF TokensInv
    <2>2. Known(call[q], live')
      BY <2>1, LiveGrows, Numbers DEF Known
    <2>3. Verdict(call[q], live')
      BY <2>1, LiveGrows, Numbers DEF Verdict, Spent
    <2> QED BY <2>2, <2>3
  <1> QED BY <1>2, <1>3

(* recordRotation() adds at most the new token of the caller's connection. *)
LEMMA MintedEntries ==
    ASSUME NEW p \in Callers, NEW result, Minted(p, result)
    PROVE  \A e \in rotated' : e \in rotated \/ (e[1] = Conn(p) /\ e[3] = result)
  <1> DEFINE entry == <<Conn(p), call[p].held, result>>
  <1>1. entry[1] = Conn(p) /\ entry[3] = result
    OBVIOUS
  <1>2. rotated' = rotated \cup {entry} \/ rotated' = rotated
    BY DEF Minted
  <1> HIDE DEF entry
  <1> TAKE e \in rotated'
  <1>3. e \in rotated \/ e = entry
    BY <1>2
  <1>4. CASE e = entry
    BY <1>1, <1>4
  <1> QED BY <1>3, <1>4

(* Every step keeps the tokens in order: nobody gets ahead of upstream, and what
   upstream refused stays refused. *)
LEMMA TokensStep ==
    ASSUME Types, Writers, TokensInv, Next
    PROVE  TokensInv'
  <1>1. \A p \in Callers : /\ call[p] \in Call
                           /\ Known(call[p], live) /\ Verdict(call[p], live)
    BY DEF Types, TokensInv
  <1>2. Stored(row, rotated, live)
    BY DEF TokensInv
  <1>3. ASSUME NEW p \in Callers, NEW path, NEW c \in Connections, Begin(p, path, c)
        PROVE  TokensInv'
    <2> DEFINE local == [Idle EXCEPT !.pc = "start", !.path = path, !.conn = c,
                                     !.attempted = row[c].token, !.held = row[c].token]
    <2>1. /\ local.pc = "start" /\ local.conn = c /\ local.held = row[c].token
          /\ local.result = Fail
      BY DEF Idle
    <2> HIDE DEF local
    <2>2. Known(local, live) /\ Verdict(local, live)
      BY <1>2, <2>1, Numbers DEF Known, Verdict, Stored, Fail, Dead
    <2> QED BY <1>2, <1>3, <2>2, TokensSet DEF Begin, local
  <1>4. ASSUME NEW p \in Callers, EnterOuter(p) \/ Share(p) \/ Own(p) PROVE TokensInv'
    BY <1>4, TokensMoved DEF EnterOuter, Share, Own
  <1>5. ASSUME NEW p \in Callers, NEW token \in Nat, NEW lease,
               Set(p, [call[p] EXCEPT !.pc = "cas", !.result = token, !.lease = lease]),
               UNCHANGED <<row, live, rotated>>,
               live[Conn(p)] # Dead => token <= live[Conn(p)]
        PROVE  TokensInv'
    <2> DEFINE local == [call[p] EXCEPT !.pc = "cas", !.result = token, !.lease = lease]
    <2>1. /\ local.conn = call[p].conn /\ local.held = call[p].held /\ local.result = token
      BY <1>1 DEF Call
    <2> HIDE DEF local
    <2>2. Known(local, live) /\ Verdict(local, live)
      BY <1>1, <1>5, <2>1 DEF Known, Verdict, Dead, Conn
    <2> QED BY <1>2, <1>5, <2>2, TokensSet DEF local
  <1>6. ASSUME NEW p \in Callers, RotationHit(p) PROVE TokensInv'
    <2>1. PICK e \in Rotations(p) :
             Set(p, [call[p] EXCEPT !.pc = "cas", !.result = e[3], !.lease = "long"])
      BY <1>6 DEF RotationHit
    <2>2. e \in rotated /\ e[1] = Conn(p) /\ Conn(p) \in Connections /\ e[3] \in Nat
      BY Numbers DEF Rotations, Conn
    <2> QED BY <1>2, <1>5, <1>6, <2>1, <2>2 DEF RotationHit, Stored
  <1>7. ASSUME NEW p \in Callers, UseStored(p) PROVE TokensInv'
    <2>1. Conn(p) \in Connections /\ row[Conn(p)].token \in Nat
      BY Numbers DEF Conn
    <2> QED BY <1>2, <1>5, <1>7, <2>1 DEF UseStored, Stored
  <1>8. ASSUME NEW p \in Callers, NEW fails, EnterLane(p, fails) PROVE TokensInv'
    <2> DEFINE local == [call[p] EXCEPT !.pc = "inner",
                                        !.held = IF fails THEN @ ELSE row[Conn(p)].token]
    <2>1. /\ local.pc = "inner" /\ local.conn = call[p].conn /\ local.result = call[p].result
          /\ local.held = call[p].held \/ local.held = row[call[p].conn].token
      BY <1>1 DEF Call, Conn
    <2> HIDE DEF local
    <2>2. Known(local, live) /\ Verdict(local, live)
      BY <1>1, <1>2, <2>1, Numbers DEF Known, Verdict, Stored
    <2> QED BY <1>2, <1>8, <2>2, TokensSet DEF EnterLane, local
  <1>9. ASSUME NEW p \in Callers, NEW result \in Int, Minted(p, result),
               live[Conn(p)] # Dead => result <= live[Conn(p)]
        PROVE  Stored(row, rotated', live)
    BY <1>2, <1>9, MintedEntries DEF Stored
  <1>10. ASSUME NEW p \in Callers, NEW a \in Answers(p), Reply(p, a) PROVE TokensInv'
    <2> DEFINE c == Conn(p)
    <2>1. /\ c = call[p].conn /\ c \in Connections /\ call[p].held \in Nat
          /\ live[c] \in Int /\ (live[c] # Dead => live[c] \in Nat)
      BY Numbers DEF Conn
    <2>2. live' = [live EXCEPT ![c] = a.live]
      BY <1>10 DEF Reply
    <2>3. live'[c] = a.live /\ live'[c] \in Int
      BY <1>10, <2>1, <2>2, LiveGrows DEF Types
    <2>4. /\ a.result \in Int
          /\ live'[c] # Dead => a.result <= live'[c]
          /\ a.result = Dead => live'[c] = Dead \/ call[p].held < live'[c]
      <3>1. call[p].held <= live[c] \/ live[c] = Dead
        BY <1>1, <2>1 DEF Known
      <3>2. \/ /\ call[p].held = live[c]
               /\ \/ a.result = Fail /\ (a.live = live[c] \/ a.live = live[c] + 1)
                  \/ a.result = live[c] + 1 /\ a.live = live[c] + 1
            \/ /\ call[p].held # live[c] /\ a.result = Dead
               /\ a.live = Dead \/ a.live = live[c]
        BY DEF Answers
      <3> HIDE DEF c
      <3> QED BY <2>1, <2>3, <3>1, <3>2 DEF Fail, Dead
    <2>5. /\ Stored(row, rotated, live')
          /\ \A q \in Callers : Known(call[q], live') /\ Verdict(call[q], live')
      BY <1>10, StaysSpent
    <2>6. ASSUME NEW local, Set(p, local), local.pc \in {"gap", "cas"}, local.conn = c,
                 local.held = call[p].held, local.result = a.result, Stored(row, rotated', live')
          PROVE  TokensInv'
      <3>2. call'[p] = local /\ \A q \in Callers : q # p => call'[q] = call[q]
        BY <2>6, SetOne
      <3> HIDE DEF c
      <3>3. Known(local, live')
        BY <2>1, <2>4, <2>5, <2>6 DEF Known
      <3>4. Verdict(local, live')
        BY <2>4, <2>6 DEF Verdict, Spent
      <3>5. row' = row
        BY <1>10 DEF Reply
      <3> QED BY <2>5, <2>6, <3>2, <3>3, <3>4, <3>5 DEF TokensInv
    <2>7. CASE HasSuccessor(<<p, "inner">>)
      <3> DEFINE local == [call[p] EXCEPT !.pc = "gap", !.result = a.result]
      <3>1. /\ local.pc = "gap" /\ local.conn = c /\ local.held = call[p].held
            /\ local.result = a.result
        BY <1>1, <2>1 DEF Call
      <3>2. Set(p, local) /\ rotated' = rotated
        BY <1>10, <2>7 DEF Reply
      <3> HIDE DEF local, c
      <3> QED BY <2>5, <2>6, <3>1, <3>2
    <2>8. CASE ~HasSuccessor(<<p, "inner">>)
      <3>1. Minted(p, a.result)
        BY <1>10, <2>8 DEF Reply
      <3>2. Stored(row, rotated', live')
        <4>1. \A e \in rotated' : e \in rotated \/ (e[1] = c /\ e[3] = a.result)
          BY <3>1, MintedEntries
        <4> HIDE DEF c
        <4> QED BY <2>4, <2>5, <4>1 DEF Stored
      <3> DEFINE local == [call[p] EXCEPT !.pc = "cas", !.result = a.result, !.lease = "long"]
      <3>3. /\ local.pc = "cas" /\ local.conn = c /\ local.held = call[p].held
            /\ local.result = a.result
        BY <1>1, <2>1 DEF Call
      <3>4. Set(p, local)
        BY <3>1 DEF Minted
      <3> HIDE DEF local, c
      <3> QED BY <2>6, <3>2, <3>3, <3>4
    <2> QED BY <2>7, <2>8
  <1>11. ASSUME NEW p \in Callers, GapOver(p) PROVE TokensInv'
    <2> DEFINE local == [call[p] EXCEPT !.pc = "cas", !.result = call[p].result, !.lease = "long"]
    <2>1. /\ local.pc = "cas" /\ local.conn = call[p].conn /\ local.held = call[p].held
          /\ local.result = call[p].result
      BY <1>1 DEF Call
    <2>2. Minted(p, call[p].result) /\ call[p].pc = "gap" /\ row' = row /\ live' = live
      BY <1>11 DEF GapOver, At
    <2>3. Set(p, local)
      BY <2>2 DEF Minted
    <2> HIDE DEF local
    <2>4. Known(local, live) /\ Verdict(local, live)
      BY <1>1, <2>1, <2>2 DEF Known, Verdict
    <2>5. Stored(row, rotated', live)
      BY <1>1, <1>9, <2>2, Numbers DEF Known, Conn
    <2> QED BY <2>2, <2>3, <2>4, <2>5, TokensSet
  <1>12. ASSUME NEW p \in Callers, PersistSkipped(p) PROVE TokensInv'
    BY <1>2, <1>12, TokensSettled DEF PersistSkipped, At
  <1>13. ASSUME NEW p \in Callers, NEW fails, Persist(p, fails) PROVE TokensInv'
    BY <1>13, TokensSettled, TokensStored DEF Persist, At
  <1>14. ASSUME NEW p \in Callers, NEW fails, PersistBegun(p, fails) PROVE TokensInv'
    <2>1. call[p].result # Dead
      BY <1>14, Numbers DEF PersistBegun, Dead
    <2> QED BY <1>14, <2>1, TokensMoved DEF PersistBegun
  <1>15. ASSUME NEW p \in Callers, Done(p) PROVE TokensInv'
    BY <1>2, <1>15, TokensForgotten DEF Done
  <1>16. ASSUME NEW p \in Callers, NEW fails, FallbackWrite(p, fails) PROVE TokensInv'
    BY <1>16, TokensForgotten, TokensStored DEF FallbackWrite
  <1>17. ASSUME NEW p \in Callers, Retry(p) PROVE TokensInv'
    <2> DEFINE local == [call[p] EXCEPT !.pc = "start", !.attempt = @ + 1]
    <2>1. /\ local.pc = "start" /\ local.conn = call[p].conn /\ local.held = call[p].held
          /\ local.result = call[p].result
      BY <1>1 DEF Call
    <2> HIDE DEF local
    <2>2. Known(local, live) /\ Verdict(local, live)
      BY <1>1, <2>1 DEF Known, Verdict
    <2> QED BY <1>2, <1>17, <2>2, TokensSet DEF Retry, local
  <1>18. ASSUME NEW p \in Callers, NEW fails, Confirm(p, fails) \/ Condemn(p, fails)
         PROVE  TokensInv'
    <2>1. CASE Confirm(p, fails)
      BY <1>2, <2>1, TokensForgotten, TokensMoved DEF Confirm
    <2>2. CASE Condemn(p, fails)
      <3>1. \A c \in Connections : row'[c].token = row[c].token
        BY <2>2 DEF Condemn, Types, Row
      <3>2. Stored(row', rotated, live)
        BY <1>2, <3>1 DEF Stored
      <3> QED BY <2>2, <3>2, TokensForgotten DEF Condemn
    <2> QED BY <1>18, <2>1, <2>2
  <1>19. ASSUME NEW p \in Callers, OuterDone(p) \/ OuterGapOver(p) PROVE TokensInv'
    BY <1>19, TokensMoved DEF OuterDone, OuterGapOver
  <1>20. ASSUME NEW p \in Callers, NEW fails, QuotaWrite(p, fails) PROVE TokensInv'
    BY <1>2, <1>20, TokensForgotten, TokensStored DEF QuotaWrite
  <1>21. ASSUME NEW c \in Connections, NEW e \in Expiries, ExpireAccess(c, e) PROVE TokensInv'
    <2>1. \A d \in Connections : row'[d].token = row[d].token
      BY <1>21 DEF ExpireAccess, Types, Row
    <2> QED BY <1>21, <2>1 DEF ExpireAccess, TokensInv, Stored
  <1>22. ASSUME NEW e \in rotated, ExpireRotation(e) PROVE TokensInv'
    BY <1>22 DEF ExpireRotation, TokensInv, Stored
  <1> QED BY <1>3, <1>4, <1>6, <1>7, <1>8, <1>10, <1>11, <1>12, <1>13, <1>14, <1>15, <1>16,
             <1>17, <1>18, <1>19, <1>20, <1>21, <1>22, ConnectionsAssumption DEF Next, Step

-----------------------------------------------------------------------------
(* The invariant holds in the initial state. *)
LEMMA InvInit ==
    ASSUME Init
    PROVE  Inv
  <1>1. Types
    <2>1. "long" \in Expiries
      BY ExpiriesAssumption
    <2> QED BY <2>1, IdleIsACall DEF Init, Types, Row, Tickets
  <1>2. \A p \in Callers : call[p] = Idle /\ call[p].conn = Conn(p)
    BY DEF Init, Conn
  <1>3. Idle.pc = "idle" /\ Idle.path = "check" /\ Idle.held = 0 /\ Idle.result = Fail
    BY DEF Idle
  <1>4. Writers
    BY <1>2, <1>3 DEF Writers, At
  <1>5. OneRefreshPerConnection
    <2>1. Owners
      BY <1>2, <1>3 DEF Init, Owners, OwnerPcs
    <2> QED BY <1>1, <2>1, OwnersAgree
  <1>6. LaneInv
    <2>1. LaneTickets = {}
      BY <1>2, <1>3 DEF LaneTickets, InLane, InnerIn, OuterIn, Tickets
    <2>2. \A t \in Tickets : after[t] = None
      BY DEF Init
    <2>3. Ordered(0, <<>>, {}, after, tail)
      BY DEF Init, Ordered
    <2>4. <<>> \in [1 .. 0 -> {}]
      OBVIOUS
    <2>5. Lane(LaneTickets, after, tail)
      BY <2>1, <2>2, <2>3, <2>4 DEF Lane
    <2>6. Turns
      BY <1>2, <1>3, <2>2 DEF Turns, TurnOK, Tickets
    <2> QED BY <2>5, <2>6 DEF LaneInv
  <1>7. TokensInv
    <2>1. Stored(row, rotated, live)
      BY DEF Init, Stored
    <2>2. \A c \in Connections : live[c] = 0
      BY DEF Init
    <2>3. \A p \in Callers : call[p].conn \in Connections
      BY <1>1 DEF Types, Call
    <2>4. \A p \in Callers : Known(call[p], live) /\ Verdict(call[p], live)
      BY <1>2, <1>3, <2>2, <2>3 DEF Known, Verdict, Fail, Dead
    <2> QED BY <2>1, <2>4 DEF TokensInv
  <1> QED BY <1>1, <1>4, <1>5, <1>6, <1>7 DEF Inv

(* The invariant is kept by every step. *)
LEMMA InvStep ==
    ASSUME Inv, [Next]_vars
    PROVE  Inv'
  <1>1. CASE Next
    <2>1. Types' /\ Writers' /\ LaneInv' /\ TokensInv'
      BY <1>1, TypesStep, WritersStep, LaneStep, TokensStep DEF Inv
    <2>2. Owners'
      BY <1>1, OwnersAgree, OwnersStep DEF Inv
    <2>3. OneRefreshPerConnection'
      <3>1. ASSUME Types' PROVE OneRefreshPerConnection' <=> Owners'
        BY <3>1, OwnersAgree, PTL
      <3> QED BY <2>1, <2>2, <3>1
    <2> QED BY <2>1, <2>3 DEF Inv
  <1>2. CASE UNCHANGED vars
    BY <1>2 DEF vars, Inv, Types, Writers, OneRefreshPerConnection, LaneInv, Turns, LaneTickets,
                InLane, TokensInv, At, Conn
  <1> QED BY <1>1, <1>2

(* The invariant holds always. *)
THEOREM Invariance == Spec => []Inv
  <1>1. Init => Inv
    BY InvInit
  <1>2. Inv /\ [Next]_vars => Inv'
    BY InvStep
  <1> QED BY <1>1, <1>2, PTL DEF Spec

(* The local states, rows and tickets keep their types, and the tail of the lane
   is a ticket of a caller in progress: serializeRefresh() collects the lane when
   the last ticket leaves it, so that nobody awaits a lane that is over. *)
THEOREM TypeCorrect == Spec => []TypeOK
  <1>1. Inv => TypeOK
    <2> SUFFICES ASSUME Inv PROVE TypeOK
      OBVIOUS
    <2>1. Types
      BY DEF Inv
    <2>2. tail # None => call[tail[1]].pc # "idle"
      <3>1. tail # None => tail \in LaneTickets
        BY TailInLane DEF Inv, LaneInv
      <3> QED BY <3>1 DEF LaneTickets, InLane, InnerIn, OuterIn
    <2> QED BY <2>1, <2>2 DEF Types, TypeOK
  <1> QED BY <1>1, Invariance, PTL

(* No two callers of the group present a token at the same time, however many
   join the lane, during settle gaps, from an outer and an inner call, or after it
   was collected: both would be the head of the queue the lane is. *)
THEOREM LaneExclusiveHolds == Spec => []LaneExclusive
  <1>1. Inv => LaneExclusive
    <2> SUFFICES ASSUME Inv PROVE LaneExclusive
      OBVIOUS
    <2> DEFINE P == {p \in Callers : Posting(p)}
    <2>1. \A p, q \in P : p = q
      <3> TAKE p, q \in P
      <3>1. /\ <<p, "inner">> \in LaneTickets /\ after[<<p, "inner">>] = None
            /\ <<q, "inner">> \in LaneTickets /\ after[<<q, "inner">>] = None
        BY DEF Posting, At, LaneTickets, InLane, InnerIn, Tickets
      <3>2. LaneTickets \in SUBSET Tickets /\ Lane(LaneTickets, after, tail)
        BY DEF Inv, LaneInv, LaneTickets
      <3>3. <<p, "inner">> = <<q, "inner">>
        BY <3>1, <3>2, OneHead
      <3> QED BY <3>3
    <2> HIDE DEF P
    <2>2. P = {} \/ \E p \in P : P = {p}
      BY <2>1
    <2>3. Cardinality(P) <= 1
      <3>1. CASE P = {}
        BY <3>1, FS_EmptySet
      <3>2. CASE \E p \in P : P = {p}
        BY <3>2, FS_Singleton
      <3> QED BY <2>2, <3>1, <3>2
    <2> QED BY <2>3 DEF LaneExclusive, P
  <1> QED BY <1>1, Invariance, PTL

(* From the staleness check to the write of the new token a connection is
   refreshed by one caller, the one its mutex names. *)
THEOREM OneRefreshPerConnectionHolds == Spec => []OneRefreshPerConnection
  <1>1. Inv => OneRefreshPerConnection
    BY DEF Inv
  <1> QED BY <1>1, Invariance, PTL

(* Where the reread before a deactivation does not fail, the reactive path decides to
   deactivate a connection only when upstream has moved on from the stored token, or
   when the verdict it acts on was about another token than its own: what upstream
   calls dead stays dead, and the reread compares the stored token with the one the
   path started with. *)
THEOREM DeactivationJustifiedHolds ==
    ASSUME "confirm" \notin DbFailures
    PROVE  Spec => DeactivationJustified
  <1> DEFINE A == \A p \in Callers :
                    Condemns(p) => live[Conn(p)] # row[Conn(p)].token \/ MisledBy(p)
  <1>1. Inv /\ [Next]_vars => [A]_vars
    <2> SUFFICES ASSUME Inv, Next, NEW p \in Callers, Condemns(p)
                 PROVE  live[Conn(p)] # row[Conn(p)].token \/ MisledBy(p)
      OBVIOUS
    <2>1. call[p].pc # "condemn" /\ call'[p].pc = "condemn"
      BY DEF Condemns, At
    <2>2. \A q \in Callers : call[q] \in Call
      BY DEF Inv, Types
    <2>3. ASSUME NEW q \in Callers, NEW local, Set(q, local), local.pc # "condemn" PROVE FALSE
      BY <2>1, <2>3, SetOne DEF Inv
    <2>4. ASSUME NEW q \in Callers, NEW persisted, Settle(q, persisted) PROVE FALSE
      BY <2>1, <2>2, <2>4 DEF Settle, Call
    <2>5. Idle.pc = "idle"
      BY DEF Idle
    <2>6. ASSUME NEW q \in Callers, NEW path, NEW c \in Connections, Begin(q, path, c) PROVE FALSE
      BY <2>3, <2>6 DEF Begin, Idle
    <2>7. ASSUME NEW q \in Callers, EnterOuter(q) \/ Share(q) \/ RotationHit(q) \/ Own(q) \/ UseStored(q)
          PROVE  FALSE
      BY <2>2, <2>3, <2>7 DEF EnterOuter, Share, RotationHit, Own, UseStored, Call
    <2>8. ASSUME NEW q \in Callers, NEW a, Reply(q, a) \/ GapOver(q) PROVE FALSE
      BY <2>2, <2>3, <2>8 DEF Reply, GapOver, Minted, Call
    <2>9. ASSUME NEW q \in Callers, NEW fails, EnterLane(q, fails) \/ PersistBegun(q, fails)
          PROVE  FALSE
      BY <2>2, <2>3, <2>9 DEF EnterLane, PersistBegun, Call
    <2>10. ASSUME NEW q \in Callers, NEW fails, PersistSkipped(q) \/ Persist(q, fails) PROVE FALSE
      BY <2>4, <2>10 DEF PersistSkipped, Persist
    <2>11. ASSUME NEW q \in Callers, NEW fails,
                  Done(q) \/ FallbackWrite(q, fails) \/ QuotaWrite(q, fails) \/ Condemn(q, fails)
           PROVE  FALSE
      BY <2>3, <2>5, <2>11 DEF Done, FallbackWrite, QuotaWrite, Condemn
    <2>12. ASSUME NEW q \in Callers, Retry(q) \/ OuterDone(q) \/ OuterGapOver(q) PROVE FALSE
      BY <2>2, <2>3, <2>12 DEF Retry, OuterDone, OuterGapOver, Call
    <2>13. ASSUME NEW c, NEW e, ExpireAccess(c, e) \/ ExpireRotation(e) PROVE FALSE
      BY <2>1, <2>13 DEF ExpireAccess, ExpireRotation
    <2>14. ASSUME NEW q \in Callers, NEW fails \in BOOLEAN, Confirm(q, fails)
           PROVE  live[Conn(p)] # row[Conn(p)].token \/ MisledBy(p)
      <3>1. q = p
        BY <2>1, <2>14, SetOne DEF Inv, Confirm
      <3>2. ~fails /\ call[p].pc = "after" /\ call[p].result = Dead
        BY <2>14, <3>1 DEF Confirm, At
      <3>3. row[Conn(p)].token = call[p].attempted
        BY <2>3, <2>5, <2>14, <3>1, <3>2 DEF Confirm
      <3>4. Spent(Conn(p), call[p].about, live)
        BY <3>2 DEF Inv, TokensInv, Verdict, Conn
      <3>5. live[Conn(p)] \in Int /\ row[Conn(p)].token \in Nat
        BY Numbers DEF Inv, Conn
      <3> QED BY <3>3, <3>4, <3>5 DEF Spent, Dead, MisledBy
    <2> QED BY <2>6, <2>7, <2>8, <2>9, <2>10, <2>11, <2>12, <2>13, <2>14, ConnectionsAssumption
            DEF Next, Step
  <1>2. Spec => [][A]_vars
    BY <1>1, Invariance, PTL DEF Spec
  <1> QED BY <1>2 DEF DeactivationJustified

-----------------------------------------------------------------------------
(* Whoever shares a refresh shares one that is in flight. *)
Shared == \A p \in Callers : At(p, "share") => mutex[Conn(p)] # None

(* The mutex is given back and the sharers are told in one step. *)
LEMMA SharedStep ==
    ASSUME Types, Shared, Next
    PROVE  Shared'
  <1>1. ASSUME NEW p \in Callers, NEW local, Set(p, local),
               \A c \in Connections : mutex[c] # None => mutex'[c] # None,
               local.pc = "share" => local.conn = Conn(p) /\ mutex[Conn(p)] # None
        PROVE  Shared'
    <2>1. \A q \in Callers : Conn(q) \in Connections
      BY DEF Types, Call, Conn
    <2> QED BY <1>1, <2>1, SetOne DEF Shared, At, Conn
  <1>2. ASSUME NEW p \in Callers, NEW persisted, Settle(p, persisted) PROVE Shared'
    <2>1. \A q \in Callers : call[q] \in Call /\ Conn(q) \in Connections
      BY DEF Types, Call, Conn
    <2>2. ASSUME NEW q \in Callers, call'[q].pc = "share"
          PROVE  call'[q] = call[q] /\ Conn(q) # Conn(p)
      <3> DEFINE told == IF call[p].result = Dead THEN call[p].held ELSE 0
      <3>1. q # p
        <4> SUFFICES ASSUME q = p PROVE FALSE
          OBVIOUS
        <4>1. call'[q] = [call[q] EXCEPT !.pc = "after", !.result = Seen(q, @),
                                         !.persisted = @ \/ persisted, !.about = told]
          BY <1>2 DEF Settle
        <4> QED BY <2>1, <2>2, <4>1 DEF Call
      <3>2. ~(At(q, "share") /\ Conn(q) = Conn(p))
        <4> SUFFICES ASSUME At(q, "share"), Conn(q) = Conn(p) PROVE FALSE
          OBVIOUS
        <4>1. call'[q] = [call[q] EXCEPT !.pc = "after", !.result = Seen(q, call[p].result),
                                         !.lease = call[p].lease, !.about = told]
          BY <1>2, <3>1 DEF Settle
        <4> QED BY <2>1, <2>2, <4>1 DEF Call
      <3>3. call'[q] = call[q]
        BY <1>2, <3>1, <3>2 DEF Settle
      <3> QED BY <2>2, <3>2, <3>3 DEF At
    <2>3. \A c \in Connections : c # Conn(p) => mutex'[c] = mutex[c]
      BY <1>2 DEF Settle, Types
    <2> QED BY <2>1, <2>2, <2>3 DEF Shared, At, Conn
  <1>3. Idle.pc = "idle"
    BY DEF Idle
  <1>4. \A p \in Callers : call[p] \in Call /\ Conn(p) = call[p].conn /\ p # None
    BY NoneAssumption DEF Types, Conn
  <1>5. ASSUME NEW p \in Callers, NEW path, NEW c \in Connections, Begin(p, path, c) PROVE Shared'
    BY <1>1, <1>5 DEF Begin, Idle
  <1>6. ASSUME NEW p \in Callers, EnterOuter(p) \/ Share(p) PROVE Shared'
    BY <1>1, <1>4, <1>6 DEF EnterOuter, Share, Call
  <1>7. ASSUME NEW p \in Callers, mutex' = [mutex EXCEPT ![Conn(p)] = p]
        PROVE  \A c \in Connections : mutex[c] # None => mutex'[c] # None
    BY <1>4, <1>7 DEF Types
  <1>8. ASSUME NEW p \in Callers, RotationHit(p) \/ Own(p) PROVE Shared'
    BY <1>1, <1>4, <1>7, <1>8 DEF RotationHit, Own, Call
  <1>9. ASSUME NEW p \in Callers, NEW fails, UseStored(p) \/ EnterLane(p, fails) PROVE Shared'
    BY <1>1, <1>4, <1>9 DEF UseStored, EnterLane, Call
  <1>10. ASSUME NEW p \in Callers, NEW a, Reply(p, a) \/ GapOver(p) PROVE Shared'
    BY <1>1, <1>4, <1>10 DEF Reply, GapOver, Minted, Call
  <1>11. ASSUME NEW p \in Callers, NEW fails, PersistSkipped(p) \/ Persist(p, fails) PROVE Shared'
    BY <1>2, <1>11 DEF PersistSkipped, Persist
  <1>12. ASSUME NEW p \in Callers, NEW fails, PersistBegun(p, fails) \/ Retry(p) PROVE Shared'
    BY <1>1, <1>4, <1>12 DEF PersistBegun, Retry, Call
  <1>13. ASSUME NEW p \in Callers, NEW fails,
                \/ Done(p) \/ FallbackWrite(p, fails) \/ QuotaWrite(p, fails)
                \/ Confirm(p, fails) \/ Condemn(p, fails)
         PROVE  Shared'
    BY <1>1, <1>3, <1>4, <1>13 DEF Done, FallbackWrite, QuotaWrite, Confirm, Condemn, Call
  <1>14. ASSUME NEW p \in Callers, OuterDone(p) \/ OuterGapOver(p) PROVE Shared'
    BY <1>1, <1>4, <1>14 DEF OuterDone, OuterGapOver, Call
  <1>15. ASSUME NEW c, NEW e, ExpireAccess(c, e) \/ ExpireRotation(e) PROVE Shared'
    BY <1>15 DEF ExpireAccess, ExpireRotation, Shared, At, Conn
  <1> QED BY <1>5, <1>6, <1>8, <1>9, <1>10, <1>11, <1>12, <1>13, <1>14, <1>15,
             ConnectionsAssumption DEF Next, Step

(* Somebody runs, or a quota refresh is stuck behind itself. *)
Moves == \E q \in Callers : Nested(q) \/ (~At(q, "idle") /\ ~Waits(q))

(* A lane somebody is in has a head, which awaits no ticket: it posts, pauses, or
   is a quota refresh whose own refresh runs, is shared, or is nested. *)
LEMMA HeadMoves ==
    ASSUME Inv, Owners, Shared, NEW t \in LaneTickets
    PROVE  Moves
  <1>0. PICK n \in Nat : \E q \in [1 .. n -> LaneTickets] : Ordered(n, q, LaneTickets, after, tail)
    BY DEF Inv, LaneInv, Lane
  <1>1. PICK q \in [1 .. n -> LaneTickets] : Ordered(n, q, LaneTickets, after, tail)
    BY <1>0
  <1>2. 1 \in 1 .. n
    BY <1>1 DEF Ordered
  <1> DEFINE head == q[1]
  <1>3. head \in LaneTickets /\ after[head] = None
    BY <1>1, <1>2 DEF Ordered
  <1> HIDE DEF head
  <1>4. PICK h \in Callers, k \in {"outer", "inner"} : head = <<h, k>>
    BY <1>3 DEF LaneTickets, Tickets
  <1>5. /\ k = "inner" => call[h].pc \in {"inner", "gap"}
        /\ k = "outer" => call[h].path = "quota" /\ call[h].pc \notin {"idle", "start", "final"}
    BY <1>3, <1>4 DEF LaneTickets, InLane, InnerIn, OuterIn
  <1>6. CASE k = "inner"
    BY <1>3, <1>4, <1>5, <1>6 DEF Moves, Waits, Posting, At
  <1>7. CASE k = "outer"
    <2>1. CASE At(h, "inner")
      BY <1>5, <1>7, <2>1 DEF Moves, Nested
    <2>2. CASE At(h, "share")
      <3> DEFINE m == mutex[Conn(h)]
      <3>1. Conn(h) \in Connections /\ m # None
        BY <2>2 DEF Inv, Types, Call, Conn, Shared
      <3>2. m \in Callers /\ call[m].pc \in OwnerPcs
        BY <3>1 DEF Inv, Types, Owners
      <3>3. CASE At(m, "inner")
        BY <1>5, <1>7, <2>2, <3>3 DEF Moves, Nested
      <3>4. CASE ~At(m, "inner")
        BY <3>2, <3>4 DEF Moves, Waits, At, OwnerPcs
      <3> QED BY <3>3, <3>4
    <2>3. CASE ~At(h, "inner") /\ ~At(h, "share")
      BY <1>3, <1>4, <1>5, <1>7, <2>3 DEF Moves, Waits, At
    <2> QED BY <2>1, <2>2, <2>3
  <1> QED BY <1>6, <1>7

(* However callers of all paths share refreshes and queue in the lane, they never
   all wait for each other, unless a quota refresh waits in the lane it holds.  A
   chain of waits ends at the head of the lane or at the owner of a mutex, and an
   owner waits for nothing but the lane. *)
THEOREM NoStandstillHolds == Spec => []NoStandstill
  <1>1. Init => Shared
    BY DEF Init, Shared, At, Idle
  <1>2. Inv /\ Shared /\ [Next]_vars => Shared'
    <2>1. CASE UNCHANGED vars
      BY <2>1 DEF vars, Shared, At, Conn
    <2> QED BY <2>1, SharedStep DEF Inv
  <1>3. Inv /\ Shared => NoStandstill
    <2> SUFFICES ASSUME Inv, Shared, NEW p \in Callers, Waits(p) PROVE Moves
      BY DEF NoStandstill, Moves
    <2>1. Owners
      BY OwnersAgree DEF Inv
    <2>2. ASSUME NEW h \in Callers, At(h, "inner") PROVE Moves
      <3>1. <<h, "inner">> \in LaneTickets
        BY <2>2 DEF LaneTickets, Tickets, InLane, InnerIn, At
      <3> QED BY <2>1, <3>1, HeadMoves
    <2>3. CASE At(p, "share")
      <3> DEFINE m == mutex[Conn(p)]
      <3>1. Conn(p) \in Connections /\ m # None
        BY <2>3 DEF Inv, Types, Call, Conn, Shared
      <3>2. m \in Callers /\ call[m].pc \in OwnerPcs
        BY <2>1, <3>1 DEF Inv, Types, Owners
      <3>3. CASE At(m, "inner")
        BY <2>2, <3>2, <3>3
      <3>4. CASE ~At(m, "inner")
        BY <3>2, <3>4 DEF Moves, Waits, At, OwnerPcs
      <3> QED BY <3>3, <3>4
    <2>4. CASE At(p, "outer")
      <3>1. call[p].path = "quota"
        BY <2>4 DEF Inv, LaneInv, Turns, TurnOK, At
      <3>2. <<p, "outer">> \in LaneTickets
        BY <2>4, <3>1 DEF LaneTickets, Tickets, InLane, OuterIn, At
      <3> QED BY <2>1, <3>2, HeadMoves
    <2> QED BY <2>2, <2>3, <2>4 DEF Waits
  <1> QED BY <1>1, <1>2, <1>3, Invariance, PTL DEF Spec

-----------------------------------------------------------------------------
(* The lane is a pool of one slot: its tickets in the order of the queue, of which the
   first holds the slot.  The order is determined by who awaits whom. *)
Order(L, af, tl) == CHOOSE s \in Seq(L) : Ordered(Len(s), s, L, af, tl)
LaneOrder   == Order(LaneTickets, after, tail)
LaneHolders == {t \in LaneTickets : after[t] = None}
LaneQueue   == SubSeq(LaneOrder, 2, Len(LaneOrder))
LaneSlots   == IF tail = None THEN 0 ELSE 1

LanePool == INSTANCE SlotPool WITH
    Requests <- Tickets, holders <- LaneHolders, queue <- LaneQueue, limit <- LaneSlots

(* A set of numbers has a least one: what induction is used for here. *)
LEMMA Least ==
    ASSUME NEW S \in SUBSET Nat, S # {}
    PROVE  \E m \in S : \A k \in S : m <= k
  <1> DEFINE R == OpToRel(<, Nat)
  <1>1. IsWellFoundedOn(R, Nat)
    BY NatLessThanWellFounded
  <1>2. \A x, y \in Nat : x < y => <<x, y>> \in R
    BY DEF OpToRel
  <1> HIDE DEF R
  <1>3. PICK m \in S : \A k \in S : ~(<<k, m>> \in R)
    BY <1>1, WFMin
  <1>4. \A k \in S : k \in Nat
    OBVIOUS
  <1>5. \A k \in S : ~(k < m)
    BY <1>2, <1>3, <1>4
  <1>6. \A k \in S : m <= k
    BY <1>4, <1>5
  <1> QED BY <1>6

(* Two orders of the same lane agree: the first place at which they do not would have
   the same predecessor in both. *)
LEMMA OrderUnique ==
    ASSUME NEW L \in SUBSET Tickets, NEW af, NEW tl, NEW s \in Seq(L), NEW r \in Seq(L),
           Ordered(Len(s), s, L, af, tl), Ordered(Len(r), r, L, af, tl)
    PROVE  s = r
  <1>1. None \notin L
    BY NoneAssumption DEF Tickets
  <1>2. /\ Len(s) \in Nat /\ \A i \in 1 .. Len(s) : s[i] \in L
        /\ Len(r) \in Nat /\ \A i \in 1 .. Len(r) : r[i] \in L
    BY LenProperties, ElementOfSeq
  <1> DEFINE n == Len(s)
             m == Len(r)
  <1>3. /\ \A i, j \in 1 .. n : s[i] = s[j] => i = j
        /\ \A t \in L : \E i \in 1 .. n : s[i] = t
        /\ \A i \in 1 .. n : af[s[i]] = IF i = 1 THEN None ELSE s[i - 1]
    BY DEF Ordered
  <1>4. /\ \A i, j \in 1 .. m : r[i] = r[j] => i = j
        /\ \A t \in L : \E i \in 1 .. m : r[i] = t
        /\ \A i \in 1 .. m : af[r[i]] = IF i = 1 THEN None ELSE r[i - 1]
    BY DEF Ordered
  <1>5. n \in Nat /\ m \in Nat /\ (\A i \in 1 .. n : s[i] \in L) /\ \A i \in 1 .. m : r[i] \in L
    BY <1>2
  <1> HIDE DEF n, m
  <1>6. \A i \in 1 .. n : i \in 1 .. m => s[i] = r[i]
    <2> DEFINE D == {i \in Nat : i \in 1 .. n /\ i \in 1 .. m /\ s[i] # r[i]}
    <2> SUFFICES ASSUME D # {} PROVE FALSE
      BY <1>5
    <2>1. D \in SUBSET Nat
      OBVIOUS
    <2>2. PICK k \in D : \A j \in D : k <= j
      BY <2>1, Least
    <2>3. k \in 1 .. n /\ k \in 1 .. m /\ s[k] # r[k]
      BY <2>2
    <2>4. PICK j \in 1 .. m : r[j] = s[k]
      BY <1>4, <1>5, <2>3
    <2>5. CASE k = 1
      <3>1. af[r[j]] = None
        BY <1>3, <2>3, <2>4, <2>5
      <3>2. j = 1
        <4> SUFFICES ASSUME j # 1 PROVE FALSE
          OBVIOUS
        <4>1. j - 1 \in 1 .. m
          BY <1>5, <2>4
        <4> QED BY <1>1, <1>4, <1>5, <2>4, <3>1, <4>1
      <3> QED BY <2>3, <2>4, <2>5, <3>2
    <2>6. CASE k # 1
      <3>1. k - 1 \in 1 .. n /\ k - 1 \in 1 .. m /\ k - 1 \in Nat /\ ~(k <= k - 1)
        BY <1>5, <2>3, <2>6
      <3>2. s[k - 1] = r[k - 1]
        BY <2>2, <3>1
      <3>3. af[r[j]] = r[k - 1] /\ r[k - 1] # None
        BY <1>1, <1>3, <1>5, <2>3, <2>4, <2>6, <3>1, <3>2
      <3>4. j # 1 /\ r[j - 1] = r[k - 1]
        BY <1>4, <2>4, <3>3
      <3>5. j - 1 \in 1 .. m
        BY <1>5, <2>4, <3>4
      <3>6. j - 1 = k - 1
        BY <1>4, <3>1, <3>4, <3>5
      <3>7. j = k
        BY <1>5, <2>3, <2>4, <3>6
      <3> QED BY <2>3, <2>4, <3>7
    <2> QED BY <2>5, <2>6
  <1>7. n = m
    <2>1. ASSUME n < m PROVE FALSE
      <3>1. n + 1 \in 1 .. m /\ \A i \in 1 .. n : i \in 1 .. m /\ i # n + 1
        BY <1>5, <2>1
      <3>2. PICK i \in 1 .. n : s[i] = r[n + 1]
        BY <1>3, <1>5, <3>1
      <3>3. r[i] = r[n + 1]
        BY <1>6, <3>1, <3>2
      <3> QED BY <1>4, <3>1, <3>2, <3>3
    <2>2. ASSUME m < n PROVE FALSE
      <3>1. m + 1 \in 1 .. n /\ \A i \in 1 .. m : i \in 1 .. n /\ i # m + 1
        BY <1>5, <2>2
      <3>2. PICK i \in 1 .. m : r[i] = s[m + 1]
        BY <1>4, <1>5, <3>1
      <3>3. s[i] = s[m + 1]
        BY <1>6, <3>1, <3>2
      <3> QED BY <1>3, <3>1, <3>2, <3>3
    <2> QED BY <1>5, <2>1, <2>2
  <1>8. Len(s) = Len(r) /\ \A i \in 1 .. Len(s) : s[i] = r[i]
    BY <1>6, <1>7 DEF n, m
  <1> QED BY <1>8, SeqEqual

(* A lane has an order, and whatever orders it is that order. *)
LEMMA OrderIs ==
    ASSUME NEW L \in SUBSET Tickets, NEW af, NEW tl, Lane(L, af, tl)
    PROVE  /\ Order(L, af, tl) \in Seq(L)
           /\ Ordered(Len(Order(L, af, tl)), Order(L, af, tl), L, af, tl)
           /\ \A s \in Seq(L) : Ordered(Len(s), s, L, af, tl) => s = Order(L, af, tl)
  <1>0. PICK n \in Nat : \E q \in [1 .. n -> L] : Ordered(n, q, L, af, tl)
    BY DEF Lane
  <1>1. PICK q \in [1 .. n -> L] : Ordered(n, q, L, af, tl)
    BY <1>0
  <1>2. q \in Seq(L) /\ Len(q) = n
    BY <1>1, SeqDef
  <1>3. /\ Order(L, af, tl) \in Seq(L)
        /\ Ordered(Len(Order(L, af, tl)), Order(L, af, tl), L, af, tl)
    BY <1>1, <1>2 DEF Order
  <1> QED BY <1>3, OrderUnique

(* The first in the order is the one that awaits nobody. *)
LEMMA HeadHolds ==
    ASSUME NEW L \in SUBSET Tickets, NEW af, NEW tl, NEW s \in Seq(L),
           Ordered(Len(s), s, L, af, tl)
    PROVE  /\ Len(s) = 0 => L = {} /\ tl = None
           /\ Len(s) # 0 => {t \in L : af[t] = None} = {s[1]} /\ tl # None
  <1>1. None \notin L
    BY NoneAssumption DEF Tickets
  <1>2. Len(s) \in Nat /\ \A i \in 1 .. Len(s) : s[i] \in L
    BY LenProperties, ElementOfSeq
  <1>3. Len(s) = 0 => L = {} /\ tl = None
    BY <1>2 DEF Ordered
  <1>4. CASE Len(s) # 0
    <2>1. 1 \in 1 .. Len(s) /\ Len(s) \in 1 .. Len(s)
      BY <1>2, <1>4
    <2>2. s[1] \in L /\ af[s[1]] = None /\ tl # None
      BY <1>1, <1>2, <1>4, <2>1 DEF Ordered
    <2>3. ASSUME NEW t \in L, af[t] = None PROVE t = s[1]
      <3>1. PICK i \in 1 .. Len(s) : s[i] = t
        BY DEF Ordered
      <3>2. af[t] = IF i = 1 THEN None ELSE s[i - 1]
        BY <3>1 DEF Ordered
      <3>3. i # 1 => i - 1 \in 1 .. Len(s)
        BY <1>2, <3>1
      <3> QED BY <1>1, <1>2, <2>3, <3>1, <3>2, <3>3
    <2>4. {t \in L : af[t] = None} = {s[1]}
      BY <2>2, <2>3
    <2> QED BY <1>4, <2>2, <2>4
  <1> QED BY <1>3, <1>4

(* The instance of SlotPool counts as the rest of the module does. *)
LEMMA PoolCardinality == \A S : LanePool!Cardinality(S) = Cardinality(S)
  BY DEF LanePool!Cardinality, Cardinality

(* The order of the lane, what it means for the pool, and how to recognise it. *)
LaneShape ==
    /\ LaneTickets \in SUBSET Tickets
    /\ LaneOrder \in Seq(LaneTickets)
    /\ Ordered(Len(LaneOrder), LaneOrder, LaneTickets, after, tail)
    /\ Len(LaneOrder) \in Nat /\ LaneOrder \in [1 .. Len(LaneOrder) -> LaneTickets]
    /\ Len(LaneOrder) = 0 => LaneHolders = {} /\ LaneTickets = {} /\ LaneSlots = 0
    /\ Len(LaneOrder) # 0 => LaneHolders = {LaneOrder[1]} /\ LaneSlots = 1
    /\ \A s \in Seq(LaneTickets) :
          Ordered(Len(s), s, LaneTickets, after, tail) => s = LaneOrder

(* Those that wait are the others. *)
LaneWaiters ==
    /\ LaneQueue \in Seq(LaneTickets)
    /\ Len(LaneQueue) = IF Len(LaneOrder) = 0 THEN 0 ELSE Len(LaneOrder) - 1
    /\ \A i \in 1 .. Len(LaneQueue) : LaneQueue[i] = LaneOrder[i + 1]
    /\ LanePool!Queued \subseteq LaneTickets

(* The lane has the order that the pool takes it to have. *)
LEMMA LaneOrdered ==
    ASSUME LaneInv
    PROVE  LaneShape
  <1>1. LaneTickets \in SUBSET Tickets /\ Lane(LaneTickets, after, tail)
    BY DEF LaneInv, LaneTickets
  <1>2. /\ LaneOrder \in Seq(LaneTickets)
        /\ Ordered(Len(LaneOrder), LaneOrder, LaneTickets, after, tail)
        /\ \A s \in Seq(LaneTickets) :
              Ordered(Len(s), s, LaneTickets, after, tail) => s = LaneOrder
    BY <1>1, OrderIs DEF LaneOrder
  <1> HIDE DEF LaneOrder, LaneTickets
  <1>3. Len(LaneOrder) \in Nat /\ LaneOrder \in [1 .. Len(LaneOrder) -> LaneTickets]
    BY <1>2, LenProperties
  <1>4. /\ Len(LaneOrder) = 0 => LaneTickets = {} /\ tail = None
        /\ Len(LaneOrder) # 0 => {t \in LaneTickets : after[t] = None} = {LaneOrder[1]}
                                /\ tail # None
    BY <1>1, <1>2, HeadHolds
  <1>5. /\ Len(LaneOrder) = 0 => LaneHolders = {} /\ LaneTickets = {} /\ LaneSlots = 0
        /\ Len(LaneOrder) # 0 => LaneHolders = {LaneOrder[1]} /\ LaneSlots = 1
    BY <1>4 DEF LaneHolders, LaneSlots
  <1> QED BY <1>1, <1>2, <1>3, <1>5 DEF LaneShape

(* The queue of the pool is the lane without its head. *)
LEMMA LaneQueued ==
    ASSUME LaneInv
    PROVE  LaneWaiters
  <1> DEFINE n == Len(LaneOrder)
  <1>1. n \in Nat /\ \A i \in 2 .. n : LaneOrder[i] \in LaneTickets
    BY LaneOrdered DEF LaneShape
  <1>2. /\ SubSeq(LaneOrder, 2, n) \in Seq(LaneTickets)
        /\ Len(SubSeq(LaneOrder, 2, n)) = IF 2 <= n THEN n - 2 + 1 ELSE 0
        /\ \A i \in 1 .. n - 2 + 1 : SubSeq(LaneOrder, 2, n)[i] = LaneOrder[2 + i - 1]
    BY <1>1, SubSeqProperties
  <1>3. LaneQueue = SubSeq(LaneOrder, 2, n)
    BY DEF LaneQueue
  <1> HIDE DEF n
  <1>4. /\ LaneQueue \in Seq(LaneTickets)
        /\ Len(LaneQueue) = IF n = 0 THEN 0 ELSE n - 1
    BY <1>1, <1>2, <1>3
  <1>5. ASSUME NEW i \in 1 .. Len(LaneQueue) PROVE LaneQueue[i] = LaneOrder[i + 1]
    <2>1. i \in 1 .. n - 2 + 1 /\ 2 + i - 1 = i + 1
      BY <1>1, <1>4, <1>5
    <2> QED BY <1>2, <1>3, <2>1
  <1>6. LanePool!Queued \subseteq LaneTickets
    <2>1. DOMAIN LaneQueue = 1 .. Len(LaneQueue)
      BY <1>4, LenProperties
    <2>2. \A i \in 1 .. Len(LaneQueue) : LaneQueue[i] \in LaneTickets
      BY <1>4, ElementOfSeq
    <2> QED BY <2>1, <2>2 DEF LanePool!Queued
  <1> QED BY <1>4, <1>5, <1>6 DEF n, LaneWaiters

(* A ticket that joins an empty lane takes the slot, one that joins another waits. *)
LEMMA JoinEnters ==
    ASSUME Types, LaneInv, LaneInv', NEW t \in Tickets \ LaneTickets, Join(t),
           LaneTickets' = LaneTickets \cup {t}
    PROVE  LanePool!Next
  <1> DEFINE o == LaneOrder
             n == Len(o)
             r == Append(o, t)
  <1>1. /\ LaneTickets \in SUBSET Tickets /\ after \in [Tickets -> Tickets \cup {None}]
        /\ o \in Seq(LaneTickets) /\ n \in Nat /\ o \in [1 .. n -> LaneTickets]
        /\ Ordered(n, o, LaneTickets, after, tail)
    BY LaneOrdered DEF LaneShape, Types
  <1>2. o \in Seq(LaneTickets')
    BY <1>1, SeqMonotonic
  <1>3. /\ r \in Seq(LaneTickets') /\ Len(r) = n + 1 /\ r[n + 1] = t
        /\ \A i \in 1 .. n : r[i] = o[i]
    BY <1>2, AppendProperties
  <1>4. /\ \A s \in Seq(LaneTickets') :
              Ordered(Len(s), s, LaneTickets', after', tail') => s = LaneOrder'
        /\ Len(LaneOrder') # 0 => LaneHolders' = {LaneOrder'[1]} /\ LaneSlots' = 1
        /\ LaneQueue' \in Seq(LaneTickets')
        /\ Len(LaneQueue') = IF Len(LaneOrder') = 0 THEN 0 ELSE Len(LaneOrder') - 1
        /\ \A i \in 1 .. Len(LaneQueue') : LaneQueue'[i] = LaneOrder'[i + 1]
    <2>1. ASSUME LaneInv' PROVE LaneShape' /\ LaneWaiters'
      BY <2>1, LaneOrdered, LaneQueued, PTL
    <2> QED BY <2>1 DEF LaneShape, LaneWaiters
  <1> HIDE DEF o, n, r
  <1>5. Ordered(n + 1, r, LaneTickets', after', tail')
    <2>1. after' = [after EXCEPT ![t] = tail] /\ tail' = t
      BY DEF Join
    <2> QED BY <1>1, <1>3, <2>1, JoinedOrder
  <1>6. LaneOrder' = r
    BY <1>3, <1>4, <1>5
  <1>7. /\ LaneHolders' = {r[1]} /\ LaneSlots' = 1 /\ Len(LaneQueue') = n
        /\ \A i \in 1 .. n : LaneQueue'[i] = r[i + 1]
    <2>1. Len(LaneOrder') = n + 1 /\ n + 1 # 0 /\ n + 1 - 1 = n
      BY <1>1, <1>3, <1>6
    <2>2. LaneHolders' = {r[1]} /\ LaneSlots' = 1
      BY <1>4, <1>6, <2>1
    <2>3. Len(LaneQueue') = n
      <3>1. Len(LaneQueue') = IF Len(LaneOrder') = 0 THEN 0 ELSE Len(LaneOrder') - 1
        BY <1>4
      <3>2. n \in Nat
        BY <1>1
      <3> QED BY <2>1, <3>1, <3>2
    <2> QED BY <1>4, <1>6, <2>2, <2>3
  <1>8. /\ LaneQueue \in Seq(LaneTickets) /\ LanePool!Queued \subseteq LaneTickets
        /\ Len(LaneQueue) = IF n = 0 THEN 0 ELSE n - 1
        /\ \A i \in 1 .. Len(LaneQueue) : LaneQueue[i] = o[i + 1]
    BY LaneQueued DEF LaneWaiters, o, n
  <1>9. t \notin LaneHolders \cup LanePool!Queued
    BY <1>8 DEF LaneHolders
  <1>10. CASE n = 0
    <2>1. LaneHolders = {} /\ Cardinality(LaneHolders) = 0
      BY <1>10, LaneOrdered, FS_EmptySet DEF LaneShape, o, n
    <2>2. LaneHolders' = LaneHolders \cup {t}
      BY <1>3, <1>7, <1>10, <2>1
    <2>3. LaneQueue = <<>> /\ LaneQueue' = <<>>
      BY <1>4, <1>7, <1>8, <1>10, EmptySeq
    <2>4. LanePool!Enter(t)
      BY <1>7, <1>9, <2>1, <2>2, <2>3, PoolCardinality DEF LanePool!Enter
    <2> QED BY <2>4 DEF LanePool!Next
  <1>11. CASE n # 0
    <2>1. LaneHolders' = LaneHolders
      <3>1. 1 \in 1 .. n /\ LaneHolders = {o[1]}
        BY <1>1, <1>11, LaneOrdered DEF LaneShape, o, n
      <3> QED BY <1>3, <1>7, <3>1
    <2>2. LaneQueue' = Append(LaneQueue, t)
      <3>1. LaneQueue \in Seq(LaneTickets') /\ t \in LaneTickets'
        BY <1>8, SeqMonotonic
      <3>2. /\ Append(LaneQueue, t) \in Seq(LaneTickets')
            /\ Len(Append(LaneQueue, t)) = n
            /\ \A i \in 1 .. n - 1 : Append(LaneQueue, t)[i] = LaneQueue[i]
            /\ Append(LaneQueue, t)[n] = t
        BY <1>1, <1>8, <1>11, <3>1, AppendProperties
      <3>3. ASSUME NEW i \in 1 .. n PROVE LaneQueue'[i] = Append(LaneQueue, t)[i]
        <4>1. CASE i = n
          BY <1>3, <1>7, <3>2, <4>1
        <4>2. CASE i # n
          <5>1. i \in 1 .. n - 1 /\ i + 1 \in 1 .. n /\ i \in 1 .. Len(LaneQueue)
            BY <1>1, <1>8, <1>11, <3>3, <4>2
          <5> QED BY <1>3, <1>7, <1>8, <3>2, <5>1
        <4> QED BY <4>1, <4>2
      <3> QED BY <1>4, <1>7, <3>2, <3>3, SeqEqual
    <2>3. LanePool!Join(t)
      BY <1>7, <1>9, <2>1, <2>2 DEF LanePool!Join
    <2> QED BY <2>3 DEF LanePool!Next
  <1> QED BY <1>10, <1>11

(* The head that leaves gives the slot to the oldest that waits, if any does. *)
LEMMA LeaveServes ==
    ASSUME Types, LaneInv, LaneInv', NEW t \in LaneTickets, after[t] = None, LeaveLane(t),
           LaneTickets' = LaneTickets \ {t}
    PROVE  LanePool!Next
  <1> DEFINE o == LaneOrder
             n == Len(o)
             w == LaneQueue
  <1>1. /\ LaneTickets \in SUBSET Tickets /\ after \in [Tickets -> Tickets \cup {None}]
        /\ o \in Seq(LaneTickets) /\ n \in Nat /\ o \in [1 .. n -> LaneTickets]
        /\ Ordered(n, o, LaneTickets, after, tail)
    BY LaneOrdered DEF LaneShape, Types
  <1>2. n # 0 /\ LaneHolders = {t} /\ o[1] = t
    BY LaneOrdered DEF LaneShape, LaneHolders
  <1>3. /\ w \in Seq(LaneTickets) /\ Len(w) = n - 1
        /\ \A i \in 1 .. n - 1 : w[i] = o[i + 1]
    BY <1>2, LaneQueued DEF LaneWaiters
  <1>4. /\ \A s \in Seq(LaneTickets') :
              Ordered(Len(s), s, LaneTickets', after', tail') => s = LaneOrder'
        /\ Len(LaneOrder') = 0 => LaneHolders' = {} /\ LaneSlots' = 0
        /\ Len(LaneOrder') # 0 => LaneHolders' = {LaneOrder'[1]} /\ LaneSlots' = 1
        /\ LaneQueue' = SubSeq(LaneOrder', 2, Len(LaneOrder'))
    <2>1. ASSUME LaneInv' PROVE LaneShape'
      BY <2>1, LaneOrdered, PTL
    <2>2. LaneQueue' = SubSeq(LaneOrder', 2, Len(LaneOrder'))
      BY DEF LaneQueue
    <2> QED BY <2>1, <2>2 DEF LaneShape
  <1> HIDE DEF o, n, w
  <1>5. (\A i \in 1 .. n - 1 : w[i] \in LaneTickets')
        /\ Ordered(n - 1, w, LaneTickets', after', tail')
    <2>1. Shifts(n, o, after, tail, t, w, after', tail')
      BY <1>2, <1>3 DEF LeaveLane, Shifts
    <2>2. (\A i \in 1 .. n - 1 : w[i] \in LaneTickets \ {t})
          /\ Ordered(n - 1, w, LaneTickets \ {t}, after', tail')
      BY <1>1, <2>1, LeftOrder
    <2> QED BY <2>2
  <1>6. w \in Seq(LaneTickets')
    <2>1. n - 1 \in Nat
      BY <1>1, <1>2
    <2>2. w \in [1 .. n - 1 -> LaneTickets]
      BY <1>3, LenProperties
    <2>3. w \in [1 .. n - 1 -> LaneTickets']
      BY <1>5, <2>2
    <2> QED BY <2>1, <2>3, SeqDef
  <1>7. LaneOrder' = w
    BY <1>3, <1>4, <1>5, <1>6
  <1>8. /\ LaneQueue' = SubSeq(w, 2, Len(w))
        /\ Len(w) = 0 => LaneHolders' = {} /\ LaneSlots' = 0
        /\ Len(w) # 0 => LaneHolders' = {w[1]} /\ LaneSlots' = 1
    BY <1>4, <1>7
  <1>9. CASE Len(w) = 0
    <2>1. {w[i] : i \in 1 .. 0} = {}
      OBVIOUS
    <2>2. LaneHolders' = (LaneHolders \ {t}) \cup {w[i] : i \in 1 .. 0}
      BY <1>2, <1>8, <1>9, <2>1
    <2>3. SubSeq(w, 2, Len(w)) = <<>> /\ SubSeq(w, 0 + 1, Len(w)) = <<>>
      BY <1>9, SubSeqEmpty
    <2>4. LanePool!Serve({t}, 0)
      BY <1>8, <1>9, <2>2, <2>3 DEF LanePool!Serve, w
    <2>5. 0 \in 0 .. Len(LaneQueue)
      BY <1>9 DEF w
    <2> QED BY <1>2, <2>4, <2>5 DEF LanePool!Next
  <1>10. CASE Len(w) # 0
    <2>1. {w[i] : i \in 1 .. 1} = {w[1]}
      OBVIOUS
    <2>2. LaneHolders' = (LaneHolders \ {t}) \cup {w[i] : i \in 1 .. 1}
      BY <1>2, <1>8, <1>10, <2>1
    <2>3. Cardinality(LaneHolders') <= LaneSlots'
      <3>1. LaneHolders' = {w[1]} /\ LaneSlots' = 1
        BY <1>8, <1>10
      <3>2. Cardinality({w[1]}) = 1
        BY FS_Singleton
      <3>3. Cardinality(LaneHolders') = 1
        BY <3>1, <3>2, Zenon
      <3> QED BY <3>1, <3>3
    <2>4. LanePool!Serve({t}, 1)
      BY <1>8, <1>10, <2>2, <2>3, PoolCardinality DEF LanePool!Serve, w
    <2>5. 1 \in 0 .. Len(LaneQueue)
      BY <1>1, <1>2, <1>3, <1>10 DEF w
    <2> QED BY <1>2, <2>4, <2>5 DEF LanePool!Next
  <1> QED BY <1>9, <1>10

(* serializeRefresh() is a first-come-first-served pool of one slot for every caller of
   the rotation group, and nothing else the callers do touches the lane: nobody
   overtakes, and the slot passes from the head that leaves to the oldest that waits. *)
THEOREM LaneImplementsPool == Spec => LanePool!Spec
  <1>1. Init => LanePool!Init
    <2> SUFFICES ASSUME Init PROVE LanePool!Init
      OBVIOUS
    <2>1. LaneInv /\ tail = None
      BY InvInit DEF Inv, Init
    <2>2. LaneShape /\ LaneWaiters /\ LaneSlots = 0
      BY <2>1, LaneOrdered, LaneQueued DEF LaneSlots
    <2>3. LaneHolders = {} /\ Len(LaneQueue) = 0 /\ LaneQueue \in Seq(LaneTickets)
      <3>1. Len(LaneOrder) = 0 /\ LaneHolders = {}
        BY <2>2 DEF LaneShape
      <3>2. Len(LaneQueue) = 0 /\ LaneQueue \in Seq(LaneTickets)
        BY <2>2, <3>1 DEF LaneWaiters
      <3> QED BY <3>1, <3>2
    <2>4. LaneQueue = <<>>
      BY <2>3, EmptySeq
    <2> QED BY <2>2, <2>3, <2>4 DEF LanePool!Init
  <1>2. Inv /\ Inv' /\ [Next]_vars => [LanePool!Next]_(LanePool!vars)
    <2> SUFFICES ASSUME Inv, Inv', [Next]_vars
                 PROVE  LanePool!Next \/ UNCHANGED LanePool!vars
      OBVIOUS
    <2>1. Types /\ LaneInv /\ LaneInv'
      BY DEF Inv
    <2>2. LaneMove
      <3>1. CASE UNCHANGED vars
        BY <3>1 DEF vars, LaneMove, LaneTickets, InLane
      <3> QED BY <2>1, <3>1, LaneStep
    <2>3. CASE UNCHANGED <<LaneTickets, after, tail>>
      BY <2>3 DEF LanePool!vars, LaneHolders, LaneQueue, LaneOrder, LaneSlots
    <2> QED BY <2>1, <2>2, <2>3, JoinEnters, LeaveServes DEF LaneMove
  <1> QED BY <1>1, <1>2, Invariance, PTL DEF Spec, LanePool!Spec
=============================================================================
