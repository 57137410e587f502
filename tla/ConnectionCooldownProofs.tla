---------------------- MODULE ConnectionCooldownProofs ----------------------
(***************************************************************************)
(* Theorems about ConnectionCooldown, for any calls, failures and bounds on *)
(* the backoff and on the number of failures.                              *)
(***************************************************************************)
EXTENDS ConnectionCooldown, WellFoundedInduction, TLAPS

Call ==
    [phase : {"idle", "flying", "quota"} \cup MarkPhases,
     kind : Kinds \cup {"clear", "disable"}, at : Times, level : 0 .. MaxBackoff, view : Row]

(* Only a mark waits or reads; one that returns before the read or at it has no
   update to make. *)
KindOK(c) ==
    /\ c.phase \in {"wait", "read"} => c.kind \in Kinds
    /\ c.phase \in {"read", "select", "write", "close"} => c.kind # "bypass"
    /\ c.phase \in {"select", "write", "close"} => c.kind # "refuse"
KindsOK == \A r \in Requests : KindOK(call[r])

(* A failure that has not written its time into the row. *)
Unstamped(c) ==
    c.phase \in {"wait", "read", "select", "write"} /\ c.kind \notin {"clear", "disable"}

(* The row and every copy of it that a call still has. *)
Rows == {row} \cup {call[r].view : r \in Requests}

(* lastErrorAt stands for the backoff level: copies with the same time have the
   same level, and the time of a failure that has not written is in no copy. *)
Stamps ==
    /\ \A v \in Rows : v.errorAt <= marks /\ (v.errorAt = 0 => v.level = 0)
    /\ \A v, w \in Rows : v.errorAt = w.errorAt => v.level = w.level
    /\ \A r \in Requests : Unstamped(call[r]) =>
          call[r].at \in 1 .. marks /\ \A v \in Rows : v.errorAt # call[r].at
    /\ \A r, s \in Requests :
          Unstamped(call[r]) /\ Unstamped(call[s]) /\ call[r].at = call[s].at => r = s

Inv == TypeOK /\ KindsOK /\ MutexEntriesLive /\ Stamps

-----------------------------------------------------------------------------
(* One call alone moves. *)
Moves(r, local) == call' = [call EXCEPT ![r] = local]

(* What that means for each call. *)
LEMMA MovesOne ==
    ASSUME TypeOK, NEW r \in Requests, NEW local, Moves(r, local)
    PROVE  call'[r] = local /\ \A s \in Requests : s # r => call'[s] = call[s]
  BY DEF TypeOK, Moves

(* Calls, rows and the blank call are typed. *)
LEMMA CallTypes ==
    ASSUME TypeOK
    PROVE  /\ \A r \in Requests : call[r] \in Call /\ call[r].view \in Row
           /\ Idle \in Call /\ Idle.view \in Row /\ 0 \in Times /\ 0 \in 0 .. MaxBackoff
           /\ Times \subseteq Nat /\ marks \in Nat
  <1>1. 0 \in Times /\ 0 \in 0 .. MaxBackoff /\ Times \subseteq Nat
    BY BoundsAssumption DEF Times
  <1>2. Idle.view \in Row
    BY <1>1 DEF Idle, Row
  <1>3. Idle \in Call
    BY <1>1, <1>2 DEF Idle, Call
  <1>4. \A r \in Requests : call[r] \in Call
    BY DEF TypeOK, Call
  <1>5. \A r \in Requests : call[r].view \in Row
    BY <1>4 DEF Call
  <1> QED BY <1>1, <1>2, <1>3, <1>4, <1>5 DEF TypeOK

(* The backoff level stays within its cap. *)
LEMMA NextLevelType ==
    ASSUME NEW kind, NEW level \in 0 .. MaxBackoff
    PROVE  NextLevel(kind, level) \in 0 .. MaxBackoff
  <1>1. level \in Int /\ 0 <= level /\ level <= MaxBackoff /\ MaxBackoff \in Nat
    BY BoundsAssumption
  <1>2. CASE kind = "cool"
    BY <1>1, <1>2 DEF NextLevel
  <1>3. CASE kind = "hint"
    BY <1>1, <1>3 DEF NextLevel
  <1>4. CASE kind \notin {"cool", "hint"}
    BY <1>1, <1>4 DEF NextLevel
  <1> QED BY <1>2, <1>3, <1>4

(* What updateProviderConnection() writes, by the kind of the update. *)
LEMMA MergedRow ==
    ASSUME NEW c \in Call, KindOK(c), c.phase = "write"
    PROVE  /\ Merged(c) \in Row
           /\ c.kind = "clear" => Merged(c).errorAt = 0 /\ Merged(c).level = 0
           /\ c.kind = "disable" => /\ Merged(c).errorAt = c.view.errorAt
                                    /\ Merged(c).level = c.view.level
           /\ c.kind \notin {"clear", "disable"} => Merged(c).errorAt = c.at
  <1>1. c.view \in Row /\ c.at \in Times /\ c.level \in 0 .. MaxBackoff /\ 0 \in Times
    BY BoundsAssumption DEF Call, Times
  <1>2. Idle.view \in Row /\ Idle.view.errorAt = 0 /\ Idle.view.level = 0
    BY <1>1, BoundsAssumption DEF Idle, Row
  <1> DEFINE noted == [c.view EXCEPT !.errorAt = c.at, !.level = c.level]
  <1>3. noted \in Row /\ noted.errorAt = c.at
    BY <1>1 DEF Row
  <1> HIDE DEF noted
  <1>4. CASE c.kind = "clear"
    <2>1. Merged(c) = [Idle.view EXCEPT !.active = c.view.active]
      BY <1>4 DEF Merged
    <2> QED BY <1>1, <1>2, <1>4, <2>1 DEF Row
  <1>5. CASE c.kind = "disable"
    <2>1. Merged(c) = [c.view EXCEPT !.active = FALSE]
      BY <1>5 DEF Merged
    <2> QED BY <1>1, <1>5, <2>1 DEF Row
  <1>6. CASE c.kind \in {"model", "mode"}
    <2>1. Merged(c) = [c.view EXCEPT !.errorAt = c.at]
      BY <1>6 DEF Merged
    <2> QED BY <1>1, <1>6, <2>1 DEF Row
  <1>7. CASE c.kind \in {"cool", "hint"}
    <2>1. Merged(c) = [noted EXCEPT !.until = c.at, !.status = "unavailable"]
      BY <1>7 DEF Merged, noted
    <2> QED BY <1>1, <1>3, <1>7, <2>1 DEF Row
  <1>8. CASE c.kind = "combo"
    <2>1. Merged(c) = noted
      BY <1>8 DEF Merged, noted
    <2> QED BY <1>3, <1>8, <2>1
  <1>9. CASE c.kind = "uncooled"
    <2>1. Merged(c) = [noted EXCEPT !.until = 0]
      BY <1>9 DEF Merged, noted
    <2> QED BY <1>1, <1>3, <1>9, <2>1 DEF Row
  <1>10. CASE c.kind = "scope"
    <2>1. Merged(c) = [noted EXCEPT !.status = "unavailable"]
      BY <1>10 DEF Merged, noted
    <2> QED BY <1>3, <1>10, <2>1 DEF Row
  <1>11. CASE c.kind \in {"terminal", "ban"}
    <2>1. Merged(c) = [noted EXCEPT !.until = 0, !.status = "terminal"]
      BY <1>11 DEF Merged, noted
    <2> QED BY <1>1, <1>3, <1>11, <2>1 DEF Row
  <1>12. c.kind \in {"model", "mode", "cool", "hint", "combo", "uncooled", "scope", "terminal", "ban",
                     "clear", "disable"}
    BY DEF Call, Kinds, KindOK
  <1> QED BY <1>4, <1>5, <1>6, <1>7, <1>8, <1>9, <1>10, <1>11, <1>12

-----------------------------------------------------------------------------
(* A call that moves to a typed local state with a possible kind. *)
LEMMA MovedTypes ==
    ASSUME TypeOK, KindsOK, NEW r \in Requests, NEW local \in Call, Moves(r, local), KindOK(local)
    PROVE  call' \in [Requests -> Call] /\ KindsOK'
  <1>1. call' \in [Requests -> Call]
    BY CallTypes DEF Moves, TypeOK, Call
  <1>2. KindsOK'
    BY MovesOne DEF KindsOK
  <1> QED BY <1>1, <1>2

(* The finally block leaves calls in the map and in the chain. *)
LEMMA FinallyTypes ==
    ASSUME TypeOK, NEW r \in Requests, Finally(r)
    PROVE  tail' \in Requests \cup {None} /\ prev' \in [Requests -> Requests \cup {None}]
  BY DEF Finally, TypeOK

(* Every step keeps the types, and the kinds each phase can have. *)
LEMMA TypesStep ==
    ASSUME TypeOK, KindsOK, Next
    PROVE  TypeOK' /\ KindsOK'
  <1>1. /\ \A r \in Requests : call[r] \in Call /\ call[r].view \in Row /\ KindOK(call[r])
        /\ Idle \in Call /\ Idle.view \in Row /\ row \in Row
    BY CallTypes DEF KindsOK, TypeOK
  <1>2. /\ Idle.phase = "idle" /\ Idle.kind = "clear"
        /\ "select" \in MarkPhases /\ "write" \in MarkPhases /\ "close" \in MarkPhases
        /\ "wait" \in MarkPhases /\ "read" \in MarkPhases
    BY DEF Idle, MarkPhases
  <1>3. KindOK(Idle)
    BY <1>2 DEF KindOK
  <1>4. ASSUME NEW r \in Requests, NEW phase \in {"flying", "quota", "select"}, NEW v \in Row,
               Moves(r, [Idle EXCEPT !.phase = phase, !.view = v])
        PROVE  call' \in [Requests -> Call] /\ KindsOK'
    <2> DEFINE local == [Idle EXCEPT !.phase = phase, !.view = v]
    <2>1. local \in Call /\ local.kind = "clear" /\ local.phase = phase
      BY <1>1, <1>2 DEF Call
    <2> HIDE DEF local
    <2>2. KindOK(local)
      BY <2>1 DEF KindOK
    <2> QED BY <1>4, <2>1, <2>2, MovedTypes DEF local
  <1>5. ASSUME NEW r \in Requests, Moves(r, [Idle EXCEPT !.phase = "select"])
        PROVE  call' \in [Requests -> Call] /\ KindsOK'
    <2>1. [Idle EXCEPT !.phase = "select"] = [Idle EXCEPT !.phase = "select", !.view = Idle.view]
      BY DEF Idle
    <2> QED BY <1>1, <1>4, <1>5, <2>1
  <1>6. ASSUME NEW r \in Requests, Moves(r, Idle) PROVE call' \in [Requests -> Call] /\ KindsOK'
    BY <1>1, <1>3, <1>6, MovedTypes
  <1> USE DEF Moves
  <1>7. ASSUME NEW r \in Requests, SelectConnection(r) PROVE TypeOK' /\ KindsOK'
    BY <1>1, <1>4, <1>7 DEF SelectConnection, TypeOK, Call
  <1>8. ASSUME NEW r \in Requests, Succeed(r) PROVE TypeOK' /\ KindsOK'
    BY <1>5, <1>6, <1>8 DEF Succeed, TypeOK, Call
  <1>9. ASSUME NEW r \in Requests, NEW kind \in Kinds, MarkEnter(r, kind) PROVE TypeOK' /\ KindsOK'
    <2> DEFINE local == [Idle EXCEPT !.phase = "wait", !.kind = kind, !.at = marks + 1]
    <2>1. marks + 1 \in Times
      BY <1>9, BoundsAssumption DEF MarkEnter, TypeOK, Times
    <2>2. local \in Call /\ local.phase = "wait" /\ local.kind = kind
      BY <1>1, <1>2, <2>1 DEF Call
    <2> HIDE DEF local
    <2>3. KindOK(local)
      BY <2>2 DEF KindOK
    <2>4. Moves(r, local)
      BY <1>9 DEF MarkEnter, local
    <2>5. call' \in [Requests -> Call] /\ KindsOK'
      BY <2>2, <2>3, <2>4, MovedTypes
    <2>6. elapsed' \subseteq 1 .. marks'
      BY <1>9, CallTypes DEF MarkEnter, TypeOK
    <2> QED BY <1>9, <2>1, <2>5, <2>6 DEF MarkEnter, TypeOK, Call
  <1>10. ASSUME NEW r \in Requests, MarkStart(r) PROVE TypeOK' /\ KindsOK'
    <2>1. CASE call[r].kind = "bypass"
      BY <1>6, <1>10, <2>1, FinallyTypes DEF MarkStart, TypeOK, Call
    <2>2. CASE call[r].kind # "bypass"
      <3> DEFINE local == [call[r] EXCEPT !.phase = "read"]
      <3>1. local \in Call /\ local.phase = "read" /\ local.kind = call[r].kind
        BY <1>1, <1>2 DEF Call
      <3> HIDE DEF local
      <3>2. KindOK(local)
        BY <1>1, <1>10, <2>2, <3>1 DEF MarkStart, KindOK
      <3>3. Moves(r, local)
        BY <1>10, <2>2 DEF MarkStart, local
      <3>4. call' \in [Requests -> Call] /\ KindsOK'
        BY <3>1, <3>2, <3>3, MovedTypes
      <3> QED BY <1>10, <2>2, <3>4 DEF MarkStart, TypeOK, Call
    <2> QED BY <2>1, <2>2
  <1>11. ASSUME NEW r \in Requests, MarkRead(r) PROVE TypeOK' /\ KindsOK'
    <2> DEFINE skip == Terminal(row) \/ Cooling(row) \/ call[r].kind = "refuse"
               local == [call[r] EXCEPT !.phase = "select",
                                        !.level = NextLevel(call[r].kind, row.level)]
    <2>1. row.level \in 0 .. MaxBackoff
      BY <1>1 DEF Row
    <2>2. /\ local \in Call /\ local.phase = "select" /\ local.kind = call[r].kind
      BY <1>1, <1>2, <2>1, NextLevelType DEF Call
    <2> HIDE DEF local
    <2>3. Moves(r, IF skip THEN Idle ELSE local) /\ call[r].phase = "read"
      BY <1>11 DEF MarkRead, local
    <2>4. call' \in [Requests -> Call] /\ KindsOK'
      <3>1. CASE skip
        BY <1>6, <2>3, <3>1
      <3>2. CASE ~skip
        <4>1. KindOK(local)
          BY <1>1, <2>2, <2>3, <3>2 DEF KindOK
        <4> QED BY <2>2, <2>3, <3>2, <4>1, MovedTypes
      <3> QED BY <3>1, <3>2
    <2>5. tail' \in Requests \cup {None} /\ prev' \in [Requests -> Requests \cup {None}]
      BY <1>11, FinallyTypes DEF MarkRead, TypeOK
    <2> QED BY <1>11, <2>4, <2>5 DEF MarkRead, TypeOK, Call
  <1>12. ASSUME NEW r \in Requests, UpdateSelect(r) PROVE TypeOK' /\ KindsOK'
    <2> DEFINE local == [call[r] EXCEPT !.phase = "write", !.view = row]
    <2>1. local \in Call /\ local.phase = "write" /\ local.kind = call[r].kind
      BY <1>1, <1>2 DEF Call
    <2>2. Moves(r, local)
      BY <1>12 DEF UpdateSelect, TypeOK
    <2> HIDE DEF local
    <2>3. KindOK(local)
      BY <1>1, <1>12, <2>1 DEF UpdateSelect, KindOK
    <2>4. call' \in [Requests -> Call] /\ KindsOK'
      BY <2>1, <2>2, <2>3, MovedTypes
    <2> QED BY <1>12, <2>4 DEF UpdateSelect, TypeOK, Call
  <1>13. ASSUME NEW r \in Requests, UpdateWrite(r) PROVE TypeOK' /\ KindsOK'
    <2>1. row' \in Row
      BY <1>1, <1>13, MergedRow DEF UpdateWrite
    <2>2. call' \in [Requests -> Call] /\ KindsOK'
      <3>1. CASE call[r].kind \in {"clear", "model"}
        BY <1>6, <1>13, <3>1 DEF UpdateWrite
      <3>2. CASE call[r].kind = "ban"
        <4> DEFINE local == [call[r] EXCEPT !.phase = "select", !.kind = "disable"]
        <4>1. local \in Call /\ local.phase = "select" /\ local.kind = "disable"
          BY <1>1, <1>2 DEF Call
        <4>2. Moves(r, local)
          BY <1>13, <3>2 DEF UpdateWrite
        <4> HIDE DEF local
        <4> QED BY <4>1, <4>2, MovedTypes DEF KindOK
      <3>3. CASE call[r].kind \notin {"clear", "model", "ban"}
        <4> DEFINE local == [call[r] EXCEPT !.phase = "close"]
        <4>1. local \in Call /\ local.phase = "close" /\ local.kind = call[r].kind
          BY <1>1, <1>2 DEF Call
        <4>2. Moves(r, local)
          BY <1>13, <3>3 DEF UpdateWrite
        <4> HIDE DEF local
        <4>3. KindOK(local)
          BY <1>1, <1>13, <4>1 DEF UpdateWrite, KindOK
        <4> QED BY <4>1, <4>2, <4>3, MovedTypes
      <3> QED BY <3>1, <3>2, <3>3
    <2> QED BY <1>13, <2>1, <2>2 DEF UpdateWrite, TypeOK, Call
  <1>14. ASSUME NEW r \in Requests, MarkClose(r) \/ DatabaseThrows(r) PROVE TypeOK' /\ KindsOK'
    BY <1>6, <1>14, FinallyTypes DEF MarkClose, DatabaseThrows, TypeOK, Call
  <1>15. ASSUME NEW r \in Requests, RecoveryTick(r) PROVE TypeOK' /\ KindsOK'
    BY <1>5, <1>15 DEF RecoveryTick, TypeOK, Call
  <1>16. ASSUME NEW r \in Requests, QuotaSnapshot(r) PROVE TypeOK' /\ KindsOK'
    BY <1>1, <1>4, <1>16 DEF QuotaSnapshot, TypeOK, Call
  <1>17. ASSUME NEW r \in Requests, QuotaClear(r) PROVE TypeOK' /\ KindsOK'
    <2>1. [Idle.view EXCEPT !.active = row.active] \in Row
      BY <1>1 DEF Row
    <2> QED BY <1>1, <1>6, <1>17, <2>1 DEF QuotaClear, TypeOK, Call
  <1>18. ASSUME NEW r \in Requests, ResetConnectionBackoff(r) PROVE TypeOK' /\ KindsOK'
    <2>1. [row EXCEPT !.level = 0, !.status = "active", !.errorAt = 0] \in Row
      BY <1>1, CallTypes DEF Row
    <2> QED BY <1>18, <2>1 DEF ResetConnectionBackoff, TypeOK, KindsOK
  <1>19. ASSUME NEW m, Expire(m) PROVE TypeOK' /\ KindsOK'
    BY <1>19 DEF Expire, TypeOK, KindsOK
  <1> QED BY <1>7, <1>8, <1>9, <1>10, <1>11, <1>12, <1>13, <1>14, <1>15, <1>16, <1>17, <1>18,
             <1>19, FailuresAssumption DEF Next, MarkStep
-----------------------------------------------------------------------------
(* A call moves and the map and the chain stay: if it holds or awaits the mutex
   it goes on doing so. *)
LEMMA MutexKept ==
    ASSUME TypeOK, MutexEntriesLive, NEW r \in Requests, NEW local, Moves(r, local),
           UNCHANGED <<tail, prev>>,
           InMark(r) => /\ local.phase \in MarkPhases
                        /\ \/ local.kind \in (Kinds \cup {"disable"}) \ {"model"}
                           \/ local.phase \in {"wait", "read"}
    PROVE  MutexEntriesLive'
  <1>1. \A s \in Requests : InMark(s) => InMark(s)'
    BY MovesOne DEF InMark
  <1> QED BY <1>1 DEF MutexEntriesLive, TypeOK

(* A call leaves through the finally block. *)
LEMMA MutexLeft ==
    ASSUME TypeOK, MutexEntriesLive, NEW r \in Requests, NEW local, Moves(r, local), Finally(r)
    PROVE  MutexEntriesLive'
  <1>1. \A s \in Requests : s # r /\ InMark(s) => InMark(s)'
    BY MovesOne DEF InMark
  <1>2. tail' = None
    BY DEF Finally
  <1>3. \A s \in Requests : prev'[s] # None => prev'[s] = prev[s] /\ prev[s] # r
    BY DEF Finally
  <1> QED BY <1>1, <1>2, <1>3 DEF MutexEntriesLive, TypeOK

(* Every step keeps the entries of the map alive. *)
LEMMA MutexStep ==
    ASSUME TypeOK, KindsOK, MutexEntriesLive, Next
    PROVE  MutexEntriesLive'
  <1>1. \A r \in Requests : call[r] \in Call /\ KindOK(call[r])
    BY CallTypes DEF KindsOK
  <1> USE DEF Moves
  <1>2. ASSUME NEW r \in Requests,
               SelectConnection(r) \/ Succeed(r) \/ RecoveryTick(r) \/ QuotaSnapshot(r)
               \/ QuotaClear(r)
        PROVE  MutexEntriesLive'
    <2>1. ~InMark(r)
      BY <1>2 DEF SelectConnection, Succeed, RecoveryTick, QuotaSnapshot, QuotaClear, InMark,
                  MarkPhases
    <2>2. \E local : Moves(r, local) /\ UNCHANGED <<tail, prev>>
      BY <1>2 DEF SelectConnection, Succeed, RecoveryTick, QuotaSnapshot, QuotaClear
    <2> QED BY <2>1, <2>2, MutexKept
  <1>3. ASSUME NEW r \in Requests, NEW kind \in Kinds, MarkEnter(r, kind) PROVE MutexEntriesLive'
    <2> DEFINE local == [Idle EXCEPT !.phase = "wait", !.kind = kind, !.at = marks + 1]
    <2>1. local.phase = "wait" /\ Moves(r, local)
      BY <1>3 DEF MarkEnter, Idle
    <2> HIDE DEF local
    <2>2. ~InMark(r) /\ InMark(r)'
      BY <1>3, <2>1, MovesOne DEF MarkEnter, InMark, MarkPhases
    <2>3. \A s \in Requests : InMark(s) => InMark(s)'
      BY <2>1, <2>2, MovesOne DEF InMark
    <2>4. tail' = r /\ \A s \in Requests : prev'[s] = prev[s] \/ prev'[s] = tail
      BY <1>3 DEF MarkEnter, TypeOK
    <2> QED BY <2>2, <2>3, <2>4 DEF MutexEntriesLive, TypeOK
  <1>4. ASSUME NEW r \in Requests, MarkStart(r) PROVE MutexEntriesLive'
    <2>1. CASE call[r].kind = "bypass"
      BY <1>4, <2>1, MutexLeft DEF MarkStart
    <2>2. CASE call[r].kind # "bypass"
      <3> DEFINE local == [call[r] EXCEPT !.phase = "read"]
      <3>1. local.phase = "read"
        BY <1>1 DEF Call
      <3>2. Moves(r, local) /\ UNCHANGED <<tail, prev>>
        BY <1>4, <2>2 DEF MarkStart
      <3> HIDE DEF local
      <3> QED BY <3>1, <3>2, MutexKept DEF MarkPhases
    <2> QED BY <2>1, <2>2
  <1>5. ASSUME NEW r \in Requests, MarkRead(r) PROVE MutexEntriesLive'
    <2> DEFINE skip == Terminal(row) \/ Cooling(row) \/ call[r].kind = "refuse"
               local == [call[r] EXCEPT !.phase = "select",
                                        !.level = NextLevel(call[r].kind, row.level)]
    <2>1. local.phase = "select" /\ local.kind = call[r].kind
      BY <1>1 DEF Call
    <2>2. Moves(r, IF skip THEN Idle ELSE local)
      BY <1>5 DEF MarkRead
    <2> HIDE DEF local
    <2>3. CASE skip \/ call[r].kind = "model"
      <3>1. Finally(r)
        BY <1>5, <2>3 DEF MarkRead
      <3> QED BY <2>2, <3>1, MutexLeft
    <2>4. CASE ~(skip \/ call[r].kind = "model")
      <3>1. UNCHANGED <<tail, prev>> /\ call[r].phase = "read"
        BY <1>5, <2>4 DEF MarkRead
      <3>2. call[r].kind \in Kinds \ {"model"}
        BY <1>1, <2>4, <3>1 DEF KindOK
      <3> HIDE DEF skip
      <3> QED BY <2>1, <2>2, <2>4, <3>1, <3>2, MutexKept DEF MarkPhases
    <2> QED BY <2>3, <2>4
  <1>6. ASSUME NEW r \in Requests, UpdateSelect(r) PROVE MutexEntriesLive'
    <2> DEFINE local == [call[r] EXCEPT !.phase = "write", !.view = row]
    <2>1. local.phase = "write" /\ local.kind = call[r].kind
      BY <1>1 DEF Call
    <2>2. Moves(r, local) /\ UNCHANGED <<tail, prev>> /\ call[r].phase = "select"
      BY <1>6 DEF UpdateSelect, TypeOK
    <2> HIDE DEF local
    <2> QED BY <2>1, <2>2, MutexKept DEF MarkPhases, InMark
  <1>7. ASSUME NEW r \in Requests, UpdateWrite(r) PROVE MutexEntriesLive'
    <2>1. UNCHANGED <<tail, prev>> /\ call[r].phase = "write"
      BY <1>7 DEF UpdateWrite
    <2>2. CASE call[r].kind \in {"clear", "model"}
      <3>1. ~InMark(r)
        BY <2>1, <2>2 DEF InMark, Kinds
      <3> QED BY <1>7, <2>1, <2>2, <3>1, MutexKept DEF UpdateWrite
    <2>3. CASE call[r].kind = "ban"
      <3> DEFINE local == [call[r] EXCEPT !.phase = "select", !.kind = "disable"]
      <3>1. local.phase = "select" /\ local.kind = "disable"
        BY <1>1 DEF Call
      <3>2. Moves(r, local)
        BY <1>7, <2>3 DEF UpdateWrite
      <3> HIDE DEF local
      <3> QED BY <2>1, <3>1, <3>2, MutexKept DEF MarkPhases
    <2>4. CASE call[r].kind \notin {"clear", "model", "ban"}
      <3> DEFINE local == [call[r] EXCEPT !.phase = "close"]
      <3>1. local.phase = "close" /\ local.kind = call[r].kind
        BY <1>1 DEF Call
      <3>2. Moves(r, local)
        BY <1>7, <2>4 DEF UpdateWrite
      <3> HIDE DEF local
      <3> QED BY <2>1, <3>1, <3>2, MutexKept DEF MarkPhases, InMark
    <2> QED BY <2>2, <2>3, <2>4
  <1>8. ASSUME NEW r \in Requests, MarkClose(r) \/ DatabaseThrows(r) PROVE MutexEntriesLive'
    <2>1. CASE Finally(r)
      BY <1>8, <2>1, MutexLeft DEF MarkClose, DatabaseThrows
    <2>2. CASE DatabaseThrows(r) /\ ~InMark(r)
      BY <2>2, MutexKept DEF DatabaseThrows
    <2> QED BY <1>8, <2>1, <2>2 DEF MarkClose, DatabaseThrows
  <1>9. ASSUME NEW r, ResetConnectionBackoff(r) \/ Expire(r) PROVE MutexEntriesLive'
    BY <1>9 DEF ResetConnectionBackoff, Expire, MutexEntriesLive, InMark
  <1> QED BY <1>2, <1>3, <1>4, <1>5, <1>6, <1>7, <1>8, <1>9, FailuresAssumption
          DEF Next, MarkStep

-----------------------------------------------------------------------------
(* A copy of a row keeps what the stamps compare. *)
Like(v, w) == v.errorAt = w.errorAt /\ v.level = w.level
Blank(v) == v.errorAt = 0 /\ v.level = 0

(* Rows are rows, with numbers in them. *)
LEMMA RowsTyped ==
    ASSUME TypeOK
    PROVE  \A v \in Rows : v \in Row /\ v.errorAt \in Nat
  <1>1. \A v \in Rows : v \in Row
    BY CallTypes DEF Rows, TypeOK
  <1> QED BY <1>1, CallTypes DEF Row

(* A step whose rows are copies of rows there were, or blank, and that starts no
   failure. *)
LEMMA StampsKept ==
    ASSUME TypeOK, Stamps, marks' = marks,
           \A v \in Rows' : Blank(v) \/ \E w \in Rows : Like(v, w),
           \A r \in Requests : Unstamped(call'[r]) => Unstamped(call[r]) /\ call'[r].at = call[r].at
    PROVE  Stamps'
  <1>1. marks \in Nat
    BY CallTypes
  <1>2. \A v \in Rows' : v.errorAt <= marks /\ (v.errorAt = 0 => v.level = 0)
    BY <1>1 DEF Stamps, Blank, Like
  <1>3. \A v, w \in Rows' : v.errorAt = w.errorAt => v.level = w.level
    BY DEF Stamps, Blank, Like
  <1>4. \A r \in Requests : Unstamped(call'[r]) =>
          call'[r].at \in 1 .. marks /\ \A v \in Rows' : v.errorAt # call'[r].at
    BY DEF Stamps, Blank, Like
  <1>5. \A r, s \in Requests :
          Unstamped(call'[r]) /\ Unstamped(call'[s]) /\ call'[r].at = call'[s].at => r = s
    BY DEF Stamps
  <1> QED BY <1>2, <1>3, <1>4, <1>5 DEF Stamps

(* The rows there are once one call alone has moved. *)
LEMMA RowsMoved ==
    ASSUME TypeOK, NEW r \in Requests, NEW local, Moves(r, local)
    PROVE  \A v \in Rows' : v = row' \/ v = local.view \/ v \in Rows
  BY MovesOne DEF Rows

(* A call moves, with a copy of a row or a blank one, and writes no time. *)
LEMMA StampsMoved ==
    ASSUME TypeOK, Stamps, NEW r \in Requests, NEW local, Moves(r, local), marks' = marks,
           Blank(row') \/ \E w \in Rows : Like(row', w),
           Blank(local.view) \/ \E w \in Rows : Like(local.view, w),
           Unstamped(local) => Unstamped(call[r]) /\ local.at = call[r].at
    PROVE  Stamps'
  <1>1. \A v \in Rows' : Blank(v) \/ \E w \in Rows : Like(v, w)
    BY RowsMoved DEF Like
  <1>2. \A s \in Requests : Unstamped(call'[s]) => Unstamped(call[s]) /\ call'[s].at = call[s].at
    BY MovesOne
  <1> QED BY <1>1, <1>2, StampsKept

(* Every step keeps the stamps: a level is only written with the time of the
   failure it comes from, with a copy of a whole row, or as 0 with no time. *)
LEMMA StampsStep ==
    ASSUME TypeOK, KindsOK, Stamps, Next
    PROVE  Stamps'
  <1>1. \A r \in Requests : call[r] \in Call /\ KindOK(call[r])
    BY CallTypes DEF KindsOK
  <1>2. row \in Rows /\ \A r \in Requests : call[r].view \in Rows
    BY DEF Rows
  <1>3. Idle.phase = "idle" /\ Idle.kind = "clear" /\ Blank(Idle.view) /\ Idle \in Call
    BY CallTypes DEF Idle, Blank
  <1> USE DEF Moves
  <1>4. ASSUME NEW r \in Requests, Moves(r, Idle), UNCHANGED <<row, marks>> PROVE Stamps'
    <2>1. ~Unstamped(Idle)
      BY <1>3 DEF Unstamped
    <2> QED BY <1>2, <1>3, <1>4, <2>1, StampsMoved DEF Like
  <1>5. ASSUME NEW r \in Requests, NEW phase, Moves(r, [Idle EXCEPT !.phase = phase]),
               UNCHANGED <<row, marks>>
        PROVE  Stamps'
    <2> DEFINE local == [Idle EXCEPT !.phase = phase]
    <2>1. local.kind = "clear" /\ Blank(local.view)
      BY <1>3 DEF Call
    <2> HIDE DEF local
    <2>2. ~Unstamped(local)
      BY <2>1 DEF Unstamped
    <2> QED BY <1>2, <1>5, <2>1, <2>2, StampsMoved DEF Like, local
  <1>6. ASSUME NEW r \in Requests, NEW phase, Moves(r, [Idle EXCEPT !.phase = phase, !.view = row]),
               UNCHANGED <<row, marks>>
        PROVE  Stamps'
    <2> DEFINE local == [Idle EXCEPT !.phase = phase, !.view = row]
    <2>1. local.kind = "clear" /\ local.view = row
      BY <1>3 DEF Call
    <2> HIDE DEF local
    <2>2. ~Unstamped(local)
      BY <2>1 DEF Unstamped
    <2> QED BY <1>2, <1>6, <2>1, <2>2, StampsMoved DEF Like, local
  <1>7. ASSUME NEW r \in Requests, SelectConnection(r) \/ QuotaSnapshot(r) PROVE Stamps'
    BY <1>6, <1>7 DEF SelectConnection, QuotaSnapshot
  <1>8. ASSUME NEW r \in Requests, Succeed(r) \/ RecoveryTick(r) PROVE Stamps'
    BY <1>4, <1>5, <1>8 DEF Succeed, RecoveryTick
  <1>9. ASSUME NEW r \in Requests, NEW kind \in Kinds, MarkEnter(r, kind) PROVE Stamps'
    <2> DEFINE local == [Idle EXCEPT !.phase = "wait", !.kind = kind, !.at = marks + 1]
    <2>1. Moves(r, local) /\ marks' = marks + 1 /\ row' = row /\ marks \in Nat
      BY <1>9, CallTypes DEF MarkEnter
    <2>2. local.at = marks + 1 /\ Blank(local.view)
      BY <1>3 DEF Call
    <2> HIDE DEF local
    <2>3. \A v \in Rows' : Blank(v) \/ v \in Rows
      BY <1>2, <2>1, <2>2, RowsMoved
    <2>4. \A v \in Rows : v.errorAt \in Nat /\ v.errorAt <= marks
      BY RowsTyped DEF Stamps
    <2>5. \A v \in Rows' : v.errorAt \in Nat /\ v.errorAt <= marks /\ (v.errorAt = 0 => v.level = 0)
      BY <2>1, <2>3, <2>4 DEF Stamps, Blank
    <2>6. \A v, w \in Rows' : v.errorAt = w.errorAt => v.level = w.level
      BY <2>3 DEF Stamps, Blank
    <2>7. \A s \in Requests : s # r /\ Unstamped(call'[s]) =>
            /\ call'[s] = call[s] /\ call[s].at \in 1 .. marks
            /\ \A v \in Rows' : v.errorAt # call[s].at
      BY <2>1, <2>3, MovesOne DEF Stamps, Blank
    <2>8. call'[r].at = marks + 1
      BY <2>1, <2>2, MovesOne
    <2>9. ASSUME NEW s \in Requests, Unstamped(call'[s])
          PROVE  call'[s].at \in 1 .. marks + 1 /\ \A v \in Rows' : v.errorAt # call'[s].at
      <3>1. CASE s = r
        BY <2>1, <2>5, <2>8, <3>1
      <3>2. CASE s # r
        BY <2>1, <2>7, <2>9, <3>2
      <3> QED BY <3>1, <3>2
    <2>10. ASSUME NEW s \in Requests, NEW t \in Requests, Unstamped(call'[s]),
                  Unstamped(call'[t]), call'[s].at = call'[t].at
           PROVE  s = t
      <3>1. CASE s = r /\ t # r
        BY <2>1, <2>7, <2>8, <2>10, <3>1
      <3>2. CASE s # r /\ t = r
        BY <2>1, <2>7, <2>8, <2>10, <3>2
      <3>3. CASE s # r /\ t # r
        BY <2>7, <2>10, <3>3 DEF Stamps
      <3> QED BY <3>1, <3>2, <3>3
    <2>11. \A v \in Rows' : v.errorAt <= marks'
      BY <2>1, <2>5
    <2> QED BY <2>1, <2>5, <2>6, <2>9, <2>10, <2>11 DEF Stamps
  <1>10. ASSUME NEW r \in Requests, MarkStart(r) PROVE Stamps'
    <2>1. CASE call[r].kind = "bypass"
      BY <1>4, <1>10, <2>1 DEF MarkStart
    <2>2. CASE call[r].kind # "bypass"
      <3> DEFINE local == [call[r] EXCEPT !.phase = "read"]
      <3>1. local.kind = call[r].kind /\ local.at = call[r].at /\ local.view = call[r].view
        BY <1>1 DEF Call
      <3>2. Moves(r, local) /\ call[r].phase = "wait" /\ UNCHANGED <<row, marks>>
        BY <1>10, <2>2 DEF MarkStart
      <3> HIDE DEF local
      <3>3. Unstamped(local) => Unstamped(call[r])
        BY <3>1, <3>2 DEF Unstamped
      <3> QED BY <1>2, <3>1, <3>2, <3>3, StampsMoved DEF Like
    <2> QED BY <2>1, <2>2
  <1>11. ASSUME NEW r \in Requests, MarkRead(r) PROVE Stamps'
    <2> DEFINE skip == Terminal(row) \/ Cooling(row) \/ call[r].kind = "refuse"
               local == [call[r] EXCEPT !.phase = "select",
                                        !.level = NextLevel(call[r].kind, row.level)]
    <2>1. local.kind = call[r].kind /\ local.at = call[r].at /\ local.view = call[r].view
      BY <1>1 DEF Call
    <2>2. Moves(r, IF skip THEN Idle ELSE local) /\ call[r].phase = "read" /\ UNCHANGED <<row, marks>>
      BY <1>11 DEF MarkRead
    <2> HIDE DEF local, skip
    <2>3. Unstamped(local) => Unstamped(call[r])
      BY <2>1, <2>2 DEF Unstamped
    <2>4. CASE skip
      BY <1>4, <2>2, <2>4
    <2>5. CASE ~skip
      BY <1>2, <2>1, <2>2, <2>3, <2>5, StampsMoved DEF Like
    <2> QED BY <2>4, <2>5
  <1>12. ASSUME NEW r \in Requests, UpdateSelect(r) PROVE Stamps'
    <2> DEFINE local == [call[r] EXCEPT !.phase = "write", !.view = row]
    <2>1. local.kind = call[r].kind /\ local.at = call[r].at /\ local.view = row
      BY <1>1 DEF Call
    <2>2. Moves(r, local) /\ UNCHANGED <<row, marks>> /\ call[r].phase = "select"
      BY <1>12 DEF UpdateSelect, TypeOK
    <2> HIDE DEF local
    <2>3. Unstamped(local) => Unstamped(call[r])
      BY <2>1, <2>2 DEF Unstamped
    <2> QED BY <1>2, <2>1, <2>2, <2>3, StampsMoved DEF Like
  <1>13. ASSUME NEW r \in Requests, UpdateWrite(r) PROVE Stamps'
    <2>1. /\ row' = Merged(call[r]) /\ call[r].phase = "write" /\ marks' = marks
      BY <1>13 DEF UpdateWrite
    <2>2. PICK local : /\ Moves(r, local) /\ ~Unstamped(local)
                       /\ local.view = call[r].view \/ Blank(local.view)
      <3>1. CASE call[r].kind \in {"clear", "model"}
        <4>1. Moves(r, Idle)
          BY <1>13, <3>1 DEF UpdateWrite
        <4> QED BY <1>3, <4>1 DEF Unstamped
      <3>2. CASE call[r].kind = "ban"
        <4> DEFINE local == [call[r] EXCEPT !.phase = "select", !.kind = "disable"]
        <4>1. Moves(r, local)
          BY <1>13, <3>2 DEF UpdateWrite
        <4>2. local.kind = "disable" /\ local.view = call[r].view
          BY <1>1 DEF Call
        <4> HIDE DEF local
        <4> QED BY <4>1, <4>2 DEF Unstamped
      <3>3. CASE call[r].kind \notin {"clear", "model", "ban"}
        <4> DEFINE local == [call[r] EXCEPT !.phase = "close"]
        <4>1. Moves(r, local)
          BY <1>13, <3>3 DEF UpdateWrite
        <4>2. local.phase = "close" /\ local.view = call[r].view
          BY <1>1 DEF Call
        <4> HIDE DEF local
        <4> QED BY <4>1, <4>2 DEF Unstamped
      <3> QED BY <3>1, <3>2, <3>3
    <2>3. CASE call[r].kind \in {"clear", "disable"}
      <3>1. Blank(row') \/ Like(row', call[r].view)
        BY <1>1, <2>1, <2>3, MergedRow DEF Blank, Like
      <3>2. Blank(local.view) \/ Like(local.view, call[r].view)
        BY <2>2 DEF Like
      <3> QED BY <1>2, <2>1, <2>2, <3>1, <3>2, StampsMoved
    <2>4. CASE call[r].kind \notin {"clear", "disable"}
      <3>1. row'.errorAt = call[r].at /\ Unstamped(call[r])
        BY <1>1, <2>1, <2>4, MergedRow DEF Unstamped
      <3>2. call[r].at \in 1 .. marks /\ marks \in Nat /\ \A v \in Rows : v.errorAt # call[r].at
        BY <3>1, CallTypes DEF Stamps
      <3>3. \A v \in Rows' : v = row' \/ v \in Rows \/ Blank(v)
        BY <1>2, <2>2, RowsMoved
      <3>4. \A s \in Requests : Unstamped(call'[s]) => s # r /\ call'[s] = call[s]
        BY <2>2, MovesOne
      <3>5. \A v \in Rows' : v.errorAt <= marks /\ (v.errorAt = 0 => v.level = 0)
        BY <3>1, <3>2, <3>3 DEF Stamps, Blank
      <3>6. \A v, w \in Rows' : v.errorAt = w.errorAt => v.level = w.level
        BY <3>1, <3>2, <3>3 DEF Stamps, Blank
      <3>7. \A s \in Requests : Unstamped(call'[s]) =>
              call'[s].at \in 1 .. marks /\ \A v \in Rows' : v.errorAt # call'[s].at
        BY <3>1, <3>2, <3>3, <3>4 DEF Stamps, Blank
      <3>8. \A s, t \in Requests :
              Unstamped(call'[s]) /\ Unstamped(call'[t]) /\ call'[s].at = call'[t].at => s = t
        BY <3>4 DEF Stamps
      <3> QED BY <2>1, <3>5, <3>6, <3>7, <3>8 DEF Stamps
    <2> QED BY <2>3, <2>4
  <1>14. ASSUME NEW r \in Requests, MarkClose(r) \/ DatabaseThrows(r) PROVE Stamps'
    BY <1>4, <1>14 DEF MarkClose, DatabaseThrows
  <1>15. ASSUME NEW r \in Requests, QuotaClear(r) PROVE Stamps'
    <2>1. Moves(r, Idle) /\ marks' = marks
      BY <1>15 DEF QuotaClear
    <2>2. Blank(row') \/ row' = row
      BY <1>15 DEF QuotaClear, Blank, Idle
    <2>3. ~Unstamped(Idle)
      BY <1>3 DEF Unstamped
    <2> QED BY <1>2, <1>3, <2>1, <2>2, <2>3, StampsMoved DEF Like
  <1>16. ASSUME NEW r \in Requests, ResetConnectionBackoff(r) PROVE Stamps'
    <2>1. Blank(row') /\ call' = call /\ marks' = marks
      BY <1>16 DEF ResetConnectionBackoff, Blank, TypeOK, Row
    <2>2. \A v \in Rows' : Blank(v) \/ v \in Rows
      BY <2>1 DEF Rows
    <2> QED BY <2>1, <2>2, StampsKept DEF Like
  <1>17. ASSUME NEW m, Expire(m) PROVE Stamps'
    BY <1>17 DEF Expire, Stamps, Rows
  <1> QED BY <1>7, <1>8, <1>9, <1>10, <1>11, <1>12, <1>13, <1>14, <1>15, <1>16, <1>17,
             FailuresAssumption DEF Next, MarkStep

-----------------------------------------------------------------------------
(* The invariant holds in the initial state. *)
LEMMA InvInit ==
    ASSUME Init
    PROVE  Inv
  <1>1. 0 \in Times /\ 0 \in 0 .. MaxBackoff
    BY BoundsAssumption DEF Times
  <1>2. Idle.view \in Row
    BY <1>1 DEF Idle, Row
  <1>3. Idle \in Call
    BY <1>1, <1>2 DEF Idle, Call
  <1>4. TypeOK
    BY <1>1, <1>2, <1>3 DEF Init, TypeOK, Call
  <1>5. \A r \in Requests : call[r] = Idle
    BY DEF Init
  <1>6. Idle.phase = "idle" /\ Idle.view.errorAt = 0 /\ Idle.view.level = 0
    BY DEF Idle
  <1>7. KindsOK
    BY <1>5, <1>6 DEF KindsOK, KindOK
  <1>8. MutexEntriesLive
    BY DEF Init, MutexEntriesLive
  <1>9. \A v \in Rows : v = Idle.view
    BY <1>5 DEF Rows, Init
  <1>10. \A r \in Requests : ~Unstamped(call[r])
    BY <1>5, <1>6 DEF Unstamped
  <1>11. marks = 0
    BY DEF Init
  <1>12. Stamps
    BY <1>6, <1>9, <1>10, <1>11 DEF Stamps
  <1> QED BY <1>4, <1>7, <1>8, <1>12 DEF Inv

(* The invariant is kept by every step. *)
LEMMA InvStep ==
    ASSUME Inv, [Next]_vars
    PROVE  Inv'
  <1>1. CASE Next
    BY <1>1, TypesStep, MutexStep, StampsStep DEF Inv
  <1>2. CASE UNCHANGED vars
    BY <1>2 DEF vars, Inv, TypeOK, KindsOK, MutexEntriesLive, InMark, Stamps, Rows
  <1> QED BY <1>1, <1>2

(* The invariant holds always. *)
THEOREM Invariance == Spec => []Inv
  <1>1. Init => Inv
    BY InvInit
  <1>2. Inv /\ [Next]_vars => Inv'
    BY InvStep
  <1> QED BY <1>1, <1>2, PTL DEF Spec

(* Types; in particular the backoff level of markAccountUnavailable() never passes
   its cap, whatever stale copies are written back. *)
THEOREM TypeCorrect == Spec => []TypeOK
  <1>1. Inv => TypeOK
    BY DEF Inv
  <1> QED BY <1>1, Invariance, PTL

(* The mutex map and the chain of promises name only calls of
   markAccountUnavailable() that have not returned, although the finally block
   deletes whatever entry the map holds. *)
THEOREM MutexEntriesLiveHolds == Spec => []MutexEntriesLive
  <1>1. Inv => MutexEntriesLive
    BY DEF Inv
  <1> QED BY <1>1, Invariance, PTL

(* When clearConnectionErrorIfUnchanged() clears the row, the whole error state of
   the row is the one its caller saw: lastErrorAt stands for the backoff level,
   which is not compared. *)
THEOREM QuotaClearSeesAllHolds == Spec => QuotaClearSeesAll
  <1> DEFINE A == \A r \in Requests :
                    (call[r].phase = "quota" /\ call'[r].phase = "idle" /\ row' # row) =>
                      [row EXCEPT !.active = call[r].view.active] = call[r].view
  <1>1. Inv /\ [Next]_vars => [A]_vars
    <2> SUFFICES ASSUME Inv, Next, NEW r \in Requests, call[r].phase = "quota",
                        call'[r].phase = "idle", row' # row
                 PROVE  [row EXCEPT !.active = call[r].view.active] = call[r].view
      OBVIOUS
    <2>1. TypeOK /\ Stamps
      BY DEF Inv
    <2>2. row \in Row /\ call[r].view \in Row /\ row \in Rows /\ call[r].view \in Rows
      BY <2>1, CallTypes DEF TypeOK, Rows
    <2>3. ASSUME NEW s \in Requests, UpdateWrite(s) PROVE FALSE
      <3>1. s # r /\ \E local : Moves(s, local)
        BY <2>3 DEF UpdateWrite, Moves
      <3> QED BY <2>1, <3>1, MovesOne
    <2>4. ASSUME NEW s \in Requests, ResetConnectionBackoff(s) PROVE FALSE
      BY <2>4 DEF ResetConnectionBackoff
    <2>5. \E s \in Requests : QuotaClear(s)
      BY <2>3, <2>4 DEF Next, MarkStep, SelectConnection, Succeed, MarkEnter, MarkStart, MarkRead,
            UpdateSelect, MarkClose, DatabaseThrows, RecoveryTick, QuotaSnapshot, Expire
    <2>6. QuotaClear(r)
      <3>1. PICK s \in Requests : QuotaClear(s)
        BY <2>5
      <3>2. Moves(s, Idle)
        BY <3>1 DEF QuotaClear, Moves
      <3>3. s = r
        BY <2>1, <3>2, MovesOne
      <3> QED BY <3>1, <3>3
    <2>7. Token(row) = Token(call[r].view)
      BY <2>6 DEF QuotaClear
    <2>8. /\ row.status = call[r].view.status /\ row.errorAt = call[r].view.errorAt
          /\ row.until = call[r].view.until
      BY <2>7 DEF Token
    <2>9. row.level = call[r].view.level
      BY <2>1, <2>2, <2>8 DEF Stamps
    <2> QED BY <2>2, <2>8, <2>9 DEF Row
  <1>2. Spec => [][A]_vars
    BY <1>1, Invariance, PTL DEF Spec
  <1> QED BY <1>2 DEF QuotaClearSeesAll

(* A terminal connection without calls under way stays terminal: neither the
   selection, the recovery tick, the quota recovery nor the backoff decay starts
   on one. *)
THEOREM TerminalRestsHolds == Spec => TerminalRests
  <1> DEFINE Q == Terminal(row) /\ AtRest
  <1>1. Q /\ [Next]_vars => Q'
    <2> SUFFICES ASSUME Q, [Next]_vars PROVE Q'
      OBVIOUS
    <2>1. CASE UNCHANGED vars
      BY <2>1 DEF vars, AtRest, Terminal
    <2>2. CASE \E m \in 1 .. MaxMarks : Expire(m)
      BY <2>2 DEF Expire, AtRest, Terminal
    <2>3. ASSUME NEW r \in Requests,
                 \/ SelectConnection(r) \/ Succeed(r) \/ RecoveryTick(r) \/ QuotaSnapshot(r)
                 \/ QuotaClear(r) \/ MarkStep(r) \/ ResetConnectionBackoff(r)
                 \/ \E kind \in Failures : MarkEnter(r, kind)
          PROVE  FALSE
      <3>1. call[r].phase = "idle" /\ decay = {} /\ row.status = "terminal"
        BY DEF AtRest, Terminal
      <3> QED BY <2>3, <3>1 DEF SelectConnection, Succeed, RecoveryTick, QuotaSnapshot, QuotaClear,
                MarkStep, MarkStart, MarkRead, UpdateSelect, UpdateWrite, MarkClose, DatabaseThrows,
                ResetConnectionBackoff, MarkEnter, Terminal
    <2> QED BY <2>1, <2>2, <2>3 DEF Next
  <1>2. Q => Terminal(row)
    OBVIOUS
  <1> QED BY <1>1, <1>2, PTL DEF Spec, TerminalRests

-----------------------------------------------------------------------------
(* A set of numbers has a least one: what induction is used for here. *)
LEMMA Least ==
    ASSUME NEW S \in SUBSET Nat, S # {}
    PROVE  \E m \in S : \A k \in S : m <= k
  <1> DEFINE R == OpToRel(<, Nat)
  <1>1. IsWellFoundedOn(R, Nat)
    BY NatLessThanWellFounded
  <1>2. \A x, y \in Nat : x < y => <<x, y>> \in R
    BY DEF OpToRel
  <1> HIDE DEF R
  <1>3. PICK m \in S : \A k \in S : ~(<<k, m>> \in R)
    BY <1>1, WFMin
  <1>4. \A k \in S : k \in Nat
    OBVIOUS
  <1>5. \A k \in S : ~(k < m)
    BY <1>2, <1>3, <1>4
  <1>6. \A k \in S : m <= k
    BY <1>4, <1>5
  <1> QED BY <1>6

(* Whoever awaits a promise came later than the call it is of. *)
Chain ==
    /\ \A r \in Requests : call[r].at <= marks
    /\ \A r \in Requests :
          prev[r] # None => call[r].phase = "wait" /\ call[prev[r]].at < call[r].at

(* A call that awaits nobody moves on, and may resolve its promise. *)
LEMMA ChainMoved ==
    ASSUME TypeOK, Chain, NEW r \in Requests, NEW local, Moves(r, local),
           local.at \in Nat, local.at <= call[r].at, prev[r] = None, marks' = marks,
           \A s \in Requests : prev'[s] = prev[s] \/ prev'[s] = None
    PROVE  Chain'
  <1>1. \A s \in Requests : call[s].at \in Nat /\ call'[s].at \in Nat /\ marks \in Nat
    BY CallTypes, MovesOne DEF Call
  <1>2. \A s \in Requests : call'[s].at <= call[s].at
    BY <1>1, MovesOne
  <1>3. \A s \in Requests : call'[s].at <= marks'
    BY <1>1, <1>2 DEF Chain
  <1>4. ASSUME NEW s \in Requests, prev'[s] # None
        PROVE  call'[s].phase = "wait" /\ call'[prev'[s]].at < call'[s].at
    <2>1. /\ prev'[s] = prev[s] /\ prev[s] \in Requests /\ s # r
          /\ call[s].phase = "wait" /\ call[prev[s]].at < call[s].at
      BY <1>4 DEF Chain, TypeOK
    <2>2. call'[s] = call[s]
      BY <2>1, MovesOne
    <2> QED BY <1>1, <1>2, <2>1, <2>2
  <1> QED BY <1>3, <1>4 DEF Chain

(* Every step keeps the order of the waits. *)
LEMMA ChainStep ==
    ASSUME TypeOK, KindsOK, MutexEntriesLive, Chain, Next
    PROVE  Chain'
  <1>1. /\ \A r \in Requests : call[r] \in Call /\ call[r].at \in Nat
        /\ Idle \in Call /\ Idle.at = 0 /\ marks \in Nat
    BY CallTypes DEF Call, Idle
  <1>2. \A r \in Requests : call[r].phase # "wait" => prev[r] = None
    BY DEF Chain
  <1>3. \A r \in Requests : Finally(r) \/ UNCHANGED <<tail, prev>> =>
            \A s \in Requests : prev'[s] = prev[s] \/ prev'[s] = None
    BY DEF Finally
  <1> USE DEF Moves
  <1>4. ASSUME NEW r \in Requests, NEW local, Moves(r, local), marks' = marks,
               local.at = 0 \/ local.at = call[r].at, prev[r] = None,
               Finally(r) \/ UNCHANGED <<tail, prev>>
        PROVE  Chain'
    <2>1. local.at \in Nat /\ local.at <= call[r].at
      BY <1>1, <1>4
    <2> QED BY <1>3, <1>4, <2>1, ChainMoved
  <1>5. ASSUME NEW r \in Requests,
               SelectConnection(r) \/ Succeed(r) \/ RecoveryTick(r) \/ QuotaSnapshot(r)
               \/ QuotaClear(r)
        PROVE  Chain'
    <2>1. PICK local \in {Idle, [Idle EXCEPT !.phase = "select"],
                          [Idle EXCEPT !.phase = "flying", !.view = row],
                          [Idle EXCEPT !.phase = "quota", !.view = row]} : Moves(r, local)
      BY <1>5 DEF SelectConnection, Succeed, RecoveryTick, QuotaSnapshot, QuotaClear
    <2>2. local.at = 0
      <3>1. /\ [Idle EXCEPT !.phase = "select"].at = 0
            /\ [Idle EXCEPT !.phase = "flying", !.view = row].at = 0
            /\ [Idle EXCEPT !.phase = "quota", !.view = row].at = 0
        BY DEF Idle
      <3> QED BY <1>1, <2>1, <3>1, Zenon
    <2>3. prev[r] = None /\ marks' = marks /\ UNCHANGED <<tail, prev>>
      BY <1>2, <1>5 DEF SelectConnection, Succeed, RecoveryTick, QuotaSnapshot, QuotaClear
    <2> QED BY <1>4, <2>1, <2>2, <2>3
  <1>6. ASSUME NEW r \in Requests, NEW kind \in Kinds, MarkEnter(r, kind) PROVE Chain'
    <2> DEFINE local == [Idle EXCEPT !.phase = "wait", !.kind = kind, !.at = marks + 1]
    <2>1. local.phase = "wait" /\ local.at = marks + 1 /\ Moves(r, local)
      BY <1>6 DEF MarkEnter, Idle
    <2> HIDE DEF local
    <2>2. /\ marks' = marks + 1 /\ prev'[r] = tail
          /\ \A s \in Requests : s # r => prev'[s] = prev[s]
      BY <1>6 DEF MarkEnter, TypeOK
    <2>3. ~InMark(r)
      BY <1>6 DEF MarkEnter, InMark, MarkPhases
    <2>4. /\ tail # None => tail \in Requests /\ tail # r
          /\ \A s \in Requests : prev[s] # None => prev[s] \in Requests /\ prev[s] # r
      BY <2>3 DEF MutexEntriesLive, TypeOK
    <2>5. call'[r] = local /\ \A s \in Requests : s # r => call'[s] = call[s]
      BY <2>1, MovesOne
    <2>6. \A s \in Requests : call'[s].at <= marks'
      BY <1>1, <2>1, <2>2, <2>5 DEF Chain
    <2>7. ASSUME NEW s \in Requests, prev'[s] # None
          PROVE  call'[s].phase = "wait" /\ call'[prev'[s]].at < call'[s].at
      <3>1. CASE s = r
        BY <1>1, <2>1, <2>2, <2>4, <2>5, <2>7, <3>1 DEF Chain
      <3>2. CASE s # r
        BY <2>2, <2>4, <2>5, <2>7, <3>2 DEF Chain
      <3> QED BY <3>1, <3>2
    <2> QED BY <2>6, <2>7 DEF Chain
  <1>7. ASSUME NEW r \in Requests, MarkStart(r) PROVE Chain'
    <2> DEFINE local == [call[r] EXCEPT !.phase = "read"]
    <2>1. local.at = call[r].at
      BY <1>1 DEF Call
    <2>2. /\ prev[r] = None /\ marks' = marks
          /\ \/ Moves(r, Idle) /\ Finally(r)
             \/ Moves(r, local) /\ UNCHANGED <<tail, prev>>
      BY <1>7 DEF MarkStart
    <2> HIDE DEF local
    <2> QED BY <1>1, <1>4, <2>1, <2>2
  <1>8. ASSUME NEW r \in Requests, MarkRead(r) PROVE Chain'
    <2> DEFINE skip == Terminal(row) \/ Cooling(row) \/ call[r].kind = "refuse"
               local == [call[r] EXCEPT !.phase = "select",
                                        !.level = NextLevel(call[r].kind, row.level)]
    <2>1. local.at = call[r].at
      BY <1>1 DEF Call
    <2>2. Moves(r, IF skip THEN Idle ELSE local) /\ call[r].phase = "read" /\ marks' = marks
      BY <1>8 DEF MarkRead
    <2>3. Finally(r) \/ UNCHANGED <<tail, prev>>
      BY <1>8 DEF MarkRead
    <2>4. Moves(r, Idle) \/ Moves(r, local)
      BY <2>2
    <2> HIDE DEF local, skip
    <2> QED BY <1>1, <1>2, <1>4, <2>1, <2>2, <2>3, <2>4
  <1>9. ASSUME NEW r \in Requests, UpdateSelect(r) PROVE Chain'
    <2> DEFINE local == [call[r] EXCEPT !.phase = "write", !.view = row]
    <2>1. local.at = call[r].at
      BY <1>1 DEF Call
    <2>2. Moves(r, local) /\ UNCHANGED <<tail, prev, marks>> /\ call[r].phase = "select"
      BY <1>9 DEF UpdateSelect, TypeOK
    <2> HIDE DEF local
    <2> QED BY <1>2, <1>4, <2>1, <2>2
  <1>10. ASSUME NEW r \in Requests, UpdateWrite(r) PROVE Chain'
    <2> DEFINE again == [call[r] EXCEPT !.phase = "select", !.kind = "disable"]
               close == [call[r] EXCEPT !.phase = "close"]
    <2>1. again.at = call[r].at /\ close.at = call[r].at
      BY <1>1 DEF Call
    <2>2. UNCHANGED <<tail, prev, marks>> /\ call[r].phase = "write"
      BY <1>10 DEF UpdateWrite
    <2>3. CASE call[r].kind \in {"clear", "model"}
      BY <1>1, <1>2, <1>4, <1>10, <2>2, <2>3 DEF UpdateWrite
    <2>4. CASE call[r].kind = "ban"
      <3>1. Moves(r, again)
        BY <1>10, <2>4 DEF UpdateWrite
      <3> HIDE DEF again
      <3> QED BY <1>2, <1>4, <2>1, <2>2, <3>1
    <2>5. CASE call[r].kind \notin {"clear", "model", "ban"}
      <3>1. Moves(r, close)
        BY <1>10, <2>5 DEF UpdateWrite
      <3> HIDE DEF close
      <3> QED BY <1>2, <1>4, <2>1, <2>2, <3>1
    <2> QED BY <2>3, <2>4, <2>5
  <1>11. ASSUME NEW r \in Requests, MarkClose(r) \/ DatabaseThrows(r) PROVE Chain'
    BY <1>1, <1>2, <1>4, <1>11 DEF MarkClose, DatabaseThrows
  <1>12. ASSUME NEW r, ResetConnectionBackoff(r) \/ Expire(r) PROVE Chain'
    BY <1>12 DEF ResetConnectionBackoff, Expire, Chain
  <1> QED BY <1>5, <1>6, <1>7, <1>8, <1>9, <1>10, <1>11, <1>12, FailuresAssumption
          DEF Next, MarkStep

(* However many failures of a connection overlap, those that wait for the mutex never
   wait in a circle or for a call that has returned: of those that wait the first to
   arrive awaits a call that runs. *)
THEOREM NoStandstillHolds == Spec => []NoStandstill
  <1>1. Init => Chain
    BY DEF Init, Chain, Idle
  <1>2. Inv /\ Chain /\ [Next]_vars => Chain'
    <2>1. CASE UNCHANGED vars
      BY <2>1 DEF vars, Chain
    <2> QED BY <2>1, ChainStep DEF Inv
  <1>3. Inv /\ Chain => NoStandstill
    <2> SUFFICES ASSUME Inv, Chain, NEW b \in Requests, Blocked(b)
                 PROVE  \E q \in Requests : InMark(q) /\ ~Blocked(q)
      BY DEF NoStandstill
    <2> DEFINE arrivals == {call[r].at : r \in {x \in Requests : Blocked(x)}}
    <2>1. \A r \in Requests : call[r].at \in Nat
      BY CallTypes DEF Inv, Call
    <2>2. arrivals \in SUBSET Nat /\ call[b].at \in arrivals
      BY <2>1
    <2>3. PICK m \in arrivals : \A k \in arrivals : m <= k
      BY <2>2, Least
    <2>4. PICK first \in Requests : Blocked(first) /\ call[first].at = m
      BY <2>3
    <2>5. /\ prev[first] \in Requests /\ InMark(prev[first])
          /\ call[prev[first]].at < call[first].at
      BY <2>4 DEF Inv, TypeOK, MutexEntriesLive, Chain, Blocked
    <2>6. \A r \in Requests : Blocked(r) => call[first].at <= call[r].at
      BY <2>3, <2>4
    <2>7. ~Blocked(prev[first])
      BY <2>1, <2>5, <2>6
    <2> QED BY <2>5, <2>7
  <1> QED BY <1>1, <1>2, <1>3, Invariance, PTL DEF Spec
=============================================================================
