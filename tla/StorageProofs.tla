---------------------------- MODULE StorageProofs ----------------------------
(***************************************************************************)
(* Theorems about storage, for any players, houses and things, and any     *)
(* number of faults.                                                       *)
(***************************************************************************)
EXTENDS Storage, TLAPS

LEMMA IdleFacts ==
    /\ Idle.players = {} /\ Idle.step = "no" /\ Idle.good = TRUE /\ Idle.shallow = FALSE
    /\ Idle \in [players : SUBSET online, shallow : BOOLEAN, step : {"no", "players", "map", "done"}, good : BOOLEAN]
BY DEF Idle

LEMMA CommitsType ==
    ASSUME NEW ok \in BOOLEAN, Commits(ok), faults \in 0 .. MaxFaults
    PROVE  /\ faults' \in 0 .. MaxFaults
           /\ ok => faults' = faults
           /\ ~ok => faults' = faults + 1
BY StorageAssumption DEF Commits

-----------------------------------------------------------------------------
(* Types. *)

LEMMA InitTypeOK == Init => TypeOK
<1> SUFFICES ASSUME Init PROVE TypeOK
  OBVIOUS
<1>1. house \in [House -> Deed] /\ houseRow = house
  BY DEF Init, Deed
<1>2. saving \in [players : SUBSET online, shallow : BOOLEAN, step : {"no", "players", "map", "done"}, good : BOOLEAN]
  BY IdleFacts DEF Init
<1>3. faults \in 0 .. MaxFaults
  BY StorageAssumption DEF Init
<1> QED BY <1>1, <1>2, <1>3 DEF Init, TypeOK

LEMMA SetOwnerExType ==
    ASSUME TypeOK, NEW h \in House, NEW new \in Player \cup {None},
           NEW s \in [Player -> SUBSET Thing], NEW ok \in BOOLEAN, NEW stored \in BOOLEAN,
           saving' = saving, moved' \in SUBSET Thing, paid' \in SUBSET Coin,
           SetOwnerEx(h, new, s, ok, stored)
    PROVE  TypeOK'
<1>1. house' \in [House -> Deed]
  <2>1. house[h] \in Deed
    BY DEF TypeOK
  <2>2. [house[h] EXCEPT !.owner = new] \in Deed
    BY <2>1 DEF Deed
  <2>3. [owner |-> new, due |-> TRUE, warnings |-> 0] \in Deed
    BY DEF Deed
  <2> QED BY <2>2, <2>3 DEF SetOwnerEx, TypeOK
<1>2. houseRow' \in [House -> Deed] /\ unsaved' \in SUBSET House
  BY <1>1 DEF SetOwnerEx, SaveHouse, TypeOK
<1>3. /\ self' \in [Player -> SUBSET Thing] /\ row' \in [Player -> SUBSET Thing]
      /\ lost' \in SUBSET Thing /\ floor' \in [House -> SUBSET Thing]
  <2>1. CASE house[h].owner = None
    BY <2>1 DEF SetOwnerEx, TypeOK
  <2>2. CASE house[h].owner # None
    <3>1. house[h].owner \in Player /\ floor[h] \in SUBSET Thing
      BY <2>2 DEF TypeOK, Deed
    <3>2. Goes(floor[h], house[h].owner, s, ok) /\ floor' = [floor EXCEPT ![h] = {}]
      BY <2>2 DEF SetOwnerEx
    <3> QED BY <3>1, <3>2 DEF TypeOK, Goes, InMemory, InRow
  <2> QED BY <2>1, <2>2
<1>4. faults' \in 0 .. MaxFaults
  BY CommitsType DEF SetOwnerEx, TypeOK
<1>5. UNCHANGED <<online, tiles, unstored>>
  BY DEF SetOwnerEx
<1> QED BY <1>1, <1>2, <1>3, <1>4, <1>5 DEF TypeOK

LEMMA StepTypeOK == TypeOK /\ [Next]_vars => TypeOK'
<1> SUFFICES ASSUME TypeOK, [Next]_vars PROVE TypeOK'
  OBVIOUS
<1>1. ASSUME NEW p \in Player, Login(p) PROVE TypeOK'
  BY <1>1, IdleFacts DEF Login, Runs, TypeOK, database, ghosts
<1>2. ASSUME NEW p \in Player, NEW ok \in BOOLEAN, Logout(p, ok) PROVE TypeOK'
  BY <1>2, IdleFacts, CommitsType DEF Logout, Runs, SavePlayer, TypeOK
<1>3. ASSUME NEW p \in Player, NEW ok \in BOOLEAN, SavesPlayer(p, ok) PROVE TypeOK'
  BY <1>3, CommitsType DEF SavesPlayer, SavePlayer, TypeOK, memory, ghosts
<1>17. ASSUME NEW p \in Player, NEW shallow \in BOOLEAN, NEW ok \in BOOLEAN, ScriptSaves(p, shallow, ok)
       PROVE  TypeOK'
  BY <1>17, CommitsType DEF ScriptSaves, Runs, SavePlayer, TypeOK, memory, ghosts
<1>4. ASSUME NEW p \in Player, NEW q \in Player, NEW t \in Thing, Gives(p, q, t) PROVE TypeOK'
  <2>1. [self EXCEPT ![p] = @ \ {t}] \in [Player -> SUBSET Thing]
    BY DEF TypeOK
  <2>2. Goes({t}, q, [self EXCEPT ![p] = @ \ {t}], TRUE)
    BY <1>4 DEF Gives
  <2> QED BY <1>4, <2>1, <2>2 DEF Gives, Runs, TypeOK, Goes, InMemory, InRow
<1>5. ASSUME NEW p \in Player, NEW q \in Player, NEW t \in Thing, NEW ok \in BOOLEAN, Sends(p, q, t, ok)
      PROVE  TypeOK'
  <2>1. [self EXCEPT ![p] = @ \ {t}] \in [Player -> SUBSET Thing]
    BY DEF TypeOK
  <2>2. Goes({t}, q, [self EXCEPT ![p] = @ \ {t}], ok) /\ Commits(ok)
    BY <1>5 DEF Sends
  <2> QED BY <1>5, <2>1, <2>2, CommitsType DEF Sends, Runs, TypeOK, Goes, InMemory, InRow
<1>6. ASSUME NEW p \in Player, NEW h \in House, NEW t \in Thing, Drops(p, h, t) \/ Takes(p, h, t)
      PROVE  TypeOK'
  BY <1>6 DEF Drops, Takes, Runs, TypeOK, database
<1>7. ASSUME NEW p \in Player, NEW h \in House, NEW c \in Coin, NEW stored \in BOOLEAN, Buys(p, h, c, stored)
      PROVE  TypeOK'
  <2>1. [self EXCEPT ![p] = @ \ {c}] \in [Player -> SUBSET Thing]
    BY DEF TypeOK
  <2>2. moved' \in SUBSET Thing /\ paid' \in SUBSET Coin /\ saving' = saving
    BY <1>7, StorageAssumption DEF Buys, Runs, TypeOK
  <2> QED BY <1>7, <2>1, <2>2, SetOwnerExType DEF Buys
<1>8. ASSUME NEW p \in Player, NEW q \in Player, NEW h \in House, NEW stored \in BOOLEAN, Sells(p, q, h, stored)
      PROVE  TypeOK'
  <2>1. moved' \in SUBSET Thing /\ paid' \in SUBSET Coin /\ saving' = saving
        /\ self \in [Player -> SUBSET Thing]
    BY <1>8 DEF Sells, Runs, TypeOK
  <2> QED BY <1>8, <2>1, SetOwnerExType DEF Sells
<1>9. ASSUME NEW h \in House, NEW ok \in BOOLEAN, NEW stored \in BOOLEAN, Evicts(h, ok, stored)
      PROVE  TypeOK'
  <2>1. moved' \in SUBSET Thing /\ paid' \in SUBSET Coin /\ saving' = saving
        /\ self \in [Player -> SUBSET Thing]
    BY <1>9 DEF Evicts, Runs, TypeOK
  <2> QED BY <1>9, <2>1, SetOwnerExType DEF Evicts
<1>10. ASSUME NEW h \in House, RentFalls(h) \/ Warns(h) PROVE TypeOK'
  <2>1. house[h] \in Deed
    BY DEF TypeOK
  <2>2. [house[h] EXCEPT !.due = TRUE] \in Deed
    BY <2>1 DEF Deed
  <2>4. [house[h] EXCEPT !.warnings = @ + 1] \in Deed
    <3>1. house[h].warnings + 1 \in Nat
      BY <2>1 DEF Deed
    <3> QED BY <2>1, <3>1 DEF Deed
  <2>3. house' \in [House -> Deed]
    BY <1>10, <2>2, <2>4 DEF RentFalls, Warns, TypeOK
  <2> QED BY <1>10, <2>3 DEF RentFalls, Warns, Runs, TypeOK, database, ghosts
<1>11. ASSUME NEW h \in House, NEW c \in Coin, Pays(h, c) PROVE TypeOK'
  <2>1. house[h] \in Deed
    BY DEF TypeOK
  <2>2. [house[h] EXCEPT !.due = FALSE] \in Deed
    BY <2>1 DEF Deed
  <2>3. house' \in [House -> Deed]
    BY <1>11, <2>2 DEF Pays, TypeOK
  <2>4. self' \in [Player -> SUBSET Thing] /\ paid' \in SUBSET Coin
    BY <1>11 DEF Pays, TypeOK
  <2>5. moved' \in SUBSET Thing
    BY <1>11, <2>4, StorageAssumption DEF Pays, TypeOK
  <2>6. UNCHANGED <<saving, online, floor, row, tiles, houseRow, lost, unstored, unsaved, faults>>
    BY <1>11 DEF Pays, Runs, database
  <2> QED BY <2>3, <2>4, <2>5, <2>6 DEF TypeOK
<1>12. CASE SaveBegins \/ SaveEnds
  <2>1. moved' \in SUBSET Thing
    BY <1>12 DEF SaveBegins, SaveEnds, TypeOK, ghosts
  <2>2. saving' \in [players : SUBSET online, shallow : BOOLEAN, step : {"no", "players", "map", "done"}, good : BOOLEAN]
    <3>1. CASE SaveBegins
      BY <3>1 DEF SaveBegins
    <3>2. CASE SaveEnds
      BY <3>2, IdleFacts DEF SaveEnds
    <3> QED BY <1>12, <3>1, <3>2
  <2>3. UNCHANGED <<memory, database, lost, unstored, paid, unsaved, faults>>
    BY <1>12 DEF SaveBegins, SaveEnds, ghosts
  <2> QED BY <2>1, <2>2, <2>3 DEF TypeOK, memory, database
<1>13. ASSUME NEW ok \in BOOLEAN, SavesHouses(ok) PROVE TypeOK'
  <2>1. PICK done \in SUBSET House :
          /\ houseRow' = [h \in House |-> IF h \in done THEN house[h] ELSE houseRow[h]]
          /\ unsaved' = (unsaved \cup House) \ done
          /\ \E next \in {"map", "done"} :
                saving' = [saving EXCEPT !.step = next, !.good = @ /\ ok]
    BY <1>13 DEF SavesHouses
  <2> QED BY <1>13, <2>1, CommitsType DEF SavesHouses, TypeOK, memory
<1>14. ASSUME NEW ok \in BOOLEAN, SavesMap(ok) PROVE TypeOK'
  <2>1. tiles' \in [House -> SUBSET Thing]
    BY <1>14 DEF SavesMap, Stores, TypeOK
  <2>2. unstored' \in SUBSET Thing
    BY <1>14 DEF SavesMap, TypeOK
  <2> QED BY <1>14, <2>1, <2>2, CommitsType DEF SavesMap, TypeOK, memory
<1>15. CASE Restarts
  BY <1>15, IdleFacts, StorageAssumption DEF Restarts, TypeOK, database
<1>16. CASE UNCHANGED vars
  BY <1>16 DEF vars, memory, database, ghosts, TypeOK
<1> QED BY <1>1, <1>2, <1>3, <1>4, <1>5, <1>6, <1>7, <1>8, <1>9, <1>10, <1>11, <1>12, <1>13,
           <1>14, <1>15, <1>16, <1>17 DEF Next

\* Everything has its type, whatever the players, houses and things.
THEOREM TypeCorrect == Spec => []TypeOK
<1>1. Init => TypeOK
  BY InitTypeOK
<1>2. TypeOK /\ [Next]_vars => TypeOK'
  BY StepTypeOK
<1> QED BY <1>1, <1>2, PTL DEF Spec
-----------------------------------------------------------------------------
(* What a step does to the places of things. *)

Gone == lost \cup paid

\* Where a thing is that is not gone by then changes only if it is of S, for y.
Shifts(S, y) == \A t \in Thing \ Gone', z \in Place : HeldAt(t, z)' <=> IF t \in S THEN z = y ELSE HeldAt(t, z)
Same == \A t \in Thing \ Gone', z \in Place : HeldAt(t, z)' <=> HeldAt(t, z)

Rests == Gone' = Gone /\ Same /\ faults' = faults
Passes(S, x, y) ==
    /\ Gone' = Gone /\ Shifts(S, y) /\ faults' \in {faults, faults + 1}
    /\ \A t \in S : HeldAt(t, x)
Spends(c) == Gone' = Gone \cup {c} /\ Same /\ faults' \in {faults, faults + 1}
Fails == Gone \subseteq Gone' /\ Same /\ faults' = faults + 1

Moves ==
    \/ Rests \/ Fails
    \/ \E c \in Coin : Spends(c)
    \/ \E S \in SUBSET Thing, x \in Place, y \in Place : Passes(S, x, y)

LEMMA HeldAtOne ==
    ASSUME HeldOnce, NEW t \in Thing \ Gone, NEW x \in Place, NEW y \in Place, HeldAt(t, x), HeldAt(t, y)
    PROVE  x = y
BY DEF HeldOnce, Gone

\* Nobody lays money down in a house (it is a balance): what lies there was not paid.
NoMoneyInHouses == \A h \in House : floor[h] \cap Coin = {} /\ tiles[h] \cap Coin = {}

LEMMA InAHouseOnly ==
    ASSUME TypeOK, HeldOnce, NoMoneyInHouses, NEW t \in Thing \ lost, NEW h \in House, NEW y \in Place,
           HeldAt(t, h), HeldAt(t, y)
    PROVE  y = h
<1>1. t \notin Coin
  BY DEF NoMoneyInHouses, HeldAt
<1>2. t \in Thing \ Gone
  BY <1>1 DEF Gone, TypeOK
<1> QED BY <1>2, HeldAtOne DEF Place

\* Of a player in the game who has not moved a thing, or of what lies in a house,
\* memory and row say the same.
LEMMA InHandAndRow ==
    ASSUME TypeOK, HeldOnce, CrashKeeps, NoMoneyInHouses,
           NEW t \in Thing \ (lost \cup moved), NEW p \in Player
    PROVE  HeldAt(t, p) <=> t \in row[p]
<1>1. p \notin House /\ p \in Place
  BY StorageAssumption DEF Place
<1>2. CASE t \in unstored
  <2>1. PICK h \in House : HeldAt(t, h)
    BY <1>2 DEF CrashKeeps
  <2>2. ~HeldAt(t, p)
    BY <1>1, <2>1, InAHouseOnly
  <2> QED BY <1>1, <1>2, <2>2 DEF CrashKeeps, StoredAt
<1>3. CASE t \notin unstored
  BY <1>1, <1>3 DEF CrashKeeps, StoredAt
<1> QED BY <1>2, <1>3

\* setOwnerEx: what is in the house passes to its owner, or is lost with his copy.
LEMMA SetOwnerExMoves ==
    ASSUME TypeOK, HeldOnce, NEW h \in House, NEW new \in Player \cup {None}, NEW ok \in BOOLEAN, NEW stored \in BOOLEAN,
           house[h].owner # None, paid' = paid,
           SetOwnerEx(h, new, self, ok, stored)
    PROVE  Moves
<1>1. house[h].owner \in Player /\ floor[h] \in SUBSET Thing
  BY DEF TypeOK, Deed
<1>2. PICK old \in Player : old = house[h].owner
  BY <1>1
<1>3. /\ Goes(floor[h], old, self, ok) /\ floor' = [floor EXCEPT ![h] = {}]
      /\ online' = online /\ Commits(ok /\ stored)
  BY <1>2 DEF SetOwnerEx
<1>4. /\ faults' \in {faults, faults + 1}
      /\ ~ok => faults' = faults + 1
  BY <1>3, CommitsType DEF TypeOK
<1>5. CASE ok
  <2>1. Gone' = Gone
    BY <1>3, <1>5 DEF Gone, Goes
  <2>2. /\ self' = IF old \in online THEN [self EXCEPT ![old] = @ \cup floor[h]] ELSE self
        /\ row' = IF old \in online THEN row ELSE [row EXCEPT ![old] = @ \cup floor[h]]
    BY <1>3, <1>5 DEF Goes, InMemory, InRow
  <2>3. ASSUME NEW t \in Thing, NEW z \in House
        PROVE  HeldAt(t, z)' <=> z # h /\ HeldAt(t, z)
    BY <1>3 DEF HeldAt, TypeOK
  <2>4. ASSUME NEW t \in Thing, NEW z \in Player
        PROVE  HeldAt(t, z)' <=> HeldAt(t, z) \/ (z = old /\ t \in floor[h])
    <3>1. z \notin House
      BY StorageAssumption
    <3> QED BY <2>2, <1>3, <3>1 DEF HeldAt, Has, TypeOK
  <2>5. \A t \in floor[h] : HeldAt(t, h)
    BY DEF HeldAt
  <2>6. ASSUME NEW t \in Thing \ Gone', NEW z \in Place
        PROVE  HeldAt(t, z)' <=> IF t \in floor[h] THEN z = old ELSE HeldAt(t, z)
    <3>1. CASE t \in floor[h]
      <4>1. HeldAt(t, z) => z = h
        BY <2>1, <2>5, <3>1, HeldAtOne DEF Place
      <4> QED BY <2>3, <2>4, <3>1, <4>1, StorageAssumption DEF Place
    <3>2. CASE t \notin floor[h]
      <4>1. ~HeldAt(t, h)
        BY <3>2 DEF HeldAt
      <4> QED BY <2>3, <2>4, <3>2, <4>1 DEF Place
    <3> QED BY <3>1, <3>2
  <2>7. Passes(floor[h], h, old)
    BY <1>4, <2>1, <2>5, <2>6 DEF Passes, Shifts
  <2> QED BY <2>7, <1>1 DEF Moves, Place
<1>6. CASE ~ok
  <2>1. Gone \subseteq Gone' /\ floor[h] \subseteq Gone'
    BY <1>3, <1>6 DEF Gone, Goes
  <2>2. ASSUME NEW t \in Thing \ Gone', NEW z \in Place
        PROVE  HeldAt(t, z)' <=> HeldAt(t, z)
    <3>1. row' = row /\ (old \in online => FALSE) /\ self' = self
      BY <1>3, <1>6 DEF Goes, InMemory, InRow
    <3>2. CASE z \in House
      <4>1. t \notin floor[h]
        BY <2>1
      <4>2. t \in floor'[z] <=> t \in floor[z]
        BY <1>3, <3>2, <4>1 DEF TypeOK
      <4> QED BY <3>2, <4>2 DEF HeldAt
    <3>3. CASE z \in Player
      BY <1>3, <3>1, <3>3, StorageAssumption DEF HeldAt, Has
    <3> QED BY <3>2, <3>3 DEF Place
  <2> QED BY <1>4, <1>6, <2>1, <2>2 DEF Moves, Fails, Same
<1> QED BY <1>5, <1>6
LEMMA SameMemory ==
    ASSUME online' = online, row' = row, self' = self, floor' = floor
    PROVE  Same
BY DEF Same, HeldAt, Has

\* One thing goes from where it is to another place, by whoever's hand.
LEMMA OneMoves ==
    ASSUME HeldOnce, NEW t \in Thing, NEW x \in Place, NEW y \in Place, HeldAt(t, x), Gone' = Gone,
           faults' \in {faults, faults + 1},
           \A u \in Thing, z \in Place : HeldAt(u, z)' <=>
               (HeldAt(u, z) /\ (u # t \/ z # x)) \/ (u = t /\ z = y)
    PROVE  Moves
<1>1. ASSUME NEW u \in Thing \ Gone', NEW z \in Place
      PROVE  HeldAt(u, z)' <=> IF u \in {t} THEN z = y ELSE HeldAt(u, z)
  <2>1. u = t /\ HeldAt(u, z) => z = x
    BY HeldAtOne
  <2> QED BY <2>1
<1>2. Passes({t}, x, y)
  BY <1>1 DEF Passes, Shifts
<1> QED BY <1>2 DEF Moves

LEMMA StepMoves ==
    TypeOK /\ HeldOnce /\ CrashKeeps /\ NoMoneyInHouses /\ [Next]_vars => Moves
<1> SUFFICES ASSUME TypeOK, HeldOnce, CrashKeeps, NoMoneyInHouses, [Next]_vars PROVE Moves
  OBVIOUS
<1>1. ASSUME NEW p \in Player, Login(p) PROVE Moves
  <2>1. Same
    BY <1>1, StorageAssumption DEF Login, database, Same, HeldAt, Has, Place, TypeOK
  <2> QED BY <1>1, <2>1 DEF Login, ghosts, Moves, Rests, Gone
<1>2. ASSUME NEW p \in Player, NEW ok \in BOOLEAN, Logout(p, ok) PROVE Moves
  <2>1. CASE ok
    <3>1. Same
      BY <1>2, <2>1 DEF Logout, SavePlayer, Same, HeldAt, Has, Place, TypeOK
    <3> QED BY <1>2, <2>1, <3>1, CommitsType DEF Logout, Moves, Rests, Gone, TypeOK
  <2>2. CASE ~ok
    <3>1. lost' = lost \cup moved /\ paid' = paid /\ row' = row /\ online' = online \ {p} /\ floor' = floor
          /\ self' = [self EXCEPT ![p] = {}]
      BY <1>2, <2>2 DEF Logout, SavePlayer
    <3>2. ASSUME NEW t \in Thing \ Gone', NEW z \in Place PROVE HeldAt(t, z)' <=> HeldAt(t, z)
      <4>1. HeldAt(t, p) <=> t \in row[p]
        BY <3>1, InHandAndRow DEF Gone
      <4> QED BY <3>1, <4>1, StorageAssumption DEF HeldAt, Has, TypeOK, Place
    <3> QED BY <1>2, <2>2, <3>1, <3>2, CommitsType DEF Logout, Moves, Fails, Same, Gone, TypeOK
  <2> QED BY <2>1, <2>2
<1>3. ASSUME NEW p \in Player, NEW shallow \in BOOLEAN, NEW ok \in BOOLEAN,
             SavesPlayer(p, ok) \/ ScriptSaves(p, shallow, ok)
      PROVE  Moves
  <2>1. /\ p \in online /\ UNCHANGED <<online, self, floor, lost, paid>> /\ Commits(ok)
        /\ \A q \in Player \ {p} : row'[q] = row[q]
    BY <1>3 DEF SavesPlayer, ScriptSaves, SavePlayer, TypeOK, memory, ghosts
  <2>2. Same
    BY <2>1 DEF Same, HeldAt, Has, Place
  <2> QED BY <2>1, <2>2, CommitsType DEF Moves, Rests, Fails, Gone, TypeOK
<1>4. ASSUME NEW p \in Player, NEW q \in Player, NEW t \in Thing, Gives(p, q, t) PROVE Moves
  <2>1. /\ {p, q} \subseteq online /\ t \in self[p]
        /\ UNCHANGED <<online, floor, row, lost, paid, faults>>
        /\ self' = [[self EXCEPT ![p] = @ \ {t}] EXCEPT ![q] = @ \cup {t}]
    BY <1>4 DEF Gives, Goes, InMemory, InRow
  <2>2. HeldAt(t, p) /\ p \in Place /\ q \in Place
    BY <2>1, StorageAssumption DEF HeldAt, Has, Place
  <2>3. ASSUME NEW u \in Thing, NEW z \in Place
        PROVE  HeldAt(u, z)' <=> (HeldAt(u, z) /\ (u # t \/ z # p)) \/ (u = t /\ z = q)
    <3>1. CASE z \in House
      BY <2>1, <3>1, StorageAssumption DEF HeldAt
    <3>2. CASE z \in Player
      BY <2>1, <3>2, StorageAssumption DEF HeldAt, Has, TypeOK
    <3> QED BY <3>1, <3>2 DEF Place
  <2>4. Gone' = Gone /\ faults' \in {faults, faults + 1}
    BY <2>1 DEF Gone
  <2> QED BY <2>2, <2>3, <2>4, OneMoves
<1>5. ASSUME NEW p \in Player, NEW q \in Player, NEW t \in Thing, NEW ok \in BOOLEAN, Sends(p, q, t, ok)
      PROVE  Moves
  <2>1. /\ p \in online /\ q # p /\ t \in self[p] /\ Commits(ok)
        /\ UNCHANGED <<online, floor, paid>>
        /\ self' = InMemory([self EXCEPT ![p] = @ \ {t}], q, {t})
        /\ row' = InRow(row, q, {t}, ok)
        /\ lost' = IF ok THEN lost ELSE lost \cup {t}
        /\ q \in online => ok
    BY <1>5 DEF Sends, Goes
  <2>2. HeldAt(t, p) /\ p \in Place /\ q \in Place
    BY <2>1, StorageAssumption DEF HeldAt, Has, Place
  <2>3. CASE ok
    <3>1. ASSUME NEW u \in Thing, NEW z \in Place
          PROVE  HeldAt(u, z)' <=> (HeldAt(u, z) /\ (u # t \/ z # p)) \/ (u = t /\ z = q)
      <4>1. CASE z \in House
        BY <2>1, <4>1, StorageAssumption DEF HeldAt
      <4>2. CASE z \in Player
        BY <2>1, <2>3, <4>2, StorageAssumption DEF HeldAt, Has, TypeOK, InMemory, InRow
      <4> QED BY <4>1, <4>2 DEF Place
    <3>2. Gone' = Gone /\ faults' \in {faults, faults + 1}
      BY <2>1, <2>3, CommitsType DEF Gone, TypeOK
    <3> QED BY <2>2, <3>1, <3>2, OneMoves
  <2>4. CASE ~ok
    <3>1. /\ self' = [self EXCEPT ![p] = @ \ {t}] /\ row' = row
          /\ Gone' = Gone \cup {t} /\ faults' = faults + 1
      BY <2>1, <2>4, CommitsType DEF InMemory, InRow, Gone, TypeOK
    <3>2. ASSUME NEW u \in Thing \ Gone', NEW z \in Place PROVE HeldAt(u, z)' <=> HeldAt(u, z)
      BY <2>1, <3>1 DEF HeldAt, Has, TypeOK, Place
    <3> QED BY <3>1, <3>2 DEF Moves, Fails, Same
  <2> QED BY <2>3, <2>4
<1>6. ASSUME NEW p \in Player, NEW h \in House, NEW t \in Thing, Drops(p, h, t) PROVE Moves
  <2>1. /\ p \in online /\ t \in self[p] /\ UNCHANGED <<online, row, lost, paid, faults>>
        /\ self' = [self EXCEPT ![p] = @ \ {t}] /\ floor' = [floor EXCEPT ![h] = @ \cup {t}]
    BY <1>6 DEF Drops, database
  <2>2. HeldAt(t, p) /\ p \in Place /\ h \in Place
    BY <2>1, StorageAssumption DEF HeldAt, Has, Place
  <2>3. ASSUME NEW u \in Thing, NEW z \in Place
        PROVE  HeldAt(u, z)' <=> (HeldAt(u, z) /\ (u # t \/ z # p)) \/ (u = t /\ z = h)
    <3>1. CASE z \in House
      BY <2>1, <3>1, StorageAssumption DEF HeldAt, TypeOK
    <3>2. CASE z \in Player
      BY <2>1, <3>2, StorageAssumption DEF HeldAt, Has, TypeOK
    <3> QED BY <3>1, <3>2 DEF Place
  <2>4. Gone' = Gone /\ faults' \in {faults, faults + 1}
    BY <2>1 DEF Gone
  <2> QED BY <2>2, <2>3, <2>4, OneMoves
<1>7. ASSUME NEW p \in Player, NEW h \in House, NEW t \in Thing, Takes(p, h, t) PROVE Moves
  <2>1. /\ p \in online /\ t \in floor[h] /\ UNCHANGED <<online, row, lost, paid, faults>>
        /\ self' = [self EXCEPT ![p] = @ \cup {t}] /\ floor' = [floor EXCEPT ![h] = @ \ {t}]
    BY <1>7 DEF Takes, database
  <2>2. HeldAt(t, h) /\ p \in Place /\ h \in Place
    BY <2>1, StorageAssumption DEF HeldAt, Place
  <2>3. ASSUME NEW u \in Thing, NEW z \in Place
        PROVE  HeldAt(u, z)' <=> (HeldAt(u, z) /\ (u # t \/ z # h)) \/ (u = t /\ z = p)
    <3>1. CASE z \in House
      BY <2>1, <3>1, StorageAssumption DEF HeldAt, TypeOK
    <3>2. CASE z \in Player
      BY <2>1, <3>2, StorageAssumption DEF HeldAt, Has, TypeOK
    <3> QED BY <3>1, <3>2 DEF Place
  <2>4. Gone' = Gone /\ faults' \in {faults, faults + 1}
    BY <2>1 DEF Gone
  <2> QED BY <2>2, <2>3, <2>4, OneMoves
<1>8. ASSUME NEW p \in Player, NEW h \in House, NEW c \in Coin, NEW stored \in BOOLEAN, Buys(p, h, c, stored)
      PROVE  Moves
  <2>1. /\ UNCHANGED <<online, floor, row, lost>> /\ self' = [self EXCEPT ![p] = @ \ {c}]
        /\ paid' = paid \cup {c} /\ Commits(stored)
    BY <1>8, StorageAssumption DEF Buys, SetOwnerEx
  <2>2. Gone' = Gone \cup {c} /\ faults' \in {faults, faults + 1}
    BY <2>1, CommitsType DEF Gone, TypeOK
  <2>3. ASSUME NEW u \in Thing \ Gone', NEW z \in Place PROVE HeldAt(u, z)' <=> HeldAt(u, z)
    BY <2>1, <2>2 DEF HeldAt, Has, TypeOK, Place
  <2> QED BY <2>2, <2>3 DEF Moves, Spends, Same
<1>9. ASSUME NEW p \in Player, NEW q \in Player, NEW h \in House, NEW stored \in BOOLEAN, Sells(p, q, h, stored)
      PROVE  Moves
  <2>1. house[h].owner # None /\ paid' = paid /\ SetOwnerEx(h, q, self, TRUE, stored)
    BY <1>9, StorageAssumption DEF Sells
  <2> QED BY <2>1, SetOwnerExMoves
<1>10. ASSUME NEW h \in House, NEW ok \in BOOLEAN, NEW stored \in BOOLEAN, Evicts(h, ok, stored)
      PROVE  Moves
  BY <1>10, SetOwnerExMoves DEF Evicts
<1>11. ASSUME NEW h \in House, RentFalls(h) \/ Warns(h) PROVE Moves
  <2>1. UNCHANGED <<online, row, self, floor, faults>> /\ Gone' = Gone
    BY <1>11 DEF RentFalls, Warns, database, ghosts, Gone
  <2> QED BY <2>1, SameMemory DEF Moves, Rests
<1>12. ASSUME NEW h \in House, NEW c \in Coin, Pays(h, c) PROVE Moves
  <2> DEFINE p == house[h].owner
  <2>1. UNCHANGED <<online, row, floor, lost, faults>>
    BY <1>12 DEF Pays, database
  <2>2. CASE p \in online
    <3>1. self' = [self EXCEPT ![p] = @ \ {c}] /\ Gone' = Gone \cup {c}
      BY <1>12, <2>1, <2>2 DEF Pays, Gone
    <3>2. ASSUME NEW u \in Thing \ Gone', NEW z \in Place PROVE HeldAt(u, z)' <=> HeldAt(u, z)
      BY <2>1, <3>1 DEF HeldAt, Has, TypeOK, Place
    <3> QED BY <2>1, <3>1, <3>2 DEF Moves, Spends, Same
  <2>3. CASE p \notin online
    <3>1. self' = self /\ Gone' = Gone
      BY <1>12, <2>1, <2>3 DEF Pays, Gone
    <3> QED BY <2>1, <3>1, SameMemory DEF Moves, Rests
  <2> QED BY <2>2, <2>3
<1>13. CASE SaveBegins \/ SaveEnds \/ UNCHANGED vars
  <2>1. UNCHANGED <<online, row, self, floor, faults, lost, paid>>
    BY <1>13 DEF SaveBegins, SaveEnds, vars, memory, database, ghosts
  <2> QED BY <2>1, SameMemory DEF Moves, Rests, Gone
<1>14. ASSUME NEW ok \in BOOLEAN, SavesHouses(ok) PROVE Moves
  <2>1. UNCHANGED <<online, row, self, floor, lost, paid>> /\ Commits(ok)
    BY <1>14 DEF SavesHouses, memory
  <2> QED BY <2>1, SameMemory, CommitsType DEF Moves, Rests, Fails, Gone, TypeOK
<1>15. ASSUME NEW ok \in BOOLEAN, SavesMap(ok) PROVE Moves
  <2>1. UNCHANGED <<online, row, self, floor, lost, paid>> /\ Commits(ok)
    BY <1>15 DEF SavesMap, memory
  <2> QED BY <2>1, SameMemory, CommitsType DEF Moves, Rests, Fails, Gone, TypeOK
<1>16. CASE Restarts
  <2>1. /\ online' = {} /\ floor' = tiles /\ UNCHANGED <<row, tiles, paid>>
        /\ lost' = lost \cup moved \cup unstored /\ faults' = faults + 1
    BY <1>16 DEF Restarts, database
  <2>2. ASSUME NEW t \in Thing \ Gone', NEW z \in Place PROVE HeldAt(t, z)' <=> HeldAt(t, z)
    <3>1. HeldAt(t, z) <=> StoredAt(t, z)
      BY <2>1 DEF CrashKeeps, Gone
    <3> QED BY <2>1, <3>1 DEF HeldAt, StoredAt, Has
  <2> QED BY <2>1, <2>2 DEF Moves, Fails, Same, Gone
<1> QED BY <1>1, <1>2, <1>3, <1>4, <1>5, <1>6, <1>7, <1>8, <1>9, <1>10, <1>11, <1>12, <1>13,
           <1>14, <1>15, <1>16 DEF Next

-----------------------------------------------------------------------------
(* The invariants. *)

LEMMA StepHeldOnce == HeldOnce /\ Moves => HeldOnce'
<1> SUFFICES ASSUME HeldOnce, Moves, NEW t \in Thing \ Gone'
             PROVE  \E x \in Place : \A y \in Place : HeldAt(t, y)' <=> y = x
  BY DEF HeldOnce, Gone, Place
<1>1. t \notin Gone
  BY DEF Moves, Rests, Fails, Spends, Passes
<1>2. PICK x \in Place : \A y \in Place : HeldAt(t, y) <=> y = x
  BY <1>1 DEF HeldOnce, Gone
<1>3. CASE Same
  BY <1>2, <1>3 DEF Same
<1>4. ASSUME NEW S \in SUBSET Thing, NEW a \in Place, NEW b \in Place, Passes(S, a, b)
      PROVE  \E z \in Place : \A y \in Place : HeldAt(t, y)' <=> y = z
  <2>1. \A y \in Place : HeldAt(t, y)' <=> IF t \in S THEN y = b ELSE y = x
    BY <1>2, <1>4 DEF Passes, Shifts
  <2> QED BY <2>1
<1> QED BY <1>3, <1>4 DEF Moves, Rests, Fails, Spends

\* A task that moves only what it notes in moved, and stores nothing of the rest.
LEMMA KeepsTheRest ==
    ASSUME CrashKeeps, lost \subseteq lost', moved \subseteq moved', unstored' = unstored,
           \A t \in Thing \ (lost' \cup moved'), x \in Place :
               (HeldAt(t, x)' <=> HeldAt(t, x)) /\ (StoredAt(t, x)' <=> StoredAt(t, x))
    PROVE  CrashKeeps'
BY DEF CrashKeeps, Place

LEMMA SetOwnerExKeeps ==
    ASSUME TypeOK, CrashKeeps, NEW h \in House, NEW new \in Player \cup {None}, NEW ok \in BOOLEAN,
           NEW stored \in BOOLEAN, house[h].owner # None, moved' = moved \cup floor[h],
           SetOwnerEx(h, new, self, ok, stored)
    PROVE  CrashKeeps'
<1>1. PICK old \in Player : old = house[h].owner
  BY DEF TypeOK, Deed
<1>2. /\ Goes(floor[h], old, self, ok) /\ floor' = [floor EXCEPT ![h] = {}]
      /\ UNCHANGED <<online, tiles, unstored>>
  BY <1>1 DEF SetOwnerEx
<1>3. lost \subseteq lost' /\ moved \subseteq moved'
  BY <1>2 DEF Goes
<1>4. ASSUME NEW t \in Thing \ (lost' \cup moved'), NEW x \in Place
      PROVE  (HeldAt(t, x)' <=> HeldAt(t, x)) /\ (StoredAt(t, x)' <=> StoredAt(t, x))
  <2>1. t \notin floor[h]
    OBVIOUS
  <2>2. CASE x \in House
    BY <1>2, <2>1, <2>2 DEF HeldAt, StoredAt, TypeOK
  <2>3. CASE x \in Player
    <3>1. x \notin House
      BY <2>3, StorageAssumption
    <3>2. (t \in self'[x] <=> t \in self[x]) /\ (t \in row'[x] <=> t \in row[x])
      BY <1>2, <2>1, <2>3 DEF Goes, InMemory, InRow, TypeOK
    <3> QED BY <1>2, <2>3, <3>1, <3>2 DEF HeldAt, StoredAt, Has
  <2> QED BY <2>2, <2>3 DEF Place
<1> QED BY <1>2, <1>3, <1>4, KeepsTheRest

\* The row of one player is written, with what is his in memory or was in the row.
LEMMA RowKeeps ==
    ASSUME TypeOK, HeldOnce, CrashKeeps, NoMoneyInHouses, NEW p \in Player,
           UNCHANGED <<floor, tiles, moved, unstored>>, lost \subseteq lost',
           online' = online \/ online' = online \ {p}, p \in online,
           \A q \in Player \ {p} : self'[q] = self[q] /\ row'[q] = row[q],
           p \in online' => self'[p] = self[p],
           \A t \in row'[p] : t \in row[p] \/ t \in self[p],
           \A t \in row[p] : t \in self[p] => t \in row'[p]
    PROVE  CrashKeeps'
<1> SUFFICES ASSUME NEW t \in Thing \ (lost' \cup moved'), NEW x \in Place
             PROVE  (HeldAt(t, x)' <=> HeldAt(t, x)) /\ (StoredAt(t, x)' <=> StoredAt(t, x))
  BY KeepsTheRest
<1>1. CASE x \in House
  BY <1>1 DEF HeldAt, StoredAt
<1>2. CASE x \in Player
  <2>1. x \notin House
    BY <1>2, StorageAssumption
  <2>2. HeldAt(t, p) <=> t \in row[p]
    BY InHandAndRow
  <2>3. t \in self[p] <=> t \in row[p]
    BY <2>2, StorageAssumption DEF HeldAt, Has
  <2> QED BY <1>2, <2>1, <2>3 DEF HeldAt, StoredAt, Has
<1> QED BY <1>1, <1>2 DEF Place

LEMMA StepCrashKeeps ==
    TypeOK /\ HeldOnce /\ CrashKeeps /\ NoMoneyInHouses /\ SavedSoFar /\ [Next]_vars => CrashKeeps'
<1> SUFFICES ASSUME TypeOK, HeldOnce, CrashKeeps, NoMoneyInHouses, SavedSoFar, [Next]_vars
             PROVE  CrashKeeps'
  OBVIOUS
<1>1. ASSUME NEW p \in Player, Login(p) PROVE CrashKeeps'
  <2>1. Same /\ UNCHANGED <<lost, moved, unstored, row, tiles>>
    BY <1>1, StorageAssumption DEF Login, database, ghosts, Same, HeldAt, Has, Place, TypeOK
  <2>2. \A t \in Thing, x \in Place : HeldAt(t, x)' <=> HeldAt(t, x)
    BY <1>1, StorageAssumption DEF Login, database, HeldAt, Has, Place, TypeOK
  <2> QED BY <2>1, <2>2, KeepsTheRest DEF StoredAt
<1>2. ASSUME NEW p \in Player, NEW ok \in BOOLEAN, Logout(p, ok) PROVE CrashKeeps'
  <2>1. /\ online' = online \ {p} /\ p \in online /\ self' = [self EXCEPT ![p] = {}]
        /\ row' = IF ok THEN [row EXCEPT ![p] = self[p]] ELSE row
        /\ lost \subseteq lost'
        /\ UNCHANGED <<floor, tiles, moved, unstored>>
    BY <1>2 DEF Logout, SavePlayer
  <2>2. row'[p] = IF ok THEN self[p] ELSE row[p]
    BY <2>1 DEF TypeOK
  <2>3. \A q \in Player \ {p} : self'[q] = self[q] /\ row'[q] = row[q]
    BY <2>1 DEF TypeOK
  <2> QED BY <2>1, <2>2, <2>3, RowKeeps
<1>3. ASSUME NEW p \in Player, NEW shallow \in BOOLEAN, NEW ok \in BOOLEAN,
             SavesPlayer(p, ok) \/ ScriptSaves(p, shallow, ok)
      PROVE  CrashKeeps'
  <2>1. /\ p \in online /\ UNCHANGED <<online, self, floor, tiles, lost, moved, unstored>>
        /\ \E k \in BOOLEAN : row' = SavePlayer(p, k, ok)
    BY <1>3 DEF SavesPlayer, ScriptSaves, TypeOK, memory, ghosts
  <2>2. PICK k \in BOOLEAN : row' = SavePlayer(p, k, ok)
    BY <2>1
  <2>3. /\ row'[p] = IF ~ok THEN row[p]
                     ELSE IF k THEN (row[p] \ Coin) \cup (self[p] \cap Coin) ELSE self[p]
        /\ \A q \in Player \ {p} : row'[q] = row[q]
    BY <2>2 DEF SavePlayer, TypeOK
  <2>4. /\ \A t \in row'[p] : t \in row[p] \/ t \in self[p]
        /\ \A t \in row[p] : t \in self[p] => t \in row'[p]
    BY <2>3
  <2> QED BY <2>1, <2>3, <2>4, RowKeeps
<1>4. ASSUME NEW p \in Player, NEW q \in Player, NEW t \in Thing, NEW ok \in BOOLEAN,
             Gives(p, q, t) \/ Sends(p, q, t, ok)
      PROVE  CrashKeeps'
  <2>1. /\ \E k \in BOOLEAN : Goes({t}, q, [self EXCEPT ![p] = @ \ {t}], k)
        /\ moved' = moved \cup {t} /\ UNCHANGED <<online, floor, tiles, unstored>>
    BY <1>4 DEF Gives, Sends
  <2>2. PICK k \in BOOLEAN : Goes({t}, q, [self EXCEPT ![p] = @ \ {t}], k)
    BY <2>1
  <2>3. lost \subseteq lost' /\ moved \subseteq moved'
    BY <2>1, <2>2 DEF Goes
  <2>4. ASSUME NEW u \in Thing \ (lost' \cup moved'), NEW x \in Place
        PROVE  (HeldAt(u, x)' <=> HeldAt(u, x)) /\ (StoredAt(u, x)' <=> StoredAt(u, x))
    <3>1. u # t
      BY <2>1
    <3>2. CASE x \in House
      BY <2>1, <3>2 DEF HeldAt, StoredAt
    <3>3. CASE x \in Player
      <4>1. x \notin House
        BY <3>3, StorageAssumption
      <4>2. (u \in self'[x] <=> u \in self[x]) /\ (u \in row'[x] <=> u \in row[x])
        BY <2>2, <3>1, <3>3 DEF Goes, InMemory, InRow, TypeOK
      <4> QED BY <2>1, <3>3, <4>1, <4>2 DEF HeldAt, StoredAt, Has
    <3> QED BY <3>2, <3>3 DEF Place
  <2> QED BY <2>1, <2>3, <2>4, KeepsTheRest
<1>5. ASSUME NEW p \in Player, NEW h \in House, NEW t \in Thing, Drops(p, h, t) \/ Takes(p, h, t)
      PROVE  CrashKeeps'
  <2>1. /\ moved' = moved \cup {t} /\ UNCHANGED <<online, row, tiles, lost, unstored>>
        /\ \A u \in Thing \ {t} : /\ \A x \in House : u \in floor'[x] <=> u \in floor[x]
                                  /\ \A x \in Player : u \in self'[x] <=> u \in self[x]
    BY <1>5 DEF Drops, Takes, database, TypeOK
  <2>2. ASSUME NEW u \in Thing \ (lost' \cup moved'), NEW x \in Place
        PROVE  (HeldAt(u, x)' <=> HeldAt(u, x)) /\ (StoredAt(u, x)' <=> StoredAt(u, x))
    BY <2>1 DEF HeldAt, StoredAt, Has, Place
  <2> QED BY <2>1, <2>2, KeepsTheRest
<1>6. ASSUME NEW p \in Player, NEW h \in House, NEW c \in Coin, NEW stored \in BOOLEAN, Buys(p, h, c, stored)
      PROVE  CrashKeeps'
  <2>1. /\ UNCHANGED <<online, floor, row, tiles, lost, unstored>> /\ self' = [self EXCEPT ![p] = @ \ {c}]
        /\ moved' = moved \cup {c}
    BY <1>6, StorageAssumption DEF Buys, SetOwnerEx
  <2>2. ASSUME NEW u \in Thing \ (lost' \cup moved'), NEW x \in Place
        PROVE  (HeldAt(u, x)' <=> HeldAt(u, x)) /\ (StoredAt(u, x)' <=> StoredAt(u, x))
    BY <2>1 DEF HeldAt, StoredAt, Has, Place, TypeOK
  <2> QED BY <2>1, <2>2, KeepsTheRest
<1>7. ASSUME NEW p \in Player, NEW q \in Player, NEW h \in House, NEW stored \in BOOLEAN, Sells(p, q, h, stored)
      PROVE  CrashKeeps'
  <2>1. /\ house[h].owner # None /\ moved' = moved \cup floor[h]
        /\ SetOwnerEx(h, q, self, TRUE, stored)
    BY <1>7, StorageAssumption DEF Sells
  <2> QED BY <2>1, SetOwnerExKeeps
<1>8. ASSUME NEW h \in House, NEW ok \in BOOLEAN, NEW stored \in BOOLEAN, Evicts(h, ok, stored)
      PROVE  CrashKeeps'
  BY <1>8, SetOwnerExKeeps DEF Evicts
<1>9. ASSUME NEW h \in House, RentFalls(h) \/ Warns(h) PROVE CrashKeeps'
  <2>1. UNCHANGED <<online, row, self, floor, tiles, lost, moved, unstored>>
    BY <1>9 DEF RentFalls, Warns, database, ghosts
  <2> QED BY <2>1, KeepsTheRest DEF HeldAt, StoredAt, Has
<1>10. ASSUME NEW h \in House, NEW c \in Coin, Pays(h, c) PROVE CrashKeeps'
  <2> DEFINE p == house[h].owner
  <2>1. UNCHANGED <<online, row, floor, tiles, lost, unstored>>
    BY <1>10 DEF Pays, database
  <2>2. CASE p \in online
    <3>1. self' = [self EXCEPT ![p] = @ \ {c}] /\ c \in moved' /\ moved \subseteq moved'
      BY <1>10, <2>2 DEF Pays
    <3>2. ASSUME NEW u \in Thing \ (lost' \cup moved'), NEW x \in Place
          PROVE  (HeldAt(u, x)' <=> HeldAt(u, x)) /\ (StoredAt(u, x)' <=> StoredAt(u, x))
      BY <2>1, <3>1 DEF HeldAt, StoredAt, Has, TypeOK, Place
    <3> QED BY <2>1, <3>1, <3>2, KeepsTheRest
  <2>3. CASE p \notin online
    <3>1. self' = self /\ moved' = moved
      BY <1>10, <2>1, <2>3 DEF Pays
    <3> QED BY <2>1, <3>1, KeepsTheRest DEF HeldAt, StoredAt, Has
  <2> QED BY <2>2, <2>3
<1>11. CASE SaveBegins \/ UNCHANGED vars
  <2>1. UNCHANGED <<online, row, self, floor, tiles, lost, moved, unstored>>
    BY <1>11 DEF SaveBegins, vars, memory, database, ghosts
  <2> QED BY <2>1, KeepsTheRest DEF HeldAt, StoredAt, Has
<1>12. ASSUME NEW ok \in BOOLEAN, SavesHouses(ok) PROVE CrashKeeps'
  <2>1. UNCHANGED <<online, row, self, floor, tiles, lost, moved, unstored>>
    BY <1>12 DEF SavesHouses, memory
  <2> QED BY <2>1, KeepsTheRest DEF HeldAt, StoredAt, Has
<1>13. ASSUME NEW ok \in BOOLEAN, SavesMap(ok) PROVE CrashKeeps'
  <2>1. UNCHANGED <<online, row, self, floor, lost, moved>>
    BY <1>13 DEF SavesMap, memory
  <2>2. CASE ~ok /\ tiles' = tiles
    <3>1. unstored' = unstored
      BY <1>13, <2>2 DEF SavesMap
    <3> QED BY <2>1, <2>2, <3>1, KeepsTheRest DEF HeldAt, StoredAt, Has
  <2>3. CASE ok \/ tiles' # tiles
    <3>0. ok => tiles' = floor
      BY <1>13 DEF SavesMap, Stores
    <3>1. unstored' = UNION {floor[x] \ tiles'[x] : x \in House}
      <4>1. CASE ok
        <5>1. unstored' = {}
          BY <1>13, <4>1 DEF SavesMap
        <5>2. \A x \in House : floor[x] \ tiles'[x] = {}
          BY <3>0, <4>1
        <5> QED BY <5>1, <5>2
      <4>2. CASE ~ok
        BY <1>13, <2>3, <4>2 DEF SavesMap
      <4> QED BY <4>1, <4>2
    <3>2. \A x \in House : tiles'[x] \subseteq floor[x]
      BY <1>13, <2>3 DEF SavesMap, Stores
    <3>3. ASSUME NEW t \in Thing \ (lost \cup moved), NEW x \in Player
          PROVE  HeldAt(t, x)' <=> StoredAt(t, x)'
      <4>1. HeldAt(t, x) <=> t \in row[x]
        BY InHandAndRow
      <4> QED BY <2>1, <4>1, StorageAssumption DEF HeldAt, StoredAt, Has
    <3>4. ASSUME NEW t \in Thing \ (lost \cup moved), t \notin unstored', NEW x \in Place
          PROVE  StoredAt(t, x)' <=> HeldAt(t, x)'
      <4>1. CASE x \in House
        BY <2>1, <3>1, <3>2, <3>4, <4>1 DEF StoredAt, HeldAt
      <4> QED BY <3>3, <4>1 DEF Place
    <3>5. ASSUME NEW t \in Thing \ (lost \cup moved), t \in unstored'
          PROVE  (\E h \in House : HeldAt(t, h)') /\ \A x \in Place : ~StoredAt(t, x)'
      <4>1. PICK h \in House : t \in floor[h] \ tiles'[h]
        BY <3>1, <3>5
      <4>2. HeldAt(t, h) /\ HeldAt(t, h)'
        BY <2>1, <4>1 DEF HeldAt
      <4>3. ASSUME NEW x \in Place, HeldAt(t, x)
            PROVE  x = h
        BY <4>2, <4>3, InAHouseOnly
      <4>4. ASSUME NEW x \in House, t \in tiles'[x]
            PROVE  FALSE
        <5>1. HeldAt(t, x) /\ x \in Place
          BY <3>2, <4>4 DEF HeldAt, Place
        <5>2. x = h
          BY <4>3, <5>1
        <5> QED BY <4>1, <4>4, <5>2
      <4>5. ASSUME NEW x \in Player
            PROVE  ~StoredAt(t, x)'
        <5>1. HeldAt(t, x) <=> HeldAt(t, x)'
          BY <2>1 DEF HeldAt, Has
        <5>2. x # h /\ x \in Place
          BY StorageAssumption DEF Place
        <5> QED BY <3>3, <4>3, <5>1, <5>2
      <4> QED BY <4>2, <4>4, <4>5 DEF StoredAt, Place
    <3> QED BY <2>1, <3>4, <3>5 DEF CrashKeeps, Place
  <2> QED BY <2>2, <2>3
<1>14. CASE SaveEnds
  <2>1. UNCHANGED <<online, row, self, floor, tiles, lost, unstored>>
    BY <1>14 DEF SaveEnds, memory, database
  <2>2. CASE saving.good
    <3>1. (\A p \in online : row[p] = self[p]) /\ tiles = floor /\ unstored = {}
      BY <1>14, <2>2 DEF SaveEnds, SavedSoFar
    <3> QED BY <2>1, <3>1 DEF CrashKeeps, HeldAt, StoredAt, Has, Place
  <2>3. CASE ~saving.good
    <3>1. moved' = moved
      BY <1>14, <2>3 DEF SaveEnds
    <3> QED BY <2>1, <3>1, KeepsTheRest DEF HeldAt, StoredAt, Has
  <2> QED BY <2>2, <2>3
<1>15. CASE Restarts
  <2>1. /\ online' = {} /\ floor' = tiles /\ unstored' = {} /\ UNCHANGED <<row, tiles>>
    BY <1>15 DEF Restarts, database
  <2> QED BY <2>1 DEF CrashKeeps, HeldAt, StoredAt, Has, Place
<1> QED BY <1>1, <1>2, <1>3, <1>4, <1>5, <1>6, <1>7, <1>8, <1>9, <1>10, <1>11, <1>12, <1>13,
           <1>14, <1>15 DEF Next

LEMMA StepNoMoney == TypeOK /\ NoMoneyInHouses /\ [Next]_vars => NoMoneyInHouses'
<1> SUFFICES ASSUME TypeOK, NoMoneyInHouses, [Next]_vars PROVE NoMoneyInHouses'
  OBVIOUS
<1>1. CASE UNCHANGED tiles /\ \A h \in House : floor'[h] \subseteq floor[h]
  BY <1>1 DEF NoMoneyInHouses
<1>2. ASSUME NEW p \in Player, NEW h \in House, NEW t \in Thing, Drops(p, h, t) \/ Takes(p, h, t)
      PROVE  NoMoneyInHouses'
  <2>1. tiles' = tiles /\ \A k \in House : floor'[k] \subseteq floor[k] \cup (Thing \ Coin)
    BY <1>2 DEF Drops, Takes, database, TypeOK
  <2> QED BY <2>1 DEF NoMoneyInHouses
<1>3. ASSUME NEW h \in House, NEW new, NEW s, NEW ok, NEW stored, SetOwnerEx(h, new, s, ok, stored)
      PROVE  UNCHANGED tiles /\ \A k \in House : floor'[k] \subseteq floor[k]
  BY <1>3 DEF SetOwnerEx, TypeOK
<1>4. ASSUME NEW ok \in BOOLEAN, SavesMap(ok) PROVE NoMoneyInHouses'
  <2>1. floor' = floor /\ \A h \in House : tiles'[h] \subseteq floor[h] \/ tiles'[h] = tiles[h]
    BY <1>4 DEF SavesMap, Stores, memory
  <2> QED BY <2>1 DEF NoMoneyInHouses
<1>5. CASE Restarts
  BY <1>5 DEF Restarts, database, NoMoneyInHouses
<1>6. ASSUME NEW h \in House, NEW stored \in BOOLEAN,
             \/ \E p \in Player, c \in Coin : Buys(p, h, c, stored)
             \/ \E p, q \in Player : Sells(p, q, h, stored)
             \/ \E ok \in BOOLEAN : Evicts(h, ok, stored)
      PROVE  NoMoneyInHouses'
  BY <1>1, <1>3, <1>6 DEF Buys, Sells, Evicts
<1>7. CASE UNCHANGED <<floor, tiles>>
  BY <1>7 DEF NoMoneyInHouses
<1>8. [Next]_vars =>
        \/ UNCHANGED <<floor, tiles>> \/ Restarts
        \/ \E p \in Player, h \in House, t \in Thing : Drops(p, h, t) \/ Takes(p, h, t)
        \/ \E ok \in BOOLEAN : SavesMap(ok)
        \/ \E h \in House, stored \in BOOLEAN :
              \/ \E p \in Player, c \in Coin : Buys(p, h, c, stored)
              \/ \E p, q \in Player : Sells(p, q, h, stored)
              \/ \E ok \in BOOLEAN : Evicts(h, ok, stored)
  BY DEF Next, vars, memory, database, Login, Logout, SavesPlayer, ScriptSaves, Gives, Sends,
         RentFalls, Warns, Pays, SaveBegins, SaveEnds, SavesHouses
<1> QED BY <1>2, <1>4, <1>5, <1>6, <1>7, <1>8

LEMMA StepSavedSoFar == TypeOK /\ SavedSoFar /\ [Next]_vars => SavedSoFar'
<1> SUFFICES ASSUME TypeOK, SavedSoFar, [Next]_vars PROVE SavedSoFar'
  OBVIOUS
<1>1. CASE saving' = Idle
  BY <1>1, IdleFacts DEF SavedSoFar
<1>2. CASE SaveBegins
  <2>1. /\ saving'.players = online /\ saving'.step = "players" /\ online' = online
        /\ saving'.good = ~saving'.shallow
    BY <1>2 DEF SaveBegins, memory
  <2> QED BY <2>1 DEF SavedSoFar
<1>3. ASSUME NEW p \in Player, NEW ok \in BOOLEAN, SavesPlayer(p, ok) PROVE SavedSoFar'
  <2>1. /\ saving'.players = saving.players \ {p} /\ saving'.step = "players" /\ saving.step = "players"
        /\ saving'.good = (saving.good /\ ok) /\ saving'.shallow = saving.shallow
    BY <1>3 DEF SavesPlayer, TypeOK
  <2>2. online' = online /\ self' = self
    BY <1>3 DEF SavesPlayer, memory
  <2>3. ASSUME saving'.good, NEW q \in online' \ saving'.players PROVE row'[q] = self'[q]
    <3>1. ok /\ saving.good /\ ~saving.shallow
      BY <2>1, <2>3 DEF SavedSoFar
    <3>2. row' = [row EXCEPT ![p] = self[p]]
      BY <1>3, <3>1 DEF SavesPlayer, SavePlayer
    <3>3. q \in Player /\ (q # p => row[q] = self[q])
      BY <2>1, <2>2, <2>3, <3>1 DEF SavedSoFar, TypeOK
    <3> QED BY <2>2, <3>2, <3>3 DEF TypeOK
  <2> QED BY <2>1, <2>3 DEF SavedSoFar
<1>4. ASSUME NEW ok \in BOOLEAN, SavesHouses(ok) PROVE SavedSoFar'
  <2>1. /\ saving'.players = {} /\ saving'.step \in {"map", "done"} /\ (ok => saving'.step = "map")
        /\ saving'.good = (saving.good /\ ok) /\ saving.players = {} /\ saving.step = "players"
        /\ saving'.shallow = saving.shallow
    BY <1>4 DEF SavesHouses, TypeOK
  <2>2. UNCHANGED <<online, self, row>>
    BY <1>4 DEF SavesHouses, memory
  <2> QED BY <2>1, <2>2 DEF SavedSoFar
<1>5. ASSUME NEW ok \in BOOLEAN, SavesMap(ok) PROVE SavedSoFar'
  <2>1. /\ saving'.players = {} /\ saving'.step = "done" /\ saving.step = "map" /\ saving.players = {}
        /\ saving'.good = (saving.good /\ ok) /\ saving'.shallow = saving.shallow
    BY <1>5 DEF SavesMap, SavedSoFar, TypeOK
  <2>2. UNCHANGED <<online, self, row, floor>> /\ (ok => tiles' = floor /\ unstored' = {})
    BY <1>5 DEF SavesMap, Stores, memory
  <2> QED BY <2>1, <2>2 DEF SavedSoFar
<1>6. CASE UNCHANGED vars
  BY <1>6 DEF vars, memory, database, ghosts, SavedSoFar
<1>7. [Next]_vars => \/ saving' = Idle \/ SaveBegins \/ UNCHANGED vars
                     \/ \E p \in Player, ok \in BOOLEAN : SavesPlayer(p, ok)
                     \/ \E ok \in BOOLEAN : SavesHouses(ok) \/ SavesMap(ok)
  BY DEF Next, Runs, Login, Logout, ScriptSaves, Gives, Sends, Drops, Takes, Buys, Sells, Evicts, RentFalls, Warns,
         Pays, SaveEnds, Restarts
<1> QED BY <1>1, <1>2, <1>3, <1>4, <1>5, <1>6, <1>7

LEMMA StepOwnerIsStored == TypeOK /\ OwnerIsStored /\ [Next]_vars => OwnerIsStored'
<1> SUFFICES ASSUME TypeOK, OwnerIsStored, [Next]_vars PROVE OwnerIsStored'
  OBVIOUS
<1>1. CASE UNCHANGED <<house, houseRow, unsaved>>
  BY <1>1 DEF OwnerIsStored
<1>2. ASSUME NEW h \in House, NEW new \in Player \cup {None}, NEW ok, NEW stored, NEW s,
             SetOwnerEx(h, new, s, ok, stored)
      PROVE  OwnerIsStored'
  <2>1. house' \in [House -> {house'[k] : k \in House}] /\ \A k \in House \ {h} : house'[k] = house[k]
    BY <1>2 DEF SetOwnerEx, TypeOK
  <2>2. SaveHouse(h, stored)
    BY <1>2 DEF SetOwnerEx
  <2> QED BY <2>1, <2>2 DEF SaveHouse, OwnerIsStored, TypeOK
<1>3. ASSUME NEW h \in House, RentFalls(h) \/ Warns(h) \/ \E c \in Coin : Pays(h, c) PROVE OwnerIsStored'
  <2>1. UNCHANGED <<houseRow, unsaved>>
    BY <1>3 DEF RentFalls, Warns, Pays, database, ghosts
  <2>2. house[h] \in Deed /\ house \in [House -> Deed]
    BY DEF TypeOK
  <2>3. CASE RentFalls(h)
    <3>1. house' = [house EXCEPT ![h] = [@ EXCEPT !.due = TRUE]]
      BY <2>3 DEF RentFalls
    <3> QED BY <2>1, <2>2, <3>1 DEF OwnerIsStored, Deed
  <2>4. CASE Warns(h)
    <3>1. PICK n : house' = [house EXCEPT ![h] = [@ EXCEPT !.warnings = n]]
      BY <2>4 DEF Warns
    <3>2. \A k \in House : house'[k].owner = house[k].owner
      BY <2>2, <3>1 DEF Deed
    <3> QED BY <2>1, <3>2 DEF OwnerIsStored
  <2>5. ASSUME NEW c \in Coin, Pays(h, c) PROVE OwnerIsStored'
    <3>1. house' = [house EXCEPT ![h] = [@ EXCEPT !.due = FALSE]]
      BY <2>5 DEF Pays
    <3> QED BY <2>1, <2>2, <3>1 DEF OwnerIsStored, Deed
  <2> QED BY <1>3, <2>3, <2>4, <2>5
<1>4. ASSUME NEW ok \in BOOLEAN, SavesHouses(ok) PROVE OwnerIsStored'
  <2>1. house' = house
    BY <1>4 DEF SavesHouses, memory
  <2>2. PICK done \in SUBSET House :
           /\ houseRow' = [k \in House |-> IF k \in done THEN house[k] ELSE houseRow[k]]
           /\ unsaved' = (unsaved \cup House) \ done
    BY <1>4 DEF SavesHouses
  <2> QED BY <2>1, <2>2 DEF OwnerIsStored
<1>5. CASE Restarts
  BY <1>5 DEF Restarts, database, OwnerIsStored
<1>6. ASSUME NEW p \in Player, NEW h \in House, NEW stored \in BOOLEAN,
             \/ \E c \in Coin : Buys(p, h, c, stored)
             \/ \E q \in Player : Sells(q, p, h, stored)
      PROVE  OwnerIsStored'
  BY <1>2, <1>6 DEF Buys, Sells
<1>7. ASSUME NEW h \in House, NEW ok \in BOOLEAN, NEW stored \in BOOLEAN, Evicts(h, ok, stored)
      PROVE  OwnerIsStored'
  BY <1>2, <1>7 DEF Evicts
<1>8. [Next]_vars =>
        \/ UNCHANGED <<house, houseRow, unsaved>> \/ Restarts
        \/ \E h \in House : RentFalls(h) \/ Warns(h) \/ \E c \in Coin : Pays(h, c)
        \/ \E ok \in BOOLEAN : SavesHouses(ok)
        \/ \E h \in House, stored \in BOOLEAN :
              \/ \E p \in Player, c \in Coin : Buys(p, h, c, stored)
              \/ \E p, q \in Player : Sells(p, q, h, stored)
              \/ \E ok \in BOOLEAN : Evicts(h, ok, stored)
  <2>. DEFINE Kept == UNCHANGED <<house, houseRow, unsaved>>
  <2>1. ASSUME NEW p \in Player
        PROVE  /\ Login(p) => Kept
               /\ \A ok \in BOOLEAN : Logout(p, ok) => Kept
               /\ \A shallow, ok \in BOOLEAN : ScriptSaves(p, shallow, ok) => Kept
    BY DEF Login, Logout, ScriptSaves, memory, database, ghosts
  <2>2. ASSUME NEW p \in Player, NEW ok \in BOOLEAN
        PROVE  SavesPlayer(p, ok) => Kept
    <3>1. SavesPlayer(p, ok) => UNCHANGED <<memory, houseRow, ghosts>>
      BY DEF SavesPlayer
    <3>. QED  BY <3>1 DEF memory, ghosts
  <2>3. ASSUME NEW ok \in BOOLEAN
        PROVE  SavesMap(ok) => Kept
    <3>1. SavesMap(ok) => UNCHANGED <<memory, houseRow, unsaved>>
      BY DEF SavesMap
    <3>. QED  BY <3>1 DEF memory
  <2>4. ASSUME NEW p \in Player, NEW t \in Thing, NEW h \in House
        PROVE  Drops(p, h, t) \/ Takes(p, h, t) => Kept
    BY DEF Drops, Takes, database
  <2>5. SaveBegins \/ SaveEnds => Kept
    BY DEF SaveBegins, SaveEnds, memory, database, ghosts
  <2>6. UNCHANGED vars => Kept
    BY DEF vars, memory, database, ghosts
  <2>7. ASSUME NEW p \in Player, NEW q \in Player, NEW t \in Thing
        PROVE  /\ Gives(p, q, t) => Kept
               /\ \A ok \in BOOLEAN : Sends(p, q, t, ok) => Kept
    BY DEF Gives, Sends, database
  <2>. HIDE DEF Kept
  <2>8. [Next]_vars => \/ Kept \/ Restarts
                       \/ \E h \in House : RentFalls(h) \/ Warns(h) \/ \E c \in Coin : Pays(h, c)
                       \/ \E ok \in BOOLEAN : SavesHouses(ok)
                       \/ \E h \in House, stored \in BOOLEAN :
                             \/ \E p \in Player, c \in Coin : Buys(p, h, c, stored)
                             \/ \E p, q \in Player : Sells(p, q, h, stored)
                             \/ \E ok \in BOOLEAN : Evicts(h, ok, stored)
    BY <2>1, <2>2, <2>3, <2>4, <2>5, <2>6, <2>7 DEF Next
  <2>. QED  BY <2>8 DEF Kept
<1> QED BY <1>1, <1>3, <1>4, <1>5, <1>6, <1>7, <1>8

-----------------------------------------------------------------------------
(* The theorems. *)

Inv == TypeOK /\ HeldOnce /\ CrashKeeps /\ OwnerIsStored /\ SavedSoFar /\ NoMoneyInHouses

LEMMA InitInv == Init => Inv
<1> SUFFICES ASSUME Init PROVE Inv
  OBVIOUS
<1>1. \A t \in Thing, x \in Place : /\ HeldAt(t, x) <=> x \in Player /\ t \in row[x]
                                    /\ StoredAt(t, x) <=> x \in Player /\ t \in row[x]
  BY StorageAssumption DEF Init, HeldAt, StoredAt, Has, Place
<1>2. HeldOnce
  <2>1. ASSUME NEW t \in Thing PROVE \E x \in Place : \A y \in Place : HeldAt(t, y) <=> y = x
    <3>1. PICK p \in Player : {q \in Player : t \in row[q]} = {p}
      BY DEF Init
    <3>2. \A y \in Player : t \in row[y] <=> y = p
      BY <3>1
    <3> QED BY <1>1, <3>2 DEF Place
  <2> QED BY <2>1 DEF HeldOnce
<1>3. CrashKeeps
  BY <1>1 DEF Init, CrashKeeps
<1>4. OwnerIsStored /\ SavedSoFar /\ NoMoneyInHouses
  BY IdleFacts DEF Init, OwnerIsStored, SavedSoFar, NoMoneyInHouses
<1> QED BY <1>2, <1>3, <1>4, InitTypeOK DEF Inv

LEMMA StepInv == Inv /\ [Next]_vars => Inv'
BY StepTypeOK, StepMoves, StepHeldOnce, StepCrashKeeps, StepOwnerIsStored, StepSavedSoFar, StepNoMoney
   DEF Inv

LEMMA Invariance == Spec => []Inv
BY InitInv, StepInv, PTL DEF Spec

\* A thing is in one place at a time, whatever goes from hand to hand, with others
\* online or not, and wherever a save fails or the process ends.
THEOREM HeldInOnePlace == Spec => []HeldOnce
BY Invariance, PTL DEF Inv

\* What did not move since the last complete save is stored where it is, at every
\* moment, and the next process finds it there; but for what lies in a house and a
\* failed store left out, which is in memory only until the next store.
THEOREM CrashesKeep == Spec => []CrashKeeps
BY Invariance, PTL DEF Inv

\* The owner of a house whose last save did not fail is the one its row names.
THEOREM OwnersAreStored == Spec => []OwnerIsStored
BY Invariance, PTL DEF Inv

-----------------------------------------------------------------------------
(* The refinement. *)

\* Where the ledger has a thing is where it is held.
Maps == \A t \in Thing :
            IF t \in Gone THEN PlaceOf(t) = None
            ELSE PlaceOf(t) \in Place /\ \A z \in Place : HeldAt(t, z) <=> z = PlaceOf(t)

LEMMA OnceMaps == HeldOnce => Maps
<1> SUFFICES ASSUME HeldOnce, NEW t \in Thing
             PROVE  IF t \in Gone THEN PlaceOf(t) = None
                    ELSE PlaceOf(t) \in Place /\ \A z \in Place : HeldAt(t, z) <=> z = PlaceOf(t)
  BY DEF Maps
<1>1. CASE t \in Gone
  BY <1>1 DEF Gone, PlaceOf
<1>2. CASE t \notin Gone
  <2>1. PICK x \in Place : \A y \in Place : HeldAt(t, y) <=> y = x
    BY <1>2 DEF HeldOnce, Gone
  <2>2. {z \in Place : HeldAt(t, z)} = {x}
    BY <2>1
  <2>3. PlaceOf(t) = x
    BY <1>2, <2>2 DEF PlaceOf, Gone
  <2> QED BY <1>2, <2>1, <2>3
<1> QED BY <1>1, <1>2

LEMMA OnceMapsNext == HeldOnce' => Maps'
BY OnceMaps, PTL

LEMMA MovesTheLedger ==
    ASSUME Maps, Maps', Moves
    PROVE  [Ledger!Next]_(Ledger!vars)
<1> DEFINE place == [t \in Thing |-> PlaceOf(t)]
<1>1. \A t \in Thing : place[t] = PlaceOf(t) /\ place'[t] = PlaceOf(t)'
  OBVIOUS
<1>2. ASSUME Same PROVE \A t \in Thing \ Gone' : t \notin Gone => PlaceOf(t)' = PlaceOf(t)
  BY <1>2 DEF Same, Maps
<1>3. CASE Rests
  <2>1. \A t \in Thing : PlaceOf(t)' = PlaceOf(t)
    BY <1>2, <1>3 DEF Rests, Maps
  <2>2. UNCHANGED place
    BY <2>1
  <2> QED BY <1>3, <2>2 DEF Rests, Ledger!vars
<1>4. CASE Fails
  <2> DEFINE S == Thing \cap Gone'
  <2>1. \A t \in Thing : PlaceOf(t)' = IF t \in S THEN None ELSE PlaceOf(t)
    BY <1>2, <1>4 DEF Fails, Maps
  <2>2. place' = [t \in Thing |-> IF t \in S THEN None ELSE place[t]]
    BY <2>1
  <2>3. Ledger!Lose(S)
    BY <1>4, <2>2 DEF Ledger!Lose, Ledger!Moved, Fails
  <2>4. S \in SUBSET Thing
    OBVIOUS
  <2> QED BY <2>3, <2>4 DEF Ledger!Next
<1>5. ASSUME NEW c \in Coin, Spends(c) PROVE Ledger!Next
  <2>1. \A t \in Thing : PlaceOf(t)' = IF t \in {c} THEN None ELSE PlaceOf(t)
    BY <1>2, <1>5 DEF Spends, Maps
  <2>2. place' = [t \in Thing |-> IF t \in {c} THEN None ELSE place[t]]
    BY <2>1
  <2>3. Ledger!Pay(c)
    BY <1>5, <2>2 DEF Ledger!Pay, Ledger!Moved, Spends
  <2> QED BY <2>3 DEF Ledger!Next
<1>6. ASSUME NEW S \in SUBSET Thing, NEW x \in Place, NEW y \in Place, Passes(S, x, y)
      PROVE  Ledger!Next
  <2> DEFINE R == S \ Gone
  <2>1. \A t \in R : place[t] = x
    BY <1>6 DEF Passes, Maps
  <2>2. \A t \in Thing : PlaceOf(t)' = IF t \in R THEN y ELSE PlaceOf(t)
    BY <1>6 DEF Passes, Shifts, Maps
  <2>3. place' = [t \in Thing |-> IF t \in R THEN y ELSE place[t]]
    BY <2>2
  <2>4. Ledger!Pass(R, x, y)
    BY <1>6, <2>1, <2>3 DEF Ledger!Pass, Ledger!Moved, Passes
  <2>5. R \in SUBSET Thing
    OBVIOUS
  <2> QED BY <2>4, <2>5 DEF Ledger!Next
<1> QED BY <1>3, <1>4, <1>5, <1>6 DEF Moves

LEMMA StepLedger == Inv /\ Inv' /\ [Next]_vars => [Ledger!Next]_(Ledger!vars)
<1> SUFFICES ASSUME Inv, Inv', [Next]_vars PROVE [Ledger!Next]_(Ledger!vars)
  OBVIOUS
<1>1. Moves
  BY StepMoves DEF Inv
<1>2. Maps /\ Maps'
  BY OnceMaps, OnceMapsNext DEF Inv
<1> QED BY <1>1, <1>2, MovesTheLedger

LEMMA InitLedger == Init => Ledger!Init
<1> SUFFICES ASSUME Init PROVE Ledger!Init
  OBVIOUS
<1>1. Maps
  BY InitInv, OnceMaps DEF Inv
<1>2. Gone = {}
  BY DEF Init, Gone
<1>3. \A t \in Thing : PlaceOf(t) \in Place
  BY <1>1, <1>2 DEF Maps
<1> QED BY <1>3 DEF Init, Ledger!Init

\* The storage implements the ledger: seen from outside, things pass from place to
\* place and coins are paid, things are lost only by a fault, and logins, logouts,
\* saves and restarts move nothing.
THEOREM Implements == Spec => ImplementsLedger
<1>1. Inv /\ Inv' /\ [Next]_vars => [Ledger!Next]_(Ledger!vars)
  BY StepLedger
<1> QED BY <1>1, InitLedger, Invariance, PTL DEF Spec, ImplementsLedger, Ledger!Spec
=============================================================================
