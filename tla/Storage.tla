------------------------------- MODULE Storage -------------------------------
(***************************************************************************)
(* What the game holds in memory and what the database holds of it         *)
(* (iologindata.cpp, iomapserialize.cpp, map.cpp, house.cpp, game.cpp).    *)
(* Players carry things, keep them in depots, lay them down in houses, and *)
(* send them to others, who may be offline: then a copy of the recipient   *)
(* is loaded from his row, changed, saved and deleted ("virtual" players). *)
(* Everything in memory is saved from time to time, by one transaction for *)
(* each player and two for the houses; any of them may fail, and the       *)
(* process may end between any two.                                        *)
(*                                                                         *)
(* A coin stands for a unit of a player's balance: it moves as things do.  *)
(* A task runs alone, but the steps of a save are actions of their own,    *)
(* because only what is committed outlives a crash.                        *)
(***************************************************************************)
EXTENDS Integers, FiniteSets

CONSTANTS
    Player, House, Thing, Coin,
    Relational,     \* whether houses are stored by item (HOUSE_STORAGE is off)
    WarningsLimit,
    MaxFaults,      \* bound: crashes and failed saves
    None

ASSUME StorageAssumption ==
    /\ Coin \subseteq Thing /\ None \notin Player \cup House /\ Player \cap House = {}
    /\ WarningsLimit \in Nat /\ MaxFaults \in Nat /\ Relational \in BOOLEAN

VARIABLES
    online,     \* Player::autoList
    self,       \* what each of them has on him and in his depots
    floor,      \* what lies in each house
    house,      \* owner, paidUntil and rentWarnings of each house
    row,        \* player_items, player_depotitems, balance
    tiles,      \* tiles and tile_items, or house_data
    houseRow,   \* houses
    saving,     \* what saveGameState has still to do
    moved,      \* ghost: what has moved since the last complete save or start
    lost,       \* ghost: what was given up for lost, or for held twice, by a fault: what had
                \* moved, and what was unstored when the process ended
    unstored,   \* ghost: what lay in houses and the last store of them, which failed, left out
    paid,       \* ghost: the coins spent on houses
    unsaved,    \* ghost: the houses whose last save failed
    faults      \* bound

memory == <<online, self, floor, house>>
database == <<row, tiles, houseRow>>
ghosts == <<moved, lost, unstored, paid, unsaved>>
vars == <<memory, database, saving, ghosts, faults>>

Idle == [players |-> {}, shallow |-> FALSE, step |-> "no", good |-> TRUE]

\* A transaction that was committed, or rolled back by ~DBTransaction.
Commits(ok) == /\ ok \/ faults < MaxFaults
               /\ faults' = IF ok THEN faults ELSE faults + 1

\* The next task: no save is under way.
Runs == saving = Idle /\ UNCHANGED saving

-----------------------------------------------------------------------------
(* getPlayerByNameEx and getPlayerByGuidEx: who is online is found in memory; *)
(* who is not is loaded, and exists until he is saved and deleted.            *)

Has(p) == IF p \in online THEN self[p] ELSE row[p]

\* Mutant: a copy of a player that is also loaded when he is online.
InMemoryNever(s, p, S) == s

InMemory(s, p, S) == IF p \in online THEN [s EXCEPT ![p] = @ \cup S] ELSE s

InRow(r, p, S, ok) == IF p \in online \/ ~ok THEN r ELSE [r EXCEPT ![p] = @ \cup S]

\* S goes to p.  What a copy got that could not be saved is gone with it.
Goes(S, p, s, ok) ==
    /\ self' = InMemory(s, p, S)
    /\ row' = InRow(row, p, S, ok)
    /\ lost' = IF ok THEN lost ELSE lost \cup S
    /\ p \in online => ok

-----------------------------------------------------------------------------
(* Players. *)

\* loadPlayer, placeCreature.
Login(p) ==
    /\ Runs /\ p \notin online
    /\ online' = online \cup {p} /\ self' = [self EXCEPT ![p] = row[p]]
    /\ UNCHANGED <<floor, house, database, ghosts, faults>>

\* Mutant: a transaction that is never committed.
SaveNobody(p, shallow, ok) == row

\* The row that savePlayer leaves: a shallow save stores the balance and not the
\* things.  (Bound: no player has save = 0 in the database, or a script's order not
\* to be saved, of whom savePlayer stores the date of the login only.)
SavePlayer(p, shallow, ok) ==
    IF ~ok THEN row
    ELSE [row EXCEPT ![p] = IF shallow THEN (@ \ Coin) \cup (self[p] \cap Coin) ELSE self[p]]

\* Player::onCreatureDisappear, which tries three times to save him.
Logout(p, ok) ==
    /\ Runs /\ p \in online /\ Commits(ok)
    /\ online' = online \ {p} /\ self' = [self EXCEPT ![p] = {}]
    /\ row' = SavePlayer(p, FALSE, ok)
    /\ lost' = IF ok THEN lost ELSE lost \cup moved
    /\ UNCHANGED <<floor, house, tiles, houseRow, moved, unstored, paid, unsaved>>

\* doPlayerSave: a script saves one player, now.
ScriptSaves(p, shallow, ok) ==
    /\ Runs /\ p \in online /\ Commits(ok)
    /\ row' = SavePlayer(p, shallow, ok)
    /\ UNCHANGED <<memory, tiles, houseRow, ghosts>>

\* One player gives a thing to another, or drops it in a house, or takes it.
Gives(p, q, t) ==
    /\ Runs /\ {p, q} \subseteq online /\ t \in self[p]
    /\ Goes({t}, q, [self EXCEPT ![p] = @ \ {t}], TRUE) /\ moved' = moved \cup {t}
    /\ UNCHANGED <<online, floor, house, tiles, houseRow, unstored, paid, unsaved, faults>>

Drops(p, h, t) ==
    /\ Runs /\ p \in online /\ t \in self[p] \ Coin /\ house[h].owner # None
    /\ self' = [self EXCEPT ![p] = @ \ {t}] /\ floor' = [floor EXCEPT ![h] = @ \cup {t}]
    /\ moved' = moved \cup {t}
    /\ UNCHANGED <<online, house, database, lost, unstored, paid, unsaved, faults>>

Takes(p, h, t) ==
    /\ Runs /\ p \in online /\ t \in floor[h]
    /\ self' = [self EXCEPT ![p] = @ \cup {t}] /\ floor' = [floor EXCEPT ![h] = @ \ {t}]
    /\ moved' = moved \cup {t}
    /\ UNCHANGED <<online, house, database, lost, unstored, paid, unsaved, faults>>

\* playerMail, and transferMoneyTo, to whoever has the name.
Sends(p, q, t, ok) ==
    /\ Runs /\ p \in online /\ q # p /\ t \in self[p] /\ Commits(ok)
    /\ Goes({t}, q, [self EXCEPT ![p] = @ \ {t}], ok) /\ moved' = moved \cup {t}
    /\ UNCHANGED <<online, floor, house, tiles, houseRow, unstored, paid, unsaved>>

-----------------------------------------------------------------------------
(* Houses. *)

\* Mutant: setOwner, which does not save the house.
SaveNothing(h, ok) == UNCHANGED <<houseRow, unsaved>>

SaveHouse(h, ok) ==
    /\ houseRow' = IF ok THEN [houseRow EXCEPT ![h] = house'[h]] ELSE houseRow
    /\ unsaved' = IF ok THEN unsaved \ {h} ELSE unsaved \cup {h}

\* setOwnerEx: what lies in the house goes to the depot of its owner, and the
\* next has it.  s: what everybody has when it is called.
SetOwnerEx(h, new, s, ok, stored) ==
    LET old == house[h].owner
    IN  /\ house' = [house EXCEPT ![h] = IF old = None THEN [@ EXCEPT !.owner = new]
                                                 ELSE [owner |-> new, due |-> TRUE, warnings |-> 0]]
        /\ IF old = None THEN self' = s /\ ok /\ UNCHANGED <<floor, row, lost>>
                         ELSE Goes(floor[h], old, s, ok) /\ floor' = [floor EXCEPT ![h] = {}]
        /\ SaveHouse(h, stored)
        /\ Commits(ok /\ stored)
        /\ UNCHANGED <<online, tiles, unstored>>

\* houseBuy.
Buys(p, h, c, stored) ==
    /\ Runs /\ p \in online /\ house[h].owner = None /\ c \in self[p] \cap Coin
    /\ \A k \in House : house[k].owner # p
    /\ SetOwnerEx(h, p, [self EXCEPT ![p] = @ \ {c}], TRUE, stored)
    /\ paid' = paid \cup {c} /\ moved' = moved \cup {c}

\* TransferItem::onTradeEvent.
Sells(p, q, h, stored) ==
    /\ Runs /\ house[h].owner = p /\ q # p /\ {p, q} \subseteq online
    /\ SetOwnerEx(h, q, self, TRUE, stored)
    /\ moved' = moved \cup floor[h] /\ UNCHANGED paid

\* Time passes.
RentFalls(h) ==
    /\ Runs /\ ~house[h].due
    /\ house' = [house EXCEPT ![h].due = TRUE]
    /\ UNCHANGED <<online, self, floor, database, ghosts, faults>>

\* payHouse: payRent, from the balance.  (What an offline owner pays is taken
\* from a copy that is deleted without being saved.)
Pays(h, c) ==
    LET p == house[h].owner
    IN  /\ Runs /\ house[h].due /\ p # None /\ c \in Has(p) \cap Coin
        /\ house' = [house EXCEPT ![h].due = FALSE]
        /\ IF p \in online
           THEN self' = [self EXCEPT ![p] = @ \ {c}] /\ paid' = paid \cup {c} /\ moved' = moved \cup {c}
           ELSE UNCHANGED <<self, paid, moved>>
        /\ UNCHANGED <<online, floor, database, lost, unstored, unsaved, faults>>

\* payHouse: a letter to who cannot pay.
Warns(h) ==
    LET p == house[h].owner
    IN  /\ Runs /\ house[h].due /\ p # None /\ Has(p) \cap Coin = {}
        /\ house[h].warnings < WarningsLimit
        /\ house' = [house EXCEPT ![h].warnings = @ + 1]
        /\ UNCHANGED <<online, self, floor, database, ghosts, faults>>

\* payHouse: who was warned too often loses the house; who is not premium, or
\* has been away for too long, may lose it whenever the rent falls.
Evicts(h, ok, stored) ==
    /\ Runs /\ house[h].due /\ house[h].owner # None
    /\ SetOwnerEx(h, None, self, ok, stored)
    /\ moved' = moved \cup floor[h] /\ UNCHANGED paid

-----------------------------------------------------------------------------
(* saveGameState. *)

SaveBegins ==
    /\ saving = Idle
    /\ \E shallow \in BOOLEAN :
          saving' = [players |-> online, shallow |-> shallow, step |-> "players", good |-> ~shallow]
    /\ UNCHANGED <<memory, database, ghosts, faults>>

SavesPlayer(p, ok) ==
    /\ saving.step = "players" /\ p \in saving.players /\ Commits(ok)
    /\ row' = SavePlayer(p, saving.shallow, ok)
    /\ saving' = [saving EXCEPT !.players = @ \ {p}, !.good = @ /\ ok]
    /\ UNCHANGED <<memory, tiles, houseRow, ghosts>>

\* Map::saveMap tries three times to save the houses, and then what lies in them.
\* The transaction is committed when a house could not be saved.
SavesHouses(ok) ==
    /\ saving.step = "players" /\ saving.players = {} /\ Commits(ok)
    /\ \E done \in SUBSET House :
          /\ ok <=> done = House
          /\ houseRow' = [h \in House |-> IF h \in done THEN house[h] ELSE houseRow[h]]
          /\ unsaved' = (unsaved \cup House) \ done
          /\ \E next \in {"map"} \cup (IF ~ok /\ done = {} THEN {"done"} ELSE {}) :
                saving' = [saving EXCEPT !.step = next, !.good = @ /\ ok]
    /\ UNCHANGED <<memory, row, tiles, moved, lost, unstored, paid>>

\* Mutant: a save of the houses' things that writes nothing.
StoreNothing(ok) == {tiles}

\* What the tables hold then.  After a failure, what they held; or, stored by item,
\* what could be written: saveMapRelational commits when saveItems has failed.
Stores(ok) ==
    IF ok THEN {floor}
    ELSE {tiles} \cup IF Relational THEN {s \in [House -> SUBSET Thing] :
                                            \A h \in House : s[h] \subseteq floor[h]} ELSE {}

SavesMap(ok) ==
    /\ saving.step = "map" /\ Commits(ok)
    /\ tiles' \in Stores(ok)
    /\ unstored' = IF ok THEN {}
                   ELSE IF tiles' = tiles THEN unstored
                   ELSE UNION {floor[h] \ tiles'[h] : h \in House}
    /\ saving' = [saving EXCEPT !.step = "done", !.good = @ /\ ok]
    /\ UNCHANGED <<memory, row, houseRow, moved, lost, paid, unsaved>>

SaveEnds ==
    /\ saving.step = "done" /\ saving' = Idle
    /\ moved' = IF saving.good THEN {} ELSE moved
    /\ UNCHANGED <<memory, database, lost, unstored, paid, unsaved, faults>>
-----------------------------------------------------------------------------
\* The process ends, whenever it may; the next one loads what is stored
\* (loadHouses, loadMap) and nobody is online.
Restarts ==
    /\ faults < MaxFaults /\ faults' = faults + 1
    /\ online' = {} /\ self' = [p \in Player |-> {}]
    /\ floor' = tiles /\ house' = houseRow /\ saving' = Idle
    /\ lost' = lost \cup moved \cup unstored
    /\ moved' = {} /\ unstored' = {} /\ unsaved' = {}
    /\ UNCHANGED <<database, paid>>

Next ==
    \/ \E p \in Player : Login(p) \/ \E ok \in BOOLEAN : Logout(p, ok) \/ SavesPlayer(p, ok)
    \/ \E p \in Player, shallow, ok \in BOOLEAN : ScriptSaves(p, shallow, ok)
    \/ \E p, q \in Player, t \in Thing : Gives(p, q, t) \/ \E ok \in BOOLEAN : Sends(p, q, t, ok)
    \/ \E p \in Player, h \in House, t \in Thing : Drops(p, h, t) \/ Takes(p, h, t)
    \/ \E h \in House, stored \in BOOLEAN :
          \/ \E p \in Player, c \in Coin : Buys(p, h, c, stored)
          \/ \E p, q \in Player : Sells(p, q, h, stored)
          \/ \E ok \in BOOLEAN : Evicts(h, ok, stored)
    \/ \E h \in House : RentFalls(h) \/ Warns(h) \/ \E c \in Coin : Pays(h, c)
    \/ SaveBegins \/ SaveEnds \/ Restarts
    \/ \E ok \in BOOLEAN : SavesHouses(ok) \/ SavesMap(ok)

\* Everybody is offline, and everything is in a row.
Init ==
    /\ online = {} /\ self = [p \in Player |-> {}]
    /\ floor = [h \in House |-> {}] /\ tiles = floor
    /\ house = [h \in House |-> [owner |-> None, due |-> TRUE, warnings |-> 0]] /\ houseRow = house
    /\ row \in [Player -> SUBSET Thing] /\ \A t \in Thing : \E p \in Player : {q \in Player : t \in row[q]} = {p}
    /\ saving = Idle /\ moved = {} /\ lost = {} /\ unstored = {}
    /\ paid = {} /\ unsaved = {} /\ faults = 0

Spec == Init /\ [][Next]_vars

-----------------------------------------------------------------------------
(* Properties. *)

Deed == [owner : Player \cup {None}, due : BOOLEAN, warnings : Nat]

TypeOK ==
    /\ online \in SUBSET Player
    /\ self \in [Player -> SUBSET Thing] /\ row \in [Player -> SUBSET Thing]
    /\ floor \in [House -> SUBSET Thing] /\ tiles \in [House -> SUBSET Thing]
    /\ house \in [House -> Deed] /\ houseRow \in [House -> Deed]
    /\ saving \in [players : SUBSET online, shallow : BOOLEAN,
                   step : {"no", "players", "map", "done"}, good : BOOLEAN]
    /\ moved \in SUBSET Thing /\ lost \in SUBSET Thing /\ unstored \in SUBSET Thing
    /\ paid \in SUBSET Coin /\ unsaved \in SUBSET House
    /\ faults \in 0 .. MaxFaults

\* How far a save has come: while it is under way nothing moves, and if no
\* transaction of it has failed, what it has passed is as it is in memory.
SavedSoFar ==
    /\ saving.step = "no" => saving = Idle
    /\ saving.good => ~saving.shallow
    /\ saving.step \in {"map", "done"} => saving.players = {}
    /\ saving.step # "no" /\ saving.good => \A p \in online \ saving.players : row[p] = self[p]
    /\ saving.step = "done" /\ saving.good => tiles = floor /\ unstored = {}

Place == Player \cup House

HeldAt(t, x) == t \in IF x \in House THEN floor[x] ELSE Has(x)
StoredAt(t, x) == t \in IF x \in House THEN tiles[x] ELSE row[x]

\* Whatever players and houses give to each other, online or not, a thing is in
\* one place: with a player in memory, in the row of one who is not online, or in
\* a house.  What may be lost, or be twice, by a fault is what has moved since the
\* last complete save, when the process ends or who logs out or is away cannot be
\* saved; and what the last store of the houses left out, if the process ends
\* before the next one.
HeldOnce ==
    \A t \in Thing \ (lost \cup paid) : \E x \in Place : \A y \in Place : HeldAt(t, y) <=> y = x

\* What has not moved since the last complete save would be found by the next
\* process where it is, at every moment, also in the middle of a save: unless it
\* is in a house, and the last store of the houses was committed without it,
\* though it had failed (saveMapRelational ignores what saveItems returns).  Then
\* it is stored nowhere: until the next store it is in memory only.
CrashKeeps ==
    \A t \in Thing \ (lost \cup moved) :
        IF t \in unstored
        THEN (\E h \in House : HeldAt(t, h)) /\ \A x \in Place : ~StoredAt(t, x)
        ELSE \A x \in Place : StoredAt(t, x) <=> HeldAt(t, x)

\* The row of a house names its owner, unless its last save has failed: nobody
\* owns after a crash what was sold, or pays again for what was bought.
OwnerIsStored ==
    \A h \in House \ unsaved : houseRow[h].owner = house[h].owner

\* Seen from outside, things change hands, coins are paid, and things are lost when
\* there is a fault, and nothing else happens to them: a login, a logout, a save
\* and a restart move nothing.
PlaceOf(t) ==
    LET at == {x \in Place : HeldAt(t, x)}
    IN  IF t \in lost \cup paid \/ at = {} THEN None ELSE CHOOSE x \in at : TRUE

Ledger == INSTANCE Ledger WITH place <- [t \in Thing |-> PlaceOf(t)], Nowhere <- None

ImplementsLedger == Ledger!Spec
=============================================================================
