------------------------------ MODULE Creatures ------------------------------
(***************************************************************************)
(* The life of creatures (game.cpp, creature.cpp, monster.cpp) and of the  *)
(* spawns that make monsters (spawn.cpp).  Creatures are placed, move,     *)
(* see each other come and go, attack, summon, are convinced, die, are     *)
(* removed, and are freed when nobody holds a reference to them.  Every    *)
(* action is a task of the dispatcher thread, or the visit of one creature *)
(* in a pass of checkCreatures.                                            *)
(*                                                                         *)
(* A creature is an address.  The map is a set of spots, and Sight says    *)
(* which spots are seen from which.  What happens to a creature happens in *)
(* an order: an operation takes the world as it is to the world as it      *)
(* leaves it, and a hook that is called for all spectators is folded over  *)
(* them.  What a removed creature attacks, follows or sees is not read     *)
(* again and is cleared.                                                   *)
(***************************************************************************)
EXTENDS Integers, FiniteSets, Sequences

CONSTANTS
    Player, Monster,    \* bound: the addresses at which creatures are allocated
    Sight,              \* the spots of the map (bound), with those seen from each
    Order,              \* bound: the order in which spectators are told
    Places,             \* the places of a spawn, each with its spot
    None

Creature == Player \cup Monster
Spot == DOMAIN Sight

ASSUME CreaturesAssumption ==
    /\ Player \cap Monster = {} /\ None \notin Creature /\ Spot # {}
    /\ \A x \in Spot : x \in Sight[x] /\ \A y \in Sight[x] : x \in Sight[y]
    /\ Order \in Seq(Creature) /\ \A c \in Creature : \E i \in DOMAIN Order : Order[i] = c
    /\ \A i, j \in DOMAIN Order : Order[i] = Order[j] => i = j
    /\ IsFiniteSet(DOMAIN Places) /\ \A s \in DOMAIN Places : Places[s] \in Spot

VARIABLES
    world,      \* the creatures
    spawned,    \* Spawn::spawnedMap, by place
    event       \* whether checkSpawnEvent is set

vars == <<world, spawned, event>>

\* No object.  listed: in a vector of checked creatures, or about to be; freed:
\* how often it is in releaseThings.
Nothing == [at |-> "none", spot |-> CHOOSE x \in Spot : TRUE, alive |-> TRUE, idle |-> TRUE, inRange |-> FALSE,
            checked |-> FALSE, listed |-> FALSE, targets |-> {}, friends |-> {},
            attacked |-> None, follow |-> None, master |-> None, summons |-> {},
            spawn |-> FALSE, refs |-> 0, freed |-> 0]

Plays(w, c) == w[c].at = "game"
InGame(w) == {c \in Creature : Plays(w, c)}
Near(x, y) == y \in Sight[x]
Sees(w, a, b) == Near(w[a].spot, w[b].spot)
Spectators(w, x) == {c \in Creature : Plays(w, c) /\ Near(w[c].spot, x)}

IsSummon(w, m) == w[m].master # None
PlayerMaster(w, c) == w[c].master \in Player

\* Op for each of S, in order.
Each(w, S, Op(_, _)) ==
    LET after[i \in 0 .. Len(Order)] ==
            IF i = 0 THEN w
            ELSE IF Order[i] \in S THEN Op(after[i - 1], Order[i]) ELSE after[i - 1]
    IN  IF S = {} THEN w ELSE after[Len(Order)]

AddRef(w, c) == [w EXCEPT ![c].refs = @ + 1]
UnRef(w, c) == [w EXCEPT ![c].refs = @ - 1]

-----------------------------------------------------------------------------
(* Checks and idleness. *)

\* addCreatureCheck, removeCreatureCheck.
AddCheck(w, c) ==
    LET v == [w EXCEPT ![c].checked = TRUE, ![c].listed = TRUE]
    IN  IF w[c].at = "removed" THEN w ELSE IF w[c].listed THEN v ELSE AddRef(v, c)

RemoveCheck(w, c) == [w EXCEPT ![c].checked = @ /\ ~w[c].listed]

ClearTargets(w, m) == [Each(w, w[m].targets, UnRef) EXCEPT ![m].targets = {}]
ClearFriends(w, m) == [Each(w, w[m].friends, UnRef) EXCEPT ![m].friends = {}]
ClearLists(w, m) == ClearFriends(ClearTargets(w, m), m)

SetIdle(w, m, idle) ==
    LET v == [w EXCEPT ![m].idle = idle]
    IN  IF w[m].at = "removed" \/ ~w[m].alive THEN w
        ELSE IF idle THEN RemoveCheck(ClearLists(v, m), m)
        ELSE AddCheck(v, m)

\* A summon rests when its master is out of sight, or a monster that rests;
\* another monster when it has no target.  (Bound: no monster has a condition, under
\* which none rests.)
Rests(w, m) ==
    IF IsSummon(w, m)
    THEN ~w[m].inRange \/ (~PlayerMaster(w, m) /\ w[w[m].master].idle)
    ELSE w[m].targets = {}

UpdateIdleStatus(w, m) == SetIdle(w, m, Rests(w, m))

-----------------------------------------------------------------------------
(* Friends and targets. *)

IsFriend(w, m, c) ==
    IF PlayerMaster(w, m) THEN w[m].master \in {c, w[c].master}
                          ELSE c \in Monster /\ ~IsSummon(w, c)

IsOpponent(w, m, c) ==
    \/ PlayerMaster(w, m) /\ c # w[m].master
    \/ c \in Player \/ PlayerMaster(w, c)

\* Mutant: onCreatureFound that keeps a target without a reference.
FoundUnheld(w, m, c) ==
    UpdateIdleStatus([w EXCEPT ![m].targets = @ \cup {d \in {c} : IsOpponent(w, m, c)}], m)

\* Mutant: onCreatureFound that does not wake the monster.
FoundAsleep(w, m, c) ==
    LET t == {d \in {c} \ w[m].targets : IsOpponent(w, m, c)}
    IN  [Each(w, t, AddRef) EXCEPT ![m].targets = @ \cup t]

\* onCreatureFound.
Found(w, m, c) ==
    LET f == {d \in {c} \ w[m].friends : IsFriend(w, m, c)}
        t == {d \in {c} \ w[m].targets : IsOpponent(w, m, c)}
    IN  UpdateIdleStatus([Each(Each(w, f, AddRef), t, AddRef)
                            EXCEPT ![m].friends = @ \cup f, ![m].targets = @ \cup t], m)

UpdateTargetList(w, m) ==
    LET Stale(L) == {c \in L : ~w[c].alive \/ ~Sees(w, m, c)}
        f == Stale(w[m].friends)
        t == Stale(w[m].targets)
        v == [Each(Each(w, f, UnRef), t, UnRef)
                EXCEPT ![m].friends = @ \ f, ![m].targets = @ \ t]
    IN  Each(v, Spectators(v, v[m].spot) \ {m}, LAMBDA u, c : Found(u, m, c))

Enter(w, m, c) ==
    Found(IF w[m].master = c THEN UpdateIdleStatus([w EXCEPT ![m].inRange = TRUE], m) ELSE w, m, c)

\* A friend or a target that leaves is forgotten; without a target a monster rests.
Forget(w, m, c) ==
    LET f == {d \in {c} \cap w[m].friends : IsFriend(w, m, c)}
        t == {d \in {c} \cap w[m].targets : IsOpponent(w, m, c)}
        v == [Each(Each(w, f, UnRef), t, UnRef)
                EXCEPT ![m].friends = @ \ f, ![m].targets = @ \ t]
    IN  IF t # {} /\ w[m].targets = t THEN UpdateIdleStatus(v, m) ELSE v

\* onCreatureLeave.  (Bound: summons are not teleported to their masters, as is
\* the default.)
Leave(w, m, c) ==
    Forget(IF w[m].master = c THEN UpdateIdleStatus([w EXCEPT ![m].inRange = FALSE], m) ELSE w, m, c)

-----------------------------------------------------------------------------
(* Attacking and following. *)

\* A player chases whom he attacks.
Aims(w, a, c) ==
    IF c # None /\ ~Sees(w, a, c) THEN [w EXCEPT ![a].attacked = None]
    ELSE [w EXCEPT ![a].attacked = c, ![a].follow = IF a \in Player THEN c ELSE @]

\* setAttackedCreature of a, and of its summons, who have none of their own.
SetAttacked(w, a, c) ==
    IF c # None /\ ~Sees(w, a, c) THEN Aims(w, a, c)
    ELSE Each(Aims(w, a, c), w[a].summons, LAMBDA u, s : Aims(u, s, c))

SetFollow(w, a, c) == [w EXCEPT ![a].follow = IF c # None /\ Sees(w, a, c) THEN c ELSE None]

\* Mutant: internalCreatureDisappear that forgets whom one follows.
DisappearsHalf(w, a, c) == IF w[a].attacked = c THEN SetAttacked(w, a, None) ELSE w

\* internalCreatureDisappear.
Disappears(w, a, c) ==
    LET v == IF w[a].attacked = c THEN SetAttacked(w, a, None) ELSE w
    IN  IF v[a].follow = c THEN SetFollow(v, a, None) ELSE v

\* selectTarget.
SelectTarget(w, m, c) ==
    IF w[c].at = "removed" \/ c \notin w[m].targets THEN w
    ELSE SetFollow(SetAttacked(w, m, c), m, c)

-----------------------------------------------------------------------------
(* Summons. *)

AddSummon(w, a, m) == AddRef([w EXCEPT ![m].master = a, ![a].summons = @ \cup {m}], m)

RemoveSummon(w, a, m) ==
    IF m \in w[a].summons
    THEN UnRef([w EXCEPT ![m].master = None, ![a].summons = @ \ {m}], m) ELSE w

\* Mutant: Monster::changeHealth that lets a resting monster rest.
WoundAsleep(w, m) == [w EXCEPT ![m].alive = FALSE]

\* Monster::changeHealth to 0, which wakes it up first, and Creature's.
Wound(w, c) == [(IF c \in Monster THEN SetIdle(w, c, FALSE) ELSE w) EXCEPT ![c].alive = FALSE]

\* (The list of the summons is cleared in the end, and not read before.)
DestroySummons(w, a) ==
    Each(w, w[a].summons, LAMBDA u, s : RemoveSummon(Wound(SetAttacked(u, s, None), s), a, s))

-----------------------------------------------------------------------------
(* Removal. *)

\* onCreatureDisappear of c, told to s.
Disappear(w, s, c) ==
    IF s \in Player THEN Disappears(w, s, c)
    ELSE IF s = c THEN SetIdle(Disappears(w, s, c), s, TRUE) ELSE Leave(Disappears(w, s, c), s, c)

\* onRemovedCreature, autoList.erase, freeThing, removeCreatureCheck.
Unlisted(w, c) ==
    LET v == [w EXCEPT ![c].at = "removed"]
        a == v[c].master
        u == IF a # None /\ v[a].at # "removed" THEN RemoveSummon(v, a, c) ELSE v
    IN  RemoveCheck([u EXCEPT ![c].freed = @ + 1, ![c].attacked = None, ![c].follow = None,
                              ![c].inRange = FALSE, ![c].idle = TRUE], c)

\* removeCreature of one alone.
RemoveOne(w, c) ==
    IF ~Plays(w, c) THEN w
    ELSE Unlisted(Each(w, Spectators(w, w[c].spot), LAMBDA u, s : Disappear(u, s, c)), c)

\* removeCreature, and then its summons, who have none of their own.
RemoveCreature(w, c) ==
    LET v == RemoveOne(w, c)
    IN  IF ~Plays(w, c) THEN w ELSE Each(v, v[c].summons, RemoveOne)

\* ~Creature, ~Monster.
Deleted(w, c) ==
    [ClearLists(Each(w, w[c].summons, LAMBDA u, s : RemoveSummon(SetAttacked(u, s, None), c, s)), c)
       EXCEPT ![c] = Nothing]

\* unRef deletes what nobody refers to, and then what only the deleted referred to.
Dead(w) == {c \in Creature : w[c].at = "removed" /\ w[c].refs = 0}

Reaped(w) ==
    LET after[i \in 0 .. Len(Order)] ==
            IF i = 0 THEN w
            ELSE IF Dead(after[i - 1]) = {} THEN after[i - 1]
            ELSE Deleted(after[i - 1], CHOOSE c \in Dead(after[i - 1]) : TRUE)
    IN  after[Len(Order)]

-----------------------------------------------------------------------------
(* Placement and movement. *)

\* onCreatureAppear of c, told to s.
Appear(w, s, c) ==
    IF s \in Player THEN w
    ELSE IF s = c
    THEN LET v == [w EXCEPT ![s].inRange = IF IsSummon(w, s) THEN Sees(w, s, w[s].master) ELSE @]
         IN  UpdateIdleStatus(UpdateTargetList(v, s), s)
    ELSE Enter(w, s, c)

\* placeCreature.
Place(w, c, x) ==
    LET v == AddRef([w EXCEPT ![c].at = "game", ![c].spot = x], c)
    IN  AddCheck(Each(v, Spectators(v, x), LAMBDA u, s : Appear(u, s, c)), c)

\* Creature::onCreatureMove of c to x, told to s: what is followed or attacked
\* and is not seen any more is left.  (The far are those of the summons that are
\* more than 30 squares away.)
Loses(w, s, c) ==
    LET Lost(u, d) == d # None /\ c \in {s, d} /\ ~Sees(u, s, d)
        v == IF Lost(w, w[s].follow) THEN Disappears(w, s, w[s].follow) ELSE w
    IN  IF Lost(v, v[s].attacked) THEN Disappears(v, s, v[s].attacked) ELSE v

\* Monster::onCreatureMove.
MonsterSees(w, s, c, old) ==
    IF s = c
    THEN LET v == [w EXCEPT ![s].inRange = IF IsSummon(w, s) THEN Sees(w, s, w[s].master) ELSE @]
         IN  UpdateIdleStatus(UpdateTargetList(v, s), s)
    ELSE LET now == Sees(w, s, c)
             before == Near(w[s].spot, old)
             v == IF now /\ ~before THEN Enter(w, s, c)
                  ELSE IF ~now /\ before THEN Leave(w, s, c) ELSE w
             Picks(u) == IF u[s].follow = None /\ ~IsSummon(u, s) /\ IsOpponent(u, s, c)
                         THEN SelectTarget(u, s, c) ELSE u
         IN  Picks(UpdateIdleStatus([v EXCEPT ![s].inRange = @ \/ (w[s].master = c /\ now)], s))

Moved(w, c, x, far) ==
    LET v == [w EXCEPT ![c].spot = x]
        Sights(u, s) == IF s \in Player THEN u ELSE MonsterSees(u, s, c, w[c].spot)
        OnMove(u, s) == Sights(Loses(IF s = c THEN Each(u, far, RemoveCreature) ELSE u, s, c), s)
    IN  Each(v, Spectators(w, w[c].spot) \cup Spectators(v, x), OnMove)

-----------------------------------------------------------------------------
(* The tasks. *)

\* A removal starts the event of the monster's spawn.
Becomes(w) ==
    /\ world' = Reaped(w)
    /\ event' = (event \/ \E c \in Creature : Plays(world, c) /\ ~Plays(w, c) /\ w[c].spawn)

Free(m) == world[m].at = "none"

\* A player enters the game.
Enters(c, x) ==
    /\ Free(c)
    /\ Becomes(Place(world, c, x))
    /\ UNCHANGED spawned

\* placeSummon by a player's spell, and the summoning of Monster::onThinkDefense.
Summons(a, m) ==
    /\ Plays(world, a) /\ Free(m) /\ ~IsSummon(world, a)
    /\ Becomes(Place(AddSummon(world, a, m), m, world[a].spot))
    /\ UNCHANGED spawned

\* logout, kick, despawn, a script.
Removes(c) ==
    /\ Plays(world, c)
    /\ Becomes(RemoveCreature(world, c))
    /\ UNCHANGED spawned

\* A walk, a push, a teleport.  One spot further on may be more than 30 squares.
Moves(c, x) ==
    /\ Plays(world, c)
    /\ \E far \in SUBSET {s \in world[c].summons : ~Near(world[s].spot, x)} :
          Becomes(Moved(world, c, x, far))
    /\ UNCHANGED spawned

\* Damage that kills.  (Bound: one at a time, the next when the last is gone.)
Hits(c) ==
    /\ Plays(world, c) /\ \A d \in Creature : world[d].alive
    /\ Becomes(Wound(world, c))
    /\ UNCHANGED spawned

\* A prepareDeath script that denied the death of a player has healed him.
Heals(c) ==
    /\ Plays(world, c) /\ ~world[c].alive
    /\ Becomes([world EXCEPT ![c].alive = TRUE])
    /\ UNCHANGED spawned

\* playerSetAttackedCreature, of a player who chases whom he attacks.  (Bound: a
\* player follows nobody else.)
Attacks(p, c) ==
    /\ Plays(world, p) /\ c # p /\ (c # None => Plays(world, c))
    /\ Becomes(SetAttacked(world, p, c))
    /\ UNCHANGED spawned

\* convinceCreature, of a monster in sight, by a player.  (It starts no event of
\* the spawn whose place it leaves.)
Convinces(a, m) ==
    LET w == world
        old == w[m].master
        v == IF old = None THEN w ELSE RemoveSummon(w, old, m)
        u == DestroySummons(SetAttacked(SetFollow(v, m, None), m, None), m)
        told == Spectators(w, w[m].spot) \cup Spectators(w, w[a].spot)
        Hears(t, s) == IF s \in Player \/ ~(IsFriend(t, s, m) \/ IsOpponent(t, s, m)) THEN t
                       ELSE UpdateIdleStatus(UpdateTargetList(t, s), s)
        r == UpdateIdleStatus(UpdateTargetList(AddSummon(u, a, m), m), m)
        q == Each([r EXCEPT ![m].inRange = TRUE], told, Hears)
        mine == {s \in DOMAIN Places : spawned[s] = m}
    IN  /\ Plays(w, a) /\ Plays(w, m) /\ old \notin Player /\ Sees(w, a, m)
        /\ Becomes([Each(q, {m} \cap {spawned[s] : s \in mine}, UnRef) EXCEPT ![m].spawn = FALSE])
        /\ spawned' = [s \in DOMAIN Places |-> IF s \in mine THEN None ELSE spawned[s]]

-----------------------------------------------------------------------------
(* checkCreatures. *)

\* Monster::onDeath, Player::onDeath.
Death(w, c) ==
    LET v == IF w[c].master = None THEN w ELSE RemoveSummon(w, w[c].master, c)
    IN  RemoveCreature(IF c \in Player THEN v
                       ELSE SetAttacked(ClearLists(DestroySummons(v, c), c), c, None), c)

\* Monster::onThink: a summon attacks what its master attacks, or follows it;
\* another monster picks a target.
Thoughts(w, m) ==
    LET a == w[m].master
        v == UpdateIdleStatus(w, m)
    IN  IF v[m].idle THEN {v}
        ELSE IF a # None
        THEN IF v[m].attacked = None
             THEN {IF v[a].attacked # None THEN SelectTarget(v, m, v[a].attacked)
                                           ELSE SetFollow(v, m, a)}
             ELSE {SetFollow(v, m, IF v[m].attacked = m THEN None ELSE v[m].attacked)}
        ELSE {v} \cup {SelectTarget(v, m, c) : c \in v[m].targets}

\* onFollowCreatureComplete: a summon forgets a target it finds no way to.
GivesUp(w, m) ==
    IF IsSummon(w, m) /\ w[m].follow \in w[m].targets
    THEN {w, [UnRef(w, w[m].follow) EXCEPT ![m].targets = @ \ {w[m].follow}]} ELSE {w}

\* cleanup, at the end of a pass.
Cleanup(w) == [c \in Creature |-> [w[c] EXCEPT !.refs = @ - w[c].freed, !.freed = 0]]

\* checkCreatures: a bucket with nobody, or with c.  (Bound: ten buckets are
\* enough for each to have its own.)
ChecksNobody ==
    /\ \E c \in Creature : world[c].freed > 0
    /\ Becomes(Cleanup(world))
    /\ UNCHANGED spawned

Checks(c) ==
    /\ world[c].listed
    /\ \/ world[c].checked /\ ~world[c].alive /\ Becomes(Cleanup(Death(world, c)))
       \/ /\ world[c].checked /\ c \in Monster
          /\ \E w \in Thoughts(world, c) : \E v \in GivesUp(w, c) : Becomes(Cleanup(v))
       \/ /\ ~world[c].checked
          /\ Becomes(Cleanup([world EXCEPT ![c].listed = FALSE, ![c].freed = @ + 1]))
    /\ UNCHANGED spawned

-----------------------------------------------------------------------------
(* Spawn. *)

Lost == {s \in DOMAIN Places : spawned[s] # None /\ world[spawned[s]].at = "removed"}

\* Mutant: checkSpawn that does not look whether all places are taken.
StopsEarly(to) == FALSE

\* Whether the event is set again.
GoesOn(to) == \E s \in DOMAIN Places : to[s] = None

\* checkSpawn: the places of those who were removed are free; one whose interval
\* has passed, with no player in sight, gets a monster.  (Bound: one at a time, as
\* RATE_SPAWN is 1.)
CheckSpawn ==
    /\ event
    /\ LET w == Each(world, {spawned[s] : s \in Lost}, UnRef)
           empty == {s \in DOMAIN Places : spawned[s] = None} \cup Lost
           kept == [s \in DOMAIN Places |-> IF s \in empty THEN None ELSE spawned[s]]
       IN  \/ world' = Reaped(w) /\ spawned' = kept
           \/ \E s \in empty, m \in Monster :
                 LET v == Place(w, m, Places[s])
                 IN  /\ Free(m) /\ Spectators(w, Places[s]) \cap Player = {}
                     /\ world' = Reaped(AddRef([v EXCEPT ![m].spawn = TRUE], m))
                     /\ spawned' = [kept EXCEPT ![s] = m]
    /\ event' = GoesOn(spawned')

Next ==
    \/ \E x \in Spot : \/ \E p \in Player : Enters(p, x)
                    \/ \E c \in Creature : Moves(c, x)
    \/ \E c \in Creature, m \in Monster : Summons(c, m)
    \/ \E p \in Player, m \in Monster : Convinces(p, m)
    \/ \E c \in Creature : Removes(c) \/ Hits(c) \/ Checks(c)
    \/ \E p \in Player : Heals(p) \/ \E c \in Creature \cup {None} : Attacks(p, c)
    \/ ChecksNobody \/ CheckSpawn

\* After Spawn::startup: a monster in each place, which nobody has seen.
Init ==
    /\ spawned \in [DOMAIN Places -> Monster]
    /\ \A s, t \in DOMAIN Places : spawned[s] = spawned[t] => s = t
    /\ world = [c \in Creature |->
                  IF \E s \in DOMAIN Places : spawned[s] = c
                  THEN [Nothing EXCEPT !.at = "game", !.spawn = TRUE, !.refs = 2,
                            !.spot = Places[CHOOSE s \in DOMAIN Places : spawned[s] = c]]
                  ELSE Nothing]
    /\ event = FALSE

Spec == Init /\ [][Next]_vars

-----------------------------------------------------------------------------
(* Properties. *)

B(x) == IF x THEN 1 ELSE 0

Holders(c) ==
    B(Plays(world, c)) + B(world[c].listed) + world[c].freed
    + B(\E a \in Creature : c \in world[a].summons)
    + B(\E s \in DOMAIN Places : spawned[s] = c)
    + Cardinality({m \in Monster : c \in world[m].targets})
    + Cardinality({m \in Monster : c \in world[m].friends})

\* A creature's count is that of the references to it: the game's, that of the
\* check vector, of its master, its spawn, of every monster that knows it, and
\* those to be given up.  So it is deleted when nobody has it, and not before.
CountIsExact ==
    /\ \A c \in Creature : world[c].refs = Holders(c)
    /\ \A c \in Creature : world[c].refs = 0 <=> world[c].at = "none"

\* The pointers that hold no reference: whom a creature in the game attacks,
\* follows or serves is in the game, and a master has each of his summons.
PointersAreInGame ==
    \A c \in InGame(world) :
        /\ {world[c].attacked, world[c].follow, world[c].master} \subseteq InGame(world) \cup {None}
        /\ world[c].master # None => c \in world[world[c].master].summons

\* Who needs to be looked at is in a vector and will be: a player, a monster
\* that does not rest, whoever is about to die.
ChecksAreDue ==
    \A c \in InGame(world) :
        c \in Player \/ ~world[c].idle \/ ~world[c].alive => world[c].checked /\ world[c].listed

\* A monster that sees a player does not rest, and has him for a target.
WakesForPlayers ==
    \A m \in InGame(world) \cap Monster, p \in InGame(world) \cap Player :
        Sees(world, m, p) /\ ~IsSummon(world, m) /\ world[m].alive
            => p \in world[m].targets /\ ~world[m].idle

\* Nobody in the game is forgotten, however he was woken, hurt or found.
NobodyIsForgotten == ChecksAreDue /\ WakesForPlayers

\* A spawn has no more monsters in the game than places; a place that has lost
\* its monster will be looked at; and once a look is due, one stays due until
\* every place is taken.
PlacesAreWatched ==
    [][/\ Cardinality({c \in InGame(world) : world[c].spawn})' <= Cardinality(DOMAIN Places)
       /\ Lost' # {} => event'
       /\ event /\ None \in {spawned'[s] : s \in DOMAIN Places} => event']_vars
=============================================================================
