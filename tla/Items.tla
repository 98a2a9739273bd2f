-------------------------------- MODULE Items --------------------------------
(***************************************************************************)
(* Items (item.cpp, thing.h, container.cpp) and their decay (game.cpp).    *)
(*                                                                         *)
(* An item is an address.  An operation takes the store of all items to    *)
(* the store it leaves, in the order of the code.  Durations are in        *)
(* seconds, the interval of checkDecay: those of item types are whole, and *)
(* a pass takes whole seconds off.  (Bound: items are not stackable.)      *)
(***************************************************************************)
EXTENDS Integers, FiniteSets, Sequences

CONSTANTS
    Item,       \* bound: the addresses at which items are allocated
    Types,      \* the table of item types, by name
    Buckets,    \* EVENT_DECAYBUCKETS
    Gone,       \* decayTo = 0: the item is removed
    None        \* the null pointer; decayTo = -1; no attribute

Type == DOMAIN Types

\* (Bound: no type decays into itself, and none that decays into another stops
\* its time: startDecay could call itself for ever.  data/items/items.xml has none.)
ASSUME ItemsAssumption ==
    /\ Buckets \in Nat \ {0, 1} /\ IsFiniteSet(Type)
    /\ IsFiniteSet(Item) /\ Item \cap {None, "floor", "void"} = {}
    /\ None \notin Type \cup Int \cup {Gone, "floor", "void"} /\ Gone \notin Type
    /\ \A t \in Type : Types[t].time \in Nat /\ Types[t].to \in (Type \ {t}) \cup {Gone, None}
    /\ \A t \in Type : Types[t].to \in Type => ~Types[t].stop

VARIABLES
    store,      \* the items
    scene       \* bound: the types an execution makes, how many at a time, and its scripts

(* store.item      the objects: parent is a cylinder, an item's address, or    *)
(*                 None; refs the count, freed how often it is in releaseThings; *)
(*                 left is history, the time until it is due to decay          *)
(* store.list      decayItems: list[k] is the bucket that is visited in the    *)
(*                 k-th pass from now, list[0] what is left of the one that is *)
(*                 being visited; and list[New] is toDecayItems                *)
(* store.ends      history: the left of those that decayed in this step        *)
(* store.torn      an item was deleted that a cylinder still holds             *)
(* store.full      bound: the task would need more addresses than there are    *)

New == Buckets + 1
B(x) == IF x THEN 1 ELSE 0

Absent == [parent |-> None, type |-> None, dur |-> None, marked |-> FALSE,
           refs |-> 0, freed |-> 0, left |-> None]

Exists(w, i) == w.item[i].type # None
TypeOf(w, i) == Types[w.item[i].type]
Roomy(w) == \E i \in Item : ~Exists(w, i)
Fresh(w) == CHOOSE i \in Item : ~Exists(w, i)

\* i and the containers that it is in, one in the other.
Holders(w, i) ==
    {j \in Item : \A S \in SUBSET Item :
        i \in S /\ (\A k \in S : w.item[k].parent \in Item => w.item[k].parent \in S) => j \in S}

\* isRemoved: the cylinder at the end of the chain is no more, or never was.
Removed(w, i) == \E j \in Holders(w, i) : w.item[j].parent = None

InGame(w, i) == Exists(w, i) /\ ~Removed(w, i)

\* The entries of an item in the lists of those that decay.
Entries(w, i) == UNION {{k} \X {n \in 1 .. Len(w.list[k]) : w.list[k][n] = i} : k \in 0 .. New}
Listed(w, i) == Entries(w, i) # {}

Put(w, k, i) == [w EXCEPT !.list[k] = Append(@, i)]
Drop(w, k) == [w EXCEPT !.list[k] = Tail(@)]
AddRef(w, i) == [w EXCEPT !.item[i].refs = @ + 1]
FreeThing(w, i) == [w EXCEPT !.item[i].freed = @ + 1]

-----------------------------------------------------------------------------
(* Objects. *)

\* CreateItem of type t at address i, and the item is put in p.
Create(w, i, t, p) ==
    [w EXCEPT !.item[i] = [Absent EXCEPT !.type = t, !.refs = 1, !.parent = p,
                                         !.dur = IF Types[t].time > 0 THEN Types[t].time ELSE None]]

\* setID.  What the history knows of the item's time is void.
SetID(w, i, t) ==
    LET ends == Types[t].time = 0 /\ ~Types[t].stop /\ Types[t].to = None
        starts == Types[t].time > 0 /\ (~TypeOf(w, i).stop \/ w.item[i].dur = None)
    IN  [w EXCEPT !.item[i] =
            [w.item[i] EXCEPT !.type = t, !.left = None, !.marked = @ /\ ~ends /\ ~starts,
                              !.dur = IF starts THEN Types[t].time ELSE IF ends THEN None ELSE @]]

\* A type that setID neither gives time to an item for nor takes its mark with: it
\* stops its time, or has an end and no time.
KeepsMark(t) == Types[t].time = 0 /\ (Types[t].stop \/ Types[t].to # None)

\* Mutant: ~Container that does not clear the parent of what was in it.
LeavesParents(w, D) ==
    [w EXCEPT !.item = [i \in Item |->
        IF i \in D THEN Absent
        ELSE [w.item[i] EXCEPT !.refs = @ - B(w.item[i].parent \in D)]]]

\* ~Item, and ~Container: what is in it is given up.
Deleted(w, D) ==
    [w EXCEPT !.item = [i \in Item |->
        IF i \in D THEN Absent
        ELSE IF w.item[i].parent \in D THEN [w.item[i] EXCEPT !.parent = None, !.refs = @ - 1]
        ELSE w.item[i]]]

\* unRef deletes what nobody refers to, and so what only was in something deleted.
Unheld(w) ==
    {i \in Item : \A S \in SUBSET Item :
        (\A j \in Item : Exists(w, j) /\ w.item[j].refs <= B(w.item[j].parent \in S) => j \in S) => i \in S}
Reaped(w) ==
    Deleted([w EXCEPT !.torn = @ \/ \E i \in Item : /\ Exists(w, i) /\ w.item[i].refs <= 0
                                                    /\ w.item[i].parent \notin {None, "void"}],
            Unheld(w))

\* internalRemoveItem.  What is in the virtual cylinder stays there.
RemoveItem(w, i) ==
    IF w.item[i].parent \in {None, "void"} THEN w
    ELSE FreeThing([w EXCEPT !.item[i].parent = None], i)

-----------------------------------------------------------------------------
(* Decay. *)

CanDecay(w, i) == ~Removed(w, i) /\ TypeOf(w, i).to # None /\ TypeOf(w, i).time > 0
Duration(w, i) == IF w.item[i].dur = None THEN 0 ELSE w.item[i].dur

\* transformItem across alwaysOnTop: the old is removed, the new is added and
\* takes over all attributes but those of its decay.
Exchange(w, i, t) ==
    LET n == Fresh(w)
    IN  [Create(RemoveItem(w, i), n, t, w.item[i].parent) EXCEPT !.item[n].dur = None]

\* transformItem to another kind of object: the new takes the place of the old.
Replace(w, i, t) ==
    FreeThing([Create(w, Fresh(w), t, w.item[i].parent) EXCEPT !.item[i].parent = None], i)

\* transformItem, and the item it returns.  An item in the virtual cylinder has
\* no index and is not transformed.
Transform(w, i, t) ==
    LET new == Types[t]
        old == TypeOf(w, i)
    IN  IF w.item[i].type = t \/ w.item[i].parent = "void" THEN [store |-> w, item |-> i]
        ELSE IF w.item[i].parent = None THEN [store |-> w, item |-> None]
        ELSE IF old.top = new.top /\ old.class = new.class THEN [store |-> SetID(w, i, t), item |-> i]
        ELSE IF ~Roomy(w) THEN [store |-> [w EXCEPT !.full = TRUE], item |-> None]
        ELSE [store |-> IF old.top # new.top THEN Exchange(w, i, t) ELSE Replace(w, i, t), item |-> Fresh(w)]

\* Mutant: startDecay that marks an item and does not list it.
MarksOnly(w, i) == [w EXCEPT !.item[i].marked = TRUE]

\* startDecay of an item that has time left.  The history follows its time unless
\* it was listed before.
StartCounting(w, i) ==
    [Put(AddRef(w, i), New, i)
       EXCEPT !.item[i] = [@ EXCEPT !.marked = TRUE, !.left = IF Listed(w, i) THEN None ELSE w.item[i].dur]]

\* What an item decays into, if anything.
DecayTo(w, i) ==
    IF TypeOf(w, i).to = Gone THEN [store |-> RemoveItem(w, i), item |-> None]
    ELSE Transform(w, i, TypeOf(w, i).to)

\* startDecay of r.item, and what is left to start.
StartOne(r) ==
    LET w == r.store
        i == r.item
    IN  IF i = None THEN r
        ELSE IF ~CanDecay(w, i) \/ w.item[i].marked THEN [r EXCEPT !.item = None]
        ELSE IF Duration(w, i) > 0 THEN [store |-> StartCounting(w, i), item |-> None]
        ELSE DecayTo(w, i)

\* Step, n times.
Times(n, Step(_), w) ==
    LET after[k \in 0 .. n] == IF k = 0 THEN w ELSE Step(after[k - 1]) IN after[n]

\* startDecay calls itself for what an item without time has become, which is of
\* each type at most once with a duration attribute and once without.
StartDecay(w, i) == Times(2 * Cardinality(Type), StartOne, [store |-> w, item |-> i]).store

\* internalDecayItem.
InternalDecayItem(w, i) ==
    LET r == DecayTo([w EXCEPT !.ends = @ \cup ({w.item[i].left} \ {None})], i)
    IN  StartDecay(r.store, r.item)

\* Mutant: cleanup that takes a full round for less than one.
BucketOverflows(d) == IF d > Buckets THEN Buckets ELSE (d % Buckets) + 1

\* The bucket of cleanup for an item with d seconds left.
Bucket(d) == IF d >= Buckets THEN Buckets ELSE d + 1

\* cleanup: references are given back, and new entries get their bucket.
ListOne(w) ==
    LET i == Head(w.list[New]) IN Put(Drop(w, New), Bucket(Duration(w, i)), i)
Cleanup(w) ==
    LET v == Reaped([w EXCEPT !.item = [i \in Item |-> [w.item[i] EXCEPT !.refs = @ - w.item[i].freed, !.freed = 0]]])
    IN  Times(Len(v.list[New]), ListOne, v)

\* An entry of the bucket that is visited: an item that cannot decay leaves the
\* list, one whose time is over decays, another goes to the bucket of its date.
Visit(w) ==
    LET i == Head(w.list[0])
        d == Duration(w, i)
        v == [Drop(w, 0) EXCEPT !.item[i].dur =
                 IF @ = None THEN None ELSE IF d < Buckets THEN 0 ELSE d - Buckets]
        rest == Duration(v, i)
    IN  IF ~CanDecay(v, i) THEN FreeThing([v EXCEPT !.item[i].marked = FALSE], i)
        ELSE IF rest = 0 THEN FreeThing(InternalDecayItem(v, i), i)
        ELSE Put(v, IF rest < Buckets THEN rest ELSE Buckets, i)

\* checkDecay.  One second has passed since the last.
Later(w) ==
    [w EXCEPT !.list = [k \in 0 .. New |-> IF k < Buckets THEN @[k + 1] ELSE IF k = New THEN @[k] ELSE <<>>],
              !.item = [i \in Item |-> [w.item[i] EXCEPT !.left = IF @ = None THEN None ELSE @ - 1]]]
Pass(w) == Cleanup(Times(Len(w.list[1]), Visit, Later(w)))

-----------------------------------------------------------------------------
(* What tasks and scripts do to items. *)

\* History: who decayed in this step.
Now == [store EXCEPT !.ends = {}]

Becomes(w) == ~w.full /\ store' = w /\ UNCHANGED scene

\* A place for i: the floor, or a container that is not in i.
Place(w, i) == {"floor"} \cup {j \in Item : InGame(w, j) /\ TypeOf(w, j).box /\ i \notin Holders(w, j)}

\* Bound: an execution has at most scene.items items when one is made.
MayCreate == Cardinality({j \in Item : Exists(store, j)}) < scene.items

\* A corpse, a field, an item that a monster or a script leaves.
Appears(t, p) ==
    LET w == Now
        i == Fresh(w)
    IN  /\ t \in scene.types /\ MayCreate
        /\ p \in Place(w, i)
        /\ Becomes(StartDecay(Create(w, i, t, p), i))

\* internalMoveItem, of all of an item.
Moves(i, p) ==
    /\ InGame(store, i) /\ store.item[i].parent # "void"
    /\ p \in Place(store, i) \ {store.item[i].parent}
    /\ Becomes([Now EXCEPT !.item[i].parent = p])

\* internalRemoveItem: used up, sold, cleaned away, removed by a script.
Removes(i) == InGame(store, i) /\ store.item[i].parent # "void" /\ Becomes(RemoveItem(Now, i))

\* EquipItem transforms and starts what it got; DeEquipItem what it had.
Equips(i, t) ==
    LET r == Transform(Now, i, t)
    IN  /\ InGame(store, i) /\ store.item[i].parent = "floor" /\ t = TypeOf(store, i).equip
        /\ Becomes(StartDecay(r.store, r.item))

DeEquips(i, t) ==
    /\ InGame(store, i) /\ store.item[i].parent = "floor" /\ t = TypeOf(store, i).deEquip
    /\ Becomes(StartDecay(Transform(Now, i, t).store, i))

\* The pass of checkDecay; that of checkCreatures, which ends in cleanup too.
CheckDecay == Becomes(Pass(Now))
CheckCreatures == (\E i \in Item : store.item[i].freed > 0 \/ store.list[New] # <<>>) /\ Becomes(Cleanup(Now))

ItemsInit == store = [item |-> [i \in Item |-> Absent], list |-> [k \in 0 .. New |-> <<>>],
                      ends |-> {}, torn |-> FALSE, full |-> FALSE]
=============================================================================
