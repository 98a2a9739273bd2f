--------------------------- MODULE CreaturesProofs ---------------------------
(***************************************************************************)
(* What Creatures keeps, for every number of creatures, spots and places.  *)
(***************************************************************************)
EXTENDS Creatures, FiniteSetTheorems, WellFoundedInduction, TLAPS

-----------------------------------------------------------------------------
(* One after the other. *)

(* Induction and recursion. *)

\* Naturals have a least.
LEMMA NatMin ==
    ASSUME NEW T, T \subseteq Nat, T # {}
    PROVE  \E x \in T : \A y \in T : x <= y
<1>1. PICK x \in T : \A y \in T : ~(<<y, x>> \in OpToRel(<, Nat))
  BY NatLessThanWellFounded, WFMin, Zenon
<1>2. \A u, v \in Nat : (<<v, u>> \in OpToRel(<, Nat)) <=> v < u
  BY DEF OpToRel
<1>3. x \in Nat
  OBVIOUS
<1>4. ASSUME NEW y \in T
      PROVE  x <= y
  <2>1. y \in Nat
    OBVIOUS
  <2>2. ~(y < x)
    BY <1>1, <1>2, <1>3, <2>1
  <2>. QED
    BY <2>1, <2>2, <1>3
<1>. QED
  BY <1>4

\* A set that has 0, and with each number up to N the next, has them all.
LEMMA UpTo ==
    ASSUME NEW N \in Nat, NEW T, 0 \in T, \A k \in 1 .. N : k - 1 \in T => k \in T
    PROVE  \A k \in 0 .. N : k \in T
<1>. DEFINE U == {k \in 0 .. N : k \notin T}
<1>1. SUFFICES ASSUME U # {}
               PROVE  FALSE
  OBVIOUS
<1>2. PICK x \in U : \A y \in U : x <= y
  <2>1. U \subseteq Nat
    OBVIOUS
  <2>. HIDE DEF U
  <2>. QED  BY <1>1, <2>1, NatMin
<1>3. x \in 1 .. N
  BY <1>2
<1>4. x - 1 \in 0 .. N /\ ~(x <= x - 1)
  BY <1>3
<1>5. x - 1 \in T
  BY <1>2, <1>4
<1>. QED
  BY <1>2, <1>3, <1>5

\* The worlds that Each goes through: after k of Order, one of G[k].
Repeats(h, n, x, step) == h[0] = x /\ \A k \in 1 .. n : h[k] = step[k][h[k - 1]]

LEMMA Repeated ==
    ASSUME NEW N \in Nat, NEW W, NEW G \in [0 .. N -> SUBSET W], NEW x \in G[0], NEW step,
           \A k \in 1 .. N : \A v \in G[k - 1] : step[k][v] \in G[k]
    PROVE  \E h \in [0 .. N -> W] : Repeats(h, N, x, step) /\ \A k \in 0 .. N : h[k] \in G[k]
<1>. DEFINE Is(h, n) == Repeats(h, n, x, step) /\ \A k \in 0 .. n : h[k] \in G[k]
            T == {n \in 0 .. N : \E h \in [0 .. n -> W] : Is(h, n)}
<1>. USE DEF Repeats
<1>1. 0 \in T
  <2>. DEFINE g == [j \in 0 .. 0 |-> x]
  <2>1. g \in [0 .. 0 -> W] /\ g[0] = x
    OBVIOUS
  <2>2. Is(g, 0)
    <3>. HIDE DEF g
    <3>. QED  BY <2>1
  <2>. HIDE DEF g, Is
  <2>3. \E h \in [0 .. 0 -> W] : Is(h, 0)
    BY <2>1, <2>2
  <2>. QED
    BY <2>3
<1>2. ASSUME NEW k \in 1 .. N, k - 1 \in T
      PROVE  k \in T
  <2>1. PICK h \in [0 .. (k - 1) -> W] : Is(h, k - 1)
    BY <1>2
  <2>. DEFINE y == step[k][h[k - 1]]
              g == [j \in 0 .. k |-> IF j = k THEN y ELSE h[j]]
  <2>2. y \in G[k] /\ G[k] \subseteq W
    <3>1. k - 1 \in 0 .. (k - 1) /\ k \in 0 .. N
      OBVIOUS
    <3>2. h[k - 1] \in G[k - 1]
      BY <2>1, <3>1
    <3>. QED
      BY <3>1, <3>2
  <2>3. /\ g \in [0 .. k -> W] /\ g[0] = h[0] /\ g[k] = y
        /\ \A j \in 0 .. k - 1 : g[j] = h[j]
    <3>. HIDE DEF y
    <3>. QED  BY <2>1, <2>2
  <2>4. Is(g, k)
    <3>. HIDE DEF g
    <3>1. \A j \in 1 .. k - 1 : g[j] = step[j][g[j - 1]]
      BY <2>1, <2>3
    <3>2. g[k] = step[k][g[k - 1]]
      BY <2>3
    <3>3. \A j \in 0 .. k : g[j] \in G[j]
      <4>. HIDE DEF y
      <4>. QED  BY <2>1, <2>2, <2>3
    <3>. QED
      BY <2>1, <2>3, <3>1, <3>2, <3>3
  <2>. HIDE DEF g, Is
  <2>. QED
    BY <2>3, <2>4
<1>3. \A k \in 0 .. N : k \in T
  <2>. HIDE DEF T
  <2>. QED  BY <1>1, <1>2, UpTo
<1>. QED
  BY <1>3

-----------------------------------------------------------------------------
(* Worlds. *)

Thing == [at : {"none", "game", "removed"}, spot : Spot, alive : BOOLEAN, idle : BOOLEAN,
          inRange : BOOLEAN, checked : BOOLEAN, listed : BOOLEAN,
          targets : SUBSET Creature, friends : SUBSET Creature,
          attacked : Creature \cup {None}, follow : Creature \cup {None},
          master : Creature \cup {None}, summons : SUBSET Creature,
          spawn : BOOLEAN, refs : Int, freed : Nat]

Things == [Creature -> Thing]

\* The parts of a creature that are the same.
SamePlace(x, y) ==
    /\ y.at = x.at /\ y.spot = x.spot /\ y.alive = x.alive /\ y.master = x.master
    /\ y.summons = x.summons /\ y.spawn = x.spawn /\ y.freed = x.freed
SameAim(x, y) == y.attacked = x.attacked /\ y.follow = x.follow
SameMind(x, y) == y.idle = x.idle /\ y.inRange = x.inRange /\ y.checked = x.checked /\ y.listed = x.listed
SameLists(x, y) == y.targets = x.targets /\ y.friends = x.friends

\* A creature whose count has changed by d, and nothing else.
Plus(x, y, d) ==
    /\ SamePlace(x, y) /\ SameAim(x, y) /\ SameMind(x, y) /\ SameLists(x, y)
    /\ y.refs = x.refs + d /\ (d = 0 => y = x)

Counted(w, v, S, d) == v \in Things /\ \A c \in Creature : Plus(w[c], v[c], IF c \in S THEN d ELSE 0)

LEMMA Orders ==
    /\ Len(Order) \in Nat /\ \A k \in 1 .. Len(Order) : Order[k] \in Creature
    /\ \A c \in Creature : \E k \in 1 .. Len(Order) : Order[k] = c
    /\ \A j, k \in 1 .. Len(Order) : Order[j] = Order[k] => j = k
BY CreaturesAssumption

LEMMA OneMore ==
    ASSUME NEW v \in Things, NEW c \in Creature
    PROVE  Counted(v, AddRef(v, c), {c}, 1) /\ Counted(v, UnRef(v, c), {c}, -1)
<1>. DEFINE u == [v EXCEPT ![c].refs = @ + 1]
            t == [v EXCEPT ![c].refs = @ - 1]
<1>1. u \in Things /\ t \in Things
  BY DEF Things, Thing
<1>2. ASSUME NEW d \in Creature
      PROVE  /\ Plus(v[d], u[d], IF d \in {c} THEN 1 ELSE 0)
             /\ Plus(v[d], t[d], IF d \in {c} THEN -1 ELSE 0)
  BY DEF Things, Thing, Plus, SamePlace, SameAim, SameMind, SameLists
<1>. HIDE DEF u, t
<1>3. AddRef(v, c) = u /\ UnRef(v, c) = t
  BY DEF AddRef, UnRef, u, t
<1>. QED
  BY <1>1, <1>2, <1>3 DEF Counted

LEMMA CountedTwice ==
    ASSUME NEW w \in Things, NEW v \in Things, NEW u, NEW S, NEW T, NEW d \in Int,
           Counted(w, v, S, d), Counted(v, u, T, d), S \cap T = {}
    PROVE  Counted(w, u, S \cup T, d)
<1>1. \A c \in Creature : w[c].refs \in Int
  BY DEF Things, Thing
<1>. QED
  BY <1>1 DEF Counted, Plus, SamePlace, SameAim, SameMind, SameLists

LEMMA CountedNone ==
    ASSUME NEW w \in Things, NEW d \in Int
    PROVE  Counted(w, w, {}, d)
<1>1. \A c \in Creature : w[c].refs \in Int
  BY DEF Things, Thing
<1>. QED
  BY <1>1 DEF Counted, Plus, SamePlace, SameAim, SameMind, SameLists

LEMMA EachAddRef ==
    ASSUME NEW w \in Things, NEW S \in SUBSET Creature
    PROVE  Counted(w, Each(w, S, AddRef), S, 1)
<1>. DEFINE N == Len(Order)
            Seen(k) == S \cap {Order[j] : j \in 1 .. k}
            G == [k \in 0 .. N |-> {v \in Things : Counted(w, v, Seen(k), 1)}]
            Then(v, k) == IF Order[k] \in S THEN AddRef(v, Order[k]) ELSE v
            step == [k \in 1 .. N |-> [v \in Things |-> Then(v, k)]]
            after[i \in 0 .. N] == IF i = 0 THEN w ELSE Then(after[i - 1], i)
<1>1. N \in Nat /\ G \in [0 .. N -> SUBSET Things]
  BY Orders
<1>2. w \in G[0]
  <2>1. Seen(0) = {}
    OBVIOUS
  <2>. HIDE DEF Seen
  <2>2. Counted(w, w, Seen(0), 1)
    BY <2>1, CountedNone
  <2>. QED
    BY <1>1, <2>2
<1>3. ASSUME NEW k \in 1 .. N, NEW v \in G[k - 1]
      PROVE  Then(v, k) \in G[k] /\ v \in Things
  <2>1. k \in 0 .. N /\ k - 1 \in 0 .. N /\ Order[k] \in Creature
    BY <1>1, Orders
  <2>2. v \in Things /\ Counted(w, v, Seen(k - 1), 1)
    BY <2>1
  <2>3. Seen(k) = Seen(k - 1) \cup ({Order[k]} \cap S) /\ Order[k] \notin Seen(k - 1)
    <3>1. 1 .. k = (1 .. k - 1) \cup {k}
      BY <1>1
    <3>2. \A j \in 1 .. k - 1 : Order[j] # Order[k]
      BY <1>1, Orders
    <3>. QED
      BY <3>1, <3>2
  <2>. HIDE DEF Seen
  <2>4. CASE Order[k] \in S
    <3>1. Counted(v, AddRef(v, Order[k]), {Order[k]}, 1) /\ AddRef(v, Order[k]) \in Things
      BY <2>1, <2>2, OneMore DEF Counted
    <3>2. Counted(w, AddRef(v, Order[k]), Seen(k - 1) \cup {Order[k]}, 1)
      <4>1. Seen(k - 1) \cap {Order[k]} = {}
        BY <2>3
      <4>. QED
        BY <2>2, <3>1, <4>1, CountedTwice
    <3>3. Seen(k) = Seen(k - 1) \cup {Order[k]}
      BY <2>3, <2>4
    <3>. QED
      BY <2>1, <2>2, <2>4, <3>1, <3>2, <3>3
  <2>5. CASE Order[k] \notin S
    <3>1. Seen(k) = Seen(k - 1)
      BY <2>3, <2>5
    <3>. QED
      BY <2>1, <2>2, <2>5, <3>1
  <2>. QED
    BY <2>4, <2>5
<1>4. \A k \in 1 .. N : \A v \in G[k - 1] : step[k][v] \in G[k]
  <2>. HIDE DEF G, Then
  <2>. QED  BY <1>3
<1>. HIDE DEF G, Seen
<1>5. PICK h \in [0 .. N -> Things] : Repeats(h, N, w, step) /\ \A k \in 0 .. N : h[k] \in G[k]
  <2>. HIDE DEF step, N
  <2>. QED  BY <1>1, <1>2, <1>4, Repeated
<1>6. h = [i \in 0 .. N |-> IF i = 0 THEN w ELSE Then(h[i - 1], i)]
  <2>. HIDE DEF Then
  <2>1. ASSUME NEW i \in 1 .. N
        PROVE  h[i] = Then(h[i - 1], i)
    <3>1. i - 1 \in 0 .. N
      BY <1>1
    <3>2. h[i - 1] \in Things
      BY <1>5, <3>1
    <3>. QED
      BY <1>5, <3>2 DEF Repeats
  <2>. HIDE DEF step, N
  <2>. QED
    BY <1>1, <1>5, <2>1 DEF Repeats
<1>7. after = [i \in 0 .. N |-> IF i = 0 THEN w ELSE Then(after[i - 1], i)]
  <2>. HIDE DEF step, Then, N
  <2>. QED  BY <1>6
<1>8. Each(w, S, AddRef) = IF S = {} THEN w ELSE after[N]
  BY DEF Each
<1>. HIDE DEF after, Then
<1>9. after[N] \in G[N]
  <2>. DEFINE T == {k \in 0 .. N : after[k] \in G[k]}
  <2>1. 0 \in T
    BY <1>1, <1>2, <1>7
  <2>2. \A k \in 1 .. N : k - 1 \in T => k \in T
    BY <1>1, <1>3, <1>7
  <2>3. \A k \in 0 .. N : k \in T
    <3>. HIDE DEF T, N
    <3>. QED  BY <1>1, <2>1, <2>2, UpTo
  <2>. QED
    BY <1>1, <2>3
<1>10. Seen(N) = S
  BY Orders DEF Seen
<1>11. Counted(w, after[N], S, 1)
  BY <1>1, <1>9, <1>10 DEF G
<1>12. S = {} => Counted(w, w, S, 1)
  BY CountedNone
<1>. QED
  BY <1>8, <1>11, <1>12


LEMMA EachUnRef ==
    ASSUME NEW w \in Things, NEW S \in SUBSET Creature
    PROVE  Counted(w, Each(w, S, UnRef), S, -1)
<1>. DEFINE N == Len(Order)
            Seen(k) == S \cap {Order[j] : j \in 1 .. k}
            G == [k \in 0 .. N |-> {v \in Things : Counted(w, v, Seen(k), -1)}]
            Then(v, k) == IF Order[k] \in S THEN UnRef(v, Order[k]) ELSE v
            step == [k \in 1 .. N |-> [v \in Things |-> Then(v, k)]]
            after[i \in 0 .. N] == IF i = 0 THEN w ELSE Then(after[i - 1], i)
<1>1. N \in Nat /\ G \in [0 .. N -> SUBSET Things]
  BY Orders
<1>2. w \in G[0]
  <2>1. Seen(0) = {}
    OBVIOUS
  <2>. HIDE DEF Seen
  <2>2. Counted(w, w, Seen(0), -1)
    BY <2>1, CountedNone
  <2>. QED
    BY <1>1, <2>2
<1>3. ASSUME NEW k \in 1 .. N, NEW v \in G[k - 1]
      PROVE  Then(v, k) \in G[k] /\ v \in Things
  <2>1. k \in 0 .. N /\ k - 1 \in 0 .. N /\ Order[k] \in Creature
    BY <1>1, Orders
  <2>2. v \in Things /\ Counted(w, v, Seen(k - 1), -1)
    BY <2>1
  <2>3. Seen(k) = Seen(k - 1) \cup ({Order[k]} \cap S) /\ Order[k] \notin Seen(k - 1)
    <3>1. 1 .. k = (1 .. k - 1) \cup {k}
      BY <1>1
    <3>2. \A j \in 1 .. k - 1 : Order[j] # Order[k]
      BY <1>1, Orders
    <3>. QED
      BY <3>1, <3>2
  <2>. HIDE DEF Seen
  <2>4. CASE Order[k] \in S
    <3>1. Counted(v, UnRef(v, Order[k]), {Order[k]}, -1) /\ UnRef(v, Order[k]) \in Things
      BY <2>1, <2>2, OneMore DEF Counted
    <3>2. Counted(w, UnRef(v, Order[k]), Seen(k - 1) \cup {Order[k]}, -1)
      <4>1. Seen(k - 1) \cap {Order[k]} = {}
        BY <2>3
      <4>. QED
        BY <2>2, <3>1, <4>1, CountedTwice
    <3>3. Seen(k) = Seen(k - 1) \cup {Order[k]}
      BY <2>3, <2>4
    <3>. QED
      BY <2>1, <2>2, <2>4, <3>1, <3>2, <3>3
  <2>5. CASE Order[k] \notin S
    <3>1. Seen(k) = Seen(k - 1)
      BY <2>3, <2>5
    <3>. QED
      BY <2>1, <2>2, <2>5, <3>1
  <2>. QED
    BY <2>4, <2>5
<1>4. \A k \in 1 .. N : \A v \in G[k - 1] : step[k][v] \in G[k]
  <2>. HIDE DEF G, Then
  <2>. QED  BY <1>3
<1>. HIDE DEF G, Seen
<1>5. PICK h \in [0 .. N -> Things] : Repeats(h, N, w, step) /\ \A k \in 0 .. N : h[k] \in G[k]
  <2>. HIDE DEF step, N
  <2>. QED  BY <1>1, <1>2, <1>4, Repeated
<1>6. h = [i \in 0 .. N |-> IF i = 0 THEN w ELSE Then(h[i - 1], i)]
  <2>. HIDE DEF Then
  <2>1. ASSUME NEW i \in 1 .. N
        PROVE  h[i] = Then(h[i - 1], i)
    <3>1. i - 1 \in 0 .. N
      BY <1>1
    <3>2. h[i - 1] \in Things
      BY <1>5, <3>1
    <3>. QED
      BY <1>5, <3>2 DEF Repeats
  <2>. HIDE DEF step, N
  <2>. QED
    BY <1>1, <1>5, <2>1 DEF Repeats
<1>7. after = [i \in 0 .. N |-> IF i = 0 THEN w ELSE Then(after[i - 1], i)]
  <2>. HIDE DEF step, Then, N
  <2>. QED  BY <1>6
<1>8. Each(w, S, UnRef) = IF S = {} THEN w ELSE after[N]
  BY DEF Each
<1>. HIDE DEF after, Then
<1>9. after[N] \in G[N]
  <2>. DEFINE T == {k \in 0 .. N : after[k] \in G[k]}
  <2>1. 0 \in T
    BY <1>1, <1>2, <1>7
  <2>2. \A k \in 1 .. N : k - 1 \in T => k \in T
    BY <1>1, <1>3, <1>7
  <2>3. \A k \in 0 .. N : k \in T
    <3>. HIDE DEF T, N
    <3>. QED  BY <1>1, <2>1, <2>2, UpTo
  <2>. QED
    BY <1>1, <2>3
<1>10. Seen(N) = S
  BY Orders DEF Seen
<1>11. Counted(w, after[N], S, -1)
  BY <1>1, <1>9, <1>10 DEF G
<1>12. S = {} => Counted(w, w, S, -1)
  BY CountedNone
<1>. QED
  BY <1>8, <1>11, <1>12

LEMMA FiniteCreatures == IsFiniteSet(Creature) /\ IsFiniteSet(Monster)
<1>. DEFINE f == [k \in 1 .. Len(Order) |-> Order[k]]
<1>1. IsFiniteSet(1 .. Len(Order))
  BY Orders, FS_Interval
<1>2. f \in Surjection(1 .. Len(Order), Creature)
  BY Orders DEF Surjection
<1>3. IsFiniteSet(Creature)
  BY <1>1, <1>2, FS_Surjection
<1>. QED
  BY <1>3, FS_Subset DEF Creature

-----------------------------------------------------------------------------
(* What a creature is told. *)

\* Who is targeted, befriended or served is somebody, and a player has no lists.
World ==
    {w \in Things :
        /\ \A a, c \in Creature :
              c \in w[a].targets \cup w[a].friends \cup w[a].summons => w[c].at # "none"
        /\ \A p \in Player : w[p].targets = {} /\ w[p].friends = {}}

Targeting(w, c) == {m \in Monster : c \in w[m].targets}
Befriending(w, c) == {m \in Monster : c \in w[m].friends}
Serves(w, c) == \E a \in Creature : c \in w[a].summons

\* The references to a creature, without that of a spawn, and the difference
\* between its count and them.
Held(w, c) ==
    B(Plays(w, c)) + B(w[c].listed) + w[c].freed + B(Serves(w, c))
    + Cardinality(Targeting(w, c)) + Cardinality(Befriending(w, c))
Excess(w, c) == w[c].refs - Held(w, c)

\* The parts of NobodyIsForgotten.
Looked(w, c) ==
    Plays(w, c) /\ (c \in Player \/ ~w[c].idle \/ ~w[c].alive) => w[c].checked /\ w[c].listed
Wakes(w, m, p) == Plays(w, m) /\ Plays(w, p) /\ Sees(w, m, p) /\ ~IsSummon(w, m) /\ w[m].alive
Woken(w, m, p) == Wakes(w, m, p) => p \in w[m].targets /\ ~w[m].idle

Framed(w, v) == \A c \in Creature : SamePlace(w[c], v[c])
Balanced(w, v) == \A c \in Creature : Excess(v, c) = Excess(w, c)
Untouched(w, v) == \A c \in Creature : w[c].at = "none" => v[c] = w[c]
Minded(w, v) == \A c \in Creature : Looked(w, c) => Looked(v, c)

\* Not counting z, who comes or goes.
Awake(w, v, z) == \A m \in Monster \ {z}, p \in Player \ {z} : Woken(w, m, p) => Woken(v, m, p)

\* Aims are lost, or taken at those of D who are seen.  (Those of a creature that
\* is not in the game are not read.)
MayAim(w, a, D) == {None} \cup {d \in D : Plays(w, a) => Plays(w, d) /\ Sees(w, a, d)}
Aimed(w, v, D) ==
    \A a \in Creature :
        /\ v[a].attacked \in {w[a].attacked} \cup MayAim(w, a, D)
        /\ v[a].follow \in {w[a].follow} \cup MayAim(w, a, D)

\* What happens to creatures that are told something.
Told(w, v, z, D) ==
    /\ v \in World /\ Framed(w, v) /\ Balanced(w, v) /\ Untouched(w, v)
    /\ Minded(w, v) /\ Awake(w, v, z) /\ Aimed(w, v, D)

LEMMA ToldNothing ==
    ASSUME NEW w \in World, NEW z, NEW D
    PROVE  Told(w, w, z, D)
BY DEF Told, Framed, Balanced, Untouched, Minded, Awake, Aimed, SamePlace

LEMMA FramedSame ==
    ASSUME NEW w, NEW v, Framed(w, v), NEW a \in Creature, NEW b \in Creature
    PROVE  /\ Plays(v, a) = Plays(w, a) /\ Sees(v, a, b) = Sees(w, a, b)
           /\ IsSummon(v, a) = IsSummon(w, a) /\ Wakes(v, a, b) = Wakes(w, a, b)
           /\ Serves(v, a) = Serves(w, a) /\ PlayerMaster(v, a) = PlayerMaster(w, a)
BY DEF Framed, SamePlace, Plays, Sees, Near, IsSummon, Wakes, Serves, PlayerMaster

LEMMA ToldTwice ==
    ASSUME NEW w, NEW v, NEW u, NEW z, NEW D, D \subseteq Creature, Told(w, v, z, D), Told(v, u, z, D)
    PROVE  Told(w, u, z, D)
<1>1. u \in World
  BY DEF Told
<1>2. Framed(w, u)
  BY DEF Told, Framed, SamePlace
<1>3. Balanced(w, u)
  BY DEF Told, Balanced
<1>4. Untouched(w, u)
  BY DEF Told, Untouched
<1>5. Minded(w, u)
  BY DEF Told, Minded
<1>6. Awake(w, u, z)
  BY DEF Told, Awake
<1>7. Aimed(w, u, D)
  <2>1. \A a \in Creature : MayAim(v, a, D) = MayAim(w, a, D)
    BY FramedSame DEF Told, MayAim
  <2>. QED
    BY <2>1 DEF Told, Aimed
<1>. QED
  BY <1>1, <1>2, <1>3, <1>4, <1>5, <1>6, <1>7 DEF Told

LEMMA ToldMore ==
    ASSUME NEW w, NEW v, NEW z, NEW y, NEW D, NEW E, D \subseteq E, Told(w, v, z, D), z = None \/ z = y
    PROVE  Told(w, v, y, E)
<1>1. Aimed(w, v, E)
  BY DEF Told, Aimed, MayAim
<1>2. Awake(w, v, y)
  BY CreaturesAssumption DEF Told, Awake, Creature
<1>. QED
  BY <1>1, <1>2 DEF Told

-----------------------------------------------------------------------------
(* Counts. *)

LEMMA WorldIsThings == ASSUME NEW w \in World PROVE w \in Things
BY DEF World

LEMMA MonsterIs == ASSUME NEW m \in Monster PROVE m \in Creature /\ m \notin Player /\ m # None
BY CreaturesAssumption DEF Creature

LEMMA PlayerIs == ASSUME NEW p \in Player PROVE p \in Creature /\ p \notin Monster /\ p # None
BY CreaturesAssumption DEF Creature

LEMMA RefsAreInt ==
    ASSUME NEW w \in Things, NEW c \in Creature
    PROVE  w[c].refs \in Int
BY DEF Things, Thing

LEMMA SizesDiffer ==
    ASSUME NEW S \in SUBSET Monster, NEW T \in SUBSET Monster, NEW m \in Monster, S \ {m} = T \ {m}
    PROVE  /\ Cardinality(S) \in Nat /\ Cardinality(T) \in Nat
           /\ Cardinality(T) = Cardinality(S) + B(m \in T) - B(m \in S)
<1>. DEFINE R == S \ {m}
<1>1. IsFiniteSet(S) /\ IsFiniteSet(T) /\ IsFiniteSet(R)
  BY FiniteCreatures, FS_Subset
<1>2. Cardinality(S) \in Nat /\ Cardinality(T) \in Nat /\ Cardinality(R) \in Nat
  BY <1>1, FS_CardinalityType
<1>3. Cardinality(S) = Cardinality(R) + B(m \in S)
  <2>1. CASE m \in S
    <3>1. S = R \cup {m} /\ m \notin R
      BY <2>1
    <3>2. Cardinality(R \cup {m}) = Cardinality(R) + 1
      BY <1>1, <3>1, FS_AddElement
    <3>. QED
      BY <2>1, <3>1, <3>2 DEF B
  <2>2. CASE m \notin S
    <3>1. S = R
      BY <2>2
    <3>. HIDE DEF R
    <3>. QED
      BY <1>2, <2>2, <3>1 DEF B
  <2>. QED
    BY <2>1, <2>2
<1>4. Cardinality(T) = Cardinality(R) + B(m \in T)
  <2>0. R = T \ {m}
    OBVIOUS
  <2>. HIDE DEF R
  <2>1. CASE m \in T
    <3>1. T = R \cup {m} /\ m \notin R
      BY <2>0, <2>1
    <3>2. Cardinality(R \cup {m}) = Cardinality(R) + 1
      BY <1>1, <3>1, FS_AddElement
    <3>. QED
      BY <2>1, <3>1, <3>2 DEF B
  <2>2. CASE m \notin T
    <3>1. T = R
      BY <2>0, <2>2
    <3>. QED
      BY <1>2, <2>2, <3>1 DEF B
  <2>. QED
    BY <2>1, <2>2
<1>. QED
  <2>. HIDE DEF R
  <2>. QED  BY <1>2, <1>3, <1>4 DEF B

LEMMA HeldIsNat ==
    ASSUME NEW w \in Things, NEW c \in Creature
    PROVE  /\ w[c].refs \in Int /\ w[c].freed \in Nat
           /\ Cardinality(Targeting(w, c)) \in Nat /\ Cardinality(Befriending(w, c)) \in Nat
           /\ Held(w, c) \in Nat /\ Excess(w, c) \in Int
<1>1. w[c].refs \in Int /\ w[c].freed \in Nat
  BY DEF Things, Thing
<1>2. Cardinality(Targeting(w, c)) \in Nat /\ Cardinality(Befriending(w, c)) \in Nat
  <2>1. IsFiniteSet(Targeting(w, c)) /\ IsFiniteSet(Befriending(w, c))
    BY FiniteCreatures, FS_Subset DEF Targeting, Befriending
  <2>. QED
    BY <2>1, FS_CardinalityType
<1>3. Held(w, c) \in Nat
  BY <1>1, <1>2 DEF Held, B
<1>. QED
  BY <1>1, <1>2, <1>3 DEF Excess

\* Whose counts change as the lists of m and the vectors of checked creatures do.
Relisted(w, v, m) ==
    /\ \A c \in Creature \ {m} : SameLists(w[c], v[c])
    /\ \A c \in Creature :
          v[c].refs = w[c].refs + (B(v[c].listed) - B(w[c].listed))
                      + (B(c \in v[m].targets) - B(c \in w[m].targets))
                      + (B(c \in v[m].friends) - B(c \in w[m].friends))

LEMMA Rebalanced ==
    ASSUME NEW w \in World, NEW v \in World, NEW m \in Creature, Framed(w, v), Relisted(w, v, m)
    PROVE  Balanced(w, v)
<1>. SUFFICES ASSUME NEW c \in Creature
              PROVE  Excess(v, c) = Excess(w, c)
  BY DEF Balanced
<1>1. w \in Things /\ v \in Things
  BY WorldIsThings
<1>a. CASE m \in Player
  <2>1. v[m].targets = {} /\ w[m].targets = {} /\ v[m].friends = {} /\ w[m].friends = {}
    BY <1>a DEF World
  <2>2. Targeting(v, c) = Targeting(w, c) /\ Befriending(v, c) = Befriending(w, c)
    <3>1. \A x \in Monster : x # m
      BY <1>a, PlayerIs
    <3>. QED
      BY <3>1, MonsterIs DEF Targeting, Befriending, Relisted, SameLists
  <2>3. Plays(v, c) = Plays(w, c) /\ Serves(v, c) = Serves(w, c) /\ v[c].freed = w[c].freed
    BY FramedSame DEF Framed, SamePlace
  <2>4. v[c].refs = w[c].refs + (B(v[c].listed) - B(w[c].listed))
    <3>1. w[c].refs \in Int
      BY <1>1, RefsAreInt
    <3>. QED
      BY <2>1, <3>1 DEF Relisted, B
  <2>5. /\ w[c].refs \in Int /\ w[c].freed \in Nat
        /\ Cardinality(Targeting(w, c)) \in Nat /\ Cardinality(Befriending(w, c)) \in Nat
        /\ B(v[c].listed) \in Nat /\ B(w[c].listed) \in Nat
        /\ B(Plays(w, c)) \in Nat /\ B(Serves(w, c)) \in Nat
    BY <1>1, HeldIsNat DEF B
  <2>6. Held(v, c) - Held(w, c) = v[c].refs - w[c].refs
    BY <2>2, <2>3, <2>4, <2>5 DEF Held
  <2>7. Held(v, c) \in Nat /\ Held(w, c) \in Nat /\ v[c].refs \in Int
    BY <1>1, HeldIsNat
  <2>. QED
    BY <2>5, <2>6, <2>7 DEF Excess
<1>. SUFFICES ASSUME m \in Monster
              PROVE  Excess(v, c) = Excess(w, c)
  BY <1>a DEF Creature
<1>2. /\ Cardinality(Targeting(v, c))
           = Cardinality(Targeting(w, c)) + B(c \in v[m].targets) - B(c \in w[m].targets)
  <2>1. Targeting(w, c) \ {m} = Targeting(v, c) \ {m}
    BY DEF Targeting, Relisted, SameLists, Creature
  <2>2. Targeting(w, c) \in SUBSET Monster /\ Targeting(v, c) \in SUBSET Monster
    BY DEF Targeting
  <2>3. (m \in Targeting(v, c)) = (c \in v[m].targets) /\ (m \in Targeting(w, c)) = (c \in w[m].targets)
    BY DEF Targeting
  <2>. QED
    BY <2>1, <2>2, <2>3, SizesDiffer
<1>3. /\ Cardinality(Befriending(v, c))
           = Cardinality(Befriending(w, c)) + B(c \in v[m].friends) - B(c \in w[m].friends)
  <2>1. Befriending(w, c) \ {m} = Befriending(v, c) \ {m}
    BY DEF Befriending, Relisted, SameLists, Creature
  <2>2. Befriending(w, c) \in SUBSET Monster /\ Befriending(v, c) \in SUBSET Monster
    BY DEF Befriending
  <2>3. (m \in Befriending(v, c)) = (c \in v[m].friends) /\ (m \in Befriending(w, c)) = (c \in w[m].friends)
    BY DEF Befriending
  <2>. QED
    BY <2>1, <2>2, <2>3, SizesDiffer
<1>4. Plays(v, c) = Plays(w, c) /\ Serves(v, c) = Serves(w, c) /\ v[c].freed = w[c].freed
  BY FramedSame DEF Framed, SamePlace
<1>5. v[c].refs = w[c].refs + (B(v[c].listed) - B(w[c].listed))
                  + (B(c \in v[m].targets) - B(c \in w[m].targets))
                  + (B(c \in v[m].friends) - B(c \in w[m].friends))
  BY DEF Relisted
<1>7. /\ w[c].refs \in Int /\ w[c].freed \in Nat
      /\ Cardinality(Targeting(w, c)) \in Nat /\ Cardinality(Befriending(w, c)) \in Nat
  BY <1>1, HeldIsNat
<1>9. /\ B(v[c].listed) \in Nat /\ B(w[c].listed) \in Nat
      /\ B(c \in v[m].targets) \in Nat /\ B(c \in w[m].targets) \in Nat
      /\ B(c \in v[m].friends) \in Nat /\ B(c \in w[m].friends) \in Nat
      /\ B(Plays(w, c)) \in Nat /\ B(Serves(w, c)) \in Nat
  BY DEF B
<1>10. Held(v, c) - Held(w, c) = v[c].refs - w[c].refs
  BY <1>2, <1>3, <1>4, <1>5, <1>7, <1>9 DEF Held
<1>11. Held(v, c) \in Nat /\ Held(w, c) \in Nat /\ v[c].refs \in Int
  BY <1>1, HeldIsNat
<1>. QED
  BY <1>7, <1>10, <1>11 DEF Excess

-----------------------------------------------------------------------------
(* The parts of an operation. *)

\* Nothing that is counted changes.
LEMMA QuietlyTold ==
    ASSUME NEW w \in World, NEW v \in Things, NEW m \in Creature, NEW D, w[m].at # "none",
           \A c \in Creature \ {m} : v[c] = w[c],
           SamePlace(w[m], v[m]), SameLists(w[m], v[m]), v[m].refs = w[m].refs, v[m].idle = w[m].idle,
           v[m].checked = w[m].checked, v[m].listed = w[m].listed,
           v[m].attacked \in {w[m].attacked} \cup MayAim(w, m, D),
           v[m].follow \in {w[m].follow} \cup MayAim(w, m, D)
    PROVE  Told(w, v, None, D)
<1>1. \A c \in Creature : SamePlace(w[c], v[c]) /\ SameLists(w[c], v[c]) /\ v[c].refs = w[c].refs
                          /\ v[c].listed = w[c].listed /\ v[c].idle = w[c].idle /\ v[c].checked = w[c].checked
  BY DEF SamePlace, SameLists
<1>2. Framed(w, v)
  BY <1>1 DEF Framed
<1>3. v \in World
  BY <1>1, PlayerIs DEF World, SamePlace, SameLists
<1>4. Balanced(w, v)
  <2>. SUFFICES ASSUME NEW c \in Creature
                PROVE  Excess(v, c) = Excess(w, c)
    BY DEF Balanced
  <2>1. Targeting(v, c) = Targeting(w, c) /\ Befriending(v, c) = Befriending(w, c)
    BY <1>1, MonsterIs DEF Targeting, Befriending, SameLists
  <2>2. Plays(v, c) = Plays(w, c) /\ Serves(v, c) = Serves(w, c)
    BY <1>2, FramedSame
  <2>. QED
    BY <1>1, <2>1, <2>2 DEF Excess, Held, SamePlace
<1>5. Untouched(w, v)
  BY DEF Untouched
<1>6. Minded(w, v)
  <2>. SUFFICES ASSUME NEW c \in Creature, Looked(w, c)
                PROVE  Looked(v, c)
    BY DEF Minded
  <2>. QED
    BY <1>1 DEF Looked, SamePlace, Plays
<1>7. Awake(w, v, None)
  <2>. SUFFICES ASSUME NEW x \in Monster, NEW p \in Player, Woken(w, x, p)
                PROVE  Woken(v, x, p)
    BY DEF Awake
  <2>1. Wakes(v, x, p) = Wakes(w, x, p)
    BY <1>2, FramedSame, MonsterIs, PlayerIs
  <2>. QED
    BY <1>1, <2>1, MonsterIs DEF Woken, SameLists
<1>8. Aimed(w, v, D)
  BY DEF Aimed
<1>. QED
  BY <1>2, <1>3, <1>4, <1>5, <1>6, <1>7, <1>8 DEF Told

InRanged(w, m, x) == [w EXCEPT ![m].inRange = x]

LEMMA InRangedTold ==
    ASSUME NEW w \in World, NEW m \in Creature, NEW x \in BOOLEAN, w[m].at # "none"
    PROVE  Told(w, InRanged(w, m, x), None, {})
<1>. DEFINE v == [w EXCEPT ![m].inRange = x]
<1>1. v \in Things
  BY WorldIsThings DEF Things, Thing
<1>2. /\ \A c \in Creature \ {m} : v[c] = w[c]
      /\ SamePlace(w[m], v[m]) /\ SameLists(w[m], v[m]) /\ v[m].refs = w[m].refs /\ v[m].idle = w[m].idle
      /\ v[m].checked = w[m].checked /\ v[m].listed = w[m].listed
      /\ v[m].attacked = w[m].attacked /\ v[m].follow = w[m].follow
  BY WorldIsThings DEF Things, Thing, SamePlace, SameLists
<1>. HIDE DEF v
<1>3. Told(w, v, None, {})
  BY <1>1, <1>2, QuietlyTold
<1>. QED
  BY <1>3 DEF InRanged, v

\* The world in which a has other aims.
LEMMA AimsTold ==
    ASSUME NEW w \in World, NEW a \in Creature, w[a].at # "none", NEW D, NEW x \in {w[a].attacked} \cup MayAim(w, a, D),
           NEW y \in {w[a].follow} \cup MayAim(w, a, D), D \subseteq Creature,
           NEW v, v = [w EXCEPT ![a].attacked = x, ![a].follow = y]
    PROVE  Told(w, v, None, D)
<1>1. x \in Creature \cup {None} /\ y \in Creature \cup {None}
  BY WorldIsThings DEF Things, Thing, MayAim
<1>2. v \in Things
  <2>. DEFINE u == [w EXCEPT ![a].attacked = x]
  <2>1. u \in Things
    BY <1>1, WorldIsThings DEF Things, Thing
  <2>2. [u EXCEPT ![a].follow = y] \in Things
    <3>. HIDE DEF u
    <3>. QED  BY <1>1, <2>1 DEF Things, Thing
  <2>3. v = [u EXCEPT ![a].follow = y]
    BY WorldIsThings DEF Things
  <2>. QED
    BY <2>2, <2>3
<1>3. /\ \A c \in Creature \ {a} : v[c] = w[c]
      /\ SamePlace(w[a], v[a]) /\ SameLists(w[a], v[a]) /\ v[a].refs = w[a].refs /\ v[a].idle = w[a].idle
      /\ v[a].checked = w[a].checked /\ v[a].listed = w[a].listed
      /\ v[a].attacked = x /\ v[a].follow = y
  BY WorldIsThings DEF Things, Thing, SamePlace, SameLists
<1>. QED
  BY <1>2, <1>3, QuietlyTold

\* The mind and the lists of one change.
Changed(w, v, m) ==
    /\ v \in World /\ Framed(w, v) /\ Untouched(w, v) /\ Relisted(w, v, m)
    /\ \A c \in Creature : SameAim(w[c], v[c]) /\ (c # m => SameMind(w[c], v[c]))

LEMMA ChangedTwice ==
    ASSUME NEW w \in World, NEW v, NEW u, NEW m \in Creature, Changed(w, v, m), Changed(v, u, m)
    PROVE  Changed(w, u, m)
<1>1. u \in World /\ Framed(w, u) /\ Untouched(w, u)
  BY DEF Changed, Framed, Untouched, SamePlace
<1>2. \A c \in Creature : SameAim(w[c], u[c]) /\ (c # m => SameMind(w[c], u[c]))
  BY DEF Changed, SameAim, SameMind
<1>3. \A c \in Creature \ {m} : SameLists(w[c], u[c])
  BY DEF Changed, Relisted, SameLists
<1>4. ASSUME NEW c \in Creature
      PROVE  u[c].refs = w[c].refs + (B(u[c].listed) - B(w[c].listed))
                      + (B(c \in u[m].targets) - B(c \in w[m].targets))
                      + (B(c \in u[m].friends) - B(c \in w[m].friends))
  <2>1. w[c].refs \in Int /\ v[c].refs \in Int
    BY WorldIsThings, RefsAreInt DEF Changed
  <2>2. /\ u[c].refs = v[c].refs + (B(u[c].listed) - B(v[c].listed))
                      + (B(c \in u[m].targets) - B(c \in v[m].targets))
                      + (B(c \in u[m].friends) - B(c \in v[m].friends))
        /\ v[c].refs = w[c].refs + (B(v[c].listed) - B(w[c].listed))
                      + (B(c \in v[m].targets) - B(c \in w[m].targets))
                      + (B(c \in v[m].friends) - B(c \in w[m].friends))
    BY DEF Changed, Relisted
  <2>. QED
    BY <2>1, <2>2 DEF B
<1>5. Relisted(w, u, m)
  BY <1>3, <1>4 DEF Relisted
<1>. QED
  BY <1>1, <1>2, <1>5 DEF Changed

LEMMA ChangedTold ==
    ASSUME NEW w \in World, NEW v, NEW m \in Creature, NEW z, Changed(w, v, m),
           Looked(w, m) => Looked(v, m),
           m # z /\ m \in Monster => \A p \in Player \ {z} : Wakes(w, m, p) /\ Woken(w, m, p) => p \in v[m].targets /\ ~v[m].idle
    PROVE  Told(w, v, z, {})
<1>1. v \in World /\ Framed(w, v) /\ Untouched(w, v)
  BY DEF Changed
<1>2. Balanced(w, v)
  BY Rebalanced DEF Changed
<1>3. Minded(w, v)
  <2>. SUFFICES ASSUME NEW c \in Creature, Looked(w, c), c # m
                PROVE  Looked(v, c)
    BY DEF Minded
  <2>1. SamePlace(w[c], v[c]) /\ SameMind(w[c], v[c])
    BY DEF Changed, Framed
  <2>. QED
    BY <2>1 DEF Looked, SamePlace, SameMind, Plays
<1>4. Awake(w, v, z)
  <2>. SUFFICES ASSUME NEW x \in Monster \ {z}, NEW p \in Player \ {z}, Woken(w, x, p)
                PROVE  Woken(v, x, p)
    BY DEF Awake
  <2>1. Wakes(v, x, p) = Wakes(w, x, p)
    BY <1>1, FramedSame, MonsterIs, PlayerIs
  <2>2. CASE x = m
    BY <2>1, <2>2 DEF Woken
  <2>3. CASE x # m
    <3>1. SameMind(w[x], v[x]) /\ SameLists(w[x], v[x])
      BY <2>3, MonsterIs DEF Changed, Relisted
    <3>. QED
      BY <2>1, <3>1 DEF Woken, SameMind, SameLists
  <2>. QED
    BY <2>2, <2>3
<1>5. Aimed(w, v, {})
  BY DEF Aimed, Changed, SameAim
<1>. QED
  BY <1>1, <1>2, <1>3, <1>4, <1>5 DEF Told

\* The lists of a monster change with the counts of those who are in them.
Enlisted(w, v, m, F, T) ==
    /\ Changed(w, v, m) /\ SameMind(w[m], v[m])
    /\ v[m].friends = F /\ v[m].targets = T

WithLists(t, m, F, T) == [t EXCEPT ![m].friends = F, ![m].targets = T]

Fits(w, m, F, T, f, g, d) ==
    /\ \A c \in Creature :
          /\ B(c \in F) - B(c \in w[m].friends) = IF c \in f THEN d ELSE 0
          /\ B(c \in T) - B(c \in w[m].targets) = IF c \in g THEN d ELSE 0
    /\ \A c \in F \cup T \cup f \cup g : w[c].at # "none"

LEMMA ListsChange ==
    ASSUME NEW w \in World, NEW u, NEW t, NEW m \in Monster, w[m].at # "none",
           NEW F \in SUBSET Creature, NEW T \in SUBSET Creature, NEW d \in Int,
           NEW f \in SUBSET Creature, NEW g \in SUBSET Creature,
           Counted(w, u, f, d), Counted(u, t, g, d), Fits(w, m, F, T, f, g, d)
    PROVE  Enlisted(w, WithLists(t, m, F, T), m, F, T)
<1>. DEFINE v == WithLists(t, m, F, T)
<1>1. m \in Creature /\ t \in Things /\ w \in Things
  BY WorldIsThings, MonsterIs DEF Counted
<1>2. v \in Things
  <2>. DEFINE s == [t EXCEPT ![m].friends = F]
  <2>1. s \in Things
    BY <1>1 DEF Things, Thing
  <2>2. [s EXCEPT ![m].targets = T] \in Things
    <3>. HIDE DEF s
    <3>. QED  BY <1>1, <2>1 DEF Things, Thing
  <2>3. v = [s EXCEPT ![m].targets = T]
    BY <1>1 DEF Things, WithLists
  <2>. QED
    BY <2>2, <2>3
<1>3. /\ \A c \in Creature \ {m} : v[c] = t[c]
      /\ SamePlace(t[m], v[m]) /\ SameAim(t[m], v[m]) /\ SameMind(t[m], v[m]) /\ v[m].refs = t[m].refs
      /\ v[m].friends = F /\ v[m].targets = T
  BY <1>1 DEF Things, Thing, SamePlace, SameAim, SameMind, WithLists
<1>. HIDE DEF v
<1>4. \A c \in Creature : Plus(w[c], u[c], IF c \in f THEN d ELSE 0) /\ Plus(u[c], t[c], IF c \in g THEN d ELSE 0)
  BY DEF Counted
<1>5. \A c \in Creature : /\ SamePlace(w[c], t[c]) /\ SameAim(w[c], t[c]) /\ SameMind(w[c], t[c]) /\ SameLists(w[c], t[c])
  BY <1>4 DEF Plus, SamePlace, SameAim, SameMind, SameLists
<1>6. \A c \in Creature : t[c].refs = w[c].refs + (IF c \in f THEN d ELSE 0) + (IF c \in g THEN d ELSE 0)
  BY <1>1, <1>4, RefsAreInt DEF Plus
<1>7. Framed(w, v)
  BY <1>3, <1>5 DEF Framed, SamePlace
<1>8. Untouched(w, v)
  <2>. SUFFICES ASSUME NEW c \in Creature, w[c].at = "none"
                PROVE  v[c] = w[c]
    BY DEF Untouched
  <2>1. c # m /\ c \notin f /\ c \notin g
    BY DEF Fits
  <2>. QED
    BY <1>3, <1>4, <2>1 DEF Plus
<1>9. v \in World
  <2>1. \A c \in Creature : v[c].at = w[c].at /\ v[c].summons = w[c].summons
    BY <1>7 DEF Framed, SamePlace
  <2>2. \A c \in Creature \ {m} : v[c].targets = w[c].targets /\ v[c].friends = w[c].friends
    BY <1>3, <1>5 DEF SameLists
  <2>3. \A a, c \in Creature : c \in v[a].targets \cup v[a].friends \cup v[a].summons => v[c].at # "none"
    BY <1>3, <2>1, <2>2 DEF World, Fits
  <2>. QED
    BY <1>2, <2>2, <2>3, PlayerIs, MonsterIs DEF World
<1>10. Relisted(w, v, m)
  <2>1. \A c \in Creature \ {m} : SameLists(w[c], v[c])
    BY <1>3, <1>5 DEF SameLists
  <2>2. ASSUME NEW c \in Creature
        PROVE  v[c].refs = w[c].refs + (B(v[c].listed) - B(w[c].listed))
                      + (B(c \in v[m].targets) - B(c \in w[m].targets))
                      + (B(c \in v[m].friends) - B(c \in w[m].friends))
    <3>1. v[c].refs = t[c].refs /\ v[c].listed = w[c].listed
      BY <1>3, <1>5 DEF SameMind
    <3>2. w[c].refs \in Int
      BY <1>1, RefsAreInt
    <3>3. B(w[c].listed) - B(w[c].listed) = 0
      BY DEF B
    <3>. QED
      BY <1>3, <1>6, <3>1, <3>2, <3>3 DEF Fits
  <2>. QED
    BY <2>1, <2>2 DEF Relisted
<1>11. \A c \in Creature : SameAim(w[c], v[c]) /\ SameMind(w[c], v[c])
  <2>. SUFFICES ASSUME NEW c \in Creature
                PROVE  SameAim(w[c], v[c]) /\ SameMind(w[c], v[c])
    OBVIOUS
  <2>1. SameAim(t[c], v[c]) /\ SameMind(t[c], v[c])
    BY <1>3 DEF SameAim, SameMind
  <2>. QED
    BY <1>5, <2>1 DEF SameAim, SameMind
<1>12. Enlisted(w, v, m, F, T)
  BY <1>1, <1>3, <1>7, <1>8, <1>9, <1>10, <1>11 DEF Enlisted, Changed
<1>. QED
  BY <1>12 DEF v

\* Whether one rests and is looked at changes.
LEMMA MindChanges ==
    ASSUME NEW w \in World, NEW v \in Things, NEW m \in Creature, w[m].at # "none",
           \A c \in Creature \ {m} : v[c] = w[c],
           SamePlace(w[m], v[m]), SameAim(w[m], v[m]), SameLists(w[m], v[m]),
           v[m].refs = w[m].refs + (B(v[m].listed) - B(w[m].listed))
    PROVE  Changed(w, v, m)
<1>1. \A c \in Creature : SamePlace(w[c], v[c]) /\ SameAim(w[c], v[c]) /\ SameLists(w[c], v[c])
                          /\ (c # m => SameMind(w[c], v[c]) /\ v[c].refs = w[c].refs)
  BY DEF SamePlace, SameAim, SameLists, SameMind
<1>2. Framed(w, v)
  BY <1>1 DEF Framed
<1>3. v \in World
  BY <1>1, PlayerIs DEF World, SamePlace, SameLists
<1>4. Untouched(w, v)
  BY DEF Untouched
<1>5. Relisted(w, v, m)
  <2>1. \A c \in Creature \ {m} : SameLists(w[c], v[c])
    BY <1>1
  <2>2. ASSUME NEW c \in Creature
        PROVE  v[c].refs = w[c].refs + (B(v[c].listed) - B(w[c].listed))
                      + (B(c \in v[m].targets) - B(c \in w[m].targets))
                      + (B(c \in v[m].friends) - B(c \in w[m].friends))
    <3>1. w[c].refs \in Int
      BY WorldIsThings, RefsAreInt
    <3>2. v[m].targets = w[m].targets /\ v[m].friends = w[m].friends
      BY <1>1 DEF SameLists
    <3>3. v[c].refs = w[c].refs + (B(v[c].listed) - B(w[c].listed))
      BY <1>1, <3>1 DEF B
    <3>. QED
      BY <3>1, <3>2, <3>3 DEF B
  <2>. QED
    BY <2>1, <2>2 DEF Relisted
<1>. QED
  BY <1>1, <1>2, <1>3, <1>4, <1>5 DEF Changed

Idled(w, m, x) == [w EXCEPT ![m].idle = x]

LEMMA IdledChanges ==
    ASSUME NEW w \in World, NEW m \in Creature, NEW x \in BOOLEAN, w[m].at # "none"
    PROVE  LET v == Idled(w, m, x)
           IN  /\ Changed(w, v, m) /\ SameLists(w[m], v[m]) /\ v[m].idle = x
               /\ v[m].listed = w[m].listed /\ v[m].checked = w[m].checked
<1>. DEFINE v == Idled(w, m, x)
<1>1. v \in Things
  BY WorldIsThings DEF Things, Thing, Idled
<1>2. /\ \A c \in Creature \ {m} : v[c] = w[c]
      /\ SamePlace(w[m], v[m]) /\ SameAim(w[m], v[m]) /\ SameLists(w[m], v[m])
      /\ v[m].refs = w[m].refs /\ v[m].listed = w[m].listed /\ v[m].checked = w[m].checked /\ v[m].idle = x
  BY WorldIsThings DEF Things, Thing, SamePlace, SameAim, SameLists, Idled
<1>. HIDE DEF v
<1>3. v[m].refs = w[m].refs + (B(v[m].listed) - B(w[m].listed))
  BY <1>2, WorldIsThings, RefsAreInt DEF B
<1>4. Changed(w, v, m)
  BY <1>1, <1>2, <1>3, MindChanges
<1>. QED
  BY <1>2, <1>4 DEF v

Checked(w, m, x) == [w EXCEPT ![m].checked = x]

LEMMA CheckedIs ==
    ASSUME NEW w \in Things, NEW m \in Creature, NEW x \in BOOLEAN
    PROVE  LET v == Checked(w, m, x)
           IN  /\ v \in Things /\ \A c \in Creature \ {m} : v[c] = w[c]
               /\ SamePlace(w[m], v[m]) /\ SameAim(w[m], v[m]) /\ SameLists(w[m], v[m])
               /\ v[m].refs = w[m].refs /\ v[m].listed = w[m].listed /\ v[m].idle = w[m].idle
               /\ v[m].checked = x
<1>1. Checked(w, m, x) \in Things
  BY DEF Things, Thing, Checked
<1>. QED
  BY <1>1 DEF Things, Thing, Checked, SamePlace, SameAim, SameLists

Listed(w, m, x) == [w EXCEPT ![m].listed = x]

LEMMA ListedIs ==
    ASSUME NEW w \in Things, NEW m \in Creature, NEW x \in BOOLEAN
    PROVE  LET v == Listed(w, m, x)
           IN  /\ v \in Things /\ \A c \in Creature \ {m} : v[c] = w[c]
               /\ SamePlace(w[m], v[m]) /\ SameAim(w[m], v[m]) /\ SameLists(w[m], v[m])
               /\ v[m].refs = w[m].refs /\ v[m].checked = w[m].checked /\ v[m].idle = w[m].idle
               /\ v[m].listed = x
<1>1. Listed(w, m, x) \in Things
  BY DEF Things, Thing, Listed
<1>. QED
  BY <1>1 DEF Things, Thing, Listed, SamePlace, SameAim, SameLists

LEMMA RemoveCheckChanges ==
    ASSUME NEW w \in World, NEW m \in Creature, w[m].at # "none"
    PROVE  LET v == RemoveCheck(w, m)
           IN  /\ Changed(w, v, m) /\ SameLists(w[m], v[m]) /\ v[m].idle = w[m].idle
               /\ v[m].listed = w[m].listed
<1>. DEFINE v == RemoveCheck(w, m)
            x == w[m].checked /\ ~w[m].listed
<1>1. x \in BOOLEAN /\ w \in Things
  BY WorldIsThings
<1>2. v = Checked(w, m, x)
  BY <1>1 DEF RemoveCheck, Checked, Things
<1>. HIDE DEF v, x
<1>3. v[m].refs = w[m].refs + (B(v[m].listed) - B(w[m].listed))
  BY <1>1, <1>2, CheckedIs, RefsAreInt DEF B
<1>4. Changed(w, v, m)
  BY <1>1, <1>2, <1>3, CheckedIs, MindChanges
<1>. QED
  BY <1>1, <1>2, <1>4, CheckedIs DEF v

LEMMA AddCheckChanges ==
    ASSUME NEW w \in World, NEW m \in Creature, w[m].at = "game"
    PROVE  LET v == AddCheck(w, m)
           IN  /\ Changed(w, v, m) /\ SameLists(w[m], v[m]) /\ v[m].idle = w[m].idle
               /\ v[m].listed /\ v[m].checked
<1>. DEFINE v == AddCheck(w, m)
            u == Checked(w, m, TRUE)
            l == Listed(u, m, TRUE)
<1>0. w \in Things /\ u \in Things
  BY WorldIsThings, CheckedIs
<1>1. l \in Things
  BY <1>0, ListedIs
<1>2. /\ \A c \in Creature \ {m} : l[c] = w[c]
      /\ SamePlace(w[m], l[m]) /\ SameAim(w[m], l[m]) /\ SameLists(w[m], l[m])
      /\ l[m].refs = w[m].refs /\ l[m].listed = TRUE /\ l[m].checked = TRUE /\ l[m].idle = w[m].idle
  <2>1. /\ \A c \in Creature \ {m} : u[c] = w[c]
        /\ SamePlace(w[m], u[m]) /\ SameAim(w[m], u[m]) /\ SameLists(w[m], u[m])
        /\ u[m].refs = w[m].refs /\ u[m].checked = TRUE /\ u[m].idle = w[m].idle
    BY <1>0, CheckedIs
  <2>. HIDE DEF u
  <2>2. /\ \A c \in Creature \ {m} : l[c] = u[c]
        /\ SamePlace(u[m], l[m]) /\ SameAim(u[m], l[m]) /\ SameLists(u[m], l[m])
        /\ l[m].refs = u[m].refs /\ l[m].checked = u[m].checked /\ l[m].idle = u[m].idle /\ l[m].listed = TRUE
    BY <1>0, ListedIs
  <2>. HIDE DEF l
  <2>. QED
    BY <2>1, <2>2 DEF SamePlace, SameAim, SameLists
<1>3. v = IF w[m].listed THEN l ELSE AddRef(l, m)
  <2>. DEFINE k == [w EXCEPT ![m].checked = TRUE, ![m].listed = TRUE]
  <2>1. l = k
    BY <1>0 DEF Listed, Checked, Things
  <2>2. v = IF w[m].at = "removed" THEN w ELSE IF w[m].listed THEN k ELSE AddRef(k, m)
    BY DEF AddCheck
  <2>. HIDE DEF k, v, l
  <2>. QED
    BY <2>1, <2>2
<1>. HIDE DEF l, u
<1>. HIDE DEF v
<1>4. Counted(l, AddRef(l, m), {m}, 1)
  BY <1>1, OneMore
<1>5. /\ v \in Things
      /\ \A c \in Creature \ {m} : v[c] = l[c]
      /\ SamePlace(l[m], v[m]) /\ SameAim(l[m], v[m]) /\ SameLists(l[m], v[m]) /\ SameMind(l[m], v[m])
      /\ v[m].refs = l[m].refs + (IF w[m].listed THEN 0 ELSE 1)
  <2>1. CASE w[m].listed
    BY <1>1, <1>3, <2>1, RefsAreInt DEF SamePlace, SameAim, SameLists, SameMind
  <2>2. CASE ~w[m].listed
    <3>1. \A c \in Creature \ {m} : Plus(l[c], v[c], 0)
      BY <1>3, <1>4, <2>2 DEF Counted
    <3>2. Plus(l[m], v[m], 1) /\ v \in Things
      BY <1>3, <1>4, <2>2 DEF Counted
    <3>. QED
      BY <2>2, <3>1, <3>2 DEF Plus
  <2>. QED
    BY <2>1, <2>2
<1>6. SamePlace(w[m], v[m]) /\ SameAim(w[m], v[m]) /\ SameLists(w[m], v[m])
      /\ v[m].listed = TRUE /\ v[m].checked = TRUE /\ v[m].idle = w[m].idle
  BY <1>2, <1>5 DEF SamePlace, SameAim, SameLists, SameMind
<1>7. v[m].refs = w[m].refs + (B(v[m].listed) - B(w[m].listed))
  <2>1. w[m].refs \in Int /\ w[m].listed \in BOOLEAN
    BY WorldIsThings DEF Things, Thing
  <2>. QED
    BY <1>2, <1>5, <1>6, <2>1 DEF B
<1>8. Changed(w, v, m)
  BY <1>2, <1>5, <1>6, <1>7, MindChanges
<1>. QED
  BY <1>6, <1>8 DEF v

-----------------------------------------------------------------------------
(* Rest, friends and targets. *)

LEMMA ListsOf ==
    ASSUME NEW w \in World, NEW m \in Creature
    PROVE  /\ w[m].targets \in SUBSET Creature /\ w[m].friends \in SUBSET Creature
           /\ \A c \in w[m].targets \cup w[m].friends \cup w[m].summons : c \in Creature /\ w[c].at # "none"
           /\ w[m].summons \in SUBSET Creature
<1>1. w[m].targets \in SUBSET Creature /\ w[m].friends \in SUBSET Creature /\ w[m].summons \in SUBSET Creature
  BY WorldIsThings DEF Things, Thing
<1>. QED
  BY <1>1 DEF World

LEMMA ClearTargetsEnlists ==
    ASSUME NEW w \in World, NEW m \in Monster, w[m].at # "none"
    PROVE  Enlisted(w, ClearTargets(w, m), m, w[m].friends, {})
<1>. DEFINE g == w[m].targets
            F == w[m].friends
            t == Each(w, g, UnRef)
<1>1. m \in Creature /\ w \in Things
  BY MonsterIs, WorldIsThings
<1>2. g \in SUBSET Creature /\ F \in SUBSET Creature /\ \A c \in g \cup F : w[c].at # "none"
  BY <1>1, ListsOf
<1>3. Counted(w, t, g, -1)
  BY <1>1, <1>2, EachUnRef
<1>4. Counted(w, w, {}, -1)
  BY <1>1, CountedNone
<1>5. t \in Things /\ t[m].friends = F
  BY <1>1, <1>3 DEF Counted, Plus, SameLists
<1>6. Fits(w, m, F, {}, {}, g, -1)
  BY <1>2 DEF Fits, B
<1>7. ClearTargets(w, m) = [t EXCEPT ![m].targets = {}]
  BY DEF ClearTargets
<1>. HIDE DEF t, g
<1>8. [t EXCEPT ![m].targets = {}] = WithLists(t, m, F, {})
  BY <1>1, <1>5 DEF WithLists, Things, Thing
<1>. HIDE DEF F
<1>9. Enlisted(w, WithLists(t, m, F, {}), m, F, {})
  BY <1>1, <1>2, <1>3, <1>4, <1>6, ListsChange
<1>. QED
  BY <1>7, <1>8, <1>9 DEF F

LEMMA ClearFriendsEnlists ==
    ASSUME NEW w \in World, NEW m \in Monster, w[m].at # "none"
    PROVE  Enlisted(w, ClearFriends(w, m), m, {}, w[m].targets)
<1>. DEFINE f == w[m].friends
            T == w[m].targets
            t == Each(w, f, UnRef)
<1>1. m \in Creature /\ w \in Things
  BY MonsterIs, WorldIsThings
<1>2. f \in SUBSET Creature /\ T \in SUBSET Creature /\ \A c \in f \cup T : w[c].at # "none"
  BY <1>1, ListsOf
<1>3. Counted(w, t, f, -1)
  BY <1>1, <1>2, EachUnRef
<1>4. t \in Things /\ t[m].targets = T
  BY <1>1, <1>3 DEF Counted, Plus, SameLists
<1>5. Counted(t, t, {}, -1)
  BY <1>4, CountedNone
<1>6. Fits(w, m, {}, T, f, {}, -1)
  BY <1>2 DEF Fits, B
<1>7. ClearFriends(w, m) = [t EXCEPT ![m].friends = {}]
  BY DEF ClearFriends
<1>. HIDE DEF t, f
<1>8. [t EXCEPT ![m].friends = {}] = WithLists(t, m, {}, T)
  BY <1>1, <1>4 DEF WithLists, Things, Thing
<1>. HIDE DEF T
<1>9. Enlisted(w, WithLists(t, m, {}, T), m, {}, T)
  BY <1>1, <1>2, <1>3, <1>5, <1>6, ListsChange
<1>. QED
  BY <1>7, <1>8, <1>9 DEF T

LEMMA ClearListsEnlists ==
    ASSUME NEW w \in World, NEW m \in Monster, w[m].at # "none"
    PROVE  Enlisted(w, ClearLists(w, m), m, {}, {})
<1>. DEFINE v == ClearTargets(w, m)
            u == ClearFriends(v, m)
<1>1. Enlisted(w, v, m, w[m].friends, {})
  BY ClearTargetsEnlists
<1>2. v \in World /\ v[m].at = w[m].at /\ m \in Creature
  BY <1>1, MonsterIs DEF Enlisted, Changed, Framed, SamePlace
<1>. HIDE DEF v
<1>3. Enlisted(v, u, m, {}, v[m].targets)
  BY <1>2, ClearFriendsEnlists
<1>. HIDE DEF u
<1>4. Changed(w, u, m)
  BY <1>1, <1>2, <1>3, ChangedTwice DEF Enlisted
<1>5. SameMind(w[m], u[m]) /\ u[m].friends = {} /\ u[m].targets = {}
  BY <1>1, <1>3 DEF Enlisted, SameMind
<1>6. Enlisted(w, u, m, {}, {})
  BY <1>4, <1>5 DEF Enlisted
<1>. QED
  BY <1>6 DEF ClearLists, u, v

\* It rests, or is looked at, unless it is removed or dead.
IdleIsSet(w, v, m, x) ==
    /\ Told(w, v, m, {}) /\ (~x => Told(w, v, None, {}))
    /\ Plays(w, m) /\ w[m].alive => v[m].idle = x
    /\ ~x => v[m].targets = w[m].targets
    /\ w[m].targets = {} => v[m].targets = {}

LEMMA SetIdleTold ==
    ASSUME NEW w \in World, NEW m \in Monster, w[m].at # "none", NEW x \in BOOLEAN
    PROVE  IdleIsSet(w, SetIdle(w, m, x), m, x)
<1>. DEFINE i == Idled(w, m, x)
            v == SetIdle(w, m, x)
<1>1. m \in Creature /\ w[m].at \in {"none", "game", "removed"}
  BY MonsterIs, WorldIsThings DEF Things, Thing
<1>2. v = IF w[m].at = "removed" \/ ~w[m].alive THEN w
          ELSE IF x THEN RemoveCheck(ClearLists(i, m), m) ELSE AddCheck(i, m)
  BY DEF SetIdle, Idled
<1>3. /\ Changed(w, i, m) /\ SameLists(w[m], i[m]) /\ i[m].idle = x
      /\ i[m].listed = w[m].listed /\ i[m].checked = w[m].checked
  BY <1>1, IdledChanges
<1>4. i \in World /\ i[m].at = w[m].at /\ i[m].alive = w[m].alive
  BY <1>1, <1>3 DEF Changed, Framed, SamePlace
<1>. HIDE DEF i, v
<1>5. ASSUME w[m].at = "removed" \/ ~w[m].alive
      PROVE  IdleIsSet(w, v, m, x)
  BY <1>2, <1>5, ToldNothing DEF Plays, IdleIsSet
<1>6. ASSUME ~(w[m].at = "removed" \/ ~w[m].alive), x
      PROVE  IdleIsSet(w, v, m, x)
  <2>. DEFINE l == ClearLists(i, m)
  <2>1. Enlisted(i, l, m, {}, {})
    BY <1>4, ClearListsEnlists
  <2>2. l \in World /\ l[m].at = i[m].at
    BY <1>1, <2>1 DEF Enlisted, Changed, Framed, SamePlace
  <2>. HIDE DEF l
  <2>3. v = RemoveCheck(l, m)
    BY <1>2, <1>6 DEF l
  <2>4. Changed(l, v, m) /\ SameLists(l[m], v[m]) /\ v[m].idle = l[m].idle
    BY <1>1, <1>4, <2>2, <2>3, RemoveCheckChanges
  <2>5. Changed(w, l, m)
    BY <1>1, <1>3, <2>1, ChangedTwice DEF Enlisted
  <2>6. Changed(w, v, m)
    BY <1>1, <2>4, <2>5, ChangedTwice
  <2>7. v[m].idle = TRUE /\ v[m].targets = {}
    BY <1>3, <1>6, <2>1, <2>4 DEF Enlisted, SameMind, SameLists
  <2>8. Looked(v, m)
    <3>1. v[m].alive = w[m].alive
      BY <1>1, <2>6 DEF Changed, Framed, SamePlace
    <3>. QED
      BY <1>6, <2>7, <3>1, MonsterIs DEF Looked
  <2>9. Told(w, v, m, {})
    BY <1>1, <2>6, <2>8, ChangedTold
  <2>. QED
    BY <1>6, <2>7, <2>9 DEF IdleIsSet
<1>7. ASSUME ~(w[m].at = "removed" \/ ~w[m].alive), ~x
      PROVE  IdleIsSet(w, v, m, x)
  <2>1. v = AddCheck(i, m) /\ i[m].at = "game"
    BY <1>1, <1>2, <1>4, <1>7
  <2>2. Changed(i, v, m) /\ SameLists(i[m], v[m]) /\ v[m].idle = i[m].idle /\ v[m].listed /\ v[m].checked
    BY <1>1, <1>4, <2>1, AddCheckChanges
  <2>3. Changed(w, v, m)
    BY <1>1, <1>3, <2>2, ChangedTwice
  <2>4. v[m].idle = FALSE /\ v[m].targets = w[m].targets
    BY <1>3, <1>7, <2>2 DEF SameLists
  <2>5. Looked(v, m)
    BY <2>2 DEF Looked
  <2>6. \A p \in Player : Wakes(w, m, p) /\ Woken(w, m, p) => p \in v[m].targets /\ ~v[m].idle
    BY <2>4 DEF Woken
  <2>7. Told(w, v, m, {}) /\ Told(w, v, None, {})
    BY <1>1, <2>3, <2>5, <2>6, ChangedTold
  <2>. QED
    BY <1>7, <2>4, <2>7 DEF IdleIsSet
<1>8. QED
  BY <1>5, <1>6, <1>7 DEF v

IdleIsUpdated(w, v, m) ==
    /\ Told(w, v, None, {})
    /\ ~IsSummon(w, m) => v[m].targets = w[m].targets
    /\ ~IsSummon(w, m) /\ Plays(w, m) /\ w[m].alive => v[m].idle = (w[m].targets = {})

LEMMA UpdateIdleStatusTold ==
    ASSUME NEW w \in World, NEW m \in Monster, w[m].at # "none"
    PROVE  IdleIsUpdated(w, UpdateIdleStatus(w, m), m)
<1>. DEFINE x == Rests(w, m)
            v == UpdateIdleStatus(w, m)
<1>1. x \in BOOLEAN
  <2>1. IsSummon(w, m) => w[w[m].master].idle \in BOOLEAN
    BY WorldIsThings, MonsterIs DEF Things, Thing, IsSummon
  <2>2. w[m].inRange \in BOOLEAN
    BY WorldIsThings, MonsterIs DEF Things, Thing
  <2>. QED
    BY <2>1, <2>2 DEF Rests, PlayerMaster
<1>2. ~IsSummon(w, m) => x = (w[m].targets = {})
  BY DEF Rests
<1>3. v = SetIdle(w, m, x)
  BY DEF UpdateIdleStatus
<1>. HIDE DEF v, x
<1>4. IdleIsSet(w, v, m, x)
  BY <1>1, <1>3, SetIdleTold
<1>5. Told(w, v, None, {})
  <2>1. CASE ~x
    BY <1>4, <2>1 DEF IdleIsSet
  <2>2. CASE x
    <3>1. Told(w, v, m, {})
      BY <1>4 DEF IdleIsSet
    <3>2. ASSUME NEW p \in Player, Woken(w, m, p)
          PROVE  Woken(v, m, p)
      <4>1. Wakes(v, m, p) = Wakes(w, m, p)
        BY <3>1, FramedSame, MonsterIs, PlayerIs DEF Told
      <4>2. ~Wakes(w, m, p)
        BY <1>2, <2>2, <3>2 DEF Woken, Wakes
      <4>. QED
        BY <4>1, <4>2 DEF Woken
    <3>3. Awake(w, v, None)
      <4>. SUFFICES ASSUME NEW y \in Monster, NEW p \in Player, Woken(w, y, p)
                    PROVE  Woken(v, y, p)
        BY DEF Awake
      <4>1. p # m
        BY MonsterIs
      <4>. QED
        BY <3>1, <3>2, <4>1 DEF Told, Awake
    <3>. QED
      BY <3>1, <3>3 DEF Told
  <2>. QED
    BY <1>1, <2>1, <2>2
<1>6. ~IsSummon(w, m) => v[m].targets = w[m].targets
  BY <1>1, <1>2, <1>4 DEF IdleIsSet
<1>7. ~IsSummon(w, m) /\ Plays(w, m) /\ w[m].alive => v[m].idle = (w[m].targets = {})
  BY <1>2, <1>4 DEF IdleIsSet
<1>. QED
  BY <1>5, <1>6, <1>7 DEF IdleIsUpdated, v

LEMMA EnlistedTold ==
    ASSUME NEW w \in World, NEW v, NEW m \in Monster, NEW z, NEW F, NEW T, Enlisted(w, v, m, F, T),
           m # z => \A p \in Player \ {z} : Wakes(w, m, p) /\ p \in w[m].targets => p \in T
    PROVE  Told(w, v, z, {})
<1>1. Changed(w, v, m) /\ SameMind(w[m], v[m]) /\ v[m].targets = T
  BY DEF Enlisted
<1>2. Looked(w, m) => Looked(v, m)
  <2>1. SamePlace(w[m], v[m])
    BY <1>1, MonsterIs DEF Changed, Framed
  <2>. QED
    BY <1>1, <2>1 DEF Looked, SamePlace, SameMind, Plays
<1>3. m # z => \A p \in Player \ {z} : Wakes(w, m, p) /\ Woken(w, m, p) => p \in v[m].targets /\ ~v[m].idle
  BY <1>1 DEF Woken, SameMind
<1>. QED
  BY <1>1, <1>2, <1>3, ChangedTold, MonsterIs

\* After it m has the player c for a target and does not rest.
LEMMA FoundTold ==
    ASSUME NEW w \in World, NEW m \in Monster, NEW c \in Creature, w[m].at # "none", w[c].at # "none"
    PROVE  Told(w, Found(w, m, c), None, {}) /\ (c \in Player => Woken(Found(w, m, c), m, c))
<1>. DEFINE f == {d \in {c} \ w[m].friends : IsFriend(w, m, c)}
            g == {d \in {c} \ w[m].targets : IsOpponent(w, m, c)}
            u == Each(w, f, AddRef)
            t == Each(u, g, AddRef)
            F == w[m].friends \cup f
            T == w[m].targets \cup g
            l == [t EXCEPT ![m].friends = @ \cup f, ![m].targets = @ \cup g]
            v == Found(w, m, c)
<1>1. v = UpdateIdleStatus(l, m)
  BY DEF Found
<1>2. m \in Creature /\ w \in Things
  BY MonsterIs, WorldIsThings
<1>3. /\ w[m].targets \in SUBSET Creature /\ w[m].friends \in SUBSET Creature
      /\ \A d \in w[m].targets \cup w[m].friends : w[d].at # "none"
  BY <1>2, ListsOf
<1>4. f \in SUBSET Creature /\ g \in SUBSET Creature /\ F \in SUBSET Creature /\ T \in SUBSET Creature
  BY <1>3
<1>5. f \cap w[m].friends = {} /\ g \cap w[m].targets = {} /\ f \subseteq {c} /\ g \subseteq {c}
      /\ (c \in Player => c \in T)
  BY DEF IsOpponent
<1>. HIDE DEF v, f, g
<1>6. Counted(w, u, f, 1)
  BY <1>2, <1>4, EachAddRef
<1>7. u \in Things /\ u[m].friends = w[m].friends /\ u[m].targets = w[m].targets
  BY <1>2, <1>6 DEF Counted, Plus, SameLists
<1>. HIDE DEF u
<1>8. Counted(u, t, g, 1)
  BY <1>4, <1>7, EachAddRef
<1>9. t \in Things /\ t[m].friends = w[m].friends /\ t[m].targets = w[m].targets
  BY <1>2, <1>7, <1>8 DEF Counted, Plus, SameLists
<1>. HIDE DEF t
<1>10. l = WithLists(t, m, F, T)
  BY <1>2, <1>9 DEF WithLists, Things, Thing
<1>11. Fits(w, m, F, T, f, g, 1)
  BY <1>3, <1>4, <1>5 DEF Fits, B
<1>. HIDE DEF l, F, T
<1>12. Enlisted(w, l, m, F, T)
  BY <1>2, <1>4, <1>6, <1>8, <1>10, <1>11, ListsChange
<1>13. Told(w, l, None, {})
  BY <1>12, EnlistedTold DEF T
<1>14. l \in World /\ l[m].targets = T /\ l[m].at # "none"
  BY <1>2, <1>12, <1>13 DEF Enlisted, Told, Framed, SamePlace
<1>15. IdleIsUpdated(l, v, m)
  BY <1>1, <1>14, UpdateIdleStatusTold
<1>16. Told(w, v, None, {})
  BY <1>13, <1>15, ToldTwice DEF IdleIsUpdated
<1>17. ASSUME c \in Player
       PROVE  Woken(v, m, c)
  <2>1. Wakes(v, m, c) = Wakes(l, m, c)
    BY <1>2, <1>15, FramedSame DEF IdleIsUpdated, Told
  <2>2. c \in T /\ T # {}
    BY <1>5, <1>17 DEF T
  <2>. QED
    BY <1>14, <1>15, <2>1, <2>2 DEF IdleIsUpdated, Woken, Wakes
<1>. QED
  BY <1>16, <1>17 DEF v

\* A friend or a target that leaves is forgotten, and nobody else.
LEMMA ForgetTold ==
    ASSUME NEW w \in World, NEW m \in Monster, NEW c \in Creature, w[m].at # "none"
    PROVE  Told(w, Forget(w, m, c), c, {}) /\ Told(w, Forget(w, m, c), m, {})
<1>. DEFINE f == {d \in {c} \cap w[m].friends : IsFriend(w, m, c)}
            g == {d \in {c} \cap w[m].targets : IsOpponent(w, m, c)}
            u == Each(w, f, UnRef)
            t == Each(u, g, UnRef)
            F == w[m].friends \ f
            T == w[m].targets \ g
            l == [t EXCEPT ![m].friends = @ \ f, ![m].targets = @ \ g]
            v == Forget(w, m, c)
<1>1. v = l \/ v = UpdateIdleStatus(l, m)
  BY DEF Forget
<1>2. m \in Creature /\ w \in Things
  BY MonsterIs, WorldIsThings
<1>3. /\ w[m].targets \in SUBSET Creature /\ w[m].friends \in SUBSET Creature
      /\ \A d \in w[m].targets \cup w[m].friends : w[d].at # "none"
  BY <1>2, ListsOf
<1>4. f \in SUBSET Creature /\ g \in SUBSET Creature /\ F \in SUBSET Creature /\ T \in SUBSET Creature
  BY <1>3
<1>5. f \subseteq w[m].friends /\ g \subseteq w[m].targets /\ g \subseteq {c}
  OBVIOUS
<1>. HIDE DEF v, f, g
<1>6. Counted(w, u, f, -1)
  BY <1>2, <1>4, EachUnRef
<1>7. u \in Things /\ u[m].friends = w[m].friends /\ u[m].targets = w[m].targets
  BY <1>2, <1>6 DEF Counted, Plus, SameLists
<1>. HIDE DEF u
<1>8. Counted(u, t, g, -1)
  BY <1>4, <1>7, EachUnRef
<1>9. t \in Things /\ t[m].friends = w[m].friends /\ t[m].targets = w[m].targets
  BY <1>2, <1>7, <1>8 DEF Counted, Plus, SameLists
<1>. HIDE DEF t
<1>10. l = WithLists(t, m, F, T)
  BY <1>2, <1>9 DEF WithLists, Things, Thing
<1>11. Fits(w, m, F, T, f, g, -1)
  BY <1>3, <1>4, <1>5 DEF Fits, B
<1>. HIDE DEF l, F, T
<1>12. Enlisted(w, l, m, F, T)
  BY <1>2, <1>4, <1>6, <1>8, <1>10, <1>11, ListsChange
<1>13. \A p \in Player \ {c} : p \in w[m].targets => p \in T
  BY <1>5 DEF T
<1>14. Told(w, l, c, {}) /\ Told(w, l, m, {})
  BY <1>12, <1>13, EnlistedTold
<1>15. l \in World /\ l[m].at # "none"
  BY <1>2, <1>14 DEF Told, Framed, SamePlace
<1>16. Told(l, UpdateIdleStatus(l, m), c, {}) /\ Told(l, UpdateIdleStatus(l, m), m, {})
  BY <1>15, UpdateIdleStatusTold, ToldMore DEF IdleIsUpdated
<1>17. Told(w, v, c, {}) /\ Told(w, v, m, {})
  BY <1>1, <1>14, <1>16, ToldTwice
<1>. QED
  BY <1>17 DEF v

LEMMA LeaveTold ==
    ASSUME NEW w \in World, NEW m \in Monster, NEW c \in Creature, w[m].at # "none"
    PROVE  Told(w, Leave(w, m, c), c, {}) /\ Told(w, Leave(w, m, c), m, {})
<1>. DEFINE i == InRanged(w, m, FALSE)
            u == UpdateIdleStatus(i, m)
            l == IF w[m].master = c THEN u ELSE w
<1>1. m \in Creature
  BY MonsterIs
<1>2. Told(w, i, None, {})
  BY <1>1, InRangedTold
<1>3. i \in World /\ i[m].at # "none"
  BY <1>1, <1>2 DEF Told, Framed, SamePlace
<1>4. Told(w, u, None, {})
  <2>. HIDE DEF i
  <2>. QED  BY <1>2, <1>3, UpdateIdleStatusTold, ToldTwice DEF IdleIsUpdated
<1>5. Leave(w, m, c) = Forget(l, m, c)
  BY DEF Leave, InRanged
<1>. HIDE DEF i, u
<1>6. Told(w, l, c, {}) /\ Told(w, l, m, {})
  BY <1>4, ToldNothing, ToldMore
<1>. HIDE DEF l
<1>7. l \in World /\ l[m].at # "none"
  BY <1>1, <1>6 DEF Told, Framed, SamePlace
<1>8. Told(l, Forget(l, m, c), c, {}) /\ Told(l, Forget(l, m, c), m, {})
  BY <1>7, ForgetTold
<1>. QED
  BY <1>5, <1>6, <1>8, ToldTwice

LEMMA EnterTold ==
    ASSUME NEW w \in World, NEW m \in Monster, NEW c \in Creature, w[m].at # "none", w[c].at # "none"
    PROVE  Told(w, Enter(w, m, c), None, {}) /\ (c \in Player => Woken(Enter(w, m, c), m, c))
<1>. DEFINE i == InRanged(w, m, TRUE)
            u == UpdateIdleStatus(i, m)
            l == IF w[m].master = c THEN u ELSE w
<1>1. m \in Creature
  BY MonsterIs
<1>2. Told(w, i, None, {})
  BY <1>1, InRangedTold
<1>3. i \in World /\ i[m].at # "none"
  BY <1>1, <1>2 DEF Told, Framed, SamePlace
<1>4. Told(w, u, None, {})
  <2>. HIDE DEF i
  <2>. QED  BY <1>2, <1>3, UpdateIdleStatusTold, ToldTwice DEF IdleIsUpdated
<1>5. Enter(w, m, c) = Found(l, m, c)
  BY DEF Enter, InRanged
<1>. HIDE DEF i, u
<1>6. Told(w, l, None, {})
  BY <1>4, ToldNothing
<1>. HIDE DEF l
<1>7. l \in World /\ l[m].at # "none" /\ l[c].at # "none"
  BY <1>1, <1>6 DEF Told, Framed, SamePlace
<1>8. Told(l, Found(l, m, c), None, {}) /\ (c \in Player => Woken(Found(l, m, c), m, c))
  BY <1>7, FoundTold
<1>. QED
  BY <1>5, <1>6, <1>8, ToldTwice

\* One that looks around knows all the players that it sees.
Sights(w, v, m) == Told(w, v, None, {}) /\ \A p \in Player : Woken(v, m, p)

LEMMA FoundAllTold ==
    ASSUME NEW w \in World, NEW m \in Monster, w[m].at # "none", NEW S \in SUBSET Creature,
           \A c \in S : w[c].at # "none"
    PROVE  LET v == Each(w, S, LAMBDA u, c : Found(u, m, c))
           IN  Told(w, v, None, {}) /\ \A p \in S \cap Player : Woken(v, m, p)
<1>. DEFINE Done(u, k) == Told(w, u, None, {}) /\ \A j \in 1 .. k : Order[j] \in S \cap Player => Woken(u, m, Order[j])
            N == Len(Order)
            Then(u, k) == IF Order[k] \in S THEN Found(u, m, Order[k]) ELSE u
            G == [k \in 0 .. N |-> {u \in World : Done(u, k)}]
            step == [k \in 1 .. N |-> [u \in World |-> Then(u, k)]]
            after[i \in 0 .. N] == IF i = 0 THEN w ELSE Then(after[i - 1], i)
<1>n. N \in Nat /\ G \in [0 .. N -> SUBSET World]
  BY Orders
<1>b. w \in G[0]
  BY <1>n, ToldNothing
<1>s. ASSUME NEW k \in 1 .. N, NEW u \in G[k - 1]
      PROVE  Then(u, k) \in G[k] /\ u \in World
  <2>1. k \in 0 .. N /\ k - 1 \in 0 .. N /\ Order[k] \in Creature
    BY <1>n, Orders
  <2>2. u \in World /\ Done(u, k - 1)
    BY <2>1
  <2>3. ASSUME Order[k] \in S
        PROVE  Then(u, k) \in World /\ Done(Then(u, k), k)
    <3>. DEFINE c == Order[k]
                v == Found(u, m, c)
    <3>1. u[m].at # "none" /\ u[c].at # "none" /\ c \in Creature
      BY <2>1, <2>2, <2>3, MonsterIs DEF Told, Framed, SamePlace
    <3>. HIDE DEF c
    <3>2. Told(u, v, None, {}) /\ (c \in Player => Woken(v, m, c))
      BY <2>2, <3>1, FoundTold
    <3>. HIDE DEF v
    <3>3. Told(w, v, None, {})
      BY <2>2, <3>2, ToldTwice
    <3>4. ASSUME NEW j \in 1 .. k, Order[j] \in S \cap Player
          PROVE  Woken(v, m, Order[j])
      <4>1. CASE j = k
        BY <3>2, <3>4, <4>1 DEF c
      <4>2. CASE j # k
        <5>1. Woken(u, m, Order[j])
          BY <1>n, <2>2, <3>4, <4>2
        <5>2. m # None /\ Order[j] # None
          BY <3>4, MonsterIs, PlayerIs
        <5>. QED
          BY <3>2, <3>4, <5>1, <5>2 DEF Told, Awake
      <4>. QED
        BY <4>1, <4>2
    <3>5. Then(u, k) = v
      BY <2>3 DEF v, c
    <3>. QED
      BY <3>3, <3>4, <3>5 DEF Told
  <2>4. ASSUME Order[k] \notin S
        PROVE  Then(u, k) \in World /\ Done(Then(u, k), k)
    <3>1. \A j \in 1 .. k : Order[j] \in S \cap Player => j \in 1 .. k - 1
      BY <1>n, <2>4
    <3>. QED
      BY <2>2, <2>4, <3>1
  <2>. QED
    BY <2>1, <2>2, <2>3, <2>4
<1>1. \A k \in 1 .. N : \A u \in G[k - 1] : step[k][u] \in G[k]
  <2>. HIDE DEF G, Then
  <2>. QED  BY <1>s
<1>. HIDE DEF G
<1>2. PICK h \in [0 .. N -> World] : Repeats(h, N, w, step) /\ \A k \in 0 .. N : h[k] \in G[k]
  <2>. HIDE DEF step, N
  <2>. QED  BY <1>n, <1>b, <1>1, Repeated
<1>3. h = [i \in 0 .. N |-> IF i = 0 THEN w ELSE Then(h[i - 1], i)]
  <2>. HIDE DEF Then
  <2>1. ASSUME NEW i \in 1 .. N
        PROVE  h[i] = Then(h[i - 1], i)
    <3>1. i - 1 \in 0 .. N
      BY <1>n
    <3>2. h[i - 1] \in World
      BY <1>2, <3>1
    <3>. QED
      BY <1>2, <3>2 DEF Repeats
  <2>. HIDE DEF step, N
  <2>. QED
    BY <1>n, <1>2, <2>1 DEF Repeats
<1>4. after = [i \in 0 .. N |-> IF i = 0 THEN w ELSE Then(after[i - 1], i)]
  <2>. HIDE DEF step, Then, N
  <2>. QED  BY <1>3
<1>5. Each(w, S, LAMBDA u, c : Found(u, m, c)) = IF S = {} THEN w ELSE after[N]
  BY DEF Each
<1>. HIDE DEF after, Then
<1>6. after[N] \in G[N]
  <2>. DEFINE T == {k \in 0 .. N : after[k] \in G[k]}
  <2>1. 0 \in T
    BY <1>n, <1>b, <1>4
  <2>2. \A k \in 1 .. N : k - 1 \in T => k \in T
    BY <1>n, <1>s, <1>4
  <2>3. \A k \in 0 .. N : k \in T
    <3>. HIDE DEF T, N
    <3>. QED  BY <1>n, <2>1, <2>2, UpTo
  <2>. QED
    BY <1>n, <2>3
<1>7. Done(after[N], N)
  BY <1>n, <1>6 DEF G
<1>8. \A v : Done(v, N) => \A p \in S \cap Player : Woken(v, m, p)
  BY Orders
<1>9. S = {} => Told(w, w, None, {})
  BY ToldNothing
<1>. QED
  BY <1>5, <1>7, <1>8, <1>9

LEMMA SeesBoth ==
    ASSUME NEW w \in Things, NEW a \in Creature, NEW b \in Creature
    PROVE  /\ Sees(w, a, b) = Sees(w, b, a) /\ Sees(w, a, a)
           /\ (b \in Spectators(w, w[a].spot)) = (Plays(w, b) /\ Sees(w, a, b))
<1>1. w[a].spot \in Spot /\ w[b].spot \in Spot
  BY DEF Things, Thing
<1>2. \A x, y \in Spot : Near(x, y) = Near(y, x) /\ Near(x, x)
  BY CreaturesAssumption DEF Near
<1>. QED
  BY <1>1, <1>2 DEF Sees, Spectators

LEMMA UpdateTargetListTold ==
    ASSUME NEW w \in World, NEW m \in Monster, w[m].at # "none"
    PROVE  Sights(w, UpdateTargetList(w, m), m)
<1>. DEFINE f == {c \in w[m].friends : ~w[c].alive \/ ~Sees(w, m, c)}
            g == {c \in w[m].targets : ~w[c].alive \/ ~Sees(w, m, c)}
            u == Each(w, f, UnRef)
            t == Each(u, g, UnRef)
            F == w[m].friends \ f
            T == w[m].targets \ g
            l == [t EXCEPT ![m].friends = @ \ f, ![m].targets = @ \ g]
            S == Spectators(l, l[m].spot) \ {m}
            v == UpdateTargetList(w, m)
<1>1. v = Each(l, S, LAMBDA x, c : Found(x, m, c))
  BY DEF UpdateTargetList
<1>2. m \in Creature /\ w \in Things
  BY MonsterIs, WorldIsThings
<1>3. /\ w[m].targets \in SUBSET Creature /\ w[m].friends \in SUBSET Creature
      /\ \A d \in w[m].targets \cup w[m].friends : w[d].at # "none"
  BY <1>2, ListsOf
<1>4. f \in SUBSET Creature /\ g \in SUBSET Creature /\ F \in SUBSET Creature /\ T \in SUBSET Creature
  BY <1>3
<1>5. f \subseteq w[m].friends /\ g \subseteq w[m].targets
  OBVIOUS
<1>. HIDE DEF v, f, g
<1>6. Counted(w, u, f, -1)
  BY <1>2, <1>4, EachUnRef
<1>7. u \in Things /\ u[m].friends = w[m].friends /\ u[m].targets = w[m].targets
  BY <1>2, <1>6 DEF Counted, Plus, SameLists
<1>. HIDE DEF u
<1>8. Counted(u, t, g, -1)
  BY <1>4, <1>7, EachUnRef
<1>9. t \in Things /\ t[m].friends = w[m].friends /\ t[m].targets = w[m].targets
  BY <1>2, <1>7, <1>8 DEF Counted, Plus, SameLists
<1>. HIDE DEF t
<1>10. l = WithLists(t, m, F, T)
  BY <1>2, <1>9 DEF WithLists, Things, Thing
<1>11. Fits(w, m, F, T, f, g, -1)
  BY <1>3, <1>4, <1>5 DEF Fits, B
<1>. HIDE DEF l, F, T
<1>12. Enlisted(w, l, m, F, T)
  BY <1>2, <1>4, <1>6, <1>8, <1>10, <1>11, ListsChange
<1>13. Told(w, l, m, {})
  BY <1>12, EnlistedTold
<1>14. l \in World /\ l[m].at # "none"
  BY <1>2, <1>13 DEF Told, Framed, SamePlace
<1>15. S \in SUBSET Creature /\ \A c \in S : l[c].at # "none"
  BY DEF Spectators, Plays
<1>16. \A p \in Player : Wakes(l, m, p) => p \in S
  <2>. SUFFICES ASSUME NEW p \in Player, Wakes(l, m, p)
                PROVE  p \in S
    OBVIOUS
  <2>1. p \in Creature /\ p # m
    BY PlayerIs, MonsterIs
  <2>. QED
    BY <1>2, <1>14, <2>1, SeesBoth, WorldIsThings DEF Wakes
<1>. HIDE DEF S
<1>17. Told(l, v, None, {}) /\ \A p \in S \cap Player : Woken(v, m, p)
  BY <1>1, <1>14, <1>15, FoundAllTold
<1>18. ASSUME NEW p \in Player
       PROVE  Woken(v, m, p)
  <2>1. Wakes(v, m, p) = Wakes(l, m, p)
    BY <1>2, <1>17, FramedSame, PlayerIs DEF Told
  <2>. QED
    BY <1>16, <1>17, <2>1 DEF Woken
<1>19. Told(w, v, m, {})
  <2>1. Told(l, v, m, {})
    BY <1>17, ToldMore
  <2>. QED
    BY <1>13, <2>1, ToldTwice
<1>20. Awake(w, v, None)
  <2>. SUFFICES ASSUME NEW y \in Monster, NEW p \in Player, Woken(w, y, p)
                PROVE  Woken(v, y, p)
    BY DEF Awake
  <2>1. p # m
    BY MonsterIs
  <2>. QED
    BY <1>18, <1>19, <2>1 DEF Told, Awake
<1>21. Sights(w, v, m)
  BY <1>18, <1>19, <1>20 DEF Told, Sights
<1>. QED
  BY <1>21 DEF v

-----------------------------------------------------------------------------
(* Aims. *)

\* Nobody, or somebody in the game.
Target(w, c, D) == c = None \/ (c \in D /\ c \in Creature /\ Plays(w, c))

LEMMA TargetStays ==
    ASSUME NEW w, NEW v, NEW z, NEW D, NEW c, NEW E, Told(w, v, z, E), Target(w, c, D)
    PROVE  Target(v, c, D)
BY FramedSame DEF Told, Target

LEMMA AimsIsTold ==
    ASSUME NEW w \in World, NEW a \in Creature, w[a].at # "none", NEW D \in SUBSET Creature, NEW c, Target(w, c, D)
    PROVE  LET v == Aims(w, a, c)
           IN  Told(w, v, None, D) /\ v[a].attacked \in {c, None}
<1>. DEFINE v == Aims(w, a, c)
            x == IF c # None /\ ~Sees(w, a, c) THEN None ELSE c
            y == IF c # None /\ ~Sees(w, a, c) THEN w[a].follow ELSE IF a \in Player THEN c ELSE w[a].follow
            u == [w EXCEPT ![a].attacked = x, ![a].follow = y]
<1>1. w \in Things
  BY WorldIsThings
<1>2. x \in {w[a].attacked} \cup MayAim(w, a, D) /\ y \in {w[a].follow} \cup MayAim(w, a, D)
  BY DEF MayAim, Target
<1>3. x \in {c, None}
  OBVIOUS
<1>4. v = u
  <2>1. CASE c # None /\ ~Sees(w, a, c)
    <3>1. v = [w EXCEPT ![a].attacked = None]
      BY <2>1 DEF Aims
    <3>. QED
      BY <1>1, <2>1, <3>1 DEF Things, Thing
  <2>2. CASE ~(c # None /\ ~Sees(w, a, c))
    <3>1. v = [w EXCEPT ![a].attacked = c, ![a].follow = IF a \in Player THEN c ELSE @]
      BY <2>2 DEF Aims
    <3>. QED
      BY <1>1, <2>2, <3>1 DEF Things, Thing
  <2>. QED
    BY <2>1, <2>2
<1>5. u[a].attacked = x
  BY <1>1 DEF Things, Thing
<1>. HIDE DEF x, y, v
<1>6. Told(w, u, None, D)
  BY <1>2, AimsTold
<1>. HIDE DEF u
<1>. QED
  BY <1>3, <1>4, <1>5, <1>6 DEF v

LEMMA SetFollowTold ==
    ASSUME NEW w \in World, NEW a \in Creature, w[a].at # "none", NEW D \in SUBSET Creature, NEW c, Target(w, c, D)
    PROVE  LET v == SetFollow(w, a, c)
           IN  Told(w, v, None, D) /\ v[a].follow \in {c, None}
<1>. DEFINE v == SetFollow(w, a, c)
            x == w[a].attacked
            y == IF c # None /\ Sees(w, a, c) THEN c ELSE None
            u == [w EXCEPT ![a].attacked = x, ![a].follow = y]
<1>1. w \in Things
  BY WorldIsThings
<1>2. x \in {w[a].attacked} \cup MayAim(w, a, D) /\ y \in {w[a].follow} \cup MayAim(w, a, D)
  BY DEF MayAim, Target
<1>3. y \in {c, None}
  OBVIOUS
<1>4. v = [w EXCEPT ![a].follow = y]
  BY DEF SetFollow
<1>. HIDE DEF y, v
<1>5. v = u
  BY <1>1, <1>4 DEF Things, Thing
<1>6. u[a].follow = y
  BY <1>1 DEF Things, Thing
<1>. HIDE DEF x
<1>7. Told(w, u, None, D)
  BY <1>2, AimsTold
<1>. HIDE DEF u
<1>. QED
  BY <1>3, <1>5, <1>6, <1>7 DEF v

AllAiming(w, S, c) == Each(w, S, LAMBDA u, s : Aims(u, s, c))

LEMMA AllAim ==
    ASSUME NEW w \in World, NEW S \in SUBSET Creature, \A s \in S : w[s].at # "none",
           NEW D \in SUBSET Creature, NEW c, Target(w, c, D)
    PROVE  Told(w, AllAiming(w, S, c), None, D)
<1>. DEFINE N == Len(Order)
            Then(u, k) == IF Order[k] \in S THEN Aims(u, Order[k], c) ELSE u
            G == [k \in 0 .. N |-> {u \in World : Told(w, u, None, D)}]
            step == [k \in 1 .. N |-> [u \in World |-> Then(u, k)]]
            after[i \in 0 .. N] == IF i = 0 THEN w ELSE Then(after[i - 1], i)
<1>n. N \in Nat /\ G \in [0 .. N -> SUBSET World]
  BY Orders
<1>b. w \in G[0]
  BY <1>n, ToldNothing
<1>s. ASSUME NEW k \in 1 .. N, NEW u \in G[k - 1]
      PROVE  Then(u, k) \in G[k] /\ u \in World
  <2>1. k \in 0 .. N /\ k - 1 \in 0 .. N /\ Order[k] \in Creature
    BY <1>n, Orders
  <2>2. u \in World /\ Told(w, u, None, D)
    BY <2>1
  <2>3. ASSUME Order[k] \in S
        PROVE  Then(u, k) \in World /\ Told(w, Then(u, k), None, D)
    <3>. DEFINE s == Order[k]
                v == Aims(u, s, c)
    <3>1. u[s].at # "none" /\ s \in Creature
      BY <2>1, <2>2, <2>3 DEF Told, Framed, SamePlace
    <3>. HIDE DEF s
    <3>2. Target(u, c, D)
      BY <2>2, TargetStays
    <3>3. Told(u, v, None, D)
      BY <2>2, <3>1, <3>2, AimsIsTold
    <3>. HIDE DEF v
    <3>4. Told(w, v, None, D)
      BY <2>2, <3>3, ToldTwice
    <3>5. Then(u, k) = v
      BY <2>3 DEF v, s
    <3>. QED
      BY <3>4, <3>5 DEF Told
  <2>. QED
    BY <2>1, <2>2, <2>3
<1>1. \A k \in 1 .. N : \A u \in G[k - 1] : step[k][u] \in G[k]
  <2>. HIDE DEF G, Then
  <2>. QED  BY <1>s
<1>. HIDE DEF G
<1>2. PICK h \in [0 .. N -> World] : Repeats(h, N, w, step) /\ \A k \in 0 .. N : h[k] \in G[k]
  <2>. HIDE DEF step, N
  <2>. QED  BY <1>n, <1>b, <1>1, Repeated
<1>3. h = [i \in 0 .. N |-> IF i = 0 THEN w ELSE Then(h[i - 1], i)]
  <2>. HIDE DEF Then
  <2>1. ASSUME NEW i \in 1 .. N
        PROVE  h[i] = Then(h[i - 1], i)
    <3>1. i - 1 \in 0 .. N
      BY <1>n
    <3>2. h[i - 1] \in World
      BY <1>2, <3>1
    <3>. QED
      BY <1>2, <3>2 DEF Repeats
  <2>. HIDE DEF step, N
  <2>. QED
    BY <1>n, <1>2, <2>1 DEF Repeats
<1>4. after = [i \in 0 .. N |-> IF i = 0 THEN w ELSE Then(after[i - 1], i)]
  <2>. HIDE DEF step, Then, N
  <2>. QED  BY <1>3
<1>5. AllAiming(w, S, c) = IF S = {} THEN w ELSE after[N]
  BY DEF Each, AllAiming
<1>. HIDE DEF after, Then
<1>6. after[N] \in G[N]
  <2>. DEFINE T == {k \in 0 .. N : after[k] \in G[k]}
  <2>1. 0 \in T
    BY <1>n, <1>b, <1>4
  <2>2. \A k \in 1 .. N : k - 1 \in T => k \in T
    BY <1>n, <1>s, <1>4
  <2>3. \A k \in 0 .. N : k \in T
    <3>. HIDE DEF T, N
    <3>. QED  BY <1>n, <2>1, <2>2, UpTo
  <2>. QED
    BY <1>n, <2>3
<1>7. Told(w, after[N], None, D)
  BY <1>n, <1>6 DEF G
<1>8. Told(w, w, None, D)
  BY ToldNothing
<1>. QED
  BY <1>5, <1>7, <1>8

LEMMA SetAttackedTold ==
    ASSUME NEW w \in World, NEW a \in Creature, w[a].at # "none", NEW D \in SUBSET Creature, NEW c, Target(w, c, D)
    PROVE  LET v == SetAttacked(w, a, c)
           IN  Told(w, v, None, D) /\ (c = None => v[a].attacked = None)
<1>. DEFINE v == SetAttacked(w, a, c)
            u == Aims(w, a, c)
            S == w[a].summons
            t == AllAiming(u, S, c)
<1>1. v = u \/ v = t
  BY DEF SetAttacked, AllAiming
<1>2. Told(w, u, None, D) /\ u[a].attacked \in {c, None}
  BY AimsIsTold
<1>3. S \in SUBSET Creature /\ \A s \in S : w[s].at # "none"
  BY ListsOf
<1>. HIDE DEF u, S, v
<1>4. \A s \in S : u[s].at # "none"
  BY <1>2, <1>3 DEF Told, Framed, SamePlace
<1>5. u \in World /\ Target(u, c, D)
  BY <1>2, TargetStays DEF Told
<1>6. Told(u, t, None, D)
  BY <1>3, <1>4, <1>5, AllAim
<1>7. Told(w, t, None, D)
  BY <1>2, <1>6, ToldTwice
<1>8. c = None => t[a].attacked = None
  <2>. SUFFICES ASSUME c = None
                PROVE  t[a].attacked = None
    OBVIOUS
  <2>1. Target(u, c, {}) /\ {} \in SUBSET Creature
    BY DEF Target
  <2>2. Told(u, t, None, {})
    <3>. DEFINE E == {}
    <3>1. Target(u, c, E) /\ E \in SUBSET Creature
      BY <2>1
    <3>. HIDE DEF E
    <3>2. Told(u, t, None, E)
      BY <1>3, <1>4, <1>5, <3>1, AllAim
    <3>. QED
      BY <3>2 DEF E
  <2>3. t[a].attacked \in {u[a].attacked, None}
    BY <2>2 DEF Told, Aimed, MayAim
  <2>. QED
    BY <1>2, <2>3
<1>. HIDE DEF t
<1>. QED
  BY <1>1, <1>2, <1>7, <1>8 DEF v

\* After it a neither attacks nor follows c.
LEMMA DisappearsTold ==
    ASSUME NEW w \in World, NEW a \in Creature, w[a].at # "none", NEW c \in Creature
    PROVE  LET v == Disappears(w, a, c)
           IN  Told(w, v, None, {}) /\ v[a].attacked # c /\ v[a].follow # c
<1>. DEFINE u == IF w[a].attacked = c THEN SetAttacked(w, a, None) ELSE w
            v == Disappears(w, a, c)
            E == {}
<1>0. E \in SUBSET Creature /\ c # None
  BY CreaturesAssumption
<1>1. v = IF u[a].follow = c THEN SetFollow(u, a, None) ELSE u
  BY DEF Disappears
<1>. HIDE DEF v, E
<1>2. Told(w, u, None, E) /\ u[a].attacked # c
  <2>1. CASE w[a].attacked = c
    <3>1. Target(w, None, E)
      BY DEF Target
    <3>2. Told(w, SetAttacked(w, a, None), None, E) /\ SetAttacked(w, a, None)[a].attacked = None
      BY <1>0, <3>1, SetAttackedTold
    <3>. QED
      BY <1>0, <2>1, <3>2
  <2>2. CASE w[a].attacked # c
    BY <2>2, ToldNothing
  <2>. QED
    BY <2>1, <2>2
<1>. HIDE DEF u
<1>3. u \in World /\ u[a].at # "none"
  BY <1>2 DEF Told, Framed, SamePlace
<1>4. Told(u, v, None, E) /\ v[a].follow # c
  <2>1. CASE u[a].follow = c
    <3>1. Target(u, None, E)
      BY DEF Target
    <3>2. Told(u, SetFollow(u, a, None), None, E) /\ SetFollow(u, a, None)[a].follow \in {None}
      BY <1>0, <1>3, <3>1, SetFollowTold
    <3>. QED
      BY <1>0, <1>1, <2>1, <3>2
  <2>2. CASE u[a].follow # c
    BY <1>1, <1>3, <2>2, ToldNothing
  <2>. QED
    BY <2>1, <2>2
<1>5. Told(w, v, None, E)
  BY <1>0, <1>2, <1>4, ToldTwice
<1>6. v[a].attacked # c
  <2>1. v[a].attacked \in {u[a].attacked, None}
    BY <1>4 DEF Told, Aimed, MayAim, E
  <2>. QED
    BY <1>0, <1>2, <2>1
<1>. QED
  BY <1>4, <1>5, <1>6 DEF v, E

LEMMA SelectTargetTold ==
    ASSUME NEW w \in World, NEW m \in Monster, w[m].at # "none", NEW c
    PROVE  Told(w, SelectTarget(w, m, c), None, Creature)
<1>. DEFINE u == SetAttacked(w, m, c)
            v == SetFollow(u, m, c)
            D == Creature
<1>1. m \in Creature /\ D \in SUBSET Creature
  BY MonsterIs
<1>. HIDE DEF D
<1>2. CASE w[c].at = "removed" \/ c \notin w[m].targets
  BY <1>2, ToldNothing DEF SelectTarget
<1>3. CASE ~(w[c].at = "removed" \/ c \notin w[m].targets)
  <2>1. c \in Creature /\ w[c].at # "none"
    BY <1>1, <1>3, ListsOf
  <2>2. Target(w, c, D)
    BY <1>3, <2>1, WorldIsThings DEF Target, Plays, Things, Thing, D
  <2>3. Told(w, u, None, D)
    BY <1>1, <2>2, SetAttackedTold
  <2>. HIDE DEF u
  <2>4. u \in World /\ u[m].at # "none" /\ Target(u, c, D)
    BY <1>1, <2>2, <2>3, TargetStays DEF Told, Framed, SamePlace
  <2>5. Told(u, v, None, D)
    BY <1>1, <2>4, SetFollowTold
  <2>6. Told(w, v, None, D)
    BY <1>1, <2>3, <2>5, ToldTwice
  <2>. HIDE DEF v
  <2>7. SelectTarget(w, m, c) = v
    BY <1>3 DEF SelectTarget, v, u
  <2>. QED
    BY <2>6, <2>7 DEF D
<1>. QED
  BY <1>2, <1>3

-----------------------------------------------------------------------------
(* Who is told of another that comes, goes or moves. *)

\* Whoever is lost from sight is not attacked or followed any more.
SeesAims(w, s, c) ==
    \A d \in {w[s].attacked, w[s].follow} : d # None /\ c \in {s, d} => Sees(w, s, d)

LEMMA LosesTold ==
    ASSUME NEW w \in World, NEW s \in Creature, w[s].at # "none", NEW c \in Creature
    PROVE  Told(w, Loses(w, s, c), None, {}) /\ SeesAims(Loses(w, s, c), s, c)
<1>. DEFINE Unseen(u, d) == d # None /\ c \in {s, d} /\ ~Sees(u, s, d)
            d1 == w[s].follow
            u == IF Unseen(w, d1) THEN Disappears(w, s, d1) ELSE w
            d2 == u[s].attacked
            v == Loses(w, s, c)
<1>1. v = IF Unseen(u, d2) THEN Disappears(u, s, d2) ELSE u
  BY DEF Loses
<1>2. d1 \in Creature \cup {None}
  BY WorldIsThings DEF Things, Thing
<1>. HIDE DEF d1, v
<1>3. Told(w, u, None, {}) /\ ~Unseen(w, u[s].follow)
  <2>1. CASE Unseen(w, d1)
    <3>1. Told(w, u, None, {}) /\ u[s].follow # d1
      BY <1>2, <2>1, DisappearsTold
    <3>2. u[s].follow \in {d1, None}
      BY <3>1 DEF Told, Aimed, MayAim, d1
    <3>. QED
      BY <3>1, <3>2
  <2>2. CASE ~Unseen(w, d1)
    BY <2>2, ToldNothing DEF d1
  <2>. QED
    BY <2>1, <2>2
<1>. HIDE DEF u
<1>4. u \in World /\ u[s].at # "none"
  BY <1>3 DEF Told, Framed, SamePlace
<1>5. d2 \in Creature \cup {None}
  BY <1>4, WorldIsThings DEF Things, Thing
<1>6. \A d \in Creature : Unseen(u, d) = Unseen(w, d)
  BY <1>3, FramedSame DEF Told
<1>. HIDE DEF d2
<1>7. Told(u, v, None, {}) /\ ~Unseen(u, v[s].attacked)
  <2>1. CASE Unseen(u, d2)
    <3>1. Told(u, v, None, {}) /\ v[s].attacked # d2
      BY <1>1, <1>4, <1>5, <2>1, DisappearsTold
    <3>2. v[s].attacked \in {d2, None}
      BY <3>1 DEF Told, Aimed, MayAim, d2
    <3>. QED
      BY <3>1, <3>2
  <2>2. CASE ~Unseen(u, d2)
    BY <1>1, <1>4, <2>2, ToldNothing DEF d2
  <2>. QED
    BY <2>1, <2>2
<1>8. v[s].follow \in {u[s].follow, None}
  BY <1>7 DEF Told, Aimed, MayAim
<1>9. Told(w, v, None, {})
  BY <1>3, <1>7, ToldTwice
<1>10. v \in Things
  BY <1>9, WorldIsThings DEF Told
<1>11. v[s].follow \in Creature \cup {None} /\ v[s].attacked \in Creature \cup {None}
  BY <1>10 DEF Things, Thing
<1>12. \A d \in Creature : Sees(v, s, d) = Sees(w, s, d) /\ Sees(u, s, d) = Sees(w, s, d)
  BY <1>3, <1>9, FramedSame DEF Told
<1>13. SeesAims(v, s, c)
  BY <1>3, <1>7, <1>8, <1>11, <1>12 DEF SeesAims
<1>. QED
  BY <1>9, <1>13 DEF v

NotAt(w, s, c) == w[s].attacked # c /\ w[s].follow # c

LEMMA NotAtStays ==
    ASSUME NEW w, NEW v, NEW z, NEW s \in Creature, NEW c \in Creature, Told(w, v, z, {}), NotAt(w, s, c)
    PROVE  NotAt(v, s, c)
<1>1. c # None
  BY CreaturesAssumption
<1>. QED
  BY <1>1 DEF Told, Aimed, MayAim, NotAt

LEMMA DisappearTold ==
    ASSUME NEW w \in World, NEW s \in Creature, w[s].at # "none", NEW c \in Creature
    PROVE  Told(w, Disappear(w, s, c), c, {}) /\ NotAt(Disappear(w, s, c), s, c)
<1>. DEFINE u == Disappears(w, s, c)
            v == Disappear(w, s, c)
<1>1. Told(w, u, None, {}) /\ NotAt(u, s, c)
  BY DisappearsTold DEF NotAt
<1>2. v = IF s \in Player THEN u ELSE IF s = c THEN SetIdle(u, s, TRUE) ELSE Leave(u, s, c)
  BY DEF Disappear
<1>. HIDE DEF u, v
<1>3. u \in World /\ u[s].at # "none" /\ Told(w, u, c, {})
  BY <1>1, ToldMore DEF Told, Framed, SamePlace
<1>4. Told(u, v, c, {})
  <2>1. CASE s \in Player
    BY <1>2, <1>3, <2>1, ToldNothing
  <2>2. CASE s \notin Player /\ s = c
    BY <1>2, <1>3, <2>2, SetIdleTold DEF IdleIsSet, Creature
  <2>3. CASE s \notin Player /\ s # c
    BY <1>2, <1>3, <2>3, LeaveTold DEF Creature
  <2>. QED
    BY <2>1, <2>2, <2>3
<1>5. Told(w, v, c, {}) /\ NotAt(v, s, c)
  BY <1>1, <1>3, <1>4, ToldTwice, NotAtStays
<1>. QED
  BY <1>5 DEF v

\* A monster that comes, or has moved, looks around.
LooksAround(w, s) ==
    LET v == InRanged(w, s, IF IsSummon(w, s) THEN Sees(w, s, w[s].master) ELSE w[s].inRange)
    IN  UpdateIdleStatus(UpdateTargetList(v, s), s)

LEMMA LooksAroundTold ==
    ASSUME NEW w \in World, NEW s \in Monster, w[s].at # "none"
    PROVE  Sights(w, LooksAround(w, s), s)
<1>. DEFINE x == IF IsSummon(w, s) THEN Sees(w, s, w[s].master) ELSE w[s].inRange
            u == InRanged(w, s, x)
            t == UpdateTargetList(u, s)
            v == UpdateIdleStatus(t, s)
<1>1. s \in Creature /\ x \in BOOLEAN
  <2>1. s \in Creature /\ w[s].inRange \in BOOLEAN
    BY MonsterIs, WorldIsThings DEF Things, Thing
  <2>2. Sees(w, s, w[s].master) \in BOOLEAN
    BY DEF Sees, Near
  <2>. QED
    BY <2>1, <2>2
<1>. HIDE DEF x
<1>2. Told(w, u, None, {})
  BY <1>1, InRangedTold
<1>3. u \in World /\ u[s].at # "none"
  BY <1>1, <1>2 DEF Told, Framed, SamePlace
<1>. HIDE DEF u
<1>4. Told(u, t, None, {}) /\ \A p \in Player : Woken(t, s, p)
  BY <1>3, UpdateTargetListTold DEF Sights
<1>5. t \in World /\ t[s].at # "none"
  BY <1>1, <1>3, <1>4 DEF Told, Framed, SamePlace
<1>. HIDE DEF t
<1>6. Told(t, v, None, {})
  BY <1>5, UpdateIdleStatusTold DEF IdleIsUpdated
<1>. HIDE DEF v
<1>7. \A p \in Player : Woken(v, s, p)
  BY <1>4, <1>6, MonsterIs, PlayerIs DEF Told, Awake
<1>8. Told(w, v, None, {})
  BY <1>2, <1>4, <1>6, ToldTwice
<1>9. LooksAround(w, s) = v
  BY DEF LooksAround, v, t, u, x
<1>. QED
  BY <1>7, <1>8, <1>9 DEF Sights

LEMMA AppearTold ==
    ASSUME NEW w \in World, NEW s \in Creature, w[s].at # "none", NEW c \in Creature, w[c].at # "none"
    PROVE  /\ Told(w, Appear(w, s, c), None, {})
           /\ s \in Monster /\ s = c => \A p \in Player : Woken(Appear(w, s, c), s, p)
           /\ s \in Monster /\ c \in Player => Woken(Appear(w, s, c), s, c)
<1>1. CASE s \in Player
  <2>1. Appear(w, s, c) = w
    BY <1>1 DEF Appear
  <2>. QED
    BY <1>1, <2>1, ToldNothing, PlayerIs
<1>2. CASE s \notin Player /\ s = c
  <2>1. s \in Monster
    BY <1>2 DEF Creature
  <2>2. Appear(w, s, c) = LooksAround(w, s)
    BY <1>2 DEF Appear, LooksAround, InRanged
  <2>3. Sights(w, LooksAround(w, s), s)
    BY <2>1, LooksAroundTold
  <2>. QED
    BY <1>2, <2>2, <2>3 DEF Sights
<1>3. CASE s \notin Player /\ s # c
  <2>1. s \in Monster
    BY <1>3 DEF Creature
  <2>2. Appear(w, s, c) = Enter(w, s, c)
    BY <1>3 DEF Appear
  <2>. QED
    BY <1>3, <2>1, <2>2, EnterTold
<1>. QED
  BY <1>1, <1>2, <1>3

\* Who leaves the sight of a monster was not known to it alone.
LEMMA LeavesSight ==
    ASSUME NEW w \in World, NEW m \in Monster, NEW c \in Creature, w[m].at # "none", ~Sees(w, m, c)
    PROVE  Told(w, Leave(w, m, c), None, {})
<1>. DEFINE v == Leave(w, m, c)
<1>1. Told(w, v, c, {}) /\ Told(w, v, m, {})
  BY LeaveTold
<1>. HIDE DEF v
<1>2. Awake(w, v, None)
  <2>. SUFFICES ASSUME NEW y \in Monster, NEW p \in Player, Woken(w, y, p)
                PROVE  Woken(v, y, p)
    BY DEF Awake
  <2>1. p # m
    BY MonsterIs
  <2>2. CASE y # m
    BY <1>1, <2>1, <2>2 DEF Told, Awake
  <2>3. CASE y = m /\ p # c
    <3>1. CASE c # m
      BY <1>1, <2>3, <3>1 DEF Told, Awake
    <3>2. CASE c = m
      <4>1. Sees(w, m, m)
        BY WorldIsThings, SeesBoth, MonsterIs
      <4>. QED
        BY <3>2, <4>1
    <3>. QED
      BY <3>1, <3>2
  <2>4. CASE y = m /\ p = c
    <3>1. ~Sees(v, m, c)
      BY <1>1, FramedSame, MonsterIs DEF Told
    <3>. QED
      BY <2>4, <3>1 DEF Woken, Wakes
  <2>. QED
    BY <2>2, <2>3, <2>4
<1>3. Told(w, v, None, {})
  BY <1>1, <1>2 DEF Told
<1>. QED
  BY <1>3 DEF v

LEMMA MonsterSeesTold ==
    ASSUME NEW w \in World, NEW s \in Monster, w[s].at # "none", NEW c \in Creature, w[c].at # "none", NEW old
    PROVE  LET v == MonsterSees(w, s, c, old)
           IN  /\ Told(w, v, None, Creature)
               /\ s = c => \A p \in Player : Woken(v, s, p)
               /\ s # c /\ c \in Player /\ (Near(w[s].spot, old) => Woken(w, s, c)) => Woken(v, s, c)
<1>. DEFINE v == MonsterSees(w, s, c, old)
<1>0. s \in Creature /\ s # None /\ c # None
  BY MonsterIs, CreaturesAssumption
<1>1. ASSUME s = c
      PROVE  Told(w, v, None, Creature) /\ \A p \in Player : Woken(v, s, p)
  <2>1. v = LooksAround(w, s)
    BY <1>1 DEF MonsterSees, LooksAround, InRanged
  <2>2. Sights(w, LooksAround(w, s), s)
    BY LooksAroundTold
  <2>. QED
    BY <2>1, <2>2, ToldMore DEF Sights
<1>2. ASSUME s # c
      PROVE  /\ Told(w, v, None, Creature)
             /\ c \in Player /\ (Near(w[s].spot, old) => Woken(w, s, c)) => Woken(v, s, c)
  <2>. DEFINE now == Sees(w, s, c)
              before == Near(w[s].spot, old)
              u == IF now /\ ~before THEN Enter(w, s, c)
                   ELSE IF ~now /\ before THEN Leave(w, s, c) ELSE w
              x == u[s].inRange \/ (w[s].master = c /\ now)
              i == InRanged(u, s, x)
              t == UpdateIdleStatus(i, s)
              y == IF t[s].follow = None /\ ~IsSummon(t, s) /\ IsOpponent(t, s, c)
                   THEN SelectTarget(t, s, c) ELSE t
              i2 == [u EXCEPT ![s].inRange = @ \/ (w[s].master = c /\ now)]
  <2>1. v = IF UpdateIdleStatus(i2, s)[s].follow = None /\ ~IsSummon(UpdateIdleStatus(i2, s), s) /\ IsOpponent(UpdateIdleStatus(i2, s), s, c)
            THEN SelectTarget(UpdateIdleStatus(i2, s), s, c) ELSE UpdateIdleStatus(i2, s)
    BY <1>2 DEF MonsterSees
  <2>. HIDE DEF v
  <2>2. /\ Told(w, u, None, {})
        /\ c \in Player /\ (before => Woken(w, s, c)) => Woken(u, s, c)
    <3>1. CASE now /\ ~before
      BY <3>1, EnterTold
    <3>2. CASE ~now
      <4>1. Told(w, u, None, {})
        BY <3>2, LeavesSight, ToldNothing
      <4>2. ~Sees(u, s, c)
        BY <1>0, <3>2, <4>1, FramedSame DEF Told
      <4>. QED
        BY <4>1, <4>2 DEF Woken, Wakes
    <3>3. CASE now /\ before
      BY <3>3, ToldNothing
    <3>. QED
      BY <3>1, <3>2, <3>3
  <2>. HIDE DEF u, before
  <2>3. u \in World /\ u[s].at # "none" /\ x \in BOOLEAN
    BY <1>0, <2>2, WorldIsThings DEF Told, Framed, SamePlace, Things, Thing
  <2>4. i2 = i
    BY <1>0, <2>3, WorldIsThings DEF InRanged, Things, Thing
  <2>. HIDE DEF x, i2, now
  <2>5. Told(u, i, None, {})
    BY <1>0, <2>3, InRangedTold
  <2>6. i \in World /\ i[s].at # "none"
    BY <1>0, <2>3, <2>5 DEF Told, Framed, SamePlace
  <2>. HIDE DEF i
  <2>7. Told(i, t, None, {})
    BY <2>6, UpdateIdleStatusTold DEF IdleIsUpdated
  <2>8. t \in World /\ t[s].at # "none"
    BY <1>0, <2>6, <2>7 DEF Told, Framed, SamePlace
  <2>9. v = y
    BY <2>1, <2>4
  <2>. HIDE DEF t
  <2>10. Told(t, y, None, Creature)
    BY <2>8, SelectTargetTold, ToldNothing
  <2>. HIDE DEF y
  <2>11. Told(w, t, None, {})
    BY <2>2, <2>5, <2>7, ToldTwice
  <2>12. Told(w, t, None, Creature)
    BY <2>11, ToldMore
  <2>13. Told(w, y, None, Creature)
    BY <2>10, <2>12, ToldTwice
  <2>14. ASSUME c \in Player, Woken(u, s, c)
         PROVE  Woken(y, s, c)
    <3>1. Woken(i, s, c)
      BY <1>0, <2>5, <2>14 DEF Told, Awake
    <3>2. Woken(t, s, c)
      BY <1>0, <2>7, <2>14, <3>1 DEF Told, Awake
    <3>. QED
      BY <1>0, <2>10, <2>14, <3>2 DEF Told, Awake
  <2>. QED
    BY <2>2, <2>9, <2>13, <2>14 DEF before
<1>3. QED
  BY <1>1, <1>2 DEF v

-----------------------------------------------------------------------------
(* The world between two steps. *)

\* A summon is a monster, serves the one it is a summon of, and has no summons.
Ranked(w) ==
    \A a \in Creature :
        /\ \A c \in w[a].summons : w[c].master = a
        /\ w[a].master # None => a \in Monster /\ w[a].summons = {}

\* Where nothing is allocated there is nothing.
Clean(w) == \A c \in Creature : w[c].at = "none" => w[c] = Nothing

LEMMA NothingIs ==
    /\ Nothing.at = "none" /\ Nothing.spot \in Spot /\ Nothing.alive /\ Nothing.idle /\ ~Nothing.inRange
    /\ ~Nothing.checked /\ ~Nothing.listed /\ Nothing.targets = {} /\ Nothing.friends = {}
    /\ Nothing.attacked = None /\ Nothing.follow = None /\ Nothing.master = None
    /\ Nothing.summons = {} /\ ~Nothing.spawn /\ Nothing.refs = 0 /\ Nothing.freed = 0
    /\ Nothing \in Thing
<1>1. PICK x \in Spot : x = CHOOSE y \in Spot : TRUE
  BY CreaturesAssumption
<1>2. Nothing = [at |-> "none", spot |-> x, alive |-> TRUE, idle |-> TRUE, inRange |-> FALSE,
                 checked |-> FALSE, listed |-> FALSE, targets |-> {}, friends |-> {},
                 attacked |-> None, follow |-> None, master |-> None, summons |-> {},
                 spawn |-> FALSE, refs |-> 0, freed |-> 0]
  BY <1>1 DEF Nothing
<1>. HIDE DEF Nothing
<1>. QED
  BY <1>2 DEF Thing

\* The counts, with e[c] references of a spawn.
CountedWith(w, e) == \A c \in Creature : Excess(w, c) = e[c]

LookedBut(w, X) == \A c \in Creature \ X : Looked(w, c)

\* Aims are in the game and in sight, but for those of Y: one of the two has moved,
\* and the other has not been told.
AimsBut(w, Y) ==
    \A a \in InGame(w) : \A d \in {w[a].attacked, w[a].follow} :
        d = None \/ (Plays(w, d) /\ Sees(w, a, d)) \/ (<<a, d>> \in Y /\ ~Sees(w, a, d))

\* Masters are in the game and have their summons, but for those of M.
MastersBut(w, M) ==
    \A c \in InGame(w) \ M :
        w[c].master # None => Plays(w, w[c].master) /\ c \in w[w[c].master].summons

AwakeBut(w, P) == \A m \in Monster, p \in Player : <<m, p>> \in P \/ Woken(w, m, p)

Sound(w, e, X, Y, M, P) ==
    /\ w \in World /\ Ranked(w) /\ Clean(w) /\ CountedWith(w, e)
    /\ LookedBut(w, X) /\ AimsBut(w, Y) /\ MastersBut(w, M) /\ AwakeBut(w, P)

\* What creatures are told leaves it so, but for what concerns z.
LEMMA ToldSoundBut ==
    ASSUME NEW w, NEW v, NEW z, NEW D \in SUBSET Creature, NEW e, NEW X, NEW Y, NEW M, NEW P, NEW R,
           Told(w, v, z, D), Sound(w, e, X, Y, M, P),
           P \subseteq R, \A m \in Monster, p \in Player : m = z \/ p = z => <<m, p>> \in R
    PROVE  Sound(v, e, X, Y, M, R)
<1>. USE DEF Told, Sound
<1>1. v \in World /\ w \in World
  OBVIOUS
<1>2. Ranked(v)
  <2>1. \A a, c \in Creature : c \in v[a].summons => w[c].master = a /\ v[c].master = w[c].master
    BY DEF Ranked, Framed, SamePlace
  <2>2. \A a \in Creature : v[a].summons \in SUBSET Creature
    BY WorldIsThings DEF Things, Thing
  <2>. QED
    BY <2>1, <2>2 DEF Ranked, Framed, SamePlace
<1>3. Clean(v)
  BY DEF Clean, Untouched, Framed, SamePlace
<1>4. CountedWith(v, e)
  BY DEF CountedWith, Balanced
<1>5. LookedBut(v, X)
  BY DEF LookedBut, Minded
<1>6. AimsBut(v, Y)
  <2>. SUFFICES ASSUME NEW a \in InGame(v), NEW d \in {v[a].attacked, v[a].follow}, d # None
                PROVE  (Plays(v, d) /\ Sees(v, a, d)) \/ (<<a, d>> \in Y /\ ~Sees(v, a, d))
    BY DEF AimsBut
  <2>1. a \in Creature /\ a \in InGame(w) /\ Plays(w, a)
    BY FramedSame DEF InGame
  <2>2. d \in Creature
    BY <2>1, WorldIsThings DEF Things, Thing
  <2>3. Plays(v, d) = Plays(w, d) /\ Sees(v, a, d) = Sees(w, a, d)
    BY <2>1, <2>2, FramedSame
  <2>4. d \in {w[a].attacked, w[a].follow} \/ (Plays(w, d) /\ Sees(w, a, d))
    BY <2>1 DEF Aimed, MayAim
  <2>. QED
    BY <2>1, <2>3, <2>4 DEF AimsBut
<1>7. MastersBut(v, M)
  <2>. SUFFICES ASSUME NEW c \in InGame(v) \ M, v[c].master # None
                PROVE  Plays(v, v[c].master) /\ c \in v[v[c].master].summons
    BY DEF MastersBut
  <2>1. c \in Creature /\ c \in InGame(w) /\ v[c].master = w[c].master
    BY FramedSame DEF InGame, Framed, SamePlace
  <2>2. Plays(w, w[c].master) /\ c \in w[w[c].master].summons
    BY <2>1 DEF MastersBut
  <2>3. w[c].master \in Creature
    BY <2>1, WorldIsThings DEF Things, Thing
  <2>4. Plays(v, w[c].master) /\ v[w[c].master].summons = w[w[c].master].summons
    BY <2>2, <2>3, FramedSame DEF Framed, SamePlace
  <2>. QED
    BY <2>1, <2>2, <2>4
<1>8. AwakeBut(v, R)
  BY DEF AwakeBut, Awake
<1>. QED
  BY <1>1, <1>2, <1>3, <1>4, <1>5, <1>6, <1>7, <1>8

LEMMA ToldSound ==
    ASSUME NEW w, NEW v, NEW D \in SUBSET Creature, NEW e, NEW X, NEW Y, NEW M, NEW P,
           Told(w, v, None, D), Sound(w, e, X, Y, M, P)
    PROVE  Sound(v, e, X, Y, M, P)
<1>1. \A m \in Monster, p \in Player : ~(m = None \/ p = None)
  BY MonsterIs, PlayerIs
<1>. QED
  BY <1>1, ToldSoundBut

\* What an operation that leaves the lists alone does to the excess.
Shift(w, v, c) ==
    (v[c].refs - w[c].refs) - (B(Plays(v, c)) - B(Plays(w, c))) - (B(v[c].listed) - B(w[c].listed))
    - (v[c].freed - w[c].freed) - (B(Serves(v, c)) - B(Serves(w, c)))

LEMMA ExcessShifts ==
    ASSUME NEW w \in Things, NEW v \in Things, NEW c \in Creature,
           \A m \in Monster : SameLists(w[m], v[m])
    PROVE  Excess(v, c) = Excess(w, c) + Shift(w, v, c) /\ Excess(w, c) \in Int
<1>1. Targeting(v, c) = Targeting(w, c) /\ Befriending(v, c) = Befriending(w, c)
  BY DEF Targeting, Befriending, SameLists
<1>2. /\ w[c].refs \in Int /\ w[c].freed \in Nat /\ v[c].refs \in Int /\ v[c].freed \in Nat
      /\ Cardinality(Targeting(w, c)) \in Nat /\ Cardinality(Befriending(w, c)) \in Nat
      /\ Excess(w, c) \in Int
  BY HeldIsNat
<1>3. /\ B(Plays(v, c)) \in Nat /\ B(Plays(w, c)) \in Nat /\ B(v[c].listed) \in Nat /\ B(w[c].listed) \in Nat
      /\ B(Serves(v, c)) \in Nat /\ B(Serves(w, c)) \in Nat
  BY DEF B
<1>. QED
  BY <1>1, <1>2, <1>3 DEF Excess, Held, Shift

LEMMA SoundMore ==
    ASSUME NEW w, NEW e, NEW X, NEW Y, NEW M, NEW P, NEW X2, NEW Y2, NEW M2, NEW R, Sound(w, e, X, Y, M, P),
           X \subseteq X2, Y \subseteq Y2, M \subseteq M2, P \subseteq R
    PROVE  Sound(w, e, X2, Y2, M2, R)
BY DEF Sound, LookedBut, AimsBut, MastersBut, AwakeBut

\* A summon has one master.
LEMMA OneMaster ==
    ASSUME NEW w \in World, Ranked(w), NEW a \in Creature, NEW m \in w[a].summons
    PROVE  /\ m \in Creature /\ m \in Monster /\ m # a /\ w[m].at # "none" /\ w[m].master = a
           /\ w[m].summons = {} /\ \A c \in Creature : m \in w[c].summons => c = a
<1>1. m \in Creature /\ w[m].at # "none"
  BY ListsOf
<1>2. w[m].master = a /\ a # None
  BY CreaturesAssumption DEF Ranked
<1>. QED
  BY <1>1, <1>2 DEF Ranked

-----------------------------------------------------------------------------
(* Summons. *)

\* The place, the aims, the mind and the lists are the same.
SameSelf(x, y) ==
    /\ y.at = x.at /\ y.spot = x.spot /\ y.spawn = x.spawn /\ y.freed = x.freed
    /\ SameAim(x, y) /\ SameMind(x, y) /\ SameLists(x, y)

\* m has no master any more.
Released(w, v, a, m) ==
    /\ \A c \in Creature :
          /\ SameSelf(w[c], v[c]) /\ v[c].alive = w[c].alive
          /\ v[c].refs = IF c = m THEN w[c].refs - 1 ELSE w[c].refs
          /\ v[c].master = IF c = m THEN None ELSE w[c].master
          /\ v[c].summons = IF c = a THEN w[c].summons \ {m} ELSE w[c].summons
    /\ \A c \in Creature : w[c].at = "none" => v[c] = w[c]

LEMMA RemoveSummonIs ==
    ASSUME NEW w \in World, Ranked(w), Clean(w), NEW a \in Creature, NEW m \in w[a].summons
    PROVE  RemoveSummon(w, a, m) \in Things /\ Released(w, RemoveSummon(w, a, m), a, m)
<1>. DEFINE u == [w EXCEPT ![m].master = None]
            t == [u EXCEPT ![a].summons = @ \ {m}]
            v == [t EXCEPT ![m].refs = @ - 1]
<1>1. m \in Creature /\ w \in Things /\ m # a
  BY OneMaster, WorldIsThings
<1>2. w[m].at # "none" /\ w[a].at # "none"
  <2>1. w[m].at # "none"
    BY OneMaster
  <2>2. CASE w[a].at = "none"
    BY <2>2, NothingIs DEF Clean
  <2>. QED
    BY <2>1, <2>2
<1>3. u \in Things
  BY <1>1 DEF Things, Thing
<1>4. /\ \A c \in Creature \ {m} : u[c] = w[c]
      /\ SameSelf(w[m], u[m]) /\ u[m].alive = w[m].alive /\ u[m].refs = w[m].refs
      /\ u[m].summons = w[m].summons /\ u[m].master = None
  BY <1>1 DEF Things, Thing, SameSelf, SameAim, SameMind, SameLists
<1>. HIDE DEF u
<1>5. t \in Things
  BY <1>1, <1>3 DEF Things, Thing
<1>6. /\ \A c \in Creature \ {a} : t[c] = u[c]
      /\ SameSelf(u[a], t[a]) /\ t[a].alive = u[a].alive /\ t[a].refs = u[a].refs
      /\ t[a].summons = u[a].summons \ {m} /\ t[a].master = u[a].master
  BY <1>1, <1>3 DEF Things, Thing, SameSelf, SameAim, SameMind, SameLists
<1>. HIDE DEF t
<1>7. v \in Things
  BY <1>1, <1>5 DEF Things, Thing
<1>8. /\ \A c \in Creature \ {m} : v[c] = t[c]
      /\ SameSelf(t[m], v[m]) /\ v[m].alive = t[m].alive /\ v[m].refs = t[m].refs - 1
      /\ v[m].summons = t[m].summons /\ v[m].master = t[m].master
  BY <1>1, <1>5 DEF Things, Thing, SameSelf, SameAim, SameMind, SameLists
<1>. HIDE DEF v
<1>9. v = RemoveSummon(w, a, m)
  <2>1. t = [w EXCEPT ![m].master = None, ![a].summons = @ \ {m}]
    BY DEF t, u
  <2>. QED
    BY <2>1 DEF v, RemoveSummon, UnRef
<1>10. Released(w, v, a, m)
  <2>1. ASSUME NEW c \in Creature
        PROVE  /\ SameSelf(w[c], v[c]) /\ v[c].alive = w[c].alive
               /\ v[c].refs = IF c = m THEN w[c].refs - 1 ELSE w[c].refs
               /\ v[c].master = IF c = m THEN None ELSE w[c].master
               /\ v[c].summons = IF c = a THEN w[c].summons \ {m} ELSE w[c].summons
               /\ w[c].at = "none" => v[c] = w[c]
    <3>1. CASE c = m
      <4>1. t[m] = u[m]
        BY <1>1, <1>6
      <4>2. SameSelf(w[m], v[m])
        BY <1>4, <1>8, <4>1 DEF SameSelf, SameAim, SameMind, SameLists
      <4>. QED
        BY <1>1, <1>2, <1>4, <1>8, <3>1, <4>1, <4>2
    <3>2. CASE c = a
      BY <1>1, <1>2, <1>4, <1>6, <1>8, <3>2
    <3>3. CASE c # m /\ c # a
      BY <1>4, <1>6, <1>8, <3>3 DEF SameSelf, SameAim, SameMind, SameLists
    <3>. QED
      BY <3>1, <3>2, <3>3
  <2>. QED
    BY <2>1 DEF Released
<1>. QED
  BY <1>7, <1>9, <1>10

LEMMA RemoveSummonSound ==
    ASSUME NEW w, NEW e, NEW X, NEW Y, NEW M, NEW P, NEW R, Sound(w, e, X, Y, M, P),
           NEW a \in Creature, NEW m \in w[a].summons, P \subseteq R,
           \A p \in Player : <<m, p>> \in R \/ ~Plays(w, m) \/ ~w[m].alive
    PROVE  Sound(RemoveSummon(w, a, m), e, X, Y, M, R)
<1>. DEFINE v == RemoveSummon(w, a, m)
<1>. USE DEF Sound
<1>1. v \in Things /\ Released(w, v, a, m) /\ w \in Things
  BY RemoveSummonIs, WorldIsThings
<1>. HIDE DEF v
<1>2. m \in Creature /\ m # a /\ w[m].master = a /\ \A c \in Creature : m \in w[c].summons => c = a
  BY OneMaster
<1>3. v \in World
  <2>1. \A c \in Creature : v[c].at = w[c].at /\ v[c].targets = w[c].targets /\ v[c].friends = w[c].friends
                            /\ v[c].summons \subseteq w[c].summons
    BY <1>1 DEF Released, SameSelf, SameLists
  <2>2. \A p \in Player : p \in Creature
    BY PlayerIs
  <2>. QED
    BY <1>1, <2>1, <2>2 DEF World
<1>4. Ranked(v)
  <2>. SUFFICES ASSUME NEW b \in Creature
                PROVE  /\ \A c \in v[b].summons : v[c].master = b
                       /\ v[b].master # None => b \in Monster /\ v[b].summons = {}
    BY DEF Ranked
  <2>1. ASSUME NEW c \in v[b].summons
        PROVE  v[c].master = b
    <3>1. c \in w[b].summons /\ c # m
      BY <1>1, <1>2 DEF Released
    <3>2. w[c].master = b
      BY <3>1 DEF Ranked
    <3>3. c \in Creature
      BY <3>1, ListsOf
    <3>. QED
      BY <1>1, <3>1, <3>2, <3>3 DEF Released
  <2>2. ASSUME v[b].master # None
        PROVE  b \in Monster /\ v[b].summons = {}
    <3>1. w[b].master # None
      BY <1>1, <2>2 DEF Released
    <3>. QED
      BY <1>1, <3>1 DEF Released, Ranked
  <2>. QED
    BY <2>1, <2>2
<1>5. Clean(v)
  BY <1>1 DEF Clean, Released, SameSelf
<1>6. CountedWith(v, e)
  <2>. SUFFICES ASSUME NEW c \in Creature
                PROVE  Excess(v, c) = e[c]
    BY DEF CountedWith
  <2>1. Excess(v, c) = Excess(w, c) + Shift(w, v, c) /\ Excess(w, c) \in Int
    BY <1>1, MonsterIs, ExcessShifts DEF Released, SameSelf
  <2>2. Plays(v, c) = Plays(w, c) /\ v[c].listed = w[c].listed /\ v[c].freed = w[c].freed
    BY <1>1 DEF Released, SameSelf, SameMind, Plays
  <2>3. Serves(v, c) = IF c = m THEN FALSE ELSE Serves(w, c)
    BY <1>1, <1>2 DEF Serves, Released
  <2>4. Serves(w, m)
    BY DEF Serves
  <2>5. w[c].refs \in Int /\ w[c].freed \in Int
    BY <1>1 DEF Things, Thing
  <2>6. Shift(w, v, c) = 0
    <3>1. CASE c = m
      <4>1. v[c].refs = w[c].refs - 1 /\ ~Serves(v, c) /\ Serves(w, c)
        BY <1>1, <2>3, <2>4, <3>1 DEF Released
      <4>. QED
        BY <2>2, <2>5, <4>1 DEF Shift, B
    <3>2. CASE c # m
      <4>1. v[c].refs = w[c].refs /\ Serves(v, c) = Serves(w, c)
        BY <1>1, <2>3, <3>2 DEF Released
      <4>. QED
        BY <2>2, <2>5, <4>1 DEF Shift, B
    <3>. QED
      BY <3>1, <3>2
  <2>. QED
    BY <2>1, <2>6 DEF CountedWith
<1>7. LookedBut(v, X)
  BY <1>1 DEF LookedBut, Looked, Released, SameSelf, SameMind, Plays
<1>8. AimsBut(v, Y)
  <2>. SUFFICES ASSUME NEW b \in InGame(v), NEW d \in {v[b].attacked, v[b].follow}, d # None
                PROVE  (Plays(v, d) /\ Sees(v, b, d)) \/ (<<b, d>> \in Y /\ ~Sees(v, b, d))
    BY DEF AimsBut
  <2>1. b \in Creature /\ b \in InGame(w) /\ d \in {w[b].attacked, w[b].follow}
    BY <1>1 DEF InGame, Plays, Released, SameSelf, SameAim
  <2>2. d \in Creature
    BY <1>1, <2>1 DEF Things, Thing
  <2>. QED
    BY <1>1, <2>1, <2>2 DEF AimsBut, Plays, Sees, Released, SameSelf
<1>9. MastersBut(v, M)
  <2>. SUFFICES ASSUME NEW c \in InGame(v) \ M, v[c].master # None
                PROVE  Plays(v, v[c].master) /\ c \in v[v[c].master].summons
    BY DEF MastersBut
  <2>1. c \in Creature /\ c \in InGame(w) /\ c # m /\ v[c].master = w[c].master
    BY <1>1 DEF InGame, Plays, Released, SameSelf
  <2>2. w[c].master \in Creature
    BY <1>1, <2>1 DEF Things, Thing
  <2>3. Plays(w, w[c].master) /\ c \in w[w[c].master].summons
    BY <2>1 DEF MastersBut
  <2>4. Plays(v, w[c].master) /\ c \in v[w[c].master].summons
    BY <1>1, <2>1, <2>2, <2>3 DEF Plays, Released, SameSelf
  <2>. QED
    BY <2>1, <2>4
<1>10. AwakeBut(v, R)
  <2>. SUFFICES ASSUME NEW x \in Monster, NEW p \in Player, <<x, p>> \notin R
                PROVE  Woken(v, x, p)
    BY DEF AwakeBut
  <2>1. x \in Creature /\ p \in Creature
    BY MonsterIs, PlayerIs
  <2>2. CASE x = m
    BY <1>1, <2>1, <2>2 DEF Woken, Wakes, Plays, Released, SameSelf
  <2>3. CASE x # m
    <3>1. Wakes(v, x, p) = Wakes(w, x, p)
      BY <1>1, <2>1, <2>3 DEF Wakes, Plays, Sees, IsSummon, Released, SameSelf
    <3>2. Woken(w, x, p)
      BY DEF AwakeBut
    <3>. QED
      BY <1>1, <2>1, <3>1, <3>2 DEF Woken, Released, SameSelf, SameMind, SameLists
  <2>. QED
    BY <2>2, <2>3
<1>. QED
  BY <1>3, <1>4, <1>5, <1>6, <1>7, <1>8, <1>9, <1>10 DEF v

-----------------------------------------------------------------------------
(* Health. *)

Healthy(w, c, x) == [w EXCEPT ![c].alive = x]

LEMMA HealthyIs ==
    ASSUME NEW w \in Things, NEW c \in Creature, NEW x \in BOOLEAN, NEW v, v = Healthy(w, c, x)
    PROVE  /\ v \in Things /\ v[c].alive = x
           /\ \A b \in Creature \ {c} : v[b] = w[b]
           /\ \A b \in Creature : SameSelf(w[b], v[b]) /\ v[b].refs = w[b].refs
                                  /\ v[b].master = w[b].master /\ v[b].summons = w[b].summons
BY DEF Healthy, Things, Thing, SameSelf, SameAim, SameMind, SameLists

LEMMA HealthySound ==
    ASSUME NEW w, NEW e, NEW X, NEW Y, NEW M, NEW P, Sound(w, e, X, Y, M, P),
           NEW c \in Creature, NEW x \in BOOLEAN, w[c].at # "none",
           Plays(w, c) /\ c \notin X => w[c].checked /\ w[c].listed, x => c \in Player
    PROVE  Sound(Healthy(w, c, x), e, X, Y, M, P)
<1>. DEFINE v == Healthy(w, c, x)
<1>. USE DEF Sound
<1>1. /\ w \in Things /\ v \in Things /\ v[c].alive = x
      /\ \A b \in Creature \ {c} : v[b] = w[b]
      /\ \A b \in Creature : SameSelf(w[b], v[b]) /\ v[b].refs = w[b].refs
                             /\ v[b].master = w[b].master /\ v[b].summons = w[b].summons
  BY WorldIsThings, HealthyIs
<1>. HIDE DEF v
<1>2. v \in World
  <2>1. \A b \in Creature : v[b].at = w[b].at /\ v[b].targets = w[b].targets /\ v[b].friends = w[b].friends
                            /\ v[b].summons = w[b].summons
    BY <1>1 DEF SameSelf, SameLists
  <2>2. \A p \in Player : p \in Creature
    BY PlayerIs
  <2>. QED
    BY <1>1, <2>1, <2>2 DEF World
<1>3. \A b \in Creature : \A d \in w[b].summons : d \in Creature
  BY ListsOf
<1>4. Ranked(v)
  BY <1>1, <1>3 DEF Ranked
<1>5. Clean(v)
  BY <1>1 DEF Clean, SameSelf
<1>6. CountedWith(v, e)
  <2>. SUFFICES ASSUME NEW b \in Creature
                PROVE  Excess(v, b) = e[b]
    BY DEF CountedWith
  <2>1. Excess(v, b) = Excess(w, b) + Shift(w, v, b) /\ Excess(w, b) \in Int
    BY <1>1, MonsterIs, ExcessShifts DEF SameSelf
  <2>2. /\ Plays(v, b) = Plays(w, b) /\ v[b].listed = w[b].listed /\ v[b].freed = w[b].freed
        /\ Serves(v, b) = Serves(w, b)
    BY <1>1 DEF SameSelf, SameMind, Plays, Serves
  <2>3. w[b].refs \in Int /\ w[b].freed \in Int
    BY <1>1 DEF Things, Thing
  <2>4. Shift(w, v, b) = 0
    BY <1>1, <2>2, <2>3 DEF Shift, B
  <2>. QED
    BY <2>1, <2>4 DEF CountedWith
<1>7. LookedBut(v, X)
  BY <1>1 DEF LookedBut, Looked, SameSelf, SameMind, Plays
<1>8. AimsBut(v, Y)
  <2>. SUFFICES ASSUME NEW b \in InGame(v), NEW d \in {v[b].attacked, v[b].follow}, d # None
                PROVE  (Plays(v, d) /\ Sees(v, b, d)) \/ (<<b, d>> \in Y /\ ~Sees(v, b, d))
    BY DEF AimsBut
  <2>1. b \in Creature /\ b \in InGame(w) /\ d \in {w[b].attacked, w[b].follow}
    BY <1>1 DEF InGame, Plays, SameSelf, SameAim
  <2>2. d \in Creature
    BY <1>1, <2>1 DEF Things, Thing
  <2>. QED
    BY <1>1, <2>1, <2>2 DEF AimsBut, Plays, Sees, SameSelf
<1>9. MastersBut(v, M)
  <2>. SUFFICES ASSUME NEW b \in InGame(v) \ M, v[b].master # None
                PROVE  Plays(v, v[b].master) /\ b \in v[v[b].master].summons
    BY DEF MastersBut
  <2>1. b \in Creature /\ b \in InGame(w) /\ v[b].master = w[b].master
    BY <1>1 DEF InGame, Plays, SameSelf
  <2>2. w[b].master \in Creature
    BY <1>1, <2>1 DEF Things, Thing
  <2>3. Plays(w, w[b].master) /\ b \in w[w[b].master].summons
    BY <2>1 DEF MastersBut
  <2>4. Plays(v, w[b].master) /\ b \in v[w[b].master].summons
    BY <1>1, <2>1, <2>2, <2>3 DEF Plays, SameSelf
  <2>. QED
    BY <2>1, <2>4
<1>10. AwakeBut(v, P)
  <2>. SUFFICES ASSUME NEW m \in Monster, NEW p \in Player, <<m, p>> \notin P
                PROVE  Woken(v, m, p)
    BY DEF AwakeBut
  <2>1. m \in Creature /\ p \in Creature /\ m \notin Player
    BY MonsterIs, PlayerIs
  <2>2. Woken(w, m, p)
    BY DEF AwakeBut
  <2>3. Wakes(v, m, p) => Wakes(w, m, p)
    BY <1>1, <2>1 DEF Wakes, Plays, Sees, IsSummon, SameSelf
  <2>. QED
    BY <1>1, <2>1, <2>2, <2>3 DEF Woken, SameSelf, SameMind, SameLists
<1>. QED
  BY <1>2, <1>4, <1>5, <1>6, <1>7, <1>8, <1>9, <1>10 DEF v

\* Where they are, and whom they serve.
SameRank(w, v) ==
    \A c \in Creature : /\ v[c].at = w[c].at /\ v[c].spot = w[c].spot /\ v[c].spawn = w[c].spawn
                        /\ v[c].master = w[c].master /\ v[c].summons = w[c].summons

LEMMA WoundSound ==
    ASSUME NEW w, NEW e, NEW X, NEW Y, NEW M, NEW P, Sound(w, e, X, Y, M, P),
           NEW c \in Creature, w[c].at # "none"
    PROVE  /\ Sound(Wound(w, c), e, X, Y, M, P) /\ ~Wound(w, c)[c].alive
           /\ SameRank(w, Wound(w, c)) /\ \A b \in Creature \ {c} : Wound(w, c)[b].alive = w[b].alive
<1>. DEFINE t == IF c \in Monster THEN SetIdle(w, c, FALSE) ELSE w
            no == FALSE
            v == Healthy(t, c, no)
<1>0. w \in World /\ no \in BOOLEAN /\ ~no
  BY DEF Sound
<1>1. Told(w, t, None, {}) /\ (c \in Monster /\ Plays(w, c) /\ w[c].alive => t[c].idle = FALSE)
  BY <1>0, SetIdleTold, ToldNothing DEF IdleIsSet
<1>2. Wound(w, c) = v
  BY DEF Wound, Healthy
<1>. HIDE DEF t, no
<1>3. Sound(t, e, X, Y, M, P)
  BY <1>1, ToldSound
<1>4. t \in Things
  BY <1>3, WorldIsThings DEF Sound
<1>5. Framed(w, t)
  BY <1>1 DEF Told
<1>6. t[c].at # "none" /\ Plays(t, c) = Plays(w, c) /\ t[c].alive = w[c].alive
  BY <1>5, FramedSame DEF Framed, SamePlace
<1>7. Plays(t, c) /\ c \notin X => t[c].checked /\ t[c].listed
  <2>. SUFFICES ASSUME Plays(t, c), c \notin X
                PROVE  t[c].checked /\ t[c].listed
    OBVIOUS
  <2>1. Looked(t, c)
    BY <1>3 DEF Sound, LookedBut
  <2>. QED
    BY <1>1, <1>6, <2>1 DEF Looked, Creature
<1>8. Sound(v, e, X, Y, M, P)
  BY <1>0, <1>3, <1>6, <1>7, HealthySound
<1>9. /\ v[c].alive = no
      /\ \A b \in Creature : SameSelf(t[b], v[b]) /\ v[b].master = t[b].master /\ v[b].summons = t[b].summons
      /\ \A b \in Creature \ {c} : v[b] = t[b]
  <2>1. v = Healthy(t, c, no)
    OBVIOUS
  <2>. HIDE DEF v
  <2>. QED
    BY <1>0, <1>4, <2>1, HealthyIs
<1>. HIDE DEF v
<1>10. SameRank(w, v)
  BY <1>5, <1>9 DEF SameRank, SameSelf, Framed, SamePlace
<1>11. \A b \in Creature \ {c} : v[b].alive = w[b].alive
  BY <1>5, <1>9 DEF Framed, SamePlace
<1>. QED
  BY <1>0, <1>2, <1>8, <1>9, <1>10, <1>11

\* Where everybody is, and whom a serves.
SameSpots(w, v) ==
    \A c \in Creature : v[c].at = w[c].at /\ v[c].spot = w[c].spot /\ v[c].spawn = w[c].spawn
Leads(w, v, a) ==
    /\ SameSpots(w, v) /\ v[a].master = w[a].master /\ v[a].alive = w[a].alive
    /\ v[a].summons \subseteq w[a].summons

LEMMA LeadsTwice ==
    ASSUME NEW w, NEW v, NEW u, NEW a, Leads(w, v, a), Leads(v, u, a)
    PROVE  Leads(w, u, a)
BY DEF Leads, SameSpots

LEMMA ToldLeads ==
    ASSUME NEW w, NEW v, NEW a \in Creature, NEW z, NEW D, Told(w, v, z, D)
    PROVE  Leads(w, v, a)
BY DEF Told, Framed, SamePlace, Leads, SameSpots

\* One that was a summon of a goes, if it still is.
LEMMA ReleaseSound ==
    ASSUME NEW w, NEW e, NEW X, NEW Y, NEW M, NEW P, Sound(w, e, X, Y, M, P),
           NEW a \in Creature, NEW s \in Creature, ~Plays(w, s) \/ ~w[s].alive
    PROVE  LET v == RemoveSummon(w, a, s)
           IN  /\ Sound(v, e, X, Y, M, P) /\ Leads(w, v, a) /\ s \notin v[a].summons
               /\ s # a => v[s].summons = w[s].summons
               /\ v[a].summons = w[a].summons \ {s}
<1>1. CASE s \in w[a].summons
  <2>0. s # a
    BY <1>1, OneMaster DEF Sound
  <2>1. Sound(RemoveSummon(w, a, s), e, X, Y, M, P)
    BY <1>1, RemoveSummonSound
  <2>2. Released(w, RemoveSummon(w, a, s), a, s)
    BY <1>1, RemoveSummonIs DEF Sound
  <2>. QED
    BY <2>0, <2>1, <2>2 DEF Leads, SameSpots, Released, SameSelf
<1>2. CASE s \notin w[a].summons
  <2>1. RemoveSummon(w, a, s) = w
    BY <1>2 DEF RemoveSummon
  <2>. QED
    BY <1>2, <2>1 DEF Leads, SameSpots
<1>. QED
  BY <1>1, <1>2

LEMMA ForsakenSound ==
    ASSUME NEW w, NEW e, NEW X, NEW Y, NEW M, NEW P, Sound(w, e, X, Y, M, P),
           NEW a \in Creature, NEW s \in Creature, s # a, w[s].at # "none"
    PROVE  LET v == RemoveSummon(Wound(SetAttacked(w, s, None), s), a, s)
           IN  Sound(v, e, X, Y, M, P) /\ Leads(w, v, a) /\ s \notin v[a].summons
<1>. DEFINE t == SetAttacked(w, s, None)
            u == Wound(t, s)
            v == RemoveSummon(u, a, s)
<1>1. Told(w, t, None, Creature)
  BY SetAttackedTold DEF Sound, Target
<1>2. Sound(t, e, X, Y, M, P) /\ Leads(w, t, a)
  BY <1>1, ToldSound, ToldLeads
<1>3. t[s].at # "none"
  BY <1>1 DEF Told, Framed, SamePlace
<1>. HIDE DEF t
<1>4. /\ Sound(u, e, X, Y, M, P) /\ ~u[s].alive /\ SameRank(t, u)
      /\ \A b \in Creature \ {s} : u[b].alive = t[b].alive
  BY <1>2, <1>3, WoundSound
<1>. HIDE DEF u
<1>5. Leads(t, u, a)
  BY <1>4 DEF Leads, SameSpots, SameRank
<1>6. Sound(v, e, X, Y, M, P) /\ Leads(u, v, a) /\ s \notin v[a].summons
  BY <1>4, ReleaseSound
<1>. HIDE DEF v
<1>7. Leads(w, v, a)
  BY <1>2, <1>5, <1>6, LeadsTwice
<1>. QED
  BY <1>6, <1>7 DEF v, u, t

\* The summons of one that dies, or gets a master, have none.
LEMMA DestroySummonsSound ==
    ASSUME NEW w, NEW e, NEW X, NEW Y, NEW M, NEW P, Sound(w, e, X, Y, M, P), NEW a \in Creature
    PROVE  LET v == DestroySummons(w, a)
           IN  Sound(v, e, X, Y, M, P) /\ Leads(w, v, a) /\ v[a].summons = {}
<1>. DEFINE S == w[a].summons
            Done(u, k) == /\ Sound(u, e, X, Y, M, P) /\ Leads(w, u, a)
                          /\ \A j \in 1 .. k : Order[j] \notin u[a].summons
            N == Len(Order)
            Then(u, k) == IF Order[k] \in S THEN RemoveSummon(Wound(SetAttacked(u, Order[k], None), Order[k]), a, Order[k]) ELSE u
            G == [k \in 0 .. N |-> {u \in World : Done(u, k)}]
            step == [k \in 1 .. N |-> [u \in World |-> Then(u, k)]]
            after[i \in 0 .. N] == IF i = 0 THEN w ELSE Then(after[i - 1], i)
<1>n. N \in Nat /\ G \in [0 .. N -> SUBSET World]
  BY Orders
<1>i. /\ \A s \in S : s \in Creature /\ s # a /\ w[s].at # "none"
      /\ w \in World /\ S \in SUBSET Creature
  <2>1. w \in World /\ Ranked(w)
    BY DEF Sound
  <2>. QED
    BY <2>1, OneMaster, ListsOf
<1>z. Done(w, 0)
  BY DEF Leads, SameSpots
<1>b. w \in G[0]
  BY <1>n, <1>i, <1>z
<1>s. ASSUME NEW k \in 1 .. N, NEW u \in G[k - 1]
      PROVE  Then(u, k) \in G[k] /\ u \in World
  <2>1. k \in 0 .. N /\ k - 1 \in 0 .. N /\ Order[k] \in Creature
    BY <1>n, Orders
  <2>2. u \in World /\ Done(u, k - 1)
    BY <2>1
  <2>. HIDE DEF S
  <2>3. ASSUME Order[k] \in S
        PROVE  Done(Then(u, k), k)
    <3>. DEFINE s == Order[k]
                v == RemoveSummon(Wound(SetAttacked(u, s, None), s), a, s)
    <3>1. s \in Creature /\ s # a /\ u[s].at # "none"
      BY <1>i, <2>2, <2>3 DEF Leads, SameSpots
    <3>. HIDE DEF s
    <3>2. Sound(v, e, X, Y, M, P) /\ Leads(u, v, a) /\ s \notin v[a].summons
      BY <2>2, <3>1, ForsakenSound
    <3>. HIDE DEF v
    <3>3. Leads(w, v, a)
      BY <2>2, <3>2, LeadsTwice
    <3>4. ASSUME NEW j \in 1 .. k
          PROVE  Order[j] \notin v[a].summons
      <4>1. CASE j = k
        BY <3>2, <4>1 DEF s
      <4>2. CASE j # k
        <5>1. Order[j] \notin u[a].summons
          BY <1>n, <2>2, <4>2
        <5>. QED
          BY <3>2, <5>1 DEF Leads
      <4>. QED
        BY <4>1, <4>2
    <3>5. Then(u, k) = v
      BY <2>3 DEF v, s
    <3>. QED
      BY <3>2, <3>3, <3>4, <3>5
  <2>4. ASSUME Order[k] \notin S
        PROVE  Done(Then(u, k), k)
    <3>1. u[a].summons \subseteq S
      BY <2>2 DEF Leads, S
    <3>2. \A j \in 1 .. k : Order[j] \notin u[a].summons
      BY <1>n, <2>2, <2>4, <3>1
    <3>. QED
      BY <2>2, <2>4, <3>2
  <2>5. Done(Then(u, k), k)
    BY <2>3, <2>4
  <2>. QED
    <3>. HIDE DEF Then
    <3>. QED  BY <2>1, <2>2, <2>5 DEF Sound
<1>1. \A k \in 1 .. N : \A u \in G[k - 1] : step[k][u] \in G[k]
  <2>. HIDE DEF G, Then
  <2>. QED  BY <1>s
<1>. HIDE DEF G
<1>2. PICK h \in [0 .. N -> World] : Repeats(h, N, w, step) /\ \A k \in 0 .. N : h[k] \in G[k]
  <2>. HIDE DEF step, N
  <2>. QED  BY <1>n, <1>b, <1>1, Repeated
<1>3. h = [i \in 0 .. N |-> IF i = 0 THEN w ELSE Then(h[i - 1], i)]
  <2>. HIDE DEF Then
  <2>1. ASSUME NEW i \in 1 .. N
        PROVE  h[i] = Then(h[i - 1], i)
    <3>1. i - 1 \in 0 .. N
      BY <1>n
    <3>2. h[i - 1] \in World
      BY <1>2, <3>1
    <3>. QED
      BY <1>2, <3>2 DEF Repeats
  <2>. HIDE DEF step, N
  <2>. QED
    BY <1>n, <1>2, <2>1 DEF Repeats
<1>4. after = [i \in 0 .. N |-> IF i = 0 THEN w ELSE Then(after[i - 1], i)]
  <2>. HIDE DEF step, Then, N
  <2>. QED  BY <1>3
<1>5. DestroySummons(w, a) = IF S = {} THEN w ELSE after[N]
  BY DEF DestroySummons, Each
<1>. HIDE DEF after, Then
<1>6. after[N] \in G[N]
  <2>. DEFINE T == {k \in 0 .. N : after[k] \in G[k]}
  <2>1. 0 \in T
    BY <1>n, <1>b, <1>4
  <2>2. \A k \in 1 .. N : k - 1 \in T => k \in T
    BY <1>n, <1>s, <1>4
  <2>3. \A k \in 0 .. N : k \in T
    <3>. HIDE DEF T, N
    <3>. QED  BY <1>n, <2>1, <2>2, UpTo
  <2>. QED
    BY <1>n, <2>3
<1>7. Done(after[N], N)
  BY <1>n, <1>6 DEF G
<1>8. \A v : Done(v, N) => v[a].summons = {}
  <2>1. \A v : Done(v, N) => v[a].summons \subseteq Creature
    BY <1>i DEF Leads
  <2>. QED
    BY <2>1, Orders
<1>9. S = {} => Sound(w, e, X, Y, M, P) /\ Leads(w, w, a) /\ w[a].summons = {}
  BY <1>z
<1>. QED
  BY <1>5, <1>7, <1>8, <1>9

\* Nothing is held that was not.
Quiet(w, v) ==
    \A b \in Creature : /\ SameLists(w[b], v[b]) /\ v[b].listed = w[b].listed /\ v[b].freed = w[b].freed
                        /\ v[b].summons \subseteq w[b].summons
Deserts(w, v, a) == Leads(w, v, a) /\ Quiet(w, v)

LEMMA DesertsTwice ==
    ASSUME NEW w, NEW v, NEW u, NEW a, Deserts(w, v, a), Deserts(v, u, a)
    PROVE  Deserts(w, u, a)
BY DEF Deserts, Quiet, SameLists, Leads, SameSpots

LEMMA AimsQuiet ==
    ASSUME NEW w \in Things, NEW a \in Creature, NEW c
    PROVE  Quiet(w, Aims(w, a, c))
<1>1. CASE c # None /\ ~Sees(w, a, c)
  <2>1. Aims(w, a, c) = [w EXCEPT ![a].attacked = None]
    BY <1>1 DEF Aims
  <2>. QED
    BY <2>1 DEF Things, Thing, Quiet, SameLists
<1>2. CASE ~(c # None /\ ~Sees(w, a, c))
  <2>1. Aims(w, a, c) = [w EXCEPT ![a].attacked = c, ![a].follow = IF a \in Player THEN c ELSE @]
    BY <1>2 DEF Aims
  <2>. QED
    BY <2>1 DEF Things, Thing, Quiet, SameLists
<1>. QED
  BY <1>1, <1>2

\* One that was a summon of a deleted creature.
LEMMA OrphanedSound ==
    ASSUME NEW w, NEW e, NEW X, NEW Y, NEW M, NEW P, Sound(w, e, X, Y, M, P),
           NEW a \in Creature, NEW s \in Creature, s # a, w[s].at # "none", ~Plays(w, s), w[s].summons = {}
    PROVE  LET v == RemoveSummon(SetAttacked(w, s, None), a, s)
           IN  Sound(v, e, X, Y, M, P) /\ Deserts(w, v, a) /\ s \notin v[a].summons
<1>. DEFINE t == SetAttacked(w, s, None)
            v == RemoveSummon(t, a, s)
<1>0. w \in World /\ w \in Things
  BY WorldIsThings DEF Sound
<1>1. Told(w, t, None, Creature)
  BY <1>0, SetAttackedTold DEF Target
<1>2. Sound(t, e, X, Y, M, P) /\ Leads(w, t, a)
  BY <1>1, ToldSound, ToldLeads
<1>3. ~Plays(t, s)
  BY <1>1, FramedSame DEF Told
<1>4. Quiet(w, t)
  <2>1. t = Aims(w, s, None)
    BY DEF SetAttacked, Each
  <2>. QED
    BY <1>0, <2>1, AimsQuiet
<1>. HIDE DEF t
<1>5. Sound(v, e, X, Y, M, P) /\ Leads(t, v, a) /\ s \notin v[a].summons
  BY <1>2, <1>3, ReleaseSound
<1>6. Quiet(t, v)
  <2>1. CASE s \in t[a].summons
    <3>1. Released(t, v, a, s)
      BY <1>2, <2>1, RemoveSummonIs DEF Sound
    <3>. QED
      BY <3>1 DEF Released, SameSelf, SameMind, Quiet
  <2>2. CASE s \notin t[a].summons
    BY <2>2 DEF RemoveSummon, Quiet, SameLists
  <2>. QED
    BY <2>1, <2>2
<1>. HIDE DEF v
<1>7. Deserts(w, v, a)
  BY <1>2, <1>4, <1>5, <1>6, DesertsTwice DEF Deserts
<1>. QED
  BY <1>5, <1>7 DEF v, t

Orphaned(w, a) == Each(w, w[a].summons, LAMBDA u, s : RemoveSummon(SetAttacked(u, s, None), a, s))

\* Nor those of a creature that is deleted.
LEMMA OrphanedAllSound ==
    ASSUME NEW w, NEW e, NEW X, NEW Y, NEW M, NEW P, Sound(w, e, X, Y, M, P), NEW a \in Creature,
           \A s \in w[a].summons : ~Plays(w, s)
    PROVE  LET v == Orphaned(w, a)
           IN  Sound(v, e, X, Y, M, P) /\ Deserts(w, v, a) /\ v[a].summons = {}
<1>. DEFINE S == w[a].summons
            Done(u, k) == /\ Sound(u, e, X, Y, M, P) /\ Deserts(w, u, a)
                          /\ \A j \in 1 .. k : Order[j] \notin u[a].summons
            N == Len(Order)
            Then(u, k) == IF Order[k] \in S THEN RemoveSummon(SetAttacked(u, Order[k], None), a, Order[k]) ELSE u
            G == [k \in 0 .. N |-> {u \in World : Done(u, k)}]
            step == [k \in 1 .. N |-> [u \in World |-> Then(u, k)]]
            after[i \in 0 .. N] == IF i = 0 THEN w ELSE Then(after[i - 1], i)
<1>n. N \in Nat /\ G \in [0 .. N -> SUBSET World]
  BY Orders
<1>i. /\ \A s \in S : s \in Creature /\ s # a /\ w[s].at # "none" /\ ~Plays(w, s) /\ w[s].summons = {}
      /\ w \in World /\ S \in SUBSET Creature
  <2>1. w \in World /\ Ranked(w)
    BY DEF Sound
  <2>. QED
    BY <2>1, OneMaster, ListsOf
<1>z. Done(w, 0)
  BY DEF Deserts, Quiet, SameLists, Leads, SameSpots
<1>b. w \in G[0]
  BY <1>n, <1>i, <1>z
<1>s. ASSUME NEW k \in 1 .. N, NEW u \in G[k - 1]
      PROVE  Then(u, k) \in G[k] /\ u \in World
  <2>1. k \in 0 .. N /\ k - 1 \in 0 .. N /\ Order[k] \in Creature
    BY <1>n, Orders
  <2>2. u \in World /\ Done(u, k - 1)
    BY <2>1
  <2>. HIDE DEF S
  <2>3. ASSUME Order[k] \in S
        PROVE  Done(Then(u, k), k)
    <3>. DEFINE s == Order[k]
                v == RemoveSummon(SetAttacked(u, s, None), a, s)
    <3>0. Deserts(w, u, a)
      BY <2>2
    <3>. HIDE DEF G, Then, Done, v, N
    <3>a. s \in Creature /\ s # a /\ w[s].at # "none" /\ ~Plays(w, s) /\ w[s].summons = {}
      BY <1>i, <2>3
    <3>. HIDE DEF s
    <3>b. u[s].at = w[s].at
      BY <3>0, <3>a DEF Deserts, Leads, SameSpots
    <3>c. u[s].summons \subseteq w[s].summons
      BY <3>0, <3>a DEF Deserts, Quiet
    <3>1. s \in Creature /\ s # a /\ u[s].at # "none" /\ ~Plays(u, s) /\ u[s].summons = {}
      BY <3>a, <3>b, <3>c DEF Plays
    <3>. USE DEF G, Then, Done, v, N
    <3>2. Sound(v, e, X, Y, M, P) /\ Deserts(u, v, a) /\ s \notin v[a].summons
      BY <2>2, <3>1, OrphanedSound
    <3>. HIDE DEF v
    <3>3. Deserts(w, v, a)
      BY <2>2, <3>2, DesertsTwice
    <3>4. ASSUME NEW j \in 1 .. k
          PROVE  Order[j] \notin v[a].summons
      <4>1. CASE j = k
        BY <3>2, <4>1 DEF s
      <4>2. CASE j # k
        <5>1. Order[j] \notin u[a].summons
          BY <1>n, <2>2, <4>2
        <5>. QED
          BY <3>2, <5>1 DEF Deserts, Leads
      <4>. QED
        BY <4>1, <4>2
    <3>5. Then(u, k) = v
      BY <2>3 DEF v, s
    <3>. QED
      BY <3>2, <3>3, <3>4, <3>5
  <2>4. ASSUME Order[k] \notin S
        PROVE  Done(Then(u, k), k)
    <3>1. u[a].summons \subseteq S
      BY <2>2 DEF Deserts, Leads, S
    <3>2. \A j \in 1 .. k : Order[j] \notin u[a].summons
      BY <1>n, <2>2, <2>4, <3>1
    <3>. QED
      BY <2>2, <2>4, <3>2
  <2>5. Done(Then(u, k), k)
    BY <2>3, <2>4
  <2>. QED
    <3>. HIDE DEF Then
    <3>. QED  BY <2>1, <2>2, <2>5 DEF Sound
<1>1. \A k \in 1 .. N : \A u \in G[k - 1] : step[k][u] \in G[k]
  <2>. HIDE DEF G, Then
  <2>. QED  BY <1>s
<1>. HIDE DEF G
<1>2. PICK h \in [0 .. N -> World] : Repeats(h, N, w, step) /\ \A k \in 0 .. N : h[k] \in G[k]
  <2>. HIDE DEF step, N
  <2>. QED  BY <1>n, <1>b, <1>1, Repeated
<1>3. h = [i \in 0 .. N |-> IF i = 0 THEN w ELSE Then(h[i - 1], i)]
  <2>. HIDE DEF Then
  <2>1. ASSUME NEW i \in 1 .. N
        PROVE  h[i] = Then(h[i - 1], i)
    <3>1. i - 1 \in 0 .. N
      BY <1>n
    <3>2. h[i - 1] \in World
      BY <1>2, <3>1
    <3>. QED
      BY <1>2, <3>2 DEF Repeats
  <2>. HIDE DEF step, N
  <2>. QED
    BY <1>n, <1>2, <2>1 DEF Repeats
<1>4. after = [i \in 0 .. N |-> IF i = 0 THEN w ELSE Then(after[i - 1], i)]
  <2>. HIDE DEF step, Then, N
  <2>. QED  BY <1>3
<1>5. Orphaned(w, a) = IF S = {} THEN w ELSE after[N]
  BY DEF Orphaned, Each
<1>. HIDE DEF after, Then
<1>6. after[N] \in G[N]
  <2>. DEFINE T == {k \in 0 .. N : after[k] \in G[k]}
  <2>1. 0 \in T
    BY <1>n, <1>b, <1>4
  <2>2. \A k \in 1 .. N : k - 1 \in T => k \in T
    BY <1>n, <1>s, <1>4
  <2>3. \A k \in 0 .. N : k \in T
    <3>. HIDE DEF T, N
    <3>. QED  BY <1>n, <2>1, <2>2, UpTo
  <2>. QED
    BY <1>n, <2>3
<1>7. Done(after[N], N)
  BY <1>n, <1>6 DEF G
<1>8. \A v : Done(v, N) => v[a].summons = {}
  <2>1. \A v : Done(v, N) => v[a].summons \subseteq Creature
    BY <1>i DEF Deserts, Leads
  <2>. QED
    BY <2>1, Orders
<1>9. S = {} => Sound(w, e, X, Y, M, P) /\ Deserts(w, w, a) /\ w[a].summons = {}
  BY <1>z
<1>. QED
  BY <1>5, <1>7, <1>8, <1>9

-----------------------------------------------------------------------------
(* Removal. *)

LEMMA WorldStays ==
    ASSUME NEW w \in World, NEW v \in Things,
           \A c \in Creature : /\ SameLists(w[c], v[c]) /\ v[c].summons \subseteq w[c].summons
                               /\ w[c].at # "none" => v[c].at # "none"
    PROVE  v \in World
<1>1. \A p \in Player : p \in Creature
  BY PlayerIs
<1>. QED
  BY <1>1 DEF World, SameLists

LEMMA AimsStay ==
    ASSUME NEW w \in Things, NEW v, NEW Y, AimsBut(w, Y),
           \A c \in Creature : SameAim(w[c], v[c]) /\ v[c].at = w[c].at /\ v[c].spot = w[c].spot
    PROVE  AimsBut(v, Y)
<1>. SUFFICES ASSUME NEW b \in InGame(v), NEW d \in {v[b].attacked, v[b].follow}, d # None
              PROVE  (Plays(v, d) /\ Sees(v, b, d)) \/ (<<b, d>> \in Y /\ ~Sees(v, b, d))
  BY DEF AimsBut
<1>1. b \in Creature /\ b \in InGame(w) /\ d \in {w[b].attacked, w[b].follow}
  BY DEF InGame, Plays, SameAim
<1>2. d \in Creature
  BY <1>1 DEF Things, Thing
<1>. QED
  BY <1>1, <1>2 DEF AimsBut, Plays, Sees

LEMMA MastersStay ==
    ASSUME NEW w \in Things, NEW v, NEW M, MastersBut(w, M),
           \A c \in Creature : v[c].at = w[c].at /\ v[c].master = w[c].master /\ v[c].summons = w[c].summons
    PROVE  MastersBut(v, M)
<1>. SUFFICES ASSUME NEW c \in InGame(v) \ M, v[c].master # None
              PROVE  Plays(v, v[c].master) /\ c \in v[v[c].master].summons
  BY DEF MastersBut
<1>1. c \in Creature /\ c \in InGame(w) /\ v[c].master = w[c].master
  BY DEF InGame, Plays
<1>2. w[c].master \in Creature
  BY <1>1 DEF Things, Thing
<1>3. Plays(w, w[c].master) /\ c \in w[w[c].master].summons
  BY <1>1 DEF MastersBut
<1>. QED
  BY <1>1, <1>2, <1>3 DEF Plays

Gone(w, c) == [w EXCEPT ![c].at = "removed"]

\* Nobody in the game who sees c aims at it.
Unnoticed(w, c) == \A a \in InGame(w) \ {c} : NotAt(w, a, c) \/ ~Sees(w, a, c)
Spares(P, R, c) == \A m \in Monster, p \in Player : <<m, p>> \in P => <<m, p>> \in R \/ c = m \/ c = p

\* One reference more than counted: that of the game.
OneMoreOf(e, c) == [d \in Creature |-> IF d = c THEN e[d] + 1 ELSE e[d]]

LEMMA GoneSound ==
    ASSUME NEW w, NEW e, NEW X, NEW Y, NEW M, NEW P, NEW R, Sound(w, e, X, Y, M, P),
           NEW c \in Creature, Plays(w, c),
           Unnoticed(w, c), Spares(P, R, c)
    PROVE  Sound(Gone(w, c), OneMoreOf(e, c), X, Y, M \cup w[c].summons, R)
<1>. DEFINE v == Gone(w, c)
            N == M \cup w[c].summons
<1>. USE DEF Sound
<1>1. w \in Things
  BY WorldIsThings
<1>2. /\ v \in Things /\ v[c].at = "removed" /\ w[c].at = "game"
      /\ \A b \in Creature \ {c} : v[b] = w[b]
      /\ v[c].spot = w[c].spot /\ v[c].spawn = w[c].spawn /\ v[c].freed = w[c].freed
      /\ SameAim(w[c], v[c]) /\ SameMind(w[c], v[c]) /\ SameLists(w[c], v[c])
      /\ v[c].refs = w[c].refs /\ v[c].alive = w[c].alive
      /\ v[c].master = w[c].master /\ v[c].summons = w[c].summons
  BY <1>1 DEF Gone, Plays, Things, Thing, SameAim, SameMind, SameLists
<1>. HIDE DEF v
<1>3. \A b \in Creature :
          /\ v[b].spot = w[b].spot /\ v[b].freed = w[b].freed /\ SameAim(w[b], v[b]) /\ SameMind(w[b], v[b])
          /\ SameLists(w[b], v[b]) /\ v[b].refs = w[b].refs /\ v[b].alive = w[b].alive
          /\ v[b].master = w[b].master /\ v[b].summons = w[b].summons
          /\ (Plays(v, b) <=> Plays(w, b) /\ b # c) /\ (v[b].at = "none" <=> w[b].at = "none")
  BY <1>2 DEF SameAim, SameMind, SameLists, Plays
<1>4. v \in World
  BY <1>2, <1>3, WorldStays
<1>5. \A b \in Creature : \A d \in w[b].summons : d \in Creature
  BY ListsOf
<1>6. Ranked(v)
  BY <1>3, <1>5 DEF Ranked
<1>7. Clean(v)
  BY <1>2, <1>3 DEF Clean
<1>8. CountedWith(v, OneMoreOf(e, c))
  <2>1. \A b \in Creature : Excess(v, b) = Excess(w, b) + Shift(w, v, b) /\ Excess(w, b) \in Int
    BY <1>1, <1>2, <1>3, MonsterIs, ExcessShifts
  <2>2. ASSUME NEW b \in Creature
        PROVE  /\ v[b].listed = w[b].listed /\ Serves(v, b) = Serves(w, b)
               /\ v[b].freed = w[b].freed /\ v[b].refs = w[b].refs
               /\ w[b].refs \in Int /\ w[b].freed \in Int
    <3>1. v[b].listed = w[b].listed /\ Serves(v, b) = Serves(w, b)
      BY <1>3 DEF SameMind, Serves
    <3>. QED
      BY <1>1, <1>3, <3>1 DEF Things, Thing
  <2>3. Shift(w, v, c) = 1
    <3>1. ~Plays(v, c) /\ Plays(w, c)
      BY <1>3
    <3>. QED
      BY <2>2, <3>1 DEF Shift, B
  <2>4. ASSUME NEW b \in Creature \ {c}
        PROVE  Shift(w, v, b) = 0
    <3>1. Plays(v, b) <=> Plays(w, b)
      BY <1>3
    <3>. QED
      BY <2>2, <3>1 DEF Shift, B
  <2>. QED
    BY <2>1, <2>3, <2>4 DEF CountedWith, OneMoreOf
<1>9. LookedBut(v, X)
  BY <1>3 DEF LookedBut, Looked, SameMind
<1>10. AimsBut(v, Y)
  <2>. SUFFICES ASSUME NEW b \in InGame(v), NEW d \in {v[b].attacked, v[b].follow}, d # None
                PROVE  (Plays(v, d) /\ Sees(v, b, d)) \/ (<<b, d>> \in Y /\ ~Sees(v, b, d))
    BY DEF AimsBut
  <2>1. b \in Creature /\ b # c /\ b \in InGame(w) /\ d \in {w[b].attacked, w[b].follow}
    BY <1>3 DEF InGame, SameAim
  <2>2. d \in Creature
    BY <1>1, <2>1 DEF Things, Thing
  <2>3. (Plays(w, d) /\ Sees(w, b, d)) \/ (<<b, d>> \in Y /\ ~Sees(w, b, d))
    BY <2>1 DEF AimsBut
  <2>4. d = c => ~Sees(w, b, d)
    BY <2>1 DEF NotAt, Unnoticed
  <2>5. Sees(v, b, d) = Sees(w, b, d)
    BY <1>3, <2>1, <2>2 DEF Sees
  <2>. QED
    BY <1>3, <2>1, <2>2, <2>3, <2>4, <2>5
<1>11. MastersBut(v, N)
  <2>. SUFFICES ASSUME NEW b \in InGame(v) \ N, v[b].master # None
                PROVE  Plays(v, v[b].master) /\ b \in v[v[b].master].summons
    BY DEF MastersBut
  <2>1. b \in Creature /\ b \in InGame(w) \ M /\ v[b].master = w[b].master /\ b \notin w[c].summons
    BY <1>3 DEF InGame
  <2>2. w[b].master \in Creature
    BY <1>1, <1>3, <2>1 DEF Things, Thing
  <2>3. Plays(w, w[b].master) /\ b \in w[w[b].master].summons
    BY <2>1 DEF MastersBut
  <2>. QED
    BY <1>3, <2>1, <2>2, <2>3
<1>12. AwakeBut(v, R)
  <2>. SUFFICES ASSUME NEW m \in Monster, NEW p \in Player, <<m, p>> \notin R
                PROVE  Woken(v, m, p)
    BY DEF AwakeBut
  <2>1. m \in Creature /\ p \in Creature
    BY MonsterIs, PlayerIs
  <2>2. CASE c = m \/ c = p
    BY <1>3, <2>1, <2>2 DEF Woken, Wakes
  <2>3. CASE c # m /\ c # p
    <3>1. Woken(w, m, p)
      BY <2>3 DEF AwakeBut, Spares
    <3>2. Wakes(v, m, p) = Wakes(w, m, p)
      BY <1>3, <2>1, <2>3 DEF Wakes, Sees, IsSummon
    <3>. QED
      BY <1>3, <2>1, <3>1, <3>2 DEF Woken, SameMind, SameLists
  <2>. QED
    BY <2>2, <2>3
<1>. QED
  BY <1>4, <1>6, <1>7, <1>8, <1>9, <1>10, <1>11, <1>12 DEF v, N

\* What changes of one that is removed is counted.
LEMMA OutSound ==
    ASSUME NEW w, NEW e, NEW X, NEW Y, NEW M, NEW P, Sound(w, e, X, Y, M, P),
           NEW c \in Creature, w[c].at = "removed", NEW v \in Things,
           \A b \in Creature \ {c} : v[b] = w[b],
           v[c].at = w[c].at, v[c].spot = w[c].spot, v[c].master = w[c].master,
           v[c].summons = w[c].summons, SameLists(w[c], v[c]), v[c].listed = w[c].listed,
           NEW g, \A b \in Creature \ {c} : g[b] = e[b],
           g[c] = e[c] + (v[c].refs - w[c].refs) - (v[c].freed - w[c].freed)
    PROVE  Sound(v, g, X, Y, M, P)
<1>. USE DEF Sound
<1>1. w \in Things
  BY WorldIsThings
<1>2. \A b \in Creature :
          /\ v[b].at = w[b].at /\ v[b].spot = w[b].spot /\ v[b].master = w[b].master
          /\ v[b].summons = w[b].summons /\ SameLists(w[b], v[b]) /\ v[b].listed = w[b].listed
          /\ (Plays(v, b) <=> Plays(w, b))
  BY DEF SameLists, Plays
<1>3. v \in World
  BY <1>2, WorldStays
<1>4. \A b \in Creature : \A d \in w[b].summons : d \in Creature
  BY ListsOf
<1>5. Ranked(v)
  BY <1>2, <1>4 DEF Ranked
<1>6. Clean(v)
  BY <1>2 DEF Clean
<1>7. CountedWith(v, g)
  <2>1. \A b \in Creature : Excess(v, b) = Excess(w, b) + Shift(w, v, b) /\ Excess(w, b) \in Int
    BY <1>1, <1>2, MonsterIs, ExcessShifts
  <2>2. \A b \in Creature : Serves(v, b) <=> Serves(w, b)
    BY <1>2 DEF Serves
  <2>3. \A b \in Creature : /\ w[b].refs \in Int /\ w[b].freed \in Int
                            /\ v[b].refs \in Int /\ v[b].freed \in Int
    BY <1>1 DEF Things, Thing
  <2>4. ASSUME NEW b \in Creature
        PROVE  Shift(w, v, b) = (v[b].refs - w[b].refs) - (v[b].freed - w[b].freed)
    <3>1. /\ v[b].listed = w[b].listed /\ (Plays(v, b) <=> Plays(w, b)) /\ (Serves(v, b) <=> Serves(w, b))
          /\ w[b].refs \in Int /\ w[b].freed \in Int /\ v[b].refs \in Int /\ v[b].freed \in Int
      BY <1>2, <2>2, <2>3
    <3>. QED
      BY <3>1 DEF Shift, B
  <2>5. ASSUME NEW b \in Creature \ {c}
        PROVE  Excess(v, b) = g[b]
    BY <2>1, <2>3, <2>4 DEF CountedWith
  <2>6. Excess(v, c) = g[c]
    <3>1. Excess(w, c) = e[c]
      BY DEF CountedWith
    <3>2. Excess(v, c) = e[c] + ((v[c].refs - w[c].refs) - (v[c].freed - w[c].freed)) /\ e[c] \in Int
      BY <2>1, <2>4, <3>1
    <3>. QED
      BY <2>3, <3>2
  <2>. QED
    BY <2>5, <2>6 DEF CountedWith
<1>8. LookedBut(v, X)
  <2>. SUFFICES ASSUME NEW b \in Creature \ X
                PROVE  Looked(v, b)
    BY DEF LookedBut
  <2>1. CASE b = c
    BY <2>1 DEF Looked, Plays
  <2>2. CASE b # c
    BY <1>2, <2>2 DEF LookedBut, Looked
  <2>. QED
    BY <2>1, <2>2
<1>9. AimsBut(v, Y)
  <2>. SUFFICES ASSUME NEW b \in InGame(v), NEW d \in {v[b].attacked, v[b].follow}, d # None
                PROVE  (Plays(v, d) /\ Sees(v, b, d)) \/ (<<b, d>> \in Y /\ ~Sees(v, b, d))
    BY DEF AimsBut
  <2>1. b \in Creature /\ b # c /\ b \in InGame(w) /\ d \in {w[b].attacked, w[b].follow}
    BY <1>2 DEF InGame, Plays
  <2>2. d \in Creature
    BY <1>1, <2>1 DEF Things, Thing
  <2>. QED
    BY <1>2, <2>1, <2>2 DEF AimsBut, Sees
<1>10. MastersBut(v, M)
  BY <1>1, <1>2, MastersStay
<1>11. AwakeBut(v, P)
  <2>. SUFFICES ASSUME NEW m \in Monster, NEW p \in Player, <<m, p>> \notin P
                PROVE  Woken(v, m, p)
    BY DEF AwakeBut
  <2>1. m \in Creature /\ p \in Creature
    BY MonsterIs, PlayerIs
  <2>2. CASE m = c
    BY <2>2 DEF Woken, Wakes, Plays
  <2>3. CASE m # c
    <3>1. v[m] = w[m] /\ Woken(w, m, p)
      BY <2>1, <2>3 DEF AwakeBut
    <3>. QED
      BY <1>2, <2>1, <3>1 DEF Woken, Wakes, Sees, IsSummon
  <2>. QED
    BY <2>2, <2>3
<1>. QED
  BY <1>3, <1>5, <1>6, <1>7, <1>8, <1>9, <1>10, <1>11

\* Nobody gets into the game, and the marks of the spawn stay.
Passes(w, v) == \A b \in Creature : v[b].spawn = w[b].spawn /\ (v[b].at = "game" => w[b].at = "game")

\* Some may have been deleted.
Survives(w, v) == \A b \in Creature : v[b].at # "none" => v[b].at = w[b].at /\ v[b].spawn = w[b].spawn

LEMMA PassesTwice ==
    ASSUME NEW w, NEW v, NEW u, Passes(w, v), Passes(v, u)
    PROVE  Passes(w, u)
BY DEF Passes

LEMMA FramedPasses ==
    ASSUME NEW w, NEW v, Framed(w, v)
    PROVE  Passes(w, v)
BY DEF Framed, SamePlace, Passes

LEMMA ToldPasses ==
    ASSUME NEW w, NEW v, NEW z, NEW D, Told(w, v, z, D)
    PROVE  Passes(w, v)
BY FramedPasses DEF Told

LEMMA LeadsPasses ==
    ASSUME NEW w, NEW v, SameSpots(w, v)
    PROVE  Passes(w, v)
BY DEF SameSpots, Passes

\* Those of S may have been removed.
Departs(w, v, S) ==
    /\ \A b \in Creature : /\ v[b].spot = w[b].spot /\ v[b].spawn = w[b].spawn
                           /\ v[b].summons \subseteq w[b].summons
    /\ \A b \in Creature \ S : v[b].at = w[b].at
    /\ \A b \in Creature : /\ w[b].at # "none" => v[b].at # "none"
                           /\ v[b].at = "game" => w[b].at = "game"

LEMMA DepartsTwice ==
    ASSUME NEW w, NEW v, NEW u, NEW S, NEW T, Departs(w, v, S), Departs(v, u, T)
    PROVE  Departs(w, u, S \cup T)
BY DEF Departs

LEMMA ToldDeparts ==
    ASSUME NEW w, NEW v, NEW z, NEW D, Told(w, v, z, D)
    PROVE  Departs(w, v, {})
BY DEF Told, Framed, SamePlace, Departs

LEMMA DepartsPasses ==
    ASSUME NEW w, NEW v, NEW S, Departs(w, v, S)
    PROVE  Passes(w, v)
BY DEF Departs, Passes

Freed(w, c) == [w EXCEPT ![c].freed = @ + 1]
Blank(w, c) == [w EXCEPT ![c].attacked = None, ![c].follow = None, ![c].inRange = FALSE, ![c].idle = TRUE]

LEMMA FreedIs ==
    ASSUME NEW w \in Things, NEW c \in Creature, NEW v, v = Freed(w, c)
    PROVE  /\ v \in Things /\ \A b \in Creature \ {c} : v[b] = w[b]
           /\ SameRank(w, v) /\ SameLists(w[c], v[c]) /\ SameMind(w[c], v[c]) /\ SameAim(w[c], v[c])
           /\ v[c].alive = w[c].alive /\ v[c].refs = w[c].refs /\ v[c].freed = w[c].freed + 1
BY DEF Freed, Things, Thing, SameRank, SameLists, SameMind, SameAim

LEMMA BlankIs ==
    ASSUME NEW w \in Things, NEW c \in Creature, NEW v, v = Blank(w, c)
    PROVE  /\ v \in Things /\ \A b \in Creature \ {c} : v[b] = w[b]
           /\ SameRank(w, v) /\ SameLists(w[c], v[c]) /\ v[c].listed = w[c].listed
           /\ v[c].refs = w[c].refs /\ v[c].freed = w[c].freed
<1>. DEFINE u1 == [w EXCEPT ![c].attacked = None]
            u2 == [u1 EXCEPT ![c].follow = None]
            no == FALSE
            yes == TRUE
            u3 == [u2 EXCEPT ![c].inRange = no]
            u4 == [u3 EXCEPT ![c].idle = yes]
            Same(t, u) == /\ u \in Things /\ \A b \in Creature \ {c} : u[b] = t[b]
                          /\ SameRank(t, u) /\ SameLists(t[c], u[c]) /\ u[c].listed = t[c].listed
                          /\ u[c].refs = t[c].refs /\ u[c].freed = t[c].freed
<1>1. Same(w, u1)
  BY DEF Things, Thing, SameRank, SameLists
<1>2. Same(u1, u2)
  <2>1. u1 \in Things
    BY <1>1
  <2>. HIDE DEF u1
  <2>. QED  BY <2>1 DEF Things, Thing, SameRank, SameLists
<1>3. Same(u2, u3)
  <2>1. u2 \in Things
    BY <1>2
  <2>2. no \in BOOLEAN
    OBVIOUS
  <2>. HIDE DEF u2, no
  <2>. QED  BY <2>1, <2>2 DEF Things, Thing, SameRank, SameLists
<1>4. Same(u3, u4)
  <2>1. u3 \in Things
    BY <1>3
  <2>2. yes \in BOOLEAN
    OBVIOUS
  <2>. HIDE DEF u3, yes
  <2>. QED  BY <2>1, <2>2 DEF Things, Thing, SameRank, SameLists
<1>5. v = u4
  BY DEF Blank
<1>. HIDE DEF u1, u2, u3, u4
<1>. QED
  BY <1>1, <1>2, <1>3, <1>4, <1>5 DEF SameRank, SameLists

LEMMA UnlistedSound ==
    ASSUME NEW w, NEW e, NEW X, NEW Y, NEW M, NEW P, NEW R, Sound(w, e, X, Y, M, P),
           NEW c \in Creature, Plays(w, c),
           Unnoticed(w, c), Spares(P, R, c)
    PROVE  LET v == Unlisted(w, c)
           IN  /\ Sound(v, e, X, Y, M \cup w[c].summons, R) /\ Departs(w, v, {c})
               /\ v[c].at = "removed" /\ v[c].summons = w[c].summons
<1>. DEFINE t == Gone(w, c)
            a == t[c].master
            u == IF a # None /\ t[a].at # "removed" THEN RemoveSummon(t, a, c) ELSE t
            x == Freed(u, c)
            y == Blank(x, c)
            v == RemoveCheck(y, c)
            g == OneMoreOf(e, c)
            N == M \cup w[c].summons
<1>0. w \in Things
  BY WorldIsThings DEF Sound
<1>1. Sound(t, g, X, Y, N, R)
  BY GoneSound
<1>2. /\ t[c].at = "removed" /\ t[c].summons = w[c].summons /\ t[c].master = w[c].master
      /\ Departs(w, t, {c})
  BY <1>0 DEF Gone, Things, Thing, Departs
<1>3. t \in Things
  BY <1>1, WorldIsThings DEF Sound
<1>4. Unlisted(w, c) = v
  <2>1. Unlisted(w, c) = RemoveCheck([u EXCEPT ![c].freed = @ + 1, ![c].attacked = None, ![c].follow = None,
                                               ![c].inRange = FALSE, ![c].idle = TRUE], c)
    BY DEF Unlisted, Gone
  <2>2. [u EXCEPT ![c].freed = @ + 1, ![c].attacked = None, ![c].follow = None,
                  ![c].inRange = FALSE, ![c].idle = TRUE] = y
    BY DEF Freed, Blank
  <2>. QED
    BY <2>1, <2>2
<1>. HIDE DEF t, v
<1>5. a \in Creature \cup {None}
  BY <1>3 DEF Things, Thing
<1>6. /\ Sound(u, g, X, Y, N, R) /\ Departs(t, u, {}) /\ u[c].at = "removed" /\ u[c].summons = t[c].summons
  <2>1. CASE a # None /\ t[a].at # "removed"
    <3>1. a \in Creature /\ ~Plays(t, c) /\ c # a
      BY <1>2, <1>5, <2>1 DEF Plays
    <3>2. /\ Sound(u, g, X, Y, N, R) /\ Leads(t, u, a) /\ u[c].summons = t[c].summons
          /\ u[a].summons \subseteq t[a].summons
      BY <1>1, <2>1, <3>1, ReleaseSound DEF Leads
    <3>3. \A b \in Creature : u[b].summons \subseteq t[b].summons
      <4>1. CASE c \in t[a].summons
        <5>1. Released(t, RemoveSummon(t, a, c), a, c)
          BY <1>1, <3>1, <4>1, RemoveSummonIs DEF Sound
        <5>. QED
          BY <2>1, <5>1 DEF Released
      <4>2. CASE c \notin t[a].summons
        BY <2>1, <4>2 DEF RemoveSummon
      <4>. QED
        BY <4>1, <4>2
    <3>4. SameSpots(t, u)
      BY <3>2 DEF Leads
    <3>. HIDE DEF u, a
    <3>. QED
      BY <1>2, <3>2, <3>3, <3>4 DEF SameSpots, Departs
  <2>2. CASE ~(a # None /\ t[a].at # "removed")
    BY <1>1, <1>2, <2>2 DEF Departs
  <2>. QED
    BY <2>1, <2>2
<1>. HIDE DEF u, a
<1>7. u \in Things
  BY <1>6, WorldIsThings DEF Sound
<1>8. x = Freed(u, c) /\ y = Blank(x, c)
  OBVIOUS
<1>. HIDE DEF x, y
<1>9. /\ x \in Things /\ \A b \in Creature \ {c} : x[b] = u[b]
      /\ SameRank(u, x) /\ SameLists(u[c], x[c]) /\ SameMind(u[c], x[c]) /\ SameAim(u[c], x[c])
      /\ x[c].alive = u[c].alive /\ x[c].refs = u[c].refs /\ x[c].freed = u[c].freed + 1
  BY <1>7, <1>8, FreedIs
<1>10. Sound(x, e, X, Y, N, R)
  <2>1. \A b \in Creature \ {c} : g[b] = e[b]
    BY DEF OneMoreOf
  <2>2. g[c] = e[c] + 1 /\ g[c] \in Int
    <3>1. g[c] = Excess(u, c)
      BY <1>6 DEF Sound, CountedWith
    <3>. QED
      BY <1>7, <3>1, HeldIsNat DEF OneMoreOf
  <2>3. e[c] \in Int
    <3>1. e[c] = Excess(w, c)
      BY DEF Sound, CountedWith
    <3>. QED
      BY <1>0, <3>1, HeldIsNat
  <2>. HIDE DEF g
  <2>4. e[c] = g[c] + (x[c].refs - u[c].refs) - (x[c].freed - u[c].freed)
    <3>1. u[c].refs \in Int /\ u[c].freed \in Int
      BY <1>7 DEF Things, Thing
    <3>. QED
      BY <1>9, <2>2, <2>3, <3>1
  <2>5. x[c].at = u[c].at /\ x[c].spot = u[c].spot /\ x[c].master = u[c].master /\ x[c].summons = u[c].summons
        /\ x[c].listed = u[c].listed
    BY <1>9 DEF SameRank, SameMind
  <2>. QED
    BY <1>6, <1>9, <2>1, <2>4, <2>5, OutSound
<1>11. /\ y \in Things /\ \A b \in Creature \ {c} : y[b] = x[b]
       /\ SameRank(x, y) /\ SameLists(x[c], y[c]) /\ y[c].listed = x[c].listed
       /\ y[c].refs = x[c].refs /\ y[c].freed = x[c].freed
  BY <1>8, <1>9, BlankIs
<1>12. x[c].at = "removed"
  BY <1>6, <1>9 DEF SameRank
<1>13. Sound(y, e, X, Y, N, R)
  <2>1. e[c] = e[c] + (y[c].refs - x[c].refs) - (y[c].freed - x[c].freed)
    <3>1. x[c].refs \in Int /\ x[c].freed \in Int
      BY <1>9 DEF Things, Thing
    <3>2. e[c] = Excess(x, c)
      BY <1>10 DEF Sound, CountedWith
    <3>3. e[c] \in Int
      BY <1>9, <3>2, HeldIsNat
    <3>. QED
      BY <1>11, <3>1, <3>3
  <2>2. y[c].at = x[c].at /\ y[c].spot = x[c].spot /\ y[c].master = x[c].master /\ y[c].summons = x[c].summons
    BY <1>11 DEF SameRank
  <2>. QED
    BY <1>10, <1>11, <1>12, <2>1, <2>2, OutSound
<1>14. y[c].at = "removed" /\ y \in World
  BY <1>11, <1>12, <1>13 DEF SameRank, Sound
<1>15. Told(y, v, None, {})
  <2>1. v = RemoveCheck(y, c)
    BY DEF v
  <2>2. Changed(y, v, c)
    BY <1>14, <2>1, RemoveCheckChanges
  <2>3. ~Plays(v, c) /\ ~Plays(y, c)
    BY <1>14, <2>2 DEF Changed, Framed, SamePlace, Plays
  <2>4. Looked(v, c) /\ \A p \in Player : ~Wakes(y, c, p)
    BY <2>3 DEF Looked, Wakes
  <2>. QED
    BY <1>14, <2>2, <2>4, ChangedTold
<1>16. Sound(v, e, X, Y, N, R)
  BY <1>13, <1>15, ToldSound
<1>17. Departs(y, v, {})
  BY <1>15, ToldDeparts
<1>18. Departs(u, y, {})
  BY <1>9, <1>11 DEF SameRank, Departs
<1>19. Departs(w, v, {c})
  <2>1. {c} \cup {} = {c}
    OBVIOUS
  <2>2. Departs(w, u, {c})
    BY <1>2, <1>6, <2>1, DepartsTwice
  <2>3. Departs(w, y, {c})
    BY <1>18, <2>1, <2>2, DepartsTwice
  <2>. QED
    BY <1>17, <2>1, <2>3, DepartsTwice
<1>20. v[c].at = "removed" /\ v[c].summons = w[c].summons
  <2>1. v[c].at = y[c].at /\ v[c].summons = y[c].summons
    BY <1>15 DEF Told, Framed, SamePlace
  <2>2. y[c].summons = u[c].summons
    BY <1>9, <1>11 DEF SameRank
  <2>. QED
    BY <1>2, <1>6, <1>14, <2>1, <2>2
<1>. QED
  BY <1>4, <1>16, <1>19, <1>20

AllDisappear(w, S, c) == Each(w, S, LAMBDA u, s : Disappear(u, s, c))

\* Those who are told that c goes do not attack or follow it any more.
LEMMA AllDisappearTold ==
    ASSUME NEW w \in World, NEW c \in Creature, NEW S \in SUBSET Creature, \A s \in S : w[s].at # "none"
    PROVE  LET v == AllDisappear(w, S, c)
           IN  Told(w, v, c, {}) /\ \A s \in S : NotAt(v, s, c)
<1>. DEFINE Done(u, k) == Told(w, u, c, {}) /\ \A j \in 1 .. k : Order[j] \in S => NotAt(u, Order[j], c)
            N == Len(Order)
            Then(u, k) == IF Order[k] \in S THEN Disappear(u, Order[k], c) ELSE u
            G == [k \in 0 .. N |-> {u \in World : Done(u, k)}]
            step == [k \in 1 .. N |-> [u \in World |-> Then(u, k)]]
            after[i \in 0 .. N] == IF i = 0 THEN w ELSE Then(after[i - 1], i)
<1>n. N \in Nat /\ G \in [0 .. N -> SUBSET World]
  BY Orders
<1>z. Told(w, w, c, {})
  BY ToldNothing
<1>b. w \in G[0]
  BY <1>n, <1>z
<1>s. ASSUME NEW k \in 1 .. N, NEW u \in G[k - 1]
      PROVE  Then(u, k) \in G[k] /\ u \in World
  <2>1. k \in 0 .. N /\ k - 1 \in 0 .. N /\ Order[k] \in Creature
    BY <1>n, Orders
  <2>2. u \in World /\ Done(u, k - 1)
    BY <2>1
  <2>3. ASSUME Order[k] \in S
        PROVE  Done(Then(u, k), k)
    <3>. DEFINE s == Order[k]
                v == Disappear(u, s, c)
    <3>1. s \in Creature /\ u[s].at # "none"
      BY <2>1, <2>2, <2>3 DEF Told, Framed, SamePlace
    <3>. HIDE DEF s
    <3>2. Told(u, v, c, {}) /\ NotAt(v, s, c)
      BY <2>2, <3>1, DisappearTold
    <3>. HIDE DEF v
    <3>3. Told(w, v, c, {})
      BY <2>2, <3>2, ToldTwice
    <3>4. ASSUME NEW j \in 1 .. k, Order[j] \in S
          PROVE  NotAt(v, Order[j], c)
      <4>1. CASE j = k
        BY <3>2, <4>1 DEF s
      <4>2. CASE j # k
        <5>1. NotAt(u, Order[j], c)
          BY <1>n, <2>2, <3>4, <4>2
        <5>2. Order[j] \in Creature
          BY <3>4
        <5>. QED
          BY <3>2, <5>1, <5>2, NotAtStays
      <4>. QED
        BY <4>1, <4>2
    <3>5. Then(u, k) = v
      BY <2>3 DEF v, s
    <3>. QED
      BY <3>3, <3>4, <3>5
  <2>4. ASSUME Order[k] \notin S
        PROVE  Done(Then(u, k), k)
    <3>1. \A j \in 1 .. k : Order[j] \in S => j \in 1 .. k - 1
      BY <1>n, <2>4
    <3>. QED
      BY <2>2, <2>4, <3>1
  <2>5. Done(Then(u, k), k)
    BY <2>3, <2>4
  <2>. QED
    <3>. HIDE DEF Then
    <3>. QED  BY <2>1, <2>2, <2>5 DEF Told
<1>1. \A k \in 1 .. N : \A u \in G[k - 1] : step[k][u] \in G[k]
  <2>. HIDE DEF G, Then
  <2>. QED  BY <1>s
<1>. HIDE DEF G
<1>2. PICK h \in [0 .. N -> World] : Repeats(h, N, w, step) /\ \A k \in 0 .. N : h[k] \in G[k]
  <2>. HIDE DEF step, N
  <2>. QED  BY <1>n, <1>b, <1>1, Repeated
<1>3. h = [i \in 0 .. N |-> IF i = 0 THEN w ELSE Then(h[i - 1], i)]
  <2>. HIDE DEF Then
  <2>1. ASSUME NEW i \in 1 .. N
        PROVE  h[i] = Then(h[i - 1], i)
    <3>1. i - 1 \in 0 .. N
      BY <1>n
    <3>2. h[i - 1] \in World
      BY <1>2, <3>1
    <3>. QED
      BY <1>2, <3>2 DEF Repeats
  <2>. HIDE DEF step, N
  <2>. QED
    BY <1>n, <1>2, <2>1 DEF Repeats
<1>4. after = [i \in 0 .. N |-> IF i = 0 THEN w ELSE Then(after[i - 1], i)]
  <2>. HIDE DEF step, Then, N
  <2>. QED  BY <1>3
<1>5. AllDisappear(w, S, c) = IF S = {} THEN w ELSE after[N]
  BY DEF AllDisappear, Each
<1>. HIDE DEF after, Then
<1>6. after[N] \in G[N]
  <2>. DEFINE T == {k \in 0 .. N : after[k] \in G[k]}
  <2>1. 0 \in T
    BY <1>n, <1>b, <1>4
  <2>2. \A k \in 1 .. N : k - 1 \in T => k \in T
    BY <1>n, <1>s, <1>4
  <2>3. \A k \in 0 .. N : k \in T
    <3>. HIDE DEF T, N
    <3>. QED  BY <1>n, <2>1, <2>2, UpTo
  <2>. QED
    BY <1>n, <2>3
<1>7. Done(after[N], N)
  BY <1>n, <1>6 DEF G
<1>8. \A v : Done(v, N) => \A s \in S : NotAt(v, s, c)
  BY Orders
<1>. QED
  BY <1>z, <1>5, <1>7, <1>8

LEMMA RemoveOneSound ==
    ASSUME NEW w, NEW e, NEW X, NEW Y, NEW M, NEW P, Sound(w, e, X, Y, M, P), NEW c \in Creature
    PROVE  LET v == RemoveOne(w, c)
           IN  /\ Sound(v, e, X, Y, M \cup w[c].summons, P) /\ Departs(w, v, {c}) /\ ~Plays(v, c)
               /\ v[c].summons = w[c].summons
<1>. DEFINE v == RemoveOne(w, c)
<1>1. CASE ~Plays(w, c)
  <2>1. v = w
    BY <1>1 DEF RemoveOne
  <2>2. Sound(w, e, X, Y, M \cup w[c].summons, P)
    BY SoundMore
  <2>3. Departs(w, w, {c})
    BY DEF Departs
  <2>. QED
    BY <1>1, <2>1, <2>2, <2>3
<1>2. CASE Plays(w, c)
  <2>. DEFINE S == Spectators(w, w[c].spot)
              u == AllDisappear(w, S, c)
              Q == P \cup {q \in Monster \X Player : c \in {q[1], q[2]}}
  <2>1. v = Unlisted(u, c)
    BY <1>2 DEF RemoveOne, AllDisappear
  <2>2. w \in World /\ w \in Things
    BY WorldIsThings DEF Sound
  <2>3. S \in SUBSET Creature /\ \A s \in S : w[s].at # "none"
    BY DEF Spectators, Plays
  <2>. HIDE DEF v, S
  <2>4. Told(w, u, c, {}) /\ \A s \in S : NotAt(u, s, c)
    BY <2>2, <2>3, AllDisappearTold
  <2>. HIDE DEF u
  <2>5. Sound(u, e, X, Y, M, Q)
    <3>1. P \subseteq Q /\ \A m \in Monster, p \in Player : m = c \/ p = c => <<m, p>> \in Q
      OBVIOUS
    <3>. HIDE DEF Q
    <3>. QED
      BY <2>4, <3>1, ToldSoundBut
  <2>6. Spares(Q, P, c)
    BY DEF Spares
  <2>. HIDE DEF Q
  <2>7. Plays(u, c) /\ u[c].summons = w[c].summons
    BY <1>2, <2>4, FramedSame DEF Told, Framed, SamePlace
  <2>8. Unnoticed(u, c)
    <3>. SUFFICES ASSUME NEW a \in InGame(u) \ {c}, Sees(u, a, c)
                  PROVE  NotAt(u, a, c)
      BY DEF Unnoticed
    <3>1. a \in Creature /\ Plays(w, a) /\ Sees(w, a, c)
      BY <2>4, FramedSame DEF InGame, Told
    <3>2. a \in S
      BY <3>1 DEF S, Spectators, Sees
    <3>. QED
      BY <2>4, <3>2
  <2>9. /\ Sound(v, e, X, Y, M \cup w[c].summons, P) /\ Departs(u, v, {c})
        /\ v[c].at = "removed" /\ v[c].summons = w[c].summons
    <3>1. /\ Sound(Unlisted(u, c), e, X, Y, M \cup u[c].summons, P) /\ Departs(u, Unlisted(u, c), {c})
          /\ Unlisted(u, c)[c].at = "removed" /\ Unlisted(u, c)[c].summons = u[c].summons
      BY <2>5, <2>6, <2>7, <2>8, UnlistedSound
    <3>2. M \cup u[c].summons = M \cup w[c].summons
      BY <2>7
    <3>3. Sound(Unlisted(u, c), e, X, Y, M \cup w[c].summons, P)
      BY <3>1, <3>2
    <3>. QED
      BY <2>1, <2>7, <3>1, <3>3
  <2>10. Departs(w, v, {c})
    <3>1. {} \cup {c} = {c}
      OBVIOUS
    <3>2. Departs(w, u, {})
      BY <2>4, ToldDeparts
    <3>. QED
      BY <2>9, <3>1, <3>2, DepartsTwice
  <2>. QED
    BY <2>9, <2>10 DEF v, Plays
<1>. QED
  BY <1>1, <1>2

\* Those of S, who have no summons, are removed.
LEMMA RemoveAllSound ==
    ASSUME NEW w, NEW e, NEW X, NEW Y, NEW M, NEW P, Sound(w, e, X, Y, M, P),
           NEW S \in SUBSET Creature, \A s \in S : w[s].summons = {}
    PROVE  LET v == Each(w, S, RemoveOne)
           IN  Sound(v, e, X, Y, M, P) /\ Departs(w, v, S) /\ \A s \in S : ~Plays(v, s)
<1>. DEFINE Done(u, k) == Sound(u, e, X, Y, M, P) /\ Departs(w, u, S) /\ \A j \in 1 .. k : Order[j] \in S => ~Plays(u, Order[j])
            N == Len(Order)
            Then(u, k) == IF Order[k] \in S THEN RemoveOne(u, Order[k]) ELSE u
            G == [k \in 0 .. N |-> {u \in World : Done(u, k)}]
            step == [k \in 1 .. N |-> [u \in World |-> Then(u, k)]]
            after[i \in 0 .. N] == IF i = 0 THEN w ELSE Then(after[i - 1], i)
<1>n. N \in Nat /\ G \in [0 .. N -> SUBSET World]
  BY Orders
<1>z. w \in World /\ Departs(w, w, S)
  BY DEF Sound, Departs
<1>b. w \in G[0]
  BY <1>n, <1>z
<1>s. ASSUME NEW k \in 1 .. N, NEW u \in G[k - 1]
      PROVE  Then(u, k) \in G[k] /\ u \in World
  <2>1. k \in 0 .. N /\ k - 1 \in 0 .. N /\ Order[k] \in Creature
    BY <1>n, Orders
  <2>2. u \in World /\ Done(u, k - 1)
    BY <2>1
  <2>3. ASSUME Order[k] \in S
        PROVE  Done(Then(u, k), k)
    <3>. DEFINE s == Order[k]
                v == RemoveOne(u, s)
    <3>1. s \in Creature /\ u[s].summons = {}
      <4>1. u[s].summons \subseteq w[s].summons
        BY <2>1, <2>2 DEF Departs
      <4>. QED
        BY <2>1, <2>3, <4>1
    <3>. HIDE DEF s
    <3>2. Sound(v, e, X, Y, M \cup u[s].summons, P) /\ Departs(u, v, {s}) /\ ~Plays(v, s)
      BY <2>2, <3>1, RemoveOneSound
    <3>. HIDE DEF v
    <3>3. M \cup u[s].summons = M
      BY <3>1
    <3>4. Sound(v, e, X, Y, M, P)
      BY <3>2, <3>3
    <3>5. Departs(w, v, S)
      <4>1. S \cup {s} = S
        BY <2>3 DEF s
      <4>. QED
        BY <2>2, <3>2, <4>1, DepartsTwice
    <3>6. ASSUME NEW j \in 1 .. k, Order[j] \in S
          PROVE  ~Plays(v, Order[j])
      <4>1. CASE j = k
        BY <3>2, <4>1 DEF s
      <4>2. CASE j # k
        <5>1. ~Plays(u, Order[j])
          BY <1>n, <2>2, <3>6, <4>2
        <5>. QED
          BY <3>2, <3>6, <5>1 DEF Departs, Plays
      <4>. QED
        BY <4>1, <4>2
    <3>7. Then(u, k) = v
      BY <2>3 DEF v, s
    <3>. QED
      BY <3>4, <3>5, <3>6, <3>7
  <2>4. ASSUME Order[k] \notin S
        PROVE  Done(Then(u, k), k)
    <3>1. \A j \in 1 .. k : Order[j] \in S => j \in 1 .. k - 1
      BY <1>n, <2>4
    <3>. QED
      BY <2>2, <2>4, <3>1
  <2>5. Done(Then(u, k), k)
    BY <2>3, <2>4
  <2>. QED
    <3>. HIDE DEF Then
    <3>. QED  BY <2>1, <2>2, <2>5 DEF Sound
<1>1. \A k \in 1 .. N : \A u \in G[k - 1] : step[k][u] \in G[k]
  <2>. HIDE DEF G, Then
  <2>. QED  BY <1>s
<1>. HIDE DEF G
<1>2. PICK h \in [0 .. N -> World] : Repeats(h, N, w, step) /\ \A k \in 0 .. N : h[k] \in G[k]
  <2>. HIDE DEF step, N
  <2>. QED  BY <1>n, <1>b, <1>1, Repeated
<1>3. h = [i \in 0 .. N |-> IF i = 0 THEN w ELSE Then(h[i - 1], i)]
  <2>. HIDE DEF Then
  <2>1. ASSUME NEW i \in 1 .. N
        PROVE  h[i] = Then(h[i - 1], i)
    <3>1. i - 1 \in 0 .. N
      BY <1>n
    <3>2. h[i - 1] \in World
      BY <1>2, <3>1
    <3>. QED
      BY <1>2, <3>2 DEF Repeats
  <2>. HIDE DEF step, N
  <2>. QED
    BY <1>n, <1>2, <2>1 DEF Repeats
<1>4. after = [i \in 0 .. N |-> IF i = 0 THEN w ELSE Then(after[i - 1], i)]
  <2>. HIDE DEF step, Then, N
  <2>. QED  BY <1>3
<1>5. Each(w, S, RemoveOne) = IF S = {} THEN w ELSE after[N]
  BY DEF Each
<1>. HIDE DEF after, Then
<1>6. after[N] \in G[N]
  <2>. DEFINE T == {k \in 0 .. N : after[k] \in G[k]}
  <2>1. 0 \in T
    BY <1>n, <1>b, <1>4
  <2>2. \A k \in 1 .. N : k - 1 \in T => k \in T
    BY <1>n, <1>s, <1>4
  <2>3. \A k \in 0 .. N : k \in T
    <3>. HIDE DEF T, N
    <3>. QED  BY <1>n, <2>1, <2>2, UpTo
  <2>. QED
    BY <1>n, <2>3
<1>7. Done(after[N], N)
  BY <1>n, <1>6 DEF G
<1>8. \A v : Done(v, N) => \A s \in S : ~Plays(v, s)
  BY Orders
<1>. QED
  BY <1>z, <1>5, <1>7, <1>8

LEMMA RemoveCreatureSound ==
    ASSUME NEW w, NEW e, NEW X, NEW Y, NEW M, NEW P, Sound(w, e, X, Y, M, P), NEW c \in Creature
    PROVE  LET v == RemoveCreature(w, c)
           IN  Sound(v, e, X, Y, M, P) /\ Departs(w, v, {c} \cup w[c].summons) /\ ~Plays(v, c)
<1>. DEFINE v == RemoveCreature(w, c)
            S == w[c].summons
            u == RemoveOne(w, c)
<1>1. CASE ~Plays(w, c)
  <2>1. v = w
    BY <1>1 DEF RemoveCreature
  <2>2. Departs(w, w, {c} \cup w[c].summons)
    BY DEF Departs
  <2>. QED
    BY <1>1, <2>1, <2>2
<1>2. CASE Plays(w, c)
  <2>1. v = Each(u, u[c].summons, RemoveOne)
    BY <1>2 DEF RemoveCreature
  <2>2. Sound(u, e, X, Y, M \cup S, P) /\ Departs(w, u, {c}) /\ ~Plays(u, c) /\ u[c].summons = S
    BY RemoveOneSound
  <2>3. S \in SUBSET Creature
    BY ListsOf DEF Sound
  <2>. HIDE DEF v, u, S
  <2>4. \A s \in S : u[s].summons = {}
    <3>1. u \in World /\ Ranked(u)
      BY <2>2 DEF Sound
    <3>. QED
      BY <2>2, <3>1, OneMaster
  <2>5. v = Each(u, S, RemoveOne)
    BY <2>1, <2>2
  <2>6. Sound(v, e, X, Y, M \cup S, P) /\ Departs(u, v, S) /\ \A s \in S : ~Plays(v, s)
    BY <2>2, <2>3, <2>4, <2>5, RemoveAllSound
  <2>7. Sound(v, e, X, Y, M, P)
    BY <2>6 DEF Sound, MastersBut, InGame
  <2>8. Departs(w, v, {c} \cup S)
    BY <2>2, <2>6, DepartsTwice
  <2>9. ~Plays(v, c)
    BY <2>2, <2>6 DEF Departs, Plays
  <2>. QED
    BY <2>7, <2>8, <2>9 DEF v, S
<1>. QED
  BY <1>1, <1>2

-----------------------------------------------------------------------------
(* Deletion. *)

Unheld(w, c) ==
    /\ ~Plays(w, c) /\ ~w[c].listed /\ w[c].freed = 0
    /\ \A a \in Creature : c \notin w[a].summons /\ c \notin w[a].targets /\ c \notin w[a].friends

LEMMA SixZeroes ==
    ASSUME NEW i \in Nat, NEW j \in Nat, NEW k \in Nat, NEW l \in Nat, NEW m \in Nat, NEW n \in Nat,
           i + j + k + l + m + n = 0
    PROVE  i = 0 /\ j = 0 /\ k = 0 /\ l = 0 /\ m = 0 /\ n = 0
OBVIOUS

\* Who has no reference is held by nobody.
LEMMA NobodyHolds ==
    ASSUME NEW w \in World, NEW c \in Creature, Held(w, c) = 0
    PROVE  Unheld(w, c)
<1>1. w \in Things
  BY WorldIsThings
<1>2. /\ w[c].freed \in Nat /\ Cardinality(Targeting(w, c)) \in Nat /\ Cardinality(Befriending(w, c)) \in Nat
  BY <1>1, HeldIsNat
<1>3. /\ B(Plays(w, c)) = 0 /\ B(w[c].listed) = 0 /\ w[c].freed = 0 /\ B(Serves(w, c)) = 0
      /\ Cardinality(Targeting(w, c)) = 0 /\ Cardinality(Befriending(w, c)) = 0
  <2>. DEFINE i == B(Plays(w, c))
              j == B(w[c].listed)
              k == w[c].freed
              l == B(Serves(w, c))
              m == Cardinality(Targeting(w, c))
              n == Cardinality(Befriending(w, c))
  <2>1. i \in Nat /\ j \in Nat /\ k \in Nat /\ l \in Nat /\ m \in Nat /\ n \in Nat
    BY <1>2 DEF B
  <2>2. i + j + k + l + m + n = 0
    BY DEF Held
  <2>3. i = 0 /\ j = 0 /\ k = 0 /\ l = 0 /\ m = 0 /\ n = 0
    <3>. HIDE DEF i, j, k, l, m, n
    <3>. QED  BY <2>1, <2>2, SixZeroes
  <2>. QED
    BY <2>3
<1>4. ~Plays(w, c) /\ ~w[c].listed /\ ~Serves(w, c)
  BY <1>3 DEF B
<1>5. Targeting(w, c) = {} /\ Befriending(w, c) = {}
  <2>1. \A S \in SUBSET Monster : Cardinality(S) = 0 => S = {}
    BY FiniteCreatures, FS_Subset, FS_EmptySet
  <2>. QED
    BY <1>3, <2>1 DEF Targeting, Befriending
<1>6. \A a \in Creature : c \notin w[a].targets /\ c \notin w[a].friends
  <2>. SUFFICES ASSUME NEW a \in Creature
                PROVE  c \notin w[a].targets /\ c \notin w[a].friends
    OBVIOUS
  <2>1. CASE a \in Monster
    BY <1>5, <2>1 DEF Targeting, Befriending
  <2>2. CASE a \in Player
    BY <2>2 DEF World
  <2>. QED
    BY <2>1, <2>2 DEF Creature
<1>. QED
  BY <1>3, <1>4, <1>6 DEF Unheld, Serves

Emptied(w, c) == [w EXCEPT ![c] = Nothing]

LEMMA EmptiedSound ==
    ASSUME NEW w, NEW e, NEW X, NEW Y, NEW M, NEW P, Sound(w, e, X, Y, M, P), NEW c \in Creature,
           Unheld(w, c), e[c] = 0, \A a \in Creature : <<a, c>> \notin Y,
           w[c].summons = {}, w[c].targets = {}, w[c].friends = {}
    PROVE  Sound(Emptied(w, c), e, X, Y, M, P)
<1>. DEFINE v == Emptied(w, c)
<1>. USE DEF Sound
<1>1. w \in Things
  BY WorldIsThings
<1>2. v \in Things /\ v[c] = Nothing /\ \A b \in Creature \ {c} : v[b] = w[b]
  BY <1>1, NothingIs DEF Emptied, Things
<1>3. /\ v[c].at = "none" /\ v[c].summons = {} /\ v[c].targets = {} /\ v[c].friends = {}
      /\ v[c].master = None /\ v[c].refs = 0 /\ v[c].freed = 0 /\ ~v[c].listed
  BY <1>2, NothingIs
<1>. HIDE DEF v
<1>4. \A b \in Creature : /\ v[b].summons = w[b].summons /\ v[b].targets = w[b].targets
                          /\ v[b].friends = w[b].friends /\ (Plays(v, b) <=> Plays(w, b))
  BY <1>2, <1>3 DEF Unheld, Plays
<1>5. v \in World
  <2>1. ASSUME NEW a \in Creature, NEW b \in Creature, b \in v[a].targets \cup v[a].friends \cup v[a].summons
        PROVE  v[b].at # "none"
    <3>1. b # c /\ b \in w[a].targets \cup w[a].friends \cup w[a].summons
      BY <1>4, <2>1 DEF Unheld
    <3>. QED
      BY <1>2, <3>1 DEF World
  <2>2. \A p \in Player : v[p].targets = {} /\ v[p].friends = {}
    BY <1>4, PlayerIs DEF World
  <2>. QED
    BY <1>2, <2>1, <2>2 DEF World
<1>6. Ranked(v)
  <2>1. \A a \in Creature : \A b \in w[a].summons : b \in Creature /\ b # c
    BY ListsOf DEF Unheld
  <2>. QED
    BY <1>2, <1>3, <1>4, <2>1 DEF Ranked
<1>7. Clean(v)
  BY <1>2 DEF Clean
<1>8. CountedWith(v, e)
  <2>1. ASSUME NEW b \in Creature
        PROVE  /\ Targeting(v, b) = Targeting(w, b) /\ Befriending(v, b) = Befriending(w, b)
               /\ (Serves(v, b) <=> Serves(w, b))
    BY <1>4, MonsterIs DEF Targeting, Befriending, Serves
  <2>2. ASSUME NEW b \in Creature \ {c}
        PROVE  Excess(v, b) = e[b]
    <3>1. Excess(v, b) = Excess(w, b)
      <4>1. v[b] = w[b] /\ (Plays(v, b) <=> Plays(w, b))
        BY <1>2, <1>4
      <4>2. B(Plays(v, b)) = B(Plays(w, b)) /\ B(Serves(v, b)) = B(Serves(w, b))
        BY <2>1, <4>1 DEF B
      <4>. QED
        BY <2>1, <4>1, <4>2 DEF Excess, Held
    <3>. QED
      BY <3>1 DEF CountedWith
  <2>3. Excess(v, c) = e[c]
    <3>1. ~Serves(v, c) /\ ~Plays(v, c)
      BY <1>4 DEF Unheld, Serves
    <3>2. Targeting(v, c) = {} /\ Befriending(v, c) = {}
      BY <1>4, MonsterIs DEF Unheld, Targeting, Befriending
    <3>3. Cardinality({}) = 0
      BY FS_EmptySet
    <3>4. Held(v, c) = 0
      BY <1>3, <3>1, <3>2, <3>3 DEF Held, B
    <3>. QED
      BY <1>3, <3>4 DEF Excess
  <2>. QED
    BY <2>2, <2>3 DEF CountedWith
<1>9. LookedBut(v, X)
  BY <1>2, <1>3 DEF LookedBut, Looked, Plays
<1>10. AimsBut(v, Y)
  <2>. SUFFICES ASSUME NEW b \in InGame(v), NEW d \in {v[b].attacked, v[b].follow}, d # None
                PROVE  (Plays(v, d) /\ Sees(v, b, d)) \/ (<<b, d>> \in Y /\ ~Sees(v, b, d))
    BY DEF AimsBut
  <2>1. b \in Creature /\ b # c /\ b \in InGame(w) /\ d \in {w[b].attacked, w[b].follow}
    BY <1>2, <1>3 DEF InGame, Plays
  <2>2. (Plays(w, d) /\ Sees(w, b, d)) \/ (<<b, d>> \in Y /\ ~Sees(w, b, d))
    BY <2>1 DEF AimsBut
  <2>3. d \in Creature /\ d # c
    BY <1>1, <2>1, <2>2 DEF Things, Thing, Unheld
  <2>. QED
    BY <1>2, <2>1, <2>2, <2>3 DEF Plays, Sees
<1>11. MastersBut(v, M)
  <2>. SUFFICES ASSUME NEW b \in InGame(v) \ M, v[b].master # None
                PROVE  Plays(v, v[b].master) /\ b \in v[v[b].master].summons
    BY DEF MastersBut
  <2>1. b \in Creature /\ b \in InGame(w) \ M /\ v[b].master = w[b].master
    BY <1>2, <1>3 DEF InGame, Plays
  <2>2. w[b].master \in Creature
    BY <1>1, <2>1 DEF Things, Thing
  <2>3. Plays(w, w[b].master) /\ b \in w[w[b].master].summons
    BY <2>1 DEF MastersBut
  <2>. QED
    BY <1>4, <2>1, <2>2, <2>3
<1>12. AwakeBut(v, P)
  <2>. SUFFICES ASSUME NEW m \in Monster, NEW p \in Player, <<m, p>> \notin P, Wakes(v, m, p)
                PROVE  p \in v[m].targets /\ ~v[m].idle
    BY DEF AwakeBut, Woken
  <2>1. m \in Creature /\ p \in Creature /\ m # c /\ p # c
    BY <1>3, MonsterIs, PlayerIs DEF Wakes, Plays
  <2>2. v[m] = w[m] /\ v[p] = w[p]
    BY <1>2, <2>1
  <2>3. Wakes(w, m, p) /\ Woken(w, m, p)
    BY <2>2 DEF Wakes, AwakeBut, Plays, Sees, IsSummon
  <2>. QED
    BY <2>2, <2>3 DEF Woken
<1>. QED
  BY <1>5, <1>6, <1>7, <1>8, <1>9, <1>10, <1>11, <1>12 DEF v

\* Where creatures are, but for c.
SameRest(w, v, c) == \A b \in Creature \ {c} : v[b].at = w[b].at

LEMMA ClearedSound ==
    ASSUME NEW w, NEW e, NEW X, NEW Y, NEW M, NEW P, Sound(w, e, X, Y, M, P), NEW c \in Creature,
           w[c].at # "none", c \in Monster => ~Plays(w, c) \/ ~w[c].alive
    PROVE  LET v == ClearLists(w, c)
           IN  /\ Sound(v, e, X, Y, M, P) /\ Framed(w, v) /\ v[c].targets = {} /\ v[c].friends = {}
               /\ \A b \in Creature : v[b].targets \subseteq w[b].targets /\ v[b].friends \subseteq w[b].friends
               /\ SameMind(w[c], v[c])
<1>. DEFINE v == ClearLists(w, c)
            F == {}
<1>. HIDE DEF F
<1>0. w \in World /\ w \in Things
  BY WorldIsThings DEF Sound
<1>1. CASE c \in Monster
  <2>1. Enlisted(w, v, c, F, F)
    BY <1>0, <1>1, ClearListsEnlists DEF F
  <2>. HIDE DEF v
  <2>2. Told(w, v, None, {})
    <3>1. \A p \in Player : ~Wakes(w, c, p)
      BY <1>1 DEF Wakes
    <3>. QED
      BY <1>0, <1>1, <2>1, <3>1, MonsterIs, EnlistedTold
  <2>3. Sound(v, e, X, Y, M, P) /\ Framed(w, v)
    BY <2>2, ToldSound DEF Told
  <2>4. \A b \in Creature : v[b].targets \subseteq w[b].targets /\ v[b].friends \subseteq w[b].friends
    BY <2>1 DEF Enlisted, Changed, Relisted, SameLists, F
  <2>. QED
    BY <2>1, <2>3, <2>4 DEF v, Enlisted, F
<1>2. CASE c \in Player
  <2>1. w[c].targets = {} /\ w[c].friends = {}
    BY <1>0, <1>2 DEF World
  <2>2. v = w
    <3>1. [w EXCEPT ![c].targets = {}] = w /\ [w EXCEPT ![c].friends = {}] = w
      BY <1>0, <2>1 DEF Things, Thing
    <3>2. ClearTargets(w, c) = w /\ ClearFriends(w, c) = w
      BY <2>1, <3>1 DEF ClearTargets, ClearFriends, Each
    <3>. QED
      BY <3>2 DEF ClearLists
  <2>3. Framed(w, w) /\ SameMind(w[c], w[c])
    BY DEF Framed, SamePlace, SameMind
  <2>. HIDE DEF v
  <2>. QED
    BY <2>1, <2>2, <2>3 DEF v
<1>. QED
  BY <1>1, <1>2 DEF Creature

\* Who is deleted leaves nothing behind.
LEMMA DeletedSound ==
    ASSUME NEW w, NEW e, NEW X, NEW Y, NEW M, NEW P, Sound(w, e, X, Y, M, P), NEW c \in Creature,
           c \in Dead(w), e[c] \in Nat, \A a \in Creature : <<a, c>> \notin Y,
           \A s \in w[c].summons : ~Plays(w, s)
    PROVE  /\ Sound(Deleted(w, c), e, X, Y, M, P) /\ Deleted(w, c)[c].at = "none" /\ SameRest(w, Deleted(w, c), c)
           /\ Survives(w, Deleted(w, c))
<1>. DEFINE u == Orphaned(w, c)
            x == ClearLists(u, c)
            v == Emptied(x, c)
<1>0. w \in World /\ w \in Things /\ w[c].at = "removed" /\ w[c].refs = 0
  BY WorldIsThings DEF Sound, Dead
<1>1. Sound(u, e, X, Y, M, P) /\ Deserts(w, u, c) /\ u[c].summons = {}
  BY OrphanedAllSound
<1>2. Unheld(w, c) /\ e[c] = 0
  <2>1. Held(w, c) \in Nat /\ w[c].refs - Held(w, c) = e[c]
    BY <1>0, HeldIsNat DEF Sound, CountedWith, Excess
  <2>2. Held(w, c) = 0 /\ e[c] = 0
    BY <1>0, <2>1
  <2>. QED
    BY <1>0, <2>2, NobodyHolds
<1>. HIDE DEF u
<1>3. Unheld(u, c) /\ u[c].at = "removed" /\ ~Plays(u, c)
  BY <1>0, <1>1, <1>2 DEF Deserts, Quiet, Leads, SameSpots, Unheld, SameLists, Plays
<1>4. /\ Sound(x, e, X, Y, M, P) /\ Framed(u, x) /\ x[c].targets = {} /\ x[c].friends = {}
      /\ \A b \in Creature : x[b].targets \subseteq u[b].targets /\ x[b].friends \subseteq u[b].friends
      /\ SameMind(u[c], x[c])
  BY <1>1, <1>3, ClearedSound
<1>. HIDE DEF x
<1>5. Unheld(x, c) /\ x[c].summons = {}
  BY <1>1, <1>3, <1>4 DEF Framed, SamePlace, SameMind, Unheld, Plays
<1>6. Sound(v, e, X, Y, M, P)
  BY <1>2, <1>4, <1>5, EmptiedSound
<1>7. v[c].at = "none" /\ \A b \in Creature \ {c} : v[b] = x[b]
  <2>1. x \in Things
    BY <1>4, WorldIsThings DEF Sound
  <2>. QED
    BY <2>1, NothingIs DEF Emptied, Things
<1>8. SameRest(w, v, c)
  BY <1>1, <1>4, <1>7 DEF SameRest, Deserts, Leads, SameSpots, Framed, SamePlace
<1>9. v = Deleted(w, c)
  BY DEF Deleted, Emptied, Orphaned, u, x
<1>. HIDE DEF v
<1>10. Survives(w, v)
  BY <1>1, <1>4, <1>7 DEF Survives, Deserts, Leads, SameSpots, Framed, SamePlace
<1>. QED
  BY <1>6, <1>7, <1>8, <1>9, <1>10

Removed(w) == {c \in Creature : w[c].at = "removed"}

LEMMA RemovedFits ==
    ASSUME NEW w \in Things
    PROVE  Cardinality(Removed(w)) \in Nat /\ Cardinality(Removed(w)) <= Len(Order)
<1>. DEFINE N == Len(Order)
            f == [k \in 1 .. N |-> Order[k]]
<1>1. N \in Nat /\ f \in Surjection(1 .. N, Creature)
  BY Orders DEF Surjection
<1>2. IsFiniteSet(1 .. N) /\ Cardinality(1 .. N) = N
  <2>1. \A n \in Nat : Cardinality(1 .. n) = IF 1 > n THEN 0 ELSE n - 1 + 1
    BY FS_Interval
  <2>. HIDE DEF N
  <2>2. Cardinality(1 .. N) = N
    BY <1>1, <2>1
  <2>. QED
    BY <1>1, <2>2, FS_Interval
<1>3. Cardinality(Creature) <= N
  <2>. HIDE DEF f, N
  <2>. QED  BY <1>1, <1>2, FS_Surjection
<1>4. Cardinality(Creature) \in Nat
  BY FiniteCreatures, FS_CardinalityType
<1>5. Cardinality(Removed(w)) \in Nat /\ Cardinality(Removed(w)) <= Cardinality(Creature)
  BY FiniteCreatures, FS_Subset, FS_CardinalityType DEF Removed
<1>. QED
  BY <1>1, <1>3, <1>4, <1>5

\* In the end all are deleted whom nobody refers to.
LEMMA ReapedSound ==
    ASSUME NEW w, NEW e, NEW E, E = {}, Sound(w, e, E, E, E, E), \A c \in Creature : e[c] \in Nat
    PROVE  Sound(Reaped(w), e, E, E, E, E) /\ Dead(Reaped(w)) = {} /\ Survives(w, Reaped(w))
<1>. DEFINE Done(u, k) == /\ Sound(u, e, E, E, E, E) /\ (Dead(u) = {} \/ Cardinality(Removed(u)) + k <= Len(Order))
                          /\ Survives(w, u)
            N == Len(Order)
            Then(u, k) == IF Dead(u) = {} THEN u ELSE Deleted(u, CHOOSE c \in Dead(u) : TRUE)
            G == [k \in 0 .. N |-> {u \in World : Done(u, k)}]
            step == [k \in 1 .. N |-> [u \in World |-> Then(u, k)]]
            after[i \in 0 .. N] == IF i = 0 THEN w ELSE Then(after[i - 1], i)
<1>n. N \in Nat /\ G \in [0 .. N -> SUBSET World]
  BY Orders
<1>z. w \in World /\ Done(w, 0)
  <2>1. w \in World /\ w \in Things
    BY WorldIsThings DEF Sound
  <2>. QED
    BY <2>1, RemovedFits DEF Survives
<1>b. w \in G[0]
  BY <1>n, <1>z
<1>s. ASSUME NEW k \in 1 .. N, NEW u \in G[k - 1]
      PROVE  Then(u, k) \in G[k] /\ u \in World
  <2>1. k \in 0 .. N /\ k - 1 \in 0 .. N
    BY <1>n
  <2>2. u \in World /\ Done(u, k - 1)
    BY <2>1
  <2>3. ASSUME Dead(u) # {}
        PROVE  Done(Then(u, k), k)
    <3>. DEFINE c == CHOOSE b \in Dead(u) : TRUE
                v == Deleted(u, c)
    <3>1. c \in Dead(u)
      BY <2>3
    <3>2. c \in Creature /\ e[c] \in Nat /\ u[c].at = "removed"
      BY <3>1 DEF Dead
    <3>. HIDE DEF c
    <3>3. \A s \in u[c].summons : ~Plays(u, s)
      <4>. SUFFICES ASSUME NEW s \in u[c].summons, Plays(u, s)
                    PROVE  FALSE
        OBVIOUS
      <4>1. s \in Creature /\ u[s].master = c
        BY <2>2, <3>2, OneMaster DEF Sound
      <4>2. c # None
        BY <3>2, CreaturesAssumption
      <4>3. s \in InGame(u) \ E
        BY <4>1 DEF InGame
      <4>4. Plays(u, c)
        BY <2>2, <4>1, <4>2, <4>3 DEF Sound, MastersBut
      <4>. QED
        BY <3>2, <4>4 DEF Plays
    <3>4. Sound(v, e, E, E, E, E) /\ v[c].at = "none" /\ SameRest(u, v, c) /\ Survives(u, v)
      BY <2>2, <3>1, <3>2, <3>3, DeletedSound
    <3>. HIDE DEF v
    <3>10. Survives(w, v)
      BY <2>2, <3>4 DEF Survives
    <3>5. Removed(v) = Removed(u) \ {c} /\ c \in Removed(u)
      BY <3>2, <3>4 DEF Removed, SameRest
    <3>6. Cardinality(Removed(v)) = Cardinality(Removed(u)) - 1
      <4>1. IsFiniteSet(Removed(u))
        BY FiniteCreatures, FS_Subset DEF Removed
      <4>. QED
        BY <3>5, <4>1, FS_RemoveElement
    <3>7. Cardinality(Removed(u)) \in Nat
      BY <2>2, WorldIsThings, RemovedFits
    <3>8. Cardinality(Removed(v)) + k <= N
      BY <1>n, <2>2, <2>3, <3>6, <3>7
    <3>9. Then(u, k) = v
      BY <2>3 DEF v, c
    <3>. QED
      BY <3>4, <3>8, <3>9, <3>10
  <2>5. Done(Then(u, k), k)
    <3>1. CASE Dead(u) = {}
      BY <2>2, <3>1
    <3>. QED
      BY <2>3, <3>1
  <2>. QED
    <3>. HIDE DEF Then
    <3>. QED  BY <2>1, <2>2, <2>5 DEF Sound
<1>1. \A k \in 1 .. N : \A u \in G[k - 1] : step[k][u] \in G[k]
  <2>. HIDE DEF G, Then
  <2>. QED  BY <1>s
<1>. HIDE DEF G
<1>2. PICK h \in [0 .. N -> World] : Repeats(h, N, w, step) /\ \A k \in 0 .. N : h[k] \in G[k]
  <2>. HIDE DEF step, N
  <2>. QED  BY <1>n, <1>b, <1>1, Repeated
<1>3. h = [i \in 0 .. N |-> IF i = 0 THEN w ELSE Then(h[i - 1], i)]
  <2>. HIDE DEF Then
  <2>1. ASSUME NEW i \in 1 .. N
        PROVE  h[i] = Then(h[i - 1], i)
    <3>1. i - 1 \in 0 .. N
      BY <1>n
    <3>2. h[i - 1] \in World
      BY <1>2, <3>1
    <3>. QED
      BY <1>2, <3>2 DEF Repeats
  <2>. HIDE DEF step, N
  <2>. QED
    BY <1>n, <1>2, <2>1 DEF Repeats
<1>4. after = [i \in 0 .. N |-> IF i = 0 THEN w ELSE Then(after[i - 1], i)]
  <2>. HIDE DEF step, Then, N
  <2>. QED  BY <1>3
<1>5. Reaped(w) = after[N]
  BY DEF Reaped
<1>. HIDE DEF after, Then
<1>6. after[N] \in G[N]
  <2>. DEFINE T == {k \in 0 .. N : after[k] \in G[k]}
  <2>1. 0 \in T
    BY <1>n, <1>b, <1>4
  <2>2. \A k \in 1 .. N : k - 1 \in T => k \in T
    BY <1>n, <1>s, <1>4
  <2>3. \A k \in 0 .. N : k \in T
    <3>. HIDE DEF T, N
    <3>. QED  BY <1>n, <2>1, <2>2, UpTo
  <2>. QED
    BY <1>n, <2>3
<1>7. Done(after[N], N)
  BY <1>n, <1>6 DEF G
<1>8. \A v : Done(v, N) => Dead(v) = {}
  <2>. SUFFICES ASSUME NEW v, Done(v, N), NEW c \in Dead(v)
                PROVE  FALSE
    OBVIOUS
  <2>1. v \in Things
    BY WorldIsThings DEF Sound
  <2>2. Cardinality(Removed(v)) \in Nat /\ Cardinality(Removed(v)) + N <= N
    BY <2>1, RemovedFits
  <2>3. Cardinality(Removed(v)) = 0
    BY <1>n, <2>2
  <2>4. Removed(v) = {}
    <3>1. IsFiniteSet(Removed(v))
      BY FiniteCreatures, FS_Subset DEF Removed
    <3>. QED
      BY <2>3, <3>1, FS_EmptySet
  <2>. QED
    BY <2>4 DEF Dead, Removed
<1>. QED
  BY <1>5, <1>7, <1>8

-----------------------------------------------------------------------------
(* The books: the check vectors and what is to be given up. *)

Kept(x, y) ==
    /\ y.at = x.at /\ y.spot = x.spot /\ y.alive = x.alive /\ y.master = x.master /\ y.summons = x.summons
    /\ SameAim(x, y) /\ SameLists(x, y) /\ y.idle = x.idle

Booked(w, v) ==
    \A c \in Creature :
        /\ Kept(w[c], v[c]) /\ (Looked(w, c) => Looked(v, c)) /\ (w[c].at = "none" => v[c] = w[c])
        /\ v[c].refs - w[c].refs = (B(v[c].listed) - B(w[c].listed)) + (v[c].freed - w[c].freed)

\* What is counted elsewhere is g instead of e.
Recounted(w, v, e, g) ==
    \A c \in Creature :
        /\ Kept(w[c], v[c]) /\ (Looked(w, c) => Looked(v, c)) /\ (w[c].at = "none" => v[c] = w[c])
        /\ g[c] = e[c] + (((v[c].refs - w[c].refs) - (B(v[c].listed) - B(w[c].listed))) - (v[c].freed - w[c].freed))

LEMMA RecountedSound ==
    ASSUME NEW w, NEW e, NEW X, NEW Y, NEW M, NEW P, Sound(w, e, X, Y, M, P), NEW v \in Things,
           NEW g, Recounted(w, v, e, g)
    PROVE  Sound(v, g, X, Y, M, P)
<1>. USE DEF Sound
<1>1. w \in Things
  BY WorldIsThings
<1>2. \A b \in Creature :
          /\ v[b].at = w[b].at /\ v[b].spot = w[b].spot /\ v[b].alive = w[b].alive /\ v[b].master = w[b].master
          /\ v[b].summons = w[b].summons /\ SameAim(w[b], v[b]) /\ SameLists(w[b], v[b]) /\ v[b].idle = w[b].idle
          /\ (Plays(v, b) <=> Plays(w, b)) /\ (Serves(v, b) <=> Serves(w, b))
  BY DEF Recounted, Kept, Plays, Serves
<1>3. v \in World
  BY <1>2, WorldStays
<1>4. \A b \in Creature : \A d \in w[b].summons : d \in Creature
  BY ListsOf
<1>5. Ranked(v)
  BY <1>2, <1>4 DEF Ranked
<1>6. Clean(v)
  BY <1>2 DEF Clean, Recounted
<1>7. CountedWith(v, g)
  <2>. SUFFICES ASSUME NEW b \in Creature
                PROVE  Excess(v, b) = g[b]
    BY DEF CountedWith
  <2>. DEFINE s == (v[b].refs - w[b].refs) - (B(v[b].listed) - B(w[b].listed)) - (v[b].freed - w[b].freed)
  <2>1. Excess(v, b) = Excess(w, b) + Shift(w, v, b) /\ Excess(w, b) \in Int
    BY <1>1, <1>2, MonsterIs, ExcessShifts
  <2>2. /\ w[b].refs \in Int /\ w[b].freed \in Int /\ v[b].refs \in Int /\ v[b].freed \in Int
    BY <1>1 DEF Things, Thing
  <2>3. (Plays(v, b) <=> Plays(w, b)) /\ (Serves(v, b) <=> Serves(w, b))
    BY <1>2
  <2>4. B(v[b].listed) \in Int /\ B(w[b].listed) \in Int
    BY DEF B
  <2>5. B(Plays(v, b)) - B(Plays(w, b)) = 0 /\ B(Serves(v, b)) - B(Serves(w, b)) = 0
    BY <2>3 DEF B
  <2>6. Shift(w, v, b) = s /\ s \in Int
    BY <2>2, <2>4, <2>5 DEF Shift
  <2>7. g[b] = e[b] + s
    BY DEF Recounted
  <2>8. Excess(w, b) = e[b]
    BY DEF CountedWith
  <2>. HIDE DEF s
  <2>. QED
    BY <2>1, <2>6, <2>7, <2>8
<1>8. LookedBut(v, X)
  BY DEF LookedBut, Recounted
<1>9. AimsBut(v, Y)
  BY <1>1, <1>2, AimsStay
<1>10. MastersBut(v, M)
  BY <1>1, <1>2, MastersStay
<1>11. AwakeBut(v, P)
  <2>. SUFFICES ASSUME NEW m \in Monster, NEW p \in Player, <<m, p>> \notin P
                PROVE  Woken(v, m, p)
    BY DEF AwakeBut
  <2>1. m \in Creature /\ p \in Creature
    BY MonsterIs, PlayerIs
  <2>2. Woken(w, m, p)
    BY DEF AwakeBut
  <2>. QED
    BY <1>2, <2>1, <2>2 DEF Woken, Wakes, Sees, IsSummon, SameLists
<1>. QED
  BY <1>3, <1>5, <1>6, <1>7, <1>8, <1>9, <1>10, <1>11

LEMMA BookedSound ==
    ASSUME NEW w, NEW e, NEW X, NEW Y, NEW M, NEW P, Sound(w, e, X, Y, M, P), NEW v \in Things, Booked(w, v)
    PROVE  Sound(v, e, X, Y, M, P)
<1>1. w \in Things
  BY WorldIsThings DEF Sound
<1>2. ASSUME NEW c \in Creature
      PROVE  e[c] = e[c] + (((v[c].refs - w[c].refs) - (B(v[c].listed) - B(w[c].listed))) - (v[c].freed - w[c].freed))
  <2>. DEFINE i == v[c].refs - w[c].refs
              j == B(v[c].listed) - B(w[c].listed)
              k == v[c].freed - w[c].freed
  <2>1. e[c] \in Int
    BY <1>1, HeldIsNat DEF Sound, CountedWith
  <2>2. i \in Int /\ j \in Int /\ k \in Int
    BY <1>1 DEF Things, Thing, B
  <2>3. i = j + k
    BY DEF Booked
  <2>. HIDE DEF i, j, k
  <2>4. e[c] = e[c] + ((i - j) - k)
    BY <2>1, <2>2, <2>3
  <2>. QED
    BY <2>4 DEF i, j, k
<1>3. Recounted(w, v, e, e)
  BY <1>2 DEF Booked, Recounted
<1>. QED
  BY <1>3, RecountedSound

Book(r, q, f, l) == [r EXCEPT !.refs = q, !.freed = f, !.listed = l]

LEMMA BookIs ==
    ASSUME NEW r \in Thing, NEW q \in Int, NEW f \in Nat, NEW l \in BOOLEAN, NEW x, x = Book(r, q, f, l)
    PROVE  /\ x \in Thing /\ Kept(r, x) /\ x.checked = r.checked /\ x.refs = q /\ x.freed = f /\ x.listed = l
           /\ (q = r.refs /\ f = r.freed /\ l = r.listed => x = r)
<1>. DEFINE y == [r EXCEPT !.refs = q]
            z == [y EXCEPT !.freed = f]
            t == [z EXCEPT !.listed = l]
<1>1. /\ y \in Thing /\ Kept(r, y) /\ y.checked = r.checked /\ y.refs = q /\ y.freed = r.freed /\ y.listed = r.listed
      /\ (q = r.refs => y = r)
  BY DEF Thing, Kept, SameAim, SameLists
<1>2. x = t
  BY DEF Book, Thing
<1>. HIDE DEF y
<1>3. /\ z \in Thing /\ Kept(y, z) /\ z.checked = y.checked /\ z.refs = y.refs /\ z.freed = f /\ z.listed = y.listed
      /\ (f = y.freed => z = y)
  BY <1>1 DEF Thing, Kept, SameAim, SameLists
<1>. HIDE DEF z
<1>4. /\ t \in Thing /\ Kept(z, t) /\ t.checked = z.checked /\ t.refs = z.refs /\ t.freed = z.freed /\ t.listed = l
      /\ (l = z.listed => t = z)
  BY <1>3 DEF Thing, Kept, SameAim, SameLists
<1>. HIDE DEF t
<1>. QED
  BY <1>1, <1>2, <1>3, <1>4 DEF Kept, SameAim, SameLists

LEMMA CleanupSound ==
    ASSUME NEW w, NEW e, NEW X, NEW Y, NEW M, NEW P, Sound(w, e, X, Y, M, P)
    PROVE  Sound(Cleanup(w), e, X, Y, M, P)
<1>. DEFINE v == Cleanup(w)
<1>1. w \in Things /\ Clean(w)
  BY WorldIsThings DEF Sound
<1>2. ASSUME NEW c \in Creature
      PROVE  /\ v[c] \in Thing /\ Kept(w[c], v[c]) /\ v[c].checked = w[c].checked /\ v[c].listed = w[c].listed
             /\ v[c].refs = w[c].refs - w[c].freed /\ v[c].freed = 0
             /\ w[c].at = "none" => v[c] = w[c]
  <2>1. w[c] \in Thing
    BY <1>1 DEF Things
  <2>2. v[c] = [w[c] EXCEPT !.refs = w[c].refs - w[c].freed, !.freed = 0, !.listed = w[c].listed]
    BY <2>1 DEF Cleanup, Thing
  <2>3. w[c].refs \in Int /\ w[c].freed \in Nat /\ w[c].listed \in BOOLEAN
    BY <2>1 DEF Thing
  <2>. DEFINE q == w[c].refs - w[c].freed
  <2>4. q \in Int /\ 0 \in Nat
    BY <2>3
  <2>5. w[c].at = "none" => q = w[c].refs /\ w[c].freed = 0
    BY <1>1, NothingIs DEF Clean
  <2>. HIDE DEF v, q
  <2>6. /\ v[c] \in Thing /\ Kept(w[c], v[c]) /\ v[c].checked = w[c].checked /\ v[c].refs = q /\ v[c].freed = 0
        /\ v[c].listed = w[c].listed /\ (q = w[c].refs /\ 0 = w[c].freed => v[c] = w[c])
    <3>. DEFINE z == 0
                x == v[c]
                l == w[c].listed
    <3>1. x = Book(w[c], q, z, l) /\ z \in Nat /\ l \in BOOLEAN
      BY <2>2, <2>3 DEF q, Book
    <3>. HIDE DEF z, x, l
    <3>2. /\ x \in Thing /\ Kept(w[c], x) /\ x.checked = w[c].checked /\ x.refs = q /\ x.freed = z
          /\ x.listed = l /\ (q = w[c].refs /\ z = w[c].freed /\ l = w[c].listed => x = w[c])
      BY <2>1, <2>4, <3>1, BookIs
    <3>. QED
      BY <3>2 DEF z, x, l
  <2>. QED
    BY <2>5, <2>6 DEF q
<1>3. v \in Things
  BY <1>2 DEF Cleanup, Things
<1>. HIDE DEF v
<1>4. Booked(w, v)
  <2>1. ASSUME NEW c \in Creature
        PROVE  /\ Looked(w, c) => Looked(v, c)
               /\ v[c].refs - w[c].refs = (B(v[c].listed) - B(w[c].listed)) + (v[c].freed - w[c].freed)
    <3>1. Looked(w, c) => Looked(v, c)
      BY <1>2 DEF Looked, Kept, Plays
    <3>2. B(v[c].listed) - B(w[c].listed) = 0
      BY <1>2 DEF B
    <3>3. w[c].refs \in Int /\ w[c].freed \in Int
      BY <1>1 DEF Things, Thing
    <3>. QED
      BY <1>2, <3>1, <3>2, <3>3
  <2>. QED
    BY <1>2, <2>1 DEF Booked
<1>. QED
  BY <1>3, <1>4, BookedSound DEF v

\* The check that takes one off the vector.
Unlists(w, c) == [w EXCEPT ![c].listed = FALSE, ![c].freed = @ + 1]

LEMMA UnlistsSound ==
    ASSUME NEW w, NEW e, NEW X, NEW Y, NEW M, NEW P, Sound(w, e, X, Y, M, P),
           NEW c \in Creature, w[c].listed, ~w[c].checked
    PROVE  Sound(Unlists(w, c), e, X, Y, M, P)
<1>. DEFINE v == Unlists(w, c)
<1>1. w \in Things /\ Clean(w)
  BY WorldIsThings DEF Sound
<1>2. /\ v \in Things /\ \A b \in Creature \ {c} : v[b] = w[b]
      /\ Kept(w[c], v[c]) /\ v[c].checked = w[c].checked /\ ~v[c].listed
      /\ v[c].refs = w[c].refs /\ v[c].freed = w[c].freed + 1
  <2>2. w[c] \in Thing
    BY <1>1 DEF Things
  <2>. DEFINE x == [w[c] EXCEPT !.refs = w[c].refs, !.freed = w[c].freed + 1, !.listed = FALSE]
  <2>3. v = [w EXCEPT ![c] = x]
    BY <1>1, <2>2 DEF Unlists, Things, Thing
  <2>4. x \in Thing /\ Kept(w[c], x) /\ x.checked = w[c].checked /\ x.refs = w[c].refs /\ x.freed = w[c].freed + 1 /\ ~x.listed
    <3>. DEFINE no == FALSE
                q == w[c].refs
                f == w[c].freed + 1
    <3>1. q \in Int /\ f \in Nat /\ no \in BOOLEAN /\ x = Book(w[c], q, f, no)
      BY <2>2 DEF Thing, Book
    <3>. HIDE DEF no, x, q, f
    <3>2. x \in Thing /\ Kept(w[c], x) /\ x.checked = w[c].checked /\ x.refs = q /\ x.freed = f /\ x.listed = no
      BY <2>2, <3>1, BookIs
    <3>. QED
      BY <3>2 DEF no, q, f
  <2>. HIDE DEF x
  <2>. HIDE DEF v
  <2>. QED
    BY <1>1, <2>3, <2>4 DEF Things
<1>. HIDE DEF v
<1>3. w[c].at # "none"
  BY <1>1, NothingIs DEF Clean
<1>4. Booked(w, v)
  <2>1. \A b \in Creature : w[b].refs \in Int /\ w[b].freed \in Int
    BY <1>1 DEF Things, Thing
  <2>2. ASSUME NEW b \in Creature \ {c}
        PROVE  /\ Kept(w[b], v[b]) /\ (Looked(w, b) => Looked(v, b)) /\ (w[b].at = "none" => v[b] = w[b])
               /\ v[b].refs - w[b].refs = (B(v[b].listed) - B(w[b].listed)) + (v[b].freed - w[b].freed)
    <3>1. v[b] = w[b]
      BY <1>2
    <3>2. B(w[b].listed) \in Int
      BY DEF B
    <3>. QED
      BY <2>1, <3>1, <3>2 DEF Kept, SameAim, SameLists, Looked, Plays
  <2>3. Looked(w, c) => Looked(v, c)
    BY <1>2 DEF Looked, Kept, Plays
  <2>4. v[c].refs - w[c].refs = (B(v[c].listed) - B(w[c].listed)) + (v[c].freed - w[c].freed)
    <3>1. B(v[c].listed) = 0 /\ B(w[c].listed) = 1
      BY <1>2 DEF B
    <3>2. w[c].refs \in Int /\ w[c].freed \in Int
      BY <2>1
    <3>3. v[c].refs = w[c].refs /\ v[c].freed = w[c].freed + 1
      BY <1>2
    <3>4. v[c].refs - w[c].refs = 0 /\ v[c].freed - w[c].freed = 1
      BY <3>2, <3>3
    <3>. DEFINE i == B(v[c].listed)
                j == B(w[c].listed)
                g == v[c].freed - w[c].freed
    <3>5. i = 0 /\ j = 1 /\ g = 1
      BY <3>1, <3>4
    <3>. HIDE DEF i, j, g
    <3>6. (i - j) + g = 0
      BY <3>5
    <3>. QED
      BY <3>4, <3>6 DEF i, j, g
  <2>. QED
    BY <1>2, <1>3, <2>2, <2>3, <2>4 DEF Booked
<1>. QED
  BY <1>2, <1>4, BookedSound DEF v

-----------------------------------------------------------------------------
(* Thinking. *)

Calm(w, e) == Sound(w, e, {}, {}, {}, {})

LEMMA CalmIs ==
    ASSUME NEW w, NEW e, NEW E, E = {}
    PROVE  Calm(w, e) <=> Sound(w, e, E, E, E, E)
BY DEF Calm

LEMMA ToldCalm ==
    ASSUME NEW w, NEW v, NEW D \in SUBSET Creature, NEW e, Told(w, v, None, D), Calm(w, e)
    PROVE  Calm(v, e)
<1>. DEFINE E == {}
<1>1. E = {}
  OBVIOUS
<1>. HIDE DEF E
<1>. QED
  BY <1>1, CalmIs, ToldSound

LEMMA CalmWorld ==
    ASSUME NEW w, NEW e, Calm(w, e)
    PROVE  /\ w \in World /\ w \in Things /\ Ranked(w) /\ Clean(w)
           /\ \A a \in InGame(w) : \A d \in {w[a].attacked, w[a].follow} : d = None \/ (Plays(w, d) /\ Sees(w, a, d))
           /\ \A a \in InGame(w) : w[a].master # None => Plays(w, w[a].master) /\ a \in w[w[a].master].summons
BY WorldIsThings DEF Calm, Sound, AimsBut, MastersBut

LEMMA FollowTold ==
    ASSUME NEW w \in World, NEW a \in Creature, w[a].at # "none", NEW c \in Creature \cup {None},
           c # None /\ Plays(w, a) => Plays(w, c)
    PROVE  Told(w, SetFollow(w, a, c), None, Creature)
<1>. DEFINE D == Creature
            x == w[a].attacked
            y == IF c # None /\ Sees(w, a, c) THEN c ELSE None
            u == [w EXCEPT ![a].attacked = x, ![a].follow = y]
<1>1. w \in Things
  BY WorldIsThings
<1>2. x \in {w[a].attacked} \cup MayAim(w, a, D) /\ y \in {w[a].follow} \cup MayAim(w, a, D)
  BY DEF MayAim
<1>4. SetFollow(w, a, c) = [w EXCEPT ![a].follow = y]
  BY DEF SetFollow
<1>. HIDE DEF y
<1>5. SetFollow(w, a, c) = u
  BY <1>1, <1>4 DEF Things, Thing
<1>6. D \subseteq Creature
  OBVIOUS
<1>. HIDE DEF x, D
<1>7. Told(w, u, None, D)
  BY <1>2, <1>6, AimsTold
<1>. HIDE DEF u
<1>. QED
  BY <1>5, <1>7 DEF D

LEMMA ThoughtsCalm ==
    ASSUME NEW w, NEW e, Calm(w, e), NEW m \in Monster, w[m].at # "none", NEW u \in Thoughts(w, m)
    PROVE  Calm(u, e) /\ u[m].at # "none" /\ Passes(w, u)
<1>. DEFINE v == UpdateIdleStatus(w, m)
            a == w[m].master
            D == Creature
<1>d. D \in SUBSET Creature
  OBVIOUS
<1>. HIDE DEF D
<1>1. m \in Creature /\ w \in World /\ w \in Things
  BY MonsterIs, CalmWorld
<1>2. Told(w, v, None, {})
  BY <1>1, UpdateIdleStatusTold DEF IdleIsUpdated
<1>. DEFINE F == {}
<1>. HIDE DEF v
<1>3. Calm(v, e)
  <2>1. Told(w, v, None, F) /\ F \in SUBSET Creature
    BY <1>2
  <2>. HIDE DEF F
  <2>. QED
    BY <2>1, ToldCalm
<1>4. /\ v \in World /\ v \in Things /\ v[m].at # "none" /\ v[m].master = a
      /\ v[m].attacked \in Creature \cup {None} /\ a \in Creature \cup {None}
      /\ \A c \in {v[m].attacked, v[m].master} : c # None /\ Plays(v, m) => Plays(v, c)
  <2>1. v \in World /\ v \in Things /\ v[m].at # "none" /\ v[m].master = a
    BY <1>1, <1>2, WorldIsThings DEF Told, Framed, SamePlace
  <2>2. v[m].attacked \in Creature \cup {None} /\ a \in Creature \cup {None}
    BY <1>1, <2>1 DEF Things, Thing
  <2>3. \A c \in {v[m].attacked, v[m].master} : c # None /\ Plays(v, m) => Plays(v, c)
    BY <1>1, <1>3, CalmWorld DEF InGame
  <2>. QED
    BY <2>1, <2>2, <2>3
<1>5. \A c : Told(v, SelectTarget(v, m, c), None, D)
  BY <1>4, SelectTargetTold DEF D
<1>6. \A c \in {v[m].attacked, v[m].master} : Told(v, SetFollow(v, m, c), None, D)
  BY <1>1, <1>4, FollowTold DEF D
<1>7. Told(v, v, None, D)
  BY <1>4, ToldNothing
<1>8. Told(v, SetFollow(v, m, None), None, D)
  <2>. DEFINE n == None
  <2>1. n \in Creature \cup {None} /\ ~(n # None)
    OBVIOUS
  <2>. HIDE DEF n
  <2>2. Told(v, SetFollow(v, m, n), None, D)
    BY <1>1, <1>4, <2>1, FollowTold DEF D
  <2>. QED
    BY <2>2 DEF n
<1>9. u \in {v} \cup {SetFollow(v, m, c) : c \in {v[m].attacked, v[m].master, None}}
           \cup {SelectTarget(v, m, c) : c \in Creature \cup {v[a].attacked}}
  <2>1. v[m].targets \subseteq Creature
    BY <1>1, <1>4, ListsOf
  <2>. QED
    BY <1>4, <2>1 DEF Thoughts, v
<1>10. Told(v, u, None, D)
  BY <1>5, <1>6, <1>7, <1>8, <1>9
<1>11. Calm(u, e)
  BY <1>3, <1>10, <1>d, ToldCalm
<1>12. u[m].at # "none"
  BY <1>1, <1>4, <1>10 DEF Told, Framed, SamePlace
<1>13. Passes(w, u)
  BY <1>2, <1>10, ToldPasses, PassesTwice
<1>. QED
  BY <1>11, <1>12, <1>13

LEMMA GivesUpCalm ==
    ASSUME NEW w, NEW e, Calm(w, e), NEW m \in Monster, w[m].at # "none", NEW v \in GivesUp(w, m)
    PROVE  Calm(v, e) /\ Passes(w, v)
<1>. DEFINE c == w[m].follow
            g == {c}
            F == w[m].friends
            T == w[m].targets \ g
            t == UnRef(w, c)
            z == {}
<1>1. m \in Creature /\ w \in World /\ w \in Things
  BY MonsterIs, CalmWorld
<1>2. CASE v = w
  BY <1>2 DEF Passes
<1>3. CASE v # w
  <2>1. c \in w[m].targets /\ IsSummon(w, m) /\ v = [t EXCEPT ![m].targets = @ \ g]
    BY <1>3 DEF GivesUp
  <2>2. /\ w[m].targets \in SUBSET Creature /\ F \in SUBSET Creature
        /\ \A d \in w[m].targets \cup F : d \in Creature /\ w[d].at # "none"
    BY <1>1, ListsOf
  <2>3. c \in Creature /\ T \in SUBSET Creature /\ g \in SUBSET Creature /\ z \in SUBSET Creature
    BY <2>1, <2>2
  <2>4. Counted(w, t, g, -1)
    BY <1>1, <2>3, OneMore
  <2>5. t \in Things /\ t[m].friends = F /\ t[m].targets = w[m].targets
    BY <1>1, <2>4 DEF Counted, Plus, SameLists
  <2>6. Counted(w, w, z, -1)
    BY <1>1, CountedNone
  <2>7. Fits(w, m, F, T, z, g, -1)
    BY <2>1, <2>2 DEF Fits, B
  <2>. HIDE DEF t, g, F, z
  <2>8. v = WithLists(t, m, F, T)
    BY <1>1, <2>1, <2>5 DEF WithLists, Things, Thing
  <2>. HIDE DEF T
  <2>9. Enlisted(w, v, m, F, T)
    BY <1>1, <2>2, <2>3, <2>4, <2>6, <2>7, <2>8, ListsChange
  <2>10. Told(w, v, None, z)
    BY <1>1, <2>1, <2>9, EnlistedTold DEF Wakes, z
  <2>. QED
    BY <2>3, <2>10, ToldCalm, ToldPasses
<1>. QED
  BY <1>2, <1>3

\* Monster::onDeath, Player::onDeath.
LEMMA DeathSound ==
    ASSUME NEW w, NEW e, NEW X, NEW Y, NEW M, NEW P, Sound(w, e, X, Y, M, P),
           NEW c \in Creature, w[c].at # "none", ~w[c].alive
    PROVE  Sound(Death(w, c), e, X, Y, M, P) /\ Passes(w, Death(w, c))
<1>. DEFINE a == w[c].master
            v == IF a = None THEN w ELSE RemoveSummon(w, a, c)
            u == DestroySummons(v, c)
            x == ClearLists(u, c)
            z == SetAttacked(x, c, None)
            r == IF c \in Player THEN v ELSE z
<1>0. w \in World /\ w \in Things /\ Ranked(w) /\ Clean(w)
  BY WorldIsThings DEF Sound
<1>1. Sound(v, e, X, Y, M, P) /\ ~v[c].alive /\ v[c].at # "none" /\ SameSpots(w, v)
  <2>1. CASE a = None
    BY <2>1 DEF SameSpots
  <2>2. CASE a # None
    <3>1. a \in Creature
      BY <1>0, <2>2 DEF Things, Thing
    <3>2. Sound(RemoveSummon(w, a, c), e, X, Y, M, P)
      BY <3>1, ReleaseSound
    <3>3. CASE c \in w[a].summons
      <4>1. Released(w, RemoveSummon(w, a, c), a, c)
        BY <1>0, <3>1, <3>3, RemoveSummonIs
      <4>. QED
        BY <2>2, <3>2, <4>1 DEF Released, SameSelf, SameSpots
    <3>4. CASE c \notin w[a].summons
      BY <2>2, <3>2, <3>4 DEF RemoveSummon, SameSpots
    <3>. QED
      BY <3>3, <3>4
  <2>. QED
    BY <2>1, <2>2
<1>. HIDE DEF v
<1>2. Sound(u, e, X, Y, M, P) /\ u[c].at # "none" /\ ~u[c].alive /\ SameSpots(v, u)
  BY <1>1, DestroySummonsSound DEF Leads, SameSpots
<1>. HIDE DEF u
<1>3. Sound(x, e, X, Y, M, P) /\ x[c].at # "none" /\ Framed(u, x)
  BY <1>2, ClearedSound DEF Framed, SamePlace
<1>. HIDE DEF x
<1>4. Sound(z, e, X, Y, M, P) /\ Passes(x, z)
  <2>1. Told(x, z, None, Creature)
    BY <1>3, SetAttackedTold DEF Target, Sound
  <2>. QED
    BY <1>3, <2>1, ToldSound, ToldPasses
<1>. HIDE DEF z
<1>5. Sound(r, e, X, Y, M, P) /\ Passes(w, r)
  <2>1. Passes(w, v) /\ Passes(v, u) /\ Passes(u, x)
    BY <1>1, <1>2, <1>3, LeadsPasses, FramedPasses
  <2>2. Passes(w, z)
    BY <1>4, <2>1, PassesTwice
  <2>. QED
    BY <1>1, <1>4, <2>1, <2>2
<1>6. Death(w, c) = RemoveCreature(r, c)
  BY DEF Death, r, z, x, u, v
<1>. HIDE DEF r
<1>7. Sound(RemoveCreature(r, c), e, X, Y, M, P) /\ Departs(r, RemoveCreature(r, c), {c} \cup r[c].summons)
  BY <1>5, RemoveCreatureSound
<1>8. Passes(r, RemoveCreature(r, c))
  BY <1>7, DepartsPasses
<1>. QED
  BY <1>5, <1>6, <1>7, <1>8, PassesTwice

-----------------------------------------------------------------------------
(* Placement. *)

\* c, who was nobody, is placed at x, as a summon of a or as nobody's.
Placed(w, v, c, x, a) ==
    /\ v[c].at = "game" /\ v[c].spot = x /\ v[c].master = a /\ v[c].refs = IF a = None THEN 1 ELSE 2
    /\ v[c].freed = 0 /\ ~v[c].listed /\ v[c].alive /\ ~v[c].spawn
    /\ v[c].attacked = None /\ v[c].follow = None
    /\ v[c].targets = {} /\ v[c].friends = {} /\ v[c].summons = {}
    /\ \A b \in Creature \ {c} :
          /\ v[b].at = w[b].at /\ v[b].spot = w[b].spot /\ v[b].alive = w[b].alive /\ v[b].master = w[b].master
          /\ SameAim(w[b], v[b]) /\ SameMind(w[b], v[b]) /\ SameLists(w[b], v[b])
          /\ v[b].refs = w[b].refs /\ v[b].freed = w[b].freed /\ v[b].spawn = w[b].spawn
          /\ (b # a => v[b].summons = w[b].summons)
    /\ (a # None => v[a].summons = w[a].summons \cup {c})
    /\ \A b \in Creature \ {c} :
          /\ w[b].at = "none" => v[b] = w[b]

Concerns(c, R) == \A m \in Monster, p \in Player : c \in {m, p} => <<m, p>> \in R

LEMMA PlacedSound ==
    ASSUME NEW w, NEW e, Calm(w, e), NEW c \in Creature, w[c].at = "none", NEW x \in Spot,
           NEW a \in Creature \cup {None}, a # None => Plays(w, a) /\ ~IsSummon(w, a) /\ c \in Monster,
           NEW v \in Things, Placed(w, v, c, x, a), NEW X, c \in X, NEW R, Concerns(c, R), NEW E, E = {}
    PROVE  Sound(v, e, X, E, E, R)
<1>. USE DEF Sound
<1>1. /\ w \in World /\ w \in Things /\ Ranked(w) /\ Clean(w)
      /\ CountedWith(w, e) /\ LookedBut(w, E) /\ AwakeBut(w, E)
  BY CalmWorld, CalmIs
<1>2. w[c] = Nothing /\ a # c /\ c # None
  BY <1>1, CreaturesAssumption DEF Clean, Plays
<1>3. \A b \in Creature : c \notin w[b].targets /\ c \notin w[b].friends /\ c \notin w[b].summons
  BY <1>1 DEF World
<1>4. \A b \in Creature : SameLists(w[b], v[b])
  <2>1. SameLists(w[c], v[c])
    BY <1>2, NothingIs DEF Placed, SameLists
  <2>2. \A b \in Creature \ {c} : SameLists(w[b], v[b])
    BY DEF Placed
  <2>. QED
    BY <2>1, <2>2
<1>5. \A b \in Creature : w[b].summons \subseteq v[b].summons /\ v[b].summons \subseteq w[b].summons \cup {c}
  <2>1. w[c].summons = v[c].summons
    BY <1>2, NothingIs DEF Placed
  <2>2. ASSUME NEW b \in Creature \ {c}
        PROVE  w[b].summons \subseteq v[b].summons /\ v[b].summons \subseteq w[b].summons \cup {c}
    <3>1. b # a => v[b].summons = w[b].summons
      BY DEF Placed
    <3>2. a # None => v[a].summons = w[a].summons \cup {c}
      BY DEF Placed
    <3>3. b # None
      BY CreaturesAssumption
    <3>. QED
      BY <3>1, <3>2, <3>3
  <2>. QED
    BY <2>1, <2>2
<1>6. \A b \in Creature : Plays(v, b) <=> Plays(w, b) \/ b = c
  BY DEF Placed, Plays
<1>7. v \in World
  <2>1. ASSUME NEW b \in Creature, NEW d \in Creature, d \in v[b].targets \cup v[b].friends \cup v[b].summons
        PROVE  v[d].at # "none"
    <3>1. CASE d = c
      BY <3>1 DEF Placed
    <3>2. CASE d # c
      <4>1. d \in w[b].targets \cup w[b].friends \cup w[b].summons
        BY <1>4, <1>5, <2>1, <3>2 DEF SameLists
      <4>2. w[d].at # "none"
        BY <1>1, <4>1 DEF World
      <4>. QED
        BY <3>2, <4>2 DEF Placed
    <3>. QED
      BY <3>1, <3>2
  <2>2. \A p \in Player : v[p].targets = {} /\ v[p].friends = {}
    BY <1>1, <1>4, PlayerIs DEF World, SameLists
  <2>. QED
    BY <2>1, <2>2 DEF World
<1>8. Ranked(v)
  <2>1. ASSUME NEW b \in Creature, NEW d \in v[b].summons
        PROVE  v[d].master = b
    <3>1. CASE d = c
      <4>1. b = a
        BY <1>2, <1>3, <3>1 DEF Placed
      <4>. QED
        BY <3>1, <4>1 DEF Placed
    <3>2. CASE d # c
      <4>1. d \in w[b].summons
        BY <1>5, <3>2
      <4>2. d \in Creature /\ w[d].master = b
        BY <1>1, <4>1, OneMaster
      <4>. QED
        BY <3>2, <4>2 DEF Placed
    <3>. QED
      BY <3>1, <3>2
  <2>2. ASSUME NEW b \in Creature, v[b].master # None
        PROVE  b \in Monster /\ v[b].summons = {}
    <3>1. CASE b = c
      BY <2>2, <3>1 DEF Placed
    <3>2. CASE b # c
      <4>1. w[b].master # None /\ b # a
        <5>1. w[b].master # None
          BY <2>2, <3>2 DEF Placed
        <5>2. b # None
          BY CreaturesAssumption
        <5>. QED
          BY <5>1, <5>2 DEF IsSummon
      <4>. QED
        BY <1>1, <3>2, <4>1 DEF Placed, Ranked
    <3>. QED
      BY <3>1, <3>2
  <2>. QED
    BY <2>1, <2>2 DEF Ranked
<1>9. Clean(v)
  BY <1>1 DEF Clean, Placed
<1>10. CountedWith(v, e)
  <2>1. \A b \in Creature : Excess(v, b) = Excess(w, b) + Shift(w, v, b) /\ Excess(w, b) \in Int
    BY <1>1, <1>4, MonsterIs, ExcessShifts
  <2>2. Shift(w, v, c) = 0
    <3>1. /\ w[c].refs = 0 /\ w[c].freed = 0 /\ ~w[c].listed /\ ~Plays(w, c) /\ ~Serves(w, c)
          /\ v[c].freed = 0 /\ ~v[c].listed /\ Plays(v, c)
      BY <1>2, <1>3, NothingIs DEF Plays, Serves, Placed
    <3>2. CASE a = None
      <4>1. ~Serves(v, c) /\ v[c].refs = 1
        BY <1>2, <1>3, <3>2, CreaturesAssumption DEF Serves, Placed
      <4>. QED
        BY <3>1, <4>1 DEF Shift, B
    <3>3. CASE a # None
      <4>1. c \in v[a].summons /\ v[c].refs = 2
        BY <1>2, <3>3 DEF Placed
      <4>2. Serves(v, c)
        BY <3>3, <4>1 DEF Serves
      <4>. QED
        BY <3>1, <4>1, <4>2 DEF Shift, B
    <3>. QED
      BY <3>2, <3>3
  <2>3. ASSUME NEW b \in Creature \ {c}
        PROVE  Shift(w, v, b) = 0
    <3>1. /\ v[b].listed = w[b].listed /\ (Plays(v, b) <=> Plays(w, b)) /\ (Serves(v, b) <=> Serves(w, b))
          /\ v[b].refs = w[b].refs /\ v[b].freed = w[b].freed
      BY <1>5, <1>6 DEF Placed, SameMind, Serves
    <3>2. w[b].refs \in Int /\ w[b].freed \in Int
      BY <1>1 DEF Things, Thing
    <3>. QED
      BY <3>1, <3>2 DEF Shift, B
  <2>. QED
    BY <1>1, <2>1, <2>2, <2>3 DEF CountedWith
<1>11. LookedBut(v, X)
  BY <1>1, <1>6 DEF LookedBut, Looked, Placed, SameMind
<1>12. AimsBut(v, E)
  <2>. SUFFICES ASSUME NEW b \in InGame(v), NEW d \in {v[b].attacked, v[b].follow}, d # None
                PROVE  Plays(v, d) /\ Sees(v, b, d)
    BY DEF AimsBut
  <2>1. b \in Creature /\ b # c /\ b \in InGame(w) /\ d \in {w[b].attacked, w[b].follow}
    BY <1>6 DEF InGame, Placed, SameAim
  <2>2. Plays(w, d) /\ Sees(w, b, d)
    BY <2>1, CalmWorld
  <2>3. d \in Creature /\ d # c
    BY <1>1, <2>1, <2>2 DEF Things, Thing, Plays
  <2>. QED
    BY <1>6, <2>1, <2>2, <2>3 DEF Placed, Sees
<1>13. MastersBut(v, E)
  <2>. SUFFICES ASSUME NEW b \in InGame(v), v[b].master # None
                PROVE  Plays(v, v[b].master) /\ b \in v[v[b].master].summons
    BY DEF MastersBut
  <2>1. CASE b = c
    <3>1. v[b].master = a /\ a # None
      BY <2>1 DEF Placed
    <3>. QED
      BY <1>2, <1>6, <2>1, <3>1 DEF Placed
  <2>2. CASE b # c
    <3>1. b \in Creature /\ b \in InGame(w) /\ v[b].master = w[b].master
      BY <1>6, <2>2 DEF InGame, Placed
    <3>2. w[b].master \in Creature
      BY <1>1, <3>1 DEF Things, Thing
    <3>3. Plays(w, w[b].master) /\ b \in w[w[b].master].summons
      BY <3>1, CalmWorld
    <3>. QED
      BY <1>5, <1>6, <3>1, <3>2, <3>3
  <2>. QED
    BY <2>1, <2>2
<1>14. AwakeBut(v, R)
  <2>. SUFFICES ASSUME NEW m \in Monster, NEW p \in Player, <<m, p>> \notin R
                PROVE  Woken(v, m, p)
    BY DEF AwakeBut
  <2>1. m \in Creature /\ p \in Creature /\ m # c /\ p # c
    BY MonsterIs, PlayerIs DEF Concerns
  <2>2. Woken(w, m, p)
    BY <1>1 DEF AwakeBut
  <2>. QED
    BY <1>6, <2>1, <2>2 DEF Woken, Wakes, Sees, IsSummon, Placed, SameMind, SameLists
<1>. QED
  BY <1>7, <1>8, <1>9, <1>10, <1>11, <1>12, <1>13, <1>14

AllAppear(w, S, c) == Each(w, S, LAMBDA u, s : Appear(u, s, c))

\* s, who was told, minds c if c is a player, and is awake if s is c.
Knows(w, s, c) ==
    s \in Monster => (s = c => \A p \in Player : Woken(w, s, p)) /\ (c \in Player => Woken(w, s, c))

LEMMA KnowsStays ==
    ASSUME NEW w, NEW v, NEW D, NEW s \in Creature, NEW c \in Creature, Told(w, v, None, D), Knows(w, s, c)
    PROVE  Knows(v, s, c)
BY CreaturesAssumption DEF Told, Awake, Knows, Creature

LEMMA AllAppearTold ==
    ASSUME NEW w \in World, NEW c \in Creature, w[c].at # "none",
           NEW S \in SUBSET Creature, \A s \in S : w[s].at # "none"
    PROVE  LET v == AllAppear(w, S, c)
           IN  Told(w, v, None, {}) /\ \A s \in S : Knows(v, s, c)
<1>. DEFINE Done(u, k) == Told(w, u, None, {}) /\ \A j \in 1 .. k : Order[j] \in S => Knows(u, Order[j], c)
            N == Len(Order)
            Then(u, k) == IF Order[k] \in S THEN Appear(u, Order[k], c) ELSE u
            G == [k \in 0 .. N |-> {u \in World : Done(u, k)}]
            step == [k \in 1 .. N |-> [u \in World |-> Then(u, k)]]
            after[i \in 0 .. N] == IF i = 0 THEN w ELSE Then(after[i - 1], i)
<1>n. N \in Nat /\ G \in [0 .. N -> SUBSET World]
  BY Orders
<1>z. Told(w, w, None, {})
  BY ToldNothing
<1>b. w \in G[0]
  BY <1>n, <1>z
<1>s. ASSUME NEW k \in 1 .. N, NEW u \in G[k - 1]
      PROVE  Then(u, k) \in G[k] /\ u \in World
  <2>1. k \in 0 .. N /\ k - 1 \in 0 .. N /\ Order[k] \in Creature
    BY <1>n, Orders
  <2>2. u \in World /\ Done(u, k - 1)
    BY <2>1
  <2>3. ASSUME Order[k] \in S
        PROVE  Done(Then(u, k), k)
    <3>. DEFINE s == Order[k]
                v == Appear(u, s, c)
    <3>1. s \in Creature /\ u[s].at # "none" /\ u[c].at # "none"
      BY <2>1, <2>2, <2>3 DEF Told, Framed, SamePlace
    <3>. HIDE DEF s
    <3>2. Told(u, v, None, {}) /\ Knows(v, s, c)
      BY <2>2, <3>1, AppearTold DEF Knows
    <3>. HIDE DEF v
    <3>3. Told(w, v, None, {})
      BY <2>2, <3>2, ToldTwice
    <3>4. ASSUME NEW j \in 1 .. k, Order[j] \in S
          PROVE  Knows(v, Order[j], c)
      <4>1. CASE j = k
        BY <3>2, <4>1 DEF s
      <4>2. CASE j # k
        <5>1. Knows(u, Order[j], c)
          BY <1>n, <2>2, <3>4, <4>2
        <5>2. Order[j] \in Creature
          BY <3>4
        <5>. QED
          BY <3>2, <5>1, <5>2, KnowsStays
      <4>. QED
        BY <4>1, <4>2
    <3>5. Then(u, k) = v
      BY <2>3 DEF v, s
    <3>. QED
      BY <3>3, <3>4, <3>5
  <2>4. ASSUME Order[k] \notin S
        PROVE  Done(Then(u, k), k)
    <3>1. \A j \in 1 .. k : Order[j] \in S => j \in 1 .. k - 1
      BY <1>n, <2>4
    <3>. QED
      BY <2>2, <2>4, <3>1
  <2>5. Done(Then(u, k), k)
    BY <2>3, <2>4
  <2>. QED
    <3>. HIDE DEF Then
    <3>. QED  BY <2>1, <2>2, <2>5 DEF Told
<1>1. \A k \in 1 .. N : \A u \in G[k - 1] : step[k][u] \in G[k]
  <2>. HIDE DEF G, Then
  <2>. QED  BY <1>s
<1>. HIDE DEF G
<1>2. PICK h \in [0 .. N -> World] : Repeats(h, N, w, step) /\ \A k \in 0 .. N : h[k] \in G[k]
  <2>. HIDE DEF step, N
  <2>. QED  BY <1>n, <1>b, <1>1, Repeated
<1>3. h = [i \in 0 .. N |-> IF i = 0 THEN w ELSE Then(h[i - 1], i)]
  <2>. HIDE DEF Then
  <2>1. ASSUME NEW i \in 1 .. N
        PROVE  h[i] = Then(h[i - 1], i)
    <3>1. i - 1 \in 0 .. N
      BY <1>n
    <3>2. h[i - 1] \in World
      BY <1>2, <3>1
    <3>. QED
      BY <1>2, <3>2 DEF Repeats
  <2>. HIDE DEF step, N
  <2>. QED
    BY <1>n, <1>2, <2>1 DEF Repeats
<1>4. after = [i \in 0 .. N |-> IF i = 0 THEN w ELSE Then(after[i - 1], i)]
  <2>. HIDE DEF step, Then, N
  <2>. QED  BY <1>3
<1>5. AllAppear(w, S, c) = IF S = {} THEN w ELSE after[N]
  BY DEF AllAppear, Each
<1>. HIDE DEF after, Then
<1>6. after[N] \in G[N]
  <2>. DEFINE T == {k \in 0 .. N : after[k] \in G[k]}
  <2>1. 0 \in T
    BY <1>n, <1>b, <1>4
  <2>2. \A k \in 1 .. N : k - 1 \in T => k \in T
    BY <1>n, <1>s, <1>4
  <2>3. \A k \in 0 .. N : k \in T
    <3>. HIDE DEF T, N
    <3>. QED  BY <1>n, <2>1, <2>2, UpTo
  <2>. QED
    BY <1>n, <2>3
<1>7. Done(after[N], N)
  BY <1>n, <1>6 DEF G
<1>8. \A v : Done(v, N) => \A s \in S : Knows(v, s, c)
  BY Orders
<1>. QED
  BY <1>z, <1>5, <1>7, <1>8

\* Who is placed is in the vector, and those who see him know.
LEMMA PlaceCalm ==
    ASSUME NEW w, NEW e, Calm(w, e), NEW c \in Creature, w[c].at = "none", NEW x \in Spot,
           NEW a \in Creature \cup {None}, a # None => Plays(w, a) /\ ~IsSummon(w, a) /\ c \in Monster,
           NEW v \in Things, Placed(w, v, c, x, a),
           NEW u, u = AddCheck(AllAppear(v, Spectators(v, x), c), c)
    PROVE  Calm(u, e) /\ u[c].at = "game" /\ Framed(v, u)
<1>. DEFINE E == {}
            X == {c}
            R == {q \in Monster \X Player : c \in {q[1], q[2]}}
            S == Spectators(v, x)
            t == AllAppear(v, S, c)
<1>e. E = {} /\ c \in X /\ Concerns(c, R) /\ E \in SUBSET Creature
  BY DEF Concerns
<1>. HIDE DEF E, X, R
<1>1. Sound(v, e, X, E, E, R)
  BY <1>e, PlacedSound
<1>2. v \in World /\ v[c].at = "game" /\ v[c].spot = x
  BY <1>1 DEF Sound, Placed
<1>3. S \in SUBSET Creature /\ \A s \in S : v[s].at # "none"
  BY DEF Spectators, Plays
<1>. HIDE DEF S
<1>4. Told(v, t, None, E) /\ \A s \in S : Knows(t, s, c)
  BY <1>2, <1>3, AllAppearTold DEF E
<1>. HIDE DEF t
<1>5. Sound(t, e, X, E, E, R)
  BY <1>1, <1>4, <1>e, ToldSound
<1>6. AwakeBut(t, E)
  <2>. SUFFICES ASSUME NEW m \in Monster, NEW p \in Player, Wakes(t, m, p)
                PROVE  Woken(t, m, p)
    BY DEF AwakeBut, Woken
  <2>1. m \in Creature /\ p \in Creature
    BY MonsterIs, PlayerIs
  <2>2. CASE <<m, p>> \notin R
    BY <1>5, <2>2 DEF Sound, AwakeBut
  <2>3. CASE <<m, p>> \in R
    <3>1. Wakes(v, m, p)
      BY <1>4, <2>1, FramedSame DEF Told
    <3>2. c \in {m, p} /\ Plays(v, m) /\ Sees(v, m, p)
      BY <2>3, <3>1 DEF R, Wakes
    <3>3. m \in S
      <4>1. Near(v[m].spot, x)
        <5>1. v \in Things
          BY <1>2, WorldIsThings
        <5>. QED
          BY <1>2, <2>1, <3>2, <5>1, SeesBoth DEF Sees
      <4>. QED
        BY <2>1, <3>2, <4>1 DEF S, Spectators
    <3>4. Knows(t, m, c)
      BY <1>4, <3>3
    <3>. QED
      BY <3>2, <3>4 DEF Knows
  <2>. QED
    BY <2>2, <2>3
<1>7. Sound(t, e, X, E, E, E) /\ t \in World
  BY <1>5, <1>6 DEF Sound
<1>8. t[c].at = "game"
  BY <1>2, <1>4 DEF Told, Framed, SamePlace
<1>9. Changed(t, u, c) /\ SameLists(t[c], u[c]) /\ u[c].idle = t[c].idle /\ u[c].listed /\ u[c].checked
  BY <1>7, <1>8, AddCheckChanges DEF t, S
<1>. HIDE DEF E
<1>10. Told(t, u, None, E)
  <2>1. Looked(t, c) => Looked(u, c)
    BY <1>9 DEF Looked
  <2>2. \A p \in Player : Woken(t, c, p) /\ Wakes(t, c, p) => p \in u[c].targets /\ ~u[c].idle
    BY <1>9 DEF Woken, SameLists
  <2>. QED
    BY <1>7, <1>9, <2>1, <2>2, ChangedTold DEF E
<1>11. Sound(u, e, X, E, E, E)
  BY <1>7, <1>10, <1>e, ToldSound
<1>12. LookedBut(u, E)
  BY <1>9, <1>11 DEF Sound, LookedBut, Looked, X
<1>13. Sound(u, e, E, E, E, E)
  BY <1>11, <1>12 DEF Sound
<1>14. u[c].at = "game" /\ Framed(v, u)
  BY <1>4, <1>8, <1>10 DEF Told, Framed, SamePlace
<1>. QED
  BY <1>e, <1>13, <1>14, CalmIs

Settled(w, c, x) == [w EXCEPT ![c].at = "game", ![c].spot = x]

LEMMA SettledIs ==
    ASSUME NEW w \in Things, NEW c \in Creature, NEW x \in Spot, NEW v, v = Settled(w, c, x)
    PROVE  /\ v \in Things /\ v[c].at = "game" /\ v[c].spot = x
           /\ v[c].spawn = w[c].spawn /\ v[c].alive = w[c].alive /\ v[c].master = w[c].master /\ v[c].summons = w[c].summons
           /\ SameAim(w[c], v[c]) /\ SameMind(w[c], v[c]) /\ SameLists(w[c], v[c])
           /\ v[c].refs = w[c].refs /\ v[c].freed = w[c].freed /\ \A b \in Creature \ {c} : v[b] = w[b]
<1>. DEFINE u == [w EXCEPT ![c].at = "game"]
<1>1. /\ u \in Things /\ u[c].at = "game"
      /\ u[c].spawn = w[c].spawn /\ u[c].alive = w[c].alive /\ u[c].master = w[c].master /\ u[c].summons = w[c].summons
      /\ SameAim(w[c], u[c]) /\ SameMind(w[c], u[c]) /\ SameLists(w[c], u[c])
      /\ u[c].refs = w[c].refs /\ u[c].freed = w[c].freed /\ \A b \in Creature \ {c} : u[b] = w[b]
  BY DEF Things, Thing, SameAim, SameMind, SameLists
<1>2. v = [u EXCEPT ![c].spot = x]
  BY DEF Settled
<1>. HIDE DEF u
<1>3. /\ v \in Things /\ v[c].at = u[c].at /\ v[c].spot = x
      /\ v[c].spawn = u[c].spawn /\ v[c].alive = u[c].alive /\ v[c].master = u[c].master /\ v[c].summons = u[c].summons
      /\ SameAim(u[c], v[c]) /\ SameMind(u[c], v[c]) /\ SameLists(u[c], v[c])
      /\ v[c].refs = u[c].refs /\ v[c].freed = u[c].freed /\ \A b \in Creature \ {c} : v[b] = u[b]
  BY <1>1, <1>2 DEF Things, Thing, SameAim, SameMind, SameLists
<1>. QED
  BY <1>1, <1>3 DEF SameAim, SameMind, SameLists

\* m serves a.
Served(w, v, a, m) ==
    /\ \A b \in Creature : SameSelf(w[b], v[b]) /\ v[b].alive = w[b].alive
    /\ \A b \in Creature \ {m} : v[b].refs = w[b].refs /\ v[b].master = w[b].master
    /\ \A b \in Creature \ {a} : v[b].summons = w[b].summons
    /\ v[m].refs = w[m].refs + 1 /\ v[m].master = a /\ v[a].summons = w[a].summons \cup {m}
    /\ \A b \in Creature \ {a, m} : v[b] = w[b]

LEMMA AddSummonIs ==
    ASSUME NEW w \in Things, NEW a \in Creature, NEW m \in Creature, a # m, NEW v, v = AddSummon(w, a, m)
    PROVE  v \in Things /\ Served(w, v, a, m)
<1>. DEFINE u == [w EXCEPT ![m].master = a]
            t == [u EXCEPT ![a].summons = @ \cup {m}]
<1>1. /\ u \in Things /\ SameSelf(w[m], u[m]) /\ u[m].alive = w[m].alive /\ u[m].refs = w[m].refs
      /\ u[m].master = a /\ u[m].summons = w[m].summons /\ \A b \in Creature \ {m} : u[b] = w[b]
  BY DEF Things, Thing, SameSelf, SameAim, SameMind, SameLists
<1>2. v = AddRef(t, m)
  BY DEF AddSummon
<1>. HIDE DEF u
<1>3. /\ t \in Things /\ SameSelf(u[a], t[a]) /\ t[a].alive = u[a].alive /\ t[a].refs = u[a].refs
      /\ t[a].master = u[a].master /\ t[a].summons = u[a].summons \cup {m} /\ \A b \in Creature \ {a} : t[b] = u[b]
  BY <1>1 DEF Things, Thing, SameSelf, SameAim, SameMind, SameLists
<1>. HIDE DEF t
<1>4. Counted(t, v, {m}, 1)
  BY <1>2, <1>3, OneMore
<1>5. /\ v \in Things /\ SameSelf(t[m], v[m]) /\ v[m].alive = t[m].alive /\ v[m].refs = t[m].refs + 1
      /\ v[m].master = t[m].master /\ v[m].summons = t[m].summons
  BY <1>4 DEF Counted, Plus, SamePlace, SameSelf
<1>6. \A b \in Creature \ {m} : v[b] = t[b]
  BY <1>4 DEF Counted, Plus
<1>7. /\ u[a] = w[a] /\ v[a] = t[a] /\ t[m] = u[m] /\ \A b \in Creature \ {a, m} : v[b] = w[b]
  BY <1>1, <1>3, <1>6
<1>8. SameSelf(w[a], v[a]) /\ v[a].alive = w[a].alive /\ v[a].refs = w[a].refs /\ v[a].master = w[a].master
  BY <1>3, <1>7
<1>9. SameSelf(w[m], v[m]) /\ v[m].alive = w[m].alive /\ v[m].refs = w[m].refs + 1 /\ v[m].summons = w[m].summons
      /\ v[m].master = a
  BY <1>1, <1>5, <1>7 DEF SameSelf, SameAim, SameMind, SameLists
<1>10. v[a].summons = w[a].summons \cup {m}
  BY <1>3, <1>7
<1>11. ASSUME NEW b \in Creature
       PROVE  /\ SameSelf(w[b], v[b]) /\ v[b].alive = w[b].alive
              /\ (b # m => v[b].refs = w[b].refs /\ v[b].master = w[b].master)
              /\ (b # a => v[b].summons = w[b].summons)
  <2>1. CASE b = a
    BY <1>8, <2>1
  <2>2. CASE b = m
    BY <1>9, <2>2
  <2>3. CASE b # a /\ b # m
    BY <1>7, <2>3 DEF SameSelf, SameAim, SameMind, SameLists
  <2>. QED
    BY <2>1, <2>2, <2>3
<1>. QED
  BY <1>5, <1>7, <1>9, <1>10, <1>11 DEF Served

\* A creature that enters, or that a spawn makes.
LEMMA EntersPlaced ==
    ASSUME NEW w \in Things, Clean(w), NEW c \in Creature, w[c].at = "none", NEW x \in Spot,
           NEW v, v = AddRef(Settled(w, c, x), c)
    PROVE  v \in Things /\ Placed(w, v, c, x, None)
<1>. DEFINE u == Settled(w, c, x)
<1>1. w[c] = Nothing /\ c # None
  BY CreaturesAssumption DEF Clean
<1>2. /\ u \in Things /\ u[c].at = "game" /\ u[c].spot = x
      /\ u[c].spawn = w[c].spawn /\ u[c].alive = w[c].alive /\ u[c].master = w[c].master /\ u[c].summons = w[c].summons
      /\ SameAim(w[c], u[c]) /\ SameMind(w[c], u[c]) /\ SameLists(w[c], u[c])
      /\ u[c].refs = w[c].refs /\ u[c].freed = w[c].freed /\ \A b \in Creature \ {c} : u[b] = w[b]
  BY SettledIs
<1>. HIDE DEF u
<1>3. Counted(u, v, {c}, 1)
  BY <1>2, OneMore DEF u
<1>4. \A b \in Creature \ {c} : v[b] = w[b]
  BY <1>2, <1>3 DEF Counted, Plus
<1>5. /\ v[c].at = "game" /\ v[c].spot = x /\ v[c].master = None /\ v[c].refs = 1 /\ v[c].freed = 0
      /\ ~v[c].listed /\ v[c].alive /\ ~v[c].spawn
      /\ v[c].attacked = None /\ v[c].follow = None /\ v[c].targets = {} /\ v[c].friends = {} /\ v[c].summons = {}
  <2>1. Plus(u[c], v[c], 1)
    BY <1>3 DEF Counted
  <2>2. /\ w[c].refs = 0 /\ w[c].freed = 0 /\ ~w[c].listed /\ ~w[c].spawn /\ w[c].alive /\ w[c].attacked = None /\ w[c].follow = None
        /\ w[c].targets = {} /\ w[c].friends = {} /\ w[c].summons = {} /\ w[c].master = None
    BY <1>1, NothingIs
  <2>3. /\ u[c].refs = 0 /\ u[c].freed = 0 /\ ~u[c].listed /\ ~u[c].spawn /\ u[c].alive /\ u[c].attacked = None /\ u[c].follow = None
        /\ u[c].targets = {} /\ u[c].friends = {} /\ u[c].summons = {} /\ u[c].master = None
    BY <1>2, <2>2 DEF SameAim, SameMind, SameLists
  <2>. QED
    BY <1>2, <2>1, <2>3 DEF Plus, SamePlace, SameAim, SameMind, SameLists
<1>. QED
  BY <1>3, <1>4, <1>5 DEF Placed, SameAim, SameMind, SameLists, Counted

\* A summon of a.
LEMMA SummonPlaced ==
    ASSUME NEW w \in Things, Clean(w), NEW a \in Creature, Plays(w, a),
           NEW c \in Creature, w[c].at = "none", NEW x \in Spot,
           NEW v, v = AddRef(Settled(AddSummon(w, a, c), c, x), c)
    PROVE  v \in Things /\ Placed(w, v, c, x, a)
<1>. DEFINE t == AddSummon(w, a, c)
            u == Settled(t, c, x)
<1>1. w[c] = Nothing /\ a # c /\ a # None
  BY CreaturesAssumption DEF Clean, Plays
<1>2. t \in Things /\ Served(w, t, a, c)
  BY <1>1, AddSummonIs
<1>. HIDE DEF t
<1>3. /\ u \in Things /\ u[c].at = "game" /\ u[c].spot = x
      /\ u[c].spawn = t[c].spawn /\ u[c].alive = t[c].alive /\ u[c].master = t[c].master /\ u[c].summons = t[c].summons
      /\ SameAim(t[c], u[c]) /\ SameMind(t[c], u[c]) /\ SameLists(t[c], u[c])
      /\ u[c].refs = t[c].refs /\ u[c].freed = t[c].freed /\ \A b \in Creature \ {c} : u[b] = t[b]
  BY <1>2, SettledIs
<1>. HIDE DEF u
<1>4. Counted(u, v, {c}, 1)
  BY <1>3, OneMore DEF u, t
<1>5. \A b \in Creature \ {c} : v[b] = t[b]
  BY <1>3, <1>4 DEF Counted, Plus
<1>6. /\ t[c].master = a /\ t[c].refs = 1 /\ t[c].freed = 0 /\ ~t[c].listed /\ ~t[c].spawn /\ t[c].alive
      /\ t[c].attacked = None /\ t[c].follow = None /\ t[c].targets = {} /\ t[c].friends = {} /\ t[c].summons = {}
  <2>1. /\ w[c].refs = 0 /\ w[c].freed = 0 /\ ~w[c].listed /\ ~w[c].spawn /\ w[c].alive /\ w[c].attacked = None /\ w[c].follow = None
        /\ w[c].targets = {} /\ w[c].friends = {} /\ w[c].summons = {}
    BY <1>1, NothingIs
  <2>2. /\ SameSelf(w[c], t[c]) /\ t[c].alive = w[c].alive /\ t[c].refs = w[c].refs + 1 /\ t[c].master = a
        /\ t[c].summons = w[c].summons
    BY <1>1, <1>2 DEF Served
  <2>. QED
    BY <2>1, <2>2 DEF SameSelf, SameAim, SameMind, SameLists
<1>7. /\ v[c].at = "game" /\ v[c].spot = x /\ v[c].master = a /\ v[c].refs = 2 /\ v[c].freed = 0
      /\ ~v[c].listed /\ v[c].alive /\ ~v[c].spawn
      /\ v[c].attacked = None /\ v[c].follow = None /\ v[c].targets = {} /\ v[c].friends = {} /\ v[c].summons = {}
  <2>1. Plus(u[c], v[c], 1)
    BY <1>4 DEF Counted
  <2>2. /\ u[c].refs = 1 /\ u[c].freed = 0 /\ ~u[c].listed /\ ~u[c].spawn /\ u[c].alive /\ u[c].attacked = None /\ u[c].follow = None
        /\ u[c].targets = {} /\ u[c].friends = {} /\ u[c].summons = {} /\ u[c].master = a
    BY <1>3, <1>6 DEF SameAim, SameMind, SameLists
  <2>. QED
    BY <1>3, <2>1, <2>2 DEF Plus, SamePlace, SameAim, SameMind, SameLists
<1>8. v[a].summons = w[a].summons \cup {c}
  BY <1>1, <1>2, <1>5 DEF Served
<1>9. ASSUME NEW b \in Creature \ {c}
      PROVE  /\ v[b].at = w[b].at /\ v[b].spot = w[b].spot /\ v[b].alive = w[b].alive /\ v[b].master = w[b].master
             /\ SameAim(w[b], v[b]) /\ SameMind(w[b], v[b]) /\ SameLists(w[b], v[b])
             /\ v[b].refs = w[b].refs /\ v[b].freed = w[b].freed /\ v[b].spawn = w[b].spawn
             /\ (b # a => v[b].summons = w[b].summons)
             /\ (w[b].at = "none" => v[b] = w[b])
  <2>1. v[b] = t[b]
    BY <1>5
  <2>2. b # a => t[b] = w[b]
    BY <1>2 DEF Served
  <2>3. w[b].at = "none" => b # a
    BY DEF Plays
  <2>. QED
    BY <1>2, <2>1, <2>2, <2>3 DEF Served, SameSelf
<1>. QED
  BY <1>1, <1>4, <1>7, <1>8, <1>9 DEF Placed, Counted

-----------------------------------------------------------------------------
(* Movement. *)

LEMMA RemoveCreaturesSound ==
    ASSUME NEW w, NEW e, NEW X, NEW Y, NEW M, NEW P, Sound(w, e, X, Y, M, P), NEW S \in SUBSET Creature
    PROVE  LET v == Each(w, S, RemoveCreature)
           IN  Sound(v, e, X, Y, M, P) /\ Departs(w, v, Creature)
<1>. DEFINE Done(u, k) == Sound(u, e, X, Y, M, P) /\ Departs(w, u, Creature)
            N == Len(Order)
            Then(u, k) == IF Order[k] \in S THEN RemoveCreature(u, Order[k]) ELSE u
            G == [k \in 0 .. N |-> {u \in World : Done(u, k)}]
            step == [k \in 1 .. N |-> [u \in World |-> Then(u, k)]]
            after[i \in 0 .. N] == IF i = 0 THEN w ELSE Then(after[i - 1], i)
<1>n. N \in Nat /\ G \in [0 .. N -> SUBSET World]
  BY Orders
<1>z. w \in World /\ Departs(w, w, Creature)
  BY DEF Sound, Departs
<1>b. w \in G[0]
  BY <1>n, <1>z
<1>s. ASSUME NEW k \in 1 .. N, NEW u \in G[k - 1]
      PROVE  Then(u, k) \in G[k] /\ u \in World
  <2>1. k \in 0 .. N /\ k - 1 \in 0 .. N /\ Order[k] \in Creature
    BY <1>n, Orders
  <2>2. u \in World /\ Done(u, k - 1)
    BY <2>1
  <2>3. ASSUME Order[k] \in S
        PROVE  Done(Then(u, k), k)
    <3>. DEFINE s == Order[k]
                v == RemoveCreature(u, s)
                D == {s} \cup u[s].summons
    <3>1. s \in Creature /\ D \subseteq Creature
      BY <2>1, <2>2, ListsOf
    <3>. HIDE DEF s
    <3>2. Sound(v, e, X, Y, M, P) /\ Departs(u, v, D)
      BY <2>2, <3>1, RemoveCreatureSound
    <3>. HIDE DEF v, D
    <3>3. Departs(w, v, Creature)
      <4>1. Creature \cup D = Creature
        BY <3>1
      <4>. QED
        BY <2>2, <3>2, <4>1, DepartsTwice
    <3>4. Then(u, k) = v
      BY <2>3 DEF v, s
    <3>. QED
      BY <3>2, <3>3, <3>4
  <2>5. Done(Then(u, k), k)
    BY <2>2, <2>3
  <2>. QED
    <3>. HIDE DEF Then
    <3>. QED  BY <2>1, <2>2, <2>5 DEF Sound
<1>1. \A k \in 1 .. N : \A u \in G[k - 1] : step[k][u] \in G[k]
  <2>. HIDE DEF G, Then
  <2>. QED  BY <1>s
<1>. HIDE DEF G
<1>2. PICK h \in [0 .. N -> World] : Repeats(h, N, w, step) /\ \A k \in 0 .. N : h[k] \in G[k]
  <2>. HIDE DEF step, N
  <2>. QED  BY <1>n, <1>b, <1>1, Repeated
<1>3. h = [i \in 0 .. N |-> IF i = 0 THEN w ELSE Then(h[i - 1], i)]
  <2>. HIDE DEF Then
  <2>1. ASSUME NEW i \in 1 .. N
        PROVE  h[i] = Then(h[i - 1], i)
    <3>1. i - 1 \in 0 .. N
      BY <1>n
    <3>2. h[i - 1] \in World
      BY <1>2, <3>1
    <3>. QED
      BY <1>2, <3>2 DEF Repeats
  <2>. HIDE DEF step, N
  <2>. QED
    BY <1>n, <1>2, <2>1 DEF Repeats
<1>4. after = [i \in 0 .. N |-> IF i = 0 THEN w ELSE Then(after[i - 1], i)]
  <2>. HIDE DEF step, Then, N
  <2>. QED  BY <1>3
<1>5. Each(w, S, RemoveCreature) = IF S = {} THEN w ELSE after[N]
  BY DEF Each
<1>. HIDE DEF after, Then
<1>6. after[N] \in G[N]
  <2>. DEFINE T == {k \in 0 .. N : after[k] \in G[k]}
  <2>1. 0 \in T
    BY <1>n, <1>b, <1>4
  <2>2. \A k \in 1 .. N : k - 1 \in T => k \in T
    BY <1>n, <1>s, <1>4
  <2>3. \A k \in 0 .. N : k \in T
    <3>. HIDE DEF T, N
    <3>. QED  BY <1>n, <2>1, <2>2, UpTo
  <2>. QED
    BY <1>n, <2>3
<1>7. Done(after[N], N)
  BY <1>n, <1>6 DEF G
<1>. QED
  BY <1>z, <1>5, <1>7

\* While those of L among the told T have still to be told that c has moved: who
\* may aim at one he does not see, and which monsters may not have met a player.
Unsure(c, T, L) == {q \in Creature \X Creature : q[1] \in T \cap L /\ c \in {q[1], q[2]}}
Unmet(w, c, T, L, old) ==
    {q \in Monster \X Player : /\ q[1] \in T \cap L
                               /\ q[1] = c \/ (q[2] = c /\ ~Near(w[q[1]].spot, old))}

Spotted(w, c, x) == [w EXCEPT ![c].spot = x]

LEMMA SpottedSound ==
    ASSUME NEW w, NEW e, Calm(w, e), NEW c \in Creature, Plays(w, c), NEW x \in Spot,
           NEW v, v = Spotted(w, c, x), NEW E, E = {},
           NEW T, T = Spectators(w, w[c].spot) \cup Spectators(v, x)
    PROVE  Sound(v, e, E, Unsure(c, T, Creature), E, Unmet(v, c, T, Creature, w[c].spot))
<1>. USE DEF Sound
<1>. DEFINE Y == Unsure(c, T, Creature)
            R == Unmet(v, c, T, Creature, w[c].spot)
<1>1. /\ w \in World /\ w \in Things /\ Ranked(w) /\ Clean(w)
      /\ CountedWith(w, e) /\ LookedBut(w, E) /\ AwakeBut(w, E) /\ MastersBut(w, E)
  BY CalmWorld, CalmIs
<1>2. /\ v \in Things /\ \A b \in Creature \ {c} : v[b] = w[b]
      /\ v[c].spot = x
      /\ v[c].at = w[c].at /\ v[c].alive = w[c].alive /\ v[c].master = w[c].master /\ v[c].summons = w[c].summons
      /\ SameAim(w[c], v[c]) /\ SameMind(w[c], v[c]) /\ SameLists(w[c], v[c])
      /\ v[c].refs = w[c].refs /\ v[c].freed = w[c].freed
  BY <1>1 DEF Spotted, Things, Thing, SameAim, SameMind, SameLists
<1>3. \A b \in Creature :
          /\ v[b].at = w[b].at /\ v[b].alive = w[b].alive /\ v[b].master = w[b].master /\ v[b].summons = w[b].summons
          /\ SameAim(w[b], v[b]) /\ SameMind(w[b], v[b]) /\ SameLists(w[b], v[b])
          /\ v[b].refs = w[b].refs /\ v[b].freed = w[b].freed
          /\ (Plays(v, b) <=> Plays(w, b)) /\ (Serves(v, b) <=> Serves(w, b))
  <2>1. \A b \in Creature :
          /\ v[b].at = w[b].at /\ v[b].alive = w[b].alive /\ v[b].master = w[b].master /\ v[b].summons = w[b].summons
          /\ SameAim(w[b], v[b]) /\ SameMind(w[b], v[b]) /\ SameLists(w[b], v[b])
          /\ v[b].refs = w[b].refs /\ v[b].freed = w[b].freed
    BY <1>2 DEF SameAim, SameMind, SameLists
  <2>. QED
    BY <2>1 DEF Plays, Serves
<1>4. v \in World
  BY <1>1, <1>2, <1>3, WorldStays
<1>5. \A b \in Creature : \A d \in w[b].summons : d \in Creature
  BY <1>1, ListsOf
<1>6. Ranked(v)
  BY <1>1, <1>3, <1>5 DEF Ranked
<1>7. Clean(v)
  BY <1>1, <1>2 DEF Clean, Plays
<1>8. CountedWith(v, e)
  <2>1. \A b \in Creature : Excess(v, b) = Excess(w, b) + Shift(w, v, b) /\ Excess(w, b) \in Int
    BY <1>1, <1>2, <1>3, MonsterIs, ExcessShifts
  <2>2. ASSUME NEW b \in Creature
        PROVE  Shift(w, v, b) = 0
    <3>1. /\ v[b].listed = w[b].listed /\ (Plays(v, b) <=> Plays(w, b)) /\ (Serves(v, b) <=> Serves(w, b))
          /\ v[b].refs = w[b].refs /\ v[b].freed = w[b].freed
      BY <1>3 DEF SameMind
    <3>2. w[b].refs \in Int /\ w[b].freed \in Int
      BY <1>1 DEF Things, Thing
    <3>. QED
      BY <3>1, <3>2 DEF Shift, B
  <2>. QED
    BY <1>1, <2>1, <2>2 DEF CountedWith
<1>9. LookedBut(v, E)
  BY <1>1, <1>3 DEF LookedBut, Looked, SameMind
<1>10. c \in T
  <2>1. Near(w[c].spot, w[c].spot)
    BY <1>1, SeesBoth DEF Sees
  <2>. QED
    BY <2>1 DEF Spectators
<1>11. AimsBut(v, Y)
  <2>. SUFFICES ASSUME NEW a \in InGame(v), NEW d \in {v[a].attacked, v[a].follow}, d # None
                PROVE  (Plays(v, d) /\ Sees(v, a, d)) \/ (<<a, d>> \in Y /\ ~Sees(v, a, d))
    BY DEF AimsBut
  <2>1. a \in Creature /\ a \in InGame(w) /\ d \in {w[a].attacked, w[a].follow}
    BY <1>3 DEF InGame, SameAim
  <2>2. Plays(w, d) /\ Sees(w, a, d)
    BY <2>1, CalmWorld
  <2>3. d \in Creature /\ Plays(v, d)
    BY <1>1, <1>3, <2>1, <2>2 DEF Things, Thing
  <2>4. CASE a # c /\ d # c
    BY <1>2, <2>1, <2>2, <2>3, <2>4 DEF Sees
  <2>5. CASE a = c
    BY <1>10, <2>3, <2>5 DEF Unsure
  <2>6. CASE d = c
    <3>1. a \in T
      BY <2>1, <2>2, <2>6 DEF Spectators, InGame, Sees
    <3>. QED
      BY <2>1, <2>3, <2>6, <3>1 DEF Unsure
  <2>. QED
    BY <2>4, <2>5, <2>6
<1>12. MastersBut(v, E)
  BY <1>1, <1>3, MastersStay
<1>13. AwakeBut(v, R)
  <2>. SUFFICES ASSUME NEW m \in Monster, NEW p \in Player, <<m, p>> \notin R, Wakes(v, m, p)
                PROVE  p \in v[m].targets /\ ~v[m].idle
    BY DEF AwakeBut, Woken
  <2>1. m \in Creature /\ p \in Creature /\ m # p
    BY MonsterIs, PlayerIs
  <2>2. m # c
    BY <1>10, <2>1 DEF Unmet
  <2>3. p = c => Near(w[m].spot, w[c].spot)
    <3>1. SUFFICES ASSUME p = c
                   PROVE  Near(w[m].spot, w[c].spot)
      OBVIOUS
    <3>2. m \in T
      <4>1. Plays(v, m) /\ Near(v[m].spot, x)
        BY <1>2, <3>1 DEF Wakes, Sees
      <4>. QED
        BY <2>1, <4>1 DEF Spectators
    <3>3. v[m].spot = w[m].spot
      BY <1>2, <2>1, <2>2
    <3>. QED
      BY <2>1, <3>1, <3>2, <3>3 DEF Unmet
  <2>4. Wakes(w, m, p)
    <3>1. Plays(w, m) /\ Plays(w, p) /\ ~IsSummon(w, m) /\ w[m].alive
      BY <1>3, <2>1 DEF Wakes, IsSummon
    <3>2. Sees(w, m, p)
      <4>1. CASE p = c
        BY <2>3, <4>1 DEF Sees
      <4>2. CASE p # c
        BY <1>2, <2>1, <2>2, <4>2 DEF Wakes, Sees
      <4>. QED
        BY <4>1, <4>2
    <3>. QED
      BY <3>1, <3>2 DEF Wakes
  <2>5. Woken(w, m, p)
    BY <1>1 DEF AwakeBut
  <2>. QED
    BY <1>3, <2>1, <2>4, <2>5 DEF Woken, SameLists, SameMind
<1>. QED
  BY <1>4, <1>6, <1>7, <1>8, <1>9, <1>11, <1>12, <1>13

\* Those of S far from c are removed with it; then s, who may be c, hears of it.
OnMove(u, s, c, old, S) ==
    LET t == Loses(IF s = c THEN Each(u, S, RemoveCreature) ELSE u, s, c)
    IN  IF s \in Player THEN t ELSE MonsterSees(t, s, c, old)

LEMMA OnMoveSound ==
    ASSUME NEW u, NEW e, NEW E, E = {}, NEW c \in Creature, NEW T, NEW L, NEW K, NEW v, NEW old,
           Sound(u, e, E, Unsure(c, T, L), E, Unmet(v, c, T, L, old)), u[c].at # "none",
           NEW s \in Creature, u[s].at # "none", u[s].spot = v[s].spot, L \ {s} \subseteq K,
           NEW S \in SUBSET Creature
    PROVE  LET t == OnMove(u, s, c, old, S)
           IN  Sound(t, e, E, Unsure(c, T, K), E, Unmet(v, c, T, K, old)) /\ Departs(u, t, Creature)
<1>. DEFINE Y == Unsure(c, T, L)
            Z == Unsure(c, T, K)
            P == Unmet(v, c, T, L, old)
            R == Unmet(v, c, T, K, old)
            f == IF s = c THEN Each(u, S, RemoveCreature) ELSE u
            l == Loses(f, s, c)
            t == OnMove(u, s, c, old, S)
            D == Creature
<1>d. E \in SUBSET Creature /\ D \in SUBSET Creature
  OBVIOUS
<1>1. \A q \in Y : q \in Z \/ (q[1] = s /\ c \in {s, q[2]})
  BY DEF Unsure
<1>2. \A q \in P : q \in R \/ (q[1] = s /\ (s = c \/ (q[2] = c /\ ~Near(v[s].spot, old))))
  BY DEF Unmet
<1>. HIDE DEF Y, Z, P, R, D
<1>3. Sound(f, e, E, Y, E, P) /\ Departs(u, f, Creature)
  <2>1. Departs(u, u, Creature)
    BY DEF Departs
  <2>. QED
    BY <2>1, RemoveCreaturesSound DEF Y, P
<1>. HIDE DEF f
<1>4. f \in World /\ f[s].at # "none" /\ f[c].at # "none" /\ f[s].spot = v[s].spot
  BY <1>3 DEF Departs, Sound
<1>5. Told(f, l, None, E) /\ SeesAims(l, s, c)
  BY <1>4, LosesTold
<1>6. Sound(l, e, E, Y, E, P)
  BY <1>3, <1>5, <1>d, ToldSound
<1>7. l \in World /\ l[s].at # "none" /\ l[c].at # "none" /\ l[s].spot = v[s].spot
  BY <1>4, <1>5 DEF Told, Framed, SamePlace
<1>. HIDE DEF l
<1>8. AimsBut(l, Z)
  <2>. SUFFICES ASSUME NEW a \in InGame(l), NEW d \in {l[a].attacked, l[a].follow}, d # None
                PROVE  (Plays(l, d) /\ Sees(l, a, d)) \/ (<<a, d>> \in Z /\ ~Sees(l, a, d))
    BY DEF AimsBut
  <2>1. (Plays(l, d) /\ Sees(l, a, d)) \/ (<<a, d>> \in Y /\ ~Sees(l, a, d))
    BY <1>6 DEF Sound, AimsBut
  <2>2. CASE Plays(l, d) /\ Sees(l, a, d)
    BY <2>2
  <2>3. CASE <<a, d>> \in Y /\ ~Sees(l, a, d)
    <3>1. <<a, d>> \in Z \/ (a = s /\ c \in {s, d})
      BY <1>1, <2>3
    <3>2. ~(a = s /\ c \in {s, d})
      BY <1>5, <2>3 DEF SeesAims
    <3>. QED
      BY <2>3, <3>1, <3>2
  <2>. QED
    BY <2>1, <2>2, <2>3
<1>9. Sound(l, e, E, Z, E, P)
  BY <1>6, <1>8 DEF Sound
<1>10. Departs(u, l, Creature)
  <2>1. Departs(f, l, E)
    BY <1>5, ToldDeparts
  <2>2. Creature \cup E = Creature
    OBVIOUS
  <2>. QED
    BY <1>3, <2>1, <2>2, DepartsTwice
<1>11. CASE s \in Player
  <2>1. t = l
    BY <1>11 DEF OnMove, l, f
  <2>2. AwakeBut(l, R)
    <3>. SUFFICES ASSUME NEW m \in Monster, NEW p \in Player, <<m, p>> \notin R
                  PROVE  Woken(l, m, p)
      BY DEF AwakeBut
    <3>1. m # s
      BY <1>11, MonsterIs
    <3>2. <<m, p>> \notin P
      BY <1>2, <3>1
    <3>. QED
      BY <1>9, <3>2 DEF Sound, AwakeBut
  <2>. HIDE DEF t
  <2>. QED
    BY <1>9, <1>10, <2>1, <2>2 DEF Sound, Z, R, t
<1>12. CASE s \in Monster
  <2>1. t = MonsterSees(l, s, c, old)
    BY <1>12, MonsterIs DEF OnMove, l, f
  <2>. HIDE DEF t
  <2>2. /\ Told(l, t, None, D)
        /\ s = c => \A p \in Player : Woken(t, s, p)
        /\ s # c /\ c \in Player /\ (Near(l[s].spot, old) => Woken(l, s, c)) => Woken(t, s, c)
    BY <1>7, <1>12, <2>1, MonsterSeesTold DEF D
  <2>3. Sound(t, e, E, Z, E, P)
    BY <1>9, <1>d, <2>2, ToldSound
  <2>4. AwakeBut(t, R)
    <3>. SUFFICES ASSUME NEW m \in Monster, NEW p \in Player, <<m, p>> \notin R
                  PROVE  Woken(t, m, p)
      BY DEF AwakeBut
    <3>1. CASE <<m, p>> \notin P
      BY <2>3, <3>1 DEF Sound, AwakeBut
    <3>2. CASE <<m, p>> \in P
      <4>1. m = s /\ (s = c \/ (p = c /\ ~Near(v[s].spot, old)))
        BY <1>2, <3>2
      <4>2. CASE s = c
        BY <2>2, <4>1, <4>2
      <4>3. CASE s # c
        BY <1>7, <2>2, <4>1, <4>3
      <4>. QED
        BY <4>2, <4>3
    <3>. QED
      BY <3>1, <3>2
  <2>5. Departs(u, t, Creature)
    <3>1. Departs(l, t, E)
      BY <2>2, ToldDeparts
    <3>2. Creature \cup E = Creature
      OBVIOUS
    <3>. QED
      BY <1>10, <3>1, <3>2, DepartsTwice
  <2>. QED
    BY <2>3, <2>4, <2>5 DEF Sound, Z, R, t
<1>. QED
  BY <1>11, <1>12 DEF Creature

AllOnMove(w, T, c, old, S) == Each(w, T, LAMBDA u, s : OnMove(u, s, c, old, S))
Later(k) == {Order[j] : j \in k + 1 .. Len(Order)}

LEMMA AllOnMoveSound ==
    ASSUME NEW w, NEW e, NEW E, E = {}, NEW c \in Creature, NEW T \in SUBSET Creature, NEW old,
           Sound(w, e, E, Unsure(c, T, Creature), E, Unmet(w, c, T, Creature, old)), w[c].at # "none",
           \A s \in T : w[s].at # "none", NEW S \in SUBSET Creature
    PROVE  Sound(AllOnMove(w, T, c, old, S), e, E, E, E, E) /\ Departs(w, AllOnMove(w, T, c, old, S), Creature)
<1>. DEFINE Done(u, k) == /\ Sound(u, e, E, Unsure(c, T, Later(k)), E, Unmet(w, c, T, Later(k), old))
                          /\ Departs(w, u, Creature)
            N == Len(Order)
            Then(u, k) == IF Order[k] \in T THEN OnMove(u, Order[k], c, old, S) ELSE u
            G == [k \in 0 .. N |-> {u \in World : Done(u, k)}]
            step == [k \in 1 .. N |-> [u \in World |-> Then(u, k)]]
            after[i \in 0 .. N] == IF i = 0 THEN w ELSE Then(after[i - 1], i)
<1>n. N \in Nat /\ G \in [0 .. N -> SUBSET World]
  BY Orders
<1>z. w \in World /\ Done(w, 0)
  <2>1. Later(0) = Creature
    BY Orders DEF Later
  <2>. QED
    BY <2>1 DEF Sound, Departs
<1>b. w \in G[0]
  BY <1>n, <1>z
<1>s. ASSUME NEW k \in 1 .. N, NEW u \in G[k - 1]
      PROVE  Then(u, k) \in G[k] /\ u \in World
  <2>1. k \in 0 .. N /\ k - 1 \in 0 .. N /\ Order[k] \in Creature
    BY <1>n, Orders
  <2>2. u \in World /\ Done(u, k - 1)
    BY <2>1
  <2>. DEFINE L == Later(k - 1)
              K == Later(k)
  <2>3. L \ {Order[k]} \subseteq K
    <3>1. \A j \in k - 1 + 1 .. N : j = k \/ j \in k + 1 .. N
      BY <1>n
    <3>. QED
      BY <3>1 DEF Later
  <2>. HIDE DEF L, K
  <2>4. ASSUME Order[k] \in T
        PROVE  Done(Then(u, k), k)
    <3>. DEFINE s == Order[k]
                v == OnMove(u, s, c, old, S)
    <3>1. s \in Creature /\ u[s].at # "none" /\ u[c].at # "none" /\ u[s].spot = w[s].spot
      BY <2>1, <2>2, <2>4 DEF Departs
    <3>2. Sound(u, e, E, Unsure(c, T, L), E, Unmet(w, c, T, L, old)) /\ L \ {s} \subseteq K
      BY <2>2, <2>3 DEF L
    <3>. HIDE DEF s
    <3>3. Sound(v, e, E, Unsure(c, T, K), E, Unmet(w, c, T, K, old)) /\ Departs(u, v, Creature)
      BY <3>1, <3>2, OnMoveSound
    <3>. HIDE DEF v
    <3>4. Departs(w, v, Creature)
      <4>1. Creature \cup Creature = Creature
        OBVIOUS
      <4>. QED
        BY <2>2, <3>3, <4>1, DepartsTwice
    <3>5. Then(u, k) = v
      BY <2>4 DEF v, s
    <3>. QED
      BY <3>3, <3>4, <3>5 DEF K
  <2>5. ASSUME Order[k] \notin T
        PROVE  Done(Then(u, k), k)
    <3>1. Unsure(c, T, L) \subseteq Unsure(c, T, K)
      BY <2>3, <2>5 DEF Unsure
    <3>2. Unmet(w, c, T, L, old) \subseteq Unmet(w, c, T, K, old)
      BY <2>3, <2>5 DEF Unmet
    <3>3. Sound(u, e, E, Unsure(c, T, L), E, Unmet(w, c, T, L, old))
      BY <2>2 DEF L
    <3>. DEFINE Y == Unsure(c, T, L)
                P == Unmet(w, c, T, L, old)
                Z == Unsure(c, T, K)
                R == Unmet(w, c, T, K, old)
    <3>. HIDE DEF Y, P, Z, R
    <3>4. Sound(u, e, E, Z, E, R)
      BY <3>1, <3>2, <3>3, SoundMore DEF Y, P, Z, R
    <3>. QED
      BY <2>2, <2>5, <3>4 DEF Z, R, K
  <2>6. Done(Then(u, k), k)
    BY <2>4, <2>5
  <2>. QED
    <3>. HIDE DEF Then
    <3>. QED  BY <2>1, <2>2, <2>6 DEF Sound
<1>1. \A k \in 1 .. N : \A u \in G[k - 1] : step[k][u] \in G[k]
  <2>. HIDE DEF G, Then
  <2>. QED  BY <1>s
<1>. HIDE DEF G
<1>2. PICK h \in [0 .. N -> World] : Repeats(h, N, w, step) /\ \A k \in 0 .. N : h[k] \in G[k]
  <2>. HIDE DEF step, N
  <2>. QED  BY <1>n, <1>b, <1>1, Repeated
<1>3. h = [i \in 0 .. N |-> IF i = 0 THEN w ELSE Then(h[i - 1], i)]
  <2>. HIDE DEF Then
  <2>1. ASSUME NEW i \in 1 .. N
        PROVE  h[i] = Then(h[i - 1], i)
    <3>1. i - 1 \in 0 .. N
      BY <1>n
    <3>2. h[i - 1] \in World
      BY <1>2, <3>1
    <3>. QED
      BY <1>2, <3>2 DEF Repeats
  <2>2. h[0] = w
    BY <1>2 DEF Repeats
  <2>. HIDE DEF step, N, G, after
  <2>. QED
    BY <1>n, <1>2, <2>1, <2>2
<1>4. after = [i \in 0 .. N |-> IF i = 0 THEN w ELSE Then(after[i - 1], i)]
  <2>. HIDE DEF step, Then, N
  <2>. QED  BY <1>3
<1>5. AllOnMove(w, T, c, old, S) = IF T = {} THEN w ELSE after[N]
  BY DEF AllOnMove, Each
<1>. HIDE DEF after, Then
<1>6. after[N] \in G[N]
  <2>. DEFINE Q == {k \in 0 .. N : after[k] \in G[k]}
  <2>1. 0 \in Q
    BY <1>n, <1>b, <1>4
  <2>2. \A k \in 1 .. N : k - 1 \in Q => k \in Q
    BY <1>n, <1>s, <1>4
  <2>3. \A k \in 0 .. N : k \in Q
    <3>. HIDE DEF Q, N
    <3>. QED  BY <1>n, <2>1, <2>2, UpTo
  <2>. QED
    BY <1>n, <2>3
<1>7. Done(after[N], N)
  BY <1>n, <1>6 DEF G
<1>8. ASSUME T = {}
      PROVE  Done(w, N)
  <2>1. Unsure(c, T, Creature) = Unsure(c, T, Later(N)) /\ Unmet(w, c, T, Creature, old) = Unmet(w, c, T, Later(N), old)
    BY <1>8 DEF Unsure, Unmet
  <2>2. Departs(w, w, Creature)
    BY DEF Departs
  <2>. QED
    BY <2>1, <2>2
<1>9. Done(AllOnMove(w, T, c, old, S), N)
  BY <1>5, <1>7, <1>8
<1>10. Unsure(c, T, Later(N)) = E /\ Unmet(w, c, T, Later(N), old) = E
  <2>1. Later(N) = {}
    BY <1>n DEF Later
  <2>. QED
    BY <2>1 DEF Unsure, Unmet
<1>. QED
  BY <1>9, <1>10

\* A move.
LEMMA MovedCalm ==
    ASSUME NEW w, NEW e, Calm(w, e), NEW c \in Creature, Plays(w, c), NEW x \in Spot, NEW S \in SUBSET Creature
    PROVE  Calm(Moved(w, c, x, S), e) /\ Passes(w, Moved(w, c, x, S))
<1>. DEFINE E == {}
            v == Spotted(w, c, x)
            T == Spectators(w, w[c].spot) \cup Spectators(v, x)
            old == w[c].spot
<1>e. E = {}
  OBVIOUS
<1>1. Moved(w, c, x, S) = AllOnMove(v, T, c, old, S)
  BY DEF Moved, AllOnMove, OnMove, Spotted
<1>. HIDE DEF E
<1>2. Sound(v, e, E, Unsure(c, T, Creature), E, Unmet(v, c, T, Creature, old))
  BY <1>e, SpottedSound
<1>3. w \in Things
  BY CalmWorld
<1>4. \A b \in Creature : v[b].at = w[b].at /\ v[b].spawn = w[b].spawn
  BY <1>3 DEF Spotted, Things, Thing
<1>5. T \in SUBSET Creature /\ v[c].at # "none" /\ \A s \in T : v[s].at # "none"
  BY <1>4 DEF Spectators, Plays
<1>. HIDE DEF T, v, old
<1>6. Sound(AllOnMove(v, T, c, old, S), e, E, E, E, E) /\ Departs(v, AllOnMove(v, T, c, old, S), Creature)
  BY <1>e, <1>2, <1>5, AllOnMoveSound
<1>7. Passes(w, v)
  BY <1>4 DEF Passes
<1>8. Passes(w, AllOnMove(v, T, c, old, S))
  BY <1>6, <1>7, DepartsPasses, PassesTwice
<1>. QED
  BY <1>e, <1>1, <1>6, <1>8, CalmIs

-----------------------------------------------------------------------------
(* Convincing. *)

\* Who serves a master wakes for nobody.
LEMMA AddSummonSound ==
    ASSUME NEW w, NEW e, NEW X, NEW Y, NEW M, NEW P, Sound(w, e, X, Y, M, P),
           NEW a \in Player, Plays(w, a), NEW m \in Monster, w[m].master = None, w[m].summons = {}, w[m].at # "none",
           NEW R, \A n \in Monster, p \in Player : <<n, p>> \in P => n = m \/ <<n, p>> \in R,
           NEW v, v = AddSummon(w, a, m)
    PROVE  Sound(v, e, X, Y, M, R)
<1>. USE DEF Sound
<1>1. w \in Things /\ a \in Creature /\ m \in Creature /\ a # m /\ a # None /\ w[a].at = "game"
  BY WorldIsThings, PlayerIs, MonsterIs DEF Plays
<1>2. v \in Things /\ Served(w, v, a, m)
  BY <1>1, AddSummonIs
<1>3. \A b \in Creature :
          /\ SameSelf(w[b], v[b]) /\ v[b].alive = w[b].alive /\ v[b].at = w[b].at /\ v[b].spot = w[b].spot
          /\ SameAim(w[b], v[b]) /\ SameLists(w[b], v[b]) /\ SameMind(w[b], v[b]) /\ v[b].freed = w[b].freed
          /\ (Plays(v, b) <=> Plays(w, b))
  BY <1>2 DEF Served, SameSelf, Plays
<1>4. /\ \A b \in Creature \ {m} : v[b].refs = w[b].refs /\ v[b].master = w[b].master
      /\ \A b \in Creature \ {a} : v[b].summons = w[b].summons
      /\ v[m].refs = w[m].refs + 1 /\ v[m].master = a /\ v[a].summons = w[a].summons \cup {m}
      /\ \A b \in Creature \ {a, m} : v[b] = w[b]
  BY <1>2 DEF Served
<1>5. v \in World
  <2>1. ASSUME NEW b \in Creature, NEW d \in Creature, d \in v[b].targets \cup v[b].friends \cup v[b].summons
        PROVE  v[d].at # "none"
    <3>1. CASE d = m
      BY <1>3, <3>1
    <3>2. CASE d # m
      <4>1. d \in w[b].targets \cup w[b].friends \cup w[b].summons
        <5>1. CASE b = a
          BY <1>3, <1>4, <2>1, <3>2, <5>1 DEF SameLists
        <5>2. CASE b # a
          BY <1>3, <1>4, <2>1, <5>2 DEF SameLists
        <5>. QED
          BY <5>1, <5>2
      <4>. QED
        BY <1>3, <4>1 DEF World
    <3>. QED
      BY <3>1, <3>2
  <2>2. \A p \in Player : v[p].targets = {} /\ v[p].friends = {}
    BY <1>3, PlayerIs DEF World, SameLists
  <2>. QED
    BY <1>2, <2>1, <2>2 DEF World
<1>6. Ranked(v)
  <2>1. \A b \in Creature : m \notin w[b].summons
    BY <1>1, PlayerIs, CreaturesAssumption DEF Ranked
  <2>2. ASSUME NEW b \in Creature, NEW d \in v[b].summons
        PROVE  v[d].master = b
    <3>1. CASE d = m
      <4>1. b = a
        BY <1>4, <2>1, <2>2, <3>1
      <4>. QED
        BY <1>4, <3>1, <4>1
    <3>2. CASE d # m
      <4>1. d \in w[b].summons
        <5>1. CASE b = a
          BY <1>4, <2>2, <3>2, <5>1
        <5>2. CASE b # a
          BY <1>4, <2>2, <5>2
        <5>. QED
          BY <5>1, <5>2
      <4>2. d \in Creature /\ w[d].master = b
        BY <4>1, OneMaster
      <4>. QED
        BY <1>4, <3>2, <4>2
    <3>. QED
      BY <3>1, <3>2
  <2>3. ASSUME NEW b \in Creature, v[b].master # None
        PROVE  b \in Monster /\ v[b].summons = {}
    <3>1. CASE b = m
      BY <1>1, <1>4, <3>1
    <3>2. CASE b # m
      <4>1. w[b].master # None
        BY <1>4, <2>3, <3>2
      <4>2. b \in Monster /\ w[b].summons = {}
        BY <4>1 DEF Ranked
      <4>3. b # a
        BY <4>2, MonsterIs
      <4>. QED
        BY <1>4, <4>2, <4>3
    <3>. QED
      BY <3>1, <3>2
  <2>. QED
    BY <2>2, <2>3 DEF Ranked
<1>7. Clean(v)
  <2>. SUFFICES ASSUME NEW b \in Creature, v[b].at = "none"
                PROVE  v[b] = Nothing
    BY DEF Clean
  <2>1. w[b].at = "none" /\ b # a /\ b # m
    BY <1>1, <1>3
  <2>. QED
    BY <1>4, <2>1 DEF Clean
<1>8. CountedWith(v, e)
  <2>1. \A b \in Creature : Excess(v, b) = Excess(w, b) + Shift(w, v, b) /\ Excess(w, b) \in Int
    BY <1>1, <1>2, <1>3, MonsterIs, ExcessShifts
  <2>2. ASSUME NEW b \in Creature
        PROVE  /\ v[b].listed = w[b].listed /\ (Plays(v, b) <=> Plays(w, b))
               /\ v[b].freed = w[b].freed /\ w[b].refs \in Int /\ w[b].freed \in Int
    BY <1>1, <1>3 DEF SameMind, Things, Thing
  <2>3. Shift(w, v, m) = 0
    <3>1. Serves(v, m)
      <4>1. m \in v[a].summons
        BY <1>4
      <4>. QED
        BY <1>1, <4>1 DEF Serves
    <3>2. ~Serves(w, m)
      <4>1. \A b \in Creature : m \notin w[b].summons
        BY <1>1, CreaturesAssumption DEF Ranked
      <4>. QED
        BY <4>1 DEF Serves
    <3>3. v[m].refs = w[m].refs + 1
      BY <1>4
    <3>. QED
      BY <1>1, <2>2, <3>1, <3>2, <3>3 DEF Shift, B
  <2>4. ASSUME NEW b \in Creature \ {m}
        PROVE  Shift(w, v, b) = 0
    <3>1. ASSUME NEW d \in Creature
          PROVE  b \in v[d].summons <=> b \in w[d].summons
      <4>1. CASE d = a
        BY <1>4, <4>1
      <4>2. CASE d # a
        BY <1>4, <4>2
      <4>. QED
        BY <4>1, <4>2
    <3>2. Serves(v, b) <=> Serves(w, b)
      BY <3>1 DEF Serves
    <3>3. v[b].refs = w[b].refs
      BY <1>4
    <3>. QED
      BY <2>2, <3>2, <3>3 DEF Shift, B
  <2>. QED
    BY <2>1, <2>3, <2>4 DEF CountedWith
<1>9. LookedBut(v, X)
  BY <1>3 DEF LookedBut, Looked, SameMind
<1>10. AimsBut(v, Y)
  BY <1>1, <1>3, AimsStay
<1>11. MastersBut(v, M)
  <2>. SUFFICES ASSUME NEW b \in InGame(v) \ M, v[b].master # None
                PROVE  Plays(v, v[b].master) /\ b \in v[v[b].master].summons
    BY DEF MastersBut
  <2>1. CASE b = m
    BY <1>1, <1>3, <1>4, <2>1
  <2>2. CASE b # m
    <3>1. b \in Creature /\ b \in InGame(w) \ M /\ v[b].master = w[b].master
      BY <1>3, <1>4, <2>2 DEF InGame
    <3>2. w[b].master \in Creature
      BY <1>1, <3>1 DEF Things, Thing
    <3>3. Plays(w, w[b].master) /\ b \in w[w[b].master].summons
      BY <3>1 DEF MastersBut
    <3>4. \A d \in Creature : w[d].summons \subseteq v[d].summons
      <4>1. ASSUME NEW d \in Creature
            PROVE  w[d].summons \subseteq v[d].summons
        <5>1. CASE d = a
          BY <1>4, <5>1
        <5>2. CASE d # a
          BY <1>4, <5>2
        <5>. QED
          BY <5>1, <5>2
      <4>. QED
        BY <4>1
    <3>. QED
      BY <1>3, <3>1, <3>2, <3>3, <3>4
  <2>. QED
    BY <2>1, <2>2
<1>12. AwakeBut(v, R)
  <2>. SUFFICES ASSUME NEW n \in Monster, NEW p \in Player, <<n, p>> \notin R, Wakes(v, n, p)
                PROVE  p \in v[n].targets /\ ~v[n].idle
    BY DEF AwakeBut, Woken
  <2>1. n \in Creature /\ p \in Creature
    BY MonsterIs, PlayerIs
  <2>2. n # m
    BY <1>1, <1>4 DEF Wakes, IsSummon
  <2>3. Woken(w, n, p)
    BY <2>2 DEF AwakeBut
  <2>4. Wakes(w, n, p)
    BY <1>3, <1>4, <2>1, <2>2 DEF Wakes, Sees, IsSummon
  <2>. QED
    BY <1>3, <2>1, <2>3, <2>4 DEF Woken, SameMind, SameLists
<1>. QED
  BY <1>5, <1>6, <1>7, <1>8, <1>9, <1>10, <1>11, <1>12

LooksAgain(w, s) == UpdateIdleStatus(UpdateTargetList(w, s), s)

LEMMA LooksAgainTold ==
    ASSUME NEW w \in World, NEW s \in Monster, w[s].at # "none"
    PROVE  Told(w, LooksAgain(w, s), None, {})
<1>. DEFINE u == UpdateTargetList(w, s)
<1>1. s \in Creature
  BY MonsterIs
<1>2. Told(w, u, None, {})
  BY UpdateTargetListTold DEF Sights
<1>. HIDE DEF u
<1>3. u \in World /\ u[s].at # "none"
  BY <1>1, <1>2 DEF Told, Framed, SamePlace
<1>4. Told(u, UpdateIdleStatus(u, s), None, {})
  BY <1>3, UpdateIdleStatusTold DEF IdleIsUpdated
<1>5. Told(w, UpdateIdleStatus(u, s), None, {})
  BY <1>2, <1>4, ToldTwice
<1>. QED
  BY <1>5 DEF LooksAgain, u

Hears(t, s, m) == IF s \in Player \/ ~(IsFriend(t, s, m) \/ IsOpponent(t, s, m)) THEN t ELSE LooksAgain(t, s)
AllHear(w, T, m) == Each(w, T, LAMBDA t, s : Hears(t, s, m))

LEMMA AllHearTold ==
    ASSUME NEW w \in World, NEW m, NEW T \in SUBSET Creature, \A s \in T : w[s].at # "none"
    PROVE  Told(w, AllHear(w, T, m), None, {})
<1>. DEFINE Done(u, k) == Told(w, u, None, {})
            N == Len(Order)
            Then(u, k) == IF Order[k] \in T THEN Hears(u, Order[k], m) ELSE u
            G == [k \in 0 .. N |-> {u \in World : Done(u, k)}]
            step == [k \in 1 .. N |-> [u \in World |-> Then(u, k)]]
            after[i \in 0 .. N] == IF i = 0 THEN w ELSE Then(after[i - 1], i)
<1>n. N \in Nat /\ G \in [0 .. N -> SUBSET World]
  BY Orders
<1>z. Told(w, w, None, {})
  BY ToldNothing
<1>b. w \in G[0]
  BY <1>n, <1>z
<1>s. ASSUME NEW k \in 1 .. N, NEW u \in G[k - 1]
      PROVE  Then(u, k) \in G[k] /\ u \in World
  <2>1. k \in 0 .. N /\ k - 1 \in 0 .. N /\ Order[k] \in Creature
    BY <1>n, Orders
  <2>2. u \in World /\ Done(u, k - 1)
    BY <2>1
  <2>3. ASSUME Order[k] \in T
        PROVE  Done(Then(u, k), k)
    <3>. DEFINE s == Order[k]
                v == Hears(u, s, m)
    <3>1. s \in Creature /\ u[s].at # "none"
      BY <2>1, <2>2, <2>3 DEF Told, Framed, SamePlace
    <3>. HIDE DEF s
    <3>2. v = u \/ (s \in Monster /\ v = LooksAgain(u, s))
      BY <3>1 DEF Hears, Creature
    <3>. HIDE DEF v
    <3>3. Told(w, v, None, {})
      <4>1. CASE v = u
        BY <2>2, <4>1
      <4>2. CASE s \in Monster /\ v = LooksAgain(u, s)
        <5>1. Told(u, v, None, {})
          BY <2>2, <3>1, <4>2, LooksAgainTold
        <5>. QED
          BY <2>2, <5>1, ToldTwice
      <4>. QED
        BY <3>2, <4>1, <4>2
    <3>4. Then(u, k) = v
      BY <2>3 DEF v, s
    <3>. QED
      BY <3>3, <3>4
  <2>5. Done(Then(u, k), k)
    BY <2>2, <2>3
  <2>. QED
    <3>. HIDE DEF Then
    <3>. QED  BY <2>1, <2>2, <2>5 DEF Told
<1>1. \A k \in 1 .. N : \A u \in G[k - 1] : step[k][u] \in G[k]
  <2>. HIDE DEF G, Then
  <2>. QED  BY <1>s
<1>. HIDE DEF G
<1>2. PICK h \in [0 .. N -> World] : Repeats(h, N, w, step) /\ \A k \in 0 .. N : h[k] \in G[k]
  <2>. HIDE DEF step, N
  <2>. QED  BY <1>n, <1>b, <1>1, Repeated
<1>3. h = [i \in 0 .. N |-> IF i = 0 THEN w ELSE Then(h[i - 1], i)]
  <2>. HIDE DEF Then
  <2>1. ASSUME NEW i \in 1 .. N
        PROVE  h[i] = Then(h[i - 1], i)
    <3>1. i - 1 \in 0 .. N
      BY <1>n
    <3>2. h[i - 1] \in World
      BY <1>2, <3>1
    <3>. QED
      BY <1>2, <3>2 DEF Repeats
  <2>. HIDE DEF step, N
  <2>. QED
    BY <1>n, <1>2, <2>1 DEF Repeats
<1>4. after = [i \in 0 .. N |-> IF i = 0 THEN w ELSE Then(after[i - 1], i)]
  <2>. HIDE DEF step, Then, N
  <2>. QED  BY <1>3
<1>5. AllHear(w, T, m) = IF T = {} THEN w ELSE after[N]
  BY DEF AllHear, Each
<1>. HIDE DEF after, Then
<1>6. after[N] \in G[N]
  <2>. DEFINE Q == {k \in 0 .. N : after[k] \in G[k]}
  <2>1. 0 \in Q
    BY <1>n, <1>b, <1>4
  <2>2. \A k \in 1 .. N : k - 1 \in Q => k \in Q
    BY <1>n, <1>s, <1>4
  <2>3. \A k \in 0 .. N : k \in Q
    <3>. HIDE DEF Q, N
    <3>. QED  BY <1>n, <2>1, <2>2, UpTo
  <2>. QED
    BY <1>n, <2>3
<1>7. Done(after[N], N)
  BY <1>n, <1>6 DEF G
<1>. QED
  BY <1>z, <1>5, <1>7

\* Of whom each place of a spawn holds a reference.
Taken(to) == [c \in Creature |-> B(\E s \in DOMAIN Places : to[s] = c)]

\* Counts and marks of the spawns.
Respawned(w, v, d) ==
    \A b \in Creature :
        /\ Kept(w[b], v[b]) /\ v[b].checked = w[b].checked /\ v[b].listed = w[b].listed /\ v[b].freed = w[b].freed
        /\ (w[b].at = "none" => v[b] = w[b]) /\ v[b].refs = w[b].refs + d[b]

LEMMA RespawnedCalm ==
    ASSUME NEW w, NEW e, Calm(w, e), NEW v \in Things, NEW d \in [Creature -> Int], Respawned(w, v, d),
           NEW g, \A b \in Creature : g[b] = e[b] + d[b]
    PROVE  Calm(v, g)
<1>. DEFINE E == {}
<1>e. E = {}
  OBVIOUS
<1>. HIDE DEF E
<1>1. w \in Things /\ Sound(w, e, E, E, E, E)
  BY <1>e, CalmWorld, CalmIs
<1>2. ASSUME NEW b \in Creature
      PROVE  /\ Looked(w, b) => Looked(v, b)
             /\ g[b] = e[b] + (((v[b].refs - w[b].refs) - (B(v[b].listed) - B(w[b].listed))) - (v[b].freed - w[b].freed))
  <2>1. /\ Kept(w[b], v[b]) /\ v[b].checked = w[b].checked /\ v[b].listed = w[b].listed /\ v[b].freed = w[b].freed
        /\ v[b].refs = w[b].refs + d[b] /\ g[b] = e[b] + d[b]
    BY DEF Respawned
  <2>2. w[b].refs \in Int /\ w[b].freed \in Int /\ d[b] \in Int
    BY <1>1 DEF Things, Thing
  <2>3. Looked(w, b) => Looked(v, b)
    BY <2>1 DEF Looked, Kept, Plays
  <2>. DEFINE i == v[b].refs - w[b].refs
              j == B(v[b].listed) - B(w[b].listed)
              k == v[b].freed - w[b].freed
  <2>4. i = d[b] /\ j = 0 /\ k = 0
    BY <2>1, <2>2 DEF B
  <2>. HIDE DEF i, j, k
  <2>5. d[b] = (i - j) - k
    BY <2>2, <2>4
  <2>6. g[b] = e[b] + ((i - j) - k)
    BY <2>1, <2>5
  <2>. QED
    BY <2>3, <2>6 DEF i, j, k
<1>3. Recounted(w, v, e, g)
  BY <1>2 DEF Recounted, Respawned
<1>4. Sound(v, g, E, E, E, E)
  BY <1>1, <1>3, RecountedSound
<1>. QED
  BY <1>e, <1>4, CalmIs

Quits(w, m) == IF w[m].master = None THEN w ELSE RemoveSummon(w, w[m].master, m)
Abandons(w, m) == DestroySummons(SetAttacked(SetFollow(Quits(w, m), m, None), m, None), m)
Obeys(w, a, m) == LooksAgain(AddSummon(Abandons(w, m), a, m), m)
Convinced(w, a, m, T) == AllHear(InRanged(Obeys(w, a, m), m, TRUE), T, m)

\* A monster that leaves its master.
LEMMA QuitsSound ==
    ASSUME NEW w, NEW e, NEW E, E = {}, Sound(w, e, E, E, E, E), NEW m \in Monster, Plays(w, m),
           NEW R, \A p \in Player : <<m, p>> \in R
    PROVE  Sound(Quits(w, m), e, E, E, E, R) /\ SameSpots(w, Quits(w, m)) /\ Quits(w, m)[m].master = None
<1>. DEFINE a == w[m].master
            v == RemoveSummon(w, a, m)
<1>1. m \in Creature /\ w \in World /\ w \in Things
  BY MonsterIs, WorldIsThings DEF Sound
<1>2. CASE a = None
  <2>1. Quits(w, m) = w
    BY <1>2 DEF Quits
  <2>2. Sound(w, e, E, E, E, R)
    BY SoundMore
  <2>. QED
    BY <1>2, <2>1, <2>2 DEF SameSpots
<1>3. CASE a # None
  <2>1. a \in Creature /\ m \in w[a].summons
    BY <1>1, <1>3 DEF Sound, MastersBut, InGame, Things, Thing
  <2>2. Sound(v, e, E, E, E, R)
    BY <2>1, RemoveSummonSound
  <2>3. Released(w, v, a, m)
    BY <1>1, <2>1, RemoveSummonIs DEF Sound
  <2>4. Quits(w, m) = v
    BY <1>3 DEF Quits
  <2>. HIDE DEF v
  <2>. QED
    BY <1>1, <2>2, <2>3, <2>4 DEF Released, SameSelf, SameSpots
<1>. QED
  BY <1>2, <1>3

\* It attacks and follows nobody, and its own summons are gone.
LEMMA AbandonsSound ==
    ASSUME NEW w, NEW e, NEW E, E = {}, Sound(w, e, E, E, E, E), NEW m \in Monster, Plays(w, m),
           NEW R, \A p \in Player : <<m, p>> \in R
    PROVE  LET u == Abandons(w, m)
           IN  Sound(u, e, E, E, E, R) /\ SameSpots(w, u) /\ u[m].master = None /\ u[m].summons = {}
<1>. DEFINE v == Quits(w, m)
            y == SetFollow(v, m, None)
            z == SetAttacked(y, m, None)
            u == DestroySummons(z, m)
            D == Creature
<1>1. m \in Creature /\ D \in SUBSET Creature /\ Target(v, None, D) /\ Target(y, None, D)
  BY MonsterIs DEF Target
<1>2. Sound(v, e, E, E, E, R) /\ SameSpots(w, v) /\ v[m].master = None
  BY QuitsSound
<1>. HIDE DEF v, D
<1>3. v \in World /\ v[m].at # "none"
  BY <1>1, <1>2 DEF Sound, SameSpots, Plays
<1>4. Told(v, y, None, D)
  BY <1>1, <1>3, SetFollowTold
<1>. HIDE DEF y
<1>5. Sound(y, e, E, E, E, R) /\ Leads(v, y, m)
  BY <1>1, <1>2, <1>4, ToldSound, ToldLeads
<1>6. y \in World /\ y[m].at # "none"
  BY <1>1, <1>3, <1>5 DEF Sound, Leads, SameSpots
<1>7. Told(y, z, None, D)
  BY <1>1, <1>6, SetAttackedTold
<1>. HIDE DEF z
<1>8. Sound(z, e, E, E, E, R) /\ Leads(y, z, m)
  BY <1>1, <1>5, <1>7, ToldSound, ToldLeads
<1>9. Sound(u, e, E, E, E, R) /\ Leads(z, u, m) /\ u[m].summons = {}
  BY <1>1, <1>8, DestroySummonsSound
<1>10. Abandons(w, m) = u
  BY DEF Abandons, u, z, y, v
<1>. HIDE DEF u
<1>11. Leads(v, u, m)
  BY <1>5, <1>8, <1>9, LeadsTwice
<1>. QED
  BY <1>2, <1>9, <1>10, <1>11 DEF Leads, SameSpots

\* It serves the player, and those who hear of it look again.
LEMMA ConvincedCalm ==
    ASSUME NEW w, NEW e, Calm(w, e), NEW a \in Player, Plays(w, a), NEW m \in Monster, Plays(w, m),
           NEW T \in SUBSET Creature, \A s \in T : w[s].at # "none"
    PROVE  /\ Calm(Convinced(w, a, m, T), e) /\ Convinced(w, a, m, T)[m].at # "none"
           /\ Passes(w, Convinced(w, a, m, T))
<1>. DEFINE E == {}
            R == {m} \X Player
            u == Abandons(w, m)
            t == AddSummon(u, a, m)
            r == LooksAgain(t, m)
            yes == TRUE
            i == InRanged(r, m, yes)
            q == AllHear(i, T, m)
<1>e. E = {} /\ E \in SUBSET Creature /\ yes \in BOOLEAN /\ yes
  OBVIOUS
<1>f. \A p \in Player : <<m, p>> \in R
  OBVIOUS
<1>g. \A n \in Monster, p \in Player : <<n, p>> \in R => n = m \/ <<n, p>> \in E
  OBVIOUS
<1>h. \A s, v : Told(s, v, None, {}) <=> Told(s, v, None, E)
  OBVIOUS
<1>. HIDE DEF E, R, yes
<1>1. m \in Creature /\ a \in Creature
  BY MonsterIs, PlayerIs
<1>2. Sound(w, e, E, E, E, E)
  BY <1>e, CalmIs
<1>3. Sound(u, e, E, E, E, R) /\ SameSpots(w, u) /\ u[m].master = None /\ u[m].summons = {}
  BY <1>e, <1>f, <1>2, AbandonsSound
<1>. HIDE DEF u
<1>4. Plays(u, a) /\ u[m].at # "none" /\ \A s \in T : u[s].at # "none"
  BY <1>1, <1>3 DEF SameSpots, Plays
<1>5. Sound(t, e, E, E, E, E) /\ u \in World
  <2>. HIDE DEF t
  <2>1. t = AddSummon(u, a, m)
    BY DEF t
  <2>. QED
    BY <1>3, <1>4, <1>g, <2>1, AddSummonSound DEF Sound
<1>6. (\A s \in Creature : t[s].at = u[s].at) /\ Passes(u, t)
  <2>1. a # m /\ u \in Things
    BY <1>5, PlayerIs, WorldIsThings
  <2>2. Served(u, t, a, m)
    BY <1>1, <2>1, AddSummonIs
  <2>. QED
    BY <2>2 DEF Served, SameSelf, Passes
<1>. HIDE DEF t
<1>7. Told(t, r, None, E)
  BY <1>1, <1>4, <1>5, <1>6, <1>h, LooksAgainTold DEF Sound
<1>. HIDE DEF r
<1>8. r \in World /\ \A s \in Creature : r[s].at = u[s].at
  BY <1>6, <1>7 DEF Told, Framed, SamePlace
<1>9. Told(r, i, None, E)
  BY <1>e, <1>1, <1>4, <1>8, <1>h, InRangedTold
<1>. HIDE DEF i
<1>10. i \in World /\ \A s \in T : i[s].at # "none"
  BY <1>4, <1>8, <1>9 DEF Told, Framed, SamePlace
<1>11. Told(i, q, None, E)
  BY <1>10, <1>h, AllHearTold
<1>. HIDE DEF q
<1>12. Sound(q, e, E, E, E, E)
  BY <1>e, <1>5, <1>7, <1>9, <1>11, ToldSound
<1>13. Convinced(w, a, m, T) = q
  BY DEF Convinced, Obeys, q, i, r, t, u, yes
<1>14. q[m].at # "none"
  BY <1>1, <1>4, <1>8, <1>9, <1>11 DEF Told, Framed, SamePlace
<1>15. Passes(w, q)
  <2>1. Passes(w, u) /\ Passes(t, r) /\ Passes(r, i) /\ Passes(i, q)
    BY <1>3, <1>7, <1>9, <1>11, LeadsPasses, ToldPasses
  <2>2. Passes(w, t)
    BY <1>6, <2>1, PassesTwice
  <2>3. Passes(w, r)
    BY <2>1, <2>2, PassesTwice
  <2>4. Passes(w, i)
    BY <2>1, <2>3, PassesTwice
  <2>. QED
    BY <2>1, <2>4, PassesTwice
<1>. QED
  BY <1>e, <1>12, <1>13, <1>14, <1>15, CalmIs

-----------------------------------------------------------------------------
(* The spawns. *)

Board == [DOMAIN Places -> Monster \cup {None}]
Calling(to, c) == \E s \in DOMAIN Places : to[s] = c
Vacant(to, S) == [s \in DOMAIN Places |-> IF to[s] \in S THEN None ELSE to[s]]
Delta(S, d) == [c \in Creature |-> IF c \in S THEN d ELSE 0]

LEMMA TakenIs ==
    ASSUME NEW to, NEW c \in Creature
    PROVE  Taken(to)[c] \in Nat /\ (Calling(to, c) => Taken(to)[c] = 1) /\ (~Calling(to, c) => Taken(to)[c] = 0)
BY DEF Taken, Calling, B

\* Who has a place has been placed.
LEMMA CalledIsThere ==
    ASSUME NEW w, NEW to, Calm(w, Taken(to)), NEW c \in Creature, Calling(to, c)
    PROVE  w[c].at # "none"
<1>1. w \in Things /\ Clean(w) /\ Excess(w, c) = Taken(to)[c]
  BY CalmWorld DEF Calm, Sound, CountedWith
<1>2. SUFFICES ASSUME w[c].at = "none"
               PROVE  FALSE
  OBVIOUS
<1>3. w[c].refs = 0
  BY <1>1, <1>2, NothingIs DEF Clean
<1>4. Held(w, c) \in Nat
  BY <1>1, HeldIsNat
<1>5. Taken(to)[c] = 1
  BY TakenIs
<1>. QED
  BY <1>1, <1>3, <1>4, <1>5 DEF Excess

LEMMA CountedRespawned ==
    ASSUME NEW w \in Things, NEW v, NEW S \in SUBSET Creature, NEW d \in Int, Counted(w, v, S, d),
           \A c \in S : w[c].at # "none"
    PROVE  v \in Things /\ Delta(S, d) \in [Creature -> Int] /\ Respawned(w, v, Delta(S, d))
<1>1. v \in Things /\ Delta(S, d) \in [Creature -> Int]
  BY DEF Counted, Delta
<1>2. ASSUME NEW b \in Creature
      PROVE  /\ Kept(w[b], v[b]) /\ v[b].checked = w[b].checked /\ v[b].listed = w[b].listed /\ v[b].freed = w[b].freed
             /\ (w[b].at = "none" => v[b] = w[b]) /\ v[b].refs = w[b].refs + Delta(S, d)[b]
  <2>. DEFINE i == IF b \in S THEN d ELSE 0
  <2>1. Plus(w[b], v[b], i) /\ Delta(S, d)[b] = i /\ (b \notin S => i = 0)
    BY DEF Counted, Delta
  <2>. HIDE DEF i
  <2>. QED
    BY <2>1 DEF Plus, Kept, SamePlace, SameAim, SameMind, SameLists
<1>. QED
  BY <1>1, <1>2 DEF Respawned

Marked(w, m, x) == [w EXCEPT ![m].spawn = x]

LEMMA MarkedIs ==
    ASSUME NEW w \in Things, NEW m \in Creature, NEW x \in BOOLEAN
    PROVE  /\ Marked(w, m, x) \in Things /\ Marked(w, m, x)[m].at = w[m].at /\ Marked(w, m, x)[m].spawn = x
           /\ \A b \in Creature \ {m} : Marked(w, m, x)[b] = w[b]
BY DEF Marked, Things, Thing

LEMMA MarkedCalm ==
    ASSUME NEW w, NEW e \in [Creature -> Int], Calm(w, e), NEW m \in Creature, w[m].at # "none", NEW x \in BOOLEAN
    PROVE  Calm(Marked(w, m, x), e)
<1>. DEFINE v == Marked(w, m, x)
            d == [c \in Creature |-> 0]
<1>1. w \in Things
  BY CalmWorld
<1>2. /\ v \in Things /\ \A b \in Creature \ {m} : v[b] = w[b]
      /\ Kept(w[m], v[m]) /\ v[m].checked = w[m].checked /\ v[m].listed = w[m].listed
      /\ v[m].freed = w[m].freed /\ v[m].refs = w[m].refs
  BY <1>1 DEF Marked, Things, Thing, Kept, SameAim, SameLists
<1>3. d \in [Creature -> Int] /\ \A c \in Creature : d[c] = 0 /\ e[c] = e[c] + d[c]
  OBVIOUS
<1>. HIDE DEF v, d
<1>4. ASSUME NEW b \in Creature
      PROVE  /\ Kept(w[b], v[b]) /\ v[b].checked = w[b].checked /\ v[b].listed = w[b].listed /\ v[b].freed = w[b].freed
             /\ (w[b].at = "none" => v[b] = w[b]) /\ v[b].refs = w[b].refs + d[b]
  <2>1. v[b].refs = w[b].refs /\ w[b].refs \in Int
    BY <1>1, <1>2 DEF Things, Thing
  <2>2. v[b].refs = w[b].refs + d[b]
    BY <1>3, <2>1
  <2>3. CASE b = m
    BY <1>2, <2>2, <2>3
  <2>4. CASE b # m
    BY <1>2, <2>2, <2>4 DEF Kept, SameAim, SameLists
  <2>. QED
    BY <2>3, <2>4
<1>5. Respawned(w, v, d)
  BY <1>4 DEF Respawned
<1>6. Calm(v, e)
  BY <1>2, <1>3, <1>5, RespawnedCalm
<1>. QED
  BY <1>6 DEF v

\* The references to those of S are given up with their places.
LEMMA VacantCalm ==
    ASSUME NEW w, NEW to \in Board, Calm(w, Taken(to)), NEW S \in SUBSET Creature, \A c \in S : Calling(to, c)
    PROVE  /\ Vacant(to, S) \in Board /\ Calm(Each(w, S, UnRef), Taken(Vacant(to, S)))
           /\ Framed(w, Each(w, S, UnRef))
<1>. DEFINE v == Each(w, S, UnRef)
            d == Delta(S, -1)
            g == Taken(Vacant(to, S))
<1>1. w \in Things /\ Counted(w, v, S, -1)
  BY CalmWorld, EachUnRef
<1>. HIDE DEF v
<1>2. v \in Things /\ d \in [Creature -> Int] /\ Respawned(w, v, d)
  <2>1. \A c \in S : w[c].at # "none"
    BY CalledIsThere
  <2>. QED
    BY <1>1, <2>1, CountedRespawned
<1>3. Vacant(to, S) \in Board
  BY DEF Vacant, Board
<1>4. ASSUME NEW b \in Creature
      PROVE  g[b] = Taken(to)[b] + d[b]
  <2>1. b # None
    BY CreaturesAssumption
  <2>2. Calling(Vacant(to, S), b) <=> Calling(to, b) /\ b \notin S
    BY <2>1 DEF Calling, Vacant
  <2>3. d[b] = IF b \in S THEN -1 ELSE 0
    BY DEF Delta
  <2>4. g[b] = 0 \/ g[b] = 1
    BY TakenIs
  <2>5. CASE b \in S
    <3>1. g[b] = 0 /\ Taken(to)[b] = 1
      BY <2>2, <2>5, TakenIs
    <3>. QED
      BY <2>3, <2>5, <3>1
  <2>6. CASE b \notin S
    <3>1. g[b] = Taken(to)[b] /\ Taken(to)[b] \in Nat
      BY <2>2, <2>6, TakenIs
    <3>. QED
      BY <2>3, <2>6, <3>1
  <2>. QED
    BY <2>5, <2>6
<1>. HIDE DEF g, d
<1>5. Calm(v, g)
  BY <1>2, <1>4, RespawnedCalm
<1>6. Framed(w, v)
  BY <1>1 DEF Counted, Plus, Framed
<1>. QED
  BY <1>3, <1>5, <1>6 DEF v, g

\* A place is given to one just made.
LEMMA FilledCalm ==
    ASSUME NEW w, NEW to \in Board, Calm(w, Taken(to)), NEW m \in Monster, w[m].at # "none", ~Calling(to, m),
           NEW s \in DOMAIN Places, to[s] = None
    PROVE  [to EXCEPT ![s] = m] \in Board /\ Calm(AddRef(w, m), Taken([to EXCEPT ![s] = m]))
<1>. DEFINE v == AddRef(w, m)
            S == {m}
            d == Delta(S, 1)
            k == [to EXCEPT ![s] = m]
            g == Taken(k)
<1>1. w \in Things /\ m \in Creature /\ m # None
  BY CalmWorld, MonsterIs
<1>2. Counted(w, v, S, 1)
  BY <1>1, OneMore
<1>3. S \in SUBSET Creature /\ \A c \in S : w[c].at # "none"
  BY <1>1
<1>. HIDE DEF v
<1>4. v \in Things /\ d \in [Creature -> Int] /\ Respawned(w, v, d)
  <2>. HIDE DEF S
  <2>. QED
    BY <1>1, <1>2, <1>3, CountedRespawned
<1>5. k \in Board
  BY DEF Board
<1>6. ASSUME NEW b \in Creature
      PROVE  g[b] = Taken(to)[b] + d[b]
  <2>1. b # None
    BY CreaturesAssumption
  <2>2. Calling(k, b) <=> Calling(to, b) \/ b = m
    BY <1>1, <2>1 DEF Calling, Board
  <2>3. d[b] = IF b = m THEN 1 ELSE 0
    BY DEF Delta
  <2>. HIDE DEF k, d
  <2>5. CASE b = m
    <3>1. g[b] = 1 /\ Taken(to)[b] = 0
      BY <2>2, <2>5, TakenIs
    <3>. QED
      BY <2>3, <2>5, <3>1
  <2>6. CASE b # m
    <3>1. g[b] = Taken(to)[b] /\ Taken(to)[b] \in Nat
      BY <2>2, <2>6, TakenIs
    <3>. QED
      BY <2>3, <2>6, <3>1
  <2>. QED
    BY <2>5, <2>6
<1>. HIDE DEF g, d, k
<1>7. Calm(v, g)
  BY <1>4, <1>6, RespawnedCalm
<1>. QED
  BY <1>5, <1>7 DEF v, g, k

-----------------------------------------------------------------------------
(* The invariant. *)

\* Of the monsters in the game those are marked who have a place, and who has one
\* is marked as long as he is not deleted.
Homed(w, to) ==
    \A c \in Creature : /\ Calling(to, c) => w[c].spawn
                        /\ Plays(w, c) /\ w[c].spawn => Calling(to, c)

IInv ==
    /\ spawned \in Board
    /\ Calm(world, Taken(spawned))
    /\ Dead(world) = {}
    /\ Homed(world, spawned)
    /\ Lost # {} => event

LEMMA ReapedCalm ==
    ASSUME NEW w, NEW to, Calm(w, Taken(to))
    PROVE  Calm(Reaped(w), Taken(to)) /\ Dead(Reaped(w)) = {} /\ Survives(w, Reaped(w))
<1>. DEFINE E == {}
            e == Taken(to)
<1>e. E = {}
  OBVIOUS
<1>1. \A c \in Creature : e[c] \in Nat
  BY TakenIs
<1>. HIDE DEF E, e
<1>2. Sound(w, e, E, E, E, E)
  BY <1>e, CalmIs DEF e
<1>3. Sound(Reaped(w), e, E, E, E, E) /\ Dead(Reaped(w)) = {} /\ Survives(w, Reaped(w))
  BY <1>e, <1>1, <1>2, ReapedSound
<1>. QED
  BY <1>e, <1>3, CalmIs DEF e

LEMMA ReapedHomed ==
    ASSUME NEW w, NEW to, Calm(w, Taken(to)), Homed(w, to)
    PROVE  Homed(Reaped(w), to)
<1>. DEFINE r == Reaped(w)
<1>1. Calm(r, Taken(to)) /\ Survives(w, r)
  BY ReapedCalm
<1>. HIDE DEF r
<1>2. \A c \in Creature : Calling(to, c) => r[c].at # "none"
  BY <1>1, CalledIsThere
<1>. QED
  BY <1>1, <1>2 DEF Homed, Survives, Plays, r

\* What a task makes of the world is sound, whoever is deleted in its end.
LEMMA TaskInv ==
    ASSUME IInv, NEW w, NEW to \in Board, Calm(w, Taken(to)), Homed(w, to),
           \A c \in Creature : Calling(to, c) => Calling(spawned, c), Becomes(w), spawned' = to
    PROVE  IInv'
<1>. DEFINE r == Reaped(w)
<1>1. Calm(r, Taken(to)) /\ Dead(r) = {} /\ Survives(w, r) /\ Homed(r, to)
  BY ReapedCalm, ReapedHomed
<1>2. world' = r
  BY DEF Becomes
<1>. HIDE DEF r
<1>3. ASSUME NEW s \in DOMAIN Places, to[s] # None, r[to[s]].at = "removed"
      PROVE  event'
  <2>. DEFINE c == to[s]
  <2>1. c \in Creature /\ Calling(to, c)
    BY <1>3, MonsterIs DEF Board, Calling
  <2>2. w[c].at = "removed" /\ ~Plays(w, c) /\ w[c].spawn /\ Calling(spawned, c)
    BY <1>1, <1>3, <2>1 DEF Survives, Homed, Plays
  <2>. HIDE DEF c
  <2>3. world[c].at # "none" /\ world[c].at \in {"none", "game", "removed"}
    BY <2>1, <2>2, CalledIsThere, CalmWorld DEF IInv, Things, Thing
  <2>4. CASE world[c].at = "game"
    BY <2>1, <2>2, <2>4 DEF Becomes, Plays
  <2>5. CASE world[c].at = "removed"
    <3>1. Lost # {}
      BY <2>1, <2>2, <2>5, CreaturesAssumption DEF Lost, Calling
    <3>. QED
      BY <3>1 DEF IInv, Becomes
  <2>. QED
    BY <2>3, <2>4, <2>5
<1>4. Lost' # {} => event'
  BY <1>2, <1>3 DEF Lost
<1>. QED
  BY <1>1, <1>2, <1>4 DEF IInv

\* No monster of the spawn comes by other tasks.
NoneJoins(w, v) ==
    \A b \in Creature : v[b].spawn = w[b].spawn /\ (v[b].at = "game" => w[b].at = "game" \/ ~v[b].spawn)

LEMMA BecomesInv ==
    ASSUME NEW w, IInv, Calm(w, Taken(spawned)), NoneJoins(world, w), Becomes(w), UNCHANGED spawned
    PROVE  IInv'
<1>1. Homed(w, spawned)
  BY DEF IInv, Homed, NoneJoins, Plays
<1>. QED
  BY <1>1, TaskInv DEF IInv

LEMMA PassesJoins ==
    ASSUME NEW w, NEW v, Passes(w, v)
    PROVE  NoneJoins(w, v)
BY DEF Passes, NoneJoins

LEMMA PlacedJoins ==
    ASSUME NEW w \in Things, Clean(w), NEW v \in Things, NEW u, NEW c \in Creature, w[c].at = "none", NEW x, NEW a,
           Placed(w, v, c, x, a), Framed(v, u)
    PROVE  /\ NoneJoins(w, u)
           /\ \A b \in Creature : u[b].spawn = w[b].spawn /\ (b # c => u[b].at = w[b].at)
<1>1. ~w[c].spawn /\ w[c].spawn \in BOOLEAN /\ v[c].spawn \in BOOLEAN
  BY NothingIs DEF Clean, Things, Thing
<1>2. ASSUME NEW b \in Creature
      PROVE  u[b].spawn = w[b].spawn /\ (b # c => u[b].at = w[b].at) /\ (b = c => ~u[b].spawn)
  <2>1. u[b].spawn = v[b].spawn /\ u[b].at = v[b].at
    BY DEF Framed, SamePlace
  <2>2. CASE b = c
    BY <1>1, <2>1, <2>2 DEF Placed
  <2>3. CASE b # c
    BY <2>1, <2>3 DEF Placed
  <2>. QED
    BY <2>2, <2>3
<1>. QED
  BY <1>2 DEF NoneJoins

LEMMA InitialIs ==
    ASSUME NEW x \in Spot, NEW r, r = [Nothing EXCEPT !.at = "game", !.spawn = TRUE, !.refs = 2, !.spot = x]
    PROVE  /\ r \in Thing /\ r.at = "game" /\ r.spawn /\ r.refs = 2 /\ r.alive /\ r.idle
           /\ ~r.listed /\ r.freed = 0 /\ r.targets = {} /\ r.friends = {} /\ r.summons = {}
           /\ r.attacked = None /\ r.follow = None /\ r.master = None
<1>. DEFINE s == [Nothing EXCEPT !.at = "game"]
            t == [s EXCEPT !.spawn = TRUE]
            u == [t EXCEPT !.refs = 2]
            Rest(y) == /\ y.alive /\ y.idle /\ ~y.listed /\ y.freed = 0 /\ y.targets = {} /\ y.friends = {}
                       /\ y.summons = {} /\ y.attacked = None /\ y.follow = None /\ y.master = None
<1>1. s \in Thing /\ s.at = "game" /\ Rest(s)
  BY NothingIs DEF Thing
<1>. HIDE DEF s
<1>2. t \in Thing /\ t.at = "game" /\ t.spawn /\ Rest(t)
  BY <1>1 DEF Thing
<1>. HIDE DEF t
<1>3. u \in Thing /\ u.at = "game" /\ u.spawn /\ Rest(u) /\ u.refs = 2
  BY <1>2 DEF Thing
<1>. HIDE DEF u
<1>4. r = [u EXCEPT !.spot = x]
  BY DEF u, t, s
<1>. QED
  BY <1>3, <1>4 DEF Thing

LEMMA InitInv == Init => IInv
<1>. SUFFICES ASSUME Init PROVE IInv
  OBVIOUS
<1>. DEFINE w == world
            e == Taken(spawned)
            E == {}
<1>1. /\ spawned \in Board /\ \A p \in Player : ~Calling(spawned, p)
      /\ \A s \in DOMAIN Places : spawned[s] \in Monster /\ spawned[s] \in Creature
  BY MonsterIs, PlayerIs DEF Init, Board, Calling
<1>2. ASSUME NEW c \in Creature
      PROVE  /\ w[c] \in Thing /\ w[c].alive /\ w[c].idle
             /\ ~w[c].listed /\ w[c].freed = 0 /\ w[c].targets = {} /\ w[c].friends = {} /\ w[c].summons = {}
             /\ w[c].attacked = None /\ w[c].follow = None /\ w[c].master = None
             /\ (Calling(spawned, c) => w[c].at = "game" /\ w[c].refs = 2 /\ w[c].spawn)
             /\ (~Calling(spawned, c) => w[c] = Nothing)
  <2>1. CASE Calling(spawned, c)
    <3>. DEFINE x == Places[CHOOSE s \in DOMAIN Places : spawned[s] = c]
    <3>1. x \in Spot
      BY <2>1, CreaturesAssumption DEF Calling
    <3>2. w[c] = [Nothing EXCEPT !.at = "game", !.spawn = TRUE, !.refs = 2, !.spot = x]
      BY <2>1 DEF Init, Calling
    <3>. DEFINE r == w[c]
    <3>. HIDE DEF x, w
    <3>3. r = [Nothing EXCEPT !.at = "game", !.spawn = TRUE, !.refs = 2, !.spot = x]
      BY <3>2
    <3>. HIDE DEF r
    <3>4. /\ r \in Thing /\ r.at = "game" /\ r.spawn /\ r.refs = 2 /\ r.alive /\ r.idle
          /\ ~r.listed /\ r.freed = 0 /\ r.targets = {} /\ r.friends = {} /\ r.summons = {}
          /\ r.attacked = None /\ r.follow = None /\ r.master = None
      BY <3>1, <3>3, InitialIs
    <3>. QED
      BY <2>1, <3>4 DEF r
  <2>2. CASE ~Calling(spawned, c)
    <3>1. w[c] = Nothing
      BY <2>2 DEF Init, Calling
    <3>. QED
      BY <2>2, <3>1, NothingIs
  <2>. QED
    BY <2>1, <2>2
<1>3. w = [c \in Creature |-> w[c]]
  BY DEF Init
<1>. HIDE DEF w, e
<1>4. w \in Things
  BY <1>2, <1>3 DEF Things
<1>5. w \in World /\ Ranked(w)
  BY <1>2, <1>4, PlayerIs DEF World, Ranked
<1>6. ASSUME NEW c \in Creature
      PROVE  /\ Excess(w, c) = e[c] /\ (w[c].at = "none" => w[c] = Nothing)
             /\ (Plays(w, c) => c \notin Player)
  <2>1. ~Serves(w, c) /\ Targeting(w, c) = {} /\ Befriending(w, c) = {}
    BY <1>2, MonsterIs DEF Serves, Targeting, Befriending
  <2>2. Held(w, c) = B(Plays(w, c))
    <3>1. Cardinality(Targeting(w, c)) = 0 /\ Cardinality(Befriending(w, c)) = 0
      BY <2>1, FS_EmptySet
    <3>2. B(w[c].listed) = 0 /\ w[c].freed = 0 /\ B(Serves(w, c)) = 0
      BY <1>2, <2>1 DEF B
    <3>3. B(Plays(w, c)) \in Nat
      BY DEF B
    <3>. QED
      BY <3>1, <3>2, <3>3 DEF Held
  <2>3. CASE Calling(spawned, c)
    <3>1. e[c] = 1 /\ w[c].at = "game" /\ w[c].refs = 2
      BY <1>2, <2>3, TakenIs DEF e
    <3>2. Held(w, c) = 1
      BY <2>2, <3>1 DEF B, Plays
    <3>. QED
      BY <1>1, <2>3, <3>1, <3>2 DEF Excess
  <2>4. CASE ~Calling(spawned, c)
    <3>1. e[c] = 0 /\ w[c].at = "none" /\ w[c].refs = 0 /\ w[c] = Nothing
      BY <1>2, <2>4, TakenIs, NothingIs DEF e
    <3>2. Held(w, c) = 0 /\ ~Plays(w, c)
      BY <2>2, <3>1 DEF B, Plays
    <3>. QED
      BY <3>1, <3>2 DEF Excess
  <2>. QED
    BY <2>3, <2>4
<1>7. Sound(w, e, E, E, E, E)
  <2>1. LookedBut(w, E)
    BY <1>2, <1>6 DEF LookedBut, Looked
  <2>2. AimsBut(w, E) /\ MastersBut(w, E)
    BY <1>2 DEF AimsBut, MastersBut, InGame
  <2>3. AwakeBut(w, E)
    BY <1>6, PlayerIs DEF AwakeBut, Woken, Wakes
  <2>. QED
    BY <1>5, <1>6, <2>1, <2>2, <2>3 DEF Sound, Clean, CountedWith
<1>8. Dead(w) = {}
  BY <1>2, NothingIs DEF Dead
<1>9. Calm(w, e)
  BY <1>7 DEF Calm
<1>10. Homed(w, spawned)
  BY <1>2, NothingIs DEF Homed
<1>11. Lost = {}
  BY <1>1, <1>2, NothingIs DEF Lost, Calling, w
<1>. QED
  BY <1>1, <1>8, <1>9, <1>10, <1>11 DEF IInv, w, e

-----------------------------------------------------------------------------
(* Each task keeps it. *)

Shown(v, c, x) == AddCheck(AllAppear(v, Spectators(v, x), c), c)

LEMMA PlaceIs ==
    ASSUME NEW w, NEW c, NEW x
    PROVE  Place(w, c, x) = Shown(AddRef(Settled(w, c, x), c), c, x)
BY DEF Place, Shown, Settled, AllAppear

\* Placed by nobody.
LEMMA PlaceAloneCalm ==
    ASSUME NEW w, NEW e, Calm(w, e), NEW c \in Creature, w[c].at = "none", NEW x \in Spot
    PROVE  /\ Calm(Place(w, c, x), e) /\ Place(w, c, x)[c].at = "game" /\ NoneJoins(w, Place(w, c, x))
           /\ \A b \in Creature : /\ Place(w, c, x)[b].spawn = w[b].spawn
                                  /\ b # c => Place(w, c, x)[b].at = w[b].at
<1>. DEFINE v == AddRef(Settled(w, c, x), c)
            u == Shown(v, c, x)
            a == None
<1>a. a \in Creature \cup {None} /\ ~(a # None)
  OBVIOUS
<1>1. w \in Things /\ Clean(w)
  BY CalmWorld
<1>2. v \in Things /\ Placed(w, v, c, x, a)
  BY <1>1, EntersPlaced
<1>3. Place(w, c, x) = u
  BY PlaceIs
<1>4. u = AddCheck(AllAppear(v, Spectators(v, x), c), c)
  BY DEF Shown
<1>. HIDE DEF v, u, a
<1>5. Calm(u, e) /\ u[c].at = "game" /\ Framed(v, u)
  BY <1>a, <1>2, <1>4, PlaceCalm
<1>6. NoneJoins(w, u) /\ \A b \in Creature : u[b].spawn = w[b].spawn /\ (b # c => u[b].at = w[b].at)
  BY <1>1, <1>2, <1>5, PlacedJoins
<1>. QED
  BY <1>3, <1>5, <1>6

LEMMA EntersInv ==
    ASSUME IInv, NEW c \in Player, NEW x \in Spot, Enters(c, x)
    PROVE  IInv'
<1>1. c \in Creature /\ world[c].at = "none" /\ Calm(world, Taken(spawned))
  BY PlayerIs DEF Enters, Free, IInv
<1>2. Calm(Place(world, c, x), Taken(spawned)) /\ NoneJoins(world, Place(world, c, x))
  BY <1>1, PlaceAloneCalm
<1>. QED
  BY <1>2, BecomesInv DEF Enters

LEMMA SummonsInv ==
    ASSUME IInv, NEW a \in Creature, NEW m \in Monster, Summons(a, m)
    PROVE  IInv'
<1>. DEFINE x == world[a].spot
            v == AddRef(Settled(AddSummon(world, a, m), m, x), m)
            u == Shown(v, m, x)
            e == Taken(spawned)
<1>1. /\ m \in Creature /\ world[m].at = "none" /\ Calm(world, e)
      /\ Plays(world, a) /\ ~IsSummon(world, a)
  BY MonsterIs DEF Summons, Free, IInv
<1>2. world \in Things /\ Clean(world) /\ x \in Spot
  BY <1>1, CalmWorld DEF Things, Thing
<1>. HIDE DEF x, e
<1>3. v \in Things /\ Placed(world, v, m, x, a)
  BY <1>1, <1>2, SummonPlaced
<1>4. Place(AddSummon(world, a, m), m, x) = u
  BY PlaceIs
<1>5. u = AddCheck(AllAppear(v, Spectators(v, x), m), m)
  BY DEF Shown
<1>. HIDE DEF v, u
<1>6. Calm(u, e) /\ NoneJoins(world, u)
  BY <1>1, <1>2, <1>3, <1>5, PlaceCalm, PlacedJoins
<1>7. Becomes(u) /\ UNCHANGED spawned
  BY <1>4 DEF Summons, x
<1>. QED
  BY <1>6, <1>7, BecomesInv DEF e

LEMMA RemovesInv ==
    ASSUME IInv, NEW c \in Creature, Removes(c)
    PROVE  IInv'
<1>. DEFINE E == {}
            e == Taken(spawned)
            v == RemoveCreature(world, c)
<1>e. E = {}
  OBVIOUS
<1>. HIDE DEF E
<1>1. Sound(world, e, E, E, E, E)
  BY <1>e, CalmIs DEF IInv
<1>. HIDE DEF e
<1>2. Sound(v, e, E, E, E, E) /\ Departs(world, v, {c} \cup world[c].summons)
  BY <1>1, RemoveCreatureSound
<1>. HIDE DEF v
<1>3. Calm(v, e) /\ NoneJoins(world, v)
  BY <1>2, <1>e, CalmIs, DepartsPasses, PassesJoins
<1>. QED
  BY <1>3, BecomesInv DEF Removes, v, e

LEMMA MovesInv ==
    ASSUME IInv, NEW c \in Creature, NEW x \in Spot, Moves(c, x)
    PROVE  IInv'
<1>1. Plays(world, c) /\ Calm(world, Taken(spawned)) /\ world \in World
  BY CalmWorld DEF Moves, IInv
<1>2. PICK far \in SUBSET {s \in world[c].summons : ~Near(world[s].spot, x)} :
          Becomes(Moved(world, c, x, far))
  BY DEF Moves
<1>3. far \in SUBSET Creature
  BY <1>1, <1>2, ListsOf
<1>4. Calm(Moved(world, c, x, far), Taken(spawned)) /\ NoneJoins(world, Moved(world, c, x, far))
  BY <1>1, <1>3, MovedCalm, PassesJoins
<1>. QED
  BY <1>2, <1>4, BecomesInv DEF Moves

LEMMA HitsInv ==
    ASSUME IInv, NEW c \in Creature, Hits(c)
    PROVE  IInv'
<1>. DEFINE E == {}
            e == Taken(spawned)
            v == Wound(world, c)
<1>e. E = {} /\ world[c].at # "none"
  BY DEF Hits, Plays
<1>. HIDE DEF E
<1>1. Sound(world, e, E, E, E, E)
  BY <1>e, CalmIs DEF IInv
<1>. HIDE DEF e
<1>2. Sound(v, e, E, E, E, E) /\ SameRank(world, v)
  BY <1>e, <1>1, WoundSound
<1>. HIDE DEF v
<1>3. Calm(v, e) /\ NoneJoins(world, v)
  BY <1>2, <1>e, CalmIs DEF SameRank, NoneJoins
<1>. QED
  BY <1>3, BecomesInv DEF Hits, v, e

LEMMA HealsInv ==
    ASSUME IInv, NEW c \in Player, Heals(c)
    PROVE  IInv'
<1>. DEFINE E == {}
            e == Taken(spawned)
            yes == TRUE
            v == Healthy(world, c, yes)
<1>e. E = {} /\ world[c].at # "none" /\ c \in Creature /\ yes \in BOOLEAN /\ (yes => c \in Player) /\ Plays(world, c)
  BY PlayerIs DEF Heals, Plays
<1>. HIDE DEF E, yes
<1>1. Sound(world, e, E, E, E, E)
  BY <1>e, CalmIs DEF IInv
<1>. HIDE DEF e
<1>2. world[c].checked /\ world[c].listed
  BY <1>e, <1>1 DEF Sound, LookedBut, Looked
<1>3. Sound(v, e, E, E, E, E) /\ NoneJoins(world, v)
  <2>1. Sound(v, e, E, E, E, E)
    BY <1>e, <1>1, <1>2, HealthySound
  <2>2. \A b \in Creature : SameSelf(world[b], v[b])
    BY <1>e, CalmWorld, HealthyIs DEF IInv
  <2>. QED
    BY <2>1, <2>2 DEF SameSelf, NoneJoins
<1>4. v = [world EXCEPT ![c].alive = TRUE]
  BY DEF Healthy, yes
<1>. HIDE DEF v
<1>5. Calm(v, e)
  BY <1>3, <1>e, CalmIs
<1>. QED
  BY <1>3, <1>4, <1>5, BecomesInv DEF Heals, e

LEMMA AttacksInv ==
    ASSUME IInv, NEW p \in Player, NEW c \in Creature \cup {None}, Attacks(p, c)
    PROVE  IInv'
<1>. DEFINE D == Creature
            e == Taken(spawned)
            v == SetAttacked(world, p, c)
<1>1. D \in SUBSET Creature /\ Target(world, c, D) /\ p \in Creature /\ world[p].at # "none"
  BY PlayerIs DEF Attacks, Target, Plays
<1>2. Calm(world, e) /\ world \in World
  BY CalmWorld DEF IInv
<1>. HIDE DEF D, e
<1>3. Told(world, v, None, D)
  BY <1>1, <1>2, SetAttackedTold
<1>. HIDE DEF v
<1>4. Calm(v, e) /\ NoneJoins(world, v)
  BY <1>1, <1>2, <1>3, ToldCalm, ToldPasses, PassesJoins
<1>. QED
  BY <1>4, BecomesInv DEF Attacks, v, e

LEMMA CleanupCalm ==
    ASSUME NEW w, NEW e, Calm(w, e)
    PROVE  Calm(Cleanup(w), e) /\ Passes(w, Cleanup(w))
<1>. DEFINE E == {}
<1>e. E = {}
  OBVIOUS
<1>. HIDE DEF E
<1>1. Sound(w, e, E, E, E, E)
  BY <1>e, CalmIs
<1>2. Sound(Cleanup(w), e, E, E, E, E)
  BY <1>1, CleanupSound
<1>3. w \in Things
  BY CalmWorld
<1>4. Passes(w, Cleanup(w))
  <2>. SUFFICES ASSUME NEW b \in Creature
                PROVE  Cleanup(w)[b].spawn = w[b].spawn /\ Cleanup(w)[b].at = w[b].at
    BY DEF Passes
  <2>1. w[b] \in Thing /\ Cleanup(w)[b] = [w[b] EXCEPT !.refs = @ - w[b].freed, !.freed = 0]
    BY <1>3 DEF Cleanup, Things
  <2>. QED
    BY <2>1 DEF Thing
<1>. QED
  BY <1>e, <1>2, <1>4, CalmIs

LEMMA ChecksNobodyInv ==
    ASSUME IInv, ChecksNobody
    PROVE  IInv'
<1>1. Calm(Cleanup(world), Taken(spawned)) /\ NoneJoins(world, Cleanup(world))
  BY CleanupCalm, PassesJoins DEF IInv
<1>. QED
  BY <1>1, BecomesInv DEF ChecksNobody

\* checkCreatures: one of the vector dies, thinks, or is taken out of it.
LEMMA ChecksInv ==
    ASSUME IInv, NEW c \in Creature, Checks(c)
    PROVE  IInv'
<1>. DEFINE E == {}
            e == Taken(spawned)
<1>e. E = {}
  OBVIOUS
<1>. HIDE DEF E
<1>0. Calm(world, e) /\ world[c].listed /\ UNCHANGED spawned
  BY DEF IInv, Checks
<1>. HIDE DEF e
<1>1. Sound(world, e, E, E, E, E)
  BY <1>e, <1>0, CalmIs
<1>2. world[c].at # "none"
  BY <1>0, CalmWorld, NothingIs DEF Clean
<1>3. CASE ~world[c].alive /\ Becomes(Cleanup(Death(world, c)))
  <2>. DEFINE v == Death(world, c)
  <2>1. Sound(v, e, E, E, E, E) /\ Passes(world, v)
    BY <1>1, <1>2, <1>3, DeathSound
  <2>. HIDE DEF v
  <2>2. Calm(Cleanup(v), e) /\ NoneJoins(world, Cleanup(v))
    BY <1>e, <2>1, CalmIs, CleanupCalm, PassesTwice, PassesJoins
  <2>. QED
    BY <1>0, <1>3, <2>2, BecomesInv DEF v, e
<1>4. CASE c \in Monster /\ \E w \in Thoughts(world, c) : \E v \in GivesUp(w, c) : Becomes(Cleanup(v))
  <2>1. PICK w \in Thoughts(world, c) : \E v \in GivesUp(w, c) : Becomes(Cleanup(v))
    BY <1>4
  <2>2. PICK v \in GivesUp(w, c) : Becomes(Cleanup(v))
    BY <2>1
  <2>3. Calm(w, e) /\ w[c].at # "none" /\ Passes(world, w)
    BY <1>0, <1>2, <1>4, ThoughtsCalm
  <2>4. Calm(v, e) /\ Passes(w, v)
    BY <1>4, <2>3, GivesUpCalm
  <2>5. Calm(Cleanup(v), e) /\ Passes(v, Cleanup(v))
    BY <2>4, CleanupCalm
  <2>6. NoneJoins(world, Cleanup(v))
    <3>1. Passes(world, v)
      BY <2>3, <2>4, PassesTwice
    <3>. QED
      BY <2>5, <3>1, PassesTwice, PassesJoins
  <2>. QED
    BY <1>0, <2>2, <2>5, <2>6, BecomesInv DEF e
<1>5. CASE ~world[c].checked /\ Becomes(Cleanup([world EXCEPT ![c].listed = FALSE, ![c].freed = @ + 1]))
  <2>. DEFINE v == Unlists(world, c)
  <2>1. v = [world EXCEPT ![c].listed = FALSE, ![c].freed = @ + 1]
    BY DEF Unlists
  <2>2. Sound(v, e, E, E, E, E)
    BY <1>0, <1>1, <1>5, UnlistsSound
  <2>4. Passes(world, v)
    BY <1>0, CalmWorld DEF Passes, Unlists, Things, Thing
  <2>. HIDE DEF v
  <2>3. Calm(Cleanup(v), e) /\ NoneJoins(world, Cleanup(v))
    BY <1>e, <2>2, <2>4, CalmIs, CleanupCalm, PassesTwice, PassesJoins
  <2>. QED
    BY <1>0, <1>5, <2>1, <2>3, BecomesInv DEF e
<1>. QED
  BY <1>3, <1>4, <1>5 DEF Checks

\* convinceCreature, which leaves the place of the spawn.
LEMMA ConvincesInv ==
    ASSUME IInv, NEW a \in Player, NEW m \in Monster, Convinces(a, m)
    PROVE  IInv'
<1>. DEFINE T == Spectators(world, world[m].spot) \cup Spectators(world, world[a].spot)
            q == Convinced(world, a, m, T)
            mine == {s \in DOMAIN Places : spawned[s] = m}
            S == {m} \cap {spawned[s] : s \in mine}
            r == Each(q, S, UnRef)
            no == FALSE
            to == Vacant(spawned, S)
<1>0. Plays(world, a) /\ Plays(world, m) /\ m \in Creature
  BY MonsterIs DEF Convinces
<1>1. Becomes(Marked(r, m, FALSE))
  BY DEF Convinces, Convinced, Obeys, Abandons, Quits, LooksAgain, InRanged, AllHear, Hears, Marked
<1>2. spawned' = [s \in DOMAIN Places |-> IF s \in mine THEN None ELSE spawned[s]]
  BY DEF Convinces
<1>3. spawned' = to
  <2>1. \A s \in DOMAIN Places : s \in mine <=> spawned[s] \in S
    OBVIOUS
  <2>. HIDE DEF S, mine
  <2>. QED
    BY <1>2, <2>1 DEF Vacant
<1>4. T \in SUBSET Creature /\ \A s \in T : world[s].at # "none"
  BY DEF Spectators, Plays
<1>. HIDE DEF T
<1>5. Calm(q, Taken(spawned)) /\ q[m].at # "none" /\ Passes(world, q)
  BY <1>0, <1>4, ConvincedCalm DEF IInv
<1>. HIDE DEF q
<1>6. /\ S \in SUBSET Creature /\ \A c \in S : Calling(spawned, c)
      /\ \A c \in Creature : Calling(to, c) <=> Calling(spawned, c) /\ c # m
  <2>1. S \subseteq {m} /\ (Calling(spawned, m) => m \in S)
    BY DEF Calling
  <2>2. ASSUME NEW c \in Creature
        PROVE  Calling(to, c) <=> Calling(spawned, c) /\ c # m
    <3>1. c # None
      BY CreaturesAssumption
    <3>. HIDE DEF S
    <3>. QED
      BY <2>1, <3>1 DEF Calling, Vacant
  <2>. QED
    BY <1>0, <2>1, <2>2 DEF Calling
<1>. HIDE DEF S
<1>7. to \in Board /\ Calm(r, Taken(to)) /\ Framed(q, r)
  BY <1>5, <1>6, VacantCalm DEF IInv
<1>8. r[m].at # "none" /\ no \in BOOLEAN /\ Passes(world, r)
  BY <1>0, <1>5, <1>7, FramedPasses, PassesTwice DEF Framed, SamePlace
<1>. DEFINE u == Marked(r, m, no)
<1>9. /\ \A b \in Creature : u[b].at = r[b].at
      /\ \A b \in Creature \ {m} : u[b].spawn = r[b].spawn
      /\ ~u[m].spawn
  BY <1>0, <1>7, CalmWorld DEF Marked, Things, Thing
<1>. HIDE DEF r, no, to
<1>10. Taken(to) \in [Creature -> Int]
  <2>1. \A c \in Creature : Taken(to)[c] \in Int
    BY TakenIs
  <2>2. Taken(to) = [c \in Creature |-> Taken(to)[c]]
    BY DEF Taken
  <2>. QED
    BY <2>1, <2>2
<1>11. Calm(u, Taken(to))
  BY <1>0, <1>7, <1>8, <1>10, MarkedCalm
<1>12. Becomes(u)
  BY <1>1 DEF no
<1>. HIDE DEF u
<1>13. Homed(u, to)
  BY <1>6, <1>8, <1>9 DEF IInv, Homed, Passes, Plays
<1>. QED
  BY <1>3, <1>6, <1>7, <1>11, <1>12, <1>13, TaskInv

\* checkSpawn: places are freed, and one may get a monster.
LEMMA CheckSpawnInv ==
    ASSUME IInv, CheckSpawn
    PROVE  IInv'
<1>. DEFINE S == {spawned[s] : s \in Lost}
            w == Each(world, S, UnRef)
            empty == {s \in DOMAIN Places : spawned[s] = None} \cup Lost
            kept == [s \in DOMAIN Places |-> IF s \in empty THEN None ELSE spawned[s]]
            to == Vacant(spawned, S)
            Fills(s, m, v) == /\ world' = Reaped(AddRef(Marked(v, m, TRUE), m))
                              /\ spawned' = [to EXCEPT ![s] = m]
<1>1. kept = to
  <2>1. ASSUME NEW s \in DOMAIN Places
        PROVE  kept[s] = to[s]
    <3>1. CASE s \in Lost
      BY <3>1 DEF Vacant
    <3>2. CASE s \notin Lost
      <4>1. spawned[s] \notin S \/ spawned[s] = None
        BY <3>2 DEF Lost
      <4>. QED
        BY <3>2, <4>1 DEF Vacant
    <3>. QED
      BY <3>1, <3>2
  <2>. QED
    BY <2>1 DEF Vacant
<1>2. \/ world' = Reaped(w) /\ spawned' = to
      \/ \E s \in empty, m \in Monster : Free(m) /\ Fills(s, m, Place(w, m, Places[s]))
  BY <1>1 DEF CheckSpawn, Marked
<1>3. /\ S \in SUBSET Creature /\ \A c \in S : Calling(spawned, c) /\ world[c].at = "removed"
      /\ \A c \in Creature \ S : Calling(spawned, c) => world[c].at # "removed"
  BY MonsterIs, CreaturesAssumption DEF Lost, Calling, IInv, Board
<1>4. \A s \in empty : s \in DOMAIN Places /\ to[s] = None
  BY <1>1 DEF Lost
<1>. HIDE DEF S, empty, kept
<1>5. to \in Board /\ Calm(w, Taken(to)) /\ Framed(world, w)
  BY <1>3, VacantCalm DEF IInv
<1>6. \A c \in Creature : Calling(to, c) <=> Calling(spawned, c) /\ c \notin S
  BY CreaturesAssumption DEF Calling, Vacant
<1>. HIDE DEF w, to
<1>7. Homed(w, to) /\ \A c \in Creature : Calling(to, c) => w[c].at # "removed"
  BY <1>3, <1>5, <1>6 DEF IInv, Homed, Framed, SamePlace, Plays
<1>8. ASSUME NEW r, NEW on \in Board, Calm(r, Taken(on)), Homed(r, on),
             \A c \in Creature : Calling(on, c) => r[c].at # "removed", world' = Reaped(r), spawned' = on
      PROVE  IInv'
  <2>1. Calm(Reaped(r), Taken(on)) /\ Dead(Reaped(r)) = {} /\ Survives(r, Reaped(r)) /\ Homed(Reaped(r), on)
    BY <1>8, ReapedCalm, ReapedHomed
  <2>2. ASSUME NEW s \in DOMAIN Places, on[s] # None
        PROVE  Reaped(r)[on[s]].at # "removed"
    <3>1. on[s] \in Creature /\ Calling(on, on[s])
      BY <2>2, MonsterIs DEF Board, Calling
    <3>. QED
      BY <1>8, <2>1, <3>1 DEF Survives
  <2>3. Lost' = {}
    BY <1>8, <2>2 DEF Lost
  <2>. QED
    BY <1>8, <2>1, <2>3 DEF IInv
<1>9. CASE world' = Reaped(w) /\ spawned' = to
  BY <1>5, <1>7, <1>8, <1>9
<1>10. ASSUME NEW s \in empty, NEW m \in Monster, Free(m), Fills(s, m, Place(w, m, Places[s]))
       PROVE  IInv'
  <2>. DEFINE v == Place(w, m, Places[s])
              yes == TRUE
              k == Marked(v, m, yes)
              u == AddRef(k, m)
              on == [to EXCEPT ![s] = m]
  <2>1. /\ m \in Creature /\ w[m].at = "none" /\ Places[s] \in Spot /\ yes \in BOOLEAN /\ yes
        /\ s \in DOMAIN Places /\ to[s] = None
    BY <1>4, <1>5, <1>10, MonsterIs, CreaturesAssumption DEF Free, Framed, SamePlace
  <2>2. ~Calling(to, m)
    BY <1>5, <2>1, CalledIsThere
  <2>3. /\ Calm(v, Taken(to)) /\ v[m].at = "game"
        /\ \A b \in Creature : v[b].spawn = w[b].spawn /\ (b # m => v[b].at = w[b].at)
    BY <1>5, <2>1, PlaceAloneCalm
  <2>4. world' = Reaped(u) /\ spawned' = on
    BY <1>10
  <2>. HIDE DEF v, yes
  <2>5. Taken(to) \in [Creature -> Int]
    <3>1. \A c \in Creature : Taken(to)[c] \in Int
      BY TakenIs
    <3>2. Taken(to) = [c \in Creature |-> Taken(to)[c]]
      BY DEF Taken
    <3>. QED
      BY <3>1, <3>2
  <2>6. Calm(k, Taken(to))
    BY <2>1, <2>3, <2>5, MarkedCalm
  <2>7. k \in Things /\ k[m].at = "game" /\ k[m].spawn /\ \A b \in Creature \ {m} : k[b] = v[b]
    <3>1. v \in Things
      BY <2>3, CalmWorld
    <3>2. k \in Things /\ k[m].at = "game" /\ k[m].spawn = yes /\ \A b \in Creature \ {m} : k[b] = v[b]
      BY <2>1, <2>3, <3>1, MarkedIs
    <3>. QED
      BY <2>1, <3>2
  <2>. HIDE DEF k
  <2>8. on \in Board /\ Calm(u, Taken(on))
    BY <1>5, <2>1, <2>2, <2>6, <2>7, FilledCalm
  <2>9. u[m].at = "game" /\ u[m].spawn /\ \A b \in Creature \ {m} : u[b].at = v[b].at /\ u[b].spawn = v[b].spawn
    <3>1. Counted(k, u, {m}, 1)
      BY <2>1, <2>7, OneMore
    <3>. QED
      BY <2>1, <2>7, <3>1 DEF Counted, Plus, SamePlace
  <2>10. \A c \in Creature : Calling(on, c) <=> Calling(to, c) \/ c = m
    BY <1>5, <2>1, CreaturesAssumption DEF Calling, Board
  <2>. HIDE DEF u, on
  <2>11. Homed(u, on)
    <3>. SUFFICES ASSUME NEW c \in Creature
                  PROVE  (Calling(on, c) => u[c].spawn) /\ (Plays(u, c) /\ u[c].spawn => Calling(on, c))
      BY DEF Homed
    <3>1. CASE c = m
      BY <2>9, <2>10, <3>1
    <3>2. CASE c # m
      <4>1. u[c].at = w[c].at /\ u[c].spawn = w[c].spawn
        BY <2>3, <2>9, <3>2
      <4>. QED
        BY <1>7, <2>10, <3>2, <4>1 DEF Homed, Plays
    <3>. QED
      BY <3>1, <3>2
  <2>12. ASSUME NEW c \in Creature, Calling(on, c)
         PROVE  u[c].at # "removed"
    <3>1. CASE c = m
      BY <2>9, <3>1
    <3>2. CASE c # m
      BY <1>7, <2>3, <2>9, <2>10, <2>12, <3>2
    <3>. QED
      BY <3>1, <3>2
  <2>. QED
    BY <1>8, <2>4, <2>8, <2>11, <2>12
<1>. QED
  BY <1>2, <1>9, <1>10

-----------------------------------------------------------------------------
(* The theorems. *)

\* Every task, and every visit of checkCreatures, keeps the inductive invariant:
\* a creature that is not deleted is counted, pointed at and looked at as it
\* should be.
LEMMA NextInv == IInv /\ [Next]_vars => IInv'
<1>. SUFFICES ASSUME IInv, [Next]_vars PROVE IInv'
  OBVIOUS
<1>1. ASSUME NEW p \in Player, NEW x \in Spot, Enters(p, x)
      PROVE  IInv'
  BY <1>1, EntersInv
<1>2. ASSUME NEW c \in Creature, NEW x \in Spot, Moves(c, x)
      PROVE  IInv'
  BY <1>2, MovesInv
<1>3. ASSUME NEW c \in Creature, NEW m \in Monster, Summons(c, m)
      PROVE  IInv'
  BY <1>3, SummonsInv
<1>4. ASSUME NEW p \in Player, NEW m \in Monster, Convinces(p, m)
      PROVE  IInv'
  BY <1>4, ConvincesInv
<1>5. ASSUME NEW c \in Creature, Removes(c) \/ Hits(c) \/ Checks(c)
      PROVE  IInv'
  BY <1>5, RemovesInv, HitsInv, ChecksInv
<1>6. ASSUME NEW p \in Player, Heals(p) \/ \E c \in Creature \cup {None} : Attacks(p, c)
      PROVE  IInv'
  BY <1>6, HealsInv, AttacksInv
<1>7. CASE ChecksNobody
  BY <1>7, ChecksNobodyInv
<1>8. CASE CheckSpawn
  BY <1>8, CheckSpawnInv
<1>9. CASE UNCHANGED vars
  BY <1>9 DEF vars, IInv, Dead, Lost
<1>. QED
  BY <1>1, <1>2, <1>3, <1>4, <1>5, <1>6, <1>7, <1>8, <1>9 DEF Next

\* What the theorems rest on: the inductive invariant holds.
THEOREM Keeps == Spec => []IInv
<1>1. Init => IInv
  BY InitInv
<1>2. IInv /\ [Next]_vars => IInv'
  BY NextInv
<1>. QED
  BY <1>1, <1>2, PTL DEF Spec

\* The count of Thing::unRef: what the invariant counts is what CountIsExact does.
LEMMA CountFollows == IInv => CountIsExact
<1>. SUFFICES ASSUME IInv, NEW c \in Creature
              PROVE  world[c].refs = Holders(c) /\ (world[c].refs = 0 <=> world[c].at = "none")
  BY DEF CountIsExact
<1>1. /\ Calm(world, Taken(spawned)) /\ world \in Things /\ Clean(world)
      /\ Excess(world, c) = Taken(spawned)[c] /\ Dead(world) = {}
  BY CalmWorld DEF IInv, Calm, Sound, CountedWith
<1>. DEFINE i == B(Plays(world, c))
            j == B(world[c].listed)
            k == world[c].freed
            l == B(Serves(world, c))
            t == Taken(spawned)[c]
            n == Cardinality(Targeting(world, c))
            f == Cardinality(Befriending(world, c))
            r == world[c].refs
<1>2. Holders(c) = i + j + k + l + t + n + f
  BY DEF Holders, Serves, Taken, Targeting, Befriending
<1>3. Excess(world, c) = r - (i + j + k + l + n + f)
  BY DEF Excess, Held
<1>4. i \in Nat /\ j \in Nat /\ k \in Nat /\ l \in Nat /\ t \in Nat /\ n \in Nat /\ f \in Nat /\ r \in Int
  BY <1>1, HeldIsNat, TakenIs DEF B
<1>5. /\ Plays(world, c) => i = 1
      /\ r = 0 => world[c].at # "removed"
      /\ world[c].at = "none" => r = 0
      /\ world[c].at \in {"none", "game", "removed"}
  <2>1. Plays(world, c) => i = 1
    BY DEF B
  <2>2. r = 0 => world[c].at # "removed"
    BY <1>1 DEF Dead
  <2>3. world[c].at = "none" => r = 0
    BY <1>1, NothingIs DEF Clean
  <2>4. world[c].at \in {"none", "game", "removed"}
    BY <1>1 DEF Things, Thing
  <2>. QED
    BY <2>1, <2>2, <2>3, <2>4
<1>6. Plays(world, c) <=> world[c].at = "game"
  BY DEF Plays
<1>. HIDE DEF i, j, k, l, t, n, f, r
<1>7. r = Holders(c)
  BY <1>1, <1>2, <1>3, <1>4 DEF t
<1>8. Plays(world, c) => r >= 1
  BY <1>2, <1>4, <1>5, <1>7
<1>9. r = 0 <=> world[c].at = "none"
  BY <1>4, <1>5, <1>6, <1>8
<1>. QED
  BY <1>7, <1>9 DEF r

\* The count of a creature (Thing::addRef, Thing::unRef) is always that of the
\* references to it, whatever attacks, moves, summons, convinces, dies or is
\* removed in whatever order: it is deleted when the last is given up, and not
\* before.
THEOREM CountsAreExact == Spec => []CountIsExact
BY Keeps, CountFollows, PTL

\* The pointers that hold no reference (attackedCreature, followCreature, the
\* master) never outlive the creature: onCreatureDisappear and onCreatureMove
\* reach all who have one.
THEOREM PointersHold == Spec => []PointersAreInGame
<1>1. IInv => PointersAreInGame
  <2>. SUFFICES ASSUME IInv, NEW c \in InGame(world)
                PROVE  /\ {world[c].attacked, world[c].follow, world[c].master} \subseteq InGame(world) \cup {None}
                       /\ world[c].master # None => c \in world[world[c].master].summons
    BY DEF PointersAreInGame
  <2>1. /\ \A d \in {world[c].attacked, world[c].follow} : d = None \/ Plays(world, d)
        /\ world[c].master # None => Plays(world, world[c].master) /\ c \in world[world[c].master].summons
    BY CalmWorld DEF IInv
  <2>2. {world[c].attacked, world[c].follow, world[c].master} \subseteq Creature \cup {None}
    BY CalmWorld DEF IInv, InGame, Things, Thing
  <2>. QED
    BY <2>1, <2>2 DEF InGame
<1>. QED
  BY <1>1, Keeps, PTL

\* Nobody is forgotten by checkCreatures, and a monster that sees a player has
\* him for a target and is awake, however each came to where he is.
THEOREM NobodyForgotten == Spec => []NobodyIsForgotten
<1>1. IInv => NobodyIsForgotten
  <2>. SUFFICES ASSUME IInv PROVE NobodyIsForgotten
    OBVIOUS
  <2>1. (\A c \in Creature : Looked(world, c)) /\ (\A m \in Monster, p \in Player : Woken(world, m, p))
    BY DEF IInv, Calm, Sound, LookedBut, AwakeBut
  <2>2. ChecksAreDue
    BY <2>1 DEF ChecksAreDue, Looked, InGame
  <2>3. WakesForPlayers
    BY <2>1 DEF WakesForPlayers, Woken, Wakes, InGame
  <2>. QED
    BY <2>2, <2>3 DEF NobodyIsForgotten
<1>. QED
  BY <1>1, Keeps, PTL

\* The monsters of the spawn that are in the game have different places.
Roomy == Cardinality({c \in InGame(world) : world[c].spawn}) <= Cardinality(DOMAIN Places)

LEMMA PlacesSuffice == IInv => Roomy
<1>. SUFFICES ASSUME IInv PROVE Roomy
  OBVIOUS
<1>. DEFINE D == DOMAIN Places
            T == {spawned[s] : s \in D}
            K == {c \in InGame(world) : world[c].spawn}
            f == [s \in D |-> spawned[s]]
<1>1. IsFiniteSet(D) /\ f \in Surjection(D, T)
  BY CreaturesAssumption DEF Surjection
<1>2. K \in SUBSET T
  BY DEF IInv, Homed, InGame, Calling
<1>. HIDE DEF f, T, K
<1>3. IsFiniteSet(T) /\ Cardinality(T) <= Cardinality(D)
  BY <1>1, FS_Surjection
<1>4. IsFiniteSet(K) /\ Cardinality(K) <= Cardinality(T)
  BY <1>2, <1>3, FS_Subset
<1>5. Cardinality(K) \in Nat /\ Cardinality(T) \in Nat /\ Cardinality(D) \in Nat
  BY <1>1, <1>3, <1>4, FS_CardinalityType
<1>6. Cardinality(K) <= Cardinality(D)
  BY <1>3, <1>4, <1>5
<1>. QED
  BY <1>6 DEF K, Roomy

\* startEvent and the end of checkSpawn: the event stays set as long as a place is
\* empty.
LEMMA EventStays == Next /\ event /\ None \in {spawned'[s] : s \in DOMAIN Places} => event'
<1>1. ASSUME NEW w, Becomes(w), event
      PROVE  event'
  BY <1>1 DEF Becomes
<1>2. ASSUME CheckSpawn, None \in {spawned'[s] : s \in DOMAIN Places}
      PROVE  event'
  BY <1>2 DEF CheckSpawn, GoesOn
<1>. QED
  BY <1>1, <1>2 DEF Next, Enters, Moves, Summons, Convinces, Removes, Hits, Checks, Heals, Attacks, ChecksNobody

\* A spawn never has more monsters in the game than places; a place that has lost
\* its monster, however that went, will be looked at by checkSpawn; and once a look
\* is due, one stays due until every place is taken.
THEOREM PlacesStayWatched == Spec => PlacesAreWatched
<1>1. IInv /\ IInv' /\ [Next]_vars
        => [/\ Cardinality({c \in InGame(world) : world[c].spawn})' <= Cardinality(DOMAIN Places)
            /\ Lost' # {} => event'
            /\ event /\ None \in {spawned'[s] : s \in DOMAIN Places} => event']_vars
  <2>1. IInv' => Roomy'
    BY PlacesSuffice, PTL
  <2>2. IInv' => (Lost' # {} => event')
    BY DEF IInv
  <2>. QED
    BY <2>1, <2>2, EventStays DEF Roomy
<1>. QED
  BY <1>1, Keeps, PTL DEF Spec, PlacesAreWatched
=============================================================================
