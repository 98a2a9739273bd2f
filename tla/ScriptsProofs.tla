---------------------------- MODULE ScriptsProofs ----------------------------
(***************************************************************************)
(* Proofs about scripts, the items they make, and the decay of items, for  *)
(* any table of item types, any number of items, buckets and scripts       *)
(* within scripts.                                                         *)
(*                                                                         *)
(* What an operation does to the store is a function of the store, so the  *)
(* invariant is one of stores, and most lemmas say of one operation that   *)
(* it keeps it.  Loops are steps that are repeated: a loop keeps what its  *)
(* step keeps.                                                             *)
(***************************************************************************)
EXTENDS Scripts, FiniteSetTheorems, SequenceTheorems, WellFoundedInduction, TLAPS

-----------------------------------------------------------------------------
(* The invariant. *)

ItemRec == [parent : Item \cup {None, "floor", "void"}, type : Type \cup {None}, dur : Nat \cup {None},
            marked : BOOLEAN, refs : Int, freed : Nat, left : Int \cup {None}]
Store == [item : [Item -> ItemRec], list : [0 .. New -> Seq(Item)], ends : SUBSET Int,
          torn : BOOLEAN, full : BOOLEAN]

TypeOK ==
    /\ store \in Store /\ scene \in Scenes
    /\ env \in Seq(Timer \cup {0}) /\ temp \in SUBSET Item /\ known \in [Item -> Nat]
    /\ timers \in SUBSET Timer /\ lastTimer \in Nat
    /\ events \in [Timer -> [queued : Nat, posted : Nat]]
    /\ strayed \in BOOLEAN /\ erased \in BOOLEAN

\* An item is in a cylinder, or in the virtual one of those that scripts made.
Placed(w, i) == w.item[i].parent \notin {None, "void"}
Void(w, i) == w.item[i].parent = "void"

\* How many entries an item has, and in which lists.
Many(w, i) == Cardinality(Entries(w, i))
In(w, k, i) == \E n \in 1 .. Len(w.list[k]) : w.list[k][n] = i

\* The references to an item, if the scripts that run hold those of T, and an
\* entry of those of X is on its way from a list to another, or to be freed.
Counted(w, T, X) ==
    \A i \in Item : w.item[i].refs = B(Placed(w, i)) + B(i \in T /\ Void(w, i)) + Many(w, i)
                                     + w.item[i].freed + B(i \in X)

\* No pointer to an item that was deleted; nothing is left of one.
Clean(w) ==
    /\ w.torn = FALSE
    /\ \A i \in Item : ~Exists(w, i) => w.item[i] = Absent
    /\ \A i \in Item : w.item[i].parent \in Item => Exists(w, w.item[i].parent)

Alive(w) == \A i \in Item : Exists(w, i) => w.item[i].refs > 0

\* An item that is marked without being listed, the one of E aside, is out of the
\* game for good: no script has it, if those of K are what no script has.
Marks(w, K, E) ==
    \A i \in Item \ E : w.item[i].marked /\ ~Listed(w, i) =>
        w.full \/ w.item[i].parent = None \/ (Void(w, i) /\ i \in K) \/ Stuck(w.item[i])

\* The entry in list k of an item whose time is followed comes when it is due.
Due(w, lag, i, k) ==
    LET d == w.item[i].dur
        l == w.item[i].left
    IN  /\ d \in Nat
        /\ IF k = New THEN l - d \in lag
           ELSE IF d < Buckets THEN l - k \in {-2, -1, 0}
           ELSE l - k - (d - Buckets) \in {-1, 0}

Punctual(w, lag) ==
    /\ w.ends \subseteq {-2, -1, 0}
    /\ \A i \in Item : w.item[i].left # None =>
          Many(w, i) <= 1 /\ \A k \in 0 .. New : In(w, k, i) => Due(w, lag, i, k)

\* Environments and what they made.
Environments ==
    /\ \A i \in Item : known[i] <= Len(env)
    /\ \A i \in Item : known[i] > 0 /\ Void(store, i) => i \in temp \/ store.item[i].freed > 0

\* Nothing is known of a timer that was not made yet.
Unmade ==
    \A e \in Timer : e > lastTimer =>
        events[e].queued = 0 /\ events[e].posted = 0 /\ e \notin timers /\ e \notin Range(env)

Unknown == {i \in Item : known[i] = 0}

IInv ==
    /\ TypeOK /\ Environments /\ TimersAreDue /\ Unmade
    /\ store.list[0] = <<>> /\ store.full = FALSE
    /\ Clean(store) /\ Alive(store) /\ Marks(store, Unknown, {}) /\ Punctual(store, {0})
    /\ ~strayed => Counted(store, temp, {})

-----------------------------------------------------------------------------
(* Induction and recursion. *)

\* Naturals have a least.
LEMMA NatMin ==
    ASSUME NEW T, T \subseteq Nat, T # {}
    PROVE  \E x \in T : \A y \in T : x <= y
<1>1. PICK x \in T : \A y \in T : ~(<<y, x>> \in OpToRel(<, Nat))
  BY NatLessThanWellFounded, WFMin, Zenon
<1>2. \A u, v \in Nat : (<<v, u>> \in OpToRel(<, Nat)) <=> v < u
  BY DEF OpToRel
<1>3. x \in Nat
  OBVIOUS
<1>4. ASSUME NEW y \in T
      PROVE  x <= y
  <2>1. y \in Nat
    OBVIOUS
  <2>2. ~(y < x)
    BY <1>1, <1>2, <1>3, <2>1
  <2>. QED
    BY <2>1, <2>2, <1>3
<1>. QED
  BY <1>4

\* A set that has 0, and with each number up to N the next, has them all.
LEMMA UpTo ==
    ASSUME NEW N \in Nat, NEW T, 0 \in T, \A k \in 1 .. N : k - 1 \in T => k \in T
    PROVE  \A k \in 0 .. N : k \in T
<1>. DEFINE U == {k \in 0 .. N : k \notin T}
<1>1. SUFFICES ASSUME U # {}
               PROVE  FALSE
  OBVIOUS
<1>2. PICK x \in U : \A y \in U : x <= y
  <2>1. U \subseteq Nat
    OBVIOUS
  <2>. HIDE DEF U
  <2>. QED  BY <1>1, <2>1, NatMin
<1>3. x \in 1 .. N
  BY <1>2
<1>4. x - 1 \in 0 .. N /\ ~(x <= x - 1)
  BY <1>3
<1>5. x - 1 \in T
  BY <1>2, <1>4
<1>. QED
  BY <1>2, <1>3, <1>5

\* What is repeated has a value after each time.
Repeats(h, n, x, step) == h[0] = x /\ \A k \in 1 .. n : h[k] = step[h[k - 1]]

LEMMA Repeated ==
    ASSUME NEW N \in Nat, NEW G, NEW x \in G, NEW step \in [G -> G]
    PROVE  \E h \in [0 .. N -> G] : Repeats(h, N, x, step)
<1>. DEFINE Is(h, n) == Repeats(h, n, x, step)
            T == {n \in 0 .. N : \E h \in [0 .. n -> G] : Is(h, n)}
<1>. USE DEF Repeats
<1>1. 0 \in T
  <2>. DEFINE g == [j \in 0 .. 0 |-> x]
  <2>1. g \in [0 .. 0 -> G] /\ g[0] = x
    OBVIOUS
  <2>2. Is(g, 0)
    <3>. HIDE DEF g
    <3>. QED  BY <2>1
  <2>. HIDE DEF g, Is
  <2>3. \E h \in [0 .. 0 -> G] : Is(h, 0)
    BY <2>1, <2>2
  <2>. QED
    BY <2>3
<1>2. ASSUME NEW k \in 1 .. N, k - 1 \in T
      PROVE  k \in T
  <2>1. PICK h \in [0 .. (k - 1) -> G] : Is(h, k - 1)
    BY <1>2
  <2>. DEFINE y == step[h[k - 1]]
              g == [j \in 0 .. k |-> IF j = k THEN y ELSE h[j]]
  <2>2. y \in G
    <3>1. k - 1 \in 0 .. (k - 1)
      OBVIOUS
    <3>2. h[k - 1] \in G
      BY <2>1, <3>1
    <3>. QED
      BY <3>2
  <2>3. /\ g \in [0 .. k -> G] /\ g[0] = h[0] /\ g[k] = y
        /\ \A j \in 0 .. k - 1 : g[j] = h[j]
    <3>. HIDE DEF y
    <3>. QED  BY <2>1, <2>2
  <2>4. Is(g, k)
    <3>. HIDE DEF g
    <3>1. \A j \in 1 .. k - 1 : g[j] = step[g[j - 1]]
      BY <2>1, <2>3
    <3>2. g[k] = step[g[k - 1]]
      BY <2>3
    <3>. QED
      BY <2>1, <2>3, <3>1, <3>2
  <2>. HIDE DEF g, Is
  <2>. QED
    BY <2>3, <2>4
<1>3. \A k \in 0 .. N : k \in T
  <2>. HIDE DEF T
  <2>. QED  BY <1>1, <1>2, UpTo
<1>4. N \in T
  BY <1>3
<1>. QED
  BY <1>4

-----------------------------------------------------------------------------
(* Entries in the lists. *)

LEMMA ListNumbers == New \in Nat /\ Buckets \in Nat /\ Buckets > 1 /\ New = Buckets + 1
BY ItemsAssumption DEF New

LEMMA StoreIs ==
    ASSUME NEW w \in Store
    PROVE  /\ w.item \in [Item -> ItemRec] /\ w.list \in [0 .. New -> Seq(Item)]
           /\ w.ends \in SUBSET Int /\ w.torn \in BOOLEAN /\ w.full \in BOOLEAN
           /\ \A f \in [Item -> ItemRec] : [w EXCEPT !.item = f] \in Store
           /\ \A l \in [0 .. New -> Seq(Item)] : [w EXCEPT !.list = l] \in Store
BY DEF Store

LEMMA EntryIs ==
    ASSUME NEW w, NEW i
    PROVE  /\ \A k \in 0 .. New : \A n \in 1 .. Len(w.list[k]) : w.list[k][n] = i => <<k, n>> \in Entries(w, i)
           /\ \A e \in Entries(w, i) : /\ e = <<e[1], e[2]>> /\ e[1] \in 0 .. New
                                       /\ e[2] \in 1 .. Len(w.list[e[1]]) /\ w.list[e[1]][e[2]] = i
BY DEF Entries

LEMMA EntriesAreFinite ==
    ASSUME NEW w \in Store, NEW i
    PROVE  /\ IsFiniteSet(Entries(w, i)) /\ Many(w, i) \in Nat
           /\ Listed(w, i) <=> Many(w, i) > 0
           /\ Listed(w, i) <=> \E k \in 0 .. New : In(w, k, i)
<1>. DEFINE At(m) == {m} \X {n \in 1 .. Len(w.list[m]) : w.list[m][n] = i}
            S == {{k} \X {n \in 1 .. Len(w.list[k]) : w.list[k][n] = i} : k \in 0 .. New}
<1>1. \A k \in 0 .. New : IsFiniteSet(At(k))
  <2>. SUFFICES ASSUME NEW k \in 0 .. New
                PROVE  IsFiniteSet(At(k))
    OBVIOUS
  <2>1. w.list[k] \in Seq(Item)
    BY DEF Store
  <2>2. Len(w.list[k]) \in Nat
    BY <2>1
  <2>3. IsFiniteSet(1 .. Len(w.list[k]))
    BY <2>2, FS_Interval
  <2>4. IsFiniteSet({n \in 1 .. Len(w.list[k]) : w.list[k][n] = i})
    BY <2>3, FS_Subset
  <2>. QED
    BY <2>4, FS_Singleton, FS_Product
<1>2. IsFiniteSet(S)
  <2>1. IsFiniteSet(0 .. New)
    BY ListNumbers, FS_Interval
  <2>. DEFINE f == [k \in 0 .. New |-> At(k)]
  <2>2. f \in Surjection(0 .. New, S)
    BY DEF Surjection
  <2>. HIDE DEF f, S
  <2>. QED
    BY <2>1, <2>2, FS_Surjection
<1>3. IsFiniteSet(UNION S)
  <2>1. \A T \in S : IsFiniteSet(T)
    BY <1>1
  <2>. HIDE DEF S
  <2>. QED
    BY <1>2, <2>1, FS_UNION
<1>4. Entries(w, i) = UNION S
  BY DEF Entries
<1>5. IsFiniteSet(Entries(w, i)) /\ Many(w, i) \in Nat
  BY <1>3, <1>4, FS_CardinalityType DEF Many
<1>6. Many(w, i) = 0 <=> Entries(w, i) = {}
  BY <1>5, FS_EmptySet DEF Many
<1>7. Listed(w, i) <=> \E k \in 0 .. New : In(w, k, i)
  <2>. HIDE DEF S, At
  <2>1. ASSUME NEW k \in 0 .. New, In(w, k, i)
        PROVE  Entries(w, i) # {}
    BY <2>1, EntryIs DEF In
  <2>2. ASSUME NEW e \in Entries(w, i)
        PROVE  \E k \in 0 .. New : In(w, k, i)
    <3>1. /\ e[1] \in 0 .. New /\ e[2] \in 1 .. Len(w.list[e[1]]) /\ w.list[e[1]][e[2]] = i
      BY EntryIs
    <3>. QED
      BY <3>1 DEF In
  <2>. QED
    BY <2>1, <2>2 DEF Listed
<1>. QED
  BY <1>5, <1>6, <1>7 DEF Listed

\* Entries are those of the lists alone.
LEMMA EntriesOfLists ==
    ASSUME NEW w, NEW v, v.list = w.list, NEW i
    PROVE  /\ Entries(v, i) = Entries(w, i) /\ Many(v, i) = Many(w, i)
           /\ Listed(v, i) = Listed(w, i)
           /\ \A k : In(v, k, i) = In(w, k, i)
BY DEF Entries, Many, Listed, In

\* Two sets one to one.
LEMMA SameNumber ==
    ASSUME NEW J, NEW K, IsFiniteSet(J), NEW f \in [J -> K],
           \A i, j \in J : f[i] = f[j] => i = j,
           \A k \in K : \E i \in J : f[i] = k
    PROVE  IsFiniteSet(K) /\ Cardinality(K) = Cardinality(J)
<1>1. f \in Bijection(J, K)
  BY DEF Bijection, Injection, Surjection, IsInjective
<1>. QED
  BY <1>1, FS_Bijection DEF ExistsBijection

\* One more at the end of list k.
LEMMA PutAdds ==
    ASSUME NEW w \in Store, NEW k \in 0 .. New, NEW i \in Item
    PROVE  /\ Put(w, k, i) \in Store /\ Put(w, k, i) = [w EXCEPT !.list = [w.list EXCEPT ![k] = Append(@, i)]]
           /\ \A j : Many(Put(w, k, i), j) = Many(w, j) + B(j = i)
           /\ \A j : \A m \in 0 .. New : In(Put(w, k, i), m, j) <=> In(w, m, j) \/ (m = k /\ j = i)
<1>. DEFINE v == Put(w, k, i)
            s == w.list[k]
<1>0. s \in Seq(Item) /\ w.list \in [0 .. New -> Seq(Item)]
  BY StoreIs
<1>1. s \in Seq(Item) /\ Append(s, i) \in Seq(Item) /\ Len(s) \in Nat
  BY <1>0
<1>2. v = [w EXCEPT !.list = [w.list EXCEPT ![k] = Append(@, i)]]
  BY DEF Put
<1>3. v \in Store
  <2>. DEFINE l == [w.list EXCEPT ![k] = Append(@, i)]
  <2>1. l \in [0 .. New -> Seq(Item)] /\ v = [w EXCEPT !.list = l]
    BY <1>0, <1>1, <1>2
  <2>. HIDE DEF l, v
  <2>. QED
    BY <2>1, StoreIs
<1>4. v.list = [w.list EXCEPT ![k] = Append(s, i)] /\ w.list \in [0 .. New -> Seq(Item)]
  BY <1>0, <1>2 DEF Store
<1>5. v.list[k] = Append(s, i) /\ \A m \in 0 .. New : m # k => v.list[m] = w.list[m]
  BY <1>4
<1>6. /\ Len(v.list[k]) = Len(s) + 1 /\ v.list[k][Len(s) + 1] = i
      /\ \A n \in 1 .. Len(s) : v.list[k][n] = s[n]
      /\ \A n \in 1 .. Len(s) + 1 : n \in 1 .. Len(s) \/ n = Len(s) + 1
  BY <1>1, <1>5
<1>. HIDE DEF v
<1>7. \A j : \A m \in 0 .. New : In(v, m, j) <=> In(w, m, j) \/ (m = k /\ j = i)
  <2>. SUFFICES ASSUME NEW m \in 0 .. New, NEW j
                PROVE  In(v, m, j) <=> In(w, m, j) \/ (m = k /\ j = i)
    OBVIOUS
  <2>1. CASE m # k
    BY <2>1, <1>5 DEF In
  <2>2. CASE m = k
    BY <2>2, <1>1, <1>5, <1>6 DEF In
  <2>. QED
    BY <2>1, <2>2
<1>8. \A j : Entries(v, j) = Entries(w, j) \cup {e \in {<<k, Len(s) + 1>>} : j = i}
  <2>. SUFFICES ASSUME NEW j
                PROVE  Entries(v, j) = Entries(w, j) \cup {e \in {<<k, Len(s) + 1>>} : j = i}
    OBVIOUS
  <2>1. ASSUME NEW e \in Entries(v, j)
        PROVE  e \in Entries(w, j) \/ (e = <<k, Len(s) + 1>> /\ j = i)
    <3>1. /\ e = <<e[1], e[2]>> /\ e[1] \in 0 .. New
          /\ e[2] \in 1 .. Len(v.list[e[1]]) /\ v.list[e[1]][e[2]] = j
      BY EntryIs
    <3>2. CASE e[1] # k
      BY <3>1, <3>2, <1>5, EntryIs
    <3>3. CASE e[1] = k /\ e[2] \in 1 .. Len(s)
      BY <3>1, <3>3, <1>5, <1>6, EntryIs
    <3>4. CASE e[1] = k /\ e[2] = Len(s) + 1
      BY <3>1, <3>4, <1>5, <1>6
    <3>. QED
      BY <3>1, <3>2, <3>3, <3>4, <1>5, <1>6
  <2>2. ASSUME NEW e \in Entries(w, j)
        PROVE  e \in Entries(v, j)
    <3>1. /\ e = <<e[1], e[2]>> /\ e[1] \in 0 .. New
          /\ e[2] \in 1 .. Len(w.list[e[1]]) /\ w.list[e[1]][e[2]] = j
      BY EntryIs
    <3>2. e[2] \in 1 .. Len(v.list[e[1]]) /\ v.list[e[1]][e[2]] = j
      <4>1. CASE e[1] = k
        BY <4>1, <3>1, <1>1, <1>5, <1>6
      <4>2. CASE e[1] # k
        BY <4>2, <3>1, <1>5
      <4>. QED
        BY <4>1, <4>2
    <3>. QED
      BY <3>1, <3>2, EntryIs
  <2>3. j = i => <<k, Len(s) + 1>> \in Entries(v, j)
    <3>1. Len(s) + 1 \in 1 .. Len(v.list[k])
      BY <1>1, <1>6
    <3>. QED
      BY <3>1, <1>6, EntryIs
  <2>. QED
    BY <2>1, <2>2, <2>3
<1>9. <<k, Len(s) + 1>> \notin Entries(w, i)
  <2>1. Len(s) + 1 \notin 1 .. Len(w.list[k])
    BY <1>1
  <2>. SUFFICES ASSUME NEW e \in Entries(w, i), e = <<k, Len(s) + 1>>
                PROVE  FALSE
    OBVIOUS
  <2>2. \A d \in Entries(w, i) : d[2] \in 1 .. Len(w.list[d[1]])
    BY EntryIs
  <2>3. e[1] = k /\ e[2] = Len(s) + 1
    OBVIOUS
  <2>. QED
    BY <2>1, <2>2, <2>3
<1>10. \A j : Many(v, j) = Many(w, j) + B(j = i)
  <2>. SUFFICES ASSUME NEW j
                PROVE  Many(v, j) = Many(w, j) + B(j = i)
    OBVIOUS
  <2>1. IsFiniteSet(Entries(w, j)) /\ Many(w, j) \in Nat
    BY EntriesAreFinite
  <2>2. CASE j = i
    <3>1. Entries(v, j) = Entries(w, j) \cup {<<k, Len(s) + 1>>}
      BY <1>8, <2>2
    <3>2. Cardinality(Entries(w, j) \cup {<<k, Len(s) + 1>>}) = Cardinality(Entries(w, j)) + 1
      BY <2>1, <2>2, <1>9, FS_AddElement
    <3>. QED
      BY <3>1, <3>2, <2>2 DEF Many, B
  <2>3. CASE j # i
    <3>1. Entries(v, j) = Entries(w, j)
      BY <1>8, <2>3
    <3>. QED
      BY <3>1, <2>1, <2>3 DEF Many, B
  <2>. QED
    BY <2>2, <2>3
<1>. QED
  BY <1>2, <1>3, <1>7, <1>10 DEF v

\* One less at the head of list k.
LEMMA DropTakes ==
    ASSUME NEW w \in Store, NEW k \in 0 .. New, w.list[k] # <<>>
    PROVE  LET v == Drop(w, k)
               h == Head(w.list[k])
           IN  /\ v \in Store /\ v = [w EXCEPT !.list = [w.list EXCEPT ![k] = Tail(@)]]
               /\ h \in Item /\ In(w, k, h) /\ Many(w, h) >= 1
               /\ \A j : Many(v, j) = Many(w, j) - B(j = h)
               /\ \A j : \A m \in 0 .. New : In(v, m, j) => In(w, m, j)
<1>. DEFINE v == Drop(w, k)
            s == w.list[k]
            h == Head(s)
<1>0. s \in Seq(Item) /\ s # <<>> /\ w.list \in [0 .. New -> Seq(Item)]
  BY StoreIs
<1>1. /\ s \in Seq(Item) /\ Tail(s) \in Seq(Item) /\ Len(s) \in Nat /\ Len(s) >= 1
      /\ h = s[1] /\ h \in Item
  BY <1>0
<1>2. v = [w EXCEPT !.list = [w.list EXCEPT ![k] = Tail(@)]]
  BY DEF Drop
<1>3. v \in Store
  <2>. DEFINE l == [w.list EXCEPT ![k] = Tail(@)]
  <2>1. l \in [0 .. New -> Seq(Item)] /\ v = [w EXCEPT !.list = l]
    BY <1>0, <1>1, <1>2
  <2>. HIDE DEF l, v
  <2>. QED
    BY <2>1, StoreIs
<1>4. v.list = [w.list EXCEPT ![k] = Tail(s)] /\ w.list \in [0 .. New -> Seq(Item)]
  BY <1>0, <1>2 DEF Store
<1>5. v.list[k] = Tail(s) /\ \A m \in 0 .. New : m # k => v.list[m] = w.list[m]
  BY <1>4
<1>6. /\ Len(v.list[k]) = Len(s) - 1
      /\ \A n \in 1 .. Len(s) - 1 : v.list[k][n] = s[n + 1]
  BY <1>1, <1>5
<1>. HIDE DEF v
<1>7. \A j : \A m \in 0 .. New : In(v, m, j) => In(w, m, j)
  <2>. SUFFICES ASSUME NEW m \in 0 .. New, NEW j, In(v, m, j)
                PROVE  In(w, m, j)
    OBVIOUS
  <2>1. CASE m # k
    BY <2>1, <1>5 DEF In
  <2>2. CASE m = k
    <3>1. PICK n \in 1 .. Len(s) - 1 : s[n + 1] = j
      BY <2>2, <1>6 DEF In
    <3>2. n + 1 \in 1 .. Len(s)
      BY <1>1
    <3>. QED
      BY <2>2, <3>1, <3>2 DEF In
  <2>. QED
    BY <2>1, <2>2
<1>8. In(w, k, h)
  <2>1. 1 \in 1 .. Len(s)
    BY <1>1
  <2>. QED
    BY <1>1, <2>1 DEF In
<1>9. \A j : Cardinality(Entries(v, j)) = Cardinality(Entries(w, j) \ {<<k, 1>>})
  <2>. SUFFICES ASSUME NEW j
                PROVE  Cardinality(Entries(v, j)) = Cardinality(Entries(w, j) \ {<<k, 1>>})
    OBVIOUS
  <2>. DEFINE J == Entries(v, j)
              K == Entries(w, j) \ {<<k, 1>>}
              f == [e \in J |-> IF e[1] = k THEN <<k, e[2] + 1>> ELSE e]
  <2>1. ASSUME NEW e \in J
        PROVE  f[e] \in K
    <3>1. /\ e = <<e[1], e[2]>> /\ e[1] \in 0 .. New
          /\ e[2] \in 1 .. Len(v.list[e[1]]) /\ v.list[e[1]][e[2]] = j
      BY EntryIs
    <3>2. CASE e[1] # k
      <4>1. e \in Entries(w, j)
        BY <3>1, <3>2, <1>5, EntryIs
      <4>2. e # <<k, 1>>
        BY <3>2
      <4>. QED
        BY <4>1, <4>2, <3>2
    <3>3. CASE e[1] = k
      <4>1. e[2] + 1 \in 1 .. Len(s) /\ e[2] + 1 # 1 /\ s[e[2] + 1] = j
        BY <3>1, <3>3, <1>1, <1>6
      <4>2. <<k, e[2] + 1>> \in Entries(w, j)
        BY <4>1, EntryIs
      <4>3. <<k, e[2] + 1>> # <<k, 1>>
        BY <4>1
      <4>. QED
        BY <4>2, <4>3, <3>3
    <3>. QED
      BY <3>2, <3>3
  <2>2. ASSUME NEW e \in J, NEW d \in J, f[e] = f[d]
        PROVE  e = d
    <3>1. /\ e = <<e[1], e[2]>> /\ e[2] \in 1 .. Len(v.list[e[1]]) /\ e[1] \in 0 .. New
          /\ d = <<d[1], d[2]>> /\ d[2] \in 1 .. Len(v.list[d[1]]) /\ d[1] \in 0 .. New
      BY EntryIs
    <3>2. f[e][1] = e[1] /\ f[d][1] = d[1]
      BY <3>1
    <3>3. CASE e[1] = k
      <4>1. f[e] = <<k, e[2] + 1>> /\ f[d] = <<k, d[2] + 1>>
        BY <2>2, <3>2, <3>3
      <4>2. e[2] + 1 = d[2] + 1
        BY <2>2, <4>1
      <4>3. e[2] \in Int /\ d[2] \in Int
        BY <3>1
      <4>. QED
        BY <2>2, <3>1, <3>2, <3>3, <4>2, <4>3
    <3>4. CASE e[1] # k
      BY <2>2, <3>2, <3>4
    <3>. QED
      BY <3>3, <3>4
  <2>3. ASSUME NEW e \in K
        PROVE  \E d \in J : f[d] = e
    <3>1. /\ e = <<e[1], e[2]>> /\ e[1] \in 0 .. New
          /\ e[2] \in 1 .. Len(w.list[e[1]]) /\ w.list[e[1]][e[2]] = j
      BY EntryIs
    <3>2. CASE e[1] # k
      <4>1. e \in J
        BY <3>1, <3>2, <1>5, EntryIs
      <4>. QED
        BY <4>1, <3>2
    <3>3. CASE e[1] = k
      <4>1. e[2] # 1
        BY <3>1, <3>3
      <4>2. e[2] - 1 \in 1 .. Len(s) - 1 /\ e[2] - 1 + 1 = e[2]
        BY <4>1, <3>1, <3>3, <1>1
      <4>3. v.list[k][e[2] - 1] = j
        BY <4>2, <1>6, <3>1, <3>3
      <4>4. <<k, e[2] - 1>> \in J
        BY <4>2, <4>3, <1>6, EntryIs
      <4>5. f[<<k, e[2] - 1>>] = <<k, e[2] - 1 + 1>>
        BY <4>4
      <4>. QED
        BY <4>2, <4>4, <4>5, <3>1, <3>3
    <3>. QED
      BY <3>2, <3>3
  <2>4. f \in [J -> K]
    BY <2>1
  <2>5. IsFiniteSet(J)
    BY <1>3, EntriesAreFinite
  <2>. HIDE DEF f, J, K
  <2>6. Cardinality(K) = Cardinality(J)
    BY <2>2, <2>3, <2>4, <2>5, SameNumber
  <2>. QED
    BY <2>6 DEF J, K
<1>10. \A j : <<k, 1>> \in Entries(w, j) <=> j = h
  <2>1. 1 \in 1 .. Len(s)
    BY <1>1
  <2>2. <<k, 1>> \in Entries(w, h)
    BY <1>1, <2>1, EntryIs
  <2>3. ASSUME NEW j, <<k, 1>> \in Entries(w, j)
        PROVE  j = h
    BY <2>3, <1>1, EntryIs
  <2>. QED
    BY <2>2, <2>3
<1>11. \A j : Many(v, j) = Many(w, j) - B(j = h)
  <2>. SUFFICES ASSUME NEW j
                PROVE  Many(v, j) = Many(w, j) - B(j = h)
    OBVIOUS
  <2>1. IsFiniteSet(Entries(w, j)) /\ Many(w, j) \in Nat
    BY EntriesAreFinite
  <2>2. CASE j = h
    BY <2>1, <2>2, <1>9, <1>10, FS_RemoveElement DEF Many, B
  <2>3. CASE j # h
    <3>1. Entries(w, j) \ {<<k, 1>>} = Entries(w, j)
      BY <2>3, <1>10
    <3>. QED
      BY <3>1, <2>1, <2>3, <1>9 DEF Many, B
  <2>. QED
    BY <2>2, <2>3
<1>12. Many(w, h) >= 1
  <2>1. Many(w, h) \in Nat /\ Listed(w, h)
    BY <1>10, EntriesAreFinite DEF Listed
  <2>. QED
    BY <2>1, EntriesAreFinite
<1>. QED
  BY <1>1, <1>2, <1>3, <1>7, <1>8, <1>11, <1>12 DEF v

-----------------------------------------------------------------------------
(* Changes to one item. *)

Fine(w, lag) == w \in Store /\ Clean(w) /\ Alive(w) /\ Punctual(w, lag)
Sound(w, T, lag, X) == Fine(w, lag) /\ Counted(w, T, X)

\* The store w in which i is r.
With(w, i, r) == [w EXCEPT !.item = [w.item EXCEPT ![i] = r]]

LEMMA WithIs ==
    ASSUME NEW w \in Store, NEW i \in Item, NEW r \in ItemRec
    PROVE  LET v == With(w, i, r)
           IN  /\ v \in Store /\ v.item[i] = r /\ \A j \in Item : j # i => v.item[j] = w.item[j]
               /\ v.list = w.list /\ v.ends = w.ends /\ v.torn = w.torn /\ v.full = w.full
<1>1. [w.item EXCEPT ![i] = r] \in [Item -> ItemRec]
  BY StoreIs
<1>2. With(w, i, r) \in Store
  <2>. DEFINE f == [w.item EXCEPT ![i] = r]
  <2>1. f \in [Item -> ItemRec] /\ With(w, i, r) = [w EXCEPT !.item = f]
    BY <1>1 DEF With
  <2>. HIDE DEF f
  <2>. QED  BY <2>1, StoreIs
<1>3. w.item \in [Item -> ItemRec]
  BY StoreIs
<1>. QED
  BY <1>2, <1>3 DEF With, Store

LEMMA ConstantsApart ==
    /\ None \notin Type /\ None \notin Int /\ None # "floor" /\ None # "void" /\ None # Gone
    /\ None \notin Item /\ "floor" \notin Item /\ "void" \notin Item /\ Gone \notin Type
BY ItemsAssumption

\* What does not exist is nowhere.
LEMMA AbsentIsNowhere ==
    ASSUME NEW w \in Store, NEW T, NEW X, Clean(w), Counted(w, T, X), NEW i \in Item, ~Exists(w, i)
    PROVE  /\ w.item[i] = Absent /\ Many(w, i) = 0 /\ i \notin X /\ ~Listed(w, i)
           /\ \A k \in 0 .. New : ~In(w, k, i)
           /\ \A j \in Item : w.item[j].parent # i
<1>1. w.item[i] = Absent
  BY DEF Clean
<1>2. /\ w.item[i].refs = 0 /\ w.item[i].freed = 0 /\ w.item[i].parent = None
  BY <1>1 DEF Absent
<1>3. Many(w, i) \in Nat
  BY EntriesAreFinite
<1>4. 0 = B(Placed(w, i)) + B(i \in T /\ Void(w, i)) + Many(w, i) + 0 + B(i \in X)
  BY <1>2 DEF Counted
<1>5. Many(w, i) = 0 /\ i \notin X
  BY <1>3, <1>4, <1>2 DEF Placed, Void, B
<1>6. ~Listed(w, i) /\ \A k \in 0 .. New : ~In(w, k, i)
  BY <1>5, EntriesAreFinite
<1>7. \A j \in Item : w.item[j].parent # i
  BY DEF Clean
<1>. QED
  BY <1>1, <1>5, <1>6, <1>7

\* An item is changed, or made.
LEMMA ChangedIsFine ==
    ASSUME NEW w, NEW lag, Fine(w, lag), NEW i \in Item, NEW r \in ItemRec, r.type # None, r.refs > 0,
           r.parent \in Item => Exists(w, r.parent),
           \/ r.left = None
           \/ r.left = w.item[i].left /\ r.dur = w.item[i].dur
           \/ ~Listed(w, i)
    PROVE  Fine(With(w, i, r), lag)
<1>. DEFINE v == With(w, i, r)
<1>0. w \in Store /\ Clean(w) /\ Alive(w) /\ Punctual(w, lag)
  BY DEF Fine
<1>1. /\ v \in Store /\ v.item[i] = r /\ \A j \in Item : j # i => v.item[j] = w.item[j]
      /\ v.list = w.list /\ v.ends = w.ends /\ v.torn = w.torn /\ v.full = w.full
  BY <1>0, WithIs
<1>. HIDE DEF v
<1>2. \A j \in Item : /\ Many(v, j) = Many(w, j) /\ Many(v, j) \in Nat
                      /\ \A k : In(v, k, j) = In(w, k, j)
  BY <1>0, <1>1, EntriesOfLists, EntriesAreFinite
<1>3. Exists(v, i) /\ \A j \in Item : j # i => Exists(v, j) = Exists(w, j)
  BY <1>1 DEF Exists
<1>4. Clean(v)
  <2>1. \A j \in Item : ~Exists(v, j) => v.item[j] = Absent
    BY <1>0, <1>1, <1>3 DEF Clean
  <2>2. \A j \in Item : v.item[j].parent \in Item => Exists(v, v.item[j].parent)
    BY <1>0, <1>1, <1>3 DEF Clean
  <2>. QED
    BY <2>1, <2>2, <1>0, <1>1 DEF Clean
<1>5. Alive(v)
  BY <1>0, <1>1, <1>3 DEF Alive
<1>7. Punctual(v, lag)
  <2>1. v.ends \subseteq {-2, -1, 0}
    BY <1>0, <1>1 DEF Punctual
  <2>. SUFFICES ASSUME NEW j \in Item, v.item[j].left # None
                PROVE  /\ Many(v, j) <= 1
                       /\ \A k \in 0 .. New : In(v, k, j) => Due(v, lag, j, k)
    BY <2>1 DEF Punctual
  <2>2. CASE v.item[j].left = w.item[j].left /\ v.item[j].dur = w.item[j].dur
    <3>1. Many(w, j) <= 1 /\ \A k \in 0 .. New : In(w, k, j) => Due(w, lag, j, k)
      BY <2>2, <1>0 DEF Punctual
    <3>. QED
      BY <3>1, <2>2, <1>2 DEF Due
  <2>3. CASE ~Listed(w, j)
    <3>1. Many(w, j) = 0 /\ \A k \in 0 .. New : ~In(w, k, j)
      BY <2>3, <1>0, EntriesAreFinite
    <3>. QED
      BY <3>1, <1>2
  <2>. QED
    BY <2>2, <2>3, <1>1
<1>. QED
  BY <1>1, <1>4, <1>5, <1>7 DEF Fine, v

LEMMA ChangedIsCounted ==
    ASSUME NEW w \in Store, NEW T, NEW X, NEW U, NEW Y, Counted(w, T, X), NEW i \in Item, NEW r \in ItemRec,
           r.refs = B(r.parent \notin {None, "void"}) + B(i \in U /\ r.parent = "void") + Many(w, i)
                    + r.freed + B(i \in Y),
           \A j \in Item : j # i => (j \in U <=> j \in T) /\ (j \in Y <=> j \in X)
    PROVE  Counted(With(w, i, r), U, Y)
<1>. DEFINE v == With(w, i, r)
<1>1. /\ v.item[i] = r /\ \A j \in Item : j # i => v.item[j] = w.item[j]
      /\ v.list = w.list
  BY WithIs
<1>. HIDE DEF v
<1>2. \A j \in Item : Many(v, j) = Many(w, j)
  BY <1>1, EntriesOfLists
<1>. SUFFICES ASSUME NEW j \in Item
              PROVE  v.item[j].refs = B(Placed(v, j)) + B(j \in U /\ Void(v, j)) + Many(v, j)
                                      + v.item[j].freed + B(j \in Y)
  BY DEF Counted, v
<1>3. CASE j # i
  <2>1. w.item[j].refs = B(Placed(w, j)) + B(j \in T /\ Void(w, j)) + Many(w, j)
                         + w.item[j].freed + B(j \in X)
    BY DEF Counted
  <2>2. B(j \in T /\ Void(w, j)) = B(j \in U /\ Void(v, j)) /\ B(j \in X) = B(j \in Y)
        /\ B(Placed(v, j)) = B(Placed(w, j))
    BY <1>1, <1>3 DEF B, Placed, Void
  <2>. QED
    BY <1>1, <1>2, <1>3, <2>1, <2>2
<1>4. CASE j = i
  <2>1. B(r.parent \notin {None, "void"}) = B(Placed(v, i)) /\ B(i \in U /\ r.parent = "void") = B(i \in U /\ Void(v, i))
    BY <1>1 DEF Placed, Void
  <2>. QED
    BY <1>1, <1>2, <1>4, <2>1
<1>. QED
  BY <1>3, <1>4

\* Its references are as many as before.
LEMMA ChangedIsSound ==
    ASSUME NEW w, NEW T, NEW lag, NEW X, NEW Y, Sound(w, T, lag, X),
           NEW i \in Item, Exists(w, i), NEW r \in ItemRec, r.type # None, r.refs = w.item[i].refs,
           B(r.parent \notin {None, "void"}) + B(i \in T /\ r.parent = "void") + r.freed + B(i \in Y)
               = B(Placed(w, i)) + B(i \in T /\ Void(w, i)) + w.item[i].freed + B(i \in X),
           \A j \in Item \ {i} : j \in Y <=> j \in X,
           r.parent \in Item => Exists(w, r.parent),
           \/ r.left = None
           \/ r.left = w.item[i].left /\ r.dur = w.item[i].dur
           \/ ~Listed(w, i)
    PROVE  Sound(With(w, i, r), T, lag, Y)
<1>1. w \in Store /\ Fine(w, lag) /\ Alive(w) /\ Counted(w, T, X)
  BY DEF Sound, Fine
<1>2. r.refs > 0
  BY <1>1 DEF Alive
<1>3. Fine(With(w, i, r), lag)
  BY <1>1, <1>2, ChangedIsFine
<1>. DEFINE a == B(r.parent \notin {None, "void"})
            b == B(i \in T /\ r.parent = "void")
            c == B(Placed(w, i))
            d == B(i \in T /\ Void(w, i))
            x == B(i \in X)
            y == B(i \in Y)
<1>4. r.refs = a + b + Many(w, i) + r.freed + y
  <2>1. w.item[i].freed \in Int /\ r.freed \in Int /\ Many(w, i) \in Int /\ r.refs \in Int
    BY <1>1, EntriesAreFinite, StoreIs DEF ItemRec
  <2>2. a \in Int /\ b \in Int /\ c \in Int /\ d \in Int /\ x \in Int /\ y \in Int
    BY DEF B
  <2>3. a + b + r.freed + y = c + d + w.item[i].freed + x
    OBVIOUS
  <2>4. r.refs = c + d + Many(w, i) + w.item[i].freed + x
    BY <1>1 DEF Counted
  <2>. HIDE DEF a, b, c, d, x, y
  <2>. QED
    BY <2>1, <2>2, <2>3, <2>4
<1>5. Counted(With(w, i, r), T, Y)
  BY <1>1, <1>4, ChangedIsCounted
<1>. QED
  BY <1>3, <1>5 DEF Sound

\* An item is made at n, and one reference to it.
LEMMA CreatedIsSound ==
    ASSUME NEW w, NEW T, NEW lag, NEW X, NEW U, Sound(w, T, lag, X),
           NEW n \in Item, ~Exists(w, n), NEW r \in ItemRec, r.type # None, r.refs = 1, r.freed = 0,
           B(r.parent \notin {None, "void"}) + B(n \in U /\ r.parent = "void") = 1,
           \A j \in Item \ {n} : j \in U <=> j \in T,
           r.parent \in Item => Exists(w, r.parent),
           r.left = None
    PROVE  Sound(With(w, n, r), U, lag, X)
<1>1. w \in Store /\ Fine(w, lag) /\ Clean(w) /\ Counted(w, T, X)
  BY DEF Sound, Fine
<1>2. Many(w, n) = 0 /\ n \notin X
  BY <1>1, AbsentIsNowhere
<1>3. Fine(With(w, n, r), lag)
  BY <1>1, ChangedIsFine
<1>4. r.refs = B(r.parent \notin {None, "void"}) + B(n \in U /\ r.parent = "void") + Many(w, n)
               + r.freed + B(n \in X)
  <2>1. B(r.parent \notin {None, "void"}) \in Int /\ B(n \in U /\ r.parent = "void") \in Int /\ B(n \in X) = 0
    BY <1>2 DEF B
  <2>. QED
    BY <2>1, <1>2
<1>5. Counted(With(w, n, r), U, X)
  BY <1>1, <1>4, ChangedIsCounted
<1>. QED
  BY <1>3, <1>5 DEF Sound

LEMMA ChangedKeepsMarks ==
    ASSUME NEW w \in Store, NEW K, NEW E, Marks(w, K, E), NEW i \in Item, NEW r \in ItemRec,
           r.marked => \/ Listed(w, i) \/ w.full \/ r.parent = None \/ (r.parent = "void" /\ i \in K)
                       \/ Stuck(r)
    PROVE  Marks(With(w, i, r), K, E \ {i})
<1>. DEFINE v == With(w, i, r)
<1>1. /\ v.item[i] = r /\ \A j \in Item : j # i => v.item[j] = w.item[j]
      /\ v.list = w.list /\ v.full = w.full
  BY WithIs
<1>. HIDE DEF v
<1>2. \A j \in Item : Listed(v, j) = Listed(w, j)
  BY <1>1, EntriesOfLists
<1>. SUFFICES ASSUME NEW j \in Item \ (E \ {i}), v.item[j].marked, ~Listed(v, j)
              PROVE  v.full \/ v.item[j].parent = None \/ (Void(v, j) /\ j \in K) \/ Stuck(v.item[j])
  BY DEF Marks, v
<1>3. CASE j = i
  BY <1>1, <1>2, <1>3 DEF Void
<1>4. CASE j # i
  BY <1>1, <1>2, <1>4 DEF Void, Marks
<1>. QED
  BY <1>3, <1>4

LEMMA ChangedInMarks ==
    ASSUME NEW w \in Store, NEW K, NEW i \in Item, Marks(w, K, {i}), NEW r \in ItemRec
    PROVE  Marks(With(w, i, r), K, {i})
<1>. DEFINE v == With(w, i, r)
<1>1. /\ \A j \in Item : j # i => v.item[j] = w.item[j]
      /\ v.list = w.list /\ v.full = w.full
  BY WithIs
<1>. HIDE DEF v
<1>2. \A j \in Item : Listed(v, j) = Listed(w, j)
  BY <1>1, EntriesOfLists
<1>. QED
  BY <1>1, <1>2 DEF Marks, Void, v

\* A record of an item, by its fields.
Rec(p, t, d, m, r, f, l) ==
    [parent |-> p, type |-> t, dur |-> d, marked |-> m, refs |-> r, freed |-> f, left |-> l]

Fields == {"parent", "type", "dur", "marked", "refs", "freed", "left"}

LEMMA RecordIs ==
    ASSUME NEW q \in ItemRec
    PROVE  /\ q.parent \in Item \cup {None, "floor", "void"} /\ q.type \in Type \cup {None}
           /\ q.dur \in Nat \cup {None} /\ q.marked \in BOOLEAN /\ q.refs \in Int /\ q.freed \in Nat
           /\ q.left \in Int \cup {None}
           /\ DOMAIN q = Fields
           /\ q = Rec(q.parent, q.type, q.dur, q.marked, q.refs, q.freed, q.left)
BY DEF ItemRec, Rec, Fields

LEMMA ByFields ==
    ASSUME NEW s, DOMAIN s = Fields, s = [j \in DOMAIN s |-> s[j]]
    PROVE  s = Rec(s.parent, s.type, s.dur, s.marked, s.refs, s.freed, s.left)
BY SMT DEF Rec, Fields

\* The records of an item that is to be freed, and of one that is removed.
Freed(q) == Rec(q.parent, q.type, q.dur, q.marked, q.refs, q.freed + 1, q.left)
Given(q) == Rec(None, q.type, q.dur, q.marked, q.refs, q.freed + 1, q.left)

LEMMA FreedIs ==
    ASSUME NEW q \in ItemRec
    PROVE  /\ Freed(q) = [q EXCEPT !.freed = @ + 1]
           /\ Given(q) = [[q EXCEPT !.parent = None] EXCEPT !.freed = @ + 1]
           /\ Freed(q) \in ItemRec /\ Given(q) \in ItemRec
<1>. DEFINE u == [q EXCEPT !.freed = @ + 1]
            v == [[q EXCEPT !.parent = None] EXCEPT !.freed = @ + 1]
<1>1. DOMAIN u = DOMAIN q /\ u = [j \in DOMAIN u |-> u[j]]
  BY Zenon
<1>2. /\ u.parent = q.parent /\ u.type = q.type /\ u.dur = q.dur /\ u.marked = q.marked
      /\ u.refs = q.refs /\ u.freed = q.freed + 1 /\ u.left = q.left
  BY DEF ItemRec
<1>3. DOMAIN v = DOMAIN q /\ v = [j \in DOMAIN v |-> v[j]]
  BY Zenon
<1>4. /\ v.parent = None /\ v.type = q.type /\ v.dur = q.dur /\ v.marked = q.marked
      /\ v.refs = q.refs /\ v.freed = q.freed + 1 /\ v.left = q.left
  BY DEF ItemRec
<1>5. u = Freed(q) /\ v = Given(q)
  <2>. HIDE DEF u, v
  <2>. QED
    BY <1>1, <1>2, <1>3, <1>4, RecordIs, ByFields DEF Freed, Given
<1>6. Freed(q) \in ItemRec
  <2>1. q.freed + 1 \in Nat
    BY RecordIs
  <2>. QED
    BY <2>1, RecordIs DEF Freed, Rec, ItemRec
<1>7. Given(q) \in ItemRec
  <2>1. q.freed + 1 \in Nat /\ None \in Item \cup {None, "floor", "void"}
    BY RecordIs
  <2>. QED
    BY <2>1, RecordIs DEF Given, Rec, ItemRec
<1>. QED
  BY <1>5, <1>6, <1>7


LEMMA FreeThingIs ==
    ASSUME NEW w \in Store, NEW i \in Item
    PROVE  /\ FreeThing(w, i) = With(w, i, Freed(w.item[i])) /\ Freed(w.item[i]) \in ItemRec
           /\ RemoveItem(w, i) = (IF Placed(w, i) THEN With(w, i, Given(w.item[i])) ELSE w)
           /\ Given(w.item[i]) \in ItemRec
<1>. DEFINE q == w.item[i]
            u == [w EXCEPT !.item[i].parent = None]
<1>1. w.item \in [Item -> ItemRec] /\ q \in ItemRec
  BY StoreIs
<1>2. FreeThing(w, i) = With(w, i, Freed(q))
  <2>1. FreeThing(w, i) = With(w, i, [q EXCEPT !.freed = @ + 1])
    BY <1>1 DEF FreeThing, With
  <2>. QED
    BY <2>1, <1>1, FreedIs
<1>3. u = [w EXCEPT !.item = [w.item EXCEPT ![i] = [q EXCEPT !.parent = None]]]
  BY <1>1
<1>4. FreeThing(u, i) = [w EXCEPT !.item = [w.item EXCEPT ![i] = [[q EXCEPT !.parent = None] EXCEPT !.freed = @ + 1]]]
  BY <1>1, <1>3 DEF FreeThing, Store, ItemRec
<1>5. FreeThing(u, i) = With(w, i, Given(q))
  BY <1>1, <1>4, FreedIs DEF With
<1>. QED
  BY <1>1, <1>2, <1>5, FreedIs DEF RemoveItem, Placed

\* The record of an item that becomes of type t.
Ends0(t) == Types[t].time = 0 /\ ~Types[t].stop /\ Types[t].to = None
Starts(w, i, t) == Types[t].time > 0 /\ (~TypeOf(w, i).stop \/ w.item[i].dur = None)
Become(w, i, t) ==
    LET q == w.item[i]
    IN  Rec(q.parent, t, IF Starts(w, i, t) THEN Types[t].time ELSE IF Ends0(t) THEN None ELSE q.dur,
            q.marked /\ ~Ends0(t) /\ ~Starts(w, i, t), q.refs, q.freed, None)

\* Nothing is left of an item's time, and there are types that keep its mark.
OutOfTime(w, i) ==
    /\ w.item[i].dur \in {0, None}
    /\ \E t \in Type : Types[t].to \in Type /\ KeepsMark(Types[t].to)

LEMMA BecomeIs ==
    ASSUME NEW w \in Store, NEW i \in Item, NEW t \in Type
    PROVE  /\ Become(w, i, t) \in ItemRec
           /\ SetID(w, i, t) = With(w, i, Become(w, i, t))
           /\ Become(w, i, t).type = t /\ Become(w, i, t).left = None
           /\ Become(w, i, t).refs = w.item[i].refs /\ Become(w, i, t).freed = w.item[i].freed
           /\ Become(w, i, t).parent = w.item[i].parent
           /\ Become(w, i, t).dur = IF Starts(w, i, t) THEN Types[t].time
                                    ELSE IF Ends0(t) THEN None ELSE w.item[i].dur
           /\ Become(w, i, t).marked => w.item[i].marked /\ ~Ends0(t) /\ ~Starts(w, i, t)
<1>. DEFINE q == w.item[i]
            m == q.marked /\ ~Ends0(t) /\ ~Starts(w, i, t)
            d == IF Starts(w, i, t) THEN Types[t].time ELSE IF Ends0(t) THEN None ELSE q.dur
            s == [q EXCEPT !.type = t, !.left = None, !.marked = m, !.dur = d]
<1>1. w.item \in [Item -> ItemRec] /\ q \in ItemRec
  BY StoreIs
<1>2. Types[t].time \in Nat
  BY ItemsAssumption
<1>3. m \in BOOLEAN /\ d \in Nat \cup {None}
  BY <1>1, <1>2, RecordIs
<1>4. SetID(w, i, t) = With(w, i, s)
  <2>1. SetID(w, i, t) = [w EXCEPT !.item[i] = s]
    BY Zenon DEF SetID, Ends0, Starts
  <2>2. \A y : [w EXCEPT !.item[i] = y] = With(w, i, y)
    BY DEF With
  <2>. HIDE DEF s
  <2>. QED
    BY <2>1, <2>2
<1>5. Become(w, i, t) = Rec(q.parent, t, d, m, q.refs, q.freed, None)
  BY DEF Become
<1>. HIDE DEF m, d
<1>6. DOMAIN s = DOMAIN q /\ s = [j \in DOMAIN s |-> s[j]]
  BY Zenon
<1>7. /\ s.parent = q.parent /\ s.type = t /\ s.dur = d /\ s.marked = m
      /\ s.refs = q.refs /\ s.freed = q.freed /\ s.left = None
  BY <1>1 DEF ItemRec
<1>8. s = Rec(q.parent, t, d, m, q.refs, q.freed, None)
  <2>. HIDE DEF s
  <2>. QED
    BY <1>1, <1>6, <1>7, RecordIs, ByFields
<1>9. Rec(q.parent, t, d, m, q.refs, q.freed, None) \in ItemRec
  BY <1>1, <1>3, RecordIs DEF Rec, ItemRec
<1>. HIDE DEF s
<1>10. /\ s \in ItemRec /\ s.marked => q.marked /\ ~Ends0(t) /\ ~Starts(w, i, t)
       /\ s.dur = IF Starts(w, i, t) THEN Types[t].time ELSE IF Ends0(t) THEN None ELSE q.dur
  BY <1>7, <1>8, <1>9 DEF m, d
<1>. QED
  BY <1>4, <1>5, <1>7, <1>8, <1>9, <1>10

\* A new item of type t with parent p.
Made(t, p, d) == Rec(p, t, d, FALSE, 1, 0, None)
Time(t) == IF Types[t].time > 0 THEN Types[t].time ELSE None

LEMMA MadeIs ==
    ASSUME NEW w \in Store, NEW n \in Item, NEW t \in Type, NEW p \in Item \cup {"floor", "void"}
    PROVE  /\ Made(t, p, Time(t)) \in ItemRec /\ Made(t, p, None) \in ItemRec
           /\ Create(w, n, t, p) = With(w, n, Made(t, p, Time(t)))
<1>. DEFINE r == [Absent EXCEPT !.type = t, !.refs = 1, !.parent = p, !.dur = Time(t)]
<1>1. Types[t].time \in Nat
  BY ItemsAssumption
<1>2. Time(t) \in Nat \cup {None}
  BY <1>1 DEF Time
<1>3. Made(t, p, Time(t)) \in ItemRec /\ Made(t, p, None) \in ItemRec
  BY <1>2 DEF Made, Rec, ItemRec
<1>4. Create(w, n, t, p) = With(w, n, r)
  <2>1. Create(w, n, t, p) = [w EXCEPT !.item[n] = r]
    BY Zenon DEF Create, Time
  <2>. HIDE DEF r
  <2>. QED
    BY <2>1 DEF With
<1>5. r = Made(t, p, Time(t))
  <2>1. DOMAIN r = DOMAIN Absent /\ r = [j \in DOMAIN r |-> r[j]]
    BY Zenon
  <2>2. /\ DOMAIN Absent = Fields
        /\ r.parent = p /\ r.type = t /\ r.dur = Time(t) /\ r.marked = FALSE
        /\ r.refs = 1 /\ r.freed = 0 /\ r.left = None
    BY DEF Absent, Fields
  <2>. HIDE DEF r
  <2>. QED
    BY <2>1, <2>2, ByFields DEF Made
<1>. QED
  BY <1>3, <1>4, <1>5

\* The new item takes over no time.
Timeless(w, n) == [w EXCEPT !.item[n].dur = None]

LEMMA TimelessIs ==
    ASSUME NEW w \in Store, NEW n \in Item, NEW t, NEW p, NEW d, Made(t, p, d) \in ItemRec
    PROVE  Timeless(With(w, n, Made(t, p, d)), n) = With(w, n, Made(t, p, None))
<1>. DEFINE r == Made(t, p, d)
            u == With(w, n, r)
            s == [r EXCEPT !.dur = None]
<1>1. w.item \in [Item -> ItemRec]
  BY StoreIs
<1>2. s = Made(t, p, None)
  <2>1. DOMAIN s = DOMAIN r /\ s = [j \in DOMAIN s |-> s[j]]
    BY Zenon
  <2>2. /\ DOMAIN r = Fields
        /\ s.parent = p /\ s.type = t /\ s.dur = None /\ s.marked = FALSE
        /\ s.refs = 1 /\ s.freed = 0 /\ s.left = None
    BY DEF Made, Rec, Fields
  <2>. HIDE DEF s
  <2>3. s = Made(t, p, None)
    BY <2>1, <2>2, ByFields DEF Made
  <2>. QED
    BY <2>3 DEF s
<1>. HIDE DEF r
<1>3. u.item = [w.item EXCEPT ![n] = r] /\ \A f : [u EXCEPT !.item = f] = [w EXCEPT !.item = f]
  BY <1>1 DEF With, Store
<1>4. u.item[n] = r
  BY <1>1, <1>3
<1>5. \A y : [u EXCEPT !.item[n] = y] = With(w, n, y)
  <2>. HIDE DEF u
  <2>1. \A y : [u EXCEPT !.item[n] = y] = [u EXCEPT !.item = [u.item EXCEPT ![n] = y]]
    OBVIOUS
  <2>2. \A y : [u.item EXCEPT ![n] = y] = [w.item EXCEPT ![n] = y]
    BY <1>1, <1>3
  <2>. QED
    BY <2>1, <2>2, <1>3 DEF With
<1>6. Timeless(u, n) = [u EXCEPT !.item[n] = [u.item[n] EXCEPT !.dur = None]]
  BY DEF Timeless
<1>. HIDE DEF u
<1>7. Timeless(u, n) = With(w, n, s)
  BY <1>4, <1>5, <1>6
<1>. QED
  BY <1>2, <1>7 DEF u, r

-----------------------------------------------------------------------------
(* Items are removed and transformed. *)

\* From w to v nothing is deleted or made in the virtual cylinder.
Since(w, v) ==
    /\ v.list[0] = w.list[0]
    /\ \A j \in Item : /\ Exists(w, j) => Exists(v, j)
                       /\ Void(v, j) => Void(w, j) /\ v.item[j].freed >= w.item[j].freed

LEMMA SinceAgain ==
    ASSUME NEW u \in Store, NEW v \in Store, NEW w \in Store, Since(u, v), Since(v, w)
    PROVE  Since(u, w)
<1>1. \A j \in Item : u.item[j].freed \in Nat /\ v.item[j].freed \in Nat /\ w.item[j].freed \in Nat
  BY StoreIs DEF ItemRec
<1>. QED
  BY <1>1 DEF Since

LEMMA SinceItself ==
    ASSUME NEW w \in Store
    PROVE  Since(w, w)
<1>1. \A j \in Item : w.item[j].freed \in Nat
  BY StoreIs DEF ItemRec
<1>. QED
  BY <1>1 DEF Since

LEMMA SinceChanged ==
    ASSUME NEW w \in Store, NEW i \in Item, NEW r \in ItemRec, r.type # None,
           r.parent = "void" => Void(w, i) /\ r.freed >= w.item[i].freed
    PROVE  Since(w, With(w, i, r))
<1>. DEFINE v == With(w, i, r)
<1>1. v.item[i] = r /\ (\A j \in Item : j # i => v.item[j] = w.item[j]) /\ v.list = w.list
  BY WithIs
<1>2. \A j \in Item : w.item[j].freed \in Nat
  BY StoreIs DEF ItemRec
<1>. HIDE DEF v
<1>. QED
  BY <1>1, <1>2 DEF Since, Exists, Void, v

\* What is in a cylinder exists.
LEMMA PlacedExists ==
    ASSUME NEW w, Clean(w), NEW i \in Item, w.item[i].parent # None
    PROVE  Exists(w, i)
BY DEF Clean, Absent

LEMMA ParentIs ==
    ASSUME NEW w \in Store, NEW i \in Item
    PROVE  /\ w.item[i] \in ItemRec
           /\ Placed(w, i) => w.item[i].parent \in Item \cup {"floor"}
           /\ Exists(w, i) => w.item[i].type \in Type
<1>1. w.item[i] \in ItemRec
  BY StoreIs
<1>. QED
  BY <1>1, RecordIs DEF Placed, Exists

LEMMA RemoveItemIsSound ==
    ASSUME NEW w, NEW T, NEW lag, NEW X, NEW K, NEW E, Sound(w, T, lag, X), Marks(w, K, E),
           NEW i \in Item, E \subseteq {i}, Placed(w, i)
    PROVE  LET v == RemoveItem(w, i)
           IN  /\ Sound(v, T, lag, X) /\ Marks(v, K, {}) /\ Since(w, v)
               /\ v.item[i] = Given(w.item[i]) /\ v.list = w.list /\ v.full = w.full
               /\ \A j \in Item : j # i => v.item[j] = w.item[j]
<1>. DEFINE q == w.item[i]
            r == Given(q)
            v == RemoveItem(w, i)
<1>1. w \in Store /\ Clean(w)
  BY DEF Sound, Fine
<1>2. v = With(w, i, r) /\ r \in ItemRec /\ q \in ItemRec
  BY <1>1, FreeThingIs, ParentIs
<1>3. /\ r.parent = None /\ r.type = q.type /\ r.dur = q.dur /\ r.marked = q.marked
      /\ r.refs = q.refs /\ r.freed = q.freed + 1 /\ r.left = q.left
  BY DEF Given, Rec
<1>4. Exists(w, i) /\ r.type # None
  BY <1>1, <1>3, PlacedExists DEF Placed, Exists
<1>5. q.freed \in Nat
  BY <1>2, RecordIs
<1>. HIDE DEF r, v
<1>6. Sound(With(w, i, r), T, lag, X)
  <2>1. B(r.parent \notin {None, "void"}) + B(i \in T /\ r.parent = "void") + r.freed + B(i \in X)
            = B(Placed(w, i)) + B(i \in T /\ Void(w, i)) + w.item[i].freed + B(i \in X)
    BY <1>3, <1>5, ConstantsApart DEF Placed, Void, B
  <2>2. r.parent \notin Item
    BY <1>3, ConstantsApart
  <2>. QED
    BY <1>2, <1>3, <1>4, <2>1, <2>2, ChangedIsSound
<1>7. Marks(With(w, i, r), K, {})
  <2>1. Marks(With(w, i, r), K, E \ {i})
    BY <1>1, <1>2, <1>3, ChangedKeepsMarks
  <2>2. E \ {i} = {}
    OBVIOUS
  <2>. QED
    BY <2>1, <2>2
<1>8. Since(w, With(w, i, r))
  BY <1>1, <1>2, <1>3, <1>4, ConstantsApart, SinceChanged
<1>. QED
  BY <1>1, <1>2, <1>6, <1>7, <1>8, WithIs DEF v, r

LEMMA SetIDIsSound ==
    ASSUME NEW w, NEW T, NEW lag, NEW X, NEW K, NEW E, Sound(w, T, lag, X), Marks(w, K, E),
           NEW i \in Item, E \subseteq {i}, Exists(w, i), NEW t \in Type,
           E = {} \/ Ends0(t) \/ Starts(w, i, t) \/ OutOfTime(w, i)
    PROVE  LET v == SetID(w, i, t)
           IN  Sound(v, T, lag, X) /\ Marks(v, K, {}) /\ Since(w, v)
<1>. DEFINE q == w.item[i]
            r == Become(w, i, t)
<1>1. w \in Store /\ Clean(w)
  BY DEF Sound, Fine
<1>2. SetID(w, i, t) = With(w, i, r) /\ r \in ItemRec /\ q \in ItemRec
  BY <1>1, BecomeIs, ParentIs
<1>3. /\ r.parent = q.parent /\ r.type = t
      /\ r.refs = q.refs /\ r.freed = q.freed /\ r.left = None
      /\ r.marked => q.marked /\ ~Ends0(t) /\ ~Starts(w, i, t)
      /\ r.dur = IF Starts(w, i, t) THEN Types[t].time ELSE IF Ends0(t) THEN None ELSE q.dur
  BY <1>1, BecomeIs
<1>4. r.type # None
  BY <1>3, ConstantsApart
<1>5. q.freed \in Nat
  BY <1>2, RecordIs
<1>. HIDE DEF r
<1>6. Sound(With(w, i, r), T, lag, X)
  <2>1. B(r.parent \notin {None, "void"}) + B(i \in T /\ r.parent = "void") + r.freed + B(i \in X)
            = B(Placed(w, i)) + B(i \in T /\ Void(w, i)) + w.item[i].freed + B(i \in X)
    BY <1>3 DEF Placed, Void
  <2>2. r.parent \in Item => Exists(w, r.parent)
    BY <1>1, <1>3 DEF Clean
  <2>. QED
    BY <1>2, <1>3, <1>4, <2>1, <2>2, Exists(w, i), ChangedIsSound
<1>7. Marks(With(w, i, r), K, {})
  <2>. DEFINE held == Listed(w, i) \/ w.full \/ r.parent = None \/ (r.parent = "void" /\ i \in K)
  <2>1. r.marked => held \/ Stuck(r)
    <3>. SUFFICES ASSUME r.marked, ~held
                  PROVE  Stuck(r)
      OBVIOUS
    <3>1. Types[t].time \in Nat
      BY ItemsAssumption
    <3>2. q.marked /\ ~Ends0(t) /\ ~Starts(w, i, t) /\ r.dur = q.dur
      BY <1>3
    <3>3. Types[r.type].time > 0 \/ KeepsMark(r.type)
      BY <1>3, <3>1, <3>2 DEF Ends0, KeepsMark
    <3>4. CASE E = {}
      <4>1. Stuck(q)
        BY <1>3, <3>2, <3>4 DEF Marks, Void
      <4>. QED
        BY <4>1, <3>2, <3>3 DEF Stuck
    <3>5. CASE OutOfTime(w, i)
      BY <3>2, <3>3, <3>5 DEF Stuck, OutOfTime
    <3>. QED
      BY <3>2, <3>4, <3>5
  <2>2. Marks(With(w, i, r), K, E \ {i})
    BY <1>1, <1>2, <2>1, ChangedKeepsMarks
  <2>3. E \ {i} = {}
    OBVIOUS
  <2>. QED
    BY <2>2, <2>3
<1>8. Since(w, With(w, i, r))
  <2>1. r.parent = "void" => Void(w, i) /\ r.freed >= w.item[i].freed
    BY <1>3, <1>5 DEF Void
  <2>. QED
    BY <1>1, <1>2, <1>4, <2>1, SinceChanged
<1>. QED
  BY <1>2, <1>6, <1>7, <1>8

\* An address that is free.
LEMMA FreshIs ==
    ASSUME NEW w, Roomy(w)
    PROVE  Fresh(w) \in Item /\ ~Exists(w, Fresh(w))
BY DEF Roomy, Fresh

\* An item is made in a cylinder.
LEMMA MadeIsSound ==
    ASSUME NEW w, NEW T, NEW lag, NEW X, NEW K, NEW E, Sound(w, T, lag, X), Marks(w, K, E),
           NEW n \in Item, ~Exists(w, n), NEW t \in Type, NEW p \in Item \cup {"floor"},
           p \in Item => Exists(w, p), NEW d, Made(t, p, d) \in ItemRec
    PROVE  LET v == With(w, n, Made(t, p, d))
           IN  Sound(v, T, lag, X) /\ Marks(v, K, E) /\ Since(w, v) /\ v \in Store
<1>. DEFINE r == Made(t, p, d)
            v == With(w, n, r)
<1>1. w \in Store /\ Clean(w)
  BY DEF Sound, Fine
<1>2. /\ r.parent = p /\ r.type = t /\ r.marked = FALSE /\ r.refs = 1 /\ r.freed = 0
      /\ r.left = None /\ r \in ItemRec
  BY DEF Made, Rec
<1>3. r.type # None /\ p # None /\ p # "void"
  BY <1>2, ConstantsApart
<1>. HIDE DEF r
<1>4. Sound(v, T, lag, X)
  <2>1. B(r.parent \notin {None, "void"}) + B(n \in T /\ r.parent = "void") = 1
    BY <1>2, <1>3 DEF B
  <2>. QED
    BY <1>2, <1>3, <2>1, CreatedIsSound
<1>5. /\ v.item[n] = r /\ \A j \in Item : j # n => v.item[j] = w.item[j]
      /\ v.list = w.list /\ v.full = w.full /\ v \in Store
  BY <1>1, <1>2, WithIs
<1>. HIDE DEF v
<1>6. Marks(v, K, E)
  <2>1. \A j : Listed(v, j) = Listed(w, j)
    BY <1>5, EntriesOfLists
  <2>. QED
    BY <1>2, <1>5, <2>1 DEF Marks, Void
<1>7. Since(w, v)
  BY <1>1, <1>2, <1>3, SinceChanged DEF v
<1>. QED
  BY <1>4, <1>5, <1>6, <1>7 DEF v, r

LEMMA ExchangeIsSound ==
    ASSUME NEW w, NEW T, NEW lag, NEW X, NEW K, NEW E, Sound(w, T, lag, X), Marks(w, K, E),
           NEW i \in Item, E \subseteq {i}, Placed(w, i), NEW t \in Type, Roomy(w)
    PROVE  LET v == Exchange(w, i, t)
           IN  Sound(v, T, lag, X) /\ Marks(v, K, {}) /\ Since(w, v) /\ Exists(v, Fresh(w))
<1>. DEFINE n == Fresh(w)
            p == w.item[i].parent
            u == RemoveItem(w, i)
            r == Made(t, p, None)
            v == With(u, n, r)
<1>1. w \in Store /\ Clean(w)
  BY DEF Sound, Fine
<1>2. n \in Item /\ ~Exists(w, n) /\ Exists(w, i) /\ n # i
  BY <1>1, FreshIs, PlacedExists DEF Placed
<1>3. p \in Item \cup {"floor"} /\ (p \in Item => Exists(w, p))
  BY <1>1, ParentIs DEF Clean
<1>4. /\ Sound(u, T, lag, X) /\ Marks(u, K, {}) /\ Since(w, u)
      /\ u.item[i] = Given(w.item[i]) /\ \A j \in Item : j # i => u.item[j] = w.item[j]
  BY RemoveItemIsSound
<1>5. u \in Store
  BY <1>4 DEF Sound, Fine
<1>. HIDE DEF u, n
<1>6. ~Exists(u, n) /\ (p \in Item => Exists(u, p))
  BY <1>2, <1>3, <1>4 DEF Exists, Since
<1>7. Exchange(w, i, t) = v /\ r \in ItemRec
  <2>1. Exchange(w, i, t) = Timeless(Create(u, n, t, p), n)
    BY DEF Exchange, u, n, Timeless
  <2>. HIDE DEF p
  <2>2. p \in Item \cup {"floor", "void"}
    BY <1>3
  <2>3. /\ Made(t, p, Time(t)) \in ItemRec /\ Made(t, p, None) \in ItemRec
        /\ Create(u, n, t, p) = With(u, n, Made(t, p, Time(t)))
    BY <2>2, <1>2, <1>5, MadeIs
  <2>4. Timeless(With(u, n, Made(t, p, Time(t))), n) = v
    BY <2>3, <1>2, <1>5, TimelessIs
  <2>. QED
    BY <2>1, <2>3, <2>4
<1>. HIDE DEF p, r
<1>8. Sound(v, T, lag, X) /\ Marks(v, K, {}) /\ Since(u, v) /\ v \in Store
  BY <1>2, <1>3, <1>4, <1>6, <1>7, MadeIsSound DEF r
<1>9. Since(w, v)
  BY <1>1, <1>4, <1>5, <1>8, SinceAgain
<1>10. Exists(v, n)
  <2>1. v.item[n] = r
    BY <1>2, <1>5, <1>7, WithIs
  <2>. QED
    BY <2>1, ConstantsApart DEF Exists, r, Made, Rec
<1>. QED
  BY <1>7, <1>8, <1>9, <1>10 DEF n

LEMMA ReplaceIsSound ==
    ASSUME NEW w, NEW T, NEW lag, NEW X, NEW K, NEW E, Sound(w, T, lag, X), Marks(w, K, E),
           NEW i \in Item, E \subseteq {i}, Placed(w, i), NEW t \in Type, Roomy(w)
    PROVE  LET v == Replace(w, i, t)
           IN  Sound(v, T, lag, X) /\ Marks(v, K, {}) /\ Since(w, v) /\ Exists(v, Fresh(w))
<1>. DEFINE n == Fresh(w)
            p == w.item[i].parent
            r == Made(t, p, Time(t))
            u == With(w, n, r)
            v == RemoveItem(u, i)
<1>1. w \in Store /\ Clean(w)
  BY DEF Sound, Fine
<1>2. n \in Item /\ ~Exists(w, n) /\ Exists(w, i) /\ n # i
  BY <1>1, FreshIs, PlacedExists DEF Placed
<1>3. p \in Item \cup {"floor"} /\ (p \in Item => Exists(w, p))
  BY <1>1, ParentIs DEF Clean
<1>. HIDE DEF n
<1>4. r \in ItemRec /\ Create(w, n, t, p) = u
  <2>. HIDE DEF p
  <2>1. p \in Item \cup {"floor", "void"}
    BY <1>3
  <2>. QED
    BY <1>1, <1>2, <2>1, MadeIs
<1>5. Sound(u, T, lag, X) /\ Marks(u, K, E) /\ Since(w, u) /\ u \in Store
  <2>. HIDE DEF p
  <2>. QED
    BY <1>2, <1>3, <1>4, MadeIsSound
<1>6. u.item[n] = r /\ u.item[i] = w.item[i]
  <2>. HIDE DEF r
  <2>. QED
    BY <1>1, <1>2, <1>4, WithIs
<1>7. Replace(w, i, t) = v
  <2>1. Replace(w, i, t) = FreeThing([Create(w, n, t, p) EXCEPT !.item[i].parent = None], i)
    BY DEF Replace, n
  <2>. HIDE DEF u, r
  <2>2. Replace(w, i, t) = FreeThing([u EXCEPT !.item[i].parent = None], i)
    BY <2>1, <1>4
  <2>3. Placed(u, i)
    BY <1>6 DEF Placed
  <2>. QED
    BY <2>2, <2>3 DEF RemoveItem, Placed
<1>. HIDE DEF p, r, u
<1>8. Placed(u, i)
  BY <1>6 DEF Placed
<1>9. /\ Sound(v, T, lag, X) /\ Marks(v, K, {}) /\ Since(u, v)
      /\ \A j \in Item : j # i => v.item[j] = u.item[j]
  BY <1>5, <1>8, RemoveItemIsSound
<1>10. v \in Store
  BY <1>9 DEF Sound, Fine
<1>. HIDE DEF v
<1>11. Since(w, v)
  BY <1>1, <1>5, <1>9, <1>10, SinceAgain
<1>12. Exists(v, n)
  BY <1>2, <1>6, <1>9, ConstantsApart DEF Exists, r, Made, Rec
<1>. QED
  BY <1>7, <1>9, <1>11, <1>12 DEF n

\* The task would need more addresses than there are.
LEMMA FullIsSound ==
    ASSUME NEW w, NEW T, NEW lag, NEW X, NEW K, Sound(w, T, lag, X)
    PROVE  LET v == [w EXCEPT !.full = TRUE]
           IN  Sound(v, T, lag, X) /\ Marks(v, K, {}) /\ Since(w, v)
<1>. DEFINE v == [w EXCEPT !.full = TRUE]
<1>1. w \in Store
  BY DEF Sound, Fine
<1>2. /\ v \in Store /\ v.item = w.item /\ v.list = w.list /\ v.ends = w.ends
      /\ v.torn = w.torn /\ v.full = TRUE
  BY <1>1 DEF Store
<1>. HIDE DEF v
<1>3. \A i \in Item : /\ Many(v, i) = Many(w, i) /\ (Exists(v, i) <=> Exists(w, i))
                      /\ (Placed(v, i) <=> Placed(w, i)) /\ (Void(v, i) <=> Void(w, i))
                      /\ \A k \in 0 .. New : In(v, k, i) = In(w, k, i)
  BY <1>2, EntriesOfLists DEF Exists, Placed, Void
<1>4. Clean(v) /\ Alive(v)
  BY <1>2, <1>3 DEF Sound, Fine, Clean, Alive, Exists
<1>5. Counted(v, T, X)
  <2>. SUFFICES ASSUME NEW i \in Item
                PROVE  v.item[i].refs = B(Placed(v, i)) + B(i \in T /\ Void(v, i)) + Many(v, i)
                                        + v.item[i].freed + B(i \in X)
    BY DEF Counted
  <2>1. w.item[i].refs = B(Placed(w, i)) + B(i \in T /\ Void(w, i)) + Many(w, i)
                                        + w.item[i].freed + B(i \in X)
    BY DEF Sound, Counted
  <2>2. B(Placed(w, i)) = B(Placed(v, i)) /\ B(i \in T /\ Void(w, i)) = B(i \in T /\ Void(v, i))
    BY <1>3 DEF B
  <2>. QED
    BY <2>1, <2>2, <1>2, <1>3
<1>6. Punctual(v, lag)
  BY <1>2, <1>3 DEF Sound, Fine, Punctual, Due
<1>7. Marks(v, K, {})
  BY <1>2 DEF Marks
<1>8. Since(w, v)
  <2>1. Since(w, w)
    BY <1>1, SinceItself
  <2>. QED
    BY <2>1, <1>2, <1>3 DEF Since
<1>. QED
  BY <1>2, <1>4, <1>5, <1>6, <1>7, <1>8 DEF Sound, Fine, v

\* transformItem, of an item whose mark is in order, or that starts or ends its time.
LEMMA TransformIsSound ==
    ASSUME NEW w, NEW T, NEW lag, NEW X, NEW K, NEW E, Sound(w, T, lag, X), Marks(w, K, E),
           NEW i \in Item, Exists(w, i), NEW t \in Type,
           \/ E = {}
           \/ /\ E = {i} /\ w.item[i].type # t /\ w.item[i].parent # None
              /\ Void(w, i) => i \in K
              /\ Ends0(t) \/ Starts(w, i, t) \/ OutOfTime(w, i)
    PROVE  LET r == Transform(w, i, t)
           IN  /\ Sound(r.store, T, lag, X) /\ Marks(r.store, K, {}) /\ Since(w, r.store)
               /\ r.item \in Item \cup {None} /\ (r.item # None => Exists(r.store, r.item))
<1>. DEFINE r == Transform(w, i, t)
            new == Types[t]
            old == TypeOf(w, i)
            like == old.top = new.top /\ old.class = new.class
<1>0. w \in Store /\ E \subseteq {i} /\ Since(w, w)
  BY SinceItself DEF Sound, Fine
<1>1. CASE w.item[i].type = t \/ Void(w, i)
  <2>1. r.store = w /\ r.item = i
    BY <1>1 DEF Transform, Void
  <2>2. Marks(w, K, {})
    BY <1>1 DEF Marks
  <2>. QED
    BY <2>1, <2>2, <1>0
<1>2. CASE ~(w.item[i].type = t \/ Void(w, i)) /\ w.item[i].parent = None
  <2>1. r.store = w /\ r.item = None
    BY <1>2 DEF Transform, Void
  <2>2. Marks(w, K, {})
    BY <1>2 DEF Marks
  <2>. QED
    BY <2>1, <2>2, <1>0
<1>3. CASE ~(w.item[i].type = t \/ Void(w, i)) /\ w.item[i].parent # None
  <2>1. Placed(w, i)
    BY <1>3 DEF Placed, Void
  <2>2. CASE like
    <3>1. r.store = SetID(w, i, t) /\ r.item = i
      BY <1>3, <2>2 DEF Transform, Void
    <3>2. Sound(SetID(w, i, t), T, lag, X) /\ Marks(SetID(w, i, t), K, {}) /\ Since(w, SetID(w, i, t))
      BY <1>0, SetIDIsSound
    <3>. QED
      BY <3>1, <3>2 DEF Since
  <2>3. CASE ~like /\ ~Roomy(w)
    <3>1. r.store = [w EXCEPT !.full = TRUE] /\ r.item = None
      BY <1>3, <2>3 DEF Transform, Void
    <3>. QED
      BY <3>1, FullIsSound
  <2>4. CASE ~like /\ Roomy(w) /\ old.top # new.top
    <3>1. r.store = Exchange(w, i, t) /\ r.item = Fresh(w)
      BY <1>3, <2>4 DEF Transform, Void
    <3>. QED
      BY <3>1, <1>0, <2>1, <2>4, ExchangeIsSound, FreshIs
  <2>5. CASE ~like /\ Roomy(w) /\ old.top = new.top
    <3>1. r.store = Replace(w, i, t) /\ r.item = Fresh(w)
      BY <1>3, <2>5 DEF Transform, Void
    <3>. QED
      BY <3>1, <1>0, <2>1, <2>5, ReplaceIsSound, FreshIs
  <2>. QED
    BY <2>2, <2>3, <2>4, <2>5
<1>. QED
  BY <1>1, <1>2, <1>3

-----------------------------------------------------------------------------
(* Items start to decay. *)

LEMMA InGameIs ==
    ASSUME NEW w, NEW i \in Item, ~Removed(w, i)
    PROVE  w.item[i].parent # None
<1>1. i \in Holders(w, i)
  BY DEF Holders
<1>. QED
  BY <1>1 DEF Removed

LEMMA DecayToIsSound ==
    ASSUME NEW w, NEW T, NEW lag, NEW X, NEW K, NEW E, Sound(w, T, lag, X), Marks(w, K, E),
           NEW i \in Item, Exists(w, i), CanDecay(w, i),
           E = {} \/ (E = {i} /\ w.item[i].dur \in {0, None} /\ (Void(w, i) => i \in K))
    PROVE  LET r == DecayTo(w, i)
           IN  /\ Sound(r.store, T, lag, X) /\ Marks(r.store, K, {}) /\ Since(w, r.store)
               /\ r.item \in Item \cup {None} /\ (r.item # None => Exists(r.store, r.item))
<1>. DEFINE r == DecayTo(w, i)
            old == w.item[i].type
            to == Types[old].to
<1>0. w \in Store /\ E \subseteq {i} /\ Since(w, w)
  BY SinceItself DEF Sound, Fine
<1>1. old \in Type /\ TypeOf(w, i) = Types[old]
  BY <1>0, ParentIs DEF TypeOf
<1>2. w.item[i].parent # None /\ to # None
  BY <1>1, InGameIs DEF CanDecay
<1>3. to \in Type \/ to = Gone
  BY <1>1, <1>2, ItemsAssumption
<1>4. CASE to = Gone
  <2>1. r.store = RemoveItem(w, i) /\ r.item = None
    BY <1>1, <1>4 DEF DecayTo
  <2>2. CASE Placed(w, i)
    BY <2>1, <2>2, <1>0, RemoveItemIsSound
  <2>3. CASE ~Placed(w, i)
    <3>1. Void(w, i) /\ r.store = w
      BY <2>1, <2>3, <1>2 DEF Placed, Void, RemoveItem
    <3>2. Marks(w, K, {})
      BY <3>1 DEF Marks
    <3>. QED
      BY <3>1, <3>2, <2>1, <1>0
  <2>. QED
    BY <2>2, <2>3
<1>5. CASE to \in Type
  <2>1. to # Gone
    BY <1>5, ConstantsApart
  <2>2. r = Transform(w, i, to)
    BY <1>1, <2>1 DEF DecayTo
  <2>3. to # old /\ ~Types[old].stop
    BY <1>1, <1>5, ItemsAssumption
  <2>4. Types[to].time \in Nat
    BY <1>5, ItemsAssumption
  <2>5. E = {i} => Ends0(to) \/ Starts(w, i, to) \/ OutOfTime(w, i)
    <3>. SUFFICES ASSUME E = {i}, ~Ends0(to), ~Starts(w, i, to)
                  PROVE  OutOfTime(w, i)
      OBVIOUS
    <3>1. KeepsMark(to)
      BY <2>3, <2>4, <1>1 DEF Ends0, Starts, KeepsMark
    <3>. QED
      BY <3>1, <1>1, <1>5 DEF OutOfTime
  <2>. HIDE DEF r, to
  <2>6. /\ Sound(Transform(w, i, to).store, T, lag, X) /\ Marks(Transform(w, i, to).store, K, {})
        /\ Since(w, Transform(w, i, to).store)
        /\ Transform(w, i, to).item \in Item \cup {None}
        /\ Transform(w, i, to).item # None => Exists(Transform(w, i, to).store, Transform(w, i, to).item)
    BY <1>0, <1>2, <1>5, <2>3, <2>5, TransformIsSound
  <2>. QED
    BY <2>2, <2>6 DEF r
<1>. QED
  BY <1>3, <1>4, <1>5

\* An item's time is followed from here, unless it was listed before.
Counting(w, i) ==
    LET q == w.item[i]
    IN  Rec(q.parent, q.type, q.dur, TRUE, q.refs + 1, q.freed, IF Listed(w, i) THEN None ELSE q.dur)

LEMMA StartCountingIs ==
    ASSUME NEW w \in Store, NEW i \in Item
    PROVE  /\ StartCounting(w, i) = Put(With(w, i, Counting(w, i)), New, i)
           /\ Counting(w, i) \in ItemRec
<1>. DEFINE q == w.item[i]
            l == IF Listed(w, i) THEN None ELSE q.dur
            a == [q EXCEPT !.refs = @ + 1]
            s == [a EXCEPT !.marked = TRUE, !.left = l]
            p == [w.list EXCEPT ![New] = Append(@, i)]
<1>1. w.item \in [Item -> ItemRec] /\ q \in ItemRec
  BY StoreIs
<1>2. l \in Int \cup {None} /\ q.refs + 1 \in Int
  BY <1>1, RecordIs
<1>. HIDE DEF l
<1>3. /\ DOMAIN a = DOMAIN q /\ a = [j \in DOMAIN a |-> a[j]]
      /\ DOMAIN s = DOMAIN a /\ s = [j \in DOMAIN s |-> s[j]]
  BY Zenon
<1>4. /\ s.parent = q.parent /\ s.type = q.type /\ s.dur = q.dur /\ s.marked = TRUE
      /\ s.refs = q.refs + 1 /\ s.freed = q.freed /\ s.left = l
  BY <1>1 DEF ItemRec
<1>5. s = Counting(w, i)
  <2>. HIDE DEF s, a
  <2>. QED
    BY <1>1, <1>3, <1>4, RecordIs, ByFields DEF Counting, l
<1>6. Counting(w, i) \in ItemRec
  BY <1>1, <1>2, RecordIs DEF Counting, Rec, ItemRec, l
<1>. DEFINE u == Put(AddRef(w, i), New, i)
<1>7. u.item = [w.item EXCEPT ![i] = a] /\ u.list = p
  BY <1>1 DEF Put, AddRef, Store
<1>8. StartCounting(w, i) = [u EXCEPT !.item = [u.item EXCEPT ![i] = [u.item[i] EXCEPT !.marked = TRUE, !.left = l]]]
  BY DEF StartCounting, l
<1>9. u.item[i] = a
  BY <1>1, <1>7
<1>. HIDE DEF u
<1>10. StartCounting(w, i) = [u EXCEPT !.item = [u.item EXCEPT ![i] = s]]
  BY <1>8, <1>9
<1>11. [u.item EXCEPT ![i] = s] = [w.item EXCEPT ![i] = s]
  <2>. HIDE DEF s, a
  <2>. QED
    BY <1>1, <1>7
<1>12. \A f : [u EXCEPT !.item = f] = Put([w EXCEPT !.item = f], New, i)
  BY DEF u, Put, AddRef, Store
<1>. QED
  BY <1>5, <1>6, <1>10, <1>11, <1>12 DEF With

\* From w to v, i has an entry more.
OneMore(w, v, i) == v.item = w.item /\ \A j \in Item : Many(v, j) = Many(w, j) + B(j = i)

\* An entry is added, for an item whose time is not followed or that had none.
LEMMA PutIsFine ==
    ASSUME NEW w, NEW lag, Fine(w, lag), NEW k \in 0 .. New, NEW i \in Item, NEW K, NEW E, Marks(w, K, E),
           w.item[i].left = None \/ (~Listed(w, i) /\ Due(w, lag, i, k))
    PROVE  LET v == Put(w, k, i)
           IN  /\ Fine(v, lag) /\ Marks(v, K, E \ {i}) /\ (k # 0 => Since(w, v)) /\ OneMore(w, v, i)
<1>. DEFINE v == Put(w, k, i)
<1>0. w \in Store /\ Clean(w) /\ Alive(w) /\ Punctual(w, lag)
  BY DEF Fine
<1>1. /\ v \in Store /\ v = [w EXCEPT !.list = [w.list EXCEPT ![k] = Append(@, i)]]
      /\ \A j : Many(v, j) = Many(w, j) + B(j = i)
      /\ \A j : \A m \in 0 .. New : In(v, m, j) <=> In(w, m, j) \/ (m = k /\ j = i)
  BY <1>0, PutAdds
<1>2. /\ v.item = w.item /\ v.ends = w.ends /\ v.torn = w.torn /\ v.full = w.full
      /\ v.list = [w.list EXCEPT ![k] = Append(@, i)]
  BY <1>0, <1>1 DEF Store
<1>. HIDE DEF v
<1>3. Clean(v) /\ Alive(v)
  BY <1>0, <1>2 DEF Clean, Alive, Exists
<1>4. \A j \in Item : /\ Many(w, j) \in Nat /\ (Many(w, j) = 0 <=> ~Listed(w, j))
                      /\ Many(v, j) > 0 <=> Listed(v, j)
  <2>. SUFFICES ASSUME NEW j \in Item
                PROVE  /\ Many(w, j) \in Nat /\ (Many(w, j) = 0 <=> ~Listed(w, j))
                       /\ Many(v, j) > 0 <=> Listed(v, j)
    OBVIOUS
  <2>1. Many(w, j) \in Nat /\ (Listed(w, j) <=> Many(w, j) > 0)
    BY <1>0, EntriesAreFinite
  <2>2. Listed(v, j) <=> Many(v, j) > 0
    BY <1>1, EntriesAreFinite
  <2>. QED
    BY <2>1, <2>2
<1>5. \A j \in Item : Many(v, j) = IF j = i THEN Many(w, j) + 1 ELSE Many(w, j)
  <2>. SUFFICES ASSUME NEW j \in Item
                PROVE  Many(v, j) = IF j = i THEN Many(w, j) + 1 ELSE Many(w, j)
    OBVIOUS
  <2>1. Many(v, j) = Many(w, j) + B(j = i) /\ Many(w, j) \in Nat
    BY <1>1, <1>4
  <2>2. B(j = i) = IF j = i THEN 1 ELSE 0
    BY DEF B
  <2>. QED
    BY <2>1, <2>2
<1>6. Punctual(v, lag)
  <2>1. v.ends \subseteq {-2, -1, 0}
    BY <1>0, <1>2 DEF Punctual
  <2>. SUFFICES ASSUME NEW j \in Item, v.item[j].left # None
                PROVE  /\ Many(v, j) <= 1
                       /\ \A m \in 0 .. New : In(v, m, j) => Due(v, lag, j, m)
    BY <2>1 DEF Punctual
  <2>2. Many(w, j) <= 1 /\ \A m \in 0 .. New : In(w, m, j) => Due(w, lag, j, m)
    BY <1>0, <1>2 DEF Punctual
  <2>3. \A m : Due(v, lag, j, m) = Due(w, lag, j, m)
    BY <1>2 DEF Due
  <2>4. CASE j # i
    BY <2>2, <2>3, <2>4, <1>1, <1>5
  <2>5. CASE j = i
    <3>1. ~Listed(w, i) /\ Due(w, lag, i, k)
      BY <2>5, <1>2
    <3>2. Many(v, i) = 1
      BY <3>1, <1>4, <1>5
    <3>3. \A m \in 0 .. New : ~In(w, m, i)
      BY <3>1, <1>0, EntriesAreFinite
    <3>4. \A m \in 0 .. New : In(v, m, i) => m = k
      BY <3>3, <1>1
    <3>. QED
      BY <3>1, <3>2, <3>4, <2>3, <2>5
  <2>. QED
    BY <2>4, <2>5
<1>7. \A j \in Item : Listed(v, j) <=> Listed(w, j) \/ j = i
  BY <1>4, <1>5
<1>8. Marks(v, K, E \ {i})
  BY <1>2, <1>7 DEF Marks, Void
<1>9. k # 0 => Since(w, v)
  <2>1. w.list \in [0 .. New -> Seq(Item)] /\ 0 \in 0 .. New
    BY <1>0, StoreIs, ListNumbers
  <2>2. k # 0 => v.list[0] = w.list[0]
    BY <2>1, <1>2
  <2>3. Since(w, w)
    BY <1>0, SinceItself
  <2>. QED
    BY <1>2, <2>2, <2>3 DEF Since, Exists, Void
<1>. QED
  BY <1>1, <1>2, <1>3, <1>6, <1>8, <1>9 DEF Fine, OneMore, v

LEMMA StartCountingIsSound ==
    ASSUME NEW w, NEW T, NEW lag, 0 \in lag, NEW X, NEW K, NEW E, Sound(w, T, lag, X), Marks(w, K, E),
           NEW i \in Item, E \subseteq {i}, Exists(w, i), w.item[i].dur # None
    PROVE  LET v == StartCounting(w, i)
           IN  Sound(v, T, lag, X) /\ Marks(v, K, {}) /\ Since(w, v)
<1>. DEFINE q == w.item[i]
            r == Counting(w, i)
            u == With(w, i, r)
            v == Put(u, New, i)
<1>0. w \in Store /\ Clean(w) /\ Alive(w) /\ Fine(w, lag) /\ Counted(w, T, X)
  BY DEF Sound, Fine
<1>1. StartCounting(w, i) = v /\ r \in ItemRec /\ q \in ItemRec
  BY <1>0, StartCountingIs, ParentIs
<1>2. /\ r.parent = q.parent /\ r.type = q.type /\ r.dur = q.dur /\ r.marked = TRUE
      /\ r.refs = q.refs + 1 /\ r.freed = q.freed
      /\ r.left = IF Listed(w, i) THEN None ELSE q.dur
  BY DEF Counting, Rec
<1>3. /\ q.refs \in Int /\ q.refs > 0 /\ q.freed \in Nat /\ q.dur \in Nat /\ r.type # None
  BY <1>0, <1>1, <1>2, RecordIs DEF Alive, Exists
<1>4. r.parent \in Item => Exists(w, r.parent)
  BY <1>0, <1>2 DEF Clean
<1>. HIDE DEF r
<1>5. Fine(u, lag)
  BY <1>0, <1>1, <1>2, <1>3, <1>4, ChangedIsFine
<1>6. /\ u \in Store /\ u.item[i] = r /\ (\A j \in Item : j # i => u.item[j] = w.item[j])
      /\ u.list = w.list
  BY <1>0, <1>1, WithIs
<1>7. Since(w, u)
  BY <1>0, <1>1, <1>2, <1>3, SinceChanged DEF Void
<1>8. Marks(u, K, {i})
  <2>1. \A j : Listed(u, j) = Listed(w, j)
    BY <1>6, EntriesOfLists
  <2>2. u.full = w.full
    BY <1>0, <1>1, WithIs
  <2>. HIDE DEF u
  <2>. QED
    BY <2>1, <2>2, <1>6 DEF Marks, Void
<1>9. Listed(u, i) = Listed(w, i) /\ \A j \in Item : Many(u, j) = Many(w, j) /\ Many(w, j) \in Nat
  BY <1>0, <1>6, EntriesOfLists, EntriesAreFinite
<1>. HIDE DEF u, v
<1>10. u.item[i].left = None \/ (~Listed(u, i) /\ Due(u, lag, i, New))
  <2>1. CASE Listed(w, i)
    BY <2>1, <1>2, <1>6
  <2>2. CASE ~Listed(w, i)
    <3>1. q.dur - q.dur = 0
      BY <1>3
    <3>. QED
      BY <2>2, <3>1, <1>2, <1>3, <1>6, <1>9 DEF Due
  <2>. QED
    BY <2>1, <2>2
<1>11. Fine(v, lag) /\ Marks(v, K, {}) /\ Since(u, v) /\ OneMore(u, v, i)
  <2>1. New \in 0 .. New /\ New # 0
    BY ListNumbers
  <2>2. Fine(v, lag) /\ Marks(v, K, {i} \ {i}) /\ Since(u, v) /\ OneMore(u, v, i)
    BY <2>1, <1>5, <1>8, <1>10, PutIsFine DEF v
  <2>3. {i} \ {i} = {}
    OBVIOUS
  <2>. QED
    BY <2>2, <2>3
<1>12. Counted(v, T, X)
  <2>. SUFFICES ASSUME NEW j \in Item
                PROVE  v.item[j].refs = B(Placed(v, j)) + B(j \in T /\ Void(v, j)) + Many(v, j)
                                        + v.item[j].freed + B(j \in X)
    BY DEF Counted
  <2>1. w.item[j].refs = B(Placed(w, j)) + B(j \in T /\ Void(w, j)) + Many(w, j)
                         + w.item[j].freed + B(j \in X)
    BY <1>0 DEF Counted
  <2>2. v.item[j].parent = w.item[j].parent /\ v.item[j].freed = w.item[j].freed
    BY <1>2, <1>6, <1>11 DEF OneMore
  <2>3. B(Placed(v, j)) = B(Placed(w, j)) /\ B(j \in T /\ Void(v, j)) = B(j \in T /\ Void(w, j))
    BY <2>2 DEF Placed, Void
  <2>4. B(Placed(w, j)) \in Int /\ B(j \in T /\ Void(w, j)) \in Int /\ B(j \in X) \in Int
    BY DEF B
  <2>5. w.item[j].freed \in Int /\ w.item[j].refs \in Int
    BY <1>0, StoreIs DEF ItemRec
  <2>6. CASE j = i
    <3>1. v.item[j].refs = w.item[j].refs + 1 /\ Many(v, j) = Many(w, j) + 1
      BY <2>6, <1>2, <1>6, <1>9, <1>11 DEF B, OneMore
    <3>. QED
      BY <3>1, <2>1, <2>2, <2>3, <2>4, <2>5, <1>9
  <2>7. CASE j # i
    <3>1. v.item[j].refs = w.item[j].refs /\ Many(v, j) = Many(w, j)
      BY <2>7, <1>6, <1>9, <1>11 DEF B, OneMore
    <3>. QED
      BY <3>1, <2>1, <2>2, <2>3
  <2>. QED
    BY <2>6, <2>7
<1>13. Since(w, v)
  <2>1. v \in Store
    BY <1>11 DEF Fine
  <2>. QED
    BY <2>1, <1>0, <1>6, <1>7, <1>11, SinceAgain
<1>. QED
  BY <1>1, <1>11, <1>12, <1>13 DEF Sound

LEMMA DecayToIsPair ==
    ASSUME NEW w, NEW i
    PROVE  LET r == DecayTo(w, i) IN r = [store |-> r.store, item |-> r.item]
<1>1. ASSUME NEW t
      PROVE  LET r == Transform(w, i, t) IN r = [store |-> r.store, item |-> r.item]
  <2>. DEFINE old == TypeOf(w, i)
              new == Types[t]
              a == w.item[i].type = t \/ w.item[i].parent = "void"
              b == w.item[i].parent = None
              c == old.top = new.top /\ old.class = new.class
              s == IF old.top # new.top THEN Exchange(w, i, t) ELSE Replace(w, i, t)
  <2>1. Transform(w, i, t) =
            IF a THEN [store |-> w, item |-> i]
            ELSE IF b THEN [store |-> w, item |-> None]
            ELSE IF c THEN [store |-> SetID(w, i, t), item |-> i]
            ELSE IF ~Roomy(w) THEN [store |-> [w EXCEPT !.full = TRUE], item |-> None]
            ELSE [store |-> s, item |-> Fresh(w)]
    BY DEF Transform
  <2>. HIDE DEF a, b, c, s
  <2>2. CASE a  BY <2>1, <2>2
  <2>3. CASE ~a /\ b  BY <2>1, <2>3
  <2>4. CASE ~a /\ ~b /\ c  BY <2>1, <2>4
  <2>5. CASE ~a /\ ~b /\ ~c /\ ~Roomy(w)  BY <2>1, <2>5
  <2>6. CASE ~a /\ ~b /\ ~c /\ Roomy(w)  BY <2>1, <2>6
  <2>. QED
    BY <2>2, <2>3, <2>4, <2>5, <2>6
<1>2. CASE TypeOf(w, i).to = Gone
  BY <1>2 DEF DecayTo
<1>3. CASE TypeOf(w, i).to # Gone
  BY <1>1, <1>3 DEF DecayTo
<1>. QED
  BY <1>2, <1>3

\* startDecay has come to what it has left to start.
Starting(u, r, T, lag, X, K) ==
    /\ r \in [store : Store, item : Item \cup {None}]
    /\ Sound(r.store, T, lag, X) /\ Marks(r.store, K, {}) /\ Since(u, r.store)
    /\ r.item # None => Exists(r.store, r.item)

LEMMA StartOneIsSound ==
    ASSUME NEW u \in Store, NEW r, NEW T, NEW lag, 0 \in lag, NEW X, NEW K, Starting(u, r, T, lag, X, K)
    PROVE  Starting(u, StartOne(r), T, lag, X, K)
<1>. DEFINE w == r.store
            i == r.item
            s == StartOne(r)
<1>0. /\ w \in Store /\ i \in Item \cup {None} /\ r = [store |-> w, item |-> i]
      /\ Sound(w, T, lag, X) /\ Marks(w, K, {}) /\ Since(u, w)
      /\ i # None => Exists(w, i)
  BY DEF Starting
<1>1. CASE i = None
  <2>1. s = r
    BY <1>1 DEF StartOne
  <2>. QED
    BY <2>1
<1>2. CASE i # None /\ (~CanDecay(w, i) \/ w.item[i].marked)
  <2>1. s = [store |-> w, item |-> None]
    BY <1>0, <1>2 DEF StartOne
  <2>. QED
    BY <2>1, <1>0 DEF Starting
<1>3. CASE i # None /\ CanDecay(w, i) /\ ~w.item[i].marked /\ Duration(w, i) > 0
  <2>1. s = [store |-> StartCounting(w, i), item |-> None]
    BY <1>3 DEF StartOne
  <2>2. w.item[i].dur # None
    BY <1>3 DEF Duration
  <2>3. /\ Sound(StartCounting(w, i), T, lag, X) /\ Marks(StartCounting(w, i), K, {})
        /\ Since(w, StartCounting(w, i))
    BY <1>0, <1>3, <2>2, StartCountingIsSound
  <2>4. StartCounting(w, i) \in Store
    BY <2>3 DEF Sound, Fine
  <2>5. Since(u, StartCounting(w, i))
    BY <2>3, <2>4, <1>0, SinceAgain
  <2>. QED
    BY <2>1, <2>3, <2>4, <2>5 DEF Starting
<1>4. CASE i # None /\ CanDecay(w, i) /\ ~w.item[i].marked /\ ~(Duration(w, i) > 0)
  <2>1. s = DecayTo(w, i)
    BY <1>4 DEF StartOne
  <2>2. /\ Sound(s.store, T, lag, X) /\ Marks(s.store, K, {}) /\ Since(w, s.store)
        /\ s.item \in Item \cup {None} /\ (s.item # None => Exists(s.store, s.item))
    <3>. HIDE DEF s
    <3>. QED
      BY <1>0, <1>4, <2>1, DecayToIsSound
  <2>3. s.store \in Store
    BY <2>2 DEF Sound, Fine
  <2>4. s = [store |-> s.store, item |-> s.item]
    BY <2>1, DecayToIsPair
  <2>. HIDE DEF s
  <2>5. Since(u, s.store)
    BY <2>2, <2>3, <1>0, SinceAgain
  <2>6. s \in [store : Store, item : Item \cup {None}]
    BY <2>2, <2>3, <2>4
  <2>. QED
    BY <2>2, <2>5, <2>6 DEF Starting, s
<1>. QED
  BY <1>1, <1>2, <1>3, <1>4

LEMMA StartDecayIsSound ==
    ASSUME NEW w, NEW T, NEW lag, 0 \in lag, NEW X, NEW K, Sound(w, T, lag, X), Marks(w, K, {}),
           NEW i \in Item \cup {None}, i # None => Exists(w, i)
    PROVE  LET v == StartDecay(w, i)
           IN  Sound(v, T, lag, X) /\ Marks(v, K, {}) /\ Since(w, v)
<1>. DEFINE N == 2 * Cardinality(Type)
            G == {r \in [store : Store, item : Item \cup {None}] : Starting(w, r, T, lag, X, K)}
            x == [store |-> w, item |-> i]
            step == [r \in G |-> StartOne(r)]
            after[k \in 0 .. N] == IF k = 0 THEN x ELSE StartOne(after[k - 1])
<1>1. N \in Nat
  BY ItemsAssumption, FS_CardinalityType
<1>2. w \in Store /\ Since(w, w)
  BY SinceItself DEF Sound, Fine
<1>3. x \in G
  BY <1>2 DEF Starting
<1>4. \A r \in G : StartOne(r) \in G
  <2>. SUFFICES ASSUME NEW r \in G
                PROVE  StartOne(r) \in G
    OBVIOUS
  <2>1. Starting(w, StartOne(r), T, lag, X, K)
    BY <1>2, StartOneIsSound
  <2>2. StartOne(r) \in [store : Store, item : Item \cup {None}]
    BY <2>1 DEF Starting
  <2>. QED
    BY <2>1, <2>2
<1>. HIDE DEF G, x, N
<1>5. step \in [G -> G]
  BY <1>4
<1>6. PICK h \in [0 .. N -> G] : Repeats(h, N, x, step)
  <2>. HIDE DEF step, after
  <2>. QED
    BY <1>1, <1>3, <1>5, Repeated
<1>7. \A k \in 1 .. N : h[k] = StartOne(h[k - 1])
  <2>. SUFFICES ASSUME NEW k \in 1 .. N
                PROVE  h[k] = StartOne(h[k - 1])
    OBVIOUS
  <2>1. k - 1 \in 0 .. N
    BY <1>1
  <2>2. h[k - 1] \in G
    BY <2>1
  <2>. QED
    BY <2>2, <1>6 DEF Repeats
<1>8. h = [k \in 0 .. N |-> IF k = 0 THEN x ELSE StartOne(h[k - 1])]
  BY <1>1, <1>6, <1>7 DEF Repeats
<1>9. after = [k \in 0 .. N |-> IF k = 0 THEN x ELSE StartOne(after[k - 1])]
  <2>. HIDE DEF step
  <2>. QED
    BY <1>8
<1>10. StartDecay(w, i) = after[N].store
  BY DEF StartDecay, Times, N, x
<1>. HIDE DEF after
<1>11. after[N] \in G
  <2>. DEFINE S == {k \in 0 .. N : after[k] \in G}
  <2>1. 0 \in S
    BY <1>1, <1>3, <1>9
  <2>2. \A k \in 1 .. N : k - 1 \in S => k \in S
    BY <1>1, <1>4, <1>9
  <2>3. N \in S
    <3>. HIDE DEF S
    <3>. QED
      BY <1>1, <2>1, <2>2, UpTo
  <2>. QED
    BY <2>3
<1>. QED
  BY <1>10, <1>11 DEF G, Starting

-----------------------------------------------------------------------------
(* The pass of checkDecay. *)

LEMMA SameItems ==
    ASSUME NEW w, NEW v, v.item = w.item
    PROVE  /\ \A i : /\ Exists(v, i) = Exists(w, i) /\ CanDecay(v, i) = CanDecay(w, i)
                     /\ Removed(v, i) = Removed(w, i) /\ Void(v, i) = Void(w, i) /\ Placed(v, i) = Placed(w, i)
                     /\ TypeOf(v, i) = TypeOf(w, i)
BY DEF Exists, CanDecay, Removed, Holders, TypeOf, Void, Placed

\* An entry is taken off, and is on its way.
LEMMA DropIsSound ==
    ASSUME NEW w, NEW T, NEW lag, NEW K, Sound(w, T, lag, {}), Marks(w, K, {}), NEW k \in 0 .. New,
           w.list[k] # <<>>
    PROVE  LET v == Drop(w, k)
               i == Head(w.list[k])
           IN  /\ Sound(v, T, lag, {i}) /\ Marks(v, K, {i}) /\ v.item = w.item
               /\ v.list[k] = Tail(w.list[k]) /\ (\A m \in 0 .. New : m # k => v.list[m] = w.list[m])
               /\ i \in Item /\ Exists(v, i)
               /\ v.item[i].left # None => ~Listed(v, i) /\ Due(w, lag, i, k)
<1>. DEFINE v == Drop(w, k)
            i == Head(w.list[k])
<1>0. w \in Store /\ Clean(w) /\ Alive(w) /\ Punctual(w, lag) /\ Counted(w, T, {})
  BY DEF Sound, Fine
<1>1. /\ v \in Store /\ v = [w EXCEPT !.list = [w.list EXCEPT ![k] = Tail(@)]]
      /\ i \in Item /\ In(w, k, i) /\ Many(w, i) >= 1
      /\ \A j : Many(v, j) = Many(w, j) - B(j = i)
      /\ \A j : \A m \in 0 .. New : In(v, m, j) => In(w, m, j)
  BY <1>0, DropTakes
<1>2. /\ v.item = w.item /\ v.ends = w.ends /\ v.torn = w.torn /\ v.full = w.full
      /\ v.list = [w.list EXCEPT ![k] = Tail(@)]
  BY <1>0, <1>1 DEF Store
<1>3. v.list[k] = Tail(w.list[k]) /\ \A m \in 0 .. New : m # k => v.list[m] = w.list[m]
  <2>1. w.list \in [0 .. New -> Seq(Item)]
    BY <1>0, StoreIs
  <2>. QED
    BY <2>1, <1>2
<1>. HIDE DEF v, i
<1>4. Clean(v) /\ Alive(v)
  BY <1>0, <1>2 DEF Clean, Alive, Exists
<1>5. \A j \in Item : /\ Many(w, j) \in Nat /\ Many(v, j) \in Nat
                      /\ Many(v, j) = IF j = i THEN Many(w, j) - 1 ELSE Many(w, j)
  <2>. SUFFICES ASSUME NEW j \in Item
                PROVE  /\ Many(w, j) \in Nat /\ Many(v, j) \in Nat
                       /\ Many(v, j) = IF j = i THEN Many(w, j) - 1 ELSE Many(w, j)
    OBVIOUS
  <2>1. Many(v, j) = Many(w, j) - B(j = i)
    BY <1>1
  <2>2. Many(w, j) \in Nat /\ Many(v, j) \in Nat
    BY <1>0, <1>1, EntriesAreFinite
  <2>3. B(j = i) = IF j = i THEN 1 ELSE 0
    BY DEF B
  <2>. QED
    BY <2>1, <2>2, <2>3
<1>6. Counted(v, T, {i})
  <2>. SUFFICES ASSUME NEW j \in Item
                PROVE  v.item[j].refs = B(Placed(v, j)) + B(j \in T /\ Void(v, j)) + Many(v, j)
                                        + v.item[j].freed + B(j \in {i})
    BY DEF Counted
  <2>1. w.item[j].refs = B(Placed(w, j)) + B(j \in T /\ Void(w, j)) + Many(w, j)
                         + w.item[j].freed + B(j \in {})
    BY <1>0 DEF Counted
  <2>2. B(Placed(v, j)) = B(Placed(w, j)) /\ B(j \in T /\ Void(v, j)) = B(j \in T /\ Void(w, j))
    BY <1>2 DEF Placed, Void
  <2>3. B(Placed(w, j)) \in Int /\ B(j \in T /\ Void(w, j)) \in Int /\ B(j \in {}) = 0
    BY DEF B
  <2>4. w.item[j].freed \in Int /\ w.item[j].refs \in Int
    BY <1>0, StoreIs DEF ItemRec
  <2>5. B(j \in {i}) = IF j = i THEN 1 ELSE 0
    BY DEF B
  <2>. QED
    <3>. DEFINE a == B(Placed(w, j))
                b == B(j \in T /\ Void(w, j))
                m == Many(w, j)
    <3>1. w.item[j].refs = a + b + m + w.item[j].freed
      BY <2>1, <2>3, <2>4, <1>5
    <3>2. Many(v, j) + B(j \in {i}) = m
      BY <2>5, <1>5
    <3>3. Many(v, j) \in Int /\ B(j \in {i}) \in Int /\ a \in Int /\ b \in Int /\ m \in Int
      BY <2>3, <2>5, <1>5
    <3>4. B(Placed(v, j)) = a /\ B(j \in T /\ Void(v, j)) = b
          /\ v.item[j].refs = w.item[j].refs /\ v.item[j].freed = w.item[j].freed
      BY <2>2, <1>2
    <3>. HIDE DEF a, b, m
    <3>. QED
      BY <3>1, <3>2, <3>3, <3>4, <2>4
<1>7. Punctual(v, lag)
  <2>1. \A j \in Item : Many(v, j) <= Many(w, j)
    BY <1>5
  <2>2. \A j \in Item, m \in 0 .. New : Due(v, lag, j, m) = Due(w, lag, j, m)
    BY <1>2 DEF Due
  <2>3. v.ends \subseteq {-2, -1, 0}
    BY <1>0, <1>2 DEF Punctual
  <2>. SUFFICES ASSUME NEW j \in Item, v.item[j].left # None
                PROVE  /\ Many(v, j) <= 1
                       /\ \A m \in 0 .. New : In(v, m, j) => Due(v, lag, j, m)
    BY <2>3 DEF Punctual
  <2>4. Many(w, j) <= 1 /\ \A m \in 0 .. New : In(w, m, j) => Due(w, lag, j, m)
    BY <1>0, <1>2 DEF Punctual
  <2>. QED
    <3>1. Many(v, j) <= 1
      BY <2>1, <2>4, <1>5
    <3>2. \A m \in 0 .. New : In(v, m, j) => In(w, m, j)
      BY <1>1
    <3>. QED
      BY <2>2, <2>4, <3>1, <3>2
<1>8. \A j \in Item : j # i => Listed(v, j) = Listed(w, j)
  <2>. SUFFICES ASSUME NEW j \in Item, j # i
                PROVE  Listed(v, j) = Listed(w, j)
    OBVIOUS
  <2>1. (Listed(v, j) <=> Many(v, j) > 0) /\ (Listed(w, j) <=> Many(w, j) > 0)
    BY <1>0, <1>1, EntriesAreFinite
  <2>2. Listed(v, j) <=> Listed(w, j)
    BY <2>1, <1>5
  <2>. QED
    BY <2>2 DEF Listed
<1>9. Marks(v, K, {i})
  BY <1>2, <1>8 DEF Marks, Void
<1>10. Exists(v, i)
  <2>1. Exists(w, i)
    <3>1. ~Exists(w, i) => Many(w, i) = 0
      BY <1>0, <1>1, AbsentIsNowhere
    <3>. QED
      BY <3>1, <1>1
  <2>. QED
    BY <2>1, <1>2 DEF Exists
<1>11. ASSUME v.item[i].left # None
       PROVE  ~Listed(v, i) /\ Due(w, lag, i, k)
  <2>1. Many(w, i) <= 1 /\ Due(w, lag, i, k)
    <3>1. w.item[i].left # None
      BY <1>2, <1>11
    <3>. QED
      BY <3>1, <1>0, <1>1 DEF Punctual
  <2>2. Many(v, i) = 0
    <3>1. i \in Item /\ Many(w, i) >= 1
      BY <1>1
    <3>2. Many(v, i) = Many(w, i) - 1 /\ Many(w, i) \in Nat
      BY <3>1, <1>5
    <3>. QED
      BY <2>1, <3>1, <3>2
  <2>3. ~Listed(v, i)
    <3>1. Listed(v, i) <=> Many(v, i) > 0
      BY <1>1, EntriesAreFinite
    <3>. QED
      BY <3>1, <2>2
  <2>. QED
    BY <2>1, <2>3
<1>. QED
  BY <1>1, <1>2, <1>3, <1>4, <1>6, <1>7, <1>9, <1>10, <1>11 DEF Sound, Fine, v, i

\* What decays is noted.
LEMMA NotedIsSound ==
    ASSUME NEW w, NEW T, NEW lag, NEW X, NEW K, NEW E, Sound(w, T, lag, X), Marks(w, K, E),
           NEW i \in Item, w.item[i].left \in {-2, -1, 0, None}
    PROVE  LET v == [w EXCEPT !.ends = @ \cup ({w.item[i].left} \ {None})]
           IN  /\ Sound(v, T, lag, X) /\ Marks(v, K, E) /\ Since(w, v) /\ v.item = w.item
<1>. DEFINE e == w.ends \cup ({w.item[i].left} \ {None})
            v == [w EXCEPT !.ends = e]
<1>0. w \in Store /\ Clean(w) /\ Alive(w) /\ Punctual(w, lag) /\ Counted(w, T, X)
  BY DEF Sound, Fine
<1>1. e \subseteq {-2, -1, 0} /\ e \in SUBSET Int
  BY <1>0 DEF Punctual
<1>. HIDE DEF e
<1>2. /\ v \in Store /\ v.item = w.item /\ v.list = w.list /\ v.torn = w.torn /\ v.full = w.full
      /\ v.ends = e
  BY <1>0, <1>1 DEF Store
<1>3. v = [w EXCEPT !.ends = @ \cup ({w.item[i].left} \ {None})]
  BY DEF e
<1>. HIDE DEF v
<1>4. \A j : /\ Many(v, j) = Many(w, j) /\ Listed(v, j) = Listed(w, j)
             /\ \A k : In(v, k, j) = In(w, k, j)
  BY <1>2, EntriesOfLists
<1>5. \A j : Exists(v, j) = Exists(w, j) /\ Void(v, j) = Void(w, j) /\ Placed(v, j) = Placed(w, j)
  BY <1>2 DEF Exists, Void, Placed
<1>6. Clean(v) /\ Alive(v)
  BY <1>0, <1>2 DEF Clean, Alive, Exists
<1>7. Counted(v, T, X)
  <2>. SUFFICES ASSUME NEW j \in Item
                PROVE  v.item[j].refs = B(Placed(v, j)) + B(j \in T /\ Void(v, j)) + Many(v, j)
                                        + v.item[j].freed + B(j \in X)
    BY DEF Counted
  <2>1. w.item[j].refs = B(Placed(w, j)) + B(j \in T /\ Void(w, j)) + Many(w, j)
                         + w.item[j].freed + B(j \in X)
    BY <1>0 DEF Counted
  <2>2. B(Placed(v, j)) = B(Placed(w, j)) /\ B(j \in T /\ Void(v, j)) = B(j \in T /\ Void(w, j))
    BY <1>2 DEF Placed, Void
  <2>. QED
    BY <2>1, <2>2, <1>2, <1>4
<1>8. Punctual(v, lag)
  BY <1>0, <1>1, <1>2, <1>4 DEF Punctual, Due
<1>9. Marks(v, K, E)
  BY <1>2, <1>4, <1>5 DEF Marks
<1>10. Since(w, v)
  <2>1. Since(w, w)
    BY <1>0, SinceItself
  <2>. QED
    BY <2>1, <1>2, <1>5 DEF Since
<1>. QED
  BY <1>2, <1>3, <1>6, <1>7, <1>8, <1>9, <1>10 DEF Sound, Fine

LEMMA InternalDecayItemIsSound ==
    ASSUME NEW w, NEW T, NEW lag, 0 \in lag, NEW X, NEW K, NEW i \in Item,
           Sound(w, T, lag, X), Marks(w, K, {i}), Exists(w, i), CanDecay(w, i), Void(w, i) => i \in K,
           w.item[i].dur \in {0, None}, w.item[i].left \in {-2, -1, 0, None}
    PROVE  LET v == InternalDecayItem(w, i)
           IN  Sound(v, T, lag, X) /\ Marks(v, K, {}) /\ Since(w, v)
<1>. DEFINE u == [w EXCEPT !.ends = @ \cup ({w.item[i].left} \ {None})]
            r == DecayTo(u, i)
            v == StartDecay(r.store, r.item)
<1>1. Sound(u, T, lag, X) /\ Marks(u, K, {i}) /\ Since(w, u) /\ u.item = w.item
  BY NotedIsSound
<1>2. InternalDecayItem(w, i) = v
  BY DEF InternalDecayItem
<1>. HIDE DEF u
<1>3. Exists(u, i) /\ CanDecay(u, i) /\ (Void(u, i) => i \in K)
  BY <1>1, SameItems
<1>4. /\ Sound(r.store, T, lag, X) /\ Marks(r.store, K, {}) /\ Since(u, r.store)
      /\ r.item \in Item \cup {None} /\ (r.item # None => Exists(r.store, r.item))
  <2>1. u.item[i].dur \in {0, None}
    BY <1>1
  <2>. QED
    BY <1>1, <1>3, <2>1, DecayToIsSound
<1>. HIDE DEF r
<1>5. Sound(v, T, lag, X) /\ Marks(v, K, {}) /\ Since(r.store, v)
  BY <1>4, StartDecayIsSound
<1>6. w \in Store /\ u \in Store /\ r.store \in Store /\ v \in Store
  BY <1>1, <1>4, <1>5 DEF Sound, Fine
<1>. HIDE DEF v
<1>7. Since(w, v)
  BY <1>1, <1>4, <1>5, <1>6, SinceAgain
<1>. QED
  BY <1>2, <1>5, <1>7

\* The record of an item with another time, and of one that is not marked.
Lasts(q, x) == Rec(q.parent, q.type, x, q.marked, q.refs, q.freed, q.left)
Unmarked(q) == Rec(q.parent, q.type, q.dur, FALSE, q.refs, q.freed, q.left)
Shorten(w, i, x) == [w EXCEPT !.item[i].dur = x]

LEMMA LastsIs ==
    ASSUME NEW w \in Store, NEW i \in Item, NEW x \in Nat \cup {None}
    PROVE  /\ Shorten(w, i, x) = With(w, i, Lasts(w.item[i], x))
           /\ [w EXCEPT !.item[i].marked = FALSE] = With(w, i, Unmarked(w.item[i]))
           /\ Lasts(w.item[i], x) \in ItemRec /\ Unmarked(w.item[i]) \in ItemRec
<1>. DEFINE q == w.item[i]
            a == [q EXCEPT !.dur = x]
            b == [q EXCEPT !.marked = FALSE]
<1>1. q \in ItemRec
  BY StoreIs
<1>2. /\ DOMAIN a = DOMAIN q /\ a = [j \in DOMAIN a |-> a[j]]
      /\ DOMAIN b = DOMAIN q /\ b = [j \in DOMAIN b |-> b[j]]
  BY Zenon
<1>3. /\ a.parent = q.parent /\ a.type = q.type /\ a.dur = x /\ a.marked = q.marked
      /\ a.refs = q.refs /\ a.freed = q.freed /\ a.left = q.left
      /\ b.parent = q.parent /\ b.type = q.type /\ b.dur = q.dur /\ b.marked = FALSE
      /\ b.refs = q.refs /\ b.freed = q.freed /\ b.left = q.left
  BY <1>1 DEF ItemRec
<1>4. a = Lasts(q, x) /\ b = Unmarked(q)
  <2>. HIDE DEF a, b
  <2>. QED
    BY <1>1, <1>2, <1>3, RecordIs, ByFields DEF Lasts, Unmarked
<1>5. Lasts(q, x) \in ItemRec /\ Unmarked(q) \in ItemRec
  BY <1>1, RecordIs DEF Lasts, Unmarked, Rec, ItemRec
<1>6. /\ Shorten(w, i, x) = [w EXCEPT !.item = [w.item EXCEPT ![i] = a]]
      /\ [w EXCEPT !.item[i].marked = FALSE] = [w EXCEPT !.item = [w.item EXCEPT ![i] = b]]
  BY DEF Shorten
<1>. QED
  BY <1>4, <1>5, <1>6 DEF With

\* FreeThing, of an item whose entry was on its way.
LEMMA FreeThingIsSound ==
    ASSUME NEW w, NEW T, NEW lag, NEW K, NEW i \in Item, Sound(w, T, lag, {i}), Marks(w, K, {}), Exists(w, i)
    PROVE  LET v == FreeThing(w, i)
           IN  Sound(v, T, lag, {}) /\ Marks(v, K, {}) /\ v.list = w.list
<1>. DEFINE q == w.item[i]
            r == Freed(q)
            v == With(w, i, r)
<1>1. w \in Store /\ Clean(w)
  BY DEF Sound, Fine
<1>2. FreeThing(w, i) = v /\ r \in ItemRec /\ q \in ItemRec
  BY <1>1, FreeThingIs, ParentIs
<1>3. /\ r.parent = q.parent /\ r.type = q.type /\ r.dur = q.dur /\ r.marked = q.marked
      /\ r.refs = q.refs /\ r.freed = q.freed + 1 /\ r.left = q.left
  BY DEF Freed, Rec
<1>4. q.freed \in Nat /\ r.type # None
  BY <1>2, <1>3, RecordIs DEF Exists
<1>. HIDE DEF r
<1>5. Sound(v, T, lag, {})
  <2>1. B(i \in {}) = 0 /\ B(i \in {i}) = 1
    BY DEF B
  <2>. DEFINE a == B(Placed(w, i))
              b == B(i \in T /\ Void(w, i))
  <2>2. a \in Int /\ b \in Int
    BY DEF B
  <2>3. B(r.parent \notin {None, "void"}) = a /\ B(i \in T /\ r.parent = "void") = b
    BY <1>3 DEF Placed, Void
  <2>. HIDE DEF a, b
  <2>4. B(r.parent \notin {None, "void"}) + B(i \in T /\ r.parent = "void") + r.freed + B(i \in {})
            = a + b + w.item[i].freed + B(i \in {i})
    BY <2>1, <2>2, <2>3, <1>3, <1>4
  <2>5. r.parent \in Item => Exists(w, r.parent)
    BY <1>1, <1>3 DEF Clean
  <2>6. \A j \in Item \ {i} : j \in {} <=> j \in {i}
    OBVIOUS
  <2>. QED
    BY <1>2, <1>3, <1>4, <2>4, <2>5, <2>6, ChangedIsSound DEF a, b
<1>6. Marks(v, K, {})
  <2>1. r.marked => \/ Listed(w, i) \/ w.full \/ r.parent = None \/ (r.parent = "void" /\ i \in K)
                    \/ Stuck(r)
    BY <1>3 DEF Marks, Void, Stuck
  <2>2. Marks(v, K, {} \ {i})
    BY <1>1, <1>2, <2>1, ChangedKeepsMarks
  <2>3. {} \ {i} = {}
    OBVIOUS
  <2>. QED
    BY <2>2, <2>3
<1>7. v.list = w.list
  BY <1>1, <1>2, WithIs
<1>. QED
  BY <1>2, <1>5, <1>6, <1>7

\* Its time is taken off an item that is visited.
LEMMA LastsIsSound ==
    ASSUME NEW w, NEW T, NEW lag, NEW K, NEW i \in Item, Sound(w, T, lag, {i}), Marks(w, K, {i}), Exists(w, i),
           NEW x \in Nat \cup {None}, w.item[i].left = None \/ ~Listed(w, i)
    PROVE  LET v == Shorten(w, i, x)
           IN  /\ Sound(v, T, lag, {i}) /\ Marks(v, K, {i}) /\ Exists(v, i) /\ v.list = w.list
               /\ v.item[i].dur = x /\ v.item[i].left = w.item[i].left
<1>. DEFINE q == w.item[i]
            r == Lasts(q, x)
            v == With(w, i, r)
<1>1. w \in Store /\ Clean(w)
  BY DEF Sound, Fine
<1>2. Shorten(w, i, x) = v /\ r \in ItemRec /\ q \in ItemRec
  BY <1>1, LastsIs, ParentIs
<1>3. /\ r.parent = q.parent /\ r.type = q.type /\ r.dur = x /\ r.marked = q.marked
      /\ r.refs = q.refs /\ r.freed = q.freed /\ r.left = q.left
  BY DEF Lasts, Rec
<1>4. r.type # None
  BY <1>3 DEF Exists
<1>. HIDE DEF r
<1>5. Sound(v, T, lag, {i})
  <2>1. B(r.parent \notin {None, "void"}) + B(i \in T /\ r.parent = "void") + r.freed + B(i \in {i})
            = B(Placed(w, i)) + B(i \in T /\ Void(w, i)) + w.item[i].freed + B(i \in {i})
    BY <1>3 DEF Placed, Void
  <2>2. r.parent \in Item => Exists(w, r.parent)
    BY <1>1, <1>3 DEF Clean
  <2>3. r.left = None \/ ~Listed(w, i)
    BY <1>3
  <2>. QED
    BY <1>2, <1>3, <1>4, <2>1, <2>2, <2>3, ChangedIsSound
<1>6. Marks(v, K, {i})
  BY <1>1, <1>2, ChangedInMarks
<1>7. v.list = w.list /\ v.item[i] = r
  BY <1>1, <1>2, WithIs
<1>. QED
  BY <1>2, <1>3, <1>4, <1>5, <1>6, <1>7 DEF Exists

LEMMA UnmarkedIsSound ==
    ASSUME NEW w, NEW T, NEW lag, NEW X, NEW K, NEW i \in Item, Sound(w, T, lag, X), Marks(w, K, {i}), Exists(w, i)
    PROVE  LET v == [w EXCEPT !.item[i].marked = FALSE]
           IN  Sound(v, T, lag, X) /\ Marks(v, K, {}) /\ Exists(v, i) /\ v.list = w.list
<1>. DEFINE q == w.item[i]
            r == Unmarked(q)
            v == With(w, i, r)
<1>1. w \in Store /\ Clean(w)
  BY DEF Sound, Fine
<1>2. [w EXCEPT !.item[i].marked = FALSE] = v /\ r \in ItemRec /\ q \in ItemRec
  <2>1. None \in Nat \cup {None}
    OBVIOUS
  <2>. QED
    BY <1>1, <2>1, LastsIs, ParentIs
<1>3. /\ r.parent = q.parent /\ r.type = q.type /\ r.dur = q.dur /\ r.marked = FALSE
      /\ r.refs = q.refs /\ r.freed = q.freed /\ r.left = q.left
  BY DEF Unmarked, Rec
<1>4. r.type # None
  BY <1>3 DEF Exists
<1>. HIDE DEF r
<1>5. Sound(v, T, lag, X)
  <2>1. B(r.parent \notin {None, "void"}) + B(i \in T /\ r.parent = "void") + r.freed + B(i \in X)
            = B(Placed(w, i)) + B(i \in T /\ Void(w, i)) + w.item[i].freed + B(i \in X)
    BY <1>3 DEF Placed, Void
  <2>2. r.parent \in Item => Exists(w, r.parent)
    BY <1>1, <1>3 DEF Clean
  <2>. QED
    BY <1>2, <1>3, <1>4, <2>1, <2>2, ChangedIsSound
<1>6. Marks(v, K, {})
  <2>1. Marks(v, K, {i} \ {i})
    BY <1>1, <1>2, <1>3, ChangedKeepsMarks
  <2>2. {i} \ {i} = {}
    OBVIOUS
  <2>. QED
    BY <2>1, <2>2
<1>7. v.list = w.list /\ v.item[i] = r
  BY <1>1, <1>2, WithIs
<1>. QED
  BY <1>2, <1>3, <1>4, <1>5, <1>6, <1>7 DEF Exists

\* The entry has come to a list again.
LEMMA PutIsCounted ==
    ASSUME NEW w \in Store, NEW v, NEW T, NEW i \in Item, Counted(w, T, {i}), OneMore(w, v, i)
    PROVE  Counted(v, T, {})
<1>. SUFFICES ASSUME NEW j \in Item
              PROVE  v.item[j].refs = B(Placed(v, j)) + B(j \in T /\ Void(v, j)) + Many(v, j)
                                      + v.item[j].freed + B(j \in {})
  BY DEF Counted
<1>. DEFINE a == B(Placed(w, j))
            b == B(j \in T /\ Void(w, j))
            x == B(j \in {i})
            m == Many(w, j)
<1>1. w.item[j].refs = a + b + m + w.item[j].freed + x
  BY DEF Counted
<1>2. B(Placed(v, j)) = a /\ B(j \in T /\ Void(v, j)) = b /\ v.item[j] = w.item[j]
  BY DEF Placed, Void, OneMore
<1>3. /\ B(j = i) = x /\ B(j \in {}) = 0
      /\ a \in Int /\ b \in Int /\ x \in Int
  BY DEF B
<1>4. Many(v, j) = m + x /\ m \in Int
  BY <1>3, EntriesAreFinite DEF OneMore
<1>5. w.item[j].freed \in Int
  BY StoreIs DEF ItemRec
<1>. HIDE DEF a, b, x, m
<1>. QED
  BY <1>1, <1>2, <1>3, <1>4, <1>5

LEMMA VisitIsSound ==
    ASSUME NEW w, NEW T, NEW lag, 0 \in lag, NEW K, Item \subseteq K, Sound(w, T, lag, {}), Marks(w, K, {}),
           w.list[0] # <<>>
    PROVE  LET v == Visit(w)
           IN  Sound(v, T, lag, {}) /\ Marks(v, K, {}) /\ v.list[0] = Tail(w.list[0])
<1>. DEFINE i == Head(w.list[0])
            u == Drop(w, 0)
            d == Duration(w, i)
            x == IF u.item[i].dur = None THEN None ELSE IF d < Buckets THEN 0 ELSE d - Buckets
            v == Shorten(u, i, x)
            rest == Duration(v, i)
            k == IF rest < Buckets THEN rest ELSE Buckets
<1>0. Buckets \in Nat /\ Buckets > 1 /\ New = Buckets + 1 /\ 0 \in 0 .. New
  BY ListNumbers
<1>1. /\ Sound(u, T, lag, {i}) /\ Marks(u, K, {i}) /\ u.item = w.item
      /\ u.list[0] = Tail(w.list[0])
      /\ i \in Item /\ Exists(u, i)
      /\ u.item[i].left # None => ~Listed(u, i) /\ Due(w, lag, i, 0)
  BY <1>0, DropIsSound
<1>2. Visit(w) = IF ~CanDecay(v, i) THEN FreeThing([v EXCEPT !.item[i].marked = FALSE], i)
                 ELSE IF rest = 0 THEN FreeThing(InternalDecayItem(v, i), i)
                 ELSE Put(v, k, i)
  BY Zenon DEF Visit, Shorten
<1>. HIDE DEF i, u
<1>3. w \in Store /\ u \in Store /\ w.item[i].dur \in Nat \cup {None} /\ w.item[i].left \in Int \cup {None}
  BY <1>1, ParentIs, RecordIs DEF Sound, Fine
<1>4. /\ x \in Nat \cup {None}
      /\ w.item[i].dur = None => x = None
      /\ w.item[i].dur # None => d = w.item[i].dur /\ x = (IF d < Buckets THEN 0 ELSE d - Buckets)
  BY <1>0, <1>1, <1>3 DEF Duration
<1>. HIDE DEF x
<1>5. /\ Sound(v, T, lag, {i}) /\ Marks(v, K, {i}) /\ Exists(v, i) /\ v.list = u.list
      /\ v.item[i].dur = x /\ v.item[i].left = u.item[i].left
  BY <1>1, <1>4, LastsIsSound
<1>. HIDE DEF v
<1>6. rest = IF x = None THEN 0 ELSE x
  BY <1>5 DEF Duration
<1>7. v \in Store
  BY <1>5 DEF Sound, Fine
<1>. HIDE DEF rest, d
<1>8. CASE ~CanDecay(v, i)
  <2>. DEFINE y == [v EXCEPT !.item[i].marked = FALSE]
  <2>1. Sound(y, T, lag, {i}) /\ Marks(y, K, {}) /\ Exists(y, i) /\ y.list = v.list
    BY <1>1, <1>5, UnmarkedIsSound
  <2>. HIDE DEF y
  <2>2. Sound(FreeThing(y, i), T, lag, {}) /\ Marks(FreeThing(y, i), K, {}) /\ FreeThing(y, i).list = y.list
    BY <1>1, <2>1, FreeThingIsSound
  <2>3. Visit(w) = FreeThing(y, i)
    BY <1>2, <1>8 DEF y
  <2>. QED
    BY <1>1, <1>5, <2>1, <2>2, <2>3
<1>9. CASE CanDecay(v, i) /\ rest = 0
  <2>. DEFINE y == InternalDecayItem(v, i)
  <2>1. v.item[i].left \in {-2, -1, 0, None}
    <3>. SUFFICES ASSUME w.item[i].left # None
                  PROVE  w.item[i].left \in {-2, -1, 0}
      BY <1>1, <1>5
    <3>1. Due(w, lag, i, 0) /\ w.item[i].left \in Int
      BY <1>1, <1>3
    <3>2. w.item[i].dur \in Nat /\ w.item[i].dur # None /\ 0 # New
      BY <3>1, <1>0, ConstantsApart DEF Due
    <3>3. d = w.item[i].dur /\ x = (IF d < Buckets THEN 0 ELSE d - Buckets) /\ x # None
      BY <3>2, <1>0, <1>4, ConstantsApart
    <3>4. x = 0
      BY <3>3, <1>6, <1>9
    <3>5. CASE d < Buckets
      BY <3>1, <3>2, <3>3, <3>5, <1>0 DEF Due
    <3>6. CASE ~(d < Buckets)
      <4>1. w.item[i].left - 0 - (d - Buckets) \in {-1, 0}
        BY <3>1, <3>2, <3>3, <3>6, <1>0 DEF Due
      <4>2. d - Buckets = 0
        BY <3>3, <3>4, <3>6
      <4>. QED
        BY <4>1, <4>2, <3>1
    <3>. QED
      BY <3>5, <3>6
  <2>2. Sound(y, T, lag, {i}) /\ Marks(y, K, {}) /\ Since(v, y)
    <3>1. Void(v, i) => i \in K
      BY <1>1
    <3>2. v.item[i].dur \in {0, None}
      BY <1>5, <1>6, <1>9
    <3>. QED
      BY <1>1, <1>5, <1>9, <2>1, <3>1, <3>2, InternalDecayItemIsSound
  <2>3. Exists(y, i) /\ y.list[0] = v.list[0]
    BY <2>2, <1>1, <1>5 DEF Since
  <2>. HIDE DEF y
  <2>4. Sound(FreeThing(y, i), T, lag, {}) /\ Marks(FreeThing(y, i), K, {}) /\ FreeThing(y, i).list = y.list
    BY <1>1, <2>2, <2>3, FreeThingIsSound
  <2>5. Visit(w) = FreeThing(y, i)
    BY <1>2, <1>9 DEF y
  <2>. QED
    BY <1>1, <1>5, <2>3, <2>4, <2>5
<1>10. CASE CanDecay(v, i) /\ rest # 0
  <2>1. x # None /\ rest = x /\ w.item[i].dur # None /\ w.item[i].dur \in Nat
    BY <1>3, <1>4, <1>6, <1>10
  <2>2. d = w.item[i].dur /\ ~(d < Buckets) /\ rest = d - Buckets /\ rest \in Nat /\ rest > 0
    BY <2>1, <1>0, <1>4, <1>10
  <2>3. k \in 0 .. New /\ k # 0 /\ k # New
    BY <2>2, <1>0
  <2>4. v.item[i].left = None \/ (~Listed(v, i) /\ Due(v, lag, i, k))
    <3>. SUFFICES ASSUME v.item[i].left # None
                  PROVE  ~Listed(v, i) /\ Due(v, lag, i, k)
      OBVIOUS
    <3>1. ~Listed(u, i) /\ Due(w, lag, i, 0)
      BY <1>1, <1>5
    <3>2. ~Listed(v, i)
      BY <3>1, <1>5, EntriesOfLists
    <3>3. w.item[i].left \in Int /\ v.item[i].left = w.item[i].left
      BY <1>1, <1>3, <1>5
    <3>4. w.item[i].left - 0 - (d - Buckets) \in {-1, 0}
      BY <3>1, <2>2, <1>0 DEF Due
    <3>5. v.item[i].dur = rest
      BY <2>1, <1>5
    <3>6. w.item[i].left - rest \in {-1, 0}
      BY <3>3, <3>4, <2>2
    <3>7. CASE rest < Buckets
      <4>1. w.item[i].left - k \in {-2, -1, 0}
        BY <3>6, <3>7
      <4>. QED
        BY <4>1, <3>2, <3>3, <3>5, <3>7, <2>2, <2>3 DEF Due
    <3>8. CASE ~(rest < Buckets)
      <4>1. w.item[i].left - k - (rest - Buckets) \in {-1, 0}
        <5>1. k = Buckets
          BY <3>8
        <5>. HIDE DEF k
        <5>2. w.item[i].left - Buckets - (rest - Buckets) = w.item[i].left - rest
          BY <3>3, <2>2, <1>0
        <5>. QED
          BY <5>1, <5>2, <3>6
      <4>. QED
        BY <4>1, <3>2, <3>3, <3>5, <3>8, <2>2, <2>3 DEF Due
    <3>. QED
      BY <3>7, <3>8
  <2>. DEFINE y == Put(v, k, i)
  <2>. HIDE DEF k
  <2>5. Fine(y, lag) /\ Marks(y, K, {i} \ {i}) /\ Since(v, y) /\ OneMore(v, y, i)
    <3>1. Fine(v, lag) /\ Marks(v, K, {i}) /\ i \in Item
      BY <1>1, <1>5 DEF Sound
    <3>2. k \in 0 .. New /\ k # 0
      BY <2>3
    <3>. QED
      BY <2>4, <3>1, <3>2, PutIsFine
  <2>6. Marks(y, K, {})
    <3>1. {i} \ {i} = {}
      OBVIOUS
    <3>. QED
      BY <2>5, <3>1
  <2>. HIDE DEF y
  <2>7. Counted(y, T, {})
    <3>1. Counted(v, T, {i}) /\ i \in Item
      BY <1>1, <1>5 DEF Sound
    <3>. QED
      BY <1>7, <2>5, <3>1, PutIsCounted
  <2>8. Visit(w) = y
    BY <1>2, <1>10 DEF y, k
  <2>. QED
    BY <1>1, <1>5, <2>5, <2>6, <2>7, <2>8 DEF Sound, Since
<1>. QED
  BY <1>8, <1>9, <1>10

-----------------------------------------------------------------------------
(* References are given back, and what nobody refers to is deleted. *)

Closed(w, S) == \A j \in Item : Exists(w, j) /\ w.item[j].refs <= B(w.item[j].parent \in S) => j \in S

\* What is deleted is what nobody refers to but what is deleted.
LEMMA UnheldIs ==
    ASSUME NEW w \in Store
    PROVE  /\ Unheld(w) \subseteq Item /\ Closed(w, Unheld(w))
           /\ \A j \in Unheld(w) : Exists(w, j) /\ w.item[j].refs <= B(w.item[j].parent \in Unheld(w))
<1>. DEFINE D == Unheld(w)
<1>1. D = {i \in Item : \A S \in SUBSET Item : Closed(w, S) => i \in S}
  BY DEF Unheld, Closed
<1>2. D \subseteq Item /\ \A S \in SUBSET Item : Closed(w, S) => D \subseteq S
  <2>. HIDE DEF D
  <2>. QED
    BY <1>1
<1>3. \A j \in Item : w.item[j].refs \in Int
  BY StoreIs DEF ItemRec
<1>. HIDE DEF D
<1>4. \A R, S : R \subseteq S => \A j \in Item : w.item[j].refs <= B(w.item[j].parent \in R) => w.item[j].refs <= B(w.item[j].parent \in S)
  BY <1>3 DEF B
<1>5. Closed(w, D)
  <2>. SUFFICES ASSUME NEW j \in Item, Exists(w, j), w.item[j].refs <= B(w.item[j].parent \in D)
                PROVE  j \in D
    BY DEF Closed
  <2>1. ASSUME NEW S \in SUBSET Item, Closed(w, S)
        PROVE  j \in S
    <3>1. w.item[j].refs <= B(w.item[j].parent \in S)
      BY <2>1, <1>2, <1>4
    <3>. QED
      BY <2>1, <3>1 DEF Closed
  <2>. QED
    BY <2>1, <1>1
<1>6. ASSUME NEW j \in D, ~(Exists(w, j) /\ w.item[j].refs <= B(w.item[j].parent \in D))
      PROVE  FALSE
  <2>. DEFINE S == D \ {j}
  <2>1. Closed(w, S)
    <3>. SUFFICES ASSUME NEW k \in Item, Exists(w, k), w.item[k].refs <= B(w.item[k].parent \in S)
                  PROVE  k \in S
      BY DEF Closed
    <3>1. w.item[k].refs <= B(w.item[k].parent \in D)
      BY <1>4
    <3>2. k \in D
      BY <3>1, <1>5 DEF Closed
    <3>3. k # j
      BY <3>1, <1>6
    <3>. QED
      BY <3>2, <3>3
  <2>2. S \in SUBSET Item
    BY <1>2
  <2>3. D \subseteq S
    <3>. HIDE DEF S
    <3>. QED
      BY <2>1, <2>2, <1>2
  <2>. QED
    BY <2>3
<1>. QED
  BY <1>2, <1>5, <1>6 DEF D

\* The records of an item that gives back its references, and of one that was in
\* something that is deleted.
GivenBack(q) == Rec(q.parent, q.type, q.dur, q.marked, q.refs - q.freed, 0, q.left)
Thrown(q) == Rec(None, q.type, q.dur, q.marked, q.refs - 1, q.freed, q.left)
Kept(q, D) == IF q.parent \in D THEN Thrown(q) ELSE q

LEMMA GivenBackIs ==
    ASSUME NEW q \in ItemRec
    PROVE  /\ GivenBack(q) = [q EXCEPT !.refs = @ - q.freed, !.freed = 0] /\ GivenBack(q) \in ItemRec
           /\ Thrown(q) = [q EXCEPT !.parent = None, !.refs = @ - 1] /\ Thrown(q) \in ItemRec
<1>. DEFINE a == [q EXCEPT !.refs = @ - q.freed, !.freed = 0]
            b == [q EXCEPT !.parent = None, !.refs = @ - 1]
<1>1. /\ DOMAIN a = DOMAIN q /\ a = [j \in DOMAIN a |-> a[j]]
      /\ DOMAIN b = DOMAIN q /\ b = [j \in DOMAIN b |-> b[j]]
  BY Zenon
<1>2. /\ a.parent = q.parent /\ a.type = q.type /\ a.dur = q.dur /\ a.marked = q.marked
      /\ a.refs = q.refs - q.freed /\ a.freed = 0 /\ a.left = q.left
      /\ b.parent = None /\ b.type = q.type /\ b.dur = q.dur /\ b.marked = q.marked
      /\ b.refs = q.refs - 1 /\ b.freed = q.freed /\ b.left = q.left
  BY DEF ItemRec
<1>3. a = GivenBack(q) /\ b = Thrown(q)
  <2>. HIDE DEF a, b
  <2>. QED
    BY <1>1, <1>2, RecordIs, ByFields DEF GivenBack, Thrown
<1>4. q.refs - q.freed \in Int /\ q.refs - 1 \in Int
  BY RecordIs
<1>5. GivenBack(q) \in ItemRec /\ Thrown(q) \in ItemRec
  BY <1>4, RecordIs DEF GivenBack, Thrown, Rec, ItemRec
<1>. QED
  BY <1>3, <1>5

LEMMA GivenBackFields ==
    ASSUME NEW q
    PROVE  /\ GivenBack(q).parent = q.parent /\ GivenBack(q).type = q.type /\ GivenBack(q).dur = q.dur
           /\ GivenBack(q).marked = q.marked /\ GivenBack(q).refs = q.refs - q.freed
           /\ GivenBack(q).freed = 0 /\ GivenBack(q).left = q.left
           /\ Thrown(q).parent = None /\ Thrown(q).type = q.type /\ Thrown(q).dur = q.dur
           /\ Thrown(q).marked = q.marked /\ Thrown(q).refs = q.refs - 1
           /\ Thrown(q).freed = q.freed /\ Thrown(q).left = q.left
BY DEF GivenBack, Thrown, Rec

\* The store after cleanup has given back references, and after it deleted D.
Back(w) == [w EXCEPT !.item = [i \in Item |-> [w.item[i] EXCEPT !.refs = @ - w.item[i].freed, !.freed = 0]]]
Torn(w) == \E i \in Item : Exists(w, i) /\ w.item[i].refs <= 0 /\ w.item[i].parent \notin {None, "void"}

LEMMA BackIs ==
    ASSUME NEW w \in Store
    PROVE  /\ Back(w) \in Store /\ Back(w).list = w.list /\ Back(w).ends = w.ends
           /\ Back(w).torn = w.torn /\ Back(w).full = w.full
           /\ \A i \in Item : Back(w).item[i] = GivenBack(w.item[i])
<1>. DEFINE f == [i \in Item |-> [w.item[i] EXCEPT !.refs = @ - w.item[i].freed, !.freed = 0]]
<1>1. \A i \in Item : f[i] = GivenBack(w.item[i]) /\ f[i] \in ItemRec
  BY StoreIs, GivenBackIs
<1>2. f \in [Item -> ItemRec]
  BY <1>1
<1>. HIDE DEF f
<1>3. [w EXCEPT !.item = f] \in Store
  BY <1>2, StoreIs
<1>4. Back(w) = [w EXCEPT !.item = f]
  BY DEF Back, f
<1>. QED
  BY <1>1, <1>3, <1>4 DEF Store

LEMMA ReapedIs ==
    ASSUME NEW w \in Store, ~Torn(w), w.torn = FALSE
    PROVE  /\ Reaped(w) \in Store /\ Reaped(w).list = w.list /\ Reaped(w).ends = w.ends
           /\ Reaped(w).torn = FALSE /\ Reaped(w).full = w.full
           /\ \A i \in Item : Reaped(w).item[i] = IF i \in Unheld(w) THEN Absent ELSE Kept(w.item[i], Unheld(w))
<1>. DEFINE D == Unheld(w)
            u == [w EXCEPT !.torn = @ \/ Torn(w)]
            f == [i \in Item |-> IF i \in D THEN Absent
                                 ELSE IF u.item[i].parent \in D THEN [u.item[i] EXCEPT !.parent = None, !.refs = @ - 1]
                                 ELSE u.item[i]]
<1>1. /\ u \in Store /\ u.item = w.item /\ u.list = w.list /\ u.ends = w.ends /\ u.torn = FALSE
      /\ u.full = w.full
  BY DEF Store
<1>2. Reaped(w) = [u EXCEPT !.item = f]
  BY DEF Reaped, Deleted, Torn
<1>. HIDE DEF D, u
<1>3. Absent \in ItemRec
  BY DEF Absent, ItemRec
<1>4. \A i \in Item : f[i] = (IF i \in D THEN Absent ELSE Kept(w.item[i], D)) /\ f[i] \in ItemRec
  <2>. SUFFICES ASSUME NEW i \in Item
                PROVE  f[i] = (IF i \in D THEN Absent ELSE Kept(w.item[i], D)) /\ f[i] \in ItemRec
    OBVIOUS
  <2>1. w.item[i] \in ItemRec
    BY StoreIs
  <2>2. Thrown(w.item[i]) = [w.item[i] EXCEPT !.parent = None, !.refs = @ - 1] /\ Thrown(w.item[i]) \in ItemRec
    BY <2>1, GivenBackIs
  <2>3. f[i] = IF i \in D THEN Absent ELSE IF w.item[i].parent \in D THEN Thrown(w.item[i]) ELSE w.item[i]
    BY <1>1, <2>2
  <2>. HIDE DEF f
  <2>. QED
    BY <1>3, <2>1, <2>2, <2>3 DEF Kept
<1>5. f \in [Item -> ItemRec]
  BY <1>4
<1>. HIDE DEF f
<1>6. [u EXCEPT !.item = f] \in Store
  BY <1>1, <1>5, StoreIs
<1>7. /\ Reaped(w).item = f /\ Reaped(w).list = u.list /\ Reaped(w).ends = u.ends
      /\ Reaped(w).torn = u.torn /\ Reaped(w).full = u.full
  BY <1>1, <1>2, <1>6 DEF Store
<1>. QED
  BY <1>1, <1>2, <1>4, <1>6, <1>7 DEF D

\* Cleanup deletes no item that a cylinder holds, and the count of each of the
\* others is that of the references to it.
LEMMA ReapedIsSound ==
    ASSUME NEW w, NEW T, NEW lag, NEW K, Sound(w, T, lag, {}), Marks(w, K, {})
    PROVE  LET v == Reaped(Back(w))
           IN  Sound(v, T, lag, {}) /\ Marks(v, K, {}) /\ v.list = w.list
<1>. DEFINE c == Back(w)
            D == Unheld(c)
            v == Reaped(c)
<1>1. w \in Store /\ Clean(w) /\ Alive(w) /\ Punctual(w, lag) /\ Counted(w, T, {})
  BY DEF Sound, Fine
<1>2. /\ c \in Store /\ c.list = w.list /\ c.ends = w.ends /\ c.torn = FALSE /\ c.full = w.full
      /\ \A i \in Item : c.item[i] = GivenBack(w.item[i])
  BY <1>1, BackIs DEF Clean
<1>. HIDE DEF c
<1>3. \A i \in Item :
        /\ c.item[i].parent = w.item[i].parent /\ c.item[i].type = w.item[i].type
        /\ c.item[i].dur = w.item[i].dur /\ c.item[i].marked = w.item[i].marked
        /\ c.item[i].refs = w.item[i].refs - w.item[i].freed /\ c.item[i].freed = 0
        /\ c.item[i].left = w.item[i].left
        /\ Exists(c, i) = Exists(w, i)
  BY <1>2, GivenBackFields DEF Exists
<1>4. \A i \in Item : /\ Many(c, i) = Many(w, i) /\ Many(w, i) \in Nat
                      /\ Listed(c, i) = Listed(w, i)
                      /\ \A k : In(c, k, i) = In(w, k, i)
  BY <1>1, <1>2, EntriesOfLists, EntriesAreFinite
<1>5. \A i \in Item : c.item[i].refs = B(Placed(w, i)) + B(i \in T /\ Void(w, i)) + Many(w, i)
  <2>. SUFFICES ASSUME NEW i \in Item
                PROVE  c.item[i].refs = B(Placed(w, i)) + B(i \in T /\ Void(w, i)) + Many(w, i)
    OBVIOUS
  <2>. DEFINE a == B(Placed(w, i))
              b == B(i \in T /\ Void(w, i))
  <2>1. w.item[i].refs = a + b + Many(w, i) + w.item[i].freed + B(i \in {})
    BY <1>1 DEF Counted
  <2>2. a \in Int /\ b \in Int /\ B(i \in {}) = 0
    BY DEF B
  <2>3. w.item[i].freed \in Int /\ w.item[i].refs \in Int
    BY <1>1, ParentIs, RecordIs
  <2>. HIDE DEF a, b
  <2>4. c.item[i].refs = w.item[i].refs - w.item[i].freed /\ Many(w, i) \in Int
    BY <1>3, <1>4
  <2>. QED
    BY <2>1, <2>2, <2>3, <2>4 DEF a, b
<1>6. ~Torn(c)
  <2>. SUFFICES ASSUME NEW i \in Item, c.item[i].refs <= 0, c.item[i].parent \notin {None, "void"}
                PROVE  FALSE
    BY DEF Torn
  <2>1. B(Placed(w, i)) = 1 /\ B(i \in T /\ Void(w, i)) = 0
    BY <1>3 DEF Placed, Void, B
  <2>2. c.item[i].refs = 1 + 0 + Many(w, i)
    BY <2>1, <1>5
  <2>. QED
    BY <2>2, <1>4
<1>7. /\ v \in Store /\ v.list = w.list /\ v.ends = w.ends /\ v.torn = FALSE /\ v.full = w.full
      /\ \A i \in Item : v.item[i] = IF i \in D THEN Absent ELSE Kept(c.item[i], D)
  BY <1>2, <1>6, ReapedIs
<1>8. /\ D \subseteq Item
      /\ \A j \in D : c.item[j].refs <= B(c.item[j].parent \in D)
      /\ \A j \in Item : j \notin D /\ Exists(c, j) => ~(c.item[j].refs <= B(c.item[j].parent \in D))
  BY <1>2, UnheldIs DEF Closed
<1>. HIDE DEF D, v
<1>9. \A i \in D : v.item[i] = Absent /\ Many(w, i) = 0
  <2>. SUFFICES ASSUME NEW i \in D
                PROVE  Many(w, i) = 0
    BY <1>7, <1>8
  <2>1. i \in Item /\ c.item[i].refs <= B(w.item[i].parent \in D)
    BY <1>3, <1>8
  <2>2. w.item[i].parent \in D => Placed(w, i)
    BY <1>8, ConstantsApart DEF Placed
  <2>3. B(w.item[i].parent \in D) <= B(Placed(w, i))
    BY <2>2 DEF B
  <2>. DEFINE a == B(Placed(w, i))
              b == B(i \in T /\ Void(w, i))
              d == B(w.item[i].parent \in D)
  <2>4. a \in Int /\ b \in Int /\ d \in Int /\ b >= 0
    BY DEF B
  <2>5. c.item[i].refs = a + b + Many(w, i)
    BY <2>1, <1>5
  <2>. HIDE DEF a, b, d
  <2>6. a + b + Many(w, i) <= d /\ d <= a
    BY <2>1, <2>3, <2>5 DEF a, d
  <2>. QED
    BY <2>1, <2>4, <2>6, <1>4
<1>10. \A i \in Item \ D : w.item[i].parent \notin D => v.item[i] = c.item[i]
  BY <1>3, <1>7 DEF Kept
<1>11. \A i \in Item \ D : w.item[i].parent \in D =>
         /\ v.item[i].parent = None /\ v.item[i].refs = c.item[i].refs - 1 /\ v.item[i].freed = 0
         /\ v.item[i].type = w.item[i].type /\ v.item[i].dur = w.item[i].dur
         /\ v.item[i].marked = w.item[i].marked /\ v.item[i].left = w.item[i].left
  BY <1>3, <1>7, GivenBackFields DEF Kept
<1>12. \A i \in Item : /\ Many(v, i) = Many(w, i) /\ Listed(v, i) = Listed(w, i)
                       /\ \A k : In(v, k, i) = In(w, k, i)
  BY <1>7, EntriesOfLists
<1>13. \A i \in Item : ~Exists(w, i) => i \notin D /\ v.item[i] = Absent
  <2>. SUFFICES ASSUME NEW i \in Item, ~Exists(w, i)
                PROVE  i \notin D /\ v.item[i] = Absent
    OBVIOUS
  <2>1. w.item[i] = Absent
    BY <1>1 DEF Clean
  <2>2. i \in D => v.item[i] = Absent
    BY <1>9
  <2>3. i \notin D
    BY <1>2, <1>3, UnheldIs DEF D
  <2>4. w.item[i].parent = None /\ w.item[i].refs = 0 /\ w.item[i].freed = 0
        /\ w.item[i].type = None /\ w.item[i].dur = None /\ w.item[i].marked = FALSE /\ w.item[i].left = None
    BY <2>1 DEF Absent
  <2>5. None \notin D
    BY <1>8, ConstantsApart
  <2>6. v.item[i] = GivenBack(w.item[i])
    BY <2>3, <2>4, <2>5, <1>2, <1>10
  <2>7. GivenBack(w.item[i]) = Rec(None, None, None, FALSE, 0, 0, None)
    <3>1. w.item[i].refs - w.item[i].freed = 0
      BY <2>4
    <3>. QED
      BY <2>4, <3>1, Zenon DEF GivenBack
  <2>8. Rec(None, None, None, FALSE, 0, 0, None) = Absent
    BY DEF Rec, Absent
  <2>. QED
    BY <2>3, <2>6, <2>7, <2>8
<1>14. \A i \in Item \ D : Exists(v, i) = Exists(w, i)
  BY <1>3, <1>10, <1>11 DEF Exists
<1>15. \A i \in D : ~Exists(v, i)
  BY <1>9 DEF Exists, Absent
<1>16. Counted(v, T, {})
  <2>. SUFFICES ASSUME NEW i \in Item
                PROVE  v.item[i].refs = B(Placed(v, i)) + B(i \in T /\ Void(v, i)) + Many(v, i)
                                        + v.item[i].freed + B(i \in {})
    BY DEF Counted
  <2>0. B(i \in {}) = 0 /\ B(FALSE) = 0 /\ B(TRUE) = 1
    BY DEF B
  <2>1. CASE i \in D
    <3>1. ~Placed(v, i) /\ ~Void(v, i) /\ v.item[i].refs = 0 /\ v.item[i].freed = 0
      BY <2>1, <1>9, ConstantsApart DEF Placed, Void, Absent
    <3>2. B(Placed(v, i)) = 0 /\ B(i \in T /\ Void(v, i)) = 0
      BY <3>1 DEF B
    <3>3. Many(v, i) = 0
      BY <2>1, <1>9, <1>12
    <3>. QED
      BY <2>0, <3>1, <3>2, <3>3
  <2>2. CASE i \notin D /\ w.item[i].parent \in D
    <3>1. ~Placed(v, i) /\ ~Void(v, i) /\ v.item[i].refs = c.item[i].refs - 1 /\ v.item[i].freed = 0
      BY <2>2, <1>11, ConstantsApart DEF Placed, Void
    <3>2. Placed(w, i) /\ ~Void(w, i)
      BY <2>2, <1>8, ConstantsApart DEF Placed, Void
    <3>3. B(Placed(v, i)) = 0 /\ B(i \in T /\ Void(v, i)) = 0 /\ B(Placed(w, i)) = 1 /\ B(i \in T /\ Void(w, i)) = 0
      BY <3>1, <3>2 DEF B
    <3>4. c.item[i].refs = 1 + 0 + Many(w, i)
      BY <3>3, <1>5
    <3>5. Many(v, i) = Many(w, i) /\ Many(w, i) \in Int
      BY <1>4, <1>12
    <3>. QED
      BY <2>0, <3>1, <3>3, <3>4, <3>5
  <2>3. CASE i \notin D /\ w.item[i].parent \notin D
    <3>1. v.item[i].refs = c.item[i].refs /\ v.item[i].freed = 0 /\ v.item[i].parent = w.item[i].parent
      BY <2>3, <1>3, <1>10
    <3>. DEFINE a == B(Placed(w, i))
                b == B(i \in T /\ Void(w, i))
    <3>2. B(Placed(v, i)) = a /\ B(i \in T /\ Void(v, i)) = b /\ a \in Int /\ b \in Int
      BY <3>1 DEF Placed, Void, B
    <3>3. c.item[i].refs = a + b + Many(w, i)
      BY <1>5
    <3>4. Many(v, i) = Many(w, i) /\ Many(w, i) \in Int
      BY <1>4, <1>12
    <3>. HIDE DEF a, b
    <3>. QED
      BY <2>0, <3>1, <3>2, <3>3, <3>4
  <2>. QED
    BY <2>1, <2>2, <2>3
<1>17. Clean(v)
  <2>1. \A i \in Item : ~Exists(v, i) => v.item[i] = Absent
    BY <1>9, <1>13, <1>14
  <2>2. ASSUME NEW i \in Item, v.item[i].parent \in Item
        PROVE  Exists(v, v.item[i].parent)
    <3>1. i \notin D /\ w.item[i].parent \notin D
      BY <2>2, <1>9, <1>11, ConstantsApart DEF Absent
    <3>2. v.item[i].parent = w.item[i].parent
      BY <3>1, <1>3, <1>10
    <3>. QED
      BY <2>2, <3>1, <3>2, <1>1, <1>14 DEF Clean
  <2>. QED
    BY <2>1, <2>2, <1>7 DEF Clean
<1>18. Alive(v)
  <2>. SUFFICES ASSUME NEW i \in Item, Exists(v, i)
                PROVE  v.item[i].refs > 0
    BY DEF Alive
  <2>1. i \notin D /\ Exists(c, i) /\ c.item[i].refs \in Int
    BY <1>2, <1>3, <1>14, <1>15, ParentIs, RecordIs
  <2>2. ~(c.item[i].refs <= B(w.item[i].parent \in D))
    BY <2>1, <1>3, <1>8
  <2>3. CASE w.item[i].parent \in D
    BY <2>1, <2>2, <2>3, <1>11 DEF B
  <2>4. CASE w.item[i].parent \notin D
    BY <2>1, <2>2, <2>4, <1>10 DEF B
  <2>. QED
    BY <2>3, <2>4
<1>19. Punctual(v, lag)
  <2>. SUFFICES ASSUME NEW i \in Item, v.item[i].left # None
                PROVE  Many(v, i) <= 1 /\ \A k \in 0 .. New : In(v, k, i) => Due(v, lag, i, k)
    BY <1>1, <1>7 DEF Punctual
  <2>1. i \notin D
    BY <1>9 DEF Absent
  <2>2. v.item[i].left = w.item[i].left /\ v.item[i].dur = w.item[i].dur
    BY <2>1, <1>3, <1>10, <1>11
  <2>3. Many(w, i) <= 1 /\ \A k \in 0 .. New : In(w, k, i) => Due(w, lag, i, k)
    BY <2>2, <1>1 DEF Punctual
  <2>. QED
    BY <2>2, <2>3, <1>12 DEF Due
<1>20. Marks(v, K, {})
  <2>. SUFFICES ASSUME NEW i \in Item, v.item[i].marked, ~Listed(v, i)
                PROVE  v.full \/ v.item[i].parent = None \/ (Void(v, i) /\ i \in K) \/ Stuck(v.item[i])
    BY DEF Marks
  <2>1. i \notin D
    BY <1>9 DEF Absent
  <2>2. w.item[i].marked /\ ~Listed(w, i)
    BY <2>1, <1>3, <1>10, <1>11, <1>12
  <2>3. w.full \/ w.item[i].parent = None \/ (Void(w, i) /\ i \in K) \/ Stuck(w.item[i])
    BY <2>2 DEF Marks
  <2>. QED
    BY <2>1, <2>3, <1>3, <1>7, <1>10, <1>11 DEF Void, Stuck
<1>. QED
  BY <1>7, <1>16, <1>17, <1>18, <1>19, <1>20 DEF Sound, Fine, v, c

-----------------------------------------------------------------------------
(* Loops that empty a list. *)

\* A step that takes the head off list m is repeated until m is empty.
Drains(h, n, w, step, m) ==
    /\ Repeats(h, n, w, step) /\ h[n].list[m] = <<>>
    /\ \A k \in 1 .. n : h[k - 1].list[m] # <<>>

LEMMA Drained ==
    ASSUME NEW G, G \subseteq Store, NEW m \in 0 .. New, NEW w \in G, NEW step \in [G -> G],
           \A v \in G : v.list[m] # <<>> => step[v].list[m] = Tail(v.list[m])
    PROVE  /\ Len(w.list[m]) \in Nat
           /\ \E h \in [0 .. Len(w.list[m]) -> G] : Drains(h, Len(w.list[m]), w, step, m)
<1>. DEFINE N == Len(w.list[m])
<1>1. \A v \in G : v.list[m] \in Seq(Item)
  <2>. SUFFICES ASSUME NEW v \in G
                PROVE  v.list[m] \in Seq(Item)
    OBVIOUS
  <2>1. v.list \in [0 .. New -> Seq(Item)]
    BY StoreIs
  <2>. QED
    BY <2>1
<1>2. N \in Nat
  BY <1>1
<1>3. PICK h \in [0 .. N -> G] : Repeats(h, N, w, step)
  <2>. HIDE DEF N
  <2>. QED
    BY <1>2, Repeated
<1>. DEFINE S == {k \in 0 .. N : Len(h[k].list[m]) = N - k}
<1>4. 0 \in S
  BY <1>2, <1>3 DEF Repeats
<1>. HIDE DEF N
<1>5. \A k \in 0 .. N : h[k] \in G /\ h[k].list[m] \in Seq(Item)
  BY <1>1
<1>6. ASSUME NEW k \in 1 .. N, k - 1 \in S
      PROVE  k \in S
  <2>1. k - 1 \in 0 .. N /\ k \in 0 .. N
    BY <1>2
  <2>2. Len(h[k - 1].list[m]) = N - (k - 1)
    BY <1>6
  <2>3. h[k - 1].list[m] # <<>>
    BY <2>2, <1>2
  <2>4. h[k] = step[h[k - 1]]
    BY <1>3 DEF Repeats
  <2>5. h[k].list[m] = Tail(h[k - 1].list[m])
    BY <2>1, <2>3, <2>4, <1>5
  <2>6. h[k - 1].list[m] \in Seq(Item)
    BY <2>1, <1>5
  <2>7. Len(h[k].list[m]) = Len(h[k - 1].list[m]) - 1
    BY <2>3, <2>5, <2>6
  <2>8. Len(h[k].list[m]) = N - k
    <3>. HIDE DEF S
    <3>. QED
      BY <2>2, <2>7, <1>2
  <2>. QED
    BY <2>1, <2>8
<1>7. \A k \in 0 .. N : k \in S
  <2>. HIDE DEF S
  <2>. QED
    BY <1>2, <1>4, <1>6, UpTo
<1>8. h[N].list[m] = <<>>
  <2>1. N \in 0 .. N
    BY <1>2
  <2>2. Len(h[N].list[m]) = N - N /\ h[N].list[m] \in Seq(Item)
    BY <2>1, <1>5, <1>7
  <2>. QED
    BY <2>2, <1>2
<1>9. ASSUME NEW k \in 1 .. N
      PROVE  h[k - 1].list[m] # <<>>
  <2>1. k - 1 \in 0 .. N
    BY <1>2
  <2>2. Len(h[k - 1].list[m]) = N - (k - 1)
    BY <2>1, <1>7
  <2>. QED
    BY <2>2, <1>2
<1>. QED
  BY <1>2, <1>3, <1>8, <1>9 DEF N, Drains

\* A new entry gets its bucket.
LEMMA ListOneIsSound ==
    ASSUME NEW w, NEW T, NEW lag, lag \subseteq {-1, 0}, NEW K, Sound(w, T, lag, {}), Marks(w, K, {}),
           w.list[New] # <<>>
    PROVE  LET v == ListOne(w)
           IN  Sound(v, T, lag, {}) /\ Marks(v, K, {}) /\ v.list[New] = Tail(w.list[New]) /\ v.list[0] = w.list[0]
<1>. DEFINE i == Head(w.list[New])
            u == Drop(w, New)
            d == Duration(w, i)
            k == Bucket(d)
            v == Put(u, k, i)
<1>0. /\ Buckets \in Nat /\ Buckets > 1 /\ New = Buckets + 1 /\ New \in Nat
      /\ New \in 0 .. New /\ 0 \in 0 .. New /\ New # 0
  BY ListNumbers
<1>1. /\ Sound(u, T, lag, {i}) /\ Marks(u, K, {i}) /\ u.item = w.item
      /\ u.list[New] = Tail(w.list[New]) /\ u.list[0] = w.list[0]
      /\ i \in Item /\ Exists(u, i)
      /\ u.item[i].left # None => ~Listed(u, i) /\ Due(w, lag, i, New)
  BY <1>0, DropIsSound
<1>2. ListOne(w) = v
  BY Zenon DEF ListOne
<1>. HIDE DEF i, u
<1>3. w \in Store /\ u \in Store /\ w.item[i].dur \in Nat \cup {None} /\ w.item[i].left \in Int \cup {None}
  BY <1>1, ParentIs, RecordIs DEF Sound, Fine
<1>4. d \in Nat /\ (w.item[i].dur # None => d = w.item[i].dur)
  BY <1>3 DEF Duration
<1>. HIDE DEF d
<1>5. k \in 1 .. Buckets /\ k = IF d < Buckets THEN d + 1 ELSE Buckets
  BY <1>0, <1>4 DEF Bucket
<1>6. k \in 0 .. New /\ k # 0 /\ k # New
  BY <1>0, <1>5
<1>7. u.item[i].left = None \/ (~Listed(u, i) /\ Due(u, lag, i, k))
  <2>. SUFFICES ASSUME u.item[i].left # None
                PROVE  Due(u, lag, i, k)
    BY <1>1
  <2>1. Due(w, lag, i, New) /\ w.item[i].left \in Int
    BY <1>1, <1>3
  <2>2. w.item[i].dur \in Nat /\ w.item[i].left - w.item[i].dur \in {-1, 0}
    BY <2>1 DEF Due
  <2>3. d = w.item[i].dur
    BY <2>2, <1>4, ConstantsApart
  <2>. DEFINE l == w.item[i].left
  <2>4. l - d \in {-1, 0} /\ l \in Int
    BY <2>1, <2>2, <2>3
  <2>. HIDE DEF l
  <2>5. CASE d < Buckets
    <3>1. l - k \in {-2, -1, 0}
      BY <2>4, <2>5, <1>4, <1>5
    <3>. QED
      BY <3>1, <2>2, <2>3, <2>5, <1>1, <1>6 DEF Due, l
  <2>6. CASE ~(d < Buckets)
    <3>1. k = Buckets
      BY <2>6, <1>5
    <3>2. l - k - (d - Buckets) \in {-1, 0}
      <4>1. l - Buckets - (d - Buckets) = l - d
        BY <2>4, <1>0, <1>4
      <4>. HIDE DEF k
      <4>. QED
        BY <3>1, <4>1, <2>4
    <3>. QED
      BY <3>2, <2>2, <2>3, <2>6, <1>1, <1>6 DEF Due, l
  <2>. QED
    BY <2>5, <2>6
<1>. HIDE DEF k
<1>8. Fine(v, lag) /\ Marks(v, K, {i} \ {i}) /\ Since(u, v) /\ OneMore(u, v, i)
  <2>1. Fine(u, lag) /\ i \in Item
    BY <1>1 DEF Sound
  <2>. QED
    BY <2>1, <1>1, <1>6, <1>7, PutIsFine
<1>9. Marks(v, K, {})
  <2>1. {i} \ {i} = {}
    OBVIOUS
  <2>. QED
    BY <2>1, <1>8
<1>10. v.list[New] = u.list[New]
  <2>1. u.list \in [0 .. New -> Seq(Item)] /\ v.list = [u.list EXCEPT ![k] = Append(@, i)]
    BY <1>3 DEF Put, Store
  <2>. QED
    BY <2>1, <1>0, <1>6
<1>. HIDE DEF v
<1>11. Counted(v, T, {})
  <2>1. Counted(u, T, {i}) /\ i \in Item
    BY <1>1 DEF Sound
  <2>. QED
    BY <2>1, <1>3, <1>8, PutIsCounted
<1>. QED
  BY <1>1, <1>2, <1>8, <1>9, <1>10, <1>11 DEF Sound, Since

\* When nothing is new, nobody asks how long an entry waits for its bucket.
LEMMA NothingNew ==
    ASSUME NEW w, NEW lag, NEW late, Punctual(w, lag), w.list[New] = <<>>
    PROVE  Punctual(w, late)
<1>1. \A i : ~In(w, New, i)
  BY DEF In
<1>. QED
  BY <1>1 DEF Punctual, Due

LEMMA CleanupIsSound ==
    ASSUME NEW w, NEW T, NEW lag, lag \subseteq {-1, 0}, NEW K, Sound(w, T, lag, {}), Marks(w, K, {})
    PROVE  LET v == Cleanup(w)
           IN  Sound(v, T, {0}, {}) /\ Marks(v, K, {}) /\ v.list[0] = w.list[0]
<1>. DEFINE u == Reaped(Back(w))
            N == Len(u.list[New])
            Good(v) == Sound(v, T, lag, {}) /\ Marks(v, K, {}) /\ v.list[0] = w.list[0]
            G == {v \in Store : Good(v)}
            step == [v \in G |-> IF v.list[New] = <<>> THEN v ELSE ListOne(v)]
            after[k \in 0 .. N] == IF k = 0 THEN u ELSE ListOne(after[k - 1])
<1>0. New \in 0 .. New
  BY ListNumbers
<1>1. Good(u)
  BY ReapedIsSound
<1>2. \A v : Good(v) => v \in Store
  BY DEF Sound, Fine
<1>3. u \in G
  BY <1>1, <1>2
<1>4. \A v \in G : v.list[New] # <<>> => ListOne(v) \in G /\ ListOne(v).list[New] = Tail(v.list[New])
  <2>. SUFFICES ASSUME NEW v \in G, v.list[New] # <<>>
                PROVE  Good(ListOne(v)) /\ ListOne(v).list[New] = Tail(v.list[New])
    BY <1>2
  <2>1. Good(v)
    OBVIOUS
  <2>. QED
    BY <2>1, ListOneIsSound
<1>5. Cleanup(w) = after[N]
  BY DEF Cleanup, Times, Back
<1>. HIDE DEF u, Good
<1>6. /\ step \in [G -> G]
      /\ \A v \in G : v.list[New] # <<>> => step[v] = ListOne(v) /\ step[v].list[New] = Tail(v.list[New])
  <2>. HIDE DEF G
  <2>. QED
    BY <1>4
<1>. HIDE DEF step
<1>7. N \in Nat /\ \E h \in [0 .. N -> G] : Drains(h, N, u, step, New)
  <2>1. G \subseteq Store
    OBVIOUS
  <2>. HIDE DEF G, after
  <2>. QED
    BY <1>0, <1>3, <1>6, <2>1, Drained
<1>8. PICK h \in [0 .. N -> G] : /\ Repeats(h, N, u, step) /\ h[N].list[New] = <<>>
                                 /\ \A k \in 1 .. N : h[k - 1].list[New] # <<>>
  BY <1>7 DEF Drains
<1>. HIDE DEF N, G
<1>9. \A k \in 1 .. N : h[k] = ListOne(h[k - 1])
  <2>. SUFFICES ASSUME NEW k \in 1 .. N
                PROVE  h[k] = ListOne(h[k - 1])
    OBVIOUS
  <2>1. k - 1 \in 0 .. N
    BY <1>7
  <2>2. h[k - 1] \in G /\ h[k - 1].list[New] # <<>>
    BY <2>1, <1>8
  <2>3. h[k] = step[h[k - 1]]
    BY <1>8 DEF Repeats
  <2>. QED
    BY <2>2, <2>3, <1>6
<1>10. h = [k \in 0 .. N |-> IF k = 0 THEN u ELSE ListOne(h[k - 1])]
  BY <1>7, <1>8, <1>9 DEF Repeats
<1>11. after = [k \in 0 .. N |-> IF k = 0 THEN u ELSE ListOne(after[k - 1])]
  BY <1>10
<1>. HIDE DEF after
<1>. DEFINE S == {k \in 0 .. N : after[k] = h[k]}
<1>12. 0 \in S
  BY <1>7, <1>8, <1>11 DEF Repeats
<1>13. \A k \in 1 .. N : k - 1 \in S => k \in S
  <2>. SUFFICES ASSUME NEW k \in 1 .. N, after[k - 1] = h[k - 1]
                PROVE  after[k] = h[k]
    BY <1>7
  <2>1. k \in 0 .. N /\ k # 0
    BY <1>7
  <2>2. after[k] = ListOne(after[k - 1])
    BY <2>1, <1>11
  <2>. QED
    BY <2>2, <1>9
<1>14. \A k \in 0 .. N : k \in S
  <2>. HIDE DEF S
  <2>. QED
    BY <1>7, <1>12, <1>13, UpTo
<1>15. after[N] = h[N] /\ h[N] \in G
  BY <1>7, <1>14
<1>16. Good(after[N]) /\ after[N].list[New] = <<>>
  BY <1>8, <1>15 DEF G
<1>17. Punctual(after[N], {0})
  BY <1>16, NothingNew DEF Good, Sound, Fine
<1>. QED
  BY <1>5, <1>16, <1>17 DEF Good, Sound, Fine

-----------------------------------------------------------------------------
(* A second later. *)

Aged(q) ==
    Rec(q.parent, q.type, q.dur, q.marked, q.refs, q.freed, IF q.left = None THEN None ELSE q.left - 1)

LEMMA AgedIs ==
    ASSUME NEW q \in ItemRec
    PROVE  Aged(q) = [q EXCEPT !.left = IF @ = None THEN None ELSE @ - 1] /\ Aged(q) \in ItemRec
<1>. DEFINE l == IF q.left = None THEN None ELSE q.left - 1
            a == [q EXCEPT !.left = l]
<1>1. DOMAIN a = DOMAIN q /\ a = [j \in DOMAIN a |-> a[j]]
  BY Zenon
<1>2. l \in Int \cup {None}
  BY RecordIs
<1>. HIDE DEF l
<1>3. /\ a.parent = q.parent /\ a.type = q.type /\ a.dur = q.dur /\ a.marked = q.marked
      /\ a.refs = q.refs /\ a.freed = q.freed /\ a.left = l
  BY DEF ItemRec
<1>4. a = Aged(q)
  <2>. HIDE DEF a
  <2>. QED
    BY <1>1, <1>3, RecordIs, ByFields DEF Aged, l
<1>5. Aged(q) \in ItemRec
  BY <1>2, RecordIs DEF Aged, Rec, ItemRec, l
<1>. QED
  BY <1>4, <1>5 DEF l

LEMMA AgedFields ==
    ASSUME NEW q
    PROVE  /\ Aged(q).parent = q.parent /\ Aged(q).type = q.type /\ Aged(q).dur = q.dur
           /\ Aged(q).marked = q.marked /\ Aged(q).refs = q.refs /\ Aged(q).freed = q.freed
           /\ Aged(q).left = IF q.left = None THEN None ELSE q.left - 1
BY DEF Aged, Rec

LEMMA LaterIs ==
    ASSUME NEW w \in Store
    PROVE  LET v == Later(w)
           IN  /\ v \in Store /\ v.ends = w.ends /\ v.torn = w.torn /\ v.full = w.full
               /\ \A i \in Item : v.item[i] = Aged(w.item[i])
               /\ \A k \in 0 .. New : v.list[k] = IF k < Buckets THEN w.list[k + 1]
                                                  ELSE IF k = New THEN w.list[k] ELSE <<>>
<1>. DEFINE l == [k \in 0 .. New |-> IF k < Buckets THEN w.list[k + 1] ELSE IF k = New THEN w.list[k] ELSE <<>>]
            f == [i \in Item |-> [w.item[i] EXCEPT !.left = IF @ = None THEN None ELSE @ - 1]]
            u == [w EXCEPT !.list = l]
            v == [u EXCEPT !.item = f]
<1>0. New \in Nat /\ Buckets \in Nat /\ New = Buckets + 1
  BY ListNumbers
<1>1. l \in [0 .. New -> Seq(Item)]
  <2>1. w.list \in [0 .. New -> Seq(Item)]
    BY StoreIs
  <2>2. \A k \in 0 .. New : k < Buckets => k + 1 \in 0 .. New
    BY <1>0
  <2>3. <<>> \in Seq(Item)
    OBVIOUS
  <2>4. \A k \in 0 .. New : l[k] \in Seq(Item)
    BY <2>1, <2>2, <2>3
  <2>. QED
    BY <2>4
<1>2. \A i \in Item : f[i] = Aged(w.item[i]) /\ f[i] \in ItemRec
  BY StoreIs, AgedIs
<1>3. f \in [Item -> ItemRec]
  BY <1>2
<1>4. Later(w) = v
  BY DEF Later
<1>5. \A k \in 0 .. New : l[k] = IF k < Buckets THEN w.list[k + 1] ELSE IF k = New THEN w.list[k] ELSE <<>>
  OBVIOUS
<1>. HIDE DEF l, f
<1>6. u \in Store /\ u.list = l /\ u.ends = w.ends /\ u.torn = w.torn /\ u.full = w.full
  BY <1>1, StoreIs DEF Store
<1>. HIDE DEF u
<1>7. v \in Store
  BY <1>3, <1>6, StoreIs
<1>8. v.item = f /\ v.list = l /\ v.ends = w.ends /\ v.torn = w.torn /\ v.full = w.full
  BY <1>6 DEF Store
<1>. QED
  BY <1>2, <1>4, <1>5, <1>7, <1>8

\* No entry is lost in the shift of the buckets.
LEMMA LaterHasEntries ==
    ASSUME NEW w \in Store, w.list[0] = <<>>
    PROVE  LET v == Later(w)
           IN  \A i : /\ Many(v, i) = Many(w, i) /\ (Listed(v, i) <=> Listed(w, i))
                      /\ \A k \in 0 .. New : In(v, k, i) =>
                            \/ k < Buckets /\ k + 1 \in 0 .. New /\ k + 1 < New /\ In(w, k + 1, i)
                            \/ k = New /\ In(w, k, i)
<1>. DEFINE v == Later(w)
<1>0. New \in Nat /\ Buckets \in Nat /\ New = Buckets + 1 /\ 0 \in 0 .. New
  BY ListNumbers
<1>1. /\ v \in Store
      /\ \A k \in 0 .. New : v.list[k] = IF k < Buckets THEN w.list[k + 1] ELSE IF k = New THEN w.list[k] ELSE <<>>
  BY LaterIs
<1>. HIDE DEF v
<1>. SUFFICES ASSUME NEW i
              PROVE  /\ Many(v, i) = Many(w, i) /\ (Listed(v, i) <=> Listed(w, i))
                     /\ \A k \in 0 .. New : In(v, k, i) =>
                            \/ k < Buckets /\ k + 1 \in 0 .. New /\ k + 1 < New /\ In(w, k + 1, i)
                            \/ k = New /\ In(w, k, i)
  BY DEF v
<1>2. Len(<<>>) = 0 /\ 1 .. 0 = {}
  OBVIOUS
<1>. DEFINE J == Entries(v, i)
            K == Entries(w, i)
            f == [e \in J |-> IF e[1] = New THEN e ELSE <<e[1] + 1, e[2]>>]
<1>3. \A e \in J : /\ e = <<e[1], e[2]>> /\ e[1] \in 0 .. New
                   /\ e[2] \in 1 .. Len(v.list[e[1]]) /\ v.list[e[1]][e[2]] = i
                   /\ e[1] < Buckets \/ e[1] = New
  <2>1. \A e \in J : /\ e = <<e[1], e[2]>> /\ e[1] \in 0 .. New
                     /\ e[2] \in 1 .. Len(v.list[e[1]]) /\ v.list[e[1]][e[2]] = i
    BY EntryIs
  <2>2. \A e \in J : v.list[e[1]] # <<>>
    BY <2>1, <1>2
  <2>. QED
    BY <2>1, <2>2, <1>1
<1>4. ASSUME NEW e \in J
      PROVE  f[e] \in K
  <2>1. CASE e[1] = New
    <3>1. v.list[e[1]] = w.list[e[1]]
      BY <2>1, <1>0, <1>1, <1>3
    <3>2. <<e[1], e[2]>> \in K
      BY <3>1, <1>3, EntryIs
    <3>. QED
      BY <2>1, <3>2, <1>3
  <2>2. CASE e[1] # New
    <3>1. e[1] < Buckets /\ e[1] + 1 \in 0 .. New /\ v.list[e[1]] = w.list[e[1] + 1]
      BY <2>2, <1>0, <1>1, <1>3
    <3>2. <<e[1] + 1, e[2]>> \in K
      BY <3>1, <1>3, EntryIs
    <3>. QED
      BY <2>2, <3>2
  <2>. QED
    BY <2>1, <2>2
<1>5. ASSUME NEW e \in J, NEW d \in J, f[e] = f[d]
      PROVE  e = d
  <2>1. /\ e = <<e[1], e[2]>> /\ e[1] \in 0 .. New /\ (e[1] < Buckets \/ e[1] = New)
        /\ d = <<d[1], d[2]>> /\ d[1] \in 0 .. New /\ (d[1] < Buckets \/ d[1] = New)
    BY <1>3
  <2>2. /\ f[e] = IF e[1] = New THEN e ELSE <<e[1] + 1, e[2]>>
        /\ f[d] = IF d[1] = New THEN d ELSE <<d[1] + 1, d[2]>>
    OBVIOUS
  <2>3. /\ f[e][2] = e[2] /\ f[d][2] = d[2]
        /\ f[e][1] = (IF e[1] = New THEN New ELSE e[1] + 1)
        /\ f[d][1] = (IF d[1] = New THEN New ELSE d[1] + 1)
    BY <2>1, <2>2
  <2>4. e[1] = d[1]
    BY <2>1, <2>3, <1>0, <1>5
  <2>. QED
    BY <2>1, <2>3, <2>4, <1>5
<1>6. ASSUME NEW e \in K
      PROVE  \E d \in J : f[d] = e
  <2>1. /\ e = <<e[1], e[2]>> /\ e[1] \in 0 .. New
        /\ e[2] \in 1 .. Len(w.list[e[1]]) /\ w.list[e[1]][e[2]] = i
    BY EntryIs
  <2>2. e[1] # 0
    BY <2>1, <1>2
  <2>3. CASE e[1] = New
    <3>1. v.list[e[1]] = w.list[e[1]]
      BY <2>3, <1>0, <1>1
    <3>2. e \in J
      BY <2>1, <3>1, EntryIs
    <3>. QED
      BY <2>3, <3>2
  <2>4. CASE e[1] # New
    <3>1. e[1] - 1 \in 0 .. New /\ e[1] - 1 < Buckets /\ e[1] - 1 + 1 = e[1] /\ e[1] - 1 # New
      BY <2>1, <2>2, <2>4, <1>0
    <3>2. v.list[e[1] - 1] = w.list[e[1]]
      BY <3>1, <1>1
    <3>3. <<e[1] - 1, e[2]>> \in J
      BY <2>1, <3>1, <3>2, EntryIs
    <3>4. f[<<e[1] - 1, e[2]>>] = <<e[1] - 1 + 1, e[2]>>
      BY <3>1, <3>3
    <3>. QED
      BY <2>1, <3>1, <3>3, <3>4
  <2>. QED
    BY <2>3, <2>4
<1>7. f \in [J -> K]
  BY <1>4
<1>8. IsFiniteSet(J)
  BY <1>1, EntriesAreFinite
<1>9. Many(v, i) = Many(w, i)
  <2>. HIDE DEF f, J, K
  <2>1. Cardinality(K) = Cardinality(J)
    BY <1>5, <1>6, <1>7, <1>8, SameNumber
  <2>. QED
    BY <2>1 DEF J, K, Many
<1>10. Listed(v, i) <=> Listed(w, i)
  BY <1>1, <1>9, EntriesAreFinite
<1>11. ASSUME NEW k \in 0 .. New, In(v, k, i)
       PROVE  \/ k < Buckets /\ k + 1 \in 0 .. New /\ k + 1 < New /\ In(w, k + 1, i)
              \/ k = New /\ In(w, k, i)
  <2>1. v.list[k] # <<>>
    BY <1>2, <1>11 DEF In
  <2>2. CASE k < Buckets
    <3>1. k + 1 \in 0 .. New /\ k + 1 < New /\ v.list[k] = w.list[k + 1]
      BY <2>2, <1>0, <1>1
    <3>. QED
      BY <2>2, <3>1, <1>11 DEF In
  <2>3. CASE k = New
    <3>1. v.list[k] = w.list[k]
      BY <2>3, <1>0, <1>1
    <3>. QED
      BY <2>3, <3>1, <1>11 DEF In
  <2>. QED
    BY <2>1, <2>2, <2>3, <1>1
<1>. QED
  BY <1>9, <1>10, <1>11

LEMMA LaterIsSound ==
    ASSUME NEW w, NEW T, NEW K, Sound(w, T, {0}, {}), Marks(w, K, {}), w.list[0] = <<>>
    PROVE  Sound(Later(w), T, {-1, 0}, {}) /\ Marks(Later(w), K, {})
<1>. DEFINE v == Later(w)
            lag == {-1, 0}
<1>0. New \in Nat /\ Buckets \in Nat /\ New = Buckets + 1
  BY ListNumbers
<1>1. w \in Store /\ Clean(w) /\ Alive(w) /\ Punctual(w, {0}) /\ Counted(w, T, {})
  BY DEF Sound, Fine
<1>2. /\ v \in Store /\ v.ends = w.ends /\ v.torn = w.torn /\ v.full = w.full
      /\ \A i \in Item : v.item[i] = Aged(w.item[i])
  BY <1>1, LaterIs
<1>3. \A i : /\ Many(v, i) = Many(w, i) /\ (Listed(v, i) <=> Listed(w, i))
             /\ \A k \in 0 .. New : In(v, k, i) =>
                   \/ k < Buckets /\ k + 1 \in 0 .. New /\ k + 1 < New /\ In(w, k + 1, i)
                   \/ k = New /\ In(w, k, i)
  BY <1>1, LaterHasEntries
<1>. HIDE DEF v
<1>4. \A i \in Item :
        /\ v.item[i].parent = w.item[i].parent /\ v.item[i].type = w.item[i].type
        /\ v.item[i].dur = w.item[i].dur /\ v.item[i].marked = w.item[i].marked
        /\ v.item[i].refs = w.item[i].refs /\ v.item[i].freed = w.item[i].freed
        /\ v.item[i].left = IF w.item[i].left = None THEN None ELSE w.item[i].left - 1
  BY <1>2, AgedFields
<1>5. \A i \in Item : /\ Exists(v, i) = Exists(w, i) /\ Placed(v, i) = Placed(w, i)
                      /\ Void(v, i) = Void(w, i)
  BY <1>4 DEF Exists, Placed, Void
<1>6. Counted(v, T, {})
  <2>. SUFFICES ASSUME NEW i \in Item
                PROVE  v.item[i].refs = B(Placed(v, i)) + B(i \in T /\ Void(v, i)) + Many(v, i)
                                        + v.item[i].freed + B(i \in {})
    BY DEF Counted
  <2>1. w.item[i].refs = B(Placed(w, i)) + B(i \in T /\ Void(w, i)) + Many(w, i)
                         + w.item[i].freed + B(i \in {})
    BY <1>1 DEF Counted
  <2>2. /\ Placed(v, i) = Placed(w, i) /\ Void(v, i) = Void(w, i) /\ Many(v, i) = Many(w, i)
        /\ v.item[i].refs = w.item[i].refs /\ v.item[i].freed = w.item[i].freed
    BY <1>3, <1>4, <1>5
  <2>. QED
    BY <2>1, <2>2, Zenon
<1>7. Clean(v)
  <2>1. ASSUME NEW i \in Item, ~Exists(v, i)
        PROVE  v.item[i] = Absent
    <3>1. w.item[i] = Absent
      BY <2>1, <1>1, <1>5 DEF Clean
    <3>2. Aged(Absent) = Absent
      BY DEF Aged, Rec, Absent
    <3>. QED
      BY <3>1, <3>2, <1>2
  <2>2. \A i \in Item : v.item[i].parent \in Item => Exists(v, v.item[i].parent)
    BY <1>1, <1>4, <1>5 DEF Clean
  <2>. QED
    BY <2>1, <2>2, <1>1, <1>2 DEF Clean
<1>8. Alive(v)
  BY <1>1, <1>4, <1>5 DEF Alive
<1>9. Punctual(v, lag)
  <2>. SUFFICES ASSUME NEW i \in Item, v.item[i].left # None
                PROVE  Many(v, i) <= 1 /\ \A k \in 0 .. New : In(v, k, i) => Due(v, lag, i, k)
    BY <1>1, <1>2 DEF Punctual
  <2>. DEFINE l == w.item[i].left
              d == w.item[i].dur
  <2>1. l # None /\ l \in Int /\ v.item[i].left = l - 1 /\ v.item[i].dur = d
    BY <1>1, <1>4, ParentIs, RecordIs
  <2>2. Many(w, i) <= 1 /\ \A k \in 0 .. New : In(w, k, i) => Due(w, {0}, i, k)
    BY <2>1, <1>1 DEF Punctual
  <2>. SUFFICES ASSUME NEW k \in 0 .. New, In(v, k, i)
                PROVE  Due(v, lag, i, k)
    BY <2>2, <1>3
  <2>3. CASE k < Buckets /\ k + 1 \in 0 .. New /\ k + 1 < New /\ In(w, k + 1, i)
    <3>1. Due(w, {0}, i, k + 1) /\ k + 1 # New /\ k # New
      BY <2>2, <2>3, <1>0
    <3>2. d \in Nat
      BY <3>1 DEF Due
    <3>3. IF d < Buckets THEN l - (k + 1) \in {-2, -1, 0} ELSE l - (k + 1) - (d - Buckets) \in {-1, 0}
      BY <3>1 DEF Due
    <3>. HIDE DEF l, d
    <3>4. IF d < Buckets THEN l - 1 - k \in {-2, -1, 0} ELSE l - 1 - k - (d - Buckets) \in {-1, 0}
      <4>1. l - 1 - k = l - (k + 1)
        BY <2>1
      <4>. QED
        BY <3>3, <4>1
    <3>. QED
      BY <2>1, <3>1, <3>2, <3>4 DEF Due
  <2>4. CASE k = New /\ In(w, k, i)
    <3>1. Due(w, {0}, i, k)
      BY <2>2, <2>4
    <3>2. d \in Nat /\ l - d = 0
      BY <3>1, <2>4 DEF Due
    <3>3. l - 1 - d = -1
      BY <3>2, <2>1
    <3>. HIDE DEF l, d
    <3>. QED
      BY <2>1, <2>4, <3>2, <3>3 DEF Due
  <2>. QED
    BY <2>3, <2>4, <1>3
<1>10. Marks(v, K, {})
  BY <1>2, <1>3, <1>4, <1>5 DEF Marks, Stuck
<1>. QED
  BY <1>2, <1>6, <1>7, <1>8, <1>9, <1>10 DEF Sound, Fine, v

\* The pass keeps counts, marks and dates, and empties the bucket it visits.
LEMMA PassIsSound ==
    ASSUME NEW w, NEW T, NEW K, Item \subseteq K, Sound(w, T, {0}, {}), Marks(w, K, {}), w.list[0] = <<>>
    PROVE  LET v == Pass(w)
           IN  Sound(v, T, {0}, {}) /\ Marks(v, K, {}) /\ v.list[0] = <<>>
<1>. DEFINE u == Later(w)
            lag == {-1, 0}
            N == Len(u.list[0])
            Good(v) == Sound(v, T, lag, {}) /\ Marks(v, K, {})
            G == {v \in Store : Good(v)}
            step == [v \in G |-> IF v.list[0] = <<>> THEN v ELSE Visit(v)]
            after[k \in 0 .. N] == IF k = 0 THEN u ELSE Visit(after[k - 1])
<1>0. 0 \in 0 .. New /\ 0 < Buckets
  BY ListNumbers
<1>1. Good(u)
  BY LaterIsSound
<1>2. \A v : Good(v) => v \in Store
  BY DEF Sound, Fine
<1>3. u \in G
  BY <1>1, <1>2
<1>4. \A v \in G : v.list[0] # <<>> => Visit(v) \in G /\ Visit(v).list[0] = Tail(v.list[0])
  <2>. SUFFICES ASSUME NEW v \in G, v.list[0] # <<>>
                PROVE  Good(Visit(v)) /\ Visit(v).list[0] = Tail(v.list[0])
    BY <1>2
  <2>1. Good(v) /\ 0 \in lag
    OBVIOUS
  <2>. HIDE DEF lag
  <2>. QED
    BY <2>1, VisitIsSound
<1>5. Pass(w) = Cleanup(after[N])
  <2>1. u.list[0] = w.list[1]
    <3>1. w \in Store
      BY DEF Sound, Fine
    <3>. HIDE DEF u
    <3>2. \A k \in 0 .. New : u.list[k] = IF k < Buckets THEN w.list[k + 1] ELSE IF k = New THEN w.list[k] ELSE <<>>
      BY <3>1, LaterIs DEF u
    <3>3. u.list[0] = w.list[0 + 1]
      BY <3>2, <1>0
    <3>. QED
      BY <3>3
  <2>. QED
    BY <2>1 DEF Pass, Times
<1>. HIDE DEF u, Good
<1>6. /\ step \in [G -> G]
      /\ \A v \in G : v.list[0] # <<>> => step[v] = Visit(v) /\ step[v].list[0] = Tail(v.list[0])
  <2>. HIDE DEF G
  <2>. QED
    BY <1>4
<1>. HIDE DEF step
<1>7. N \in Nat /\ \E h \in [0 .. N -> G] : Drains(h, N, u, step, 0)
  <2>1. G \subseteq Store
    OBVIOUS
  <2>. HIDE DEF G, after
  <2>. QED
    BY <1>0, <1>3, <1>6, <2>1, Drained
<1>8. PICK h \in [0 .. N -> G] : /\ Repeats(h, N, u, step) /\ h[N].list[0] = <<>>
                                 /\ \A k \in 1 .. N : h[k - 1].list[0] # <<>>
  BY <1>7 DEF Drains
<1>. HIDE DEF N, G
<1>9. \A k \in 1 .. N : h[k] = Visit(h[k - 1])
  <2>. SUFFICES ASSUME NEW k \in 1 .. N
                PROVE  h[k] = Visit(h[k - 1])
    OBVIOUS
  <2>1. k - 1 \in 0 .. N
    BY <1>7
  <2>2. h[k - 1] \in G /\ h[k - 1].list[0] # <<>>
    BY <2>1, <1>8
  <2>3. h[k] = step[h[k - 1]]
    BY <1>8 DEF Repeats
  <2>. QED
    BY <2>2, <2>3, <1>6
<1>10. h = [k \in 0 .. N |-> IF k = 0 THEN u ELSE Visit(h[k - 1])]
  BY <1>7, <1>8, <1>9 DEF Repeats
<1>11. after = [k \in 0 .. N |-> IF k = 0 THEN u ELSE Visit(after[k - 1])]
  BY <1>10
<1>. HIDE DEF after
<1>. DEFINE S == {k \in 0 .. N : after[k] = h[k]}
<1>12. 0 \in S
  BY <1>7, <1>8, <1>11 DEF Repeats
<1>13. ASSUME NEW k \in 1 .. N, k - 1 \in S
       PROVE  k \in S
  <2>1. k \in 0 .. N /\ k # 0 /\ after[k - 1] = h[k - 1]
    BY <1>7, <1>13
  <2>2. after[k] = Visit(after[k - 1])
    BY <2>1, <1>11
  <2>3. after[k] = h[k]
    BY <2>1, <2>2, <1>9
  <2>. QED
    BY <2>1, <2>3
<1>14. \A k \in 0 .. N : k \in S
  <2>. HIDE DEF S
  <2>. QED
    BY <1>7, <1>12, <1>13, UpTo
<1>15. after[N] = h[N] /\ h[N] \in G
  BY <1>7, <1>14
<1>16. Good(after[N]) /\ after[N].list[0] = <<>>
  BY <1>8, <1>15 DEF G
<1>17. /\ Sound(Cleanup(after[N]), T, {0}, {}) /\ Marks(Cleanup(after[N]), K, {})
       /\ Cleanup(after[N]).list[0] = after[N].list[0]
  <2>. HIDE DEF N
  <2>1. Sound(after[N], T, lag, {}) /\ Marks(after[N], K, {}) /\ lag \subseteq {-1, 0}
    BY <1>16 DEF Good
  <2>. HIDE DEF lag
  <2>. QED
    BY <2>1, CleanupIsSound
<1>. QED
  BY <1>5, <1>16, <1>17

-----------------------------------------------------------------------------
(* Steps that change items, and leave scripts as they are. *)

\* What is kept of the store, if no item got a place that had been freed before.
Keeps(w, T, K) == Sound(w, T, {0}, {}) /\ Marks(w, K, {}) /\ w.list[0] = <<>>

LEMMA NowIs ==
    ASSUME IInv, ~strayed
    PROVE  /\ Keeps(Now, temp, Unknown) /\ Now \in Store
           /\ Now.item = store.item /\ Now.list = store.list /\ Now.full = FALSE
<1>1. /\ store \in Store /\ Clean(store) /\ Alive(store) /\ Marks(store, Unknown, {})
      /\ Punctual(store, {0}) /\ Counted(store, temp, {}) /\ store.list[0] = <<>> /\ store.full = FALSE
  BY DEF IInv, TypeOK
<1>. DEFINE w == Now
<1>2. /\ w \in Store /\ w.item = store.item /\ w.list = store.list /\ w.torn = store.torn
      /\ w.full = store.full /\ w.ends = {}
  BY <1>1 DEF Now, Store
<1>. HIDE DEF w
<1>3. \A i : /\ Many(w, i) = Many(store, i) /\ Listed(w, i) = Listed(store, i)
             /\ \A k : In(w, k, i) = In(store, k, i)
  BY <1>2, EntriesOfLists
<1>4. Clean(w) /\ Alive(w)
  BY <1>1, <1>2 DEF Clean, Alive, Exists
<1>5. Punctual(w, {0})
  BY <1>1, <1>2, <1>3 DEF Punctual, Due
<1>6. Counted(w, temp, {})
  BY <1>1, <1>2, <1>3 DEF Counted, Placed, Void
<1>7. Marks(w, Unknown, {})
  BY <1>1, <1>2, <1>3 DEF Marks, Void
<1>. QED
  BY <1>1, <1>2, <1>4, <1>5, <1>6, <1>7 DEF Keeps, Sound, Fine, w

\* The invariant after such a step.
LEMMA StoreStep ==
    ASSUME IInv, ~strayed, NEW w, Becomes(w), Keeps(w, temp, Unknown), Since(Now, w) \/ depth = 0,
           UNCHANGED scriptVars
    PROVE  IInv'
<1>1. store' = w /\ ~w.full /\ UNCHANGED <<scene, env, temp, known, timers, lastTimer, events, strayed, erased>>
  BY DEF Becomes, scriptVars
<1>2. Unknown' = Unknown
  BY <1>1 DEF Unknown
<1>3. /\ w \in Store /\ Clean(w) /\ Alive(w) /\ Punctual(w, {0}) /\ Counted(w, temp, {})
      /\ Marks(w, Unknown, {}) /\ w.list[0] = <<>> /\ w.full = FALSE
  BY <1>1 DEF Keeps, Sound, Fine, Store
<1>4. TypeOK'
  BY <1>1, <1>3 DEF TypeOK, IInv
<1>5. Environments'
  <2>1. \A i \in Item : known[i] <= Len(env)
    BY DEF IInv, Environments
  <2>2. ASSUME NEW i \in Item, known[i] > 0, Void(w, i)
        PROVE  i \in temp \/ w.item[i].freed > 0
    <3>1. depth # 0
      BY <2>1, <2>2 DEF depth, IInv, TypeOK
    <3>2. Void(store, i) /\ w.item[i].freed >= store.item[i].freed
      BY <3>1, <2>2, NowIs DEF Since, Void
    <3>3. w.item[i].freed \in Nat /\ store.item[i].freed \in Nat
      BY <1>3, ParentIs, RecordIs DEF IInv, TypeOK
    <3>4. i \in temp \/ store.item[i].freed > 0
      BY <2>2, <3>2 DEF IInv, Environments
    <3>. QED
      BY <3>2, <3>3, <3>4
  <2>. QED
    BY <2>1, <2>2, <1>1 DEF Environments, Void
<1>6. TimersAreDue' /\ Unmade'
  BY <1>1 DEF IInv, TimersAreDue, Unmade
<1>7. Clean(store)' /\ Alive(store)'
  BY <1>1, <1>3 DEF Clean, Alive, Exists
<1>8. Marks(store, Unknown, {})'
  BY <1>1, <1>2, <1>3
<1>9. Punctual(store, {0})'
  BY <1>1, <1>3
<1>10. Counted(store, temp, {})'
  BY <1>1, <1>3
<1>. QED
  BY <1>1, <1>3, <1>4, <1>5, <1>6, <1>7, <1>8, <1>9, <1>10 DEF IInv

\* The bound on what exists leaves an address.
LEMMA RoomIs ==
    ASSUME IInv, MayCreate, NEW w, w.item = store.item
    PROVE  Roomy(w)
<1>. DEFINE E == {j \in Item : Exists(store, j)}
<1>1. scene.items \in 0 .. Cardinality(Item)
  BY ScriptsAssumption DEF IInv, TypeOK
<1>2. Cardinality(E) < scene.items
  BY DEF MayCreate
<1>3. Cardinality(Item) \in Nat /\ Cardinality(E) \in Nat
  BY ItemsAssumption, FS_CardinalityType, FS_Subset
<1>4. E # Item
  <2>. HIDE DEF E
  <2>1. \A a, b, c \in Int : b \in 0 .. c /\ a < b => a # c
    OBVIOUS
  <2>2. Cardinality(E) # Cardinality(Item)
    BY <2>1, <1>1, <1>2, <1>3
  <2>. QED
    BY <2>2
<1>5. PICK j \in Item : ~Exists(store, j)
  BY <1>4
<1>. QED
  BY <1>5 DEF Roomy, Exists

LEMMA PlaceIs ==
    ASSUME NEW w, NEW i, NEW p \in Place(w, i)
    PROVE  p \in Item \cup {"floor"} /\ (p \in Item => Exists(w, p))
BY ConstantsApart DEF Place, InGame

LEMMA AppearsKeeps ==
    ASSUME IInv, ~strayed, NEW t \in Type, NEW p, Appears(t, p), UNCHANGED scriptVars
    PROVE  IInv'
<1>. DEFINE w == Now
            i == Fresh(w)
            r == Made(t, p, Time(t))
            v == With(w, i, r)
<1>1. Keeps(w, temp, Unknown) /\ w \in Store /\ w.item = store.item
  BY NowIs
<1>2. Roomy(w)
  BY <1>1, RoomIs DEF Appears
<1>. HIDE DEF w
<1>3. i \in Item /\ ~Exists(w, i)
  BY <1>2, FreshIs
<1>4. p \in Item \cup {"floor"} /\ (p \in Item => Exists(w, p)) /\ Becomes(StartDecay(Create(w, i, t, p), i))
  BY PlaceIs DEF Appears, w
<1>. HIDE DEF i
<1>5. r \in ItemRec /\ Create(w, i, t, p) = v
  BY <1>1, <1>3, <1>4, MadeIs
<1>. HIDE DEF r
<1>6. Sound(v, temp, {0}, {}) /\ Marks(v, Unknown, {}) /\ Since(w, v) /\ v \in Store
  <2>1. Sound(w, temp, {0}, {}) /\ Marks(w, Unknown, {})
    BY <1>1 DEF Keeps
  <2>. QED
    BY <2>1, <1>3, <1>4, <1>5, MadeIsSound DEF r
<1>7. Exists(v, i)
  <2>1. v.item[i] = r
    BY <1>1, <1>3, <1>5, WithIs
  <2>. QED
    BY <2>1, ConstantsApart DEF Exists, r, Made, Rec
<1>. HIDE DEF v
<1>. DEFINE u == StartDecay(v, i)
<1>8. Sound(u, temp, {0}, {}) /\ Marks(u, Unknown, {}) /\ Since(v, u)
  <2>1. 0 \in {0}
    OBVIOUS
  <2>. QED
    BY <2>1, <1>3, <1>6, <1>7, StartDecayIsSound
<1>9. Becomes(u)
  BY <1>4, <1>5
<1>. HIDE DEF u
<1>10. Since(w, u) /\ u.list[0] = <<>>
  <2>1. u \in Store
    BY <1>8 DEF Sound, Fine
  <2>2. Since(w, u)
    BY <2>1, <1>1, <1>6, <1>8, SinceAgain
  <2>. QED
    BY <2>2, <1>1 DEF Since, Keeps
<1>. QED
  BY <1>8, <1>9, <1>10, StoreStep DEF Keeps, w

\* The record of an item that is put in p.
Moved(q, p) == Rec(p, q.type, q.dur, q.marked, q.refs, q.freed, q.left)

LEMMA MovedIs ==
    ASSUME NEW w \in Store, NEW i \in Item, NEW p \in Item \cup {"floor"}
    PROVE  /\ [w EXCEPT !.item[i].parent = p] = With(w, i, Moved(w.item[i], p))
           /\ Moved(w.item[i], p) \in ItemRec
<1>. DEFINE q == w.item[i]
            a == [q EXCEPT !.parent = p]
<1>1. q \in ItemRec
  BY StoreIs
<1>2. DOMAIN a = DOMAIN q /\ a = [j \in DOMAIN a |-> a[j]]
  BY Zenon
<1>3. /\ a.parent = p /\ a.type = q.type /\ a.dur = q.dur /\ a.marked = q.marked
      /\ a.refs = q.refs /\ a.freed = q.freed /\ a.left = q.left
  BY <1>1 DEF ItemRec
<1>4. a = Moved(q, p)
  <2>. HIDE DEF a
  <2>. QED
    BY <1>1, <1>2, <1>3, RecordIs, ByFields DEF Moved
<1>5. Moved(q, p) \in ItemRec
  BY <1>1, RecordIs DEF Moved, Rec, ItemRec
<1>6. [w EXCEPT !.item[i].parent = p] = [w EXCEPT !.item = [w.item EXCEPT ![i] = a]]
  OBVIOUS
<1>. QED
  BY <1>4, <1>5, <1>6 DEF With

LEMMA MovedFields ==
    ASSUME NEW q, NEW p
    PROVE  /\ Moved(q, p).parent = p /\ Moved(q, p).type = q.type /\ Moved(q, p).dur = q.dur
           /\ Moved(q, p).marked = q.marked /\ Moved(q, p).refs = q.refs
           /\ Moved(q, p).freed = q.freed /\ Moved(q, p).left = q.left
BY DEF Moved, Rec

\* What is in the game and not with a script is in a cylinder.
LEMMA InGameExists ==
    ASSUME NEW w, NEW i \in Item, InGame(w, i)
    PROVE  Exists(w, i) /\ w.item[i].parent # None /\ (w.item[i].parent # "void" => Placed(w, i))
<1>1. Exists(w, i) /\ w.item[i].parent # None
  BY InGameIs DEF InGame
<1>. QED
  BY <1>1 DEF Placed

LEMMA MovesKeeps ==
    ASSUME IInv, ~strayed, NEW i \in Item, NEW p, Moves(i, p), UNCHANGED scriptVars
    PROVE  IInv'
<1>. DEFINE w == Now
            q == w.item[i]
            r == Moved(q, p)
            v == With(w, i, r)
<1>1. Keeps(w, temp, Unknown) /\ w \in Store /\ w.item = store.item
  BY NowIs
<1>2. /\ InGame(store, i) /\ store.item[i].parent # "void" /\ p \in Place(store, i)
      /\ Becomes([w EXCEPT !.item[i].parent = p])
  BY DEF Moves
<1>. HIDE DEF w
<1>3. Exists(w, i) /\ Placed(w, i)
  <2>1. Exists(store, i) /\ Placed(store, i)
    BY <1>2, InGameExists
  <2>. QED
    BY <2>1, <1>1 DEF Exists, Placed
<1>4. p \in Item \cup {"floor"} /\ (p \in Item => Exists(w, p))
  <2>1. p \in Item \cup {"floor"} /\ (p \in Item => Exists(store, p))
    BY <1>2, PlaceIs
  <2>. QED
    BY <2>1, <1>1 DEF Exists
<1>5. r \in ItemRec /\ [w EXCEPT !.item[i].parent = p] = v
  BY <1>1, <1>4, MovedIs
<1>6. /\ r.parent = p /\ r.type = q.type /\ r.dur = q.dur /\ r.marked = q.marked
      /\ r.refs = q.refs /\ r.freed = q.freed /\ r.left = q.left
  BY MovedFields
<1>. HIDE DEF r
<1>7. p \notin {None, "void"} /\ p # "void" /\ ~Void(w, i)
  BY <1>3, <1>4, ConstantsApart DEF Placed, Void
<1>8. Sound(v, temp, {0}, {})
  <2>. DEFINE X == {}
  <2>1. B(r.parent \notin {None, "void"}) + B(i \in temp /\ r.parent = "void") + r.freed + B(i \in X)
            = B(Placed(w, i)) + B(i \in temp /\ Void(w, i)) + w.item[i].freed + B(i \in X)
    <3>1. /\ B(r.parent \notin {None, "void"}) = 1 /\ B(Placed(w, i)) = 1
          /\ B(i \in temp /\ r.parent = "void") = 0 /\ B(i \in temp /\ Void(w, i)) = 0
      BY <1>3, <1>6, <1>7 DEF B
    <3>. QED
      BY <3>1, <1>6
  <2>2. r.type # None
    BY <1>3, <1>6 DEF Exists
  <2>3. Sound(w, temp, {0}, X)
    BY <1>1 DEF Keeps
  <2>. HIDE DEF X
  <2>4. Sound(v, temp, {0}, X)
    <3>1. r.refs = w.item[i].refs /\ r.left = w.item[i].left /\ r.dur = w.item[i].dur
      BY <1>6
    <3>2. r.parent \in Item => Exists(w, r.parent)
      BY <1>4, <1>6
    <3>. QED
      BY <2>1, <2>2, <2>3, <3>1, <3>2, <1>3, <1>5, ChangedIsSound
  <2>. QED
    BY <2>4 DEF X
<1>9. Marks(v, Unknown, {})
  <2>1. Marks(w, Unknown, {})
    BY <1>1 DEF Keeps
  <2>2. r.marked => Listed(w, i) \/ w.full \/ Stuck(r)
    BY <2>1, <1>3, <1>6, <1>7 DEF Marks, Placed, Stuck
  <2>3. Marks(v, Unknown, {} \ {i})
    BY <2>1, <2>2, <1>1, <1>5, ChangedKeepsMarks
  <2>4. {} \ {i} = {}
    OBVIOUS
  <2>. QED
    BY <2>3, <2>4
<1>10. Since(w, v)
  <2>1. r.type # None
    BY <1>3, <1>6 DEF Exists
  <2>. QED
    BY <2>1, <1>1, <1>5, <1>6, <1>7, SinceChanged
<1>11. v.list[0] = <<>>
  BY <1>1, <1>10 DEF Since, Keeps
<1>. QED
  BY <1>2, <1>5, <1>8, <1>9, <1>10, <1>11, StoreStep DEF Keeps, w

LEMMA RemovesKeeps ==
    ASSUME IInv, ~strayed, NEW i \in Item, Removes(i), UNCHANGED scriptVars
    PROVE  IInv'
<1>. DEFINE w == Now
            v == RemoveItem(w, i)
<1>1. Keeps(w, temp, Unknown) /\ w \in Store /\ w.item = store.item
  BY NowIs
<1>2. Becomes(v) /\ InGame(store, i) /\ store.item[i].parent # "void"
  BY DEF Removes
<1>3. Placed(w, i)
  BY <1>1, <1>2, InGameExists DEF Placed
<1>. HIDE DEF w
<1>4. Sound(v, temp, {0}, {}) /\ Marks(v, Unknown, {}) /\ Since(w, v)
  <2>1. Sound(w, temp, {0}, {}) /\ Marks(w, Unknown, {}) /\ {} \subseteq {i}
    BY <1>1 DEF Keeps
  <2>. QED
    BY <2>1, <1>3, RemoveItemIsSound
<1>5. v.list[0] = <<>>
  BY <1>1, <1>4 DEF Since, Keeps
<1>. HIDE DEF v
<1>. QED
  BY <1>2, <1>4, <1>5, StoreStep DEF Keeps, w

\* transformItem, of an item that is not on its way anywhere.
LEMMA TransformKeeps ==
    ASSUME NEW w, NEW T, NEW K, Keeps(w, T, K), NEW i \in Item, Exists(w, i), NEW t \in Type
    PROVE  LET r == Transform(w, i, t)
           IN  /\ Keeps(r.store, T, K) /\ Since(w, r.store) /\ Exists(r.store, i)
               /\ r.item \in Item \cup {None} /\ (r.item # None => Exists(r.store, r.item))
<1>. DEFINE r == Transform(w, i, t)
            E == {}
<1>1. Sound(w, T, {0}, {}) /\ Marks(w, K, E) /\ E = {} /\ w.list[0] = <<>>
  BY DEF Keeps
<1>. HIDE DEF E
<1>2. /\ Sound(r.store, T, {0}, {}) /\ Marks(r.store, K, {}) /\ Since(w, r.store)
      /\ r.item \in Item \cup {None} /\ (r.item # None => Exists(r.store, r.item))
  BY <1>1, TransformIsSound
<1>. HIDE DEF r
<1>3. r.store.list[0] = <<>> /\ Exists(r.store, i)
  BY <1>1, <1>2 DEF Since
<1>. QED
  BY <1>2, <1>3 DEF Keeps, r

LEMMA StartDecayKeeps ==
    ASSUME NEW w, NEW T, NEW K, Keeps(w, T, K), NEW i \in Item \cup {None}, i # None => Exists(w, i)
    PROVE  Keeps(StartDecay(w, i), T, K) /\ Since(w, StartDecay(w, i))
<1>. DEFINE v == StartDecay(w, i)
            lag == {0}
<1>1. Sound(w, T, lag, {}) /\ Marks(w, K, {}) /\ 0 \in lag /\ w.list[0] = <<>>
  BY DEF Keeps
<1>. HIDE DEF lag
<1>2. Sound(v, T, lag, {}) /\ Marks(v, K, {}) /\ Since(w, v)
  BY <1>1, StartDecayIsSound
<1>. HIDE DEF v
<1>. QED
  BY <1>1, <1>2 DEF Keeps, Since, v, lag

LEMMA KeepsStore ==
    ASSUME NEW w, NEW T, NEW K, Keeps(w, T, K)
    PROVE  w \in Store
BY DEF Keeps, Sound, Fine

LEMMA EquipsKeeps ==
    ASSUME IInv, ~strayed, NEW i \in Item, NEW t \in Type, Equips(i, t), UNCHANGED scriptVars
    PROVE  IInv'
<1>. DEFINE w == Now
            r == Transform(w, i, t)
            v == StartDecay(r.store, r.item)
<1>1. Keeps(w, temp, Unknown) /\ w \in Store /\ w.item = store.item
  BY NowIs
<1>2. InGame(store, i) /\ Becomes(v)
  BY DEF Equips
<1>3. Exists(w, i)
  BY <1>1, <1>2, InGameExists DEF Exists
<1>. HIDE DEF w
<1>4. /\ Keeps(r.store, temp, Unknown) /\ Since(w, r.store)
      /\ r.item \in Item \cup {None} /\ (r.item # None => Exists(r.store, r.item))
  BY <1>1, <1>3, TransformKeeps
<1>. HIDE DEF r
<1>5. Keeps(v, temp, Unknown) /\ Since(r.store, v)
  BY <1>4, StartDecayKeeps
<1>6. Since(w, v)
  BY <1>1, <1>4, <1>5, KeepsStore, SinceAgain
<1>. HIDE DEF v
<1>. QED
  BY <1>2, <1>5, <1>6, StoreStep DEF w

LEMMA DeEquipsKeeps ==
    ASSUME IInv, ~strayed, NEW i \in Item, NEW t \in Type, DeEquips(i, t), UNCHANGED scriptVars
    PROVE  IInv'
<1>. DEFINE w == Now
            u == Transform(w, i, t).store
            v == StartDecay(u, i)
<1>1. Keeps(w, temp, Unknown) /\ w \in Store /\ w.item = store.item
  BY NowIs
<1>2. InGame(store, i) /\ Becomes(v)
  BY DEF DeEquips
<1>3. Exists(w, i)
  BY <1>1, <1>2, InGameExists DEF Exists
<1>. HIDE DEF w
<1>4. Keeps(u, temp, Unknown) /\ Since(w, u) /\ Exists(u, i)
  BY <1>1, <1>3, TransformKeeps
<1>. HIDE DEF u
<1>5. Keeps(v, temp, Unknown) /\ Since(u, v)
  BY <1>4, StartDecayKeeps
<1>6. Since(w, v)
  BY <1>1, <1>4, <1>5, KeepsStore, SinceAgain
<1>. HIDE DEF v
<1>. QED
  BY <1>2, <1>5, <1>6, StoreStep DEF w

LEMMA TransformsKeeps ==
    ASSUME IInv, ~strayed, NEW i \in Item, NEW t \in Type, Transforms(i, t)
    PROVE  IInv'
<1>. DEFINE w == Now
            v == Transform(w, i, t).store
<1>1. Keeps(w, temp, Unknown) /\ w \in Store /\ w.item = store.item
  BY NowIs
<1>2. InGame(store, i) /\ Becomes(v) /\ UNCHANGED scriptVars
  BY DEF Transforms, Reaches
<1>3. Exists(w, i)
  BY <1>1, <1>2, InGameExists DEF Exists
<1>. HIDE DEF w
<1>4. Keeps(v, temp, Unknown) /\ Since(w, v)
  BY <1>1, <1>3, TransformKeeps
<1>. HIDE DEF v
<1>. QED
  BY <1>2, <1>4, StoreStep DEF w

LEMMA StartsDecayKeeps ==
    ASSUME IInv, ~strayed, NEW i \in Item, StartsDecay(i)
    PROVE  IInv'
<1>. DEFINE w == Now
            v == StartDecay(w, i)
<1>1. Keeps(w, temp, Unknown) /\ w \in Store /\ w.item = store.item
  BY NowIs
<1>2. InGame(store, i) /\ Becomes(v) /\ UNCHANGED scriptVars
  BY DEF StartsDecay, Reaches
<1>3. Exists(w, i)
  BY <1>1, <1>2, InGameExists DEF Exists
<1>. HIDE DEF w
<1>4. Keeps(v, temp, Unknown) /\ Since(w, v)
  BY <1>1, <1>3, StartDecayKeeps
<1>. HIDE DEF v
<1>. QED
  BY <1>2, <1>4, StoreStep DEF w

\* While no script runs, none has an item.
LEMMA NothingKnown ==
    ASSUME IInv, depth = 0
    PROVE  Item \subseteq Unknown
<1>. SUFFICES ASSUME NEW i \in Item
              PROVE  known[i] = 0
  BY DEF Unknown
<1>1. known[i] \in Nat /\ known[i] <= Len(env) /\ Len(env) = 0
  BY DEF IInv, TypeOK, Environments, depth
<1>. QED
  BY <1>1

LEMMA CheckDecayKeeps ==
    ASSUME IInv, ~strayed, depth = 0, CheckDecay, UNCHANGED scriptVars
    PROVE  IInv'
<1>. DEFINE w == Now
            v == Pass(w)
<1>1. Keeps(w, temp, Unknown) /\ Becomes(v)
  BY NowIs DEF CheckDecay
<1>. HIDE DEF w
<1>2. Sound(v, temp, {0}, {}) /\ Marks(v, Unknown, {}) /\ v.list[0] = <<>>
  BY <1>1, NothingKnown, PassIsSound DEF Keeps
<1>. HIDE DEF v
<1>. QED
  BY <1>1, <1>2, StoreStep DEF Keeps

LEMMA CheckCreaturesKeeps ==
    ASSUME IInv, ~strayed, depth = 0, CheckCreatures, UNCHANGED scriptVars
    PROVE  IInv'
<1>. DEFINE w == Now
            v == Cleanup(w)
            lag == {0}
<1>1. Keeps(w, temp, Unknown) /\ Becomes(v)
  BY NowIs DEF CheckCreatures
<1>2. Sound(w, temp, lag, {}) /\ Marks(w, Unknown, {}) /\ lag \subseteq {-1, 0} /\ w.list[0] = <<>>
  BY <1>1 DEF Keeps
<1>. HIDE DEF w, lag
<1>3. Sound(v, temp, {0}, {}) /\ Marks(v, Unknown, {}) /\ v.list[0] = w.list[0]
  BY <1>2, CleanupIsSound
<1>. HIDE DEF v
<1>. QED
  BY <1>1, <1>2, <1>3, StoreStep DEF Keeps

-----------------------------------------------------------------------------
(* Steps of scripts. *)

\* The invariant after a step that changes the store, who has items, or both.
LEMMA ScriptStepKeeps ==
    ASSUME IInv, NEW w, Becomes(w),
           w \in Store /\ Fine(w, {0}) /\ w.list[0] = <<>>, Marks(w, Unknown', {}),
           ~strayed' => Counted(w, temp', {}),
           TypeOK', Environments', UNCHANGED <<timers, lastTimer, events, env>>
    PROVE  IInv'
<1>1. store' = w /\ w.full = FALSE
  BY DEF Becomes, Store
<1>2. TimersAreDue' /\ Unmade'
  BY DEF IInv, TimersAreDue, Unmade
<1>3. Clean(w) /\ Alive(w) /\ Punctual(w, {0})
  BY DEF Fine
<1>4. Clean(store)' /\ Alive(store)'
  BY <1>1, <1>3 DEF Clean, Alive, Exists
<1>5. Punctual(store, {0})' /\ Marks(store, Unknown, {})'
  BY <1>1, <1>3
<1>6. ~strayed' => Counted(store, temp, {})'
  BY <1>1
<1>. QED
  BY <1>1, <1>2, <1>4, <1>5, <1>6 DEF IInv

LEMMA CreatesItemKeeps ==
    ASSUME IInv, ~strayed, NEW t \in Type, CreatesItem(t)
    PROVE  IInv'
<1>. DEFINE w == Now
            i == Fresh(store)
            r == Made(t, "void", Time(t))
            v == With(w, i, r)
            U == temp \cup {i}
<1>1. /\ Keeps(w, temp, Unknown) /\ w \in Store /\ w.item = store.item
      /\ MayCreate /\ Len(env) > 0 /\ temp' = U /\ known' = [known EXCEPT ![i] = Len(env)]
      /\ Becomes(Create(w, i, t, "void"))
      /\ UNCHANGED <<env, timers, lastTimer, events, strayed, erased>>
  BY NowIs DEF CreatesItem, depth
<1>2. i \in Item /\ ~Exists(store, i)
  BY <1>1, RoomIs, FreshIs
<1>3. ~Exists(w, i)
  BY <1>1, <1>2 DEF Exists
<1>. HIDE DEF w, i
<1>4. r \in ItemRec /\ Create(w, i, t, "void") = v
  BY <1>1, <1>2, MadeIs
<1>5. /\ r.type = t /\ r.refs = 1 /\ r.freed = 0 /\ r.parent = "void" /\ r.left = None /\ r.marked = FALSE
      /\ r.type # None
  BY ConstantsApart DEF Made, Rec
<1>. HIDE DEF r
<1>6. Sound(v, U, {0}, {})
  <2>1. B(r.parent \notin {None, "void"}) + B(i \in U /\ r.parent = "void") = 1
    BY <1>5 DEF B
  <2>2. \A j \in Item \ {i} : j \in U <=> j \in temp
    OBVIOUS
  <2>3. r.parent \notin Item
    BY <1>5, ConstantsApart
  <2>4. Sound(w, temp, {0}, {})
    BY <1>1 DEF Keeps
  <2>. HIDE DEF U
  <2>. QED
    BY <2>1, <2>2, <2>3, <2>4, <1>2, <1>3, <1>4, <1>5, CreatedIsSound
<1>7. v \in Store /\ v.item[i] = r /\ v.list = w.list /\ \A j \in Item : j # i => v.item[j] = w.item[j]
  BY <1>1, <1>2, <1>4, WithIs
<1>8. known \in [Item -> Nat] /\ Len(env) \in Nat /\ temp \in SUBSET Item
  BY DEF IInv, TypeOK
<1>9. Unknown' = Unknown \ {i}
  BY <1>1, <1>2, <1>8 DEF Unknown
<1>10. Marks(v, Unknown', {})
  <2>1. ASSUME NEW j \in Item, v.item[j].marked, ~Listed(v, j)
        PROVE  v.full \/ v.item[j].parent = None \/ (Void(v, j) /\ j \in Unknown') \/ Stuck(v.item[j])
    <3>1. j # i /\ v.item[j] = w.item[j] /\ ~Listed(w, j)
      BY <2>1, <1>5, <1>7, EntriesOfLists
    <3>2. w.full \/ w.item[j].parent = None \/ (Void(w, j) /\ j \in Unknown) \/ Stuck(w.item[j])
      BY <2>1, <3>1, <1>1 DEF Keeps, Marks
    <3>3. v.full = w.full
      BY <1>1, <1>2, <1>4, WithIs
    <3>. QED
      BY <3>1, <3>2, <3>3, <1>9 DEF Void
  <2>. QED
    BY <2>1 DEF Marks
<1>11. store' = v /\ UNCHANGED scene
  BY <1>1, <1>4 DEF Becomes
<1>12. TypeOK'
  BY <1>1, <1>2, <1>7, <1>8, <1>11 DEF TypeOK, IInv
<1>13. Environments'
  <2>1. ASSUME NEW j \in Item
        PROVE  known'[j] <= Len(env')
    BY <1>1, <1>2, <1>8 DEF IInv, Environments
  <2>2. ASSUME NEW j \in Item, known'[j] > 0, v.item[j].parent = "void"
        PROVE  j \in temp' \/ v.item[j].freed > 0
    <3>1. CASE j = i
      BY <3>1, <1>1
    <3>2. CASE j # i
      <4>1. known[j] > 0 /\ Void(store, j) /\ v.item[j].freed = store.item[j].freed
        BY <2>2, <3>2, <1>1, <1>7, <1>8 DEF Void
      <4>. QED
        BY <4>1, <1>1 DEF IInv, Environments
    <3>. QED
      BY <3>1, <3>2
  <2>. QED
    BY <2>1, <2>2, <1>11 DEF Environments, Void
<1>14. v.list[0] = <<>>
  BY <1>1, <1>7 DEF Keeps
<1>15. Becomes(v) /\ Fine(v, {0}) /\ Counted(v, temp', {})
  BY <1>1, <1>4, <1>6 DEF Sound
<1>. HIDE DEF v
<1>. QED
  BY <1>1, <1>7, <1>10, <1>12, <1>13, <1>14, <1>15, ScriptStepKeeps

LEMMA AddsItemKeeps ==
    ASSUME IInv, ~strayed, NEW i \in Item, NEW p, AddsItem(i, p)
    PROVE  IInv'
<1>. DEFINE w == Now
            q == w.item[i]
            r == Moved(q, p)
            v == With(w, i, r)
<1>1. /\ Keeps(w, temp, Unknown) /\ w \in Store /\ w.item = store.item
      /\ Len(env) > 0 /\ store.item[i].parent = "void" /\ known[i] = Len(env) /\ p \in Place(store, i)
      /\ Becomes([w EXCEPT !.item[i].parent = p])
      /\ strayed' = (strayed \/ store.item[i].freed > 0)
      /\ UNCHANGED <<env, temp, known, timers, lastTimer, events, erased>>
  BY NowIs DEF AddsItem, depth
<1>. HIDE DEF w
<1>2. /\ w \in Store /\ Clean(w) /\ Alive(w) /\ Fine(w, {0}) /\ Counted(w, temp, {})
      /\ Marks(w, Unknown, {}) /\ w.list[0] = <<>>
  BY <1>1 DEF Keeps, Sound, Fine
<1>3. Void(w, i) /\ ~Placed(w, i) /\ Exists(w, i) /\ q.type # None
  <2>1. Void(w, i) /\ ~Placed(w, i) /\ w.item[i].parent # None
    BY <1>1, ConstantsApart DEF Void, Placed
  <2>. QED
    BY <2>1, <1>2, PlacedExists DEF Exists
<1>4. p \in Item \cup {"floor"} /\ (p \in Item => Exists(w, p)) /\ p # None /\ p # "void"
  <2>1. p \in Item \cup {"floor"} /\ (p \in Item => Exists(store, p))
    BY <1>1, PlaceIs
  <2>. QED
    BY <2>1, <1>1, ConstantsApart DEF Exists
<1>5. r \in ItemRec /\ [w EXCEPT !.item[i].parent = p] = v /\ q \in ItemRec
  BY <1>1, <1>4, MovedIs, ParentIs
<1>6. /\ r.parent = p /\ r.type = q.type /\ r.dur = q.dur /\ r.marked = q.marked
      /\ r.refs = q.refs /\ r.freed = q.freed /\ r.left = q.left
  BY MovedFields
<1>. HIDE DEF r
<1>7. v \in Store /\ v.item[i] = r /\ v.list = w.list /\ \A j \in Item : j # i => v.item[j] = w.item[j]
  BY <1>1, <1>5, WithIs
<1>8. known \in [Item -> Nat] /\ Len(env) \in Nat /\ Unknown' = Unknown /\ i \notin Unknown
  BY <1>1 DEF IInv, TypeOK, Unknown
<1>9. Fine(v, {0})
  <2>1. r.refs > 0
    BY <1>2, <1>3, <1>6 DEF Alive
  <2>2. r.parent \in Item => Exists(w, r.parent)
    BY <1>4, <1>6
  <2>3. r.left = w.item[i].left /\ r.dur = w.item[i].dur /\ r.type # None
    BY <1>3, <1>6
  <2>. QED
    BY <2>1, <2>2, <2>3, <1>2, <1>5, ChangedIsFine
<1>10. Marks(v, Unknown', {})
  <2>1. r.marked => Listed(w, i) \/ w.full \/ Stuck(r)
    BY <1>2, <1>3, <1>6, <1>8, ConstantsApart DEF Marks, Void, Stuck
  <2>2. Marks(v, Unknown, {} \ {i})
    BY <2>1, <1>2, <1>5, ChangedKeepsMarks
  <2>3. {} \ {i} = {}
    OBVIOUS
  <2>. QED
    BY <2>2, <2>3, <1>8
<1>11. ASSUME ~strayed'
       PROVE  Counted(v, temp', {})
  <2>1. q.freed = 0 /\ i \in temp
    <3>1. q.freed \in Nat /\ q.freed = store.item[i].freed
      BY <1>1, <1>5, RecordIs
    <3>2. ~(q.freed > 0)
      BY <3>1, <1>1, <1>11
    <3>3. i \in temp \/ q.freed > 0
      BY <3>1, <1>1 DEF IInv, Environments, Void
    <3>. QED
      BY <3>1, <3>2, <3>3
  <2>. DEFINE X == {}
              m == Many(w, i)
              x == B(i \in X)
  <2>2. /\ B(r.parent \notin {None, "void"}) = 1 /\ B(i \in temp /\ r.parent = "void") = 0
        /\ B(Placed(w, i)) = 0 /\ B(i \in temp /\ Void(w, i)) = 1
    BY <2>1, <1>3, <1>4, <1>6 DEF B
  <2>3. q.refs = 0 + 1 + m + q.freed + x
    BY <2>2, <1>2 DEF Counted
  <2>4. m \in Int /\ q.freed \in Int /\ x \in Int
    BY <2>1, <1>1, EntriesAreFinite DEF B
  <2>. HIDE DEF m, x
  <2>5. r.refs = 1 + 0 + m + r.freed + x
    BY <2>3, <2>4, <1>6
  <2>6. r.refs = B(r.parent \notin {None, "void"}) + B(i \in temp /\ r.parent = "void") + Many(w, i) + r.freed + B(i \in X)
    BY <2>2, <2>5 DEF m, x
  <2>7. Counted(w, temp, X)
    BY <1>2
  <2>. HIDE DEF X
  <2>8. Counted(v, temp, X)
    BY <2>6, <2>7, <1>2, <1>5, ChangedIsCounted
  <2>. QED
    BY <2>8, <1>1 DEF X
<1>12. store' = v /\ UNCHANGED scene
  BY <1>1, <1>5 DEF Becomes
<1>13. TypeOK'
  BY <1>1, <1>7, <1>8, <1>12 DEF TypeOK, IInv
<1>14. Environments'
  <2>1. ASSUME NEW j \in Item, known[j] > 0, v.item[j].parent = "void"
        PROVE  j \in temp \/ v.item[j].freed > 0
    <3>1. j # i /\ Void(store, j) /\ v.item[j] = store.item[j]
      BY <2>1, <1>1, <1>4, <1>6, <1>7 DEF Void
    <3>. QED
      BY <2>1, <3>1 DEF IInv, Environments
  <2>2. \A j \in Item : known[j] <= Len(env)
    BY DEF IInv, Environments
  <2>. QED
    BY <2>1, <2>2, <1>1, <1>12 DEF Environments, Void
<1>15. v.list[0] = <<>> /\ Becomes(v)
  BY <1>1, <1>2, <1>5, <1>7
<1>. HIDE DEF v
<1>. QED
  BY <1>1, <1>7, <1>9, <1>10, <1>11, <1>13, <1>14, <1>15, ScriptStepKeeps

\* What a script made and nobody put anywhere is freed.
LEMMA FreeTempsIsSound ==
    ASSUME NEW w, NEW K, temp \subseteq Item, Keeps(w, temp, K)
    PROVE  LET v == FreeTemps(w)
           IN  /\ Keeps(v, {}, K) /\ v \in Store
               /\ \A j \in Item : /\ v.item[j].parent = w.item[j].parent
                                  /\ j \notin temp => v.item[j].freed = w.item[j].freed
<1>. DEFINE v == FreeTemps(w)
            f == [i \in Item |-> IF i \in temp /\ w.item[i].parent = "void"
                                 THEN [w.item[i] EXCEPT !.freed = @ + 1] ELSE w.item[i]]
            Out(i) == i \in temp /\ Void(w, i)
<1>1. /\ w \in Store /\ Clean(w) /\ Alive(w) /\ Punctual(w, {0}) /\ Counted(w, temp, {})
      /\ Marks(w, K, {}) /\ w.list[0] = <<>>
  BY DEF Keeps, Sound, Fine
<1>2. \A i \in Item : f[i] = (IF Out(i) THEN Freed(w.item[i]) ELSE w.item[i]) /\ f[i] \in ItemRec
  <2>. SUFFICES ASSUME NEW i \in Item
                PROVE  f[i] = (IF Out(i) THEN Freed(w.item[i]) ELSE w.item[i]) /\ f[i] \in ItemRec
    OBVIOUS
  <2>1. w.item[i] \in ItemRec
    BY <1>1, StoreIs
  <2>2. Freed(w.item[i]) = [w.item[i] EXCEPT !.freed = @ + 1] /\ Freed(w.item[i]) \in ItemRec
    BY <2>1, FreedIs
  <2>3. f[i] = IF Out(i) THEN Freed(w.item[i]) ELSE w.item[i]
    BY <2>2 DEF Void
  <2>. HIDE DEF f, Out
  <2>. QED
    BY <2>1, <2>2, <2>3
<1>3. f \in [Item -> ItemRec] /\ v = [w EXCEPT !.item = f]
  BY <1>2 DEF FreeTemps
<1>. HIDE DEF f
<1>4. /\ v \in Store /\ v.item = f /\ v.list = w.list /\ v.ends = w.ends /\ v.torn = w.torn
      /\ v.full = w.full
  BY <1>1, <1>3 DEF Store
<1>. HIDE DEF v
<1>5. \A i \in Item :
        /\ v.item[i].parent = w.item[i].parent /\ v.item[i].type = w.item[i].type
        /\ v.item[i].dur = w.item[i].dur /\ v.item[i].marked = w.item[i].marked
        /\ v.item[i].refs = w.item[i].refs /\ v.item[i].left = w.item[i].left
        /\ v.item[i].freed = w.item[i].freed + B(Out(i))
  <2>. SUFFICES ASSUME NEW i \in Item
                PROVE  /\ v.item[i].parent = w.item[i].parent /\ v.item[i].type = w.item[i].type
                       /\ v.item[i].dur = w.item[i].dur /\ v.item[i].marked = w.item[i].marked
                       /\ v.item[i].refs = w.item[i].refs /\ v.item[i].left = w.item[i].left
                       /\ v.item[i].freed = w.item[i].freed + B(Out(i))
    OBVIOUS
  <2>1. v.item[i] = IF Out(i) THEN Freed(w.item[i]) ELSE w.item[i]
    BY <1>2, <1>4
  <2>2. w.item[i].freed \in Int
    BY <1>1, ParentIs, RecordIs
  <2>. HIDE DEF Out
  <2>3. CASE Out(i)
    BY <2>1, <2>3 DEF Freed, Rec, B
  <2>4. CASE ~Out(i)
    BY <2>1, <2>2, <2>4 DEF B
  <2>. QED
    BY <2>3, <2>4
<1>6. \A i \in Item : /\ Exists(v, i) = Exists(w, i) /\ Placed(v, i) = Placed(w, i)
                      /\ Void(v, i) = Void(w, i)
                      /\ Many(v, i) = Many(w, i) /\ Listed(v, i) = Listed(w, i)
                      /\ \A k : In(v, k, i) = In(w, k, i)
  BY <1>4, <1>5, EntriesOfLists DEF Exists, Placed, Void
<1>7. Counted(v, {}, {})
  <2>. SUFFICES ASSUME NEW i \in Item
                PROVE  v.item[i].refs = B(Placed(v, i)) + B(i \in {} /\ Void(v, i)) + Many(v, i)
                                        + v.item[i].freed + B(i \in {})
    BY DEF Counted
  <2>. DEFINE a == B(Placed(w, i))
              b == B(Out(i))
              m == Many(w, i)
              x == B(i \in {})
  <2>1. w.item[i].refs = a + b + m + w.item[i].freed + x
    BY <1>1 DEF Counted
  <2>2. a \in Int /\ b \in Int /\ m \in Int /\ x \in Int /\ w.item[i].freed \in Int
    BY <1>1, EntriesAreFinite, ParentIs, RecordIs DEF B
  <2>3. /\ B(Placed(v, i)) = a /\ Many(v, i) = m /\ v.item[i].freed = w.item[i].freed + b
        /\ v.item[i].refs = w.item[i].refs
    BY <1>5, <1>6
  <2>4. B(i \in {} /\ Void(v, i)) = 0
    BY DEF B
  <2>. HIDE DEF a, b, m, x
  <2>5. v.item[i].refs = a + 0 + m + v.item[i].freed + x
    BY <2>1, <2>2, <2>3
  <2>. QED
    BY <2>3, <2>4, <2>5 DEF x
<1>8. Clean(v)
  <2>1. \A i \in Item : ~Exists(v, i) => v.item[i] = Absent
    <3>. SUFFICES ASSUME NEW i \in Item, ~Exists(w, i)
                  PROVE  v.item[i] = Absent
      BY <1>6
    <3>1. w.item[i] = Absent
      BY <1>1 DEF Clean
    <3>2. ~Out(i)
      BY <3>1, ConstantsApart DEF Absent, Void
    <3>. QED
      BY <3>1, <3>2, <1>2, <1>4
  <2>2. \A i \in Item : v.item[i].parent \in Item => Exists(v, v.item[i].parent)
    BY <1>1, <1>5, <1>6 DEF Clean
  <2>. QED
    BY <2>1, <2>2, <1>1, <1>4 DEF Clean
<1>. HIDE DEF Out
<1>9. Alive(v)
  BY <1>1, <1>5, <1>6 DEF Alive
<1>10. Punctual(v, {0})
  BY <1>1, <1>4, <1>5, <1>6 DEF Punctual, Due
<1>11. Marks(v, K, {})
  BY <1>1, <1>4, <1>5, <1>6 DEF Marks, Stuck
<1>12. \A j \in Item : j \notin temp => v.item[j].freed = w.item[j].freed
  BY <1>2, <1>4 DEF Out
<1>. QED
  BY <1>1, <1>4, <1>5, <1>7, <1>8, <1>9, <1>10, <1>11, <1>12 DEF Keeps, Sound, Fine, v

LEMMA EndsKeeps ==
    ASSUME IInv, ~strayed, Ends
    PROVE  IInv'
<1>. DEFINE w == Now
            v == FreeTemps(w)
            N == Len(env)
<1>1. /\ Keeps(w, temp, Unknown) /\ w.item = store.item
      /\ N > 0 /\ Becomes(v) /\ temp' = {}
      /\ known' = [i \in Item |-> IF known[i] = N THEN 0 ELSE known[i]]
      /\ env' = SubSeq(env, 1, N - 1) /\ timers' = timers \ {env[N]}
      /\ erased' = (env[N] # 0 /\ env[N] \notin timers)
      /\ UNCHANGED <<lastTimer, events, strayed>>
  BY NowIs DEF Ends, depth
<1>2. /\ env \in Seq(Timer \cup {0}) /\ temp \subseteq Item /\ known \in [Item -> Nat] /\ N \in Nat
      /\ timers \in SUBSET Timer /\ events \in [Timer -> [queued : Nat, posted : Nat]]
  BY DEF IInv, TypeOK
<1>. HIDE DEF w
<1>3. /\ Keeps(v, {}, Unknown) /\ v \in Store
      /\ \A j \in Item : /\ v.item[j].parent = w.item[j].parent
                         /\ j \notin temp => v.item[j].freed = w.item[j].freed
  BY <1>1, <1>2, FreeTempsIsSound
<1>. HIDE DEF v
<1>4. /\ store' = v /\ v.full = FALSE /\ UNCHANGED scene
      /\ Clean(v) /\ Alive(v) /\ Punctual(v, {0}) /\ Counted(v, {}, {}) /\ Marks(v, Unknown, {})
      /\ v.list[0] = <<>>
  BY <1>1, <1>3 DEF Becomes, Store, Keeps, Sound, Fine
<1>5. /\ env' \in Seq(Timer \cup {0}) /\ Len(env') = N - 1
      /\ \A n \in 1 .. N - 1 : env'[n] = env[n]
  <2>. DEFINE s == SubSeq(env, 1, N - 1)
  <2>1. 1 \in Int /\ N - 1 \in Int /\ \A n \in 1 .. N - 1 : env[n] \in Timer \cup {0}
    BY <1>2
  <2>2. /\ s \in Seq(Timer \cup {0}) /\ Len(s) = (IF 1 <= N - 1 THEN N - 1 - 1 + 1 ELSE 0)
        /\ \A n \in 1 .. N - 1 - 1 + 1 : s[n] = env[1 + n - 1]
    <3>. HIDE DEF N
    <3>. QED
      BY <2>1, SubSeqProperties
  <2>3. Len(s) = N - 1
    <3>1. N \in Nat /\ N > 0
      BY <1>1, <1>2
    <3>. HIDE DEF s, N
    <3>. QED
      BY <2>2, <3>1
  <2>4. \A n \in 1 .. N - 1 : s[n] = env[n]
    <3>1. \A n \in 1 .. N - 1 : n \in 1 .. N - 1 - 1 + 1 /\ 1 + n - 1 = n
      BY <1>2
    <3>. HIDE DEF s
    <3>. QED
      BY <2>2, <3>1
  <2>. HIDE DEF s
  <2>. QED
    BY <2>2, <2>3, <2>4, <1>1 DEF s
<1>6. \A i \in Item : known'[i] = IF known[i] = N THEN 0 ELSE known[i]
  BY <1>1
<1>7. Marks(v, Unknown', {})
  <2>1. Unknown \subseteq Unknown'
    BY <1>1, <1>6 DEF Unknown
  <2>. QED
    BY <2>1, <1>4 DEF Marks
<1>8. TypeOK'
  <2>1. known' \in [Item -> Nat]
    BY <1>1, <1>2
  <2>2. strayed' \in BOOLEAN /\ erased' \in BOOLEAN /\ lastTimer' \in Nat /\ scene' \in Scenes
    BY <1>1, <1>4 DEF IInv, TypeOK
  <2>. QED
    BY <2>1, <2>2, <1>1, <1>2, <1>3, <1>4, <1>5 DEF TypeOK
<1>9. Environments'
  <2>1. \A i \in Item : known'[i] <= Len(env')
    <3>. SUFFICES ASSUME NEW i \in Item
                  PROVE  known'[i] <= N - 1
      BY <1>5
    <3>1. known[i] \in Nat /\ known[i] <= N
      BY <1>2 DEF IInv, Environments
    <3>. QED
      BY <3>1, <1>1, <1>2, <1>6
  <2>2. ASSUME NEW i \in Item, known'[i] > 0, v.item[i].parent = "void"
        PROVE  v.item[i].freed > 0
    <3>1. known[i] > 0 /\ Void(store, i)
      BY <2>2, <1>1, <1>3, <1>6 DEF Void
    <3>2. i \in temp \/ store.item[i].freed > 0
      BY <3>1 DEF IInv, Environments
    <3>3. CASE i \notin temp
      BY <3>2, <3>3, <1>1, <1>3
    <3>4. CASE i \in temp
      <4>1. v.item[i] = [w.item[i] EXCEPT !.freed = @ + 1]
        BY <2>2, <3>4, <1>3 DEF v, FreeTemps
      <4>2. w.item[i] \in ItemRec
        BY <1>1, KeepsStore, StoreIs
      <4>3. v.item[i].freed = w.item[i].freed + 1 /\ w.item[i].freed \in Nat
        BY <4>1, <4>2 DEF ItemRec
      <4>. QED
        BY <4>3
    <3>. QED
      BY <3>3, <3>4
  <2>. QED
    BY <2>1, <2>2, <1>4 DEF Environments, Void
<1>10. \A e \in Timer : e # env[N] => (e \in Range(env) <=> e \in Range(env'))
  <2>1. DOMAIN env = 1 .. N /\ DOMAIN env' = 1 .. N - 1
    BY <1>1, <1>2, <1>5
  <2>2. \A n \in 1 .. N : n \in 1 .. N - 1 \/ n = N
    BY <1>2
  <2>3. \A n \in 1 .. N - 1 : n \in 1 .. N
    BY <1>2
  <2>4. \A e : e \in Range(env') <=> \E n \in 1 .. N - 1 : env[n] = e
    BY <2>1, <1>5 DEF Range
  <2>5. \A e : e \in Range(env) <=> \E n \in 1 .. N : env[n] = e
    BY <2>1 DEF Range
  <2>. HIDE DEF N
  <2>. QED
    BY <2>2, <2>3, <2>4, <2>5
<1>11. Range(env') \subseteq Range(env)
  <2>1. DOMAIN env = 1 .. N /\ DOMAIN env' = 1 .. N - 1
    BY <1>1, <1>2, <1>5
  <2>. QED
    BY <2>1, <1>2, <1>5 DEF Range
<1>12. TimersAreDue'
  <2>. SUFFICES ASSUME NEW e \in Timer
                PROVE  /\ events[e].queued + events[e].posted + B(e \in Range(env')) <= 1
                       /\ e \in timers' => events[e].queued + events[e].posted + B(e \in Range(env')) = 1
    BY <1>1 DEF TimersAreDue
  <2>1. /\ events[e].queued + events[e].posted + B(e \in Range(env)) <= 1
        /\ e \in timers => events[e].queued + events[e].posted + B(e \in Range(env)) = 1
    BY DEF IInv, TimersAreDue
  <2>2. events[e].queued \in Nat /\ events[e].posted \in Nat
    BY <1>2
  <2>3. CASE e # env[N]
    <3>1. B(e \in Range(env)) = B(e \in Range(env'))
      BY <2>3, <1>10 DEF B
    <3>. QED
      BY <2>1, <3>1, <1>1
  <2>4. CASE e = env[N]
    <3>1. e \notin timers'
      BY <2>4, <1>1
    <3>2. B(e \in Range(env')) <= B(e \in Range(env)) /\ B(e \in Range(env')) \in Int /\ B(e \in Range(env)) \in Int
      BY <1>11 DEF B
    <3>. QED
      BY <2>1, <2>2, <3>1, <3>2
  <2>. QED
    BY <2>3, <2>4
<1>13. Unmade'
  <2>. SUFFICES ASSUME NEW e \in Timer, e > lastTimer
                PROVE  events[e].queued = 0 /\ events[e].posted = 0 /\ e \notin timers' /\ e \notin Range(env')
    BY <1>1 DEF Unmade
  <2>. QED
    BY <1>1, <1>11 DEF IInv, Unmade
<1>14. Clean(store)' /\ Alive(store)'
  BY <1>4 DEF Clean, Alive, Exists
<1>15. Punctual(store, {0})' /\ Marks(store, Unknown, {})' /\ Counted(store, temp, {})'
  BY <1>1, <1>4, <1>7
<1>. QED
  BY <1>4, <1>8, <1>9, <1>12, <1>13, <1>14, <1>15 DEF IInv

-----------------------------------------------------------------------------
(* Steps of timed calls. *)

LEMMA TimersAreNumbers == Timer \subseteq Nat /\ 0 \notin Timer
<1>1. \A s \in Scenes : s.timers \in Nat
  BY ScriptsAssumption
<1>. QED
  BY <1>1 DEF Timer

\* The invariant after a step that leaves items as they are.
LEMMA TimerStepKeeps ==
    ASSUME IInv, UNCHANGED <<store, scene, temp, known, strayed>>,
           env' \in Seq(Timer \cup {0}), Len(env) <= Len(env'), timers' \in SUBSET Timer, lastTimer' \in Nat,
           events' \in [Timer -> [queued : Nat, posted : Nat]], erased' \in BOOLEAN,
           TimersAreDue', Unmade'
    PROVE  IInv'
<1>1. Unknown' = Unknown
  BY DEF Unknown
<1>2. TypeOK'
  BY DEF IInv, TypeOK
<1>3. Environments'
  <2>1. ASSUME NEW i \in Item
        PROVE  known[i] <= Len(env')
    <3>1. known[i] \in Nat /\ known[i] <= Len(env) /\ Len(env) \in Nat /\ Len(env') \in Nat
      BY DEF IInv, TypeOK, Environments
    <3>. QED
      BY <3>1
  <2>. QED
    BY <2>1 DEF IInv, Environments, Void
<1>4. Clean(store)' /\ Alive(store)'
  BY DEF IInv, Clean, Alive, Exists
<1>5. Punctual(store, {0})' /\ Marks(store, Unknown, {})' /\ (~strayed => Counted(store, temp, {}))'
  BY <1>1 DEF IInv
<1>. QED
  BY <1>2, <1>3, <1>4, <1>5 DEF IInv

LEMMA BeginsKeeps ==
    ASSUME IInv, Begins
    PROVE  IInv'
<1>1. /\ env' = Append(env, 0) /\ env \in Seq(Timer \cup {0})
      /\ UNCHANGED <<store, scene, temp, known, timers, lastTimer, events, strayed, erased>>
  BY DEF Begins, IInv, TypeOK
<1>2. env' \in Seq(Timer \cup {0}) /\ Len(env') = Len(env) + 1 /\ Len(env) \in Nat
  BY <1>1
<1>3. \A e \in Timer : e \in Range(env') <=> e \in Range(env)
  <2>1. /\ DOMAIN env = 1 .. Len(env) /\ DOMAIN env' = 1 .. Len(env) + 1
        /\ \A n \in 1 .. Len(env) : env'[n] = env[n]
        /\ env'[Len(env) + 1] = 0
        /\ \A n \in 1 .. Len(env) + 1 : n \in 1 .. Len(env) \/ n = Len(env) + 1
        /\ \A n \in 1 .. Len(env) : n \in 1 .. Len(env) + 1
    BY <1>1, <1>2
  <2>2. \A e : e \in Range(env) <=> \E n \in 1 .. Len(env) : env[n] = e
    BY <2>1 DEF Range
  <2>3. \A e : e \in Range(env') <=> \E n \in 1 .. Len(env) + 1 : env'[n] = e
    BY <2>1 DEF Range
  <2>. QED
    BY <2>1, <2>2, <2>3, TimersAreNumbers
<1>4. TimersAreDue'
  <2>1. \A e \in Timer : B(e \in Range(env')) = B(e \in Range(env))
    BY <1>3 DEF B
  <2>. QED
    BY <2>1, <1>1 DEF IInv, TimersAreDue
<1>5. Unmade'
  BY <1>1, <1>3 DEF IInv, Unmade
<1>6. timers' \in SUBSET Timer /\ lastTimer' \in Nat /\ erased' \in BOOLEAN
      /\ events' \in [Timer -> [queued : Nat, posted : Nat]]
  BY <1>1 DEF IInv, TypeOK
<1>. QED
  BY <1>1, <1>2, <1>4, <1>5, <1>6, TimerStepKeeps

LEMMA AddEventKeeps ==
    ASSUME IInv, AddEvent
    PROVE  IInv'
<1>. DEFINE n == lastTimer + 1
<1>1. /\ n <= scene.timers /\ lastTimer' = n /\ timers' = timers \cup {n}
      /\ events' = [events EXCEPT ![n].queued = @ + 1]
      /\ UNCHANGED <<store, scene, env, temp, known, strayed, erased>>
  BY DEF AddEvent, NextTimer
<1>2. /\ env \in Seq(Timer \cup {0}) /\ timers \in SUBSET Timer /\ lastTimer \in Nat /\ scene \in Scenes
      /\ events \in [Timer -> [queued : Nat, posted : Nat]] /\ erased \in BOOLEAN /\ scene.timers \in Nat
  BY ScriptsAssumption DEF IInv, TypeOK
<1>3. n \in Timer
  <2>1. n \in 1 .. scene.timers
    BY <1>1, <1>2
  <2>. QED
    BY <2>1, <1>2 DEF Timer
<1>4. events[n].queued = 0 /\ events[n].posted = 0 /\ n \notin Range(env)
  <2>1. n > lastTimer
    BY <1>2
  <2>. QED
    BY <2>1, <1>3 DEF IInv, Unmade
<1>5. /\ events' \in [Timer -> [queued : Nat, posted : Nat]]
      /\ events'[n].queued = 1 /\ events'[n].posted = 0
      /\ \A e \in Timer : e # n => events'[e] = events[e]
  BY <1>1, <1>2, <1>3, <1>4
<1>. HIDE DEF n
<1>6. TimersAreDue'
  <2>. SUFFICES ASSUME NEW e \in Timer
                PROVE  /\ events'[e].queued + events'[e].posted + B(e \in Range(env)) <= 1
                       /\ e \in timers' => events'[e].queued + events'[e].posted + B(e \in Range(env)) = 1
    BY <1>1 DEF TimersAreDue
  <2>1. CASE e = n
    <3>1. B(e \in Range(env)) = 0
      BY <2>1, <1>4 DEF B
    <3>. QED
      BY <2>1, <3>1, <1>5
  <2>2. CASE e # n
    BY <2>2, <1>1, <1>5 DEF IInv, TimersAreDue
  <2>. QED
    BY <2>1, <2>2
<1>7. Unmade'
  <2>1. ASSUME NEW e \in Timer, e > n
        PROVE  events'[e].queued = 0 /\ events'[e].posted = 0 /\ e \notin timers' /\ e \notin Range(env)
    <3>1. e > lastTimer /\ e # n
      BY <2>1, <1>2, TimersAreNumbers DEF n
    <3>. QED
      BY <3>1, <1>1, <1>5 DEF IInv, Unmade
  <2>. QED
    BY <2>1, <1>1 DEF Unmade
<1>8. timers' \in SUBSET Timer /\ lastTimer' \in Nat /\ env' \in Seq(Timer \cup {0}) /\ erased' \in BOOLEAN
      /\ Len(env) <= Len(env')
  BY <1>1, <1>2, <1>3, TimersAreNumbers
<1>. QED
  BY <1>1, <1>5, <1>6, <1>7, <1>8, TimerStepKeeps

LEMMA StopEventKeeps ==
    ASSUME IInv, NEW e \in Timer, StopEvent(e)
    PROVE  IInv'
<1>1. /\ timers' = timers \ {e} /\ events' = [events EXCEPT ![e].queued = 0]
      /\ UNCHANGED <<store, scene, env, temp, known, lastTimer, strayed, erased>>
  BY DEF StopEvent
<1>2. /\ env \in Seq(Timer \cup {0}) /\ timers \in SUBSET Timer /\ lastTimer \in Nat /\ erased \in BOOLEAN
      /\ events \in [Timer -> [queued : Nat, posted : Nat]]
  BY DEF IInv, TypeOK
<1>3. /\ events' \in [Timer -> [queued : Nat, posted : Nat]]
      /\ events'[e].queued = 0 /\ events'[e].posted = events[e].posted
      /\ \A d \in Timer : d # e => events'[d] = events[d]
  BY <1>1, <1>2
<1>4. TimersAreDue'
  <2>. SUFFICES ASSUME NEW d \in Timer
                PROVE  /\ events'[d].queued + events'[d].posted + B(d \in Range(env)) <= 1
                       /\ d \in timers' => events'[d].queued + events'[d].posted + B(d \in Range(env)) = 1
    BY <1>1 DEF TimersAreDue
  <2>1. /\ events[d].queued + events[d].posted + B(d \in Range(env)) <= 1
        /\ d \in timers => events[d].queued + events[d].posted + B(d \in Range(env)) = 1
    BY DEF IInv, TimersAreDue
  <2>2. CASE d = e
    <3>1. events[d].queued \in Nat /\ events[d].posted \in Nat /\ B(d \in Range(env)) \in Int
      BY <1>2 DEF B
    <3>. QED
      BY <2>1, <2>2, <3>1, <1>1, <1>3
  <2>3. CASE d # e
    BY <2>1, <2>3, <1>1, <1>3
  <2>. QED
    BY <2>2, <2>3
<1>5. Unmade'
  <2>1. ASSUME NEW d \in Timer, d > lastTimer
        PROVE  events'[d].queued = 0 /\ events'[d].posted = 0 /\ d \notin timers' /\ d \notin Range(env)
    BY <2>1, <1>1, <1>3 DEF IInv, Unmade
  <2>. QED
    BY <2>1, <1>1 DEF Unmade
<1>6. timers' \in SUBSET Timer /\ lastTimer' \in Nat /\ env' \in Seq(Timer \cup {0}) /\ erased' \in BOOLEAN
      /\ Len(env) <= Len(env')
  BY <1>1, <1>2
<1>. QED
  BY <1>1, <1>3, <1>4, <1>5, <1>6, TimerStepKeeps

LEMMA HandsOverKeeps ==
    ASSUME IInv, NEW e \in Timer, HandsOver(e)
    PROVE  IInv'
<1>1. /\ events[e].queued > 0 /\ events' = [events EXCEPT ![e].queued = @ - 1, ![e].posted = @ + 1]
      /\ UNCHANGED <<store, scene, env, temp, known, timers, lastTimer, strayed, erased>>
  BY DEF HandsOver
<1>2. /\ env \in Seq(Timer \cup {0}) /\ timers \in SUBSET Timer /\ lastTimer \in Nat /\ erased \in BOOLEAN
      /\ events \in [Timer -> [queued : Nat, posted : Nat]]
  BY DEF IInv, TypeOK
<1>3. /\ events' \in [Timer -> [queued : Nat, posted : Nat]]
      /\ events'[e].queued = events[e].queued - 1 /\ events'[e].posted = events[e].posted + 1
      /\ \A d \in Timer : d # e => events'[d] = events[d]
  BY <1>1, <1>2
<1>4. \A d \in Timer : events'[d].queued + events'[d].posted = events[d].queued + events[d].posted
  <2>1. events[e].queued \in Nat /\ events[e].posted \in Nat
    BY <1>2
  <2>. QED
    BY <2>1, <1>3
<1>5. TimersAreDue'
  <2>1. \A d \in Timer : events'[d].queued + events'[d].posted + B(d \in Range(env))
                             = events[d].queued + events[d].posted + B(d \in Range(env))
    BY <1>4
  <2>. QED
    BY <2>1, <1>1 DEF IInv, TimersAreDue
<1>6. Unmade'
  <2>1. ~(e > lastTimer)
    BY <1>1 DEF IInv, Unmade
  <2>. QED
    BY <2>1, <1>1, <1>3 DEF IInv, Unmade
<1>7. timers' \in SUBSET Timer /\ lastTimer' \in Nat /\ env' \in Seq(Timer \cup {0}) /\ erased' \in BOOLEAN
      /\ Len(env) <= Len(env')
  BY <1>1, <1>2
<1>. QED
  BY <1>1, <1>3, <1>5, <1>6, <1>7, TimerStepKeeps

LEMMA ExecuteTimerKeeps ==
    ASSUME IInv, NEW e \in Timer, ExecuteTimer(e)
    PROVE  IInv'
<1>1. /\ Len(env) = 0 /\ events[e].posted > 0 /\ events' = [events EXCEPT ![e].posted = @ - 1]
      /\ env' = IF e \in timers THEN <<e>> ELSE env
      /\ UNCHANGED <<store, scene, temp, known, timers, lastTimer, strayed, erased>>
  BY DEF ExecuteTimer, depth
<1>2. /\ env \in Seq(Timer \cup {0}) /\ timers \in SUBSET Timer /\ lastTimer \in Nat /\ erased \in BOOLEAN
      /\ events \in [Timer -> [queued : Nat, posted : Nat]]
  BY DEF IInv, TypeOK
<1>3. /\ events' \in [Timer -> [queued : Nat, posted : Nat]]
      /\ events'[e].queued = events[e].queued /\ events'[e].posted = events[e].posted - 1
      /\ \A d \in Timer : d # e => events'[d] = events[d]
  BY <1>1, <1>2
<1>4. env = <<>> /\ Range(env) = {} /\ Range(<<e>>) = {e}
  BY <1>1, <1>2 DEF Range
<1>5. events[e].queued \in Nat /\ events[e].posted \in Nat
  BY <1>2
<1>6. /\ events[e].queued + events[e].posted <= 1
      /\ e \in timers => events[e].queued + events[e].posted = 1
  <2>1. B(e \in Range(env)) = 0
    BY <1>4 DEF B
  <2>2. /\ events[e].queued + events[e].posted + B(e \in Range(env)) <= 1
        /\ e \in timers => events[e].queued + events[e].posted + B(e \in Range(env)) = 1
    BY DEF IInv, TimersAreDue
  <2>. QED
    BY <2>1, <2>2, <1>5
<1>7. TimersAreDue'
  <2>. SUFFICES ASSUME NEW d \in Timer
                PROVE  /\ events'[d].queued + events'[d].posted + B(d \in Range(env')) <= 1
                       /\ d \in timers => events'[d].queued + events'[d].posted + B(d \in Range(env')) = 1
    BY <1>1 DEF TimersAreDue
  <2>1. CASE d # e
    <3>1. d \notin Range(env') /\ d \notin Range(env)
      BY <2>1, <1>1, <1>4
    <3>2. B(d \in Range(env')) = B(d \in Range(env))
      BY <3>1 DEF B
    <3>. QED
      BY <2>1, <3>2, <1>3 DEF IInv, TimersAreDue
  <2>2. CASE d = e /\ e \in timers
    <3>1. B(e \in Range(env')) = 1
      BY <2>2, <1>1, <1>4 DEF B
    <3>. QED
      BY <2>2, <3>1, <1>3, <1>5, <1>6
  <2>3. CASE d = e /\ e \notin timers
    <3>1. B(e \in Range(env')) = 0
      BY <2>3, <1>1, <1>4 DEF B
    <3>. QED
      BY <2>3, <3>1, <1>3, <1>5, <1>6
  <2>. QED
    BY <2>1, <2>2, <2>3
<1>8. Unmade'
  <2>1. ~(e > lastTimer)
    BY <1>1 DEF IInv, Unmade
  <2>2. \A d \in Timer : d # e => d \notin Range(env')
    BY <1>1, <1>4
  <2>. QED
    BY <2>1, <2>2, <1>1, <1>3 DEF IInv, Unmade
<1>9. /\ timers' \in SUBSET Timer /\ lastTimer' \in Nat /\ env' \in Seq(Timer \cup {0}) /\ erased' \in BOOLEAN
      /\ Len(env) <= Len(env')
  <2>. DEFINE S == Timer \cup {0}
  <2>1. env' = <<e>> \/ env' = env
    BY <1>1
  <2>2. e \in S
    OBVIOUS
  <2>3. <<e>> \in Seq(S)
    <3>. HIDE DEF S
    <3>. QED
      BY <2>2
  <2>4. env' \in Seq(S)
    BY <2>1, <2>3, <1>2
  <2>5. Len(env') \in Nat
    <3>. HIDE DEF S
    <3>. QED
      BY <2>4
  <2>6. Len(env) <= Len(env')
    BY <2>5, <1>1
  <2>. QED
    BY <2>4, <2>6, <1>1, <1>2
<1>. QED
  BY <1>1, <1>3, <1>7, <1>8, <1>9, TimerStepKeeps

LEMMA ReloadKeeps ==
    ASSUME IInv, Reload
    PROVE  IInv'
<1>1. timers' = {} /\ UNCHANGED <<store, scene, env, temp, known, lastTimer, events, strayed, erased>>
  BY DEF Reload
<1>2. TimersAreDue' /\ Unmade'
  BY <1>1 DEF IInv, TimersAreDue, Unmade
<1>3. /\ env' \in Seq(Timer \cup {0}) /\ lastTimer' \in Nat /\ erased' \in BOOLEAN /\ Len(env) <= Len(env')
      /\ events' \in [Timer -> [queued : Nat, posted : Nat]]
  BY <1>1 DEF IInv, TypeOK
<1>. QED
  BY <1>1, <1>2, <1>3, TimerStepKeeps

-----------------------------------------------------------------------------
(* The invariant holds. *)

LEMMA InvariantInit == Init => IInv
<1>. SUFFICES ASSUME Init
              PROVE  IInv
  OBVIOUS
<1>. DEFINE w == store
<1>1. /\ w = [item |-> [i \in Item |-> Absent], list |-> [k \in 0 .. New |-> <<>>],
              ends |-> {}, torn |-> FALSE, full |-> FALSE]
      /\ scene \in Scenes /\ env = <<>> /\ temp = {} /\ known = [i \in Item |-> 0]
      /\ timers = {} /\ lastTimer = 0 /\ events = [e \in Timer |-> [queued |-> 0, posted |-> 0]]
      /\ strayed = FALSE /\ erased = FALSE
  BY DEF Init, ItemsInit
<1>2. /\ w \in Store /\ \A i \in Item : w.item[i] = Absent
      /\ \A k \in 0 .. New : w.list[k] = <<>>
      /\ w.ends = {} /\ w.torn = FALSE /\ w.full = FALSE
  <2>1. Absent \in ItemRec
    BY DEF Absent, ItemRec
  <2>2. <<>> \in Seq(Item)
    OBVIOUS
  <2>. QED
    BY <1>1, <2>1, <2>2 DEF Store
<1>. HIDE DEF w
<1>3. \A i : Many(w, i) = 0 /\ ~Listed(w, i) /\ \A k \in 0 .. New : ~In(w, k, i)
  <2>. SUFFICES ASSUME NEW i
                PROVE  Many(w, i) = 0 /\ ~Listed(w, i) /\ \A k \in 0 .. New : ~In(w, k, i)
    OBVIOUS
  <2>1. Len(<<>>) = 0 /\ 1 .. 0 = {}
    OBVIOUS
  <2>2. \A k \in 0 .. New : ~In(w, k, i)
    BY <2>1, <1>2 DEF In
  <2>3. ~Listed(w, i) /\ ~(Many(w, i) > 0) /\ Many(w, i) \in Nat
    BY <2>2, <1>2, EntriesAreFinite
  <2>. QED
    BY <2>2, <2>3
<1>4. \A i \in Item : /\ ~Exists(w, i) /\ ~Placed(w, i) /\ ~Void(w, i) /\ w.item[i].parent = None
                      /\ w.item[i].refs = 0 /\ w.item[i].freed = 0 /\ w.item[i].left = None
                      /\ w.item[i].marked = FALSE
  BY <1>2, ConstantsApart DEF Exists, Placed, Void, Absent
<1>5. Clean(w) /\ Alive(w) /\ Marks(w, Unknown, {}) /\ Punctual(w, {0})
  BY <1>2, <1>4, ConstantsApart DEF Clean, Alive, Marks, Punctual
<1>6. Counted(w, temp, {})
  <2>1. \A i \in Item : B(Placed(w, i)) = 0 /\ B(i \in temp /\ Void(w, i)) = 0 /\ B(i \in {}) = 0
    BY <1>4 DEF B
  <2>. QED
    BY <2>1, <1>3, <1>4 DEF Counted
<1>7. TypeOK
  <2>1. events \in [Timer -> [queued : Nat, posted : Nat]]
    BY <1>1
  <2>2. env \in Seq(Timer \cup {0})
    BY <1>1
  <2>. QED
    BY <2>1, <2>2, <1>1, <1>2 DEF TypeOK, w
<1>8. Environments /\ TimersAreDue /\ Unmade
  <2>1. Range(env) = {} /\ Len(env) = 0
    BY <1>1 DEF Range
  <2>2. \A e \in Timer : events[e].queued = 0 /\ events[e].posted = 0 /\ e \notin timers /\ B(e \in Range(env)) = 0
    BY <2>1, <1>1 DEF B
  <2>. QED
    BY <2>1, <2>2, <1>1 DEF Environments, TimersAreDue, Unmade
<1>9. w.list[0] = <<>>
  BY <1>2, ListNumbers
<1>. QED
  BY <1>2, <1>5, <1>6, <1>7, <1>8, <1>9 DEF IInv, w

\* Where an execution goes on, no item strayed.
LEMMA InvariantNext == IInv /\ [Next]_vars => IInv'
<1>. SUFFICES ASSUME IInv, [Next]_vars
              PROVE  IInv'
  OBVIOUS
<1>1. CASE UNCHANGED vars
  <2>1. /\ UNCHANGED <<store, scene, env, temp, known, timers, lastTimer, events, strayed, erased>>
        /\ env' \in Seq(Timer \cup {0}) /\ Len(env) <= Len(env') /\ timers' \in SUBSET Timer /\ lastTimer' \in Nat
        /\ events' \in [Timer -> [queued : Nat, posted : Nat]] /\ erased' \in BOOLEAN
    BY <1>1 DEF vars, scriptVars, IInv, TypeOK
  <2>2. TimersAreDue' /\ Unmade'
    BY <2>1 DEF IInv, TimersAreDue, Unmade
  <2>. QED
    BY <2>1, <2>2, TimerStepKeeps
<1>2. CASE ~strayed /\ Begins
  BY <1>2, BeginsKeeps
<1>3. CASE ~strayed /\ Ends
  BY <1>3, EndsKeeps
<1>4. CASE ~strayed /\ ScriptStep
  <2>1. PICK i \in Item : \/ \E t \in Type : CreatesItem(t) \/ Transforms(i, t)
                          \/ \E p \in {"floor"} \cup Item : AddsItem(i, p)
                          \/ StartsDecay(i)
    BY <1>4 DEF ScriptStep
  <2>. QED
    BY <2>1, <1>4, CreatesItemKeeps, TransformsKeeps, AddsItemKeeps, StartsDecayKeeps
<1>5. CASE ~strayed /\ depth = 0 /\ ItemStep /\ UNCHANGED scriptVars
  <2>1. PICK i \in Item : \/ \E t \in Type : Appears(t, "floor") \/ Appears(t, i) \/ Equips(i, t) \/ DeEquips(i, t)
                          \/ \E p \in {"floor"} \cup Item : Moves(i, p)
                          \/ Removes(i)
    BY <1>5 DEF ItemStep
  <2>. QED
    BY <2>1, <1>5, AppearsKeeps, EquipsKeeps, DeEquipsKeeps, MovesKeeps, RemovesKeeps
<1>6. CASE ~strayed /\ depth = 0 /\ CheckDecay /\ UNCHANGED scriptVars
  BY <1>6, CheckDecayKeeps
<1>7. CASE ~strayed /\ depth = 0 /\ CheckCreatures /\ UNCHANGED scriptVars
  BY <1>7, CheckCreaturesKeeps
<1>8. CASE ~strayed /\ TimerStep
  BY <1>8, AddEventKeeps, ReloadKeeps, StopEventKeeps, HandsOverKeeps, ExecuteTimerKeeps DEF TimerStep
<1>. QED
  BY <1>1, <1>2, <1>3, <1>4, <1>5, <1>6, <1>7, <1>8 DEF Next

THEOREM InvariantHolds == Spec => []IInv
BY InvariantInit, InvariantNext, PTL DEF Spec

\* What scripts and items keep has its type (luascript.h, item.h, game.h): durations
\* and numbers of references to give up never go below zero, nor does an id.
THEOREM TypesHold == Spec => []TypeOK
<1>1. IInv => TypeOK
  BY DEF IInv
<1>. QED
  BY <1>1, InvariantHolds, PTL

\* An item's count is that of the references to it, through moves, decay passes,
\* replacements and the deletion of whole containers (Thing::unRef, Game::cleanup,
\* ~Container): nobody's item is deleted, and none is kept that nobody has.
THEOREM CountsHold == Spec => []ItemsAreCounted
<1>1. IInv => ItemsAreCounted
  <2>. SUFFICES ASSUME IInv, ~strayed, NEW i \in Item
                PROVE  /\ ~store.torn
                       /\ store.item[i].refs = B(store.item[i].parent \notin {None, "void"})
                                               + B(i \in temp /\ store.item[i].parent = "void")
                                               + Cardinality(Entries(store, i)) + store.item[i].freed
                       /\ Exists(store, i) <=> store.item[i].refs > 0
                       /\ store.item[i].parent \in Item => Exists(store, store.item[i].parent)
    BY DEF ItemsAreCounted, IInv, Clean
  <2>1. store \in Store /\ Clean(store) /\ Alive(store) /\ Counted(store, temp, {})
    BY DEF IInv, TypeOK
  <2>. DEFINE a == B(Placed(store, i))
              b == B(i \in temp /\ Void(store, i))
              m == Many(store, i)
  <2>2. store.item[i].refs = a + b + m + store.item[i].freed + B(i \in {})
    BY <2>1 DEF Counted
  <2>3. a \in Int /\ b \in Int /\ m \in Int /\ store.item[i].freed \in Int /\ B(i \in {}) = 0
    BY <2>1, EntriesAreFinite, ParentIs, RecordIs DEF B
  <2>4. /\ a = B(store.item[i].parent \notin {None, "void"})
        /\ b = B(i \in temp /\ store.item[i].parent = "void")
        /\ m = Cardinality(Entries(store, i))
    BY DEF Placed, Void, Many
  <2>. HIDE DEF a, b, m
  <2>5. store.item[i].refs = a + b + m + store.item[i].freed
    BY <2>2, <2>3
  <2>6. ~Exists(store, i) => store.item[i].refs = 0
    BY <2>1 DEF Clean, Absent
  <2>7. Exists(store, i) => store.item[i].refs > 0
    BY <2>1 DEF Alive
  <2>. QED
    BY <2>1, <2>4, <2>5, <2>6, <2>7 DEF Clean
<1>. QED
  BY <1>1, InvariantHolds, PTL

\* An item in the game that is marked as decaying is in a list (Game::startDecay
\* passes over what is marked): none is left to stay for ever.
THEOREM MarksHold == Spec => []MarkedAreListed
<1>1. IInv => MarkedAreListed
  <2>. SUFFICES ASSUME IInv, NEW i \in Item, InGame(store, i), store.item[i].marked, store.item[i].parent # "void",
                       ~Listed(store, i), ~Stuck(store.item[i])
                PROVE  FALSE
    BY DEF MarkedAreListed
  <2>1. store.item[i].parent # None
    BY InGameExists
  <2>2. store.full \/ store.item[i].parent = None \/ Void(store, i)
    BY DEF IInv, Marks
  <2>. QED
    BY <2>1, <2>2 DEF IInv, Void
<1>. QED
  BY <1>1, InvariantHolds, PTL

\* Through whatever buckets (Game::checkDecay, Game::cleanup), an item decays
\* with the pass that its time says or one of the next two.
THEOREM DatesHold == Spec => []OnTime
<1>1. IInv => OnTime
  BY DEF IInv, Punctual, OnTime
<1>. QED
  BY <1>1, InvariantHolds, PTL

\* A timed call in the table has one event to come or is running
\* (LuaScriptInterface::luaAddEvent, luaStopEvent, executeTimer, reInitState).
THEOREM TimersHold == Spec => []TimersAreDue
<1>1. IInv => TimersAreDue
  BY DEF IInv
<1>. QED
  BY <1>1, InvariantHolds, PTL
=============================================================================
