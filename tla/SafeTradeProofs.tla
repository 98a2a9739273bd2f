--------------------------- MODULE SafeTradeProofs ---------------------------
(***************************************************************************)
(* Proofs about the safe trade, for any number of players, items, bags and *)
(* houses, and bags of any depth.                                          *)
(*                                                                         *)
(* The first part is about bags in bags: what lies where is a function,    *)
(* before and after items are moved.  Nothing here is induction: the bags  *)
(* an item is in are the least set that has them all, so a set shown to    *)
(* have them has no fewer.                                                 *)
(***************************************************************************)
EXTENDS SafeTrade, TLAPS

-----------------------------------------------------------------------------
(* Bags in bags. *)

\* The bags an item is in, when f says where the items are.
In(f, i) ==
    {b \in Bag : \A S \in SUBSET Bag :
                     (\A j \in S \cup {i} : f[j] \in Bag => f[j] \in S) => b \in S}

\* They are the model's, in this state and in the next.
LEMMA BagsOfIsIn ==
    \A i : BagsOf(i) = In(place, i) /\ BagsOf(i)' = In(place', i)
BY DEF BagsOf, HasBagsOf, In

\* They are bags, and with an item's bag they have the bag of that bag.
LEMMA InIsClosed ==
    ASSUME NEW f, NEW i
    PROVE  /\ In(f, i) \subseteq Bag
           /\ \A j \in In(f, i) \cup {i} : f[j] \in Bag => f[j] \in In(f, i)
BY DEF In

\* They are in every set of bags that has an item's bag with the item.
LEMMA InIsLeast ==
    ASSUME NEW f, NEW i, NEW S \in SUBSET Bag,
           \A j \in S \cup {i} : f[j] \in Bag => f[j] \in S
    PROVE  In(f, i) \subseteq S
BY DEF In

\* A bag around an item is in no bag that the item is not in.
LEMMA InIsTransitive ==
    ASSUME NEW f, NEW i, NEW j \in In(f, i)
    PROVE  In(f, j) \subseteq In(f, i)
<1>1. In(f, i) \in SUBSET Bag /\ \A k \in In(f, i) \cup {j} : f[k] \in Bag => f[k] \in In(f, i)
  BY InIsClosed
<1>. QED
  BY <1>1, InIsLeast

\* An item is in the bag it lies in, and in the bags that one is in.
LEMMA InByStep ==
    ASSUME NEW f, NEW i
    PROVE  /\ f[i] \notin Bag => In(f, i) = {}
           /\ f[i] \in Bag => In(f, i) = {f[i]} \cup In(f, f[i])
<1>1. ASSUME f[i] \notin Bag
      PROVE  In(f, i) = {}
  <2>1. PICK S \in SUBSET Bag : S = {}
    OBVIOUS
  <2>2. \A j \in S \cup {i} : f[j] \in Bag => f[j] \in S
    BY <1>1, <2>1
  <2>3. In(f, i) \subseteq S
    BY <2>2, InIsLeast
  <2>. QED
    BY <2>1, <2>3
<1>2. ASSUME f[i] \in Bag
      PROVE  In(f, i) = {f[i]} \cup In(f, f[i])
  <2>. DEFINE S == {f[i]} \cup In(f, f[i])
  <2>1. In(f, f[i]) \subseteq Bag /\ \A j \in In(f, f[i]) \cup {f[i]} : f[j] \in Bag => f[j] \in In(f, f[i])
    BY InIsClosed
  <2>2. S \in SUBSET Bag /\ \A j \in S \cup {i} : f[j] \in Bag => f[j] \in S
    BY <1>2, <2>1
  <2>3. In(f, i) \subseteq S
    <3>. HIDE DEF S
    <3>. QED  BY <2>2, InIsLeast
  <2>4. f[i] \in In(f, i)
    BY <1>2, InIsClosed
  <2>5. In(f, f[i]) \subseteq In(f, i)
    BY <2>4, InIsTransitive
  <2>. QED
    BY <2>3, <2>4, <2>5
<1>. QED
  BY <1>1, <1>2

\* Of two bags around an item, one is in the other.
LEMMA InIsLinear ==
    ASSUME NEW f, NEW i, NEW s \in In(f, i), NEW t \in In(f, i), s # t
    PROVE  s \in In(f, t) \/ t \in In(f, s)
<1>. DEFINE S == {b \in Bag : b = t \/ t \in In(f, b) \/ b \in In(f, t)}
<1>1. ASSUME NEW k, f[k] \in Bag, t \in In(f, k)
      PROVE  f[k] \in S
  BY <1>1, InByStep
<1>2. ASSUME NEW k, f[k] \in Bag, k = t \/ k \in In(f, t)
      PROVE  f[k] \in S
  BY <1>2, InIsClosed
<1>3. \A k \in S \cup {i} : f[k] \in Bag => f[k] \in S
  <2>. HIDE DEF S
  <2>1. \A k \in S : k = t \/ t \in In(f, k) \/ k \in In(f, t)
    BY DEF S
  <2>. QED
    BY <1>1, <1>2, <2>1
<1>4. In(f, i) \subseteq S
  <2>1. S \in SUBSET Bag
    OBVIOUS
  <2>. HIDE DEF S
  <2>. QED  BY <1>3, <2>1, InIsLeast
<1>. QED
  BY <1>4

\* An item ends up in one place that is not a bag.
LEMMA OneTop ==
    ASSUME NEW f, NEW i, NEW j \in {i} \cup In(f, i), NEW k \in {i} \cup In(f, i),
           f[j] \notin Bag, f[k] \notin Bag
    PROVE  f[j] = f[k]
<1>1. In(f, j) = {} /\ In(f, k) = {}
  BY InByStep
<1>2. j # k => FALSE
  BY <1>1, InIsLinear
<1>. QED
  BY <1>2

-----------------------------------------------------------------------------
(* Moves. *)

\* The items of M move, from where f says to where g says: into no bag that
\* moves itself, nor into one inside such a bag.
Moves(f, g, M) ==
    /\ M \subseteq Item
    /\ \A j \in Item \ M : g[j] = f[j]
    /\ \A m \in M : g[m] \in Bag => g[m] \notin M /\ In(f, g[m]) \cap M = {}

\* No bag is in itself.
Rooted(f) == \A b \in Bag : b \notin In(f, b)

\* What neither moves nor is in a bag that moves stays where it is.
LEMMA PathsStay ==
    ASSUME NEW f, NEW g, NEW M, Moves(f, g, M),
           NEW i \in Item \ M, In(f, i) \cap M = {}
    PROVE  In(g, i) = In(f, i)
<1>. DEFINE S == In(f, i) \cap In(g, i)
<1>1. Bag \subseteq Item
  BY TradeAssumption
<1>2. /\ In(f, i) \subseteq Bag /\ In(g, i) \subseteq Bag
      /\ \A j \in In(f, i) \cup {i} : f[j] \in Bag => f[j] \in In(f, i)
      /\ \A j \in In(g, i) \cup {i} : g[j] \in Bag => g[j] \in In(g, i)
  BY InIsClosed
<1>3. \A j \in In(f, i) \cup {i} : g[j] = f[j]
  BY <1>1, <1>2 DEF Moves
<1>4. In(g, i) \subseteq In(f, i)
  <2>1. In(f, i) \in SUBSET Bag /\ \A j \in In(f, i) \cup {i} : g[j] \in Bag => g[j] \in In(f, i)
    BY <1>2, <1>3
  <2>. QED  BY <2>1, InIsLeast
<1>5. In(f, i) \subseteq S
  <2>1. S \in SUBSET Bag /\ \A j \in S \cup {i} : f[j] \in Bag => f[j] \in S
    BY <1>2, <1>3
  <2>. HIDE DEF S
  <2>. QED  BY <2>1, InIsLeast
<1>. QED
  BY <1>4, <1>5

\* The bags a moved item is in afterwards do not move.
LEMMA NewPathsStay ==
    ASSUME NEW f, NEW g, NEW M, Moves(f, g, M), NEW m \in M
    PROVE  In(g, m) = IF g[m] \in Bag THEN {g[m]} \cup In(f, g[m]) ELSE {}
<1>1. Bag \subseteq Item
  BY TradeAssumption
<1>2. ASSUME g[m] \in Bag
      PROVE  In(g, g[m]) = In(f, g[m])
  <2>1. g[m] \in Item \ M /\ In(f, g[m]) \cap M = {}
    BY <1>1, <1>2 DEF Moves
  <2>. QED  BY <2>1, PathsStay
<1>. QED
  BY <1>2, InByStep

\* Moves put no bag into itself.
LEMMA MovesKeepRoots ==
    ASSUME NEW f, NEW g, NEW M, Moves(f, g, M), Rooted(f)
    PROVE  Rooted(g)
<1>. SUFFICES ASSUME NEW b \in Bag
              PROVE  b \notin In(g, b)
  BY DEF Rooted
<1>1. b \in Item /\ b \notin In(f, b)
  BY TradeAssumption DEF Rooted
<1>2. CASE b \in M
  BY <1>2, NewPathsStay DEF Moves
<1>3. CASE b \notin M
  <2>. DEFINE New(m) == {x \in Bag : g[m] \in Bag /\ (x = g[m] \/ x \in In(f, g[m]))}
              S == {x \in Bag : x \in In(f, b) \/ \E m \in M \cap In(f, b) : x \in New(m)}
  <2>1. ASSUME NEW m \in M \cap In(f, b)
        PROVE  b \notin New(m)
    <3>. SUFFICES ASSUME g[m] \in Bag, b = g[m] \/ b \in In(f, g[m])
                  PROVE  FALSE
      OBVIOUS
    <3>1. In(f, b) \subseteq In(f, g[m])
      BY InIsTransitive
    <3>. QED
      BY <3>1 DEF Moves
  <2>2. ASSUME NEW k \in In(f, b) \cup {b}, g[k] \in Bag
        PROVE  g[k] \in S
    <3>1. k \in Item
      BY <1>1, InIsClosed, TradeAssumption
    <3>2. CASE k \in M
      BY <1>3, <2>2, <3>2
    <3>3. CASE k \notin M
      BY <2>2, <3>1, <3>3, InIsClosed DEF Moves
    <3>. QED
      BY <3>2, <3>3
  <2>3. ASSUME NEW m \in M \cap In(f, b), NEW k \in New(m), g[k] \in Bag
        PROVE  g[k] \in New(m)
    <3>1. k \in Item \ M
      BY <2>3, TradeAssumption DEF Moves
    <3>2. g[k] = f[k]
      BY <3>1 DEF Moves
    <3>. QED
      BY <2>3, <3>2, InIsClosed
  <2>4. In(g, b) \subseteq S
    <3>1. \A k \in S \cup {b} : g[k] \in Bag => g[k] \in S
      <4>. SUFFICES ASSUME NEW k \in S \cup {b}, g[k] \in Bag
                    PROVE  g[k] \in S
        OBVIOUS
      <4>1. CASE k \in In(f, b) \cup {b}
        BY <2>2, <4>1
      <4>2. CASE k \notin In(f, b) \cup {b}
        <5>1. PICK m \in M \cap In(f, b) : k \in New(m)
          BY <4>2
        <5>2. g[k] \in New(m)
          <6>. HIDE DEF New
          <6>. QED  BY <2>3, <5>1
        <5>. QED
          BY <5>2
      <4>. QED
        BY <4>1, <4>2
    <3>2. S \in SUBSET Bag
      OBVIOUS
    <3>. HIDE DEF S
    <3>. QED  BY <3>1, <3>2, InIsLeast
  <2>5. b \notin S
    <3>. HIDE DEF New
    <3>. QED  BY <1>1, <2>1
  <2>. QED
    BY <2>4, <2>5
<1>. QED
  BY <1>2, <1>3

\* A bag that does not move holds what it held, unless what moves leaves it or
\* is put into it.
LEMMA ContentsStay ==
    ASSUME NEW f, NEW g, NEW M, Moves(f, g, M), NEW t, t \notin M,
           \A m \in M : t \notin In(f, m),
           \A m \in M : g[m] \in Bag => t # g[m] /\ t \notin In(f, g[m]),
           NEW i \in Item
    PROVE  t \in In(g, i) <=> t \in In(f, i)
<1>1. Bag \subseteq Item
  BY TradeAssumption
<1>2. ASSUME t \notin In(f, i)
      PROVE  t \notin In(g, i)
  <2>. DEFINE S == {x \in Bag : x # t /\ t \notin In(f, x)}
  <2>1. ASSUME NEW k \in S \cup {i}, g[k] \in Bag
        PROVE  g[k] \in S
    <3>1. k \in Item /\ t \notin In(f, k)
      BY <1>1, <1>2
    <3>2. CASE k \in M
      BY <2>1, <3>2
    <3>3. CASE k \notin M
      <4>1. g[k] = f[k]
        BY <3>1, <3>3 DEF Moves
      <4>2. In(f, k) = {f[k]} \cup In(f, f[k])
        BY <2>1, <4>1, InByStep
      <4>. QED
        BY <2>1, <3>1, <4>1, <4>2
    <3>. QED
      BY <3>2, <3>3
  <2>2. In(g, i) \subseteq S
    <3>1. S \in SUBSET Bag
      OBVIOUS
    <3>. HIDE DEF S
    <3>. QED  BY <2>1, <3>1, InIsLeast
  <2>. QED
    BY <2>2
<1>3. ASSUME t \in In(f, i), t \notin In(g, i)
      PROVE  FALSE
  <2>. DEFINE S == {x \in Bag : x # t /\ (t \in In(f, x) => x \in In(g, i))}
  <2>1. ASSUME NEW k \in S \cup {i}, f[k] \in Bag
        PROVE  f[k] \in S
    <3>1. k \in Item /\ (t \in In(f, k) => k \in In(g, i) \cup {i})
      BY <1>1
    <3>2. CASE t \notin In(f, k)
      BY <2>1, <3>2, InByStep
    <3>3. CASE t \in In(f, k)
      <4>1. k \in Item \ M /\ k \in In(g, i) \cup {i}
        <5>. HIDE DEF S
        <5>. QED  BY <3>1, <3>3
      <4>2. g[k] = f[k]
        BY <4>1 DEF Moves
      <4>3. f[k] \in In(g, i)
        BY <2>1, <4>1, <4>2, InIsClosed
      <4>. QED
        BY <1>3, <2>1, <4>3
    <3>. QED
      BY <3>2, <3>3
  <2>2. In(f, i) \subseteq S
    <3>1. S \in SUBSET Bag
      OBVIOUS
    <3>. HIDE DEF S
    <3>. QED  BY <2>1, <3>1, InIsLeast
  <2>. QED
    BY <1>3, <2>2
<1>. QED
  BY <1>2, <1>3

-----------------------------------------------------------------------------
(* What is offered, as it lies before and after a step. *)

ContentsIn(f, t) == {t} \cup {i \in Item : t \in In(f, i)}

ReachesIn(f, p, i) == ({i} \cup In(f, i) \cup {f[j] : j \in {i} \cup In(f, i)}) \cap {p, Ground} # {}

\* PromisedOnce of the offers o, listed in T.
Once(f, o, T) ==
    /\ T = {o[p] : p \in Player} \ {NoItem}
    /\ \A p, q \in Player : p # q /\ NoItem \notin {o[p], o[q]}
           => ContentsIn(f, o[p]) \cap ContentsIn(f, o[q]) = {}

\* OfferIsIntact of the offers o, shown as w.
Intact(f, o, w) ==
    \A p \in Player : o[p] \in Item => ContentsIn(f, o[p]) = w[p] /\ ReachesIn(f, p, o[p])

LEMMA ContentsAreIn ==
    \A t : Contents(t) = ContentsIn(place, t)
BY BagsOfIsIn DEF Contents, Holds, ContentsIn

LEMMA ReachesIsIn ==
    \A p, i : Reaches(p, i) <=> ReachesIn(place, p, i)
BY BagsOfIsIn DEF Reaches, Above, ReachesIn

LEMMA PromisedOnceIsOnce ==
    /\ PromisedOnce <=> Once(place, tradeItem, tradeItems)
    /\ PromisedOnce' <=> Once(place', tradeItem', tradeItems')
<1>1. /\ tradeItems = Offers <=> tradeItems = {tradeItem[p] : p \in Player} \ {NoItem}
      /\ (tradeItems = Offers)' <=> tradeItems' = {tradeItem'[p] : p \in Player} \ {NoItem}
  BY DEF Offers
<1>2. \A p, q \in Player :
         /\ Contents(tradeItem[p]) = ContentsIn(place, tradeItem[p])
         /\ (Contents(tradeItem[p]) \cap Contents(tradeItem[q]) = {})'
               <=> ContentsIn(place', tradeItem'[p]) \cap ContentsIn(place', tradeItem'[q]) = {}
  BY DEF Contents, Holds, BagsOf, HasBagsOf, ContentsIn, In
<1>. QED
  BY <1>1, <1>2 DEF PromisedOnce, Once

LEMMA OfferIsIntactIsIntact ==
    /\ OfferIsIntact <=> Intact(place, tradeItem, promise)
    /\ OfferIsIntact' <=> Intact(place', tradeItem', promise')
BY DEF OfferIsIntact, Contents, Holds, Reaches, Above, BagsOf, HasBagsOf,
       Intact, ContentsIn, ReachesIn, In

-----------------------------------------------------------------------------
(* How a trade starts and ends, player by player. *)

\* A document is offered by the player it was made for.
OwnDocuments == \A p, q \in Player : tradeItem[p] = Document(q) => p = q

\* Distinct players, distinct offers.
Distinct(o) == \A p, q \in Player : p # q /\ o[p] = o[q] => o[p] = NoItem

IInv ==
    /\ TypeOK
    /\ PartnersAgree
    /\ PromisedOnce
    /\ RefsReturned
    /\ OfferIsIntact
    /\ OwnDocuments
    /\ Rooted(place)

\* The trades of the players of B end, and no other.
Ends(B) ==
    /\ B \subseteq Player
    /\ \A p \in B : tradePartner[p] \in B
    /\ \A p \in Player \ B : tradePartner[p] \notin B
    /\ \A p \in B : /\ tradeState'[p] = "none" /\ tradePartner'[p] = NoPlayer
                    /\ tradeItem'[p] = NoItem /\ promise'[p] = {}
    /\ \A p \in Player \ B : /\ tradeState'[p] = tradeState[p]
                             /\ tradePartner'[p] = tradePartner[p]
                             /\ tradeItem'[p] = tradeItem[p] /\ promise'[p] = promise[p]
    /\ tradeItems' = tradeItems \ {tradeItem[p] : p \in B}

\* p offers t to q, who may have made an offer before.
Starts(p, q, t) ==
    /\ tradeState'[p] = "initiated" /\ tradePartner'[p] = q
    /\ tradeItem'[p] = t /\ promise'[p] = Contents(t)
    /\ tradeState[q] = "none" => tradeState'[q] = "acknowledge" /\ tradePartner'[q] = p
    /\ tradeState[q] # "none" => tradeState'[q] = tradeState[q] /\ tradePartner'[q] = tradePartner[q]
    /\ tradeItem'[q] = tradeItem[q] /\ promise'[q] = promise[q]
    /\ \A r \in Player \ {p, q} : /\ tradeState'[r] = tradeState[r]
                                  /\ tradePartner'[r] = tradePartner[r]
                                  /\ tradeItem'[r] = tradeItem[r] /\ promise'[r] = promise[r]
    /\ tradeItems' = tradeItems \cup {t}

LEMMA ThingsAreApart ==
    /\ \A p \in Player : Document(p) \in Thing /\ Document(p) \notin Item
    /\ NoItem \notin Thing
    /\ \A t \in Thing \ Item : \E p \in Player : t = Document(p)
    /\ \A p, q \in Player : Document(p) = Document(q) => p = q
BY TradeAssumption, DocumentAssumption DEF Thing, Documents, Document

LEMMA OnceIsDistinct ==
    ASSUME NEW f, NEW o, NEW T, Once(f, o, T)
    PROVE  Distinct(o)
BY DEF Once, Distinct, ContentsIn

\* Both sides of a trade end it.
LEMMA CloseEnds ==
    ASSUME TypeOK, PartnersAgree,
           NEW S \in SUBSET Player, \A p \in S : tradePartner[p] # NoPlayer,
           CloseTrades(S)
    PROVE  Ends(BothSides(S))
<1>. DEFINE B == BothSides(S)
<1>1. B \subseteq Player
  BY DEF TypeOK, BothSides
<1>2. \A p \in Player : tradePartner[p] # NoPlayer =>
         tradePartner[p] \in Player /\ tradePartner[tradePartner[p]] = p
  BY DEF TypeOK, PartnersAgree
<1>3. NoPlayer \notin Player
  BY TradeAssumption
<1>4. \A p \in Player : p \in B => tradePartner[p] \in B
  BY <1>2 DEF BothSides
<1>5. \A p \in Player : tradePartner[p] \in B => p \in B
  BY <1>1, <1>2, <1>3, <1>4
<1>6. \A p \in B : /\ tradeState'[p] = "none" /\ tradePartner'[p] = NoPlayer
                   /\ tradeItem'[p] = NoItem /\ promise'[p] = {}
  BY <1>1 DEF CloseTrades
<1>7. \A p \in Player \ B : /\ tradeState'[p] = tradeState[p]
                            /\ tradePartner'[p] = tradePartner[p]
                            /\ tradeItem'[p] = tradeItem[p] /\ promise'[p] = promise[p]
  BY DEF CloseTrades
<1>8. tradeItems' = tradeItems \ {tradeItem[p] : p \in B}
  <2>1. {tradeItem[p] : p \in Player \cap B} = {tradeItem[p] : p \in B}
    BY <1>1
  <2>. QED  BY <2>1 DEF CloseTrades
<1>. QED
  <2>. HIDE DEF B
  <2>1. Ends(B)
    BY <1>1, <1>4, <1>5, <1>6, <1>7, <1>8 DEF Ends
  <2>. QED  BY <2>1 DEF B

LEMMA StartStarts ==
    ASSUME TypeOK, NEW p \in Player, NEW q \in Player \ {p}, NEW t, StartTrade(p, q, t)
    PROVE  Starts(p, q, t)
<1>1. /\ tradeState'[p] = "initiated"
      /\ tradeState[q] = "none" => tradeState'[q] = "acknowledge"
      /\ tradeState[q] # "none" => tradeState'[q] = tradeState[q]
      /\ \A r \in Player \ {p, q} : tradeState'[r] = tradeState[r]
  BY DEF TypeOK, StartTrade
<1>2. /\ tradePartner'[p] = q
      /\ tradeState[q] = "none" => tradePartner'[q] = p
      /\ tradeState[q] # "none" => tradePartner'[q] = tradePartner[q]
      /\ \A r \in Player \ {p, q} : tradePartner'[r] = tradePartner[r]
  BY DEF TypeOK, StartTrade
<1>3. /\ tradeItem'[p] = t /\ promise'[p] = Contents(t)
      /\ \A r \in Player \ {p} : tradeItem'[r] = tradeItem[r] /\ promise'[r] = promise[r]
      /\ tradeItems' = tradeItems \cup {t}
  BY DEF TypeOK, StartTrade
<1>. QED
  BY <1>1, <1>2, <1>3 DEF Starts

-----------------------------------------------------------------------------
(* The two sides of a trade. *)

LEMMA EndsKeepAgreement ==
    ASSUME TypeOK, PartnersAgree, NEW B, Ends(B),
           \A p \in Player \ B : p \in online /\ tradePartner[p] # NoPlayer => p \in online'
    PROVE  PartnersAgree'
<1>. SUFFICES ASSUME NEW p \in Player
              PROVE  LET q == tradePartner'[p]
                     IN  IF q = NoPlayer
                         THEN tradeState'[p] = "none" /\ tradeItem'[p] = NoItem
                         ELSE /\ {p, q} \subseteq online' /\ q # p /\ tradePartner'[q] = p
                              /\ tradeState'[p] # "none"
                              /\ tradeState'[p] = "initiated" => tradeItem'[p] # NoItem
                              /\ tradeState'[p] = "acknowledge" => tradeItem'[p] = NoItem
                              /\ {tradeItem'[p], tradeItem'[q]} # {NoItem}
  BY DEF PartnersAgree
<1>1. CASE p \in B
  BY <1>1 DEF Ends
<1>2. CASE p \notin B /\ tradePartner[p] = NoPlayer
  BY <1>2 DEF Ends, PartnersAgree
<1>3. CASE p \notin B /\ tradePartner[p] # NoPlayer
  <2>. DEFINE q == tradePartner[p]
  <2>1. q \in Player \ B /\ q # NoPlayer
    BY <1>3 DEF Ends, TypeOK
  <2>2. /\ tradeState'[p] = tradeState[p] /\ tradePartner'[p] = q /\ tradeItem'[p] = tradeItem[p]
        /\ tradePartner'[q] = tradePartner[q] /\ tradeItem'[q] = tradeItem[q]
    BY <1>3, <2>1 DEF Ends
  <2>3. /\ {p, q} \subseteq online /\ q # p /\ tradePartner[q] = p
        /\ tradeState[p] # "none"
        /\ tradeState[p] = "initiated" => tradeItem[p] # NoItem
        /\ tradeState[p] = "acknowledge" => tradeItem[p] = NoItem
        /\ {tradeItem[p], tradeItem[q]} # {NoItem}
    BY <1>3 DEF PartnersAgree
  <2>4. p \in online' /\ q \in online'
    <3>1. NoPlayer # p
      BY TradeAssumption
    <3>. QED  BY <1>3, <2>1, <2>3, <3>1
  <2>. HIDE DEF q
  <2>. QED
    BY <2>1, <2>2, <2>3, <2>4
<1>. QED
  BY <1>1, <1>2, <1>3

LEMMA StartsKeepAgreement ==
    ASSUME TypeOK, PartnersAgree, NEW p \in Player, NEW q \in Player \ {p}, NEW t, t # NoItem,
           {p, q} \subseteq online, online' = online, MayStart(p, q), Starts(p, q, t)
    PROVE  PartnersAgree'
<1>0. NoPlayer \notin Player
  BY TradeAssumption
<1>. SUFFICES ASSUME NEW r \in Player
              PROVE  LET s == tradePartner'[r]
                     IN  IF s = NoPlayer
                         THEN tradeState'[r] = "none" /\ tradeItem'[r] = NoItem
                         ELSE /\ {r, s} \subseteq online' /\ s # r /\ tradePartner'[s] = r
                              /\ tradeState'[r] # "none"
                              /\ tradeState'[r] = "initiated" => tradeItem'[r] # NoItem
                              /\ tradeState'[r] = "acknowledge" => tradeItem'[r] = NoItem
                              /\ {tradeItem'[r], tradeItem'[s]} # {NoItem}
  BY DEF PartnersAgree
<1>1. tradePartner'[q] = p /\ tradePartner'[p] = q
  BY DEF Starts, MayStart
<1>2. tradeItem'[p] = t /\ tradeState'[p] = "initiated" /\ tradeItem'[q] = tradeItem[q]
  BY DEF Starts
<1>3. /\ tradeState'[q] # "none"
      /\ tradeState'[q] = "initiated" => tradeItem'[q] # NoItem
      /\ tradeState'[q] = "acknowledge" => tradeItem'[q] = NoItem
  <2>1. CASE tradeState[q] = "none"
    BY <1>2, <2>1 DEF Starts, PartnersAgree
  <2>2. CASE tradeState[q] # "none"
    <3>1. tradePartner[q] # NoPlayer /\ tradeState'[q] = tradeState[q]
      BY <2>2 DEF Starts, PartnersAgree
    <3>. QED  BY <1>2, <3>1, <2>2 DEF PartnersAgree
  <2>. QED  BY <2>1, <2>2
<1>4. CASE r \in {p, q}
  BY <1>0, <1>1, <1>2, <1>3, <1>4
<1>5. CASE r \notin {p, q}
  <2>. DEFINE s == tradePartner[r]
  <2>1. /\ tradeState'[r] = tradeState[r] /\ tradePartner'[r] = s /\ tradeItem'[r] = tradeItem[r]
    BY <1>5 DEF Starts
  <2>2. CASE s = NoPlayer
    BY <2>1, <2>2 DEF PartnersAgree
  <2>3. CASE s # NoPlayer
    <3>1. /\ {r, s} \subseteq online /\ s # r /\ tradePartner[s] = r
          /\ tradeState[r] # "none"
          /\ tradeState[r] = "initiated" => tradeItem[r] # NoItem
          /\ tradeState[r] = "acknowledge" => tradeItem[r] = NoItem
          /\ {tradeItem[r], tradeItem[s]} # {NoItem}
      BY <2>3 DEF PartnersAgree
    <3>2. s \in Player
      BY <2>3 DEF TypeOK
    <3>3. tradePartner[p] \in {NoPlayer, q} /\ tradePartner[q] \in {NoPlayer, p}
      BY DEF MayStart, PartnersAgree
    <3>4. s \notin {p, q}
      BY <1>0, <1>5, <3>1, <3>3
    <3>5. tradePartner'[s] = tradePartner[s] /\ tradeItem'[s] = tradeItem[s]
      BY <3>2, <3>4 DEF Starts
    <3>. HIDE DEF s
    <3>. QED  BY <2>1, <2>3, <3>1, <3>5
  <2>. QED  BY <2>2, <2>3
<1>. QED
  BY <1>4, <1>5

-----------------------------------------------------------------------------
(* What is promised. *)

\* The offers of the others lie as they lay, and where they were within reach.
Steady(B) ==
    \A p \in Player \ B : tradeItem[p] # NoItem =>
        /\ ContentsIn(place', tradeItem[p]) = ContentsIn(place, tradeItem[p])
        /\ tradeItem[p] \in Item /\ ReachesIn(place, p, tradeItem[p])
              => ReachesIn(place', p, tradeItem[p])

LEMMA EndsKeepDistinct ==
    ASSUME Distinct(tradeItem), OwnDocuments, NEW B, Ends(B)
    PROVE  /\ OwnDocuments'
           /\ tradeItems = {tradeItem[p] : p \in Player} \ {NoItem}
                 => tradeItems' = {tradeItem'[p] : p \in Player} \ {NoItem}
<1>1. OwnDocuments'
  <2>. SUFFICES ASSUME NEW p \in Player, NEW q \in Player, tradeItem'[p] = Document(q)
                PROVE  p = q
    BY DEF OwnDocuments, Document
  <2>1. Document(q) # NoItem
    BY ThingsAreApart
  <2>2. p \notin B /\ tradeItem'[p] = tradeItem[p]
    BY <2>1 DEF Ends
  <2>. QED
    BY <2>2 DEF OwnDocuments
<1>2. ASSUME tradeItems = {tradeItem[p] : p \in Player} \ {NoItem}
      PROVE  tradeItems' = {tradeItem'[p] : p \in Player} \ {NoItem}
  <2>1. ASSUME NEW t \in tradeItems'
        PROVE  t \in {tradeItem'[p] : p \in Player} \ {NoItem}
    <3>1. t \in tradeItems /\ t \notin {tradeItem[p] : p \in B}
      BY <2>1 DEF Ends
    <3>2. PICK p \in Player : t = tradeItem[p]
      BY <1>2, <3>1
    <3>3. p \notin B
      BY <3>1, <3>2
    <3>. QED
      BY <1>2, <3>1, <3>2, <3>3 DEF Ends
  <2>2. ASSUME NEW t \in {tradeItem'[p] : p \in Player} \ {NoItem}
        PROVE  t \in tradeItems'
    <3>1. PICK p \in Player : t = tradeItem'[p] /\ t # NoItem
      BY <2>2
    <3>2. p \notin B /\ t = tradeItem[p]
      BY <3>1 DEF Ends
    <3>3. \A q \in B : tradeItem[q] # t
      BY <3>1, <3>2 DEF Distinct, Ends
    <3>4. t \in tradeItems
      BY <1>2, <3>1, <3>2
    <3>. QED
      BY <3>3, <3>4 DEF Ends
  <2>. QED
    BY <2>1, <2>2
<1>. QED
  BY <1>1, <1>2

LEMMA EndsKeepPromises ==
    ASSUME PromisedOnce, OfferIsIntact, OwnDocuments, NEW B, Ends(B), Steady(B)
    PROVE  PromisedOnce' /\ OfferIsIntact'
<1>1. Once(place, tradeItem, tradeItems) /\ Intact(place, tradeItem, promise)
  BY PromisedOnceIsOnce, OfferIsIntactIsIntact
<1>2. tradeItems' = {tradeItem'[p] : p \in Player} \ {NoItem}
  BY <1>1, OnceIsDistinct, EndsKeepDistinct DEF Once
<1>3. ASSUME NEW p \in Player, tradeItem'[p] # NoItem
      PROVE  p \in Player \ B /\ tradeItem'[p] = tradeItem[p] /\ promise'[p] = promise[p]
  BY <1>3 DEF Ends
<1>4. ASSUME NEW p \in Player, NEW q \in Player, p # q, NoItem \notin {tradeItem'[p], tradeItem'[q]}
      PROVE  ContentsIn(place', tradeItem'[p]) \cap ContentsIn(place', tradeItem'[q]) = {}
  <2>1. /\ p \in Player \ B /\ tradeItem'[p] = tradeItem[p]
        /\ q \in Player \ B /\ tradeItem'[q] = tradeItem[q]
        /\ NoItem \notin {tradeItem[p], tradeItem[q]}
    BY <1>3, <1>4
  <2>2. ContentsIn(place, tradeItem[p]) \cap ContentsIn(place, tradeItem[q]) = {}
    BY <1>1, <1>4, <2>1 DEF Once
  <2>. QED
    BY <2>1, <2>2 DEF Steady
<1>5. Once(place', tradeItem', tradeItems')
  BY <1>2, <1>4 DEF Once
<1>6. ASSUME NEW p \in Player, tradeItem'[p] \in Item
      PROVE  ContentsIn(place', tradeItem'[p]) = promise'[p] /\ ReachesIn(place', p, tradeItem'[p])
  <2>1. p \in Player \ B /\ tradeItem'[p] = tradeItem[p] /\ promise'[p] = promise[p]
        /\ tradeItem[p] # NoItem
    BY <1>3, <1>6, TradeAssumption
  <2>2. ContentsIn(place, tradeItem[p]) = promise[p] /\ ReachesIn(place, p, tradeItem[p])
    BY <1>1, <1>6, <2>1 DEF Intact
  <2>. QED
    BY <1>6, <2>1, <2>2 DEF Steady
<1>7. Intact(place', tradeItem', promise')
  BY <1>6 DEF Intact
<1>. QED
  BY <1>5, <1>7, PromisedOnceIsOnce, OfferIsIntactIsIntact

\* What has been asked for is apart from every offer.
LEMMA NotPromisedIsApart ==
    ASSUME NEW i \in Item, NotPromised(i), NEW u \in tradeItems, u \in Thing
    PROVE  ContentsIn(place, i) \cap ContentsIn(place, u) = {}
<1>1. u # i /\ u \notin In(place, i) /\ (u \in Item => i \notin In(place, u))
  BY BagsOfIsIn, InIsClosed, TradeAssumption DEF NotPromised, Holds
<1>. SUFFICES ASSUME NEW x \in ContentsIn(place, i), x \in ContentsIn(place, u)
              PROVE  FALSE
  OBVIOUS
<1>2. (x = i \/ i \in In(place, x)) /\ (x = u \/ u \in In(place, x)) /\ x \in Item
  BY DEF ContentsIn
<1>3. ASSUME i \in In(place, x), u \in In(place, x)
      PROVE  FALSE
  <2>1. u \in Item
    BY <1>3, InIsClosed, TradeAssumption
  <2>. QED
    BY <1>1, <1>3, <2>1, InIsLinear
<1>. QED
  BY <1>1, <1>2, <1>3

\* A document is in nothing, and nothing is in it.
LEMMA DocumentIsApart ==
    ASSUME NEW p \in Player, NEW u \in Thing, u # Document(p)
    PROVE  ContentsIn(place, Document(p)) \cap ContentsIn(place, u) = {}
<1>1. \A i \in Item : Document(p) \notin In(place, i)
  BY InIsClosed, ThingsAreApart, TradeAssumption
<1>2. ContentsIn(place, Document(p)) = {Document(p)}
  BY <1>1 DEF ContentsIn
<1>3. Document(p) \notin ContentsIn(place, u)
  BY ThingsAreApart DEF ContentsIn
<1>. QED
  BY <1>2, <1>3

LEMMA StartsKeepPromises ==
    ASSUME TypeOK, PromisedOnce, OfferIsIntact, OwnDocuments, place' = place,
           NEW p \in Player, NEW q \in Player \ {p}, NEW t \in Thing, Starts(p, q, t),
           tradeItem[p] = NoItem,
           t \in Item => ReachesIn(place, p, t),
           t \notin Item => t = Document(p),
           \A u \in tradeItems : ContentsIn(place, t) \cap ContentsIn(place, u) = {}
    PROVE  PromisedOnce' /\ OfferIsIntact' /\ OwnDocuments'
<1>1. Once(place, tradeItem, tradeItems) /\ Intact(place, tradeItem, promise)
  BY PromisedOnceIsOnce, OfferIsIntactIsIntact
<1>2. /\ tradeItem'[p] = t /\ promise'[p] = ContentsIn(place, t) /\ t # NoItem
      /\ \A r \in Player \ {p} : tradeItem'[r] = tradeItem[r] /\ promise'[r] = promise[r]
      /\ tradeItems' = tradeItems \cup {t}
  BY ContentsAreIn, ThingsAreApart DEF Starts
<1>3. tradeItems' = {tradeItem'[r] : r \in Player} \ {NoItem}
  <2>1. tradeItems = {tradeItem[r] : r \in Player} \ {NoItem}
    BY <1>1 DEF Once
  <2>2. ASSUME NEW u \in tradeItems'
        PROVE  u \in {tradeItem'[r] : r \in Player} \ {NoItem}
    <3>1. CASE u = t
      BY <1>2, <3>1
    <3>2. CASE u # t
      <4>1. PICK r \in Player : u = tradeItem[r] /\ u # NoItem
        BY <1>2, <2>1, <2>2, <3>2
      <4>2. r # p
        BY <4>1
      <4>. QED
        BY <1>2, <4>1, <4>2
    <3>. QED
      BY <3>1, <3>2
  <2>3. ASSUME NEW u \in {tradeItem'[r] : r \in Player} \ {NoItem}
        PROVE  u \in tradeItems'
    <3>1. PICK r \in Player : u = tradeItem'[r] /\ u # NoItem
      BY <2>3
    <3>2. r # p => u \in tradeItems
      BY <1>2, <2>1, <3>1
    <3>. QED
      BY <1>2, <3>1, <3>2
  <2>. QED
    BY <2>2, <2>3
<1>4. ASSUME NEW r \in Player \ {p}, tradeItem'[r] # NoItem
      PROVE  /\ tradeItem'[r] = tradeItem[r] /\ tradeItem[r] \in tradeItems
             /\ ContentsIn(place, t) \cap ContentsIn(place, tradeItem[r]) = {}
  BY <1>1, <1>2, <1>4 DEF Once
<1>5. ASSUME NEW r \in Player, NEW s \in Player, r # s, NoItem \notin {tradeItem'[r], tradeItem'[s]}
      PROVE  ContentsIn(place, tradeItem'[r]) \cap ContentsIn(place, tradeItem'[s]) = {}
  <2>1. CASE r = p
    BY <1>2, <1>4, <1>5, <2>1
  <2>2. CASE s = p
    BY <1>2, <1>4, <1>5, <2>2
  <2>3. CASE r # p /\ s # p
    <3>1. /\ tradeItem'[r] = tradeItem[r] /\ tradeItem'[s] = tradeItem[s]
          /\ NoItem \notin {tradeItem[r], tradeItem[s]}
      BY <1>4, <1>5, <2>3
    <3>. QED
      BY <1>1, <1>5, <3>1 DEF Once
  <2>. QED
    BY <2>1, <2>2, <2>3
<1>6. Once(place', tradeItem', tradeItems')
  BY <1>3, <1>5 DEF Once
<1>7. ASSUME NEW r \in Player, tradeItem'[r] \in Item
      PROVE  ContentsIn(place, tradeItem'[r]) = promise'[r] /\ ReachesIn(place, r, tradeItem'[r])
  <2>1. CASE r = p
    BY <1>2, <1>7, <2>1
  <2>2. CASE r # p
    <3>1. tradeItem'[r] = tradeItem[r] /\ promise'[r] = promise[r]
      BY <1>2, <2>2
    <3>. QED
      BY <1>1, <1>7, <3>1 DEF Intact
  <2>. QED
    BY <2>1, <2>2
<1>8. Intact(place', tradeItem', promise')
  BY <1>7 DEF Intact
<1>9. OwnDocuments'
  <2>. SUFFICES ASSUME NEW r \in Player, NEW s \in Player, tradeItem'[r] = Document(s)
                PROVE  r = s
    BY DEF OwnDocuments, Document
  <2>1. CASE r = p
    BY <1>2, <2>1, ThingsAreApart
  <2>2. CASE r # p
    BY <1>2, <2>2 DEF OwnDocuments
  <2>. QED
    BY <2>1, <2>2
<1>. QED
  BY <1>6, <1>8, <1>9, PromisedOnceIsOnce, OfferIsIntactIsIntact

-----------------------------------------------------------------------------
(* What is referred to. *)

\* What may be counted: a reference of its own, one for tradeItems, one for the
\* trade of a document.
LEMMA ReturnedRefsAreTyped ==
    ASSUME RefsReturned', NEW F, refs' = [t \in Thing |-> F[t]]
    PROVE  refs' \in [Thing -> 0 .. 2]
<1>1. ASSUME NEW t \in Thing
      PROVE  refs'[t] \in 0 .. 2
  <2>1. CASE t \in Item
    <3>1. refs'[t] = 2 \/ refs'[t] = 1
      BY <2>1 DEF RefsReturned
    <3>. QED  BY <3>1
  <2>2. CASE t \notin Item
    <3>1. PICK p \in Player : t = Document(p)
      BY <2>2, ThingsAreApart
    <3>2. refs'[Document(p)] = 2 \/ refs'[Document(p)] = 0
      BY DEF RefsReturned, Document
    <3>. QED  BY <3>1, <3>2
  <2>. QED  BY <2>1, <2>2
<1>. QED
  BY <1>1

LEMMA EndsReturnRefs ==
    ASSUME TypeOK, PromisedOnce, OwnDocuments, RefsReturned,
           NEW S, CloseTrades(S), Ends(BothSides(S))
    PROVE  RefsReturned' /\ refs' \in [Thing -> 0 .. 2] /\ docHouse' \in [Player -> House \cup {NoHouse}]
<1>. DEFINE B == BothSides(S)
            dropped == {tradeItem[p] : p \in Player \cap B}
<1>1. Distinct(tradeItem) /\ tradeItems = {tradeItem[p] : p \in Player} \ {NoItem}
  BY PromisedOnceIsOnce, OnceIsDistinct DEF Once
<1>2. tradeItems' = {tradeItem'[p] : p \in Player} \ {NoItem} /\ tradeItems' = tradeItems \ dropped
  BY <1>1, EndsKeepDistinct DEF CloseTrades
<1>3. /\ \A t \in Thing : refs'[t] = refs[t] - (IF t \in dropped \cap tradeItems THEN 1 ELSE 0)
                                            - (IF t \in dropped \cap Documents THEN 1 ELSE 0)
      /\ refs' = Released(dropped)
  BY DEF CloseTrades, Released
<1>4. ASSUME NEW i \in Item
      PROVE  refs'[i] = IF i \in Offers' THEN 2 ELSE 1
  <2>1. i \in Thing /\ i \notin Documents /\ (i \in Offers' <=> i \in tradeItems')
    BY <1>2, DocumentAssumption DEF Offers, Thing
  <2>2. refs[i] = IF i \in tradeItems THEN 2 ELSE 1
    BY <1>1 DEF RefsReturned, Offers
  <2>3. refs'[i] = refs[i] - (IF i \in dropped \cap tradeItems THEN 1 ELSE 0) - 0
    <3>. HIDE DEF dropped
    <3>. QED  BY <1>3, <2>1
  <2>. HIDE DEF dropped
  <2>. QED
    BY <1>2, <2>1, <2>2, <2>3
<1>5. ASSUME NEW p \in Player
      PROVE  /\ refs'[Document(p)] = IF tradeItem'[p] = Document(p) THEN 2 ELSE 0
             /\ docHouse'[p] # NoHouse <=> tradeItem'[p] = Document(p)
             /\ docHouse'[p] \in House \cup {NoHouse}
  <2>1. /\ Document(p) \in Thing /\ Document(p) \in Documents /\ Document(p) # NoItem
        /\ docHouse[p] \in House \cup {NoHouse}
    BY ThingsAreApart DEF Documents, TypeOK
  <2>2. Document(p) \in dropped <=> p \in B /\ tradeItem[p] = Document(p)
    <3>1. \A q \in Player : tradeItem[q] = Document(p) => q = p
      BY DEF OwnDocuments
    <3>. HIDE DEF B
    <3>. QED  BY <3>1
  <2>3. docHouse'[p] = IF Document(p) \in dropped THEN NoHouse ELSE docHouse[p]
    BY DEF CloseTrades
  <2>4. /\ refs[Document(p)] = IF tradeItem[p] = Document(p) THEN 2 ELSE 0
        /\ docHouse[p] # NoHouse <=> tradeItem[p] = Document(p)
    BY DEF RefsReturned
  <2>5. CASE Document(p) \in dropped
    <3>1. Document(p) \in tradeItems /\ refs[Document(p)] = 2 /\ tradeItem'[p] = NoItem
      BY <1>1, <2>1, <2>2, <2>4, <2>5 DEF Ends
    <3>. HIDE DEF dropped
    <3>2. refs'[Document(p)] = 2 - 1 - 1
      BY <1>3, <2>1, <2>5, <3>1
    <3>. QED  BY <2>1, <2>3, <2>5, <3>1, <3>2
  <2>6. CASE Document(p) \notin dropped
    <3>1. tradeItem'[p] = Document(p) <=> tradeItem[p] = Document(p)
      BY <2>1, <2>2, <2>6 DEF Ends
    <3>. HIDE DEF dropped
    <3>2. refs'[Document(p)] = refs[Document(p)] - 0 - 0
      BY <1>3, <2>1, <2>6
    <3>3. refs'[Document(p)] = refs[Document(p)]
      BY <2>4, <3>2
    <3>. QED  BY <2>1, <2>3, <2>4, <2>6, <3>1, <3>3
  <2>. QED  BY <2>5, <2>6
<1>6. RefsReturned'
  BY <1>4, <1>5 DEF RefsReturned, Document
<1>7. refs' \in [Thing -> 0 .. 2]
  <2>1. refs' = [t \in Thing |-> refs'[t]]
    BY <1>3 DEF Released
  <2>. QED  BY <1>6, <2>1, ReturnedRefsAreTyped
<1>8. docHouse' \in [Player -> House \cup {NoHouse}]
  BY <1>5 DEF CloseTrades
<1>. QED
  BY <1>6, <1>7, <1>8

\* Whoever asks for an item refers to it once more.
LEMMA RequestsTakeRefs ==
    ASSUME TypeOK, PromisedOnce, PromisedOnce', RefsReturned, NEW p \in Player, NEW q \in Player \ {p},
           NEW i \in Item, i \notin tradeItems, Starts(p, q, i), tradeItem[p] = NoItem,
           refs' = [refs EXCEPT ![i] = @ + 1], docHouse' = docHouse
    PROVE  RefsReturned' /\ refs' \in [Thing -> 0 .. 2]
<1>1. Offers = tradeItems /\ Offers' = tradeItems' /\ tradeItems' = tradeItems \cup {i}
  BY DEF PromisedOnce, Starts
<1>2. i \in Thing /\ \A t \in Thing : refs'[t] = IF t = i THEN refs[t] + 1 ELSE refs[t]
  BY DEF TypeOK, Thing
<1>3. ASSUME NEW j \in Item
      PROVE  refs'[j] = IF j \in Offers' THEN 2 ELSE 1
  BY <1>1, <1>2 DEF RefsReturned, Thing
<1>4. ASSUME NEW r \in Player
      PROVE  /\ refs'[Document(r)] = IF tradeItem'[r] = Document(r) THEN 2 ELSE 0
             /\ docHouse'[r] # NoHouse <=> tradeItem'[r] = Document(r)
  <2>1. Document(r) \in Thing /\ Document(r) # i /\ Document(r) # NoItem
    BY ThingsAreApart
  <2>2. tradeItem'[r] = Document(r) <=> tradeItem[r] = Document(r)
    BY <2>1 DEF Starts
  <2>. QED
    BY <1>2, <2>1, <2>2 DEF RefsReturned
<1>5. RefsReturned'
  BY <1>3, <1>4 DEF RefsReturned, Document
<1>6. refs' = [t \in Thing |-> refs'[t]]
  BY DEF TypeOK
<1>. QED
  BY <1>5, <1>6, ReturnedRefsAreTyped

\* A new document is referred to by its trade and by tradeItems.
LEMMA DocumentsTakeRefs ==
    ASSUME TypeOK, PromisedOnce, PromisedOnce', RefsReturned, NEW p \in Player, NEW q \in Player \ {p},
           Starts(p, q, Document(p)), tradeItem[p] = NoItem, OwnDocuments', NEW h \in House,
           refs' = [refs EXCEPT ![Document(p)] = @ + 2], docHouse' = [docHouse EXCEPT ![p] = h]
    PROVE  RefsReturned' /\ refs' \in [Thing -> 0 .. 2] /\ docHouse' \in [Player -> House \cup {NoHouse}]
<1>1. Offers = tradeItems /\ Offers' = tradeItems' /\ tradeItems' = tradeItems \cup {Document(p)}
  BY DEF PromisedOnce, Starts
<1>2. \A t \in Thing : refs'[t] = IF t = Document(p) THEN refs[t] + 2 ELSE refs[t]
  BY DEF TypeOK
<1>3. ASSUME NEW j \in Item
      PROVE  refs'[j] = IF j \in Offers' THEN 2 ELSE 1
  <2>1. j \in Thing /\ j # Document(p)
    BY ThingsAreApart DEF Thing
  <2>. QED
    BY <1>1, <1>2, <2>1 DEF RefsReturned
<1>4. ASSUME NEW r \in Player
      PROVE  /\ refs'[Document(r)] = IF tradeItem'[r] = Document(r) THEN 2 ELSE 0
             /\ docHouse'[r] # NoHouse <=> tradeItem'[r] = Document(r)
  <2>1. Document(r) \in Thing /\ Document(r) # NoItem /\ NoHouse # h
    BY ThingsAreApart, TradeAssumption
  <2>2. CASE r = p
    <3>1. tradeItem'[r] = Document(r) /\ refs[Document(r)] = 0
      BY <2>1, <2>2 DEF Starts, RefsReturned
    <3>2. refs'[Document(r)] = 0 + 2 /\ docHouse'[r] = h
      BY <1>2, <2>1, <2>2, <3>1 DEF TypeOK
    <3>. QED
      BY <2>1, <3>1, <3>2
  <2>3. CASE r # p
    <3>1. Document(r) # Document(p)
      BY <2>3, ThingsAreApart
    <3>2. refs'[Document(r)] = refs[Document(r)] /\ docHouse'[r] = docHouse[r] /\ tradeItem'[r] = tradeItem[r]
      BY <1>2, <2>1, <2>3, <3>1 DEF TypeOK, Starts
    <3>. QED
      BY <3>2 DEF RefsReturned
  <2>. QED
    BY <2>2, <2>3
<1>5. RefsReturned'
  BY <1>3, <1>4 DEF RefsReturned, Document
<1>6. refs' = [t \in Thing |-> refs'[t]]
  BY DEF TypeOK
<1>7. docHouse' \in [Player -> House \cup {NoHouse}]
  BY DEF TypeOK
<1>. QED
  BY <1>5, <1>6, <1>7, ReturnedRefsAreTyped

-----------------------------------------------------------------------------
(* What moves, and what does not. *)

\* Nothing that is offered by a player who is not of B is moved, changed or
\* carried by the move of M.
Untouched(M, B) ==
    \A p \in Player \ B : tradeItem[p] # NoItem =>
        \A m \in M : /\ tradeItem[p] # m
                     /\ tradeItem[p] \notin In(place, m)
                     /\ tradeItem[p] \in Item => m \notin In(place, tradeItem[p])
                     /\ place'[m] \in Bag => /\ tradeItem[p] # place'[m]
                                             /\ tradeItem[p] \notin In(place, place'[m])

LEMMA UntouchedIsSteady ==
    ASSUME NEW M, Moves(place, place', M), NEW B, Untouched(M, B)
    PROVE  Steady(B)
<1>. SUFFICES ASSUME NEW p \in Player \ B, NEW t, t = tradeItem[p], t # NoItem
              PROVE  /\ ContentsIn(place', t) = ContentsIn(place, t)
                     /\ t \in Item /\ ReachesIn(place, p, t) => ReachesIn(place', p, t)
  BY DEF Steady
<1>1. /\ t \notin M
      /\ \A m \in M : t \notin In(place, m)
      /\ \A m \in M : place'[m] \in Bag => t # place'[m] /\ t \notin In(place, place'[m])
      /\ t \in Item => In(place, t) \cap M = {}
  BY DEF Untouched
<1>2. \A i \in Item : t \in In(place', i) <=> t \in In(place, i)
  BY <1>1, ContentsStay
<1>3. ASSUME t \in Item
      PROVE  In(place', t) = In(place, t) /\ \A j \in {t} \cup In(place, t) : place'[j] = place[j]
  <2>1. In(place', t) = In(place, t)
    BY <1>1, <1>3, PathsStay
  <2>2. \A j \in {t} \cup In(place, t) : j \in Item \ M
    BY <1>1, <1>3, InIsClosed, TradeAssumption
  <2>. QED
    BY <2>1, <2>2 DEF Moves
<1>4. ASSUME t \in Item, ReachesIn(place, p, t)
      PROVE  ReachesIn(place', p, t)
  <2>1. {place'[j] : j \in {t} \cup In(place', t)} = {place[j] : j \in {t} \cup In(place, t)}
    BY <1>3, <1>4
  <2>. QED
    BY <1>3, <1>4, <2>1 DEF ReachesIn
<1>. QED
  BY <1>2, <1>4 DEF ContentsIn

\* Whoever trades has a partner.
LEMMA TradersHavePartners ==
    ASSUME PartnersAgree, NEW p \in Player, tradeItem[p] # NoItem
    PROVE  tradePartner[p] # NoPlayer
BY DEF PartnersAgree

\* MoveItem moves one item, and closes the trades it disturbs.
LEMMA MoveItemMoves ==
    ASSUME TypeOK, PartnersAgree, NEW p \in Player, NEW i \in Item,
           NEW to \in Player \cup Bag \cup {Ground}, MoveItem(p, i, to),
           NEW T, T = {t \in Offers : Disturbs(i, t) \/ Enters(to, t)}
    PROVE  /\ place' \in [Item -> Player \cup Bag \cup {Ground}]
           /\ Moves(place, place', {i})
           /\ CloseTrades(Traders(T))
           /\ Ends(BothSides(Traders(T)))
           /\ Untouched({i}, BothSides(Traders(T)))
<1>1. /\ place' = [place EXCEPT ![i] = to]
      /\ to \in {p, Ground} \/ (to \in Bag /\ i \notin Above(to))
      /\ CloseTrades(Traders(T))
  BY DEF MoveItem
<1>2. place' \in [Item -> Player \cup Bag \cup {Ground}] /\ place'[i] = to
      /\ \A j \in Item \ {i} : place'[j] = place[j]
  BY <1>1 DEF TypeOK
<1>3. to \in Bag => to # i /\ i \notin In(place, to)
  BY <1>1, BagsOfIsIn, TradeAssumption DEF Above
<1>4. Moves(place, place', {i})
  BY <1>2, <1>3 DEF Moves
<1>5. Traders(T) \in SUBSET Player /\ \A r \in Traders(T) : tradePartner[r] # NoPlayer
  <2>1. NoItem \notin T
    BY DEF Offers
  <2>. QED
    BY <2>1, TradersHavePartners DEF Traders
<1>6. Ends(BothSides(Traders(T)))
  BY <1>1, <1>5, CloseEnds
<1>7. Untouched({i}, BothSides(Traders(T)))
  <2>. SUFFICES ASSUME NEW r \in Player \ BothSides(Traders(T)), NEW t, t = tradeItem[r], t # NoItem
                PROVE  /\ t # i
                       /\ t \notin In(place, i)
                       /\ t \in Item => i \notin In(place, t)
                       /\ to \in Bag => t # to /\ t \notin In(place, to)
    BY <1>2 DEF Untouched
  <2>1. t \in Offers /\ r \notin Traders(T)
    BY DEF Offers, BothSides
  <2>2. ~Disturbs(i, t) /\ ~Enters(to, t)
    BY <2>1 DEF Traders
  <2>. QED
    BY <2>2, BagsOfIsIn, TradeAssumption DEF Disturbs, Enters, Holds
<1>. QED
  BY <1>1, <1>2, <1>4, <1>6, <1>7

\* Where what is received may be put is not in anything that is offered.
LEMMA RoomIsFree ==
    ASSUME NEW p \in Player, NEW i, NEW b \in RoomOf(p, i)
    PROVE  /\ b \in {p} \cup Bag
           /\ b \in Bag => /\ p \in Above(b)
                           /\ \A t \in Offers : t # b /\ t \notin In(place, b)
<1>1. p \notin Bag
  BY TradeAssumption
<1>2. \A x \in Bag : x \in Item
  BY TradeAssumption
<1>. QED
  BY <1>1, <1>2, BagsOfIsIn DEF RoomOf, Holds

\* The items that change hands, and the trades that end with theirs.
Traded(p) == {tradeItem[p], tradeItem[tradePartner[p]]} \cap Item

Disturbed(M) == {t \in Offers : \E i \in M : Disturbs(i, t)}

Enders(p) == {p} \cup Traders(Disturbed(Traded(p)))

\* Exchange moves what is traded, and closes the trades it disturbs.
LEMMA ExchangeTrades ==
    ASSUME TypeOK, PartnersAgree, Distinct(tradeItem), NEW p \in Player, Exchange(p),
           NEW q, q = tradePartner[p],
           NEW M, M = Traded(p), NEW T, T = Disturbed(M),
           NEW B, B = BothSides({p} \cup Traders(T))
    PROVE  /\ q \in Player \ {p} /\ tradePartner[q] = p /\ tradeItem[p] # NoItem /\ tradeItem[q] # NoItem
           /\ tradeItem[q] \in Item => place'[tradeItem[q]] \in RoomOf(p, tradeItem[q])
           /\ tradeItem[p] \in Item => place'[tradeItem[p]] \in RoomOf(q, tradeItem[p])
           /\ place' \in [Item -> Player \cup Bag \cup {Ground}]
           /\ Moves(place, place', M)
           /\ CloseTrades({p} \cup Traders(T))
           /\ Ends(B)
           /\ Untouched(M, B)
<1>1. q \in Player \ {p} /\ tradePartner[q] = p /\ tradeItem[p] # NoItem /\ tradeItem[q] # NoItem
  BY DEF Exchange, MayAccept, PartnersAgree, TypeOK
<1>2. PICK atP \in RoomOf(p, tradeItem[q]), atQ \in RoomOf(q, tradeItem[p]) :
         place' = [i \in Item |-> IF i = tradeItem[q] THEN atP
                                  ELSE IF i = tradeItem[p] THEN atQ ELSE place[i]]
  BY DEF Exchange
<1>3. CloseTrades({p} \cup Traders(T))
  BY DEF Exchange, Traded, Disturbed
<1>4. tradeItem[p] # tradeItem[q]
  BY <1>1 DEF Distinct
<1>5. /\ tradeItem[q] \in Item => place'[tradeItem[q]] = atP
      /\ tradeItem[p] \in Item => place'[tradeItem[p]] = atQ
      /\ \A j \in Item \ M : place'[j] = place[j]
  BY <1>2, <1>4 DEF Traded
<1>6. atP \in {p} \cup Bag /\ atQ \in {q} \cup Bag
  BY <1>1, <1>2, RoomIsFree
<1>7. place' \in [Item -> Player \cup Bag \cup {Ground}]
  <2>1. \A i \in Item : place[i] \in Player \cup Bag \cup {Ground}
    BY DEF TypeOK
  <2>. QED
    BY <1>1, <1>2, <1>6, <2>1
<1>8. \A m \in M : m \in Offers /\ m \in Item
  BY <1>1 DEF Offers, Traded
<1>9. \A m \in M : place'[m] \in Bag => \A t \in Offers : t # place'[m] /\ t \notin In(place, place'[m])
  <2>1. \A m \in M : place'[m] = atP \/ place'[m] = atQ
    BY <1>5 DEF Traded
  <2>2. atP \in Bag => \A t \in Offers : t # atP /\ t \notin In(place, atP)
    BY <1>2, RoomIsFree
  <2>3. atQ \in Bag => \A t \in Offers : t # atQ /\ t \notin In(place, atQ)
    BY <1>1, <1>2, RoomIsFree
  <2>. QED
    BY <2>1, <2>2, <2>3
<1>10. Moves(place, place', M)
  BY <1>5, <1>8, <1>9 DEF Moves
<1>11. /\ {p} \cup Traders(T) \in SUBSET Player
       /\ \A r \in {p} \cup Traders(T) : tradePartner[r] # NoPlayer
  <2>1. NoItem \notin T
    BY DEF Offers, Disturbed
  <2>. QED
    BY <1>1, <2>1, TradersHavePartners DEF Traders
<1>12. Ends(B)
  BY <1>3, <1>11, CloseEnds
<1>13. Untouched(M, B)
  <2>. SUFFICES ASSUME NEW r \in Player \ B, NEW t, t = tradeItem[r], t # NoItem, NEW m \in M
                PROVE  /\ t # m
                       /\ t \notin In(place, m)
                       /\ t \in Item => m \notin In(place, t)
                       /\ place'[m] \in Bag => t # place'[m] /\ t \notin In(place, place'[m])
    BY DEF Untouched
  <2>1. t \in Offers /\ r \notin Traders(T)
    BY DEF Offers, BothSides
  <2>2. ~Disturbs(m, t)
    BY <2>1 DEF Traders, Disturbed
  <2>. QED
    BY <1>8, <1>9, <2>1, <2>2, BagsOfIsIn DEF Disturbs, Holds
<1>. QED
  BY <1>1, <1>2, <1>3, <1>5, <1>7, <1>10, <1>12, <1>13

LEMMA ExchangeMoves ==
    ASSUME TypeOK, PartnersAgree, Distinct(tradeItem), NEW p \in Player, Exchange(p)
    PROVE  /\ tradePartner[p] \in Player \ {p} /\ tradePartner[tradePartner[p]] = p
           /\ tradeItem[p] # NoItem /\ tradeItem[tradePartner[p]] # NoItem
           /\ tradeItem[tradePartner[p]] \in Item =>
                 place'[tradeItem[tradePartner[p]]] \in RoomOf(p, tradeItem[tradePartner[p]])
           /\ tradeItem[p] \in Item => place'[tradeItem[p]] \in RoomOf(tradePartner[p], tradeItem[p])
           /\ place' \in [Item -> Player \cup Bag \cup {Ground}]
           /\ Moves(place, place', Traded(p))
           /\ CloseTrades(Enders(p))
           /\ Ends(BothSides(Enders(p)))
           /\ Untouched(Traded(p), BothSides(Enders(p)))
BY ExchangeTrades DEF Enders


-----------------------------------------------------------------------------
(* The invariant. *)

LEMMA InitInv == Init => IInv
<1>. SUFFICES ASSUME Init
              PROVE  IInv
  OBVIOUS
<1>1. TypeOK
  <2>1. refs \in [Thing -> 0 .. 2]
    BY DEF Init
  <2>. QED
    BY <2>1 DEF Init, TypeOK
<1>2. PartnersAgree
  BY DEF Init, PartnersAgree
<1>3. Offers = {}
  BY DEF Init, Offers
<1>4. PromisedOnce
  BY <1>3 DEF Init, PromisedOnce
<1>5. RefsReturned
  <2>1. \A p \in Player : Document(p) \in Thing /\ Document(p) \notin Item /\ Document(p) # NoItem
    BY ThingsAreApart
  <2>. QED
    BY <1>3, <2>1 DEF Init, RefsReturned, Thing
<1>6. OfferIsIntact
  BY TradeAssumption DEF Init, OfferIsIntact
<1>7. OwnDocuments
  BY ThingsAreApart DEF Init, OwnDocuments
<1>8. Rooted(place)
  <2>1. \A b \in Bag : place[b] \notin Bag
    BY TradeAssumption DEF Init
  <2>. QED
    BY <2>1, InByStep DEF Rooted
<1>. QED
  BY <1>1, <1>2, <1>4, <1>5, <1>6, <1>7, <1>8 DEF IInv

\* The end of trades, with what moves meanwhile, keeps the invariant.
LEMMA EndsKeepInv ==
    ASSUME IInv, NEW S, CloseTrades(S), Ends(BothSides(S)), Steady(BothSides(S)),
           \A p \in Player \ BothSides(S) : p \in online /\ tradePartner[p] # NoPlayer => p \in online',
           online' \in SUBSET Player, owner' \in [House -> Player \cup {NoPlayer}],
           place' \in [Item -> Player \cup Bag \cup {Ground}], Rooted(place')
    PROVE  IInv'
<1>1. PartnersAgree'
  BY EndsKeepAgreement DEF IInv
<1>2. PromisedOnce' /\ OfferIsIntact'
  BY EndsKeepPromises DEF IInv
<1>3. /\ RefsReturned' /\ refs' \in [Thing -> 0 .. 2]
      /\ docHouse' \in [Player -> House \cup {NoHouse}]
  BY EndsReturnRefs DEF IInv
<1>4. OwnDocuments'
  <2>1. Distinct(tradeItem)
    BY PromisedOnceIsOnce, OnceIsDistinct DEF IInv
  <2>. QED
    BY <2>1, EndsKeepDistinct DEF IInv
<1>5. TypeOK'
  <2>1. tradeState' \in [Player -> {"none", "initiated", "acknowledge", "accept"}]
    BY DEF IInv, TypeOK, CloseTrades
  <2>2. tradePartner' \in [Player -> Player \cup {NoPlayer}]
    BY DEF IInv, TypeOK, CloseTrades
  <2>3. tradeItem' \in [Player -> Thing \cup {NoItem}]
    BY DEF IInv, TypeOK, CloseTrades
  <2>4. tradeItems' \in SUBSET Thing
    BY DEF IInv, TypeOK, CloseTrades
  <2>5. promise' \in [Player -> SUBSET Thing]
    BY DEF IInv, TypeOK, CloseTrades
  <2>. QED
    BY <1>3, <2>1, <2>2, <2>3, <2>4, <2>5 DEF TypeOK
<1>. QED
  BY <1>1, <1>2, <1>3, <1>4, <1>5 DEF IInv

\* So does the start of one.
LEMMA StartsKeepTypes ==
    ASSUME TypeOK, NEW p \in Player, NEW q \in Player \ {p}, NEW t \in Thing, StartTrade(p, q, t)
    PROVE  /\ tradeState' \in [Player -> {"none", "initiated", "acknowledge", "accept"}]
           /\ tradePartner' \in [Player -> Player \cup {NoPlayer}]
           /\ tradeItem' \in [Player -> Thing \cup {NoItem}]
           /\ tradeItems' \in SUBSET Thing
           /\ promise' \in [Player -> SUBSET Thing]
<1>1. Contents(t) \subseteq Thing
  BY DEF Contents, Thing
<1>2. tradeState' \in [Player -> {"none", "initiated", "acknowledge", "accept"}]
  BY DEF TypeOK, StartTrade
<1>3. tradePartner' \in [Player -> Player \cup {NoPlayer}]
  BY DEF TypeOK, StartTrade
<1>4. tradeItem' \in [Player -> Thing \cup {NoItem}] /\ tradeItems' \in SUBSET Thing
  BY DEF TypeOK, StartTrade
<1>5. promise' \in [Player -> SUBSET Thing]
  BY <1>1 DEF TypeOK, StartTrade
<1>. QED
  BY <1>2, <1>3, <1>4, <1>5

LEMMA MayStartIsFree ==
    ASSUME PartnersAgree, NEW p \in Player, NEW q, MayStart(p, q)
    PROVE  tradeItem[p] = NoItem
BY TradeAssumption DEF PartnersAgree, MayStart

LEMMA RequestTradeKeepsInv ==
    ASSUME IInv, NEW p \in Player, NEW q \in Player, NEW i \in Item, RequestTrade(p, q, i)
    PROVE  IInv'
<1>1. q \in Player \ {p} /\ {p, q} \subseteq online
  BY DEF RequestTrade
<1>2. /\ MayStart(p, q) /\ StartTrade(p, q, i) /\ NotPromised(i) /\ Reaches(p, i)
      /\ refs' = [refs EXCEPT ![i] = @ + 1]
      /\ UNCHANGED <<online, place, docHouse, owner>>
  BY DEF RequestTrade
<1>3. tradeItem[p] = NoItem
  BY <1>2, MayStartIsFree DEF IInv
<1>4. i \in Thing /\ i # NoItem
  BY TradeAssumption DEF Thing
<1>5. Starts(p, q, i)
  BY <1>1, <1>2, StartStarts DEF IInv
<1>6. PartnersAgree'
  BY <1>1, <1>2, <1>4, <1>5, StartsKeepAgreement DEF IInv
<1>7. \A u \in tradeItems : ContentsIn(place, i) \cap ContentsIn(place, u) = {}
  BY <1>2, NotPromisedIsApart DEF IInv, TypeOK
<1>8. PromisedOnce' /\ OfferIsIntact' /\ OwnDocuments'
  <2>1. ReachesIn(place, p, i) /\ place' = place
    BY <1>2, ReachesIsIn
  <2>. QED
    BY <1>1, <1>3, <1>4, <1>5, <1>7, <2>1, StartsKeepPromises DEF IInv
<1>9. RefsReturned' /\ refs' \in [Thing -> 0 .. 2]
  <2>1. i \notin tradeItems
    BY <1>2 DEF NotPromised
  <2>. QED
    BY <1>1, <1>2, <1>3, <1>5, <1>8, <2>1, RequestsTakeRefs DEF IInv
<1>10. TypeOK'
  <2>1. /\ tradeState' \in [Player -> {"none", "initiated", "acknowledge", "accept"}]
        /\ tradePartner' \in [Player -> Player \cup {NoPlayer}]
        /\ tradeItem' \in [Player -> Thing \cup {NoItem}]
        /\ tradeItems' \in SUBSET Thing
        /\ promise' \in [Player -> SUBSET Thing]
    BY <1>1, <1>2, <1>4, StartsKeepTypes DEF IInv
  <2>. QED
    BY <1>2, <1>9, <2>1 DEF IInv, TypeOK
<1>. QED
  BY <1>2, <1>6, <1>8, <1>9, <1>10 DEF IInv

LEMMA HouseSellKeepsInv ==
    ASSUME IInv, NEW p \in Player, NEW q \in Player, HouseSell(p, q), ~UNCHANGED vars
    PROVE  IInv'
<1>1. q \in Player \ {p} /\ {p, q} \subseteq online /\ UNCHANGED <<online, place, owner>>
  BY DEF HouseSell
<1>2. PICK h \in House :
         /\ MayStart(p, q) /\ StartTrade(p, q, Document(p))
         /\ docHouse' = [docHouse EXCEPT ![p] = h]
         /\ refs' = [refs EXCEPT ![Document(p)] = @ + 2]
  BY <1>1 DEF HouseSell, OfferDocument, Owned, vars
<1>3. tradeItem[p] = NoItem
  BY <1>2, MayStartIsFree DEF IInv
<1>4. Document(p) \in Thing /\ Document(p) \notin Item /\ Document(p) # NoItem
  BY ThingsAreApart
<1>5. Starts(p, q, Document(p))
  BY <1>1, <1>2, StartStarts DEF IInv
<1>6. PartnersAgree'
  BY <1>1, <1>2, <1>4, <1>5, StartsKeepAgreement DEF IInv
<1>7. \A u \in tradeItems : ContentsIn(place, Document(p)) \cap ContentsIn(place, u) = {}
  <2>1. \A u \in tradeItems : u # Document(p)
    BY <1>3, <1>4 DEF IInv, PromisedOnce, Offers, OwnDocuments
  <2>. QED
    BY <2>1, DocumentIsApart DEF IInv, TypeOK
<1>8. PromisedOnce' /\ OfferIsIntact' /\ OwnDocuments'
  BY <1>1, <1>3, <1>4, <1>5, <1>7, StartsKeepPromises DEF IInv
<1>9. /\ RefsReturned' /\ refs' \in [Thing -> 0 .. 2]
      /\ docHouse' \in [Player -> House \cup {NoHouse}]
  BY <1>1, <1>2, <1>3, <1>5, <1>8, DocumentsTakeRefs DEF IInv
<1>10. TypeOK'
  <2>1. /\ tradeState' \in [Player -> {"none", "initiated", "acknowledge", "accept"}]
        /\ tradePartner' \in [Player -> Player \cup {NoPlayer}]
        /\ tradeItem' \in [Player -> Thing \cup {NoItem}]
        /\ tradeItems' \in SUBSET Thing
        /\ promise' \in [Player -> SUBSET Thing]
    BY <1>1, <1>2, <1>4, StartsKeepTypes DEF IInv
  <2>. QED
    BY <1>1, <1>9, <2>1 DEF IInv, TypeOK
<1>. QED
  BY <1>1, <1>6, <1>8, <1>9, <1>10 DEF IInv

LEMMA AcceptTradeKeepsInv ==
    ASSUME IInv, NEW p \in Player, AcceptTrade(p)
    PROVE  IInv'
<1>1. /\ tradeState[p] \in {"acknowledge", "initiated"} /\ tradePartner[p] # NoPlayer
      /\ tradeState' = [tradeState EXCEPT ![p] = "accept"]
      /\ UNCHANGED <<online, tradePartner, tradeItem, tradeItems, refs, place, docHouse, owner, promise>>
  BY DEF AcceptTrade, MayAccept
<1>2. TypeOK'
  BY <1>1 DEF IInv, TypeOK
<1>3. PartnersAgree'
  <2>1. tradeState'[p] = "accept" /\ \A r \in Player \ {p} : tradeState'[r] = tradeState[r]
    BY <1>1 DEF IInv, TypeOK
  <2>2. ASSUME NEW r \in Player
        PROVE  LET s == tradePartner[r]
               IN  IF s = NoPlayer
                   THEN tradeState'[r] = "none" /\ tradeItem[r] = NoItem
                   ELSE /\ {r, s} \subseteq online /\ s # r /\ tradePartner[s] = r
                        /\ tradeState'[r] # "none"
                        /\ tradeState'[r] = "initiated" => tradeItem[r] # NoItem
                        /\ tradeState'[r] = "acknowledge" => tradeItem[r] = NoItem
                        /\ {tradeItem[r], tradeItem[s]} # {NoItem}
    <3>1. CASE r = p
      BY <1>1, <2>1, <3>1 DEF IInv, PartnersAgree
    <3>2. CASE r # p
      BY <2>1, <3>2 DEF IInv, PartnersAgree
    <3>. QED
      BY <3>1, <3>2
  <2>. QED
    BY <1>1, <2>2 DEF PartnersAgree
<1>4. PromisedOnce' /\ OfferIsIntact'
  BY <1>1, PromisedOnceIsOnce, OfferIsIntactIsIntact DEF IInv
<1>5. RefsReturned' /\ OwnDocuments'
  BY <1>1 DEF IInv, RefsReturned, Offers, OwnDocuments, Document
<1>. QED
  BY <1>1, <1>2, <1>3, <1>4, <1>5 DEF IInv

\* A trade that ends while nothing moves.
LEMMA ClosingKeepsInv ==
    ASSUME IInv, NEW p \in Player, tradePartner[p] # NoPlayer, CloseTrades({p}),
           place' = place, owner' = owner, online' \in {online, online \ {p}}
    PROVE  IInv'
<1>. DEFINE B == BothSides({p})
<1>1. Ends(B) /\ p \in B
  BY CloseEnds DEF IInv, BothSides
<1>2. Steady(B)
  BY DEF Steady
<1>3. /\ online' \in SUBSET Player /\ owner' \in [House -> Player \cup {NoPlayer}]
      /\ place' \in [Item -> Player \cup Bag \cup {Ground}] /\ Rooted(place')
  BY DEF IInv, TypeOK
<1>4. \A r \in Player \ B : r \in online => r \in online'
  <2>. HIDE DEF B
  <2>. QED  BY <1>1
<1>. QED
  <2>1. \A r \in Player \ B : r \in online /\ tradePartner[r] # NoPlayer => r \in online'
    BY <1>4
  <2>. QED  BY <1>1, <1>2, <1>3, <2>1, EndsKeepInv

LEMMA MoveItemKeepsInv ==
    ASSUME IInv, NEW p \in Player, NEW i \in Item, NEW to \in Player \cup Bag \cup {Ground},
           MoveItem(p, i, to)
    PROVE  IInv'
<1>. DEFINE T == {t \in Offers : Disturbs(i, t) \/ Enters(to, t)}
            B == BothSides(Traders(T))
<1>1. /\ place' \in [Item -> Player \cup Bag \cup {Ground}]
      /\ Moves(place, place', {i})
      /\ CloseTrades(Traders(T))
      /\ Ends(B)
      /\ Untouched({i}, B)
  BY MoveItemMoves DEF IInv
<1>. HIDE DEF T
<1>2. Steady(B) /\ Rooted(place')
  BY <1>1, UntouchedIsSteady, MovesKeepRoots DEF IInv
<1>3. online' = online /\ owner' = owner
  BY DEF MoveItem
<1>4. online' \in SUBSET Player /\ owner' \in [House -> Player \cup {NoPlayer}]
  BY <1>3 DEF IInv, TypeOK
<1>. QED
  BY <1>1, <1>2, <1>3, <1>4, EndsKeepInv

LEMMA ExchangeKeepsInv ==
    ASSUME IInv, NEW p \in Player, Exchange(p)
    PROVE  IInv'
<1>. DEFINE q == tradePartner[p]
            S == Enders(p)
<1>0. TypeOK /\ PartnersAgree /\ Distinct(tradeItem)
  BY PromisedOnceIsOnce, OnceIsDistinct DEF IInv
<1>1. /\ q \in Player \ {p}
      /\ place' \in [Item -> Player \cup Bag \cup {Ground}]
      /\ Moves(place, place', Traded(p))
      /\ CloseTrades(S)
      /\ Ends(BothSides(S))
      /\ Untouched(Traded(p), BothSides(S))
  BY <1>0, ExchangeMoves
<1>2. Steady(BothSides(S)) /\ Rooted(place')
  BY <1>1, UntouchedIsSteady, MovesKeepRoots DEF IInv
<1>3. online' = online /\ online \in SUBSET Player
  BY DEF Exchange, IInv, TypeOK
<1>4. owner' \in [House -> Player \cup {NoPlayer}]
  <2>1. owner' = [h \in House |-> IF tradeItem[q] = Document(q) /\ docHouse[q] = h THEN p
                                  ELSE IF tradeItem[p] = Document(p) /\ docHouse[p] = h THEN q
                                  ELSE owner[h]]
    BY DEF Exchange
  <2>. HIDE DEF q
  <2>. QED  BY <1>1, <2>1 DEF IInv, TypeOK
<1>. QED
  <2>. HIDE DEF S
  <2>. QED  BY <1>1, <1>2, <1>3, <1>4, EndsKeepInv

\* Who is in the game and who owns a house is nothing to those who trade not.
LEMMA OthersKeepInv ==
    ASSUME IInv, UNCHANGED <<tradeVars, place>>, online' \in SUBSET Player,
           owner' \in [House -> Player \cup {NoPlayer}],
           \A p \in online : tradePartner[p] # NoPlayer => p \in online'
    PROVE  IInv'
<1>1. UNCHANGED <<tradeState, tradePartner, tradeItem, tradeItems, refs, docHouse, promise, place>>
  BY DEF tradeVars
<1>2. TypeOK'
  BY <1>1 DEF IInv, TypeOK
<1>3. PartnersAgree'
  <2>1. ASSUME NEW p \in Player, tradePartner[p] # NoPlayer
        PROVE  p \in online' /\ tradePartner[p] \in online'
    <3>1. /\ p \in online /\ tradePartner[p] \in online
          /\ tradePartner[tradePartner[p]] = p /\ p # NoPlayer
      BY <2>1, TradeAssumption DEF IInv, PartnersAgree
    <3>. QED
      BY <2>1, <3>1
  <2>. QED
    BY <1>1, <2>1 DEF IInv, PartnersAgree
<1>4. PromisedOnce' /\ OfferIsIntact'
  BY <1>1, PromisedOnceIsOnce, OfferIsIntactIsIntact DEF IInv
<1>5. RefsReturned' /\ OwnDocuments'
  BY <1>1 DEF IInv, RefsReturned, Offers, OwnDocuments, Document
<1>. QED
  BY <1>1, <1>2, <1>3, <1>4, <1>5 DEF IInv

LEMMA NextKeepsInv == IInv /\ [Next]_vars => IInv'
<1>. SUFFICES ASSUME IInv, [Next]_vars
              PROVE  IInv'
  OBVIOUS
<1>1. CASE UNCHANGED vars
  <2>1. UNCHANGED <<tradeVars, place, online, owner>>
    BY <1>1 DEF vars
  <2>. QED
    BY <2>1, OthersKeepInv DEF IInv, TypeOK
<1>2. ASSUME NEW p \in Player, NEW q \in Player, NEW i \in Item, RequestTrade(p, q, i)
      PROVE  IInv'
  BY <1>2, RequestTradeKeepsInv
<1>3. ASSUME NEW p \in Player, NEW q \in Player, HouseSell(p, q)
      PROVE  IInv'
  BY <1>1, <1>3, HouseSellKeepsInv
<1>4. ASSUME NEW p \in Player, AcceptTrade(p)
      PROVE  IInv'
  BY <1>4, AcceptTradeKeepsInv
<1>5. ASSUME NEW p \in Player, AcceptFails(p)
      PROVE  IInv'
  BY <1>5, ClosingKeepsInv DEF AcceptFails, MayAccept
<1>6. ASSUME NEW p \in Player, Exchange(p)
      PROVE  IInv'
  BY <1>6, ExchangeKeepsInv
<1>7. ASSUME NEW p \in Player, WalkAway(p)
      PROVE  IInv'
  BY <1>7, ClosingKeepsInv DEF WalkAway, CloseTrade
<1>8. ASSUME NEW p \in Player, Logout(p)
      PROVE  IInv'
  <2>1. online' = online \ {p} /\ place' = place /\ owner' = owner
    BY <1>8 DEF Logout
  <2>2. CASE tradePartner[p] # NoPlayer
    <3>1. CloseTrades({p})
      BY <1>8, <2>2 DEF Logout
    <3>. QED
      BY <2>1, <2>2, <3>1, ClosingKeepsInv
  <2>3. CASE tradePartner[p] = NoPlayer
    <3>1. UNCHANGED tradeVars
      BY <1>8, <2>3 DEF Logout
    <3>. QED
      BY <2>1, <2>3, <3>1, OthersKeepInv DEF IInv, TypeOK
  <2>. QED
    BY <2>2, <2>3
<1>9. ASSUME NEW p \in Player, Login(p)
      PROVE  IInv'
  <2>1. UNCHANGED <<tradeVars, place, owner>> /\ online' = online \cup {p}
    BY <1>9 DEF Login
  <2>. QED
    BY <2>1, OthersKeepInv DEF IInv, TypeOK
<1>10. ASSUME NEW p \in Player, NEW i \in Item, NEW to \in Player \cup Bag \cup {Ground}, MoveItem(p, i, to)
       PROVE  IInv'
  BY <1>10, MoveItemKeepsInv
<1>11. ASSUME NEW p \in Player, NEW h \in House, HouseBuy(p, h)
       PROVE  IInv'
  <2>1. UNCHANGED <<tradeVars, place, online>> /\ owner' = [owner EXCEPT ![h] = p]
    BY <1>11 DEF HouseBuy
  <2>. QED
    BY <2>1, OthersKeepInv DEF IInv, TypeOK
<1>12. ASSUME NEW h \in House, HouseLeave(h)
       PROVE  IInv'
  <2>1. UNCHANGED <<tradeVars, place, online>> /\ owner' = [owner EXCEPT ![h] = NoPlayer]
    BY <1>12 DEF HouseLeave
  <2>. QED
    BY <2>1, OthersKeepInv DEF IInv, TypeOK
<1>. QED
  BY <1>1, <1>2, <1>3, <1>4, <1>5, <1>6, <1>7, <1>8, <1>9, <1>10, <1>11, <1>12 DEF Next

-----------------------------------------------------------------------------
(* The theorems. *)

LEMMA InvHolds == Spec => []IInv
BY InitInv, NextKeepsInv, PTL DEF Spec

\* Every variable of the trade keeps its type, and no reference count of an
\* item passes two or falls below none (Thing::addRef and unRef).
THEOREM TypeCorrect == Spec => []TypeOK
BY InvHolds, PTL DEF IInv

\* The two players of a trade agree on it at every moment (internalStartTrade,
\* playerAcceptTrade and internalCloseTrade).
THEOREM BothSidesAgree == Spec => []PartnersAgree
BY InvHolds, PTL DEF IInv

\* No item is promised twice, by itself or inside a bag (playerRequestTrade).
THEOREM NothingIsPromisedTwice == Spec => []PromisedOnce
BY InvHolds, PTL DEF IInv

\* Every reference taken for a trade is given back as it ends, and a house's
\* document is freed (internalCloseTrade, TransferItem::onTradeEvent).
THEOREM ReferencesAreReturned == Spec => []RefsReturned
BY InvHolds, PTL DEF IInv

\* What was shown to the partner is what will be handed over: a move that would
\* change it closes the trade (Player::checkTradeState).
THEOREM OffersDoNotChange == Spec => []OfferIsIntact
BY InvHolds, PTL DEF IInv

\* No bag is ever inside itself, whatever is exchanged for what.
THEOREM NoBagIsInItself == Spec => []Rooted(place)
BY InvHolds, PTL DEF IInv

-----------------------------------------------------------------------------
(* Who has what. *)

\* An item ends up with x: it or a bag around it lies there.
EndsUp(f, i, x) == \E j \in {i} \cup In(f, i) : f[j] = x

LEMMA OneEnd ==
    ASSUME NEW f, NEW i, NEW x, NEW y, x \notin Bag, y \notin Bag, EndsUp(f, i, x), EndsUp(f, i, y)
    PROVE  x = y
BY OneTop DEF EndsUp

\* A bag ends up with what is in it.
LEMMA BagEndsUp ==
    ASSUME NEW f, NEW i, NEW x, x \notin Bag, EndsUp(f, i, x), NEW m \in {i} \cup In(f, i)
    PROVE  EndsUp(f, m, x)
<1>1. PICK j \in {i} \cup In(f, i) : f[j] = x
  BY DEF EndsUp
<1>2. In(f, j) = {}
  BY <1>1, InByStep
<1>3. j \in {m} \cup In(f, m)
  BY <1>1, <1>2, InIsLinear
<1>. QED
  BY <1>1, <1>3 DEF EndsUp

LEMMA AboveEndsUp ==
    ASSUME NEW i \in Item, NEW x \in Player \cup {Ground}
    PROVE  /\ x \in Above(i) <=> EndsUp(place, i, x)
           /\ x \in Above(i)' <=> EndsUp(place', i, x)
<1>1. x # i /\ x \notin In(place, i) /\ x \notin In(place', i)
  BY InIsClosed, TradeAssumption
<1>. QED
  BY <1>1, BagsOfIsIn DEF Above, EndsUp

LEMMA ReachesEndsUp ==
    ASSUME NEW i \in Item, NEW p \in Player
    PROVE  Reaches(p, i) <=> EndsUp(place, i, p) \/ EndsUp(place, i, Ground)
<1>1. /\ p \in Above(i) <=> EndsUp(place, i, p)
      /\ Ground \in Above(i) <=> EndsUp(place, i, Ground)
  BY AboveEndsUp
<1>. QED
  BY <1>1 DEF Reaches

\* What is not moved, and in nothing that is, ends up where it did.
LEMMA StillEndsUp ==
    ASSUME NEW f, NEW g, NEW M, Moves(f, g, M), NEW i \in Item \ M, In(f, i) \cap M = {}, NEW x
    PROVE  EndsUp(g, i, x) <=> EndsUp(f, i, x)
<1>1. In(g, i) = In(f, i)
  BY PathsStay
<1>2. \A j \in {i} \cup In(f, i) : j \in Item \ M
  BY InIsClosed, TradeAssumption
<1>. QED
  BY <1>1, <1>2 DEF EndsUp, Moves

\* What is moved ends up with what it is put into.
LEMMA MovedEndsUp ==
    ASSUME NEW f, NEW g, NEW M, Moves(f, g, M), NEW m \in M, NEW x, x \notin Bag, EndsUp(g, m, x)
    PROVE  /\ g[m] \notin Bag => x = g[m]
           /\ g[m] \in Bag => EndsUp(f, g[m], x)
<1>1. ASSUME g[m] \notin Bag
      PROVE  x = g[m]
  BY <1>1, InByStep DEF EndsUp
<1>2. ASSUME g[m] \in Bag
      PROVE  EndsUp(f, g[m], x)
  <2>1. g[m] \in Item \ M /\ In(f, g[m]) \cap M = {}
    BY <1>2, TradeAssumption DEF Moves
  <2>2. EndsUp(g, g[m], x)
    <3>1. g[m] \in In(g, m)
      BY <1>2, InIsClosed
    <3>. QED  BY <3>1, BagEndsUp
  <2>. QED
    BY <2>1, <2>2, StillEndsUp
<1>. QED
  BY <1>1, <1>2

\* What is in a bag that moves stays in it, if no bag between them moves.
LEMMA CarriedAlong ==
    ASSUME NEW f, NEW g, NEW M, Moves(f, g, M), NEW i \in Item, NEW m \in M \cap In(f, i),
           \A n \in M \cap ({i} \cup In(f, i)) : n = m, i # m
    PROVE  m \in In(g, i)
<1>. SUFFICES ASSUME m \notin In(g, i)
              PROVE  FALSE
  OBVIOUS
<1>. DEFINE S == {x \in Bag : x \in In(f, i) /\ x \in In(g, i)}
<1>1. ASSUME NEW k \in S \cup {i}, f[k] \in Bag
      PROVE  f[k] \in S
  <2>1. k \in Item /\ k \in {i} \cup In(f, i) /\ k \in {i} \cup In(g, i) /\ k # m
    BY TradeAssumption
  <2>2. g[k] = f[k]
    BY <2>1 DEF Moves
  <2>3. f[k] \in In(f, i) /\ f[k] \in In(g, i)
    BY <1>1, <2>1, <2>2, InIsClosed
  <2>. QED
    BY <1>1, <2>3
<1>2. In(f, i) \subseteq S
  <2>1. S \in SUBSET Bag
    OBVIOUS
  <2>. HIDE DEF S
  <2>. QED  BY <1>1, <2>1, InIsLeast
<1>. QED
  BY <1>2

\* What goes from one to another went with what has been moved.
LEMMA MovesCarry ==
    ASSUME NEW f, NEW g, NEW M, Moves(f, g, M), NEW i \in Item,
           \A m, n \in M \cap ({i} \cup In(f, i)) : m = n,
           NEW x, NEW y, x \notin Bag, y \notin Bag, x # y, EndsUp(f, i, x), EndsUp(g, i, y)
    PROVE  \E m \in M : m \in {i} \cup In(f, i) /\ EndsUp(f, m, x) /\ EndsUp(g, m, y)
<1>1. PICK m \in M : m \in {i} \cup In(f, i)
  <2>. SUFFICES ASSUME i \in Item \ M, In(f, i) \cap M = {}
                PROVE  FALSE
    OBVIOUS
  <2>1. EndsUp(f, i, y)
    BY StillEndsUp
  <2>. QED
    BY <2>1, OneEnd
<1>2. EndsUp(f, m, x)
  BY <1>1, BagEndsUp
<1>3. m \in {i} \cup In(g, i)
  BY <1>1, CarriedAlong
<1>4. EndsUp(g, m, y)
  BY <1>3, BagEndsUp
<1>. QED
  BY <1>1, <1>2, <1>4

\* A player who moves an item keeps it, or puts it on the ground.
LEMMA MoveItemHandsNothing ==
    ASSUME IInv, NEW r \in Player, NEW m \in Item, NEW to \in Player \cup Bag \cup {Ground},
           MoveItem(r, m, to),
           NEW i \in Item, NEW p \in Player, NEW q \in Player, p # q,
           EndsUp(place, i, p), EndsUp(place', i, q)
    PROVE  FALSE
<1>1. p \notin Bag /\ q \notin Bag /\ r \notin Bag /\ Ground \notin Bag /\ Ground \notin Player
  BY TradeAssumption
<1>. DEFINE T == {t \in Offers : Disturbs(m, t) \/ Enters(to, t)}
<1>2. Moves(place, place', {m})
  <2>1. T = {t \in Offers : Disturbs(m, t) \/ Enters(to, t)}
    OBVIOUS
  <2>. HIDE DEF T
  <2>. QED  BY <2>1, MoveItemMoves DEF IInv
<1>3. EndsUp(place, m, p) /\ EndsUp(place', m, q)
  BY <1>1, <1>2, MovesCarry
<1>4. p = r
  <2>1. EndsUp(place, m, r) \/ EndsUp(place, m, Ground)
    BY ReachesEndsUp DEF MoveItem
  <2>. QED
    BY <1>1, <1>3, <2>1, OneEnd
<1>5. /\ place'[m] = to
      /\ to \in {r, Ground} \/ (to \in Bag /\ Reaches(r, to))
  BY DEF MoveItem, IInv, TypeOK
<1>6. CASE to \in {r, Ground}
  <2>1. q = to
    BY <1>1, <1>2, <1>3, <1>5, <1>6, MovedEndsUp
  <2>. QED
    BY <1>1, <1>4, <1>6, <2>1
<1>7. CASE to \in Bag /\ Reaches(r, to)
  <2>1. EndsUp(place, to, q)
    BY <1>1, <1>2, <1>3, <1>5, <1>7, MovedEndsUp
  <2>2. EndsUp(place, to, r) \/ EndsUp(place, to, Ground)
    BY <1>7, ReachesEndsUp, TradeAssumption
  <2>. QED
    BY <1>1, <1>4, <2>1, <2>2, OneEnd
<1>. QED
  BY <1>5, <1>6, <1>7

\* What is put where there is room for s ends up with s.
LEMMA RoomEndsUp ==
    ASSUME NEW s \in Player, NEW t, NEW M, Moves(place, place', M), NEW m \in M,
           place'[m] \in RoomOf(s, t), NEW q \in Player, EndsUp(place', m, q)
    PROVE  q = s
<1>1. s \notin Bag /\ q \notin Bag
  BY TradeAssumption
<1>2. place'[m] \in {s} \cup Bag /\ (place'[m] \in Bag => s \in Above(place'[m]))
  BY RoomIsFree
<1>3. CASE place'[m] \in Bag
  <2>1. EndsUp(place, place'[m], q)
    BY <1>1, <1>3, MovedEndsUp
  <2>2. EndsUp(place, place'[m], s)
    BY <1>2, <1>3, AboveEndsUp, TradeAssumption
  <2>. QED
    BY <1>1, <2>1, <2>2, OneEnd
<1>4. CASE place'[m] \notin Bag
  BY <1>1, <1>2, <1>4, MovedEndsUp
<1>. QED
  BY <1>3, <1>4

\* An item that a trade hands from p to q was p's side of it.
LEMMA ExchangeHandsOver ==
    ASSUME IInv, NEW e \in Player, Exchange(e),
           NEW i \in Item, NEW p \in Player, NEW q \in Player, p # q,
           EndsUp(place, i, p), EndsUp(place', i, q)
    PROVE  /\ tradePartner[p] = q /\ i \in promise[p]
           /\ "accept" \in {tradeState[p], tradeState[q]}
           /\ tradeItem[q] # NoItem
<1>. DEFINE o == tradePartner[e]
<1>0. TypeOK /\ PartnersAgree /\ Distinct(tradeItem)
  BY PromisedOnceIsOnce, OnceIsDistinct DEF IInv
<1>1. /\ o \in Player \ {e} /\ tradePartner[o] = e /\ tradeItem[e] # NoItem /\ tradeItem[o] # NoItem
      /\ tradeItem[o] \in Item => place'[tradeItem[o]] \in RoomOf(e, tradeItem[o])
      /\ tradeItem[e] \in Item => place'[tradeItem[e]] \in RoomOf(o, tradeItem[e])
      /\ Moves(place, place', Traded(e))
  BY <1>0, ExchangeMoves
<1>2. Traded(e) = {tradeItem[e], tradeItem[o]} \cap Item
  BY DEF Traded
<1>3. tradeState[o] = "accept"
  BY DEF Exchange, BothAccept
<1>. HIDE DEF o
<1>4. p \notin Bag /\ q \notin Bag /\ Ground \notin Bag /\ Ground \notin Player
  BY TradeAssumption
<1>5. Once(place, tradeItem, tradeItems) /\ Intact(place, tradeItem, promise)
  BY PromisedOnceIsOnce, OfferIsIntactIsIntact DEF IInv
<1>6. \A m, n \in Traded(e) \cap ({i} \cup In(place, i)) : m = n
  <2>1. ContentsIn(place, tradeItem[e]) \cap ContentsIn(place, tradeItem[o]) = {}
    BY <1>1, <1>5 DEF Once
  <2>2. \A m \in {i} \cup In(place, i) : i \in ContentsIn(place, m)
    BY DEF ContentsIn
  <2>. QED
    BY <1>2, <2>1, <2>2
<1>7. PICK m \in Traded(e) : m \in {i} \cup In(place, i) /\ EndsUp(place, m, p) /\ EndsUp(place', m, q)
  BY <1>1, <1>4, <1>6, MovesCarry
<1>8. ASSUME NEW s \in Player, NEW t \in Player, m = tradeItem[s], place'[m] \in RoomOf(t, m)
      PROVE  p = s /\ q = t /\ i \in promise[s]
  <2>1. m \in Item
    BY <1>2
  <2>2. ContentsIn(place, m) = promise[s] /\ ReachesIn(place, s, m)
    BY <1>5, <1>8, <2>1 DEF Intact
  <2>3. EndsUp(place, m, s) \/ EndsUp(place, m, Ground)
    BY <2>1, <2>2, ReachesIsIn, ReachesEndsUp
  <2>4. p = s
    BY <1>4, <1>7, <2>3, OneEnd, TradeAssumption
  <2>5. q = t
    BY <1>1, <1>7, <1>8, RoomEndsUp
  <2>6. i \in promise[s]
    BY <1>7, <2>2 DEF ContentsIn
  <2>. QED
    BY <2>4, <2>5, <2>6
<1>9. CASE m = tradeItem[e]
  <2>1. p = e /\ q = o /\ i \in promise[e]
    BY <1>1, <1>2, <1>8, <1>9
  <2>. QED
    BY <1>1, <1>3, <2>1 DEF o
<1>10. CASE m = tradeItem[o]
  <2>1. p = o /\ q = e /\ i \in promise[o]
    BY <1>1, <1>2, <1>8, <1>10
  <2>. QED
    BY <1>1, <1>3, <2>1
<1>. QED
  BY <1>2, <1>9, <1>10

LEMMA StepHandsOver ==
    ASSUME IInv, [Next]_vars,
           NEW i \in Item, NEW p \in Player, NEW q \in Player, p # q, p \in Above(i), q \in Above(i)'
    PROVE  /\ tradePartner[p] = q /\ i \in promise[p]
           /\ "accept" \in {tradeState[p], tradeState[q]}
           /\ tradeItem[q] # NoItem
<1>1. EndsUp(place, i, p) /\ EndsUp(place', i, q)
  BY AboveEndsUp
<1>2. place' # place
  BY <1>1, OneEnd, TradeAssumption
<1>3. ASSUME NEW r \in Player, NEW m \in Item, NEW to \in Player \cup Bag \cup {Ground}, MoveItem(r, m, to)
      PROVE  FALSE
  BY <1>1, <1>3, MoveItemHandsNothing
<1>4. ASSUME NEW e \in Player, Exchange(e)
      PROVE  /\ tradePartner[p] = q /\ i \in promise[p]
             /\ "accept" \in {tradeState[p], tradeState[q]}
             /\ tradeItem[q] # NoItem
  BY <1>1, <1>4, ExchangeHandsOver
<1>5. ASSUME NEW r \in Player, \/ AcceptTrade(r) \/ AcceptFails(r) \/ WalkAway(r) \/ Logout(r) \/ Login(r)
                               \/ \E s \in Player : HouseSell(r, s) \/ \E j \in Item : RequestTrade(r, s, j)
                               \/ \E h \in House : HouseBuy(r, h)
      PROVE  FALSE
  BY <1>2, <1>5 DEF AcceptTrade, AcceptFails, WalkAway, CloseTrade, Logout, Login, HouseSell, RequestTrade,
                    HouseBuy
<1>6. ASSUME UNCHANGED vars \/ \E h \in House : HouseLeave(h)
      PROVE  FALSE
  BY <1>2, <1>6 DEF vars, HouseLeave
<1>. QED
  BY <1>3, <1>4, <1>5, <1>6 DEF Next

\* Nothing goes from one player to another but by a trade of the two, accepted
\* and for something in return (playerAcceptTrade, internalMoveItem).
THEOREM NothingGoesForNothing == Spec => HandedOverByTrade
<1>1. IInv /\ [Next]_vars =>
         [\A i \in Item, p, q \in Player :
             p # q /\ p \in Above(i) /\ q \in Above(i)' =>
                /\ tradePartner[p] = q /\ i \in promise[p]
                /\ "accept" \in {tradeState[p], tradeState[q]}
                /\ tradeItem[q] # NoItem]_vars
  BY StepHandsOver
<1>. QED
  BY <1>1, InvHolds, PTL DEF Spec, HandedOverByTrade
=============================================================================
