------------------------------ MODULE SafeTrade ------------------------------
(***************************************************************************)
(* The safe trade between two players (game.cpp) of an item each, or of a  *)
(* house by its transfer document (talkaction.cpp, house.cpp), with what   *)
(* may happen to the players, the items and the houses meanwhile           *)
(* (player.cpp).  Every action is one task of the dispatcher thread.       *)
(*                                                                         *)
(* The players stand next to each other until one walks away: an item on   *)
(* the ground is within everyone's reach.  What there is room for and what *)
(* the scripts allow is any choice.  Bound: no two items stack.            *)
(***************************************************************************)
EXTENDS Integers

CONSTANTS
    Player, Item, House,
    Bag,          \* the items that are containers
    Ground,       \* any tile within reach
    NoPlayer, NoItem, NoHouse,
    Premium,      \* the players with a premium account
    NeedPremium   \* ConfigManager::HOUSE_NEED_PREMIUM

ASSUME TradeAssumption ==
    /\ Bag \subseteq Item
    /\ NoPlayer \notin Player /\ NoItem \notin Item /\ NoHouse \notin House
    /\ Player \cap Item = {} /\ Ground \notin Player \cup Item
    /\ Premium \subseteq Player /\ NeedPremium \in BOOLEAN

VARIABLES
    online,       \* the players in the game
    tradeState,   \* Player::tradeState
    tradePartner, \* Player::tradePartner
    tradeItem,    \* Player::tradeItem
    tradeItems,   \* Game::tradeItems: the items it refers to
    refs,         \* the reference counts of the items and documents
    place,        \* where an item is: in a player's inventory, a bag, on the ground
    docHouse,     \* the house of the document in Player::transferContainer
    owner,        \* House::owner
    promise       \* history: what an offer held when it was made

tradeVars == <<tradeState, tradePartner, tradeItem, tradeItems, refs, docHouse, promise>>
vars == <<tradeVars, online, place, owner>>

Document(p) == <<"document", p>>
Documents == {Document(p) : p \in Player}
Thing == Item \cup Documents

\* A document is an item of its own, made for the offer (TransferItem).
ASSUME DocumentAssumption == Documents \cap (Item \cup {NoItem}) = {}

\* The bag the item is in, and those its members are in, are in S.
HasBagsOf(S, i) == \A j \in S \cup {i} : place[j] \in Bag => place[j] \in S

\* The bags an item is in, at any depth: no more than it takes to have them all.
BagsOf(i) == {b \in Bag : \A S \in SUBSET Bag : HasBagsOf(S, i) => b \in S}

\* An item and all it is in, up to the player or the ground.
Above(i) == {i} \cup BagsOf(i) \cup {place[j] : j \in {i} \cup BagsOf(i)}

\* Container::isHoldingItem, at any depth.
Holds(b, i) == i \in Item /\ b \in BagsOf(i)

\* An offer and what it holds: what is handed over when the trade succeeds.
Contents(t) == {t} \cup {i \in Item : Holds(t, i)}

\* The player has it, or it lies on the ground.
Reaches(p, i) == Above(i) \cap {p, Ground} # {}

Offers == {tradeItem[p] : p \in Player} \ {NoItem}

-----------------------------------------------------------------------------
(* The trade. *)

\* Mutant: internalCloseTrade that closes one side only.
OneSide(S) == S

\* The players whose trade ends with those of S.
BothSides(S) == S \cup {tradePartner[p] : p \in S}

\* Mutant: a document that the close does not free (no onTradeEvent).
ReleasedByGame(dropped) ==
    [t \in Thing |-> IF t \in dropped THEN refs[t] - 1 ELSE refs[t]]

\* The game gives back the reference it has for each of tradeItems; a document
\* is freed by onTradeEvent, or when it is removed from its buyer's inventory.
Released(dropped) ==
    [t \in Thing |-> refs[t] - (IF t \in dropped \cap tradeItems THEN 1 ELSE 0)
                            - (IF t \in dropped \cap Documents THEN 1 ELSE 0)]

\* internalCloseTrade for the players of S, and what playerAcceptTrade does at
\* its end: both sides of their trades are reset.
CloseTrades(S) ==
    LET both == BothSides(S)
        dropped == {tradeItem[p] : p \in Player \cap both}
    IN  /\ tradeState' = [p \in Player |-> IF p \in both THEN "none" ELSE tradeState[p]]
        /\ tradePartner' = [p \in Player |-> IF p \in both THEN NoPlayer ELSE tradePartner[p]]
        /\ tradeItem' = [p \in Player |-> IF p \in both THEN NoItem ELSE tradeItem[p]]
        /\ tradeItems' = tradeItems \ dropped
        /\ refs' = Released(dropped)
        /\ docHouse' = [p \in Player |-> IF Document(p) \in dropped THEN NoHouse ELSE docHouse[p]]
        /\ promise' = [p \in Player |-> IF p \in both THEN {} ELSE promise[p]]

\* internalStartTrade, when it does not refuse.
MayStart(p, q) ==
    /\ tradeState[p] = "none" \/ (tradeState[p] = "acknowledge" /\ tradePartner[p] = q)
    /\ tradeState[q] = "none" \/ tradePartner[q] = p

StartTrade(p, q, t) ==
    /\ tradeItem' = [tradeItem EXCEPT ![p] = t]
    /\ tradeState' = [tradeState EXCEPT ![p] = "initiated",
                         ![q] = IF @ = "none" THEN "acknowledge" ELSE @]
    /\ tradePartner' = [tradePartner EXCEPT ![p] = q,
                         ![q] = IF tradeState[q] = "none" THEN p ELSE @]
    /\ tradeItems' = tradeItems \cup {t}
    /\ promise' = [promise EXCEPT ![p] = Contents(t)]

\* Mutant: playerRequestTrade that looks for the item alone.
NotPromisedAlone(i) == i \notin tradeItems

\* Nothing that is being traded is the item, in it or around it.
NotPromised(i) ==
    \A t \in tradeItems : t # i /\ ~Holds(i, t) /\ (t \in Item => ~Holds(t, i))

\* playerRequestTrade.  The walk to a distant item ends in the same request.
RequestTrade(p, q, i) ==
    /\ p \in online /\ q \in online \ {p}
    /\ Reaches(p, i) /\ NotPromised(i)
    /\ MayStart(p, q)
    /\ StartTrade(p, q, i)
    /\ refs' = [refs EXCEPT ![i] = @ + 1]
    /\ UNCHANGED <<online, place, docHouse, owner>>

Owned(p) == {h \in House : owner[h] = p}

\* Mutant: houseSell that forgets the document of a trade it cannot start.
KeepsDocument(p, q, h) ==
    /\ docHouse' = [docHouse EXCEPT ![p] = h]
    /\ IF MayStart(p, q)
       THEN StartTrade(p, q, Document(p)) /\ refs' = [refs EXCEPT ![Document(p)] = @ + 2]
       ELSE /\ refs' = [refs EXCEPT ![Document(p)] = @ + 1]
            /\ UNCHANGED <<tradeState, tradePartner, tradeItem, tradeItems, promise>>

\* The document is created and offered; one that cannot be is freed at once.
OfferDocument(p, q, h) ==
    IF MayStart(p, q)
    THEN /\ StartTrade(p, q, Document(p))
         /\ docHouse' = [docHouse EXCEPT ![p] = h]
         /\ refs' = [refs EXCEPT ![Document(p)] = @ + 2]
    ELSE UNCHANGED tradeVars

\* TalkAction::houseSell: a house is offered to a player without one.  (The
\* premium account is asked for when it is not needed.  Not modelled: guild
\* halls, the pre-rent, levels and the houses per account.)
HouseSell(p, q) ==
    /\ p \in online /\ q \in online \ {p}
    /\ Owned(q) = {} /\ (NeedPremium \/ q \in Premium)
    /\ \E h \in Owned(p) : OfferDocument(p, q, h)
    /\ UNCHANGED <<online, place, owner>>

\* Mutant: playerAcceptTrade that does not wait for the partner.
EitherAccepts(p) == TRUE

\* The partner has accepted before.
BothAccept(p) == tradeState[tradePartner[p]] = "accept"

\* playerAcceptTrade by the first, or by the second when a script denies it:
\* both have accepted then, and can only close the trade.
MayAccept(p) ==
    /\ p \in online
    /\ tradeState[p] \in {"acknowledge", "initiated"}
    /\ tradePartner[p] # NoPlayer

AcceptTrade(p) ==
    /\ MayAccept(p)
    /\ tradeState' = [tradeState EXCEPT ![p] = "accept"]
    /\ UNCHANGED <<online, tradePartner, tradeItem, tradeItems, refs, place, docHouse,
                   owner, promise>>

\* The second acceptance, when one side has offered nothing, or has no room.
AcceptFails(p) ==
    /\ MayAccept(p) /\ BothAccept(p)
    /\ CloseTrades({p})
    /\ UNCHANGED <<online, place, owner>>

\* Mutant: checkTradeState that looks for the item alone.
DisturbsItem(i, t) == i = t

\* An item that leaves its place, or changes in it, closes the trade of what
\* it is, of what it is in, of what is in it, and of what is deeper in the bag
\* it leaves (checkTradeState and its callers).
Disturbs(i, t) ==
    \/ i = t
    \/ Holds(t, i)
    \/ t \in Item /\ Holds(i, t)
    \/ t \in Item /\ place[i] \in Bag /\ Holds(place[i], t) /\ place[t] # place[i]

\* onAddContainerItem: an item put into what is traded closes the trade.
Enters(b, t) == b = t \/ (b \in Bag /\ Holds(t, b))

\* The players who offer one of these.
Traders(T) == {p \in Player : tradeItem[p] \in T}

\* Where what a player receives may be put: never into what is traded.
RoomOf(q, i) == {q} \cup {b \in Bag \ Offers : /\ q \in Above(b) /\ b # i /\ ~Holds(i, b)
                                             /\ \A t \in Offers : ~Holds(t, b)}

\* The second acceptance, and the exchange: each player receives what the other
\* one offered, or the house it is the document of: with two documents of one house
\* the second, which p gets, counts.  (Bound: the two moves succeed.  The exchange
\* ignores what they return; before it has asked whether both have room, and whether
\* both items may be taken.)
Exchange(p) ==
    LET q == tradePartner[p]
        given == tradeItem[p]
        taken == tradeItem[q]
    IN  /\ MayAccept(p) /\ BothAccept(p)
        /\ given # NoItem /\ taken # NoItem
        /\ \E atP \in RoomOf(p, taken), atQ \in RoomOf(q, given) :
              place' = [i \in Item |-> IF i = taken THEN atP ELSE IF i = given THEN atQ ELSE place[i]]
        /\ owner' = [h \in House |-> IF taken = Document(q) /\ docHouse[q] = h THEN p
                                     ELSE IF given = Document(p) /\ docHouse[p] = h THEN q
                                     ELSE owner[h]]
        /\ CloseTrades({p} \cup Traders({t \in Offers : \E i \in {given, taken} \cap Item : Disturbs(i, t)}))
        /\ UNCHANGED online

CloseTrade(p) ==
    /\ p \in online /\ tradePartner[p] # NoPlayer
    /\ CloseTrades({p})
    /\ UNCHANGED <<online, place, owner>>

-----------------------------------------------------------------------------
(* What happens meanwhile. *)

\* Walking out of reach, or becoming a ghost, closes the trade.
WalkAway(p) == CloseTrade(p)

\* onCreatureDisappear closes the trade of a player who leaves the game.
Logout(p) ==
    /\ p \in online
    /\ online' = online \ {p}
    /\ IF tradePartner[p] # NoPlayer THEN CloseTrades({p}) ELSE UNCHANGED tradeVars
    /\ UNCHANGED <<place, owner>>

Login(p) ==
    /\ p \notin online
    /\ online' = online \cup {p}
    /\ UNCHANGED <<tradeVars, place, owner>>

MoveItem(p, i, to) ==
    /\ p \in online /\ Reaches(p, i) /\ to # place[i]
    /\ to \in {p, Ground} \/ (to \in Bag /\ Reaches(p, to) /\ i \notin Above(to))
    /\ place' = [place EXCEPT ![i] = to]
    /\ CloseTrades(Traders({t \in Offers : Disturbs(i, t) \/ Enters(to, t)}))
    /\ UNCHANGED <<online, owner>>

\* TalkAction::houseBuy.
HouseBuy(p, h) ==
    /\ p \in online
    /\ Owned(p) = {} /\ (NeedPremium => p \in Premium)
    /\ owner[h] = NoPlayer
    /\ owner' = [owner EXCEPT ![h] = p]
    /\ UNCHANGED <<tradeVars, online, place>>

\* House::setOwnerEx(0): the house is left, or lost for its rent.
HouseLeave(h) ==
    /\ owner[h] # NoPlayer
    /\ owner' = [owner EXCEPT ![h] = NoPlayer]
    /\ UNCHANGED <<tradeVars, online, place>>

Next ==
    \/ \E p, q \in Player : \/ \E i \in Item : RequestTrade(p, q, i)
                            \/ HouseSell(p, q)
    \/ \E p \in Player : \/ AcceptTrade(p) \/ AcceptFails(p) \/ Exchange(p)
                         \/ WalkAway(p) \/ Logout(p) \/ Login(p)
                         \/ \E i \in Item, to \in Player \cup Bag \cup {Ground} :
                               MoveItem(p, i, to)
                         \/ \E h \in House : HouseBuy(p, h)
    \/ \E h \in House : HouseLeave(h)

Init ==
    /\ online = {}
    /\ tradeState = [p \in Player |-> "none"]
    /\ tradePartner = [p \in Player |-> NoPlayer]
    /\ tradeItem = [p \in Player |-> NoItem]
    /\ tradeItems = {}
    /\ refs = [t \in Thing |-> IF t \in Item THEN 1 ELSE 0]
    /\ place \in [Item -> Player \cup {Ground}]
    /\ docHouse = [p \in Player |-> NoHouse]
    /\ owner = [h \in House |-> NoPlayer]
    /\ promise = [p \in Player |-> {}]

Spec == Init /\ [][Next]_vars

-----------------------------------------------------------------------------
(* Properties. *)

TypeOK ==
    /\ online \in SUBSET Player
    /\ tradeState \in [Player -> {"none", "initiated", "acknowledge", "accept"}]
    /\ tradePartner \in [Player -> Player \cup {NoPlayer}]
    /\ tradeItem \in [Player -> Thing \cup {NoItem}]
    /\ tradeItems \in SUBSET Thing
    /\ refs \in [Thing -> 0 .. 2]
    /\ place \in [Item -> Player \cup Bag \cup {Ground}]
    /\ docHouse \in [Player -> House \cup {NoHouse}]
    /\ owner \in [House -> Player \cup {NoPlayer}]
    /\ promise \in [Player -> SUBSET Thing]

\* A trade has two sides, both in the game, that agree on it whatever the order
\* of requests, acceptances, moves and departures; no third player is drawn in
\* and no side is left behind.
PartnersAgree ==
    \A p \in Player :
        LET q == tradePartner[p]
        IN  IF q = NoPlayer
            THEN tradeState[p] = "none" /\ tradeItem[p] = NoItem
            ELSE /\ {p, q} \subseteq online /\ q # p /\ tradePartner[q] = p
                 /\ tradeState[p] # "none"
                 /\ tradeState[p] = "initiated" => tradeItem[p] # NoItem
                 /\ tradeState[p] = "acknowledge" => tradeItem[p] = NoItem
                 /\ {tradeItem[p], tradeItem[q]} # {NoItem}

\* tradeItems are the offers that stand, and no item is promised twice, itself
\* or in a bag.
PromisedOnce ==
    /\ tradeItems = Offers
    /\ \A p, q \in Player : p # q /\ NoItem \notin {tradeItem[p], tradeItem[q]}
           => Contents(tradeItem[p]) \cap Contents(tradeItem[q]) = {}

\* Every reference taken for a trade is given back when it ends, and a house's
\* document lives exactly as long as it is offered.
RefsReturned ==
    /\ \A i \in Item : refs[i] = IF i \in Offers THEN 2 ELSE 1
    /\ \A p \in Player :
          /\ refs[Document(p)] = IF tradeItem[p] = Document(p) THEN 2 ELSE 0
          /\ docHouse[p] # NoHouse <=> tradeItem[p] = Document(p)

\* What a player has offered is what the partner has seen, to the last item in
\* it, and is still within the player's reach.
OfferIsIntact ==
    \A p \in Player : tradeItem[p] \in Item =>
        Contents(tradeItem[p]) = promise[p] /\ Reaches(p, tradeItem[p])

\* An item goes from one player to another only in a trade between the two,
\* in which it was promised, one of them had accepted before, and the other
\* had promised something in return.
HandedOverByTrade ==
    [][\A i \in Item, p, q \in Player :
          p # q /\ p \in Above(i) /\ q \in Above(i)' =>
             /\ tradePartner[p] = q /\ i \in promise[p]
             /\ "accept" \in {tradeState[p], tradeState[q]}
             /\ tradeItem[q] # NoItem]_vars

\* talkaction.cpp:548, to who sells a house: "Trade player already rents another
\* house."; and 474, to who wants a house: "This flat is already owned by someone
\* else."  Who gets a house has none, and has it from its owner, or nobody owns it.
SoldAsChecked ==
    [][\A h \in House, q \in Player :
          owner'[h] = q /\ owner[h] # q =>
             /\ Owned(q) = {}
             /\ owner[h] # NoPlayer => docHouse[owner[h]] = h /\ tradePartner[owner[h]] = q]_vars
=============================================================================
