-------------------------------- MODULE Party --------------------------------
(***************************************************************************)
(* Parties (party.cpp) with the commands on them (game.cpp), the players'  *)
(* own record of their party and invitations (player.cpp), and the party's *)
(* chat channel (chat.cpp).  Every action is one task of the dispatcher.   *)
(*                                                                         *)
(* A Party is an object on the heap: its address is free again once it is  *)
(* disbanded.  Levels and positions are abstracted to whether the players  *)
(* of a party are together, near enough in both to share experience.       *)
(***************************************************************************)
EXTENDS Integers, Sequences, FiniteSets, Functions

CONSTANTS
    Player,
    Address,     \* bound: the addresses at which parties are allocated
    Scenes,      \* bound: the addresses in use with whether parties share experience
    NoPlayer, NoParty

ASSUME PartyAssumption ==
    /\ Scenes \subseteq [addresses : SUBSET Address, sharing : BOOLEAN]
    /\ NoPlayer \notin Player /\ NoParty \notin Address

VARIABLES
    online,      \* the players in the game
    party,       \* the Party objects; leader NoPlayer where there is none
    partyOf,     \* Player::party
    invitedTo,   \* Player::invitePartyList
    users,       \* m_users of the channel that m_partyChannels has for an address
    unnoticed,   \* history: parties that sharing has changed for behind their back
    selfInvited, \* history: players who have invited themselves
    scene        \* one of Scenes

playerVars == <<online, partyOf, invitedTo, users, selfInvited, scene>>
vars == <<playerVars, party, unnoticed>>

\* std::find and erase.  (A list has a player once.)
Without(s, p) ==
    IF p \notin Range(s)
    THEN s
    ELSE LET k == CHOOSE i \in 1 .. Len(s) : s[i] = p
         IN  [i \in 1 .. Len(s) - 1 |-> IF i < k THEN s[i] ELSE s[i + 1]]

\* shared is "off", or active and "enabled" or not; together says whether levels
\* and positions allow it; active, who has contributed (pointMap) recently enough.
Free == [leader |-> NoPlayer, members |-> <<>>, invited |-> {}, shared |-> "off",
         active |-> {}, together |-> FALSE]

\* Party::Party, and the first invitation.
NewParty(p, q) == [Free EXCEPT !.leader = p, !.invited = {q}]

Live == {a \in Address : party[a].leader # NoPlayer}
Players(r) == ({r.leader} \cup Range(r.members)) \ {NoPlayer}
IsLeader(p) == partyOf[p] # NoParty /\ party[partyOf[p]].leader = p
IsInviting(p, q) == IsLeader(p) /\ q \in party[partyOf[p]].invited

-----------------------------------------------------------------------------
(* Shared experience. *)

\* canEnableSharedExperience.
CanEnable(r) ==
    /\ r.members # <<>> /\ r.together
    /\ Players(r) \subseteq r.active

\* updateSharedExperience.
Refreshed(r) ==
    [r EXCEPT !.shared = IF @ = "off" THEN @ ELSE IF CanEnable(r) THEN "enabled"
                                                                 ELSE "waiting"]

\* The party at a is now r, and looks again at what it may share.
Update(a, r) ==
    /\ party' = [party EXCEPT ![a] = Refreshed(r)]
    /\ unnoticed' = unnoticed \ {a}

\* When its players, or their places, are others, they may be together now, or
\* no more.
Somewhere(r) == {[r EXCEPT !.together = t] : t \in IF scene.sharing THEN BOOLEAN ELSE {FALSE}}

UpdateAll(a, r) == \E s \in Somewhere(r) : Update(a, s)

HasParty(p) == p \in online /\ partyOf[p] # NoParty
SharesIn(p) == HasParty(p) /\ scene.sharing

\* setSharedExperience, by the leader.
SetShared(p) ==
    /\ SharesIn(p) /\ IsLeader(p)
    /\ Update(partyOf[p],
              [party[partyOf[p]] EXCEPT !.shared = IF @ = "off" THEN "waiting" ELSE "off"])
    /\ UNCHANGED playerVars

\* addPlayerHealedMember, addPlayerDamageMonster.
GainPoints(p) ==
    /\ SharesIn(p)
    /\ Update(partyOf[p], [party[partyOf[p]] EXCEPT !.active = @ \cup {p}])
    /\ UNCHANGED playerVars

\* onIdleStatus: clearPlayerPoints, which does not look at the party of one who
\* never had any: its flag is off then already.
IdleStatus(p) ==
    /\ SharesIn(p)
    /\ Update(partyOf[p], [party[partyOf[p]] EXCEPT !.active = @ \ {p}])
    /\ UNCHANGED playerVars

\* Mutant: onCreatureMove that leaves the party alone.
MoveQuietly(p) ==
    /\ HasParty(p)
    /\ \E s \in Somewhere(party[partyOf[p]]) : party' = [party EXCEPT ![partyOf[p]] = s]
    /\ UNCHANGED <<playerVars, unnoticed>>

\* A move, or a level gained.
MoveOrAdvance(p) ==
    /\ HasParty(p)
    /\ UpdateAll(partyOf[p], party[partyOf[p]])
    /\ UNCHANGED playerVars

\* The party at a is now r and does not look.
BehindItsBack(a, r) ==
    /\ party' = [party EXCEPT ![a] = r]
    /\ unnoticed' = IF r.shared = "off" THEN unnoticed ELSE unnoticed \cup {a}

\* Levels lost: removeExperience does not tell the party.
LoseLevel(p) ==
    /\ SharesIn(p)
    /\ BehindItsBack(partyOf[p], [party[partyOf[p]] EXCEPT !.together = ~@])
    /\ UNCHANGED playerVars

\* EXPERIENCE_SHARE_ACTIVITY has passed since a player's last contribution.
PointsAge(p) ==
    /\ HasParty(p) /\ p \in party[partyOf[p]].active
    /\ BehindItsBack(partyOf[p], [party[partyOf[p]] EXCEPT !.active = @ \ {p}])
    /\ UNCHANGED playerVars

-----------------------------------------------------------------------------
(* The commands. *)

\* playerInviteToParty: the first invitation makes the party.  Nothing keeps a
\* player without a party from inviting himself.
Invite(p, q) ==
    /\ {p, q} \subseteq online
    /\ partyOf[q] = NoParty
    /\ \E a \in scene.addresses :
          /\ \/ /\ partyOf[p] = NoParty /\ a \notin Live
                /\ party' = [party EXCEPT ![a] = NewParty(p, q)]
             \/ /\ a = partyOf[p] /\ IsLeader(p) /\ ~IsInviting(p, q)
                /\ party' = [party EXCEPT ![a].invited = @ \cup {q}]
          /\ partyOf' = [partyOf EXCEPT ![p] = a]
          /\ invitedTo' = [invitedTo EXCEPT ![q] = @ \cup {a}]
    /\ selfInvited' = IF p = q THEN selfInvited \cup {p} ELSE selfInvited
    /\ UNCHANGED <<online, users, unnoticed, scene>>

\* Party::join.
Joined(r, p) == [r EXCEPT !.members = Append(@, p), !.invited = @ \ {p}]

Join(p, l) ==
    /\ {p, l} \subseteq online
    /\ partyOf[p] = NoParty /\ IsInviting(l, p)
    /\ UpdateAll(partyOf[l], Joined(party[partyOf[l]], p))
    /\ partyOf' = [partyOf EXCEPT ![p] = partyOf[l]]
    /\ invitedTo' = [invitedTo EXCEPT ![p] = @ \ {partyOf[l]}]
    /\ UNCHANGED <<online, users, selfInvited, scene>>

\* Mutant: passLeadership that leaves the new leader among the members.
PassedKeepsMember(r, q) == [r EXCEPT !.leader = q, !.members = <<r.leader>> \o @]

\* Party::passLeadership: the old leader becomes the first of the members.
Passed(r, q) == [r EXCEPT !.leader = q, !.members = <<r.leader>> \o Without(@, q)]

PassLeadership(p, q) ==
    /\ {p, q} \subseteq online /\ IsLeader(p)
    /\ partyOf[q] = partyOf[p] /\ q # p
    /\ UpdateAll(partyOf[p], Passed(party[partyOf[p]], q))
    /\ UNCHANGED playerVars

\* Mutant: leave that counts the members before the one who leaves.
EndedWithPair(r, gone) ==
    r.leader \in gone \/ (Len(r.members) <= 1 /\ gone # {})
                      \/ (r.members = <<>> /\ r.invited = {})

\* missingLeader, or canDisband.  Every other party has a member or an
\* invitation already (MembershipAgrees).
Ended(r, gone) == r.leader \in gone \/ (r.members = <<>> /\ r.invited = {})

\* Mutant: leave without clearPlayerPoints.
LeftStaysActive(r, p) ==
    LET s == IF r.leader = p /\ r.members # <<>> THEN Passed(r, Head(r.members)) ELSE r
    IN  [s EXCEPT !.members = Without(@, p), !.invited = @ \ {p}]

\* Party::leave up to the decision to disband: a leader with members passes
\* the leadership to the first of them; one without stays, to be missed.
Left(r, p) ==
    LET s == IF r.leader = p /\ r.members # <<>> THEN Passed(r, Head(r.members)) ELSE r
    IN  [s EXCEPT !.members = Without(@, p), !.invited = @ \ {p}, !.active = @ \ {p}]

\* Party::disband of those parties that have ended now that they are as in r
\* and the players gone have left.  The others lose their party; those of them
\* who have a client are told to close its channel, which removes them from it
\* while they have their party still.  Those gone were told without one; those
\* who quit leave every channel (Chat::removeUserFromAllChannels).
Settle(r, lists, gone, quit) ==
    LET ended == {a \in Live : Ended(r[a], gone)}
        rest == {q \in Player \ gone : partyOf[q] \in ended}
    IN  /\ party' = [a \in Address |-> IF a \in ended THEN Free ELSE r[a]]
        /\ partyOf' = [q \in Player |-> IF q \in gone \cup rest THEN NoParty ELSE partyOf[q]]
        /\ invitedTo' = [q \in Player |-> lists[q] \ {a \in ended : q \in r[a].invited}]
        /\ unnoticed' = unnoticed \ (ended \cup {partyOf[p] : p \in gone})
        /\ \E told \in SUBSET rest :
              users' = [a \in Address |-> users[a] \ (quit \cup IF a \in ended THEN told ELSE {})]

\* playerRevokePartyInvitation: removeInvite.
Revoke(p, q) ==
    /\ {p, q} \subseteq online /\ IsInviting(p, q)
    /\ Settle([party EXCEPT ![partyOf[p]].invited = @ \ {q}],
              [invitedTo EXCEPT ![q] = @ \ {partyOf[p]}], {}, {})
    /\ UNCHANGED <<online, selfInvited, scene>>

\* playerLeaveParty, when no fight forbids it.
Leave(p) ==
    /\ HasParty(p)
    /\ \E s \in Somewhere(Left(party[partyOf[p]], p)) :
          Settle([party EXCEPT ![partyOf[p]] = Refreshed(s)], invitedTo, {p}, {})
    /\ UNCHANGED <<online, selfInvited, scene>>

\* playerOpenChannel.  (The channel was made for the list of channels.)
OpenChannel(p) ==
    /\ HasParty(p)
    /\ users' = [users EXCEPT ![partyOf[p]] = @ \cup {p}]
    /\ UNCHANGED <<online, partyOf, invitedTo, selfInvited, scene, party, unnoticed>>

CloseChannel(p) ==
    /\ HasParty(p)
    /\ users' = [users EXCEPT ![partyOf[p]] = @ \ {p}]
    /\ UNCHANGED <<online, partyOf, invitedTo, selfInvited, scene, party, unnoticed>>

Login(p) ==
    /\ p \notin online /\ online' = online \cup {p}
    /\ UNCHANGED <<partyOf, invitedTo, users, selfInvited, scene, party, unnoticed>>

\* Mutant: onCreatureDisappear without removeUserFromAllChannels.
QuitsNothing(p) == {}

Quits(p) == {p}

\* onCreatureDisappear: the invitations are refused, the party and the channels
\* left.  A list that names a party that is gone is undefined behaviour: then
\* the player never gets here.
Logout(p) ==
    /\ p \in online /\ invitedTo[p] \subseteq Live
    /\ LET refused == [a \in Address |-> IF a \in invitedTo[p]
                                       THEN [party[a] EXCEPT !.invited = @ \ {p}]
                                       ELSE party[a]]
           lists == [invitedTo EXCEPT ![p] = {}]
       IN  \/ /\ partyOf[p] = NoParty
              /\ Settle(refused, lists, {p}, Quits(p))
           \/ \E a \in {partyOf[p]} \cap Address : \E s \in Somewhere(Left(refused[a], p)) :
                  Settle([refused EXCEPT ![a] = Refreshed(s)], lists, {p}, Quits(p))
    /\ online' = online \ {p}
    /\ selfInvited' = selfInvited \ {p}
    /\ UNCHANGED scene

\* login takes over a player whose client is another: that one leaves the chat.
TakeOver(p) ==
    /\ p \in online
    /\ users' = [a \in Address |-> users[a] \ {p}]
    /\ UNCHANGED <<online, partyOf, invitedTo, selfInvited, scene, party, unnoticed>>

Next ==
    \/ \E p, q \in Player : Invite(p, q) \/ Join(p, q) \/ PassLeadership(p, q) \/ Revoke(p, q)
    \/ \E p \in Player : \/ Leave(p) \/ Login(p) \/ Logout(p) \/ TakeOver(p)
                         \/ OpenChannel(p) \/ CloseChannel(p)
                         \/ SetShared(p) \/ GainPoints(p) \/ IdleStatus(p)
                         \/ MoveOrAdvance(p) \/ LoseLevel(p) \/ PointsAge(p)

Init ==
    /\ online = {}
    /\ party = [a \in Address |-> Free]
    /\ partyOf = [p \in Player |-> NoParty]
    /\ invitedTo = [p \in Player |-> {}]
    /\ users = [a \in Address |-> {}]
    /\ unnoticed = {} /\ selfInvited = {}
    /\ scene \in Scenes

Spec == Init /\ [][Next]_vars

-----------------------------------------------------------------------------
(* Properties. *)

Parties ==
    [leader : Player \cup {NoPlayer}, members : Seq(Player), invited : SUBSET Player,
     shared : {"off", "waiting", "enabled"}, active : SUBSET Player, together : BOOLEAN]

\* The types; those active in a party are its players.
TypeOK ==
    /\ online \in SUBSET Player /\ selfInvited \in SUBSET Player
    /\ unnoticed \in SUBSET Address
    /\ partyOf \in [Player -> Address \cup {NoParty}]
    /\ invitedTo \in [Player -> SUBSET Address]
    /\ users \in [Address -> SUBSET Player]
    /\ scene \in Scenes
    /\ party \in [Address -> Parties]
    /\ \A a \in Address : party[a].active \subseteq Players(party[a])

\* A party knows its players and they it, whatever was passed, left, refused
\* or ended in whatever order: nobody refers to a party that was deleted, is
\* in two, or twice in one; all are in the game, and a party that has nobody
\* but its leader, and nobody to wait for, does not exist.
MembershipAgrees ==
    /\ \A p \in Player : partyOf[p] # NoParty => p \in online /\ p \in Players(party[partyOf[p]])
    /\ \A a \in Live :
          /\ \A p \in Players(party[a]) : partyOf[p] = a
          /\ Cardinality(Players(party[a])) = 1 + Len(party[a].members)
          /\ ~Ended(party[a], {})

\* A player's list of invitations and the parties' lists of the invited agree:
\* no player has an invitation of a party that was deleted.  (Unless he has
\* once invited himself: leave takes a player off its party's list, but not the
\* party off his.)
InvitationsAgree ==
    \A p \in Player \ selfInvited :
        /\ invitedTo[p] = {a \in Live : p \in party[a].invited}
        /\ invitedTo[p] # {} => p \in online
        /\ \A a \in Live : p \in party[a].invited => p \notin Players(party[a])

\* Parties, players and invitations agree, in whatever order players do what they
\* can: the two above.
PartiesAgree == MembershipAgrees /\ InvitationsAgree

\* The channels, also those of parties that are gone, hold no player who has
\* left the game: m_users are pointers to players.
UsersAreOnline == \A a \in Address : users[a] \subseteq online

\* The flag that monsters' experience is shared by is what an examination of
\* the party would give, unless only time or a loss of levels is in between.
SharedIsCurrent ==
    \A a \in Live \ unnoticed : party[a].shared = "enabled" <=>
                                    (party[a].shared # "off" /\ CanEnable(party[a]))

\* The other players a party has or waits for.
Others(r, p) == (Players(r) \cup r.invited) \ {p}

\* A party ends in two ways only.  Its one player leaves it or the game, however
\* many it waits for: nobody is left to lead.  Or somebody leaves it or the
\* game, or is no longer invited, and one at most remains of all whom it has or
\* waits for.  In particular no step ends a party in which two players stay, or
\* one who waits for another: nor one of the parties, all at once, whose
\* invitations a player refuses who leaves the game.
EndsWhenAlone ==
    [][\A a \in Live \ Live' :
          \E p \in Player :
              \/ /\ Leave(p) \/ Logout(p)
                 /\ Players(party[a]) = {p} \/ Cardinality(Others(party[a], p)) <= 1
              \/ /\ \E l \in Player : Revoke(l, p)
                 /\ Cardinality(Others(party[a], p)) <= 1]_vars
=============================================================================
