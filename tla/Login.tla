--------------------------------- MODULE Login ---------------------------------
(***************************************************************************)
(* How characters enter and leave the game (protocolgame.cpp), the states  *)
(* of the game that bar them (game.cpp) and the waiting list.              *)
(*                                                                         *)
(* A client is a ProtocolGame with its connection, of which only the order *)
(* open, close requested, gone matters (ClientSession has the rest).  A    *)
(* body is a Player object: reference counted, and free for the next when  *)
(* it is deleted.  The service thread parses the packets; everything else  *)
(* is the dispatcher's, one step a task.                                   *)
(***************************************************************************)
EXTENDS WaitingList, FiniteSets

CONSTANTS
    Client,
    Body,          \* bound: the addresses at which players are allocated
    AccountOf,     \* the account of each
    AlwaysLogin,   \* the characters with PlayerFlag_CanAlwaysLogin
    Casts,         \* bound: what takes part: a number of clients at a time, a set
                   \* of characters, a set of states of the game, and whether
                   \* REPLACE_KICK_ON_LOGIN is on
    PremiumSkips, OneOnAccount,     \* configuration
    NoClient, NoBody

ASSUME LoginAssumption ==
    /\ IsFiniteSet(Client)
    /\ {PremiumSkips, OneOnAccount} \subseteq BOOLEAN
    /\ \A k \in Casts : /\ k.states \subseteq {"normal", "closing", "closed", "shutdown"}
                        /\ k.replace \in BOOLEAN
    /\ NoClient \notin Client /\ NoBody \notin Body

VARIABLES
    gameState,     \* Game::gameState
    client,        \* the protocols
    body,          \* the players
    waitList,      \* WaitingList::waitList
    releases,      \* Game::releaseThings: how often each body is in it
    parsing,       \* the client whose packet the service thread is parsing
    cast           \* one of Casts

vars == <<gameState, client, body, waitList, releases, parsing, cast>>

NoProtocol == [conn |-> "none", name |-> "", todo |-> <<>>, player |-> NoBody,
               accepts |-> FALSE, event |-> FALSE, seeks |-> NoBody, behind |-> {}]

NoPlayer == [at |-> "none", name |-> "", client |-> NoClient, connecting |-> FALSE, refs |-> 0]

\* The names that may be asked for, and none.
Name == {""} \cup UNION {k.names : k \in Casts}

InGame == {b \in Body : body[b].at = "game"}
Named(n) == {b \in InGame : body[b].name = n}

-----------------------------------------------------------------------------
(* What several operations do. *)

\* Connection::close.
Closed(cl, c) == IF c # NoClient /\ cl[c].conn = "open"
                 THEN [cl EXCEPT ![c].conn = "closing"] ELSE cl

\* Game::removeCreature: the game lets go of its reference, and nobody finds
\* the player by his id any more.
Unlisted(cl, b) == [c \in Client |-> IF cl[c].seeks = b THEN [cl[c] EXCEPT !.seeks = NoBody]
                                                        ELSE cl[c]]

\* Mutant: removeCreature without freeThing.
ReleasedNever(rs, b) == rs

\* Game::freeThing.
Released(rs, b) == [rs EXCEPT ![b] = @ + 1]

\* Nobody asks for the name of a player who is not in the game.
Gone(bo, bs) == [b \in Body |-> IF b \in bs THEN [bo[b] EXCEPT !.at = "removed", !.name = ""]
                                           ELSE bo[b]]

Remove(bo, b, cl) ==
    /\ body' = Gone(bo, {b})
    /\ releases' = Released(releases, b)
    /\ client' = Unlisted(cl, b)

-----------------------------------------------------------------------------
(* The service thread. *)

\* parseFirstPacket: whatever makes it refuse is a connection that never was.
Arrive(c, n) ==
    /\ client[c].conn = "none" /\ gameState # "shutdown"
    /\ Cardinality({d \in Client : client[d].conn # "none"}) < cast.clients
    /\ client' = [client EXCEPT ![c] = [NoProtocol EXCEPT !.conn = "open", !.name = n,
                                                          !.todo = <<"login">>]]
    /\ UNCHANGED <<gameState, body, waitList, releases, parsing, cast>>

\* parsePacket holds the connection's lock from its checks to its last use of
\* the player.
BeginPacket(c) ==
    /\ parsing = NoClient /\ client[c].conn = "open" /\ client[c].accepts
    /\ client[c].player # NoBody /\ gameState # "shutdown"
    /\ parsing' = c
    /\ UNCHANGED <<gameState, client, body, waitList, releases, cast>>

\* parseLogout; a packet that asks for something else posts the id of the
\* player.
EndPacket(c) ==
    /\ parsing = c
    /\ parsing' = NoClient
    /\ \/ client' = client
       \/ /\ client[c].todo = <<>>   \* bound: one logout at a time
          /\ client' = [client EXCEPT ![c].todo = <<"logout">>]
    /\ UNCHANGED <<gameState, body, waitList, releases, cast>>

\* The peer goes away, or times out.
Drop(c) ==
    /\ client[c].conn = "open" /\ parsing # c
    /\ client' = Closed(client, c)
    /\ UNCHANGED <<gameState, body, waitList, releases, parsing, cast>>

-----------------------------------------------------------------------------
(* ProtocolGame::login. *)

TakesTask(c, t) == client[c].todo # <<>> /\ Head(client[c].todo) = t
Done(cl, c) == [cl EXCEPT ![c].todo = Tail(@), ![c].name = ""]   \* name: login's argument

\* Mutant: a closed game does not bar.
BarredWhenClosing(n) == n \notin AlwaysLogin /\ gameState = "closing"

\* The states that refuse a new player, and one character for each account.  (Bound:
\* nobody is of the group that may have several, or the account manager.)
Barred(n) == n \notin AlwaysLogin /\ gameState \in {"closing", "closed"}
SharesAccount(n) == OneOnAccount /\ \E b \in InGame : AccountOf[body[b].name] = AccountOf[n]

Skips(n) == n \in AlwaysLogin \/ (PremiumSkips /\ n \in Premium)
Queue(n, late) == IF Skips(n) THEN [admitted |-> TRUE, list |-> waitList]
                              ELSE AfterLogin(waitList, late, n, Cardinality(InGame))

\* The new player of a client, before it is placed.
Made(c, b) == [body EXCEPT ![b] = [NoPlayer EXCEPT !.at = "made", !.client = c, !.refs = 1]]

\* A player who is not let in keeps his object until the client is gone.
Refuse(c, b) ==
    /\ client' = Closed(Done([client EXCEPT ![c].player = b], c), c)
    /\ body' = Made(c, b)
    /\ UNCHANGED releases

\* placeCreature; the login script may refuse the player, and the logout script
\* then let him go or not.
Enter(c, b) ==
    LET cl == Done([client EXCEPT ![c].player = b, ![c].accepts = TRUE], c)
        placed == [Made(c, b) EXCEPT ![b].at = "game", ![b].refs = 2,
                                          ![b].name = client[c].name]
    IN  \/ /\ client' = cl /\ body' = placed
           /\ UNCHANGED releases
        \/ Remove(placed, b, Closed(cl, c))

LoginNew(c) ==
    /\ TakesTask(c, "login") /\ Named(client[c].name) = {}
    /\ \E b \in Body : \E late \in SUBSET {e.name : e \in Elements(waitList)} :
          LET n == client[c].name
              q == Queue(n, late)
          IN  /\ body[b].at = "none"
              /\ \/ Refuse(c, b) /\ UNCHANGED waitList    \* not loaded, banned, locked
                 \/ /\ ~Barred(n) /\ ~SharesAccount(n)
                    /\ waitList' = q.list
                    /\ \/ Refuse(c, b)                    \* has to wait, or has no place
                       \/ q.admitted /\ Enter(c, b)
    /\ UNCHANGED <<gameState, parsing, cast>>

\* Mutant: connect that leaves isConnecting.
AttachedStillConnecting(bo, c, b) == [bo EXCEPT ![b].client = c, ![b].refs = @ + 1]

Attached(bo, c, b) == [bo EXCEPT ![b].client = c, ![b].refs = @ + 1, ![b].connecting = FALSE]

\* Mutant: connect that does not ask whether the player has a client.
FindsAnyPlayer(b) == b \in InGame

Finds(b) == b \in InGame /\ body[b].client = NoClient

\* connect.
Connect(cl, c, b) ==
    /\ \/ /\ Finds(b)
          /\ client' = [cl EXCEPT ![c].player = b, ![c].accepts = TRUE]
          /\ body' = Attached(body, c, b)
       \/ /\ ~Finds(b)
          /\ client' = Closed(cl, c)
          /\ UNCHANGED body

\* The character is in the game without a client.
LoginAgain(c) ==
    /\ TakesTask(c, "login")
    /\ \E b \in Named(client[c].name) :
          body[b].client = NoClient /\ Connect(Done(client, c), c, b)
    /\ UNCHANGED <<gameState, waitList, releases, parsing, cast>>

\* The character has a client: that one is disconnected, and this one connects
\* a second later: behind every task there is now, and behind the clients gone
\* that look every 50 ms whether they may be deleted.
TakeOver(c) ==
    /\ TakesTask(c, "login")
    /\ \E b \in Named(client[c].name) :
          LET kicked == Closed(Done(client, c), body[b].client)
          IN  /\ body[b].client # NoClient
              /\ \/ /\ ~cast.replace
                    /\ client' = Closed(Done(client, c), c)
                    /\ UNCHANGED body
                 \/ /\ cast.replace
                    /\ client' = [kicked EXCEPT ![c].event = TRUE, ![c].seeks = b,
                                      ![c].behind = {d \in Client : kicked[d].conn \in
                                                                      {"closing", "gone"}}]
                    /\ body' = [body EXCEPT ![b].connecting = TRUE]
    /\ UNCHANGED <<gameState, waitList, releases, parsing, cast>>

ConnectEvent(c) ==
    /\ client[c].event /\ client[c].behind = {}
    /\ Connect([client EXCEPT ![c].event = FALSE, ![c].seeks = NoBody], c, client[c].seeks)
    /\ UNCHANGED <<gameState, waitList, releases, parsing, cast>>

-----------------------------------------------------------------------------
(* Leaving. *)

\* Player::kickPlayer, by force, and ProtocolGame::logout, with any answer of
\* the scripts; a player who is gone already only loses his connection.
Leave(b, cl) ==
    \/ Remove(body, b, Closed(cl, body[b].client))
    \/ client' = cl /\ UNCHANGED <<body, releases>>

LogoutTask(c) ==
    /\ TakesTask(c, "logout")
    /\ LET b == client[c].player
       IN  IF b \in InGame
           THEN Leave(b, Done(client, c))
           ELSE client' = Closed(Done(client, c), c) /\ UNCHANGED <<body, releases>>
    /\ UNCHANGED <<gameState, waitList, parsing, cast>>

\* Game::kickPlayer, and Player::onThink after a minute without an answer.
Kick(b) == b \in InGame /\ Leave(b, client) /\ UNCHANGED <<gameState, waitList, parsing, cast>>

\* Death: the client stays.
Die(b) ==
    /\ b \in InGame /\ Remove(body, b, client)
    /\ UNCHANGED <<gameState, waitList, parsing, cast>>

\* Connection::closeConnection with the first releaseProtocol, and those that
\* follow it, until no message and no event refers to the protocol.
Dead(c) == IF client[c].player = NoBody THEN releases ELSE Released(releases, client[c].player)

\* Mutant: releaseProtocol that leaves the player his client.
KeptClient(c) == body

Unclaimed(c) ==
    [b \in Body |-> IF b = client[c].player /\ body[b].client = c
                    THEN [body[b] EXCEPT !.client = NoClient] ELSE body[b]]

ReleaseProtocol(c) ==
    LET rest == [d \in Client |-> [client[d] EXCEPT !.behind = @ \ {c}]]
    IN  /\ \/ client[c].conn = "gone"
           \/ client[c].conn = "closing" /\ client[c].todo = <<>> /\ parsing # c
        /\ body' = Unclaimed(c)
        /\ \/ /\ client' = [rest EXCEPT ![c].conn = "gone"]
              /\ UNCHANGED releases
           \/ /\ ~client[c].event
              /\ client[c].player # NoBody => releases[client[c].player] = 0   \* bound
              /\ client' = [rest EXCEPT ![c] = NoProtocol]
              /\ releases' = Dead(c)
        /\ UNCHANGED <<gameState, waitList, parsing, cast>>

\* Game::cleanup.
Cleanup ==
    /\ \E b \in Body : releases[b] > 0
    /\ body' = [b \in Body |-> IF releases[b] > 0 /\ releases[b] >= body[b].refs
                               THEN NoPlayer
                               ELSE [body[b] EXCEPT !.refs = @ - releases[b]]]
    /\ releases' = [b \in Body |-> 0]
    /\ UNCHANGED <<gameState, client, waitList, parsing, cast>>

-----------------------------------------------------------------------------
(* The game. *)

\* setGameState, where no script refuses a forced logout: the loops kick the
\* first player until there is none (left who has to go).
SetGameState(s) ==
    /\ gameState \notin {"shutdown", s}
    /\ gameState' = s
    /\ LET gone == IF s = "shutdown" THEN InGame
                   ELSE IF s = "closed" THEN {b \in InGame : body[b].name \notin AlwaysLogin}
                   ELSE {}
       IN  /\ body' = Gone(body, gone)
           /\ releases' = [b \in Body |-> releases[b] + IF b \in gone THEN 1 ELSE 0]
           /\ client' = [c \in Client |->
                 LET d == IF c \in {body[b].client : b \in gone} THEN Closed(client, c)[c]
                                                                  ELSE client[c]
                 IN  IF d.seeks \in gone THEN [d EXCEPT !.seeks = NoBody] ELSE d]
    /\ UNCHANGED <<waitList, parsing, cast>>

Next ==
    \/ \E c \in Client : \/ \E n \in cast.names : Arrive(c, n)
                         \/ BeginPacket(c) \/ EndPacket(c) \/ Drop(c)
                         \/ LoginNew(c) \/ LoginAgain(c) \/ TakeOver(c) \/ ConnectEvent(c)
                         \/ LogoutTask(c) \/ ReleaseProtocol(c)
    \/ \E b \in Body : Kick(b) \/ Die(b)
    \/ \E s \in cast.states : SetGameState(s)
    \/ Cleanup

Init ==
    /\ gameState = "normal"
    /\ client = [c \in Client |-> NoProtocol]
    /\ body = [b \in Body |-> NoPlayer]
    /\ waitList = <<>>
    /\ releases = [b \in Body |-> 0]
    /\ parsing = NoClient
    /\ cast \in Casts

Spec == Init /\ [][Next]_vars

-----------------------------------------------------------------------------
(* Properties. *)

\* What is posted for a protocol: one task at a time.
Todo == {<<>>, <<"login">>, <<"logout">>}

Protocol == [conn : {"none", "open", "closing", "gone"}, name : Name,
             todo : Todo, player : Body \cup {NoBody},
             accepts : BOOLEAN, event : BOOLEAN, seeks : Body \cup {NoBody},
             behind : SUBSET Client]

PlayerObject == [at : {"none", "made", "game", "removed"}, name : Name,
                 client : Client \cup {NoClient}, connecting : BOOLEAN, refs : Nat]

\* The types.  (What the waiting list holds is the subject of WaitInOrder.)
TypeOK ==
    /\ client \in [Client -> Protocol]
    /\ body \in [Body -> PlayerObject]
    /\ releases \in [Body -> Nat]
    /\ parsing \in Client \cup {NoClient}
    /\ cast \in Casts

\* A player exists exactly as long as someone holds him: each reference is that
\* of a protocol, of the game, or one about to be given up, and none of them
\* refers to a player who was deleted, not even a packet half parsed.
PlayersAreHeld ==
    /\ \A b \in Body :
          body[b].refs = Cardinality({c \in Client : client[c].player = b})
                             + (IF b \in InGame THEN 1 ELSE 0) + releases[b]
    /\ \A b \in Body : body[b].refs = 0 <=> body[b].at = "none"
    /\ parsing # NoClient => body[client[parsing].player].at \in {"game", "removed"}

\* A player in the game is served by one client at most, and by the one he
\* names: every other that has him has been asked to close.  Whom he names
\* exists, and has him.
OneClientEach ==
    \A b \in Body :
        /\ body[b].client # NoClient => client[body[b].client].player = b
        /\ b \in InGame =>
              \A c \in Client : client[c].player = b /\ client[c].conn = "open"
                                    => body[b].client = c

\* isConnecting keeps a player without a client from being logged out; there is
\* always an event on its way that will find him.
ConnectingIsPending ==
    \A b \in InGame : body[b].connecting => \E c \in Client : client[c].event /\ client[c].seeks = b

\* A character, and an account, is in the game once; a closed game has only
\* those who may always log in.
OncePerAccount ==
    /\ \A b, d \in InGame : b # d => body[b].name # body[d].name
    /\ OneOnAccount =>
          \A b, d \in InGame : b # d => AccountOf[body[b].name] # AccountOf[body[d].name]
    /\ gameState = "closed" => \A b \in InGame : body[b].name \in AlwaysLogin

\* x is before y in a list.
IsBefore(list, x, y) == Slots(list, x) # {} /\ Slots(list, y) # {} /\ Slot(list, x) < Slot(list, y)

\* Those who wait keep their order, whoever else tries to log in: he comes to
\* stand before another only if he is premium and that one is not.  One who
\* enters leaves room for all who are waiting before him still.
WaitInOrder ==
    [][/\ \E n \in Name : \A x, y \in cast.names :
             IsBefore(waitList', x, y) => \/ IsBefore(waitList, x, y)
                                         \/ y = n
                                         \/ (x = n /\ x \in Premium /\ y \notin Premium)
       /\ \A b \in InGame' \ InGame :
             LET n == body'[b].name
             IN  ~Skips(n) =>
                   \A y \in cast.names :
                       IsBefore(waitList, y, n) /\ Slots(waitList', y) # {}
                           => Cardinality(InGame') + Slot(waitList', y) <= MaxPlayers]_vars
=============================================================================
