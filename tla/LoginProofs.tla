------------------------------ MODULE LoginProofs ------------------------------
(***************************************************************************)
(* Theorems about logins, for any number of clients, characters and player *)
(* objects.                                                                *)
(***************************************************************************)
EXTENDS Login, FiniteSetTheorems, SequenceTheorems, WellFoundedInduction, TLAPS

\* How far a protocol has come says what it has: none before its login, no
\* player while its connect event is on its way, and a player that was placed
\* in the game from the moment it accepts packets.
StagesAgree ==
    /\ \A c \in Client :
          /\ client[c].conn = "none" \/ client[c].event \/ client[c].todo = <<"login">>
                => client[c].player = NoBody /\ ~client[c].accepts
          /\ client[c].conn = "none" => client[c].todo = <<>> /\ ~client[c].event
          /\ client[c].todo = <<"login">> => ~client[c].event
          /\ client[c].accepts => /\ client[c].player \in Body
                                  /\ body[client[c].player].at \in {"game", "removed"}
    /\ parsing # NoClient => client[parsing].accepts /\ client[parsing].conn \in {"open", "closing"}

\* Of the clients that will connect to a player kept for them, one comes late
\* enough to find him without the client that was kicked.
ConnectingIsFound ==
    \A b \in InGame : body[b].connecting =>
        \E c \in Client : /\ client[c].event /\ client[c].seeks = b
                          /\ body[b].client \in client[c].behind \cup {NoClient}

IInv == TypeOK /\ StagesAgree /\ PlayersAreHeld /\ OneClientEach /\ ConnectingIsFound /\ OncePerAccount

-----------------------------------------------------------------------------
(* Types. *)

LEMMA TodoFacts ==
    /\ {<<>>, <<"login">>, <<"logout">>} \subseteq Todo
    /\ \A t \in Todo : t # <<>> => Tail(t) = <<>>
    /\ \A t \in Todo : t # <<>> /\ Head(t) = "login" => t = <<"login">>
<1>1. \A x : Tail(<<x>>) = <<>>
  OBVIOUS
<1> QED BY <1>1 DEF Todo

\* The records again, with names for the sets that the provers need not look
\* into.
Flag == BOOLEAN
Conns == {"none", "open", "closing", "gone"}
Places == {"none", "made", "game", "removed"}

LEMMA Records ==
    /\ Protocol = [conn : Conns, name : Name, todo : Todo, player : Body \cup {NoBody},
                   accepts : Flag, event : Flag, seeks : Body \cup {NoBody},
                   behind : SUBSET Client]
    /\ PlayerObject = [at : Places, name : Name, client : Client \cup {NoClient},
                       connecting : Flag, refs : Nat]
BY DEF Protocol, PlayerObject, Flag, Conns, Places

\* What closing, finishing a task and losing a player from sight leave alone.
Kept(p, q) == /\ q.player = p.player /\ q.accepts = p.accepts
              /\ q.event = p.event /\ q.behind = p.behind

LEMMA NoProtocolType == NoProtocol \in Protocol /\ NoPlayer \in PlayerObject
BY TodoFacts DEF NoProtocol, Protocol, NoPlayer, PlayerObject, Name

LEMMA ClosedType ==
    ASSUME NEW cl \in [Client -> Protocol], NEW c \in Client \cup {NoClient}
    PROVE  /\ Closed(cl, c) \in [Client -> Protocol]
           /\ \A d \in Client : LET p == Closed(cl, c)[d] IN
                 /\ Kept(cl[d], p) /\ p.todo = cl[d].todo /\ p.seeks = cl[d].seeks
                 /\ p.conn = IF d = c /\ cl[d].conn = "open" THEN "closing" ELSE cl[d].conn
<1>1. "closing" \in Conns
  BY DEF Conns
<1> QED BY <1>1, Records, LoginAssumption DEF Closed, Kept

LEMMA DoneType ==
    ASSUME NEW cl \in [Client -> Protocol], NEW c \in Client, cl[c].todo # <<>>
    PROVE  /\ Done(cl, c) \in [Client -> Protocol]
           /\ \A d \in Client : LET p == Done(cl, c)[d] IN
                 /\ Kept(cl[d], p) /\ p.conn = cl[d].conn /\ p.seeks = cl[d].seeks
                 /\ p.todo = IF d = c THEN <<>> ELSE cl[d].todo
<1>1. Tail(cl[c].todo) = <<>> /\ <<>> \in Todo /\ "" \in Name
  BY TodoFacts, Records DEF Name
<1>2. Done(cl, c) = [cl EXCEPT ![c] = [cl[c] EXCEPT !.todo = Tail(cl[c].todo), !.name = ""]]
  BY Records DEF Done
<1> DEFINE q == [cl[c] EXCEPT !.todo = Tail(cl[c].todo), !.name = ""]
<1>3. q \in Protocol
  <2>1. \A p \in Protocol, t \in Todo, n \in Name : [p EXCEPT !.todo = t, !.name = n] \in Protocol
    BY Records
  <2> QED BY <1>1, <2>1
<1>4. Kept(cl[c], q) /\ q.conn = cl[c].conn /\ q.seeks = cl[c].seeks /\ q.todo = Tail(cl[c].todo)
  BY Records DEF Kept
<1>5. \A d \in Client : Done(cl, c)[d] = IF d = c THEN q ELSE cl[d]
  BY <1>2
<1>6. Done(cl, c) \in [Client -> Protocol]
  BY <1>2, <1>3
<1> HIDE DEF q
<1> QED BY <1>1, <1>4, <1>5, <1>6 DEF Kept

LEMMA UnlistedType ==
    ASSUME NEW cl \in [Client -> Protocol], NEW b
    PROVE  /\ Unlisted(cl, b) \in [Client -> Protocol]
           /\ \A d \in Client : LET p == Unlisted(cl, b)[d] IN
                 /\ Kept(cl[d], p) /\ p.conn = cl[d].conn /\ p.todo = cl[d].todo
                 /\ p.seeks = IF cl[d].seeks = b THEN NoBody ELSE cl[d].seeks
BY Records DEF Unlisted, Kept

LEMMA GoneType ==
    ASSUME NEW bo \in [Body -> PlayerObject], NEW bs
    PROVE  /\ Gone(bo, bs) \in [Body -> PlayerObject]
           /\ \A b \in Body : LET q == Gone(bo, bs)[b] IN
                 /\ q.client = bo[b].client /\ q.connecting = bo[b].connecting
                 /\ q.refs = bo[b].refs
                 /\ q.at = IF b \in bs THEN "removed" ELSE bo[b].at
                 /\ q.name = IF b \in bs THEN "" ELSE bo[b].name
<1>1. "removed" \in Places /\ "" \in Name
  BY DEF Places, Name
<1> QED BY <1>1, Records DEF Gone

\* What the protocols and players may be changed to.
LEMMA ProtocolUpdates ==
    ASSUME NEW p \in Protocol, NEW b \in Body \cup {NoBody}, NEW x \in BOOLEAN
    PROVE  /\ [p EXCEPT !.player = b] \in Protocol
           /\ [p EXCEPT !.player = b, !.accepts = x] \in Protocol
           /\ [p EXCEPT !.event = x, !.seeks = b] \in Protocol
           /\ \A B \in SUBSET Client : /\ [p EXCEPT !.behind = B] \in Protocol
                                       /\ [p EXCEPT !.event = x, !.seeks = b, !.behind = B] \in Protocol
           /\ \A t \in Todo : [p EXCEPT !.todo = t] \in Protocol
           /\ \A k \in {"none", "open", "closing", "gone"}, n \in Name, t \in Todo :
                 [p EXCEPT !.conn = k, !.name = n, !.todo = t] \in Protocol
<1>1. x \in Flag
  BY DEF Flag
<1>2. \A B \in SUBSET Client : /\ [p EXCEPT !.behind = B] \in Protocol
                              /\ [p EXCEPT !.event = x, !.seeks = b, !.behind = B] \in Protocol
  BY <1>1, Records
<1>3. \A k \in Conns, n \in Name, t \in Todo :
          [p EXCEPT !.conn = k, !.name = n, !.todo = t] \in Protocol
  BY Records
<1>4. \A t \in Todo : [p EXCEPT !.todo = t] \in Protocol
  BY Records
<1>5. /\ [p EXCEPT !.player = b] \in Protocol
      /\ [p EXCEPT !.player = b, !.accepts = x] \in Protocol
      /\ [p EXCEPT !.event = x, !.seeks = b] \in Protocol
  BY <1>1, Records
<1> QED BY <1>2, <1>3, <1>4, <1>5 DEF Conns

LEMMA PlayerUpdates ==
    ASSUME NEW q \in PlayerObject, NEW c \in Client \cup {NoClient}, NEW x \in BOOLEAN,
           NEW k \in Nat, NEW n \in Name
    PROVE  /\ [q EXCEPT !.client = c] \in PlayerObject
           /\ [q EXCEPT !.connecting = x] \in PlayerObject
           /\ [q EXCEPT !.refs = k] \in PlayerObject
           /\ [q EXCEPT !.client = c, !.refs = k, !.connecting = x] \in PlayerObject
           /\ \A a \in {"none", "made", "game", "removed"} :
                 /\ [q EXCEPT !.at = a, !.client = c, !.refs = k] \in PlayerObject
                 /\ [q EXCEPT !.at = a, !.refs = k, !.name = n] \in PlayerObject
<1>1. x \in Flag
  BY DEF Flag
<1>2. /\ [q EXCEPT !.client = c] \in PlayerObject
      /\ [q EXCEPT !.connecting = x] \in PlayerObject
      /\ [q EXCEPT !.refs = k] \in PlayerObject
      /\ [q EXCEPT !.client = c, !.refs = k, !.connecting = x] \in PlayerObject
  BY <1>1, Records
<1>3. \A a \in Places : /\ [q EXCEPT !.at = a, !.client = c, !.refs = k] \in PlayerObject
                        /\ [q EXCEPT !.at = a, !.refs = k, !.name = n] \in PlayerObject
  BY Records
<1> QED BY <1>2, <1>3 DEF Places

LEMMA AcceptType ==
    ASSUME NEW cl \in [Client -> Protocol], NEW c \in Client, NEW b \in Body,
           NEW x \in BOOLEAN
    PROVE  [cl EXCEPT ![c].player = b, ![c].accepts = x] \in [Client -> Protocol]
<1>1. [cl[c] EXCEPT !.player = b, !.accepts = x] \in Protocol
  BY ProtocolUpdates
<1>2. [cl EXCEPT ![c].player = b, ![c].accepts = x]
          = [cl EXCEPT ![c] = [cl[c] EXCEPT !.player = b, !.accepts = x]]
  BY DEF Protocol
<1> QED BY <1>1, <1>2

-----------------------------------------------------------------------------
(* What the steps do, field by field. *)

\* What a protocol may become when it is asked to close, has a task done, or
\* loses sight of the players in G.
Quieter(p, q, G) ==
    /\ Kept(p, q)
    /\ q.conn = p.conn \/ (p.conn = "open" /\ q.conn = "closing")
    /\ q.todo \in {p.todo, <<>>} \/ (q.todo = <<"logout">> /\ p.conn # "none")
    /\ q.seeks = IF p.seeks \in G THEN NoBody ELSE p.seeks

\* The players in G leave the game, nobody else does.
Departs(G) ==
    /\ G \subseteq InGame
    /\ \A c \in Client : Quieter(client[c], client'[c], G)
    /\ \A b \in Body :
          /\ body'[b].client = body[b].client /\ body'[b].connecting = body[b].connecting
          /\ body'[b].refs = body[b].refs
          /\ b \in G => /\ body'[b].at = "removed" /\ body'[b].name = ""
                        /\ releases'[b] = releases[b] + 1
          /\ b \notin G => /\ body'[b].at = body[b].at /\ body'[b].name = body[b].name
                          /\ releases'[b] = releases[b]

\* The client gets a new player, who is placed or not, and stays or not.
Admits(c, b, at) ==
    /\ client[c].todo = <<"login">> /\ body[b].at = "none"
    /\ \A d \in Client :
          LET p == client[d]
              q == client'[d]
          IN  /\ q.event = p.event /\ q.behind = p.behind
              /\ q.seeks = p.seeks \/ (p.seeks = b /\ q.seeks = NoBody)
              /\ d # c => /\ q.conn = p.conn /\ q.todo = p.todo
                          /\ q.player = p.player /\ q.accepts = p.accepts
    /\ LET q == client'[c]
       IN  /\ q.conn = client[c].conn \/ (client[c].conn = "open" /\ q.conn = "closing")
           /\ q.todo = <<>> /\ q.player = b
           /\ q.accepts => at # "made"
    /\ body'[b].at = at /\ at \in {"made", "game", "removed"}
    /\ body'[b].client = c /\ ~body'[b].connecting
    /\ body'[b].refs = IF at = "made" THEN 1 ELSE 2
    /\ at = "game" => body'[b].name = client[c].name
    /\ \A x \in Body : /\ x # b => body'[x] = body[x]
                       /\ releases'[x] = releases[x] + IF x = b /\ at = "removed" THEN 1 ELSE 0

\* The client gets the player b, who had none.
Attaches(c, b) ==
    /\ Finds(b)
    /\ (client[c].event /\ client[c].seeks = b) \/ client[c].todo = <<"login">>
    /\ \A d \in Client :
          LET p == client[d]
              q == client'[d]
          IN  /\ q.conn = p.conn /\ q.behind = p.behind
              /\ d # c => /\ q.todo = p.todo /\ q.event = p.event /\ q.seeks = p.seeks
                          /\ q.player = p.player /\ q.accepts = p.accepts
    /\ client'[c].player = b /\ client'[c].accepts
    /\ ~client'[c].event /\ client'[c].todo # <<"login">>
    /\ client[c].conn = "none" => client'[c].todo = client[c].todo
    /\ \A x \in Body :
          /\ body'[x].at = body[x].at /\ body'[x].name = body[x].name
          /\ body'[x].client = (IF x = b THEN c ELSE body[x].client)
          /\ body'[x].connecting <=> (x # b /\ body[x].connecting)
          /\ body'[x].refs = body[x].refs + IF x = b THEN 1 ELSE 0
    /\ UNCHANGED releases

LEMMA RemoveEffect ==
    ASSUME NEW bo \in [Body -> PlayerObject], NEW b \in Body,
           NEW cl \in [Client -> Protocol], releases \in [Body -> Nat], Remove(bo, b, cl)
    PROVE  /\ client' \in [Client -> Protocol] /\ body' \in [Body -> PlayerObject]
           /\ releases' \in [Body -> Nat]
           /\ \A d \in Client : LET p == client'[d] IN
                 /\ Kept(cl[d], p) /\ p.conn = cl[d].conn /\ p.todo = cl[d].todo
                 /\ cl[d].seeks = b => p.seeks = NoBody
                 /\ cl[d].seeks # b => p.seeks = cl[d].seeks
           /\ \A x \in Body : x # b => body'[x] = bo[x] /\ releases'[x] = releases[x]
           /\ body'[b].client = bo[b].client /\ body'[b].connecting = bo[b].connecting
           /\ body'[b].refs = bo[b].refs /\ body'[b].at = "removed" /\ body'[b].name = ""
           /\ releases'[b] = releases[b] + 1
<1>1. client' = Unlisted(cl, b) /\ body' = Gone(bo, {b}) /\ releases' = [releases EXCEPT ![b] = @ + 1]
  BY DEF Remove, Released
<1>2. /\ releases' \in [Body -> Nat] /\ releases'[b] = releases[b] + 1
      /\ \A x \in Body : x # b => releases'[x] = releases[x]
  BY <1>1
<1>3. client' \in [Client -> Protocol] /\ \A d \in Client : LET p == client'[d] IN
                 /\ Kept(cl[d], p) /\ p.conn = cl[d].conn /\ p.todo = cl[d].todo
                 /\ cl[d].seeks = b => p.seeks = NoBody
                 /\ cl[d].seeks # b => p.seeks = cl[d].seeks
  <2>1. /\ Unlisted(cl, b) \in [Client -> Protocol]
        /\ \A d \in Client : LET p == Unlisted(cl, b)[d] IN
                 /\ Kept(cl[d], p) /\ p.conn = cl[d].conn /\ p.todo = cl[d].todo
                 /\ p.seeks = IF cl[d].seeks = b THEN NoBody ELSE cl[d].seeks
    BY UnlistedType
  <2> QED BY <1>1, <2>1
<1>4. body' = [x \in Body |-> IF x = b THEN [bo[x] EXCEPT !.at = "removed", !.name = ""] ELSE bo[x]]
  BY <1>1 DEF Gone
<1>5. body' \in [Body -> PlayerObject]
  <2>1. \A p \in PlayerObject, a \in Places, n \in Name : [p EXCEPT !.at = a, !.name = n] \in PlayerObject
    BY Records
  <2>2. "removed" \in Places /\ "" \in Name
    BY DEF Places, Name
  <2> QED BY <1>4, <2>1, <2>2
<1>6. LET q == body'[b] IN
         /\ q.client = bo[b].client /\ q.connecting = bo[b].connecting
         /\ q.refs = bo[b].refs /\ q.at = "removed" /\ q.name = ""
  BY <1>4, Records
<1>7. \A x \in Body : x # b => body'[x] = bo[x]
  BY <1>4
<1> QED BY <1>2, <1>3, <1>5, <1>6, <1>7

LEMMA ConnectEffect ==
    ASSUME body \in [Body -> PlayerObject], NEW cl \in [Client -> Protocol], NEW c \in Client,
           NEW b \in Body, Finds(b), Connect(cl, c, b)
    PROVE  /\ client' \in [Client -> Protocol] /\ body' \in [Body -> PlayerObject]
           /\ \A d \in Client : LET p == client'[d] IN
                 /\ p.conn = cl[d].conn /\ p.behind = cl[d].behind
                 /\ p.todo = cl[d].todo /\ p.event = cl[d].event /\ p.seeks = cl[d].seeks
                 /\ d # c => p.player = cl[d].player /\ p.accepts = cl[d].accepts
           /\ client'[c].player = b /\ client'[c].accepts
           /\ \A x \in Body : LET q == body'[x] IN
                 /\ q.at = body[x].at /\ q.name = body[x].name
                 /\ q.client = (IF x = b THEN c ELSE body[x].client)
                 /\ q.connecting <=> (x # b /\ body[x].connecting)
                 /\ q.refs = body[x].refs + IF x = b THEN 1 ELSE 0
<1>1. /\ client' = [cl EXCEPT ![c].player = b, ![c].accepts = TRUE]
      /\ body' = [body EXCEPT ![b].client = c, ![b].refs = @ + 1, ![b].connecting = FALSE]
  BY DEF Connect, Attached
<1>2. client' \in [Client -> Protocol]
  BY <1>1, AcceptType
<1>3. \A d \in Client : LET p == client'[d] IN
                 /\ p.conn = cl[d].conn /\ p.behind = cl[d].behind
                 /\ p.todo = cl[d].todo /\ p.event = cl[d].event /\ p.seeks = cl[d].seeks
                 /\ d # c => p.player = cl[d].player /\ p.accepts = cl[d].accepts
  BY <1>1, Records
<1>4. client'[c].player = b /\ client'[c].accepts
  BY <1>1, Records
<1>5. PICK y \in Flag : y = FALSE
  BY DEF Flag
<1> DEFINE q == [body[b] EXCEPT !.client = c, !.refs = body[b].refs + 1, !.connecting = y]
<1>6. \A x \in Body : body'[x] = IF x = b THEN q ELSE body[x]
  BY <1>1, <1>5, Records
<1>7. q \in PlayerObject
  <2>1. \A p \in PlayerObject, k \in Nat, d \in Client :
            [p EXCEPT !.client = d, !.refs = k, !.connecting = y] \in PlayerObject
    BY Records
  <2>2. body[b].refs + 1 \in Nat
    BY Records
  <2> QED BY <2>1, <2>2
<1>8. /\ q.at = body[b].at /\ q.name = body[b].name /\ q.client = c /\ ~q.connecting
      /\ q.refs = body[b].refs + 1
  BY <1>5, Records
<1>9. body' \in [Body -> PlayerObject]
  BY <1>1, <1>6, <1>7
<1> HIDE DEF q
<1>10. \A x \in Body : body[x].refs + 0 = body[x].refs /\ body[x].connecting \in BOOLEAN
  BY Records DEF Flag
<1>11. ASSUME NEW x \in Body
       PROVE  LET r == body'[x] IN
                 /\ r.at = body[x].at /\ r.name = body[x].name
                 /\ r.client = (IF x = b THEN c ELSE body[x].client)
                 /\ r.connecting <=> (x # b /\ body[x].connecting)
                 /\ r.refs = body[x].refs + IF x = b THEN 1 ELSE 0
  <2>1. CASE x = b
    BY <1>6, <1>8, <1>10, <2>1
  <2>2. CASE x # b
    BY <1>6, <1>10, <2>2
  <2> QED BY <2>1, <2>2
<1> QED BY <1>2, <1>3, <1>4, <1>9, <1>11

LEMMA LoginAgainEffect ==
    ASSUME TypeOK, StagesAgree, NEW c \in Client, LoginAgain(c)
    PROVE  TypeOK' /\ \E b \in Body : Attaches(c, b)
<1>1. PICK b \in Body : /\ b \in InGame /\ body[b].client = NoClient
                       /\ Connect(Done(client, c), c, b)
  BY DEF LoginAgain, Named, InGame
<1>2. Finds(b)
  BY <1>1 DEF Finds
<1>3. client[c].todo # <<>> /\ client[c].todo = <<"login">>
  BY TodoFacts, Records DEF LoginAgain, TakesTask, TypeOK
<1> DEFINE cl == Done(client, c)
<1>4. cl \in [Client -> Protocol]
  BY <1>3, DoneType DEF TypeOK
<1>5. \A d \in Client : LET p == cl[d] IN
                 /\ Kept(client[d], p) /\ p.conn = client[d].conn /\ p.seeks = client[d].seeks
                 /\ p.todo = IF d = c THEN <<>> ELSE client[d].todo
  BY <1>3, DoneType DEF TypeOK
<1> HIDE DEF cl
<1>6. Connect(cl, c, b)
  BY <1>1 DEF cl
<1>7. /\ client' \in [Client -> Protocol] /\ body' \in [Body -> PlayerObject]
      /\ client'[c].player = b /\ client'[c].accepts
  BY <1>2, <1>4, <1>6, ConnectEffect DEF TypeOK
<1>8. \A d \in Client : LET p == client'[d] IN
                 /\ p.conn = cl[d].conn /\ p.behind = cl[d].behind
                 /\ p.todo = cl[d].todo /\ p.event = cl[d].event /\ p.seeks = cl[d].seeks
                 /\ d # c => p.player = cl[d].player /\ p.accepts = cl[d].accepts
  BY <1>2, <1>4, <1>6, ConnectEffect DEF TypeOK
<1>9. \A x \in Body : LET q == body'[x] IN
                 /\ q.at = body[x].at /\ q.name = body[x].name
                 /\ q.client = (IF x = b THEN c ELSE body[x].client)
                 /\ q.connecting <=> (x # b /\ body[x].connecting)
                 /\ q.refs = body[x].refs + IF x = b THEN 1 ELSE 0
  BY <1>2, <1>4, <1>6, ConnectEffect DEF TypeOK
<1>10. TypeOK'
  BY <1>7 DEF LoginAgain, TypeOK
<1>11. UNCHANGED releases
  BY DEF LoginAgain
<1>12. ~client[c].event /\ client[c].conn # "none" /\ <<>> # <<"login">>
  BY <1>3 DEF StagesAgree
<1>13. Attaches(c, b)
  <2>1. \A d \in Client : LET p == client[d]
                             q == client'[d]
            IN  /\ q.conn = p.conn /\ q.behind = p.behind
                /\ d # c => /\ q.todo = p.todo /\ q.event = p.event /\ q.seeks = p.seeks
                            /\ q.player = p.player /\ q.accepts = p.accepts
    BY <1>5, <1>8 DEF Kept
  <2>2. ~client'[c].event /\ client'[c].todo # <<"login">>
    BY <1>5, <1>8, <1>12 DEF Kept
  <2> QED BY <1>2, <1>3, <1>7, <1>9, <1>11, <1>12, <2>1, <2>2 DEF Attaches
<1> QED BY <1>10, <1>13

LEMMA ConnectEventEffect ==
    ASSUME TypeOK, StagesAgree, NEW c \in Client, ConnectEvent(c), Finds(client[c].seeks)
    PROVE  TypeOK' /\ \E b \in Body : Attaches(c, b)
<1> DEFINE b == client[c].seeks
           cl == [client EXCEPT ![c].event = FALSE, ![c].seeks = NoBody]
<1>1. b \in Body /\ Finds(b) /\ Connect(cl, c, b) /\ client[c].event /\ client[c].seeks = b
  BY DEF ConnectEvent, Finds, InGame
<1>0. PICK no \in Flag : no = FALSE
  BY DEF Flag
<1>12. cl = [client EXCEPT ![c] = [client[c] EXCEPT !.event = no, !.seeks = NoBody]]
  BY <1>0, Records DEF TypeOK
<1>2. cl \in [Client -> Protocol]
  <2>2. [client[c] EXCEPT !.event = no, !.seeks = NoBody] \in Protocol
    <3>1. \A p \in Protocol, y \in Flag : [p EXCEPT !.event = y, !.seeks = NoBody] \in Protocol
      BY Records
    <3> QED BY <3>1 DEF TypeOK
  <2> QED BY <1>12, <2>2 DEF TypeOK
<1>3. \A d \in Client : LET p == cl[d] IN
          /\ p.conn = client[d].conn /\ p.behind = client[d].behind /\ p.todo = client[d].todo
          /\ p.player = client[d].player /\ p.accepts = client[d].accepts
          /\ d # c => p.event = client[d].event /\ p.seeks = client[d].seeks
  <2>1. \A d \in Client : d # c => cl[d] = client[d]
    BY <1>12 DEF TypeOK
  <2>2. LET q == [client[c] EXCEPT !.event = no, !.seeks = NoBody]
            p == client[c]
        IN  /\ q.conn = p.conn /\ q.behind = p.behind /\ q.todo = p.todo
            /\ q.player = p.player /\ q.accepts = p.accepts
    BY Records DEF TypeOK
  <2>3. cl[c] = [client[c] EXCEPT !.event = no, !.seeks = NoBody]
    BY <1>12 DEF TypeOK
  <2>4. LET p == client[c]
        IN  /\ cl[c].conn = p.conn /\ cl[c].behind = p.behind /\ cl[c].todo = p.todo
            /\ cl[c].player = p.player /\ cl[c].accepts = p.accepts
    BY <2>2, <2>3, Zenon
  <2> HIDE DEF cl
  <2> QED BY <2>1, <2>4
<1>4. ~cl[c].event /\ client[c].todo # <<"login">> /\ client[c].conn # "none"
  BY <1>1, Records DEF TypeOK, StagesAgree
<1>5. body \in [Body -> PlayerObject]
  BY DEF TypeOK
<1> HIDE DEF cl, b
<1>6. /\ client' \in [Client -> Protocol] /\ body' \in [Body -> PlayerObject]
      /\ client'[c].player = b /\ client'[c].accepts
  BY <1>1, <1>2, <1>5, ConnectEffect
<1>7. \A d \in Client : LET p == client'[d] IN
                 /\ p.conn = cl[d].conn /\ p.behind = cl[d].behind
                 /\ p.todo = cl[d].todo /\ p.event = cl[d].event /\ p.seeks = cl[d].seeks
                 /\ d # c => p.player = cl[d].player /\ p.accepts = cl[d].accepts
  BY <1>1, <1>2, <1>5, ConnectEffect
<1>8. \A x \in Body : LET q == body'[x] IN
                 /\ q.at = body[x].at /\ q.name = body[x].name
                 /\ q.client = (IF x = b THEN c ELSE body[x].client)
                 /\ q.connecting <=> (x # b /\ body[x].connecting)
                 /\ q.refs = body[x].refs + IF x = b THEN 1 ELSE 0
  BY <1>1, <1>2, <1>5, ConnectEffect
<1>9. TypeOK'
  BY <1>6 DEF ConnectEvent, TypeOK
<1>10. UNCHANGED releases
  BY DEF ConnectEvent
<1>11. Attaches(c, b)
  <2>1. \A d \in Client : LET p == client[d]
                             q == client'[d]
            IN  /\ q.conn = p.conn /\ q.behind = p.behind
                /\ d # c => /\ q.todo = p.todo /\ q.event = p.event /\ q.seeks = p.seeks
                            /\ q.player = p.player /\ q.accepts = p.accepts
    BY <1>3, <1>7
  <2>2. ~client'[c].event /\ client'[c].todo # <<"login">>
    BY <1>3, <1>4, <1>7
  <2> QED BY <1>1, <1>4, <1>6, <1>8, <1>10, <2>1, <2>2 DEF Attaches
<1> QED BY <1>1, <1>9, <1>11

\* The client that is given a player, its task done: refused, or let in.
Seated(c, b) == Done([client EXCEPT ![c].player = b], c)
LetIn(c, b) == Done([client EXCEPT ![c].player = b, ![c].accepts = TRUE], c)
Placed(c, b, n) == [Made(c, b) EXCEPT ![b].at = "game", ![b].refs = 2, ![b].name = n]

LEMMA SeatEffect ==
    ASSUME TypeOK, NEW c \in Client, NEW b \in Body, client[c].todo = <<"login">>,
           NEW cl \in {Seated(c, b), LetIn(c, b)}
    PROVE  /\ cl \in [Client -> Protocol]
           /\ \A d \in Client : LET p == cl[d] IN
                 /\ p.event = client[d].event /\ p.behind = client[d].behind
                 /\ p.conn = client[d].conn /\ p.seeks = client[d].seeks
                 /\ d # c => /\ p.todo = client[d].todo /\ p.player = client[d].player
                             /\ p.accepts = client[d].accepts
           /\ cl[c].todo = <<>> /\ cl[c].player = b
           /\ cl = Seated(c, b) => cl[c].accepts = client[c].accepts
<1>1. PICK yes \in Flag : yes = TRUE
  BY DEF Flag
<1>2. PICK p0 \in Protocol : p0 = client[c]
  BY DEF TypeOK
<1>3. PICK p \in Protocol :
          /\ cl = Done([client EXCEPT ![c] = p], c)
          /\ p.event = p0.event /\ p.behind = p0.behind /\ p.conn = p0.conn
          /\ p.seeks = p0.seeks /\ p.todo = p0.todo /\ p.player = b
          /\ cl = Seated(c, b) => p.accepts = p0.accepts
  <2>1. CASE cl = Seated(c, b)
    <3>1. [client EXCEPT ![c].player = b] = [client EXCEPT ![c] = [p0 EXCEPT !.player = b]]
      BY <1>2 DEF TypeOK
    <3>2. [p0 EXCEPT !.player = b] \in Protocol
      BY Records
    <3>3. LET p == [p0 EXCEPT !.player = b]
          IN  /\ p.event = p0.event /\ p.behind = p0.behind /\ p.conn = p0.conn
              /\ p.seeks = p0.seeks /\ p.todo = p0.todo /\ p.player = b
              /\ p.accepts = p0.accepts
      BY Records
    <3> QED BY <2>1, <3>1, <3>2, <3>3 DEF Seated
  <2>2. CASE cl # Seated(c, b) /\ cl = LetIn(c, b)
    <3>1. [client EXCEPT ![c].player = b, ![c].accepts = TRUE]
              = [client EXCEPT ![c] = [p0 EXCEPT !.player = b, !.accepts = yes]]
      BY <1>1, <1>2, Records DEF TypeOK
    <3>2. [p0 EXCEPT !.player = b, !.accepts = yes] \in Protocol
      BY Records
    <3>3. LET p == [p0 EXCEPT !.player = b, !.accepts = yes]
          IN  /\ p.event = p0.event /\ p.behind = p0.behind /\ p.conn = p0.conn
              /\ p.seeks = p0.seeks /\ p.todo = p0.todo /\ p.player = b
      BY Records
    <3> QED BY <2>2, <3>1, <3>2, <3>3 DEF LetIn
  <2> QED BY <2>1, <2>2
<1> DEFINE given == [client EXCEPT ![c] = p]
<1>4. given \in [Client -> Protocol] /\ given[c] = p /\ \A d \in Client : d # c => given[d] = client[d]
  BY DEF TypeOK
<1>5. given[c].todo # <<>>
  <2>1. <<"login">> # <<>>
    OBVIOUS
  <2> QED BY <1>2, <1>3, <1>4, <2>1
<1>6. cl = Done(given, c)
  BY <1>3
<1> HIDE DEF given
<1>7. cl \in [Client -> Protocol]
  BY <1>4, <1>5, <1>6, DoneType
<1>8. \A d \in Client : LET q == cl[d] IN
                 /\ Kept(given[d], q) /\ q.conn = given[d].conn /\ q.seeks = given[d].seeks
                 /\ q.todo = IF d = c THEN <<>> ELSE given[d].todo
  BY <1>4, <1>5, <1>6, DoneType
<1>9. /\ cl[c].todo = <<>> /\ cl[c].player = b
      /\ cl = Seated(c, b) => cl[c].accepts = client[c].accepts
  BY <1>2, <1>3, <1>4, <1>8 DEF Kept
<1>10. ASSUME NEW d \in Client
       PROVE  LET q == cl[d] IN
                 /\ q.event = client[d].event /\ q.behind = client[d].behind
                 /\ q.conn = client[d].conn /\ q.seeks = client[d].seeks
                 /\ d # c => /\ q.todo = client[d].todo /\ q.player = client[d].player
                             /\ q.accepts = client[d].accepts
  <2>1. CASE d = c
    BY <1>2, <1>3, <1>4, <1>8, <2>1 DEF Kept
  <2>2. CASE d # c
    BY <1>4, <1>8, <2>2 DEF Kept
  <2> QED BY <2>1, <2>2
<1> QED BY <1>7, <1>9, <1>10

LEMMA MadeEffect ==
    ASSUME TypeOK, NEW c \in Client, NEW b \in Body, NEW n \in Name
    PROVE  /\ Made(c, b) \in [Body -> PlayerObject] /\ Placed(c, b, n) \in [Body -> PlayerObject]
           /\ \A x \in Body : x # b => Made(c, b)[x] = body[x] /\ Placed(c, b, n)[x] = body[x]
           /\ LET q == Made(c, b)[b] IN
                 q.at = "made" /\ q.client = c /\ ~q.connecting /\ q.refs = 1
           /\ LET q == Placed(c, b, n)[b] IN
                 q.at = "game" /\ q.client = c /\ ~q.connecting /\ q.refs = 2 /\ q.name = n
<1>1. PICK p \in PlayerObject : p = NoPlayer
  BY NoProtocolType
<1>2. ~p.connecting
  BY <1>1 DEF NoPlayer
<1>3. PICK m \in PlayerObject : m = [p EXCEPT !.at = "made", !.client = c, !.refs = 1]
  <2>1. \A a \in Places, k \in Nat : [p EXCEPT !.at = a, !.client = c, !.refs = k] \in PlayerObject
    BY Records
  <2> QED BY <2>1 DEF Places
<1>4. PICK g \in PlayerObject : g = [m EXCEPT !.at = "game", !.refs = 2, !.name = n]
  <2>1. \A a \in Places, k \in Nat : [m EXCEPT !.at = a, !.refs = k, !.name = n] \in PlayerObject
    BY Records
  <2> QED BY <2>1 DEF Places
<1>5. m.at = "made" /\ m.client = c /\ ~m.connecting /\ m.refs = 1
  BY <1>2, <1>3, Records
<1>6. g.at = "game" /\ g.client = c /\ ~g.connecting /\ g.refs = 2 /\ g.name = n
  BY <1>4, <1>5, Records
<1>7. Made(c, b) = [body EXCEPT ![b] = m]
  BY <1>1, <1>3 DEF Made
<1>8. Placed(c, b, n) = [body EXCEPT ![b] = g]
  BY <1>4, <1>7 DEF TypeOK, Placed
<1> QED BY <1>5, <1>6, <1>7, <1>8 DEF TypeOK

LEMMA LoginNewEffect ==
    ASSUME TypeOK, StagesAgree, NEW c \in Client, LoginNew(c)
    PROVE  /\ TypeOK'
           /\ \E b \in Body, at \in {"made", "game", "removed"} :
                 /\ Admits(c, b, at)
                 /\ at = "game" => LET n == client[c].name IN
                       Named(n) = {} /\ ~Barred(n) /\ ~SharesAccount(n)
<1> DEFINE n == client[c].name
<1>1. PICK b \in Body : /\ body[b].at = "none"
                       /\ \/ Refuse(c, b)
                          \/ ~Barred(n) /\ ~SharesAccount(n) /\ Enter(c, b)
  BY DEF LoginNew
<1>2. client[c].todo = <<"login">> /\ client[c].todo # <<>> /\ ~client[c].accepts
  BY TodoFacts, Records DEF LoginNew, TakesTask, TypeOK, StagesAgree
<1>3. n \in Name
  BY Records DEF TypeOK
<1>4. Named(n) = {}
  BY DEF LoginNew
<1>5. UNCHANGED <<gameState, parsing, cast>>
  BY DEF LoginNew
<1>6. releases \in [Body -> Nat] /\ \A x \in Body : releases[x] + 0 = releases[x]
  BY DEF TypeOK
<1>7. CASE Refuse(c, b)
  <2> DEFINE cl == Seated(c, b)
  <2>1. /\ cl \in [Client -> Protocol]
        /\ \A d \in Client : LET p == cl[d] IN
                 /\ p.event = client[d].event /\ p.behind = client[d].behind
                 /\ p.conn = client[d].conn /\ p.seeks = client[d].seeks
                 /\ d # c => /\ p.todo = client[d].todo /\ p.player = client[d].player
                             /\ p.accepts = client[d].accepts
        /\ cl[c].todo = <<>> /\ cl[c].player = b
        /\ cl[c].accepts = client[c].accepts
    BY <1>2, SeatEffect
  <2>2. client' = Closed(cl, c) /\ body' = Made(c, b) /\ releases' = releases
    BY <1>7 DEF Refuse, Seated
  <2> HIDE DEF cl
  <2>3. client' \in [Client -> Protocol]
    BY <2>1, <2>2, ClosedType
  <2>4. \A d \in Client : LET p == client'[d] IN
                 /\ Kept(cl[d], p) /\ p.todo = cl[d].todo /\ p.seeks = cl[d].seeks
                 /\ p.conn = IF d = c /\ cl[d].conn = "open" THEN "closing" ELSE cl[d].conn
    BY <2>1, <2>2, ClosedType
  <2>5. /\ body' \in [Body -> PlayerObject]
        /\ \A x \in Body : x # b => body'[x] = body[x]
        /\ body'[b].at = "made" /\ body'[b].client = c /\ ~body'[b].connecting /\ body'[b].refs = 1
    BY <1>3, <2>2, MadeEffect
  <2>6. TypeOK'
    BY <1>5, <1>6, <2>2, <2>3, <2>5 DEF TypeOK
  <2>7. \A d \in Client : LET p == client[d]
                            q == client'[d]
            IN  /\ q.event = p.event /\ q.behind = p.behind /\ q.seeks = p.seeks
                /\ d # c => /\ q.conn = p.conn /\ q.todo = p.todo
                            /\ q.player = p.player /\ q.accepts = p.accepts
    BY <2>1, <2>4 DEF Kept
  <2>8. LET q == client'[c]
        IN  /\ q.conn = client[c].conn \/ (client[c].conn = "open" /\ q.conn = "closing")
            /\ q.todo = <<>> /\ q.player = b /\ ~q.accepts
    BY <1>2, <2>1, <2>4 DEF Kept
  <2>9. Admits(c, b, "made")
    BY <1>1, <1>2, <1>6, <2>2, <2>5, <2>7, <2>8 DEF Admits
  <2> QED BY <2>6, <2>9
<1>8. CASE ~Barred(n) /\ ~SharesAccount(n) /\ Enter(c, b)
  <2> DEFINE cl == LetIn(c, b)
             placed == Placed(c, b, n)
  <2>1. /\ cl \in [Client -> Protocol]
        /\ \A d \in Client : LET p == cl[d] IN
                 /\ p.event = client[d].event /\ p.behind = client[d].behind
                 /\ p.conn = client[d].conn /\ p.seeks = client[d].seeks
                 /\ d # c => /\ p.todo = client[d].todo /\ p.player = client[d].player
                             /\ p.accepts = client[d].accepts
        /\ cl[c].todo = <<>> /\ cl[c].player = b
    BY <1>2, SeatEffect
  <2>2. /\ placed \in [Body -> PlayerObject]
        /\ \A x \in Body : x # b => placed[x] = body[x]
        /\ LET q == placed[b] IN
                 q.at = "game" /\ q.client = c /\ ~q.connecting /\ q.refs = 2 /\ q.name = n
    BY <1>3, MadeEffect
  <2>3. \/ client' = cl /\ body' = placed /\ releases' = releases
        \/ Remove(placed, b, Closed(cl, c))
    BY <1>8 DEF Enter, LetIn, Placed
  <2> HIDE DEF cl, placed
  <2>4. CASE client' = cl /\ body' = placed /\ releases' = releases
    <3>1. TypeOK'
      BY <1>5, <1>6, <2>1, <2>2, <2>4 DEF TypeOK
    <3>2. Admits(c, b, "game")
      BY <1>1, <1>2, <1>6, <2>1, <2>2, <2>4 DEF Admits
    <3> QED BY <1>4, <1>8, <3>1, <3>2
  <2>5. CASE Remove(placed, b, Closed(cl, c))
    <3> DEFINE shut == Closed(cl, c)
    <3>1. shut \in [Client -> Protocol]
      BY <2>1, ClosedType
    <3>2. \A d \in Client : LET p == shut[d] IN
                 /\ Kept(cl[d], p) /\ p.todo = cl[d].todo /\ p.seeks = cl[d].seeks
                 /\ p.conn = IF d = c /\ cl[d].conn = "open" THEN "closing" ELSE cl[d].conn
      BY <2>1, ClosedType
    <3> HIDE DEF shut
    <3>3. Remove(placed, b, shut)
      BY <2>5 DEF shut
    <3>4. /\ client' \in [Client -> Protocol] /\ body' \in [Body -> PlayerObject]
          /\ releases' \in [Body -> Nat]
      BY <1>6, <2>2, <3>1, <3>3, RemoveEffect, ZenonT(30)
    <3>5. \A d \in Client : LET p == client'[d] IN
                 /\ Kept(shut[d], p) /\ p.conn = shut[d].conn /\ p.todo = shut[d].todo
                 /\ shut[d].seeks = b => p.seeks = NoBody
                 /\ shut[d].seeks # b => p.seeks = shut[d].seeks
      BY <1>6, <2>2, <3>1, <3>3, RemoveEffect, ZenonT(30)
    <3>6. \A x \in Body : x # b => body'[x] = body[x] /\ releases'[x] = releases[x]
      <4>1. \A x \in Body : x # b => body'[x] = placed[x] /\ releases'[x] = releases[x]
        BY <1>6, <2>2, <3>1, <3>3, RemoveEffect, ZenonT(30)
      <4> QED BY <2>2, <4>1
    <3>7. /\ body'[b].at = "removed" /\ body'[b].client = c /\ ~body'[b].connecting
          /\ body'[b].refs = 2 /\ releases'[b] = releases[b] + 1
      BY <1>6, <2>2, <3>1, <3>3, RemoveEffect, ZenonT(30)
    <3>8. \A x \in Body : releases'[x] = releases[x] + IF x = b THEN 1 ELSE 0
      BY <1>6, <3>6, <3>7
    <3>9. TypeOK'
      BY <1>5, <3>4 DEF TypeOK
    <3>10. \A d \in Client : LET p == client[d]
                               q == client'[d]
              IN  /\ q.event = p.event /\ q.behind = p.behind
                  /\ q.seeks = p.seeks \/ (p.seeks = b /\ q.seeks = NoBody)
                  /\ d # c => /\ q.conn = p.conn /\ q.todo = p.todo
                              /\ q.player = p.player /\ q.accepts = p.accepts
      BY <2>1, <3>2, <3>5 DEF Kept
    <3>11. LET q == client'[c]
           IN  /\ q.conn = client[c].conn \/ (client[c].conn = "open" /\ q.conn = "closing")
               /\ q.todo = <<>> /\ q.player = b
      BY <2>1, <3>2, <3>5 DEF Kept
    <3>12. Admits(c, b, "removed")
      BY <1>1, <1>2, <3>6, <3>7, <3>8, <3>10, <3>11 DEF Admits
    <3> QED BY <3>9, <3>12
  <2> QED BY <2>3, <2>4, <2>5
<1> QED BY <1>1, <1>7, <1>8

\* Protocols that may have been asked to close or had a task done.
Quiet(cl) == cl \in [Client -> Protocol] /\ \A c \in Client : Quieter(client[c], cl[c], {})

LEMMA QuietEffect ==
    ASSUME TypeOK
    PROVE  /\ Quiet(client)
           /\ \A c \in Client : client[c].todo # <<>> => Quiet(Done(client, c))
           /\ \A cl : \A c \in Client \cup {NoClient} : Quiet(cl) => Quiet(Closed(cl, c))
<1>1. Quiet(client)
  BY DEF Quiet, Quieter, Kept, TypeOK
<1>2. ASSUME NEW c \in Client, client[c].todo # <<>> PROVE Quiet(Done(client, c))
  <2> DEFINE cl == Done(client, c)
  <2>1. cl \in [Client -> Protocol]
    BY <1>2, DoneType DEF TypeOK
  <2>2. \A d \in Client : LET p == cl[d] IN
                 /\ Kept(client[d], p) /\ p.conn = client[d].conn /\ p.seeks = client[d].seeks
                 /\ p.todo = IF d = c THEN <<>> ELSE client[d].todo
    BY <1>2, DoneType DEF TypeOK
  <2> HIDE DEF cl
  <2>3. Quiet(cl)
    BY <2>1, <2>2 DEF Quiet, Quieter
  <2> QED BY <2>3 DEF cl
<1>3. ASSUME NEW cl0, NEW c \in Client \cup {NoClient}, Quiet(cl0) PROVE Quiet(Closed(cl0, c))
  <2> DEFINE cl == Closed(cl0, c)
  <2>1. cl0 \in [Client -> Protocol]
    BY <1>3 DEF Quiet
  <2>2. cl \in [Client -> Protocol]
    BY <2>1, ClosedType
  <2>3. \A d \in Client : LET p == cl[d] IN
                 /\ Kept(cl0[d], p) /\ p.todo = cl0[d].todo /\ p.seeks = cl0[d].seeks
                 /\ p.conn = IF d = c /\ cl0[d].conn = "open" THEN "closing" ELSE cl0[d].conn
    BY <2>1, ClosedType
  <2> HIDE DEF cl
  <2>4. Quiet(cl)
    BY <1>3, <2>2, <2>3 DEF Quiet, Quieter, Kept
  <2> QED BY <2>4 DEF cl
<1> QED BY <1>1, <1>2, <1>3

LEMMA StillEffect ==
    ASSUME TypeOK, Quiet(client'), UNCHANGED <<body, releases>>
    PROVE  Departs({})
BY DEF Departs, Quiet

LEMMA RemoveDeparts ==
    ASSUME TypeOK, NEW b \in InGame, NEW cl, Quiet(cl), Remove(body, b, cl)
    PROVE  /\ client' \in [Client -> Protocol] /\ body' \in [Body -> PlayerObject]
           /\ releases' \in [Body -> Nat]
           /\ Departs({b})
<1>1. /\ b \in Body /\ cl \in [Client -> Protocol]
      /\ body \in [Body -> PlayerObject] /\ releases \in [Body -> Nat]
  BY DEF InGame, Quiet, TypeOK
<1>2. /\ client' \in [Client -> Protocol] /\ body' \in [Body -> PlayerObject]
      /\ releases' \in [Body -> Nat]
  BY <1>1, RemoveEffect, ZenonT(30)
<1>3. \A d \in Client : LET p == client'[d] IN
                 /\ Kept(cl[d], p) /\ p.conn = cl[d].conn /\ p.todo = cl[d].todo
                 /\ cl[d].seeks = b => p.seeks = NoBody
                 /\ cl[d].seeks # b => p.seeks = cl[d].seeks
  BY <1>1, RemoveEffect, ZenonT(30)
<1>4. \A x \in Body : x # b => body'[x] = body[x] /\ releases'[x] = releases[x]
  BY <1>1, RemoveEffect, ZenonT(30)
<1>5. /\ body'[b].client = body[b].client /\ body'[b].connecting = body[b].connecting
      /\ body'[b].refs = body[b].refs /\ body'[b].at = "removed" /\ body'[b].name = ""
      /\ releases'[b] = releases[b] + 1
  BY <1>1, RemoveEffect, ZenonT(30)
<1>6. \A d \in Client : Quieter(client[d], client'[d], {b})
  BY <1>3 DEF Quiet, Quieter, Kept
<1> QED BY <1>2, <1>4, <1>5, <1>6 DEF Departs

LEMMA DropEffect ==
    ASSUME TypeOK, NEW c \in Client, Drop(c)
    PROVE  TypeOK' /\ Departs({})
<1>1. Quiet(client')
  BY QuietEffect DEF Drop
<1>2. TypeOK'
  BY <1>1 DEF Drop, TypeOK, Quiet
<1> QED BY <1>1, <1>2, StillEffect DEF Drop

LEMMA EndPacketEffect ==
    ASSUME TypeOK, StagesAgree, NEW c \in Client, EndPacket(c)
    PROVE  TypeOK' /\ Departs({})
<1>1. client[c].conn # "none"
  BY LoginAssumption DEF EndPacket, StagesAgree
<1>2. Quiet(client')
  <2>1. CASE client' = client
    BY <2>1, QuietEffect DEF Quiet
  <2>2. CASE client' = [client EXCEPT ![c].todo = <<"logout">>]
    <3>1. client' = [client EXCEPT ![c] = [client[c] EXCEPT !.todo = <<"logout">>]]
      BY <2>2 DEF TypeOK
    <3>2. [client[c] EXCEPT !.todo = <<"logout">>] \in Protocol
      <4>1. \A p \in Protocol, t \in Todo : [p EXCEPT !.todo = t] \in Protocol
        BY Records
      <4> QED BY <4>1, TodoFacts DEF TypeOK
    <3>3. Quieter(client[c], [client[c] EXCEPT !.todo = <<"logout">>], {})
      BY <1>1, Records DEF TypeOK, Quieter, Kept
    <3>4. \A d \in Client : Quieter(client[d], client[d], {})
      BY QuietEffect DEF Quiet
    <3> HIDE DEF Quieter
    <3> QED BY <3>1, <3>2, <3>3, <3>4 DEF TypeOK, Quiet
  <2> QED BY <2>1, <2>2 DEF EndPacket
<1>3. TypeOK'
  BY <1>2 DEF EndPacket, TypeOK, Quiet
<1> QED BY <1>2, <1>3, StillEffect DEF EndPacket

LEMMA KickEffect ==
    ASSUME TypeOK, NEW b \in Body, Kick(b) \/ Die(b)
    PROVE  TypeOK' /\ \E G \in SUBSET InGame : Departs(G)
<1>1. b \in InGame /\ UNCHANGED <<gameState, waitList, parsing, cast>>
  BY DEF Kick, Die
<1>2. body[b].client \in Client \cup {NoClient}
  BY Records DEF TypeOK
<1>3. \/ client' = client /\ UNCHANGED <<body, releases>>
      \/ \E cl : Quiet(cl) /\ Remove(body, b, cl)
  BY <1>2, QuietEffect DEF Kick, Die, Leave
<1>4. CASE client' = client /\ UNCHANGED <<body, releases>>
  BY <1>1, <1>4, QuietEffect, StillEffect DEF TypeOK
<1>5. ASSUME NEW cl, Quiet(cl), Remove(body, b, cl)
      PROVE  TypeOK' /\ Departs({b})
  BY <1>1, <1>5, RemoveDeparts DEF TypeOK
<1> QED BY <1>1, <1>3, <1>4, <1>5

LEMMA LogoutTaskEffect ==
    ASSUME TypeOK, NEW c \in Client, LogoutTask(c)
    PROVE  TypeOK' /\ \E G \in SUBSET InGame : Departs(G)
<1> DEFINE b == client[c].player
           cl == Done(client, c)
<1>1. UNCHANGED <<gameState, waitList, parsing, cast>> /\ client[c].todo # <<>>
  BY DEF LogoutTask, TakesTask
<1>2. Quiet(cl) /\ Quiet(Closed(cl, c))
  BY <1>1, QuietEffect
<1>3. \/ client' = Closed(cl, c) /\ UNCHANGED <<body, releases>>
      \/ b \in InGame /\ Leave(b, cl)
  BY DEF LogoutTask
<1> HIDE DEF b, cl
<1>4. CASE b \in InGame /\ Remove(body, b, Closed(cl, body[b].client))
  <2>1. body[b].client \in Client \cup {NoClient}
    BY <1>4, Records DEF TypeOK, InGame
  <2>2. Quiet(Closed(cl, body[b].client))
    BY <1>2, <2>1, QuietEffect
  <2>3. TypeOK' /\ Departs({b})
    BY <1>1, <1>4, <2>2, RemoveDeparts DEF TypeOK
  <2> QED BY <1>4, <2>3
<1>5. CASE Quiet(client') /\ UNCHANGED <<body, releases>>
  BY <1>1, <1>5, StillEffect DEF TypeOK, Quiet
<1> QED BY <1>2, <1>3, <1>4, <1>5 DEF Leave

LEMMA SetGameStateEffect ==
    ASSUME TypeOK, NEW s, SetGameState(s)
    PROVE  /\ TypeOK'
           /\ \E G \in SUBSET InGame :
                 /\ Departs(G)
                 /\ gameState' = "closed" => \A b \in InGame : b \in G \/ body[b].name \in AlwaysLogin
<1> DEFINE G == IF s = "shutdown" THEN InGame
                ELSE IF s = "closed" THEN {b \in InGame : body[b].name \notin AlwaysLogin}
                ELSE {}
           D == {body[b].client : b \in G}
           After(c) == IF c \in D THEN Closed(client, c)[c] ELSE client[c]
<1>1. /\ gameState' = s /\ UNCHANGED <<waitList, parsing, cast>>
      /\ body' = Gone(body, G)
      /\ releases' = [b \in Body |-> releases[b] + IF b \in G THEN 1 ELSE 0]
      /\ client' = [c \in Client |-> IF After(c).seeks \in G THEN [After(c) EXCEPT !.seeks = NoBody]
                                                             ELSE After(c)]
  BY DEF SetGameState
<1>2. G \subseteq InGame /\ G \subseteq Body
  BY DEF InGame
<1>3. gameState' = "closed" => \A b \in InGame : b \in G \/ body[b].name \in AlwaysLogin
  BY <1>1
<1>4. \A c \in Client : /\ After(c) \in Protocol
                        /\ Quieter(client[c], After(c), {})
  <2>1. \A c \in Client : Quiet(Closed(client, c)) /\ Quiet(client)
    BY QuietEffect
  <2> QED BY <2>1 DEF Quiet
<1> HIDE DEF G, After
<1>5. \A c \in Client : client'[c] \in Protocol /\ Quieter(client[c], client'[c], G)
  <2>1. ASSUME NEW c \in Client
        PROVE  client'[c] \in Protocol /\ Quieter(client[c], client'[c], G)
    <3>1. PICK p \in Protocol : p = After(c)
      BY <1>4
    <3>2. CASE p.seeks \in G
      <4>1. client'[c] = [p EXCEPT !.seeks = NoBody]
        BY <1>1, <3>1, <3>2
      <4>2. [p EXCEPT !.seeks = NoBody] \in Protocol
        BY Records
      <4>3. LET q == [p EXCEPT !.seeks = NoBody]
            IN  Kept(p, q) /\ q.conn = p.conn /\ q.todo = p.todo /\ q.seeks = NoBody
        BY Records DEF Kept
      <4> QED BY <1>4, <3>1, <3>2, <4>1, <4>2, <4>3 DEF Quieter, Kept
    <3>3. CASE p.seeks \notin G
      BY <1>1, <1>4, <3>1, <3>3 DEF Quieter
    <3> QED BY <3>2, <3>3
  <2> QED BY <2>1
<1>6. client' \in [Client -> Protocol] /\ releases' \in [Body -> Nat]
  BY <1>1, <1>5 DEF TypeOK
<1>7. body' \in [Body -> PlayerObject]
  BY <1>1, GoneType DEF TypeOK
<1>8. \A b \in Body : LET q == body'[b] IN
                 /\ q.client = body[b].client /\ q.connecting = body[b].connecting
                 /\ q.refs = body[b].refs
                 /\ b \in G => q.at = "removed" /\ q.name = ""
                 /\ b \notin G => q.at = body[b].at /\ q.name = body[b].name
  <2>1. ASSUME NEW b \in Body, b \in G
        PROVE  LET q == body'[b] IN
                 /\ q.client = body[b].client /\ q.connecting = body[b].connecting
                 /\ q.refs = body[b].refs /\ q.at = "removed" /\ q.name = ""
    <3>1. body'[b] = [body[b] EXCEPT !.at = "removed", !.name = ""]
      BY <1>1, <2>1 DEF Gone
    <3> QED BY <3>1, Records DEF TypeOK
  <2>2. ASSUME NEW b \in Body, b \notin G PROVE body'[b] = body[b]
    BY <1>1, <2>2 DEF Gone
  <2> QED BY <2>1, <2>2
<1>9. TypeOK'
  BY <1>1, <1>6, <1>7 DEF TypeOK
<1>10. \A b \in Body : /\ b \in G => releases'[b] = releases[b] + 1
                       /\ b \notin G => releases'[b] = releases[b]
  BY <1>1 DEF TypeOK
<1>11. Departs(G)
  BY <1>1, <1>2, <1>5, <1>8, <1>10 DEF Departs
<1> QED BY <1>2, <1>3, <1>9, <1>11

\* The client that kicked the one of b, and will connect later.
Awaits(c, b) ==
    /\ b \in InGame /\ body[b].client # NoClient /\ client[c].todo = <<"login">>
    /\ \A d \in Client :
          LET p == client[d]
              q == client'[d]
          IN  /\ q.player = p.player /\ q.accepts = p.accepts
              /\ q.conn = p.conn \/ (p.conn = "open" /\ q.conn = "closing")
              /\ d = body[b].client => q.conn # "open"
              /\ d # c => /\ q.todo = p.todo /\ q.event = p.event
                          /\ q.seeks = p.seeks /\ q.behind = p.behind
    /\ LET q == client'[c]
       IN  /\ q.todo = <<>> /\ q.event /\ q.seeks = b
           /\ q.behind = {d \in Client : client'[d].conn \in {"closing", "gone"}}
    /\ \A x \in Body :
          /\ body'[x].at = body[x].at /\ body'[x].name = body[x].name
          /\ body'[x].client = body[x].client /\ body'[x].refs = body[x].refs
          /\ x # b => body'[x].connecting = body[x].connecting
    /\ UNCHANGED releases

LEMMA TakeOverEffect ==
    ASSUME TypeOK, NEW c \in Client, TakeOver(c)
    PROVE  TypeOK' /\ (Departs({}) \/ \E b \in Body : Awaits(c, b))
<1>1. client[c].todo # <<>> /\ client[c].todo = <<"login">>
  BY TodoFacts, Records DEF TakeOver, TakesTask, TypeOK
<1>2. PICK b \in Body :
          /\ b \in InGame /\ body[b].client # NoClient
          /\ \/ /\ client' = Closed(Done(client, c), c)
                /\ UNCHANGED body
             \/ LET kicked == Closed(Done(client, c), body[b].client)
                IN  /\ client' = [kicked EXCEPT ![c].event = TRUE, ![c].seeks = b,
                                      ![c].behind = {d \in Client : kicked[d].conn \in
                                                                      {"closing", "gone"}}]
                    /\ body' = [body EXCEPT ![b].connecting = TRUE]
  BY DEF TakeOver, Named, InGame
<1>3. UNCHANGED <<gameState, waitList, releases, parsing, cast>>
  BY DEF TakeOver
<1>4. CASE client' = Closed(Done(client, c), c) /\ UNCHANGED body
  <2>1. Quiet(client')
    BY <1>1, <1>4, QuietEffect
  <2>2. TypeOK'
    BY <1>3, <1>4, <2>1 DEF TypeOK, Quiet
  <2> QED BY <1>3, <1>4, <2>1, <2>2, StillEffect
<1> DEFINE done == Done(client, c)
           kicked == Closed(done, body[b].client)
           B == {d \in Client : kicked[d].conn \in {"closing", "gone"}}
<1>5. CASE /\ client' = [kicked EXCEPT ![c].event = TRUE, ![c].seeks = b, ![c].behind = B]
           /\ body' = [body EXCEPT ![b].connecting = TRUE]
  <2>1. body[b].client \in Client \cup {NoClient}
    BY Records DEF TypeOK
  <2>2. done \in [Client -> Protocol]
    BY <1>1, DoneType DEF TypeOK
  <2>3. \A d \in Client : LET p == done[d] IN
                 /\ Kept(client[d], p) /\ p.conn = client[d].conn /\ p.seeks = client[d].seeks
                 /\ p.todo = IF d = c THEN <<>> ELSE client[d].todo
    BY <1>1, DoneType DEF TypeOK
  <2> HIDE DEF done
  <2>4. kicked \in [Client -> Protocol]
    BY <2>1, <2>2, ClosedType
  <2>5. \A d \in Client : LET p == kicked[d] IN
                 /\ Kept(done[d], p) /\ p.todo = done[d].todo /\ p.seeks = done[d].seeks
                 /\ p.conn = IF d = body[b].client /\ done[d].conn = "open" THEN "closing"
                                                                           ELSE done[d].conn
    BY <2>1, <2>2, ClosedType
  <2>6. B \in SUBSET Client /\ \A d \in Client : d \in B <=> kicked[d].conn \in {"closing", "gone"}
    OBVIOUS
  <2> HIDE DEF kicked, B
  <2>7. PICK yes \in Flag : yes = TRUE
    BY DEF Flag
  <2>8. client' = [kicked EXCEPT ![c] = [kicked[c] EXCEPT !.event = yes, !.seeks = b, !.behind = B]]
    BY <1>5, <2>4, <2>7, Records
  <2>9. PICK p \in Protocol : p = kicked[c]
    BY <2>4
  <2>10. PICK q \in Protocol : q = [p EXCEPT !.event = yes, !.seeks = b, !.behind = B]
    BY <2>6, Records
  <2>11. /\ q.event /\ q.seeks = b /\ q.behind = B /\ q.player = p.player
         /\ q.accepts = p.accepts /\ q.conn = p.conn /\ q.todo = p.todo
    BY <2>7, <2>10, Records
  <2>12. /\ client' \in [Client -> Protocol] /\ client'[c] = q
         /\ \A d \in Client : d # c => client'[d] = kicked[d]
    BY <2>4, <2>8, <2>9, <2>10
  <2>13. PICK r \in PlayerObject : r = [body[b] EXCEPT !.connecting = yes]
    <3>1. \A x \in PlayerObject : [x EXCEPT !.connecting = yes] \in PlayerObject
      BY Records
    <3> QED BY <3>1 DEF TypeOK
  <2>14. r.at = body[b].at /\ r.name = body[b].name /\ r.client = body[b].client /\ r.refs = body[b].refs
    BY <2>13, Records DEF TypeOK
  <2>15. body' = [body EXCEPT ![b] = r]
    BY <1>5, <2>7, <2>13, Records DEF TypeOK
  <2>16. TypeOK'
    BY <1>3, <2>12, <2>15 DEF TypeOK
  <2>17. \A d \in Client : client'[d].conn = kicked[d].conn
    BY <2>9, <2>11, <2>12
  <2>18. client'[c].behind = {d \in Client : client'[d].conn \in {"closing", "gone"}}
    BY <2>6, <2>11, <2>12, <2>17
  <2>19. ASSUME NEW d \in Client
         PROVE  LET p1 == client[d]
                    q1 == client'[d]
                IN  /\ q1.player = p1.player /\ q1.accepts = p1.accepts
                    /\ q1.conn = p1.conn \/ (p1.conn = "open" /\ q1.conn = "closing")
                    /\ d = body[b].client => q1.conn # "open"
                    /\ d # c => /\ q1.todo = p1.todo /\ q1.event = p1.event
                                /\ q1.seeks = p1.seeks /\ q1.behind = p1.behind
    <3>1. CASE d = c
      BY <2>3, <2>5, <2>9, <2>11, <2>12, <3>1 DEF Kept
    <3>2. CASE d # c
      BY <2>3, <2>5, <2>12, <3>2 DEF Kept
    <3> QED BY <3>1, <3>2
  <2>20. client'[c].todo = <<>> /\ client'[c].event /\ client'[c].seeks = b
    BY <2>3, <2>5, <2>9, <2>11, <2>12
  <2>21. \A x \in Body :
          /\ body'[x].at = body[x].at /\ body'[x].name = body[x].name
          /\ body'[x].client = body[x].client /\ body'[x].refs = body[x].refs
          /\ x # b => body'[x].connecting = body[x].connecting
    BY <2>14, <2>15 DEF TypeOK
  <2>22. Awaits(c, b)
    BY <1>1, <1>2, <1>3, <2>18, <2>19, <2>20, <2>21 DEF Awaits
  <2> QED BY <2>16, <2>22
<1> QED BY <1>2, <1>4, <1>5

\* The connection of c refers to its protocol no longer.
Frees(c) ==
    /\ client[c].conn = "gone" \/ (client[c].conn = "closing" /\ client[c].todo = <<>> /\ parsing # c)
    /\ \A d \in Client :
          LET p == client[d]
              q == client'[d]
          IN  d # c => /\ q.conn = p.conn /\ q.todo = p.todo /\ q.player = p.player
                       /\ q.accepts = p.accepts /\ q.event = p.event /\ q.seeks = p.seeks
                       /\ q.behind = p.behind \ {c}
    /\ \A x \in Body :
          /\ body'[x].at = body[x].at /\ body'[x].name = body[x].name
          /\ body'[x].refs = body[x].refs /\ body'[x].connecting = body[x].connecting
          /\ body[x].client # c => body'[x].client = body[x].client
          /\ body[x].client = c /\ client[c].player = x => body'[x].client = NoClient
          /\ body[x].client = c /\ client[c].player # x => body'[x].client = c
    /\ LET p == client[c]
           q == client'[c]
       IN  \/ /\ q.conn = "gone" /\ q.todo = p.todo /\ q.player = p.player
              /\ q.accepts = p.accepts /\ q.event = p.event /\ q.seeks = p.seeks
              /\ q.behind = p.behind \ {c}
              /\ UNCHANGED releases
           \/ /\ ~p.event /\ q = NoProtocol
              /\ \A x \in Body : /\ x = p.player => releases'[x] = releases[x] + 1
                                 /\ x # p.player => releases'[x] = releases[x]

LEMMA ReleaseEffect ==
    ASSUME TypeOK, NEW c \in Client, ReleaseProtocol(c)
    PROVE  TypeOK' /\ Frees(c)
<1> DEFINE rest == [d \in Client |-> [client[d] EXCEPT !.behind = @ \ {c}]]
<1>1. /\ client[c].conn = "gone" \/ (client[c].conn = "closing" /\ client[c].todo = <<>> /\ parsing # c)
      /\ body' = Unclaimed(c)
      /\ \/ client' = [rest EXCEPT ![c].conn = "gone"] /\ UNCHANGED releases
         \/ /\ ~client[c].event
            /\ client' = [rest EXCEPT ![c] = NoProtocol]
            /\ releases' = Dead(c)
      /\ UNCHANGED <<gameState, waitList, parsing, cast>>
  BY DEF ReleaseProtocol
<1>2. /\ rest \in [Client -> Protocol]
      /\ \A d \in Client : LET p == client[d]
                              q == rest[d]
             IN  /\ q.conn = p.conn /\ q.todo = p.todo /\ q.player = p.player
                 /\ q.accepts = p.accepts /\ q.event = p.event /\ q.seeks = p.seeks
                 /\ q.behind = p.behind \ {c}
  <2>1. \A p \in Protocol, B \in SUBSET Client : [p EXCEPT !.behind = B] \in Protocol
    BY Records
  <2>2. \A d \in Client : client[d] \in Protocol /\ client[d].behind \ {c} \in SUBSET Client
    BY Records DEF TypeOK
  <2>3. rest \in [Client -> Protocol]
    BY <2>1, <2>2
  <2> QED BY <2>2, <2>3, Records
<1> HIDE DEF rest
<1>3. body' \in [Body -> PlayerObject]
  <2>1. \A q \in PlayerObject : [q EXCEPT !.client = NoClient] \in PlayerObject
    BY Records
  <2> QED BY <1>1, <2>1 DEF Unclaimed, TypeOK
<1>4. \A x \in Body :
          /\ body'[x].at = body[x].at /\ body'[x].name = body[x].name
          /\ body'[x].refs = body[x].refs /\ body'[x].connecting = body[x].connecting
          /\ body[x].client # c => body'[x].client = body[x].client
          /\ body[x].client = c /\ client[c].player = x => body'[x].client = NoClient
          /\ body[x].client = c /\ client[c].player # x => body'[x].client = c
  BY <1>1, Records DEF Unclaimed, TypeOK
<1>5. CASE client' = [rest EXCEPT ![c].conn = "gone"] /\ UNCHANGED releases
  <2>1. PICK q \in Protocol : q = [rest[c] EXCEPT !.conn = "gone"]
    <3>1. \A p \in Protocol, k \in Conns : [p EXCEPT !.conn = k] \in Protocol
      BY Records
    <3> QED BY <1>2, <3>1 DEF Conns
  <2>2. client' = [rest EXCEPT ![c] = q]
    BY <1>2, <1>5, <2>1
  <2>3. LET p == rest[c]
        IN  /\ q.conn = "gone" /\ q.todo = p.todo /\ q.player = p.player
            /\ q.accepts = p.accepts /\ q.event = p.event /\ q.seeks = p.seeks
            /\ q.behind = p.behind
    BY <1>2, <2>1, Records
  <2>4. client' \in [Client -> Protocol]
    BY <1>2, <2>2
  <2>5. client'[c] = q /\ \A d \in Client : d # c => client'[d] = rest[d]
    BY <1>2, <2>2
  <2>6. TypeOK'
    BY <1>1, <1>3, <1>5, <2>4 DEF TypeOK
  <2>7. Frees(c)
    BY <1>1, <1>2, <1>4, <1>5, <2>3, <2>5 DEF Frees
  <2> QED BY <2>6, <2>7
<1>6. CASE /\ ~client[c].event
           /\ client' = [rest EXCEPT ![c] = NoProtocol]
           /\ releases' = Dead(c)
  <2>1. client' \in [Client -> Protocol]
    BY <1>2, <1>6, NoProtocolType
  <2>2. client'[c] = NoProtocol /\ \A d \in Client : d # c => client'[d] = rest[d]
    BY <1>2, <1>6
  <2>3. /\ releases' \in [Body -> Nat]
        /\ \A x \in Body : /\ x = client[c].player => releases'[x] = releases[x] + 1
                           /\ x # client[c].player => releases'[x] = releases[x]
    <3>1. client[c].player \in Body \cup {NoBody}
      BY Records DEF TypeOK
    <3> QED BY <1>6, <3>1, LoginAssumption DEF Dead, Released, TypeOK
  <2>4. TypeOK'
    BY <1>1, <1>3, <2>1, <2>3 DEF TypeOK
  <2>5. Frees(c)
    BY <1>1, <1>2, <1>4, <1>6, <2>2, <2>3 DEF Frees
  <2> QED BY <2>4, <2>5
<1> QED BY <1>1, <1>5, <1>6

LEMMA CleanupEffect ==
    ASSUME TypeOK, Cleanup
    PROVE  /\ TypeOK'
           /\ UNCHANGED <<gameState, client, parsing>>
           /\ \A x \in Body :
                 /\ releases'[x] = 0
                 /\ releases[x] > 0 /\ releases[x] >= body[x].refs => body'[x] = NoPlayer
                 /\ ~(releases[x] > 0 /\ releases[x] >= body[x].refs) =>
                       /\ body'[x].at = body[x].at /\ body'[x].name = body[x].name
                       /\ body'[x].client = body[x].client
                       /\ body'[x].connecting = body[x].connecting
                       /\ body'[x].refs = body[x].refs - releases[x]
<1>1. /\ body' = [b \in Body |-> IF releases[b] > 0 /\ releases[b] >= body[b].refs
                               THEN NoPlayer
                               ELSE [body[b] EXCEPT !.refs = body[b].refs - releases[b]]]
      /\ releases' = [b \in Body |-> 0]
      /\ UNCHANGED <<gameState, client, waitList, parsing, cast>>
  BY DEF Cleanup
<1>2. \A x \in Body : releases[x] \in Nat /\ body[x].refs \in Nat /\ body[x] \in PlayerObject
  BY Records DEF TypeOK
<1>3. \A x \in Body : ~(releases[x] > 0 /\ releases[x] >= body[x].refs)
                           => body[x].refs - releases[x] \in Nat
  BY <1>2
<1>4. body' \in [Body -> PlayerObject]
  <2>1. \A q \in PlayerObject, k \in Nat : [q EXCEPT !.refs = k] \in PlayerObject
    BY Records
  <2> QED BY <1>1, <1>2, <1>3, <2>1, NoProtocolType
<1>5. TypeOK'
  BY <1>1, <1>4 DEF TypeOK
<1>6. ASSUME NEW x \in Body, ~(releases[x] > 0 /\ releases[x] >= body[x].refs)
      PROVE  /\ body'[x].at = body[x].at /\ body'[x].name = body[x].name
             /\ body'[x].client = body[x].client
             /\ body'[x].connecting = body[x].connecting
             /\ body'[x].refs = body[x].refs - releases[x]
  <2>1. body'[x] = [body[x] EXCEPT !.refs = body[x].refs - releases[x]]
    BY <1>1, <1>6
  <2> QED BY <1>2, <1>3, <1>6, <2>1, Records
<1> QED BY <1>1, <1>5, <1>6

LEMMA ArriveEffect ==
    ASSUME TypeOK, NEW c \in Client, NEW n \in cast.names, Arrive(c, n)
    PROVE  /\ TypeOK'
           /\ UNCHANGED <<gameState, body, releases, parsing>>
           /\ client[c].conn = "none"
           /\ \A d \in Client : d # c => client'[d] = client[d]
           /\ LET q == client'[c]
              IN  /\ q.conn = "open" /\ q.todo = <<"login">> /\ q.player = NoBody
                  /\ ~q.accepts /\ ~q.event /\ q.behind = {}
<1>1. PICK p \in Protocol : p = NoProtocol
  BY NoProtocolType
<1>2. p.player = NoBody /\ ~p.accepts /\ ~p.event /\ p.behind = {}
  BY <1>1 DEF NoProtocol
<1>3. n \in Name
  BY DEF TypeOK, Name
<1>4. PICK q \in Protocol : q = [p EXCEPT !.conn = "open", !.name = n, !.todo = <<"login">>]
  <2>1. \A k \in Conns, t \in Todo : [p EXCEPT !.conn = k, !.name = n, !.todo = t] \in Protocol
    BY <1>3, Records
  <2> QED BY <2>1, TodoFacts DEF Conns
<1>5. /\ q.conn = "open" /\ q.todo = <<"login">> /\ q.player = NoBody
      /\ ~q.accepts /\ ~q.event /\ q.behind = {}
  BY <1>2, <1>4, Records
<1>6. /\ client[c].conn = "none" /\ client' = [client EXCEPT ![c] = q]
      /\ UNCHANGED <<gameState, body, waitList, releases, parsing, cast>>
  BY <1>1, <1>4 DEF Arrive
<1> QED BY <1>5, <1>6 DEF TypeOK
-----------------------------------------------------------------------------
(* How many hold a player. *)

Held(cl, b) == Cardinality({c \in Client : cl[c].player = b})

LEMMA HeldFacts ==
    ASSUME NEW cl, NEW b
    PROVE  /\ Held(cl, b) \in Nat
           /\ Held(cl, b) = 0 => \A c \in Client : cl[c].player # b
           /\ (\A c \in Client : cl[c].player # b) => Held(cl, b) = 0
<1> DEFINE H == {c \in Client : cl[c].player = b}
<1>1. IsFiniteSet(H)
  BY LoginAssumption, FS_Subset
<1>2. Cardinality(H) \in Nat /\ (Cardinality(H) = 0 <=> H = {})
  BY <1>1, FS_CardinalityType, FS_EmptySet
<1> QED BY <1>2 DEF Held

LEMMA HeldSame ==
    ASSUME NEW cl, NEW cm, NEW b, \A c \in Client : cm[c].player = b <=> cl[c].player = b
    PROVE  Held(cm, b) = Held(cl, b)
<1>1. {c \in Client : cm[c].player = b} = {c \in Client : cl[c].player = b}
  OBVIOUS
<1> QED BY <1>1 DEF Held

LEMMA HeldMore ==
    ASSUME NEW cl, NEW cm, NEW b, NEW c \in Client, cl[c].player # b, cm[c].player = b,
           \A d \in Client : d # c => (cm[d].player = b <=> cl[d].player = b)
    PROVE  Held(cm, b) = Held(cl, b) + 1
<1> DEFINE H == {d \in Client : cl[d].player = b}
           M == {d \in Client : cm[d].player = b}
<1>1. M = H \cup {c} /\ c \notin H
  OBVIOUS
<1>2. IsFiniteSet(H)
  BY LoginAssumption, FS_Subset
<1>3. Cardinality(H \cup {c}) = Cardinality(H) + 1
  BY <1>1, <1>2, FS_AddElement
<1> QED BY <1>1, <1>3 DEF Held

\* PlayersAreHeld, with Held.
Counted(b) == body[b].refs = Held(client, b) + (IF body[b].at = "game" THEN 1 ELSE 0) + releases[b]
Lives(b) == body[b].refs = 0 <=> body[b].at = "none"

LEMMA CountedHeld == PlayersAreHeld => \A b \in Body : Counted(b) /\ Lives(b)
<1>1. \A b \in Body : b \in InGame <=> body[b].at = "game"
  BY DEF InGame
<1> QED BY <1>1 DEF PlayersAreHeld, Counted, Lives, Held

LEMMA HeldCounted ==
    TypeOK /\ StagesAgree /\ (\A b \in Body : Counted(b) /\ Lives(b)) => PlayersAreHeld
<1> SUFFICES ASSUME TypeOK, StagesAgree, \A b \in Body : Counted(b) /\ Lives(b)
             PROVE  PlayersAreHeld
  OBVIOUS
<1>1. \A b \in Body : b \in InGame <=> body[b].at = "game"
  BY DEF InGame
<1>2. parsing # NoClient => body[client[parsing].player].at \in {"game", "removed"}
  BY DEF StagesAgree, TypeOK
<1> QED BY <1>1, <1>2 DEF PlayersAreHeld, Counted, Lives, Held

LEMMA HeldCountedAfter ==
    ASSUME TypeOK', StagesAgree', \A b \in Body : Counted(b)' /\ Lives(b)'
    PROVE  PlayersAreHeld'
<1>1. \A b \in Body : b \in InGame' <=> body'[b].at = "game"
  BY DEF InGame
<1>2. parsing' # NoClient => body'[client'[parsing'].player].at \in {"game", "removed"}
  BY DEF StagesAgree, TypeOK
<1> QED BY <1>1, <1>2 DEF PlayersAreHeld, Counted, Lives, Held

-----------------------------------------------------------------------------
(* Each kind of step keeps the invariant. *)

LEMMA DepartsKeeps ==
    ASSUME IInv, TypeOK', NEW G \in SUBSET InGame, Departs(G), parsing' \in {parsing, NoClient},
           gameState' = "closed" => \A b \in InGame : b \in G \/ body[b].name \in AlwaysLogin
    PROVE  IInv'
<1>1. \A c \in Client : Quieter(client[c], client'[c], G)
  BY DEF Departs
<1>2. \A b \in Body :
          /\ body'[b].client = body[b].client /\ body'[b].connecting = body[b].connecting
          /\ body'[b].refs = body[b].refs
          /\ b \in G => /\ body[b].at = "game" /\ body'[b].at = "removed"
                        /\ releases'[b] = releases[b] + 1
          /\ b \notin G => /\ body'[b].at = body[b].at /\ body'[b].name = body[b].name
                          /\ releases'[b] = releases[b]
  BY DEF Departs, InGame
<1>3. \A b \in Body : /\ b \in InGame <=> body[b].at = "game"
                      /\ b \in InGame' <=> body'[b].at = "game"
  BY DEF InGame
<1>4. StagesAgree'
  <2>1. <<>> # <<"login">> /\ <<"logout">> # <<"login">> /\ <<"logout">> # <<>>
    OBVIOUS
  <2>2. ASSUME NEW c \in Client
        PROVE  /\ client'[c].conn = "none" \/ client'[c].event \/ client'[c].todo = <<"login">>
                      => client'[c].player = NoBody /\ ~client'[c].accepts
               /\ client'[c].conn = "none" => client'[c].todo = <<>> /\ ~client'[c].event
               /\ client'[c].todo = <<"login">> => ~client'[c].event
    BY <1>1, <2>1 DEF StagesAgree, IInv, Quieter, Kept
  <2>3. ASSUME NEW c \in Client, client'[c].accepts
        PROVE  client'[c].player \in Body /\ body'[client'[c].player].at \in {"game", "removed"}
    <3>1. client[c].accepts /\ client'[c].player = client[c].player
      BY <1>1, <2>3 DEF Quieter, Kept
    <3> QED BY <1>2, <3>1 DEF StagesAgree, IInv
  <2>4. parsing' # NoClient => /\ client'[parsing'].accepts
                               /\ client'[parsing'].conn \in {"open", "closing"}
    BY <1>1 DEF StagesAgree, IInv, TypeOK, Quieter, Kept
  <2> QED BY <2>2, <2>3, <2>4 DEF StagesAgree
<1>5. PlayersAreHeld'
  <2>1. ASSUME NEW b \in Body PROVE Counted(b)' /\ Lives(b)'
    <3>1. Held(client', b) = Held(client, b)
      <4>1. \A c \in Client : client'[c].player = b <=> client[c].player = b
        BY <1>1 DEF Quieter, Kept
      <4> QED BY <4>1, HeldSame
    <3>2. Counted(b) /\ Lives(b)
      BY CountedHeld DEF IInv
    <3>3. Held(client, b) \in Nat /\ releases[b] \in Nat
      BY HeldFacts DEF IInv, TypeOK
    <3>4. CASE b \in G
      BY <1>2, <3>1, <3>2, <3>3, <3>4 DEF Counted, Lives
    <3>5. CASE b \notin G
      BY <1>2, <3>1, <3>2, <3>3, <3>5 DEF Counted, Lives
    <3> QED BY <3>4, <3>5
  <2> QED BY <1>4, <2>1, HeldCountedAfter
<1>6. OneClientEach'
  BY <1>1, <1>2, <1>3, Records DEF OneClientEach, IInv, TypeOK, Quieter, Kept
<1>7. ConnectingIsFound'
  <2>1. ASSUME NEW b \in Body, b \in InGame', body'[b].connecting
        PROVE  \E c \in Client : /\ client'[c].event /\ client'[c].seeks = b
                                /\ body'[b].client \in client'[c].behind \cup {NoClient}
    <3>1. b \in InGame /\ b \notin G /\ body[b].connecting
      BY <1>2, <1>3, <2>1
    <3>2. PICK c \in Client : /\ client[c].event /\ client[c].seeks = b
                             /\ body[b].client \in client[c].behind \cup {NoClient}
      BY <3>1 DEF ConnectingIsFound, IInv
    <3> QED BY <1>1, <1>2, <3>1, <3>2 DEF Quieter, Kept
  <2> QED BY <1>3, <2>1 DEF ConnectingIsFound, InGame
<1>8. OncePerAccount'
  <2>1. \A b \in InGame' : b \in InGame /\ b \notin G /\ body'[b].name = body[b].name
    BY <1>2, <1>3 DEF InGame
  <2> QED BY <2>1 DEF OncePerAccount, IInv
<1> QED BY <1>4, <1>5, <1>6, <1>7, <1>8 DEF IInv

LEMMA AdmitsKeeps ==
    ASSUME IInv, TypeOK', NEW c \in Client, NEW b \in Body, NEW at \in {"made", "game", "removed"},
           Admits(c, b, at), UNCHANGED <<gameState, parsing>>,
           at = "game" => LET n == client[c].name IN
                             Named(n) = {} /\ ~Barred(n) /\ ~SharesAccount(n)
    PROVE  IInv'
<1>1. <<>> # <<"login">> /\ b # NoBody /\ c # NoClient
  BY LoginAssumption
<1>2. client[c].player = NoBody /\ ~client[c].accepts /\ ~client[c].event /\ client[c].conn # "none"
  BY <1>1 DEF Admits, StagesAgree, IInv
<1>3. \A d \in Client :
          LET p == client[d]
              q == client'[d]
          IN  /\ q.event = p.event /\ q.behind = p.behind
              /\ q.seeks = p.seeks \/ (p.seeks = b /\ q.seeks = NoBody)
              /\ d # c => /\ q.conn = p.conn /\ q.todo = p.todo
                          /\ q.player = p.player /\ q.accepts = p.accepts
  BY DEF Admits
<1>4. LET q == client'[c]
      IN  /\ q.conn = client[c].conn \/ (client[c].conn = "open" /\ q.conn = "closing")
          /\ q.todo = <<>> /\ q.player = b
          /\ q.accepts => at # "made"
  BY DEF Admits
<1>5. /\ body[b].at = "none" /\ body'[b].at = at
      /\ body'[b].client = c /\ ~body'[b].connecting
      /\ body'[b].refs = (IF at = "made" THEN 1 ELSE 2)
      /\ at = "game" => body'[b].name = client[c].name
      /\ \A x \in Body : /\ x # b => body'[x] = body[x]
                         /\ releases'[x] = releases[x] + IF x = b /\ at = "removed" THEN 1 ELSE 0
  BY DEF Admits
<1>6. \A x \in Body : /\ x \in InGame <=> body[x].at = "game"
                      /\ x \in InGame' <=> body'[x].at = "game"
  BY DEF InGame
<1>7. Held(client, b) = 0 /\ body[b].refs = 0 /\ releases[b] = 0
  <2>1. Held(client, b) \in Nat /\ releases[b] \in Nat
    BY HeldFacts DEF IInv, TypeOK
  <2>2. Counted(b) /\ Lives(b)
    BY CountedHeld DEF IInv
  <2> QED BY <1>5, <2>1, <2>2 DEF Counted, Lives
<1>8. \A d \in Client : client[d].player # b
  BY <1>7, HeldFacts
<1>9. StagesAgree'
  <2>1. ASSUME NEW d \in Client
        PROVE  /\ client'[d].conn = "none" \/ client'[d].event \/ client'[d].todo = <<"login">>
                      => client'[d].player = NoBody /\ ~client'[d].accepts
               /\ client'[d].conn = "none" => client'[d].todo = <<>> /\ ~client'[d].event
               /\ client'[d].todo = <<"login">> => ~client'[d].event
    <3>1. CASE d = c
      BY <1>1, <1>2, <1>3, <1>4, <3>1
    <3>2. CASE d # c
      BY <1>3, <3>2 DEF StagesAgree, IInv
    <3> QED BY <3>1, <3>2
  <2>2. ASSUME NEW d \in Client, client'[d].accepts
        PROVE  client'[d].player \in Body /\ body'[client'[d].player].at \in {"game", "removed"}
    <3>1. CASE d = c
      BY <1>4, <1>5, <2>2, <3>1
    <3>2. CASE d # c
      <4>1. client[d].accepts /\ client'[d].player = client[d].player /\ client[d].player # b
        BY <1>3, <1>8, <2>2, <3>2
      <4> QED BY <1>5, <4>1 DEF StagesAgree, IInv
    <3> QED BY <3>1, <3>2
  <2>3. parsing' # NoClient => /\ client'[parsing'].accepts
                               /\ client'[parsing'].conn \in {"open", "closing"}
    BY <1>2, <1>3 DEF StagesAgree, IInv, TypeOK
  <2> QED BY <2>1, <2>2, <2>3 DEF StagesAgree
<1>10. PlayersAreHeld'
  <2>1. ASSUME NEW x \in Body PROVE Counted(x)' /\ Lives(x)'
    <3>1. Counted(x) /\ Lives(x) /\ Held(client, x) \in Nat /\ releases[x] \in Nat
      BY CountedHeld, HeldFacts DEF IInv, TypeOK
    <3>2. CASE x = b
      <4>1. Held(client', b) = 1
        <5>1. \A d \in Client : d # c => (client'[d].player = b <=> client[d].player = b)
          BY <1>3
        <5>2. Held(client', b) = Held(client, b) + 1
          BY <1>4, <1>8, <5>1, HeldMore
        <5> QED BY <1>7, <5>2
      <4>2. /\ releases'[b] = (IF at = "removed" THEN 1 ELSE 0)
            /\ body'[b].refs = (IF at = "made" THEN 1 ELSE 2)
            /\ body'[b].at = at /\ at \in {"made", "game", "removed"}
        BY <1>5, <1>7
      <4> QED BY <3>2, <4>1, <4>2 DEF Counted, Lives
    <3>3. CASE x # b
      <4>1. \A d \in Client : client'[d].player = x <=> client[d].player = x
        BY <1>2, <1>3, <1>4, <3>3, LoginAssumption
      <4>2. Held(client', x) = Held(client, x)
        BY <4>1, HeldSame
      <4>3. body'[x] = body[x] /\ releases'[x] = releases[x]
        BY <1>5, <3>1, <3>3
      <4> QED BY <3>1, <4>2, <4>3 DEF Counted, Lives
    <3> QED BY <3>2, <3>3
  <2> QED BY <1>9, <2>1, HeldCountedAfter
<1>11. OneClientEach'
  <2>1. ASSUME NEW x \in Body, body'[x].client # NoClient
        PROVE  client'[body'[x].client].player = x
    <3>1. CASE x = b
      BY <1>4, <1>5, <3>1
    <3>2. CASE x # b
      <4>1. body'[x].client = body[x].client /\ body[x].client \in Client
        BY <1>5, <2>1, <3>2, Records DEF IInv, TypeOK
      <4>2. client[body[x].client].player = x
        BY <2>1, <4>1 DEF OneClientEach, IInv
      <4> QED BY <1>2, <1>3, <4>1, <4>2, LoginAssumption
    <3> QED BY <3>1, <3>2
  <2>2. ASSUME NEW x \in Body, x \in InGame', NEW d \in Client, client'[d].player = x,
               client'[d].conn = "open"
        PROVE  body'[x].client = d
    <3>1. CASE x = b
      BY <1>3, <1>5, <1>8, <2>2, <3>1
    <3>2. CASE x # b
      BY <1>3, <1>4, <1>5, <1>6, <2>2, <3>2 DEF OneClientEach, IInv
    <3> QED BY <3>1, <3>2
  <2> QED BY <2>1, <2>2 DEF OneClientEach
<1>12. ConnectingIsFound'
  <2>1. ASSUME NEW x \in Body, x \in InGame', body'[x].connecting
        PROVE  \E d \in Client : /\ client'[d].event /\ client'[d].seeks = x
                                /\ body'[x].client \in client'[d].behind \cup {NoClient}
    <3>1. x # b /\ x \in InGame /\ body'[x] = body[x]
      BY <1>5, <1>6, <2>1
    <3>2. PICK d \in Client : /\ client[d].event /\ client[d].seeks = x
                             /\ body[x].client \in client[d].behind \cup {NoClient}
      BY <2>1, <3>1 DEF ConnectingIsFound, IInv
    <3> QED BY <1>3, <3>1, <3>2
  <2> QED BY <1>6, <2>1 DEF ConnectingIsFound, InGame
<1>13. OncePerAccount'
  <2>1. \A x \in Body : x \in InGame' => x = b \/ (x \in InGame /\ body'[x] = body[x])
    BY <1>5, <1>6
  <2>2. CASE b \in InGame'
    <3>1. at = "game" /\ body'[b].name = client[c].name
      BY <1>5, <1>6, <2>2
    <3>2. \A x \in InGame : /\ body[x].name # client[c].name
                            /\ OneOnAccount => AccountOf[body[x].name] # AccountOf[client[c].name]
      BY <3>1 DEF Named, SharesAccount
    <3>3. gameState = "closed" => client[c].name \in AlwaysLogin
      BY <3>1 DEF Barred
    <3> QED BY <2>1, <3>1, <3>2, <3>3 DEF OncePerAccount, IInv, InGame
  <2>3. CASE b \notin InGame'
    BY <2>1, <2>3 DEF OncePerAccount, IInv, InGame
  <2> QED BY <2>2, <2>3
<1> QED BY <1>9, <1>10, <1>11, <1>12, <1>13 DEF IInv

LEMMA AttachesKeeps ==
    ASSUME IInv, TypeOK', NEW c \in Client, NEW b \in Body, Attaches(c, b),
           UNCHANGED <<gameState, parsing>>
    PROVE  IInv'
<1>1. b # NoBody /\ c # NoClient
  BY LoginAssumption
<1>2. client[c].player = NoBody /\ ~client[c].accepts
  BY DEF Attaches, StagesAgree, IInv
<1>3. \A d \in Client :
          LET p == client[d]
              q == client'[d]
          IN  /\ q.conn = p.conn /\ q.behind = p.behind
              /\ d # c => /\ q.todo = p.todo /\ q.event = p.event /\ q.seeks = p.seeks
                          /\ q.player = p.player /\ q.accepts = p.accepts
  BY DEF Attaches
<1>4. /\ client'[c].player = b /\ client'[c].accepts
      /\ ~client'[c].event /\ client'[c].todo # <<"login">>
      /\ client[c].conn = "none" => client'[c].todo = client[c].todo
      /\ (client[c].event /\ client[c].seeks = b) \/ client[c].todo = <<"login">>
      /\ body[b].at = "game" /\ body[b].client = NoClient
      /\ UNCHANGED releases
  BY DEF Attaches, Finds, InGame
<1>5. \A x \in Body :
          /\ body'[x].at = body[x].at /\ body'[x].name = body[x].name
          /\ x = b => /\ body'[x].client = c /\ ~body'[x].connecting
                      /\ body'[x].refs = body[x].refs + 1
          /\ x # b => /\ body'[x].client = body[x].client
                      /\ body'[x].connecting <=> body[x].connecting
                      /\ body'[x].refs = body[x].refs
  <2>1. \A x \in Body : body[x].refs + 0 = body[x].refs
    BY Records DEF IInv, TypeOK
  <2> QED BY <2>1 DEF Attaches
<1>6. \A x \in Body : /\ x \in InGame <=> body[x].at = "game"
                      /\ x \in InGame' <=> body'[x].at = "game"
  BY DEF InGame
<1>7. client[c].conn # "none"
  <2>1. <<>> # <<"login">>
    OBVIOUS
  <2> QED BY <1>4, <2>1 DEF StagesAgree, IInv
<1>8. StagesAgree'
  <2>1. ASSUME NEW d \in Client
        PROVE  /\ client'[d].conn = "none" \/ client'[d].event \/ client'[d].todo = <<"login">>
                      => client'[d].player = NoBody /\ ~client'[d].accepts
               /\ client'[d].conn = "none" => client'[d].todo = <<>> /\ ~client'[d].event
               /\ client'[d].todo = <<"login">> => ~client'[d].event
    <3>1. CASE d = c
      BY <1>3, <1>4, <1>7, <3>1
    <3>2. CASE d # c
      BY <1>3, <3>2 DEF StagesAgree, IInv
    <3> QED BY <3>1, <3>2
  <2>2. ASSUME NEW d \in Client, client'[d].accepts
        PROVE  client'[d].player \in Body /\ body'[client'[d].player].at \in {"game", "removed"}
    <3>1. CASE d = c
      BY <1>4, <1>5, <3>1
    <3>2. CASE d # c
      BY <1>3, <1>5, <2>2, <3>2 DEF StagesAgree, IInv
    <3> QED BY <3>1, <3>2
  <2>3. parsing' # NoClient => /\ client'[parsing'].accepts
                               /\ client'[parsing'].conn \in {"open", "closing"}
    BY <1>3, <1>4 DEF StagesAgree, IInv, TypeOK
  <2> QED BY <2>1, <2>2, <2>3 DEF StagesAgree
<1>9. PlayersAreHeld'
  <2>1. ASSUME NEW x \in Body PROVE Counted(x)' /\ Lives(x)'
    <3>1. Counted(x) /\ Lives(x) /\ Held(client, x) \in Nat /\ releases[x] \in Nat
      BY CountedHeld, HeldFacts DEF IInv, TypeOK
    <3>2. CASE x = b
      <4>1. \A d \in Client : d # c => (client'[d].player = b <=> client[d].player = b)
        BY <1>3
      <4>2. Held(client', b) = Held(client, b) + 1
        <5>1. client[c].player # b
          BY <1>1, <1>2
        <5>2. client'[c].player = b
          BY <1>4
        <5> QED BY <4>1, <5>1, <5>2, HeldMore
      <4> QED BY <1>4, <1>5, <3>1, <3>2, <4>2 DEF Counted, Lives
    <3>3. CASE x # b
      <4>1. \A d \in Client : client'[d].player = x <=> client[d].player = x
        BY <1>2, <1>3, <1>4, <3>3, LoginAssumption
      <4>2. Held(client', x) = Held(client, x)
        BY <4>1, HeldSame
      <4> QED BY <1>4, <1>5, <3>1, <3>3, <4>2 DEF Counted, Lives
    <3> QED BY <3>2, <3>3
  <2> QED BY <1>8, <2>1, HeldCountedAfter
<1>10. OneClientEach'
  <2>1. ASSUME NEW x \in Body, body'[x].client # NoClient
        PROVE  client'[body'[x].client].player = x
    <3>1. CASE x = b
      BY <1>4, <1>5, <3>1
    <3>2. CASE x # b
      <4>1. body'[x].client = body[x].client /\ body[x].client \in Client
        BY <1>5, <2>1, <3>2, Records DEF IInv, TypeOK
      <4>2. client[body[x].client].player = x
        BY <2>1, <4>1 DEF OneClientEach, IInv
      <4> QED BY <1>2, <1>3, <4>1, <4>2, LoginAssumption
    <3> QED BY <3>1, <3>2
  <2>2. ASSUME NEW x \in Body, x \in InGame', NEW d \in Client, client'[d].player = x,
               client'[d].conn = "open"
        PROVE  body'[x].client = d
    <3>1. CASE d = c
      BY <1>4, <1>5, <2>2, <3>1
    <3>2. CASE d # c
      <4>1. body[x].client = d /\ d # NoClient
        BY <1>3, <1>5, <1>6, <2>2, <3>2, LoginAssumption DEF OneClientEach, IInv
      <4> QED BY <1>4, <1>5, <4>1
    <3> QED BY <3>1, <3>2
  <2> QED BY <2>1, <2>2 DEF OneClientEach
<1>11. ConnectingIsFound'
  <2>1. ASSUME NEW x \in Body, x \in InGame', body'[x].connecting
        PROVE  \E d \in Client : /\ client'[d].event /\ client'[d].seeks = x
                                /\ body'[x].client \in client'[d].behind \cup {NoClient}
    <3>1. x # b /\ x \in InGame /\ body[x].connecting /\ body'[x].client = body[x].client
      BY <1>5, <1>6, <2>1
    <3>2. PICK d \in Client : /\ client[d].event /\ client[d].seeks = x
                             /\ body[x].client \in client[d].behind \cup {NoClient}
      BY <3>1 DEF ConnectingIsFound, IInv
    <3>3. d # c
      BY <1>4, <3>1, <3>2 DEF IInv, StagesAgree
    <3> QED BY <1>3, <3>1, <3>2, <3>3
  <2> QED BY <1>6, <2>1 DEF ConnectingIsFound, InGame
<1>12. OncePerAccount'
  BY <1>5, <1>6 DEF OncePerAccount, IInv, InGame
<1> QED BY <1>8, <1>9, <1>10, <1>11, <1>12 DEF IInv

LEMMA AwaitsKeeps ==
    ASSUME IInv, TypeOK', NEW c \in Client, NEW b \in Body, Awaits(c, b),
           UNCHANGED <<gameState, parsing>>
    PROVE  IInv'
<1>1. <<>> # <<"login">>
  OBVIOUS
<1>2. client[c].player = NoBody /\ ~client[c].accepts /\ ~client[c].event /\ client[c].conn # "none"
  BY <1>1 DEF Awaits, StagesAgree, IInv
<1>3. \A d \in Client :
          LET p == client[d]
              q == client'[d]
          IN  /\ q.player = p.player /\ q.accepts = p.accepts
              /\ q.conn = p.conn \/ (p.conn = "open" /\ q.conn = "closing")
              /\ d = body[b].client => q.conn # "open"
              /\ d # c => /\ q.todo = p.todo /\ q.event = p.event
                          /\ q.seeks = p.seeks /\ q.behind = p.behind
  BY DEF Awaits
<1>4. /\ client'[c].todo = <<>> /\ client'[c].event /\ client'[c].seeks = b
      /\ client'[c].behind = {d \in Client : client'[d].conn \in {"closing", "gone"}}
      /\ UNCHANGED releases
  BY DEF Awaits
<1>5. \A x \in Body :
          /\ body'[x].at = body[x].at /\ body'[x].name = body[x].name
          /\ body'[x].client = body[x].client /\ body'[x].refs = body[x].refs
          /\ x # b => body'[x].connecting = body[x].connecting
  BY DEF Awaits
<1>6. \A x \in Body : /\ x \in InGame <=> body[x].at = "game"
                      /\ x \in InGame' <=> body'[x].at = "game"
  BY DEF InGame
<1>7. StagesAgree'
  <2>1. ASSUME NEW d \in Client
        PROVE  /\ client'[d].conn = "none" \/ client'[d].event \/ client'[d].todo = <<"login">>
                      => client'[d].player = NoBody /\ ~client'[d].accepts
               /\ client'[d].conn = "none" => client'[d].todo = <<>> /\ ~client'[d].event
               /\ client'[d].todo = <<"login">> => ~client'[d].event
    <3>1. CASE d = c
      BY <1>1, <1>2, <1>3, <1>4, <3>1
    <3>2. CASE d # c
      BY <1>3, <3>2 DEF StagesAgree, IInv
    <3> QED BY <3>1, <3>2
  <2>2. ASSUME NEW d \in Client, client'[d].accepts
        PROVE  client'[d].player \in Body /\ body'[client'[d].player].at \in {"game", "removed"}
    BY <1>3, <1>5, <2>2 DEF StagesAgree, IInv
  <2>3. parsing' # NoClient => /\ client'[parsing'].accepts
                               /\ client'[parsing'].conn \in {"open", "closing"}
    BY <1>3 DEF StagesAgree, IInv, TypeOK
  <2> QED BY <2>1, <2>2, <2>3 DEF StagesAgree
<1>8. PlayersAreHeld'
  <2>1. ASSUME NEW x \in Body PROVE Counted(x)' /\ Lives(x)'
    <3>1. Counted(x) /\ Lives(x)
      BY CountedHeld DEF IInv
    <3>2. Held(client', x) = Held(client, x)
      BY <1>3, HeldSame
    <3> QED BY <1>4, <1>5, <3>1, <3>2 DEF Counted, Lives
  <2> QED BY <1>7, <2>1, HeldCountedAfter
<1>9. OneClientEach'
  BY <1>3, <1>5, <1>6, Records DEF OneClientEach, IInv, TypeOK
<1>10. ConnectingIsFound'
  <2>1. ASSUME NEW x \in Body, x \in InGame', body'[x].connecting
        PROVE  \E d \in Client : /\ client'[d].event /\ client'[d].seeks = x
                                /\ body'[x].client \in client'[d].behind \cup {NoClient}
    <3>1. CASE x = b
      <4>1. PICK k \in Client : k = body[b].client
        BY Records DEF Awaits, IInv, TypeOK
      <4>2. client[k].player = b /\ b # NoBody
        BY <4>1, LoginAssumption DEF Awaits, OneClientEach, IInv
      <4>3. client'[k].conn \in Conns /\ client'[k].conn # "none" /\ client'[k].conn # "open"
        <5>1. client'[k].conn \in Conns
          BY Records DEF TypeOK
        <5>2. client[k].conn # "none"
          BY <4>2 DEF StagesAgree, IInv
        <5> QED BY <1>3, <4>1, <5>1, <5>2
      <4>4. k \in client'[c].behind
        BY <1>4, <4>3 DEF Conns
      <4> QED BY <1>4, <1>5, <3>1, <4>1, <4>4
    <3>2. CASE x # b
      <4>1. x \in InGame /\ body[x].connecting
        BY <1>5, <1>6, <2>1, <3>2
      <4>2. PICK d \in Client : /\ client[d].event /\ client[d].seeks = x
                               /\ body[x].client \in client[d].behind \cup {NoClient}
        BY <4>1 DEF ConnectingIsFound, IInv
      <4> QED BY <1>2, <1>3, <1>5, <4>2
    <3> QED BY <3>1, <3>2
  <2> QED BY <1>6, <2>1 DEF ConnectingIsFound, InGame
<1>11. OncePerAccount'
  BY <1>5, <1>6 DEF OncePerAccount, IInv, InGame
<1> QED BY <1>7, <1>8, <1>9, <1>10, <1>11 DEF IInv

LEMMA FreesKeeps ==
    ASSUME IInv, TypeOK', NEW c \in Client, Frees(c), UNCHANGED <<gameState, parsing>>
    PROVE  IInv'
<1>1. <<>> # <<"login">> /\ c # NoClient
  BY LoginAssumption
<1>2. \A d \in Client :
          LET p == client[d]
              q == client'[d]
          IN  d # c => /\ q.conn = p.conn /\ q.todo = p.todo /\ q.player = p.player
                       /\ q.accepts = p.accepts /\ q.event = p.event /\ q.seeks = p.seeks
                       /\ q.behind = p.behind \ {c}
  BY DEF Frees
<1>3. client[c].conn \in {"closing", "gone"} /\ parsing # c
  BY <1>1 DEF Frees, IInv, StagesAgree
<1>4. \A x \in Body :
          /\ body'[x].at = body[x].at /\ body'[x].name = body[x].name
          /\ body'[x].refs = body[x].refs /\ body'[x].connecting = body[x].connecting
          /\ body[x].client # c => body'[x].client = body[x].client
          /\ body[x].client = c => body'[x].client = NoClient
  BY <1>1 DEF Frees, IInv, OneClientEach
<1>5. \/ /\ client'[c].conn = "gone" /\ client'[c].todo = client[c].todo
         /\ client'[c].player = client[c].player /\ client'[c].accepts = client[c].accepts
         /\ client'[c].event = client[c].event /\ client'[c].seeks = client[c].seeks
         /\ client'[c].behind = client[c].behind \ {c}
         /\ UNCHANGED releases
      \/ /\ ~client[c].event /\ client'[c].conn = "none" /\ client'[c].todo = <<>>
         /\ client'[c].player = NoBody /\ ~client'[c].accepts /\ ~client'[c].event
         /\ \A x \in Body : /\ x = client[c].player => releases'[x] = releases[x] + 1
                            /\ x # client[c].player => releases'[x] = releases[x]
  <2>1. /\ NoProtocol.conn = "none" /\ NoProtocol.todo = <<>> /\ NoProtocol.player = NoBody
        /\ ~NoProtocol.accepts /\ ~NoProtocol.event
    BY DEF NoProtocol
  <2> QED BY <2>1 DEF Frees
<1>6. \A x \in Body : /\ x \in InGame <=> body[x].at = "game"
                      /\ x \in InGame' <=> body'[x].at = "game"
  BY DEF InGame
<1>7. StagesAgree'
  <2>1. ASSUME NEW d \in Client
        PROVE  /\ client'[d].conn = "none" \/ client'[d].event \/ client'[d].todo = <<"login">>
                      => client'[d].player = NoBody /\ ~client'[d].accepts
               /\ client'[d].conn = "none" => client'[d].todo = <<>> /\ ~client'[d].event
               /\ client'[d].todo = <<"login">> => ~client'[d].event
    <3>1. CASE d = c
      BY <1>1, <1>5, <3>1 DEF StagesAgree, IInv
    <3>2. CASE d # c
      BY <1>2, <3>2 DEF StagesAgree, IInv
    <3> QED BY <3>1, <3>2
  <2>2. ASSUME NEW d \in Client, client'[d].accepts
        PROVE  client'[d].player \in Body /\ body'[client'[d].player].at \in {"game", "removed"}
    <3>1. client[d].accepts /\ client'[d].player = client[d].player
      BY <1>2, <1>5, <2>2
    <3> QED BY <1>4, <3>1 DEF StagesAgree, IInv
  <2>3. parsing' # NoClient => /\ client'[parsing'].accepts
                               /\ client'[parsing'].conn \in {"open", "closing"}
    BY <1>2, <1>3 DEF StagesAgree, IInv, TypeOK
  <2> QED BY <2>1, <2>2, <2>3 DEF StagesAgree
<1>8. PlayersAreHeld'
  <2>1. ASSUME NEW x \in Body PROVE Counted(x)' /\ Lives(x)'
    <3>1. Counted(x) /\ Lives(x)
      BY CountedHeld DEF IInv
    <3>2. Held(client, x) \in Nat /\ Held(client', x) \in Nat /\ releases[x] \in Nat /\ x # NoBody
      BY HeldFacts, LoginAssumption DEF IInv, TypeOK
    <3>3. CASE client'[c].player = client[c].player /\ UNCHANGED releases
      <4>1. \A d \in Client : client'[d].player = x <=> client[d].player = x
        BY <1>2, <3>3
      <4>2. Held(client', x) = Held(client, x)
        BY <4>1, HeldSame
      <4> QED BY <1>4, <3>1, <3>3, <4>2 DEF Counted, Lives
    <3>4. CASE /\ client'[c].player = NoBody
               /\ x = client[c].player => releases'[x] = releases[x] + 1
               /\ x # client[c].player => releases'[x] = releases[x]
      <4>1. CASE x = client[c].player
        <5>1. /\ client[c].player = x /\ client'[c].player # x
              /\ \A d \in Client : d # c => (client[d].player = x <=> client'[d].player = x)
          BY <1>2, <3>2, <3>4, <4>1
        <5>2. Held(client, x) = Held(client', x) + 1
          BY <5>1, HeldMore
        <5>3. releases'[x] = releases[x] + 1
          BY <3>4, <4>1
        <5>4. body'[x].at = body[x].at /\ body'[x].refs = body[x].refs
          BY <1>4
        <5> QED BY <3>1, <3>2, <5>2, <5>3, <5>4 DEF Counted, Lives
      <4>2. CASE x # client[c].player
        <5>1. \A d \in Client : client'[d].player = x <=> client[d].player = x
          BY <1>2, <3>2, <3>4, <4>2
        <5>2. Held(client', x) = Held(client, x)
          BY <5>1, HeldSame
        <5> QED BY <1>4, <3>1, <3>4, <4>2, <5>2 DEF Counted, Lives
      <4> QED BY <4>1, <4>2
    <3> QED BY <1>5, <3>3, <3>4
  <2> QED BY <1>7, <2>1, HeldCountedAfter
<1>9. OneClientEach'
  <2>1. ASSUME NEW x \in Body, body'[x].client # NoClient
        PROVE  client'[body'[x].client].player = x
    <3>1. /\ body'[x].client = body[x].client /\ body[x].client \in Client
          /\ body[x].client # c
      BY <1>4, <2>1, Records DEF IInv, TypeOK
    <3> QED BY <1>2, <2>1, <3>1 DEF OneClientEach, IInv
  <2>2. ASSUME NEW x \in Body, x \in InGame', NEW d \in Client, client'[d].player = x,
               client'[d].conn = "open"
        PROVE  body'[x].client = d
    <3>1. d # c
      BY <1>5, <2>2
    <3> QED BY <1>2, <1>4, <1>6, <2>2, <3>1 DEF OneClientEach, IInv
  <2> QED BY <2>1, <2>2 DEF OneClientEach
<1>10. ConnectingIsFound'
  <2>1. ASSUME NEW x \in Body, x \in InGame', body'[x].connecting
        PROVE  \E d \in Client : /\ client'[d].event /\ client'[d].seeks = x
                                /\ body'[x].client \in client'[d].behind \cup {NoClient}
    <3>1. x \in InGame /\ body[x].connecting
      BY <1>4, <1>6, <2>1
    <3>2. PICK d \in Client : /\ client[d].event /\ client[d].seeks = x
                             /\ body[x].client \in client[d].behind \cup {NoClient}
      BY <3>1 DEF ConnectingIsFound, IInv
    <3>3. /\ client'[d].event /\ client'[d].seeks = x
          /\ client'[d].behind = client[d].behind \ {c}
      BY <1>2, <1>5, <3>2
    <3> QED BY <1>4, <3>2, <3>3
  <2> QED BY <1>6, <2>1 DEF ConnectingIsFound, InGame
<1>11. OncePerAccount'
  BY <1>4, <1>6 DEF OncePerAccount, IInv, InGame
<1> QED BY <1>7, <1>8, <1>9, <1>10, <1>11 DEF IInv

LEMMA CleanupKeeps ==
    ASSUME IInv, Cleanup
    PROVE  IInv'
<1> DEFINE Dies(x) == releases[x] > 0 /\ releases[x] >= body[x].refs
<1>1. /\ TypeOK' /\ UNCHANGED <<gameState, client, parsing>>
      /\ \A x \in Body : releases'[x] = 0
  BY CleanupEffect DEF IInv
<1>2. \A x \in Body :
                 /\ Dies(x) => /\ body'[x].at = "none" /\ body'[x].client = NoClient
                               /\ body'[x].refs = 0
                 /\ ~Dies(x) =>
                       /\ body'[x].at = body[x].at /\ body'[x].name = body[x].name
                       /\ body'[x].client = body[x].client
                       /\ body'[x].connecting = body[x].connecting
                       /\ body'[x].refs = body[x].refs - releases[x]
  <2>1. NoPlayer.at = "none" /\ NoPlayer.client = NoClient /\ NoPlayer.refs = 0
    BY DEF NoPlayer
  <2> QED BY <2>1, CleanupEffect DEF IInv
<1>3. \A x \in Body : /\ Counted(x) /\ Lives(x) /\ Held(client, x) \in Nat /\ releases[x] \in Nat
                      /\ body[x].refs \in Nat
  BY CountedHeld, HeldFacts, Records DEF IInv, TypeOK
<1>4. \A x \in Body : /\ Dies(x) => Held(client, x) = 0 /\ body[x].at # "game"
                      /\ ~Dies(x) => releases[x] < body[x].refs \/ releases[x] = 0
  BY <1>3 DEF Counted
<1> HIDE DEF Dies
<1>5. \A x \in Body : Dies(x) => \A c \in Client : client[c].player # x
  BY <1>4, HeldFacts
<1>6. \A x \in Body : /\ x \in InGame <=> body[x].at = "game"
                      /\ x \in InGame' <=> body'[x].at = "game"
  BY DEF InGame
<1>7. \A x \in Body : x \in InGame' <=> x \in InGame
  BY <1>2, <1>4, <1>6
<1>8. \A x \in Body : x \in InGame' => ~Dies(x)
  BY <1>2, <1>6
<1>9. StagesAgree'
  <2>1. ASSUME NEW d \in Client, client'[d].accepts
        PROVE  client'[d].player \in Body /\ body'[client'[d].player].at \in {"game", "removed"}
    <3>1. client[d].player \in Body /\ body[client[d].player].at \in {"game", "removed"}
      BY <1>1, <2>1 DEF StagesAgree, IInv
    <3>2. ~Dies(client[d].player)
      BY <1>5, <3>1
    <3> QED BY <1>1, <1>2, <3>1, <3>2
  <2> QED BY <1>1, <2>1 DEF StagesAgree, IInv
<1>10. PlayersAreHeld'
  <2>1. ASSUME NEW x \in Body PROVE Counted(x)' /\ Lives(x)'
    <3>1. Held(client', x) = Held(client, x) /\ releases'[x] = 0
      BY <1>1
    <3>2. CASE Dies(x)
      <4>1. body'[x].at = "none" /\ body'[x].refs = 0 /\ Held(client, x) = 0
        BY <1>2, <1>4, <3>2
      <4> QED BY <3>1, <4>1 DEF Counted, Lives
    <3>3. CASE ~Dies(x)
      <4>1. body'[x].at = body[x].at /\ body'[x].refs = body[x].refs - releases[x]
        BY <1>2, <3>3
      <4>2. releases[x] < body[x].refs \/ releases[x] = 0
        BY <1>4, <3>3
      <4> QED BY <1>3, <3>1, <4>1, <4>2 DEF Counted, Lives
    <3> QED BY <3>2, <3>3
  <2> QED BY <1>1, <1>9, <2>1, HeldCountedAfter
<1>11. OneClientEach'
  <2>1. \A x \in Body : body'[x].client # NoClient => body'[x].client = body[x].client
    BY <1>2
  <2>2. \A x \in Body : x \in InGame' => x \in InGame /\ body'[x].client = body[x].client
    BY <1>2, <1>7, <1>8
  <2> QED BY <1>1, <2>1, <2>2 DEF OneClientEach, IInv, InGame
<1>12. ConnectingIsFound'
  <2>1. \A x \in Body : x \in InGame' => /\ x \in InGame /\ body'[x].client = body[x].client
                                        /\ body'[x].connecting = body[x].connecting
    BY <1>2, <1>7, <1>8
  <2> QED BY <1>1, <2>1 DEF ConnectingIsFound, IInv, InGame
<1>13. OncePerAccount'
  <2>1. \A x \in Body : x \in InGame' => x \in InGame /\ body'[x].name = body[x].name
    BY <1>2, <1>7, <1>8
  <2> QED BY <1>1, <2>1 DEF OncePerAccount, IInv, InGame
<1> QED BY <1>1, <1>9, <1>10, <1>11, <1>12, <1>13 DEF IInv

\* A client that has no player may change, if nobody depends on its event.
LEMMA StrangerKeeps ==
    ASSUME IInv, TypeOK', NEW c \in Client, UNCHANGED <<gameState, body, releases, parsing>>,
           client[c].player = NoBody, client'[c].player = NoBody,
           ~client[c].accepts, ~client'[c].accepts, ~client'[c].event, client'[c].conn # "none",
           \A b \in InGame : body[b].connecting =>
               \E d \in Client \ {c} : /\ client[d].event /\ client[d].seeks = b
                                      /\ body[b].client \in client[d].behind \cup {NoClient},
           \A d \in Client : d # c => client'[d] = client[d]
    PROVE  IInv'
<1>1. \A x \in Body : x \in InGame' <=> x \in InGame
  BY DEF InGame
<1>2. \A d \in Client : client'[d].player = client[d].player /\ (client'[d].accepts <=> client[d].accepts)
  OBVIOUS
<1>3. StagesAgree'
  BY DEF StagesAgree, IInv, TypeOK
<1>4. PlayersAreHeld'
  <2>1. ASSUME NEW x \in Body PROVE Counted(x)' /\ Lives(x)'
    <3>1. Counted(x) /\ Lives(x)
      BY CountedHeld DEF IInv
    <3>2. Held(client', x) = Held(client, x)
      BY <1>2, HeldSame
    <3> QED BY <3>1, <3>2 DEF Counted, Lives
  <2> QED BY <1>3, <2>1, HeldCountedAfter
<1>5. OneClientEach'
  <2>1. ASSUME NEW x \in Body, body'[x].client # NoClient
        PROVE  client'[body'[x].client].player = x
    <3>1. body[x].client \in Client /\ client[body[x].client].player = x
      BY <2>1, Records DEF IInv, TypeOK, OneClientEach
    <3> QED BY <1>2, <3>1
  <2>2. ASSUME NEW x \in Body, x \in InGame', NEW d \in Client, client'[d].player = x,
               client'[d].conn = "open"
        PROVE  body'[x].client = d
    <3>1. d # c
      BY <2>2, LoginAssumption
    <3> QED BY <1>1, <2>2, <3>1 DEF OneClientEach, IInv
  <2> QED BY <2>1, <2>2 DEF OneClientEach
<1>6. ConnectingIsFound'
  <2>1. ASSUME NEW b \in Body, b \in InGame', body'[b].connecting
        PROVE  \E d \in Client : /\ client'[d].event /\ client'[d].seeks = b
                                /\ body'[b].client \in client'[d].behind \cup {NoClient}
    <3>1. PICK d \in Client \ {c} : /\ client[d].event /\ client[d].seeks = b
                                   /\ body[b].client \in client[d].behind \cup {NoClient}
      BY <1>1, <2>1
    <3> QED BY <3>1
  <2> QED BY <1>1, <2>1 DEF ConnectingIsFound, InGame
<1>7. OncePerAccount'
  BY <1>1 DEF OncePerAccount, IInv, InGame
<1> QED BY <1>3, <1>4, <1>5, <1>6, <1>7 DEF IInv

LEMMA ArriveKeeps ==
    ASSUME IInv, NEW c \in Client, NEW n \in cast.names, Arrive(c, n)
    PROVE  IInv'
<1>1. /\ TypeOK' /\ UNCHANGED <<gameState, body, releases, parsing>>
      /\ client[c].conn = "none"
      /\ \A d \in Client : d # c => client'[d] = client[d]
      /\ client'[c].conn = "open" /\ client'[c].player = NoBody
      /\ ~client'[c].accepts /\ ~client'[c].event
  BY ArriveEffect DEF IInv
<1>2. client[c].player = NoBody /\ ~client[c].accepts /\ ~client[c].event
  BY <1>1 DEF IInv, StagesAgree
<1>3. \A b \in InGame : body[b].connecting =>
               \E d \in Client \ {c} : /\ client[d].event /\ client[d].seeks = b
                                      /\ body[b].client \in client[d].behind \cup {NoClient}
  BY <1>2 DEF IInv, ConnectingIsFound
<1> QED BY <1>1, <1>2, <1>3, StrangerKeeps

\* An event that does not find its player: he is gone, or has a client.
LEMMA MissKeeps ==
    ASSUME IInv, NEW c \in Client, ConnectEvent(c), ~Finds(client[c].seeks)
    PROVE  IInv'
<1> DEFINE cl == [client EXCEPT ![c].event = FALSE, ![c].seeks = NoBody]
<1>1. /\ client[c].event /\ client[c].behind = {} /\ client' = Closed(cl, c) /\ UNCHANGED body
      /\ UNCHANGED <<gameState, waitList, releases, parsing, cast>>
  BY DEF ConnectEvent, Connect
<1>2. client[c].player = NoBody /\ ~client[c].accepts /\ client[c].conn # "none"
  BY <1>1 DEF IInv, StagesAgree
<1>3. PICK no \in Flag : no = FALSE
  BY DEF Flag
<1>4. PICK p \in Protocol : p = client[c]
  BY DEF IInv, TypeOK
<1>5. PICK q \in Protocol : q = [p EXCEPT !.event = no, !.seeks = NoBody]
  <2>1. [p EXCEPT !.event = no, !.seeks = NoBody] \in Protocol
    BY Records
  <2> QED BY <2>1
<1>6. q.player = p.player /\ q.accepts = p.accepts /\ q.conn = p.conn /\ ~q.event
  BY <1>3, <1>5, Records
<1>7. cl = [client EXCEPT ![c] = q]
  BY <1>3, <1>4, <1>5, Records DEF IInv, TypeOK
<1>8. cl \in [Client -> Protocol] /\ cl[c] = q /\ \A d \in Client : d # c => cl[d] = client[d]
  BY <1>7 DEF IInv, TypeOK
<1> HIDE DEF cl
<1>9. client' \in [Client -> Protocol]
  BY <1>1, <1>8, ClosedType
<1>10. /\ client'[c].player = q.player /\ client'[c].accepts = q.accepts
       /\ client'[c].event = q.event /\ client'[c].conn # "none"
  BY <1>1, <1>2, <1>4, <1>6, <1>8, ClosedType DEF Kept
<1>11. \A d \in Client : d # c => client'[d] = client[d]
  BY <1>1, <1>8 DEF Closed
<1>12. TypeOK'
  BY <1>1, <1>9 DEF IInv, TypeOK
<1>13. ASSUME NEW b \in InGame, body[b].connecting
       PROVE  \E d \in Client \ {c} : /\ client[d].event /\ client[d].seeks = b
                                      /\ body[b].client \in client[d].behind \cup {NoClient}
  <2>1. PICK d \in Client : /\ client[d].event /\ client[d].seeks = b
                           /\ body[b].client \in client[d].behind \cup {NoClient}
    BY <1>13 DEF IInv, ConnectingIsFound
  <2>2. d # c
    BY <1>1, <2>1 DEF Finds
  <2> QED BY <2>1, <2>2
<1>14. /\ client'[c].player = NoBody /\ ~client'[c].accepts /\ ~client'[c].event
  BY <1>2, <1>4, <1>6, <1>10
<1> QED BY <1>1, <1>2, <1>10, <1>11, <1>12, <1>13, <1>14, StrangerKeeps

LEMMA BeginPacketKeeps ==
    ASSUME IInv, NEW c \in Client, BeginPacket(c)
    PROVE  IInv'
<1>1. /\ client[c].accepts /\ client[c].conn = "open" /\ parsing' = c
      /\ UNCHANGED <<gameState, client, body, waitList, releases, cast>>
  BY DEF BeginPacket
<1>2. TypeOK' /\ StagesAgree'
  BY <1>1 DEF IInv, TypeOK, StagesAgree
<1>3. PlayersAreHeld'
  <2>1. ASSUME NEW x \in Body PROVE Counted(x)' /\ Lives(x)'
    BY <1>1, CountedHeld DEF IInv, Counted, Lives
  <2> QED BY <1>2, <2>1, HeldCountedAfter
<1> QED BY <1>1, <1>2, <1>3 DEF IInv, OneClientEach, ConnectingIsFound, OncePerAccount, InGame

-----------------------------------------------------------------------------
(* The theorems. *)

LEMMA InitTypeOK == Init => TypeOK
BY NoProtocolType DEF Init, TypeOK

LEMMA InitIInv == Init => IInv
<1> SUFFICES ASSUME Init PROVE IInv
  OBVIOUS
<1>1. TypeOK
  BY InitTypeOK
<1>2. /\ NoProtocol.conn = "none" /\ NoProtocol.todo = <<>> /\ NoProtocol.player = NoBody
      /\ ~NoProtocol.accepts /\ ~NoProtocol.event
      /\ NoPlayer.at = "none" /\ NoPlayer.client = NoClient /\ NoPlayer.refs = 0
  BY DEF NoProtocol, NoPlayer
<1>3. /\ \A c \in Client : client[c] = NoProtocol
      /\ \A b \in Body : body[b] = NoPlayer /\ releases[b] = 0
      /\ parsing = NoClient
  BY DEF Init
<1>4. InGame = {}
  BY <1>2, <1>3 DEF InGame
<1>5. StagesAgree
  <2>1. <<>> # <<"login">>
    OBVIOUS
  <2> QED BY <1>2, <1>3, <2>1 DEF StagesAgree
<1>6. PlayersAreHeld
  <2>1. \A b \in Body : Held(client, b) = 0
    BY <1>2, <1>3, HeldFacts, LoginAssumption
  <2>2. \A b \in Body : Counted(b) /\ Lives(b)
    BY <1>2, <1>3, <2>1 DEF Counted, Lives
  <2> QED BY <1>1, <1>5, <2>2, HeldCounted
<1> QED BY <1>1, <1>2, <1>3, <1>4, <1>5, <1>6 DEF IInv, OneClientEach, ConnectingIsFound, OncePerAccount

LEMMA StepIInv == IInv /\ [Next]_vars => IInv'
<1> SUFFICES ASSUME IInv, [Next]_vars PROVE IInv'
  OBVIOUS
<1>0. /\ TypeOK /\ StagesAgree
      /\ gameState = "closed" => \A b \in InGame : body[b].name \in AlwaysLogin
      /\ {} \in SUBSET InGame
  BY DEF IInv, OncePerAccount
<1>1. ASSUME NEW c \in Client, NEW n \in cast.names, Arrive(c, n) PROVE IInv'
  BY <1>1, ArriveKeeps
<1>2. ASSUME NEW c \in Client, BeginPacket(c) PROVE IInv'
  BY <1>2, BeginPacketKeeps
<1>3. ASSUME NEW c \in Client, EndPacket(c) PROVE IInv'
  <2>1. TypeOK' /\ Departs({})
    BY <1>0, <1>3, EndPacketEffect
  <2>2. parsing' \in {parsing, NoClient} /\ gameState' = gameState
    BY <1>3 DEF EndPacket
  <2> QED BY <1>0, <2>1, <2>2, DepartsKeeps
<1>4. ASSUME NEW c \in Client, Drop(c) PROVE IInv'
  <2>1. TypeOK' /\ Departs({})
    BY <1>0, <1>4, DropEffect
  <2>2. parsing' \in {parsing, NoClient} /\ gameState' = gameState
    BY <1>4 DEF Drop
  <2> QED BY <1>0, <2>1, <2>2, DepartsKeeps
<1>5. ASSUME NEW c \in Client, LoginNew(c) PROVE IInv'
  <2>1. UNCHANGED <<gameState, parsing>>
    BY <1>5 DEF LoginNew
  <2> QED BY <1>0, <1>5, <2>1, LoginNewEffect, AdmitsKeeps
<1>6. ASSUME NEW c \in Client, LoginAgain(c) PROVE IInv'
  <2>1. UNCHANGED <<gameState, parsing>>
    BY <1>6 DEF LoginAgain
  <2> QED BY <1>0, <1>6, <2>1, LoginAgainEffect, AttachesKeeps
<1>7. ASSUME NEW c \in Client, TakeOver(c) PROVE IInv'
  <2>1. UNCHANGED <<gameState, parsing>>
    BY <1>7 DEF TakeOver
  <2>2. TypeOK' /\ (Departs({}) \/ \E b \in Body : Awaits(c, b))
    BY <1>0, <1>7, TakeOverEffect
  <2>3. CASE Departs({})
    BY <1>0, <2>1, <2>2, <2>3, DepartsKeeps
  <2>4. CASE \E b \in Body : Awaits(c, b)
    BY <2>1, <2>2, <2>4, AwaitsKeeps
  <2> QED BY <2>2, <2>3, <2>4
<1>8. ASSUME NEW c \in Client, ConnectEvent(c) PROVE IInv'
  <2>1. UNCHANGED <<gameState, parsing>>
    BY <1>8 DEF ConnectEvent
  <2>2. CASE Finds(client[c].seeks)
    BY <1>0, <1>8, <2>1, <2>2, ConnectEventEffect, AttachesKeeps
  <2>3. CASE ~Finds(client[c].seeks)
    BY <1>8, <2>3, MissKeeps
  <2> QED BY <2>2, <2>3
<1>9. ASSUME NEW c \in Client, LogoutTask(c) PROVE IInv'
  <2>1. PICK G \in SUBSET InGame : TypeOK' /\ Departs(G)
    BY <1>0, <1>9, LogoutTaskEffect
  <2>2. parsing' \in {parsing, NoClient} /\ gameState' = gameState
    BY <1>9 DEF LogoutTask
  <2> QED BY <1>0, <2>1, <2>2, DepartsKeeps
<1>10. ASSUME NEW c \in Client, ReleaseProtocol(c) PROVE IInv'
  <2>1. UNCHANGED <<gameState, parsing>>
    BY <1>10 DEF ReleaseProtocol
  <2> QED BY <1>0, <1>10, <2>1, ReleaseEffect, FreesKeeps
<1>11. ASSUME NEW b \in Body, Kick(b) \/ Die(b) PROVE IInv'
  <2>1. PICK G \in SUBSET InGame : TypeOK' /\ Departs(G)
    BY <1>0, <1>11, KickEffect
  <2>2. parsing' \in {parsing, NoClient} /\ gameState' = gameState
    BY <1>11 DEF Kick, Die
  <2> QED BY <1>0, <2>1, <2>2, DepartsKeeps
<1>12. ASSUME NEW s, SetGameState(s) PROVE IInv'
  <2>1. PICK G \in SUBSET InGame :
            /\ TypeOK' /\ Departs(G)
            /\ gameState' = "closed" => \A b \in InGame : b \in G \/ body[b].name \in AlwaysLogin
    BY <1>0, <1>12, SetGameStateEffect
  <2>2. parsing' \in {parsing, NoClient}
    BY <1>12 DEF SetGameState
  <2> QED BY <2>1, <2>2, DepartsKeeps
<1>13. CASE Cleanup
  BY <1>13, CleanupKeeps
<1>14. CASE UNCHANGED vars
  BY <1>14 DEF vars, IInv, TypeOK, StagesAgree, PlayersAreHeld, OneClientEach, ConnectingIsFound,
               OncePerAccount, InGame
<1> QED BY <1>1, <1>2, <1>3, <1>4, <1>5, <1>6, <1>7, <1>8, <1>9, <1>10, <1>11, <1>12, <1>13, <1>14
        DEF Next

LEMMA Invariance == Spec => []IInv
<1> QED BY InitIInv, StepIInv, PTL DEF Spec

\* Every client and player stays what its type says, and every name one that
\* somebody asked for.
THEOREM TypeCorrect == Spec => []TypeOK
<1>1. IInv => TypeOK
  BY DEF IInv
<1> QED BY <1>1, Invariance, PTL

\* A player object lives exactly as long as a protocol, the game or a pending
\* release holds it: releaseProtocol, removeCreature and cleanup between them
\* neither free it early nor leave it behind.
THEOREM NoPlayerIsLostOrLeaked == Spec => []PlayersAreHeld
<1>1. IInv => PlayersAreHeld
  BY DEF IInv
<1> QED BY <1>1, Invariance, PTL

\* Whatever the order of logins, kicks, drops and deletions, a player in the
\* game has the client he names and no other that is open.
THEOREM NoPlayerHasTwoClients == Spec => []OneClientEach
<1>1. IInv => OneClientEach
  BY DEF IInv
<1> QED BY <1>1, Invariance, PTL

\* A player kept in the game for a client to come is never kept for nothing.
THEOREM WhoIsKeptIsFetched == Spec => []ConnectingIsPending
<1>1. IInv => ConnectingIsPending
  BY DEF IInv, ConnectingIsFound, ConnectingIsPending
<1> QED BY <1>1, Invariance, PTL

\* login's checks hold for all who are in the game, not only for the one who
\* came last: a character and an account once, and nobody who is barred.
THEOREM NobodyIsInTheGameTwice == Spec => []OncePerAccount
<1>1. IInv => OncePerAccount
  BY DEF IInv
<1> QED BY <1>1, Invariance, PTL

-----------------------------------------------------------------------------
(* The waiting list. *)

\* The entries are of those who log in, each has one, and the premium are first.
Waiter == [name : Name, premium : BOOLEAN]

Lined(list) ==
    /\ list \in Seq(Waiter)
    /\ \A i \in 1 .. Len(list) : list[i].premium <=> list[i].name \in Premium
    /\ \A i, j \in 1 .. Len(list) : list[i].name = list[j].name => i = j
    /\ \A i, j \in 1 .. Len(list) : i < j /\ list[j].premium => list[i].premium

\* f says where each of one list is in another, in the same order.
Along(f, short, long) ==
    /\ \A i, j \in 1 .. Len(short) : i < j => f[i] < f[j]
    /\ \A i \in 1 .. Len(short) : short[i] = long[f[i]]

Thins(short, long) ==
    short \in Seq(Waiter) /\ \E f \in [1 .. Len(short) -> 1 .. Len(long)] : Along(f, short, long)

\* A naturals' set has a least.
LEMMA NatMin ==
    ASSUME NEW T, T \subseteq Nat, T # {}
    PROVE  \E x \in T : \A y \in T : x <= y
<1>1. PICK x \in T : \A y \in T : ~(<<y, x>> \in OpToRel(<, Nat))
  BY NatLessThanWellFounded, WFMin, Zenon
<1>2. \A u, v \in Nat : (<<v, u>> \in OpToRel(<, Nat)) <=> v < u
  BY DEF OpToRel
<1>3. x \in Nat
  OBVIOUS
<1>4. ASSUME NEW y \in T
      PROVE  x <= y
  <2>1. y \in Nat
    OBVIOUS
  <2>2. ~(y < x)
    BY <1>1, <1>2, <1>3, <2>1
  <2>. QED
    BY <2>1, <2>2, <1>3
<1>. QED
  BY <1>4

\* A set that has 0, and with each number up to N the next, has them all.
LEMMA UpTo ==
    ASSUME NEW N \in Nat, NEW T, 0 \in T, \A k \in 1 .. N : k - 1 \in T => k \in T
    PROVE  \A k \in 0 .. N : k \in T
<1>. DEFINE U == {k \in 0 .. N : k \notin T}
<1>1. SUFFICES ASSUME U # {}
               PROVE  FALSE
  OBVIOUS
<1>2. PICK x \in U : \A y \in U : x <= y
  <2>1. U \subseteq Nat
    OBVIOUS
  <2>. HIDE DEF U
  <2>. QED  BY <1>1, <2>1, NatMin
<1>3. x \in 1 .. N
  BY <1>2
<1>4. x - 1 \in 0 .. N /\ ~(x <= x - 1)
  BY <1>3
<1>5. x - 1 \in T
  BY <1>2, <1>4
<1>. QED
  BY <1>2, <1>3, <1>5

\* cleanup, entry by entry.
KeptOf(list, late, k, s) == IF list[k].name \in late THEN s ELSE Append(s, list[k])
Cleans(h, list, late, n) == h[0] = <<>> /\ \A k \in 1 .. n : h[k] = KeptOf(list, late, k, h[k - 1])

LEMMA CleaningEnds ==
    ASSUME NEW list \in Seq(Waiter), NEW late
    PROVE  \E h \in [0 .. Len(list) -> Seq(Waiter)] : Cleans(h, list, late, Len(list))
<1>. DEFINE N == Len(list)
            Is(h, n) == Cleans(h, list, late, n)
            T == {n \in 0 .. N : \E h \in [0 .. n -> Seq(Waiter)] : Is(h, n)}
<1>0. N \in Nat /\ N = Len(list) /\ \A k \in 1 .. N : list[k] \in Waiter
  OBVIOUS
<1>. HIDE DEF N
<1>. USE DEF Cleans
<1>1. 0 \in T
  <2>. DEFINE g == [j \in 0 .. 0 |-> <<>>]
  <2>1. g \in [0 .. 0 -> Seq(Waiter)] /\ g[0] = <<>>
    <3>1. <<>> \in Seq(Waiter)
      OBVIOUS
    <3>. QED  BY <3>1
  <2>2. Is(g, 0)
    <3>. HIDE DEF g
    <3>. QED  BY <2>1
  <2>. HIDE DEF g, Is
  <2>3. \E h \in [0 .. 0 -> Seq(Waiter)] : Is(h, 0)
    BY <2>1, <2>2
  <2>. QED
    BY <1>0, <2>3
<1>2. ASSUME NEW k \in 1 .. N, k - 1 \in T
      PROVE  k \in T
  <2>1. PICK h \in [0 .. (k - 1) -> Seq(Waiter)] : Is(h, k - 1)
    BY <1>2
  <2>. DEFINE y == KeptOf(list, late, k, h[k - 1])
              g == [j \in 0 .. k |-> IF j = k THEN y ELSE h[j]]
  <2>2. y \in Seq(Waiter)
    <3>1. k - 1 \in 0 .. (k - 1)
      OBVIOUS
    <3>2. h[k - 1] \in Seq(Waiter) /\ list[k] \in Waiter
      BY <1>0, <2>1, <3>1
    <3>. QED
      BY <3>2 DEF KeptOf
  <2>3. /\ g \in [0 .. k -> Seq(Waiter)] /\ g[0] = h[0] /\ g[k] = y
        /\ \A j \in 0 .. k - 1 : g[j] = h[j]
    <3>. HIDE DEF y
    <3>. QED  BY <2>1, <2>2
  <2>4. Is(g, k)
    <3>. HIDE DEF g
    <3>0. k \in Nat /\ k - 1 \in Nat
      BY <1>0
    <3>1. \A j \in 1 .. k - 1 : g[j] = KeptOf(list, late, j, g[j - 1])
      BY <2>1, <2>3
    <3>2. g[k] = KeptOf(list, late, k, g[k - 1])
      BY <2>3, <3>0
    <3>3. \A j \in 1 .. k : j \in 1 .. k - 1 \/ j = k
      BY <3>0
    <3>4. \A j \in 1 .. k : g[j] = KeptOf(list, late, j, g[j - 1])
      BY <3>1, <3>2, <3>3
    <3>5. g[0] = <<>>
      BY <2>1, <2>3
    <3>. QED
      BY <3>4, <3>5
  <2>. HIDE DEF g, Is
  <2>. QED
    BY <2>3, <2>4
<1>3. \A k \in 0 .. N : k \in T
  <2>. HIDE DEF T
  <2>. QED  BY <1>0, <1>1, <1>2, UpTo
<1>4. N \in T
  <2>. HIDE DEF T
  <2>. QED  BY <1>0, <1>3
<1>5. PICK h \in [0 .. N -> Seq(Waiter)] : Is(h, N)
  <2>. HIDE DEF Is
  <2>. QED  BY <1>4
<1>6. h \in [0 .. Len(list) -> Seq(Waiter)] /\ Cleans(h, list, late, Len(list))
  BY <1>0, <1>5
<1>. HIDE DEF Cleans
<1>. QED
  BY <1>6

\* What cleanup leaves is what was there, in its order.
LEMMA CleanedThins ==
    ASSUME NEW list \in Seq(Waiter), NEW late
    PROVE  Thins(Cleaned(list, late), list)
<1>. DEFINE N == Len(list)
            Is(h) == h = [i \in 0 .. N |-> IF i = 0 THEN <<>> ELSE KeptOf(list, late, i, h[i - 1])]
            kept == CHOOSE h : Is(h)
            Ok(k, s) == s \in Seq(Waiter) /\ \E f \in [1 .. Len(s) -> 1 .. k] : Along(f, s, list)
            T == {k \in 0 .. N : Ok(k, kept[k])}
<1>0. N \in Nat /\ \A k \in 1 .. N : list[k] \in Waiter
  OBVIOUS
<1>1. PICK h \in [0 .. N -> Seq(Waiter)] : Cleans(h, list, late, N)
  BY CleaningEnds
<1>2. Is(h)
  <2>1. \A i \in 0 .. N : h[i] = IF i = 0 THEN <<>> ELSE KeptOf(list, late, i, h[i - 1])
    BY <1>1 DEF Cleans
  <2>. QED
    BY <2>1
<1>3. Is(kept)
  BY <1>2
<1>4. Cleaned(list, late) = kept[N]
  BY DEF Cleaned, KeptOf
<1>5. /\ kept[0] = <<>>
      /\ \A k \in 1 .. N : kept[k] = KeptOf(list, late, k, kept[k - 1])
  <2>. HIDE DEF kept
  <2>. QED  BY <1>0, <1>3
<1>. HIDE DEF kept, N
<1>6. 0 \in T
  <2>. DEFINE f == [i \in 1 .. 0 |-> 1]
  <2>1. kept[0] \in Seq(Waiter) /\ Len(kept[0]) = 0
    BY <1>5
  <2>2. f \in [1 .. 0 -> 1 .. 0]
    OBVIOUS
  <2>3. Along(f, kept[0], list)
    BY <2>1 DEF Along
  <2>. HIDE DEF f
  <2>4. Ok(0, kept[0])
    BY <2>1, <2>2, <2>3
  <2>. HIDE DEF Ok
  <2>. QED
    BY <1>0, <2>4
<1>7. ASSUME NEW k \in 1 .. N, k - 1 \in T
      PROVE  k \in T
  <2>. DEFINE s == kept[k - 1]
  <2>1. s \in Seq(Waiter) /\ list[k] \in Waiter /\ Len(s) \in Nat
    BY <1>0, <1>7
  <2>2. PICK f \in [1 .. Len(s) -> 1 .. (k - 1)] : Along(f, s, list)
    BY <1>7
  <2>. HIDE DEF s
  <2>3. CASE list[k].name \in late
    <3>1. kept[k] = s
      BY <1>5, <2>3 DEF KeptOf, s
    <3>2. f \in [1 .. Len(s) -> 1 .. k]
      OBVIOUS
    <3>3. Ok(k, s)
      BY <2>1, <2>2, <3>2
    <3>. HIDE DEF Ok
    <3>. QED
      BY <3>1, <3>3
  <2>4. CASE ~(list[k].name \in late)
    <3>. DEFINE t == Append(s, list[k])
                g == [i \in 1 .. Len(t) |-> IF i <= Len(s) THEN f[i] ELSE k]
    <3>1. kept[k] = t
      BY <1>5, <2>4 DEF KeptOf, s
    <3>2. /\ t \in Seq(Waiter) /\ Len(t) = Len(s) + 1 /\ t[Len(s) + 1] = list[k]
          /\ \A i \in 1 .. Len(s) : t[i] = s[i]
      BY <2>1
    <3>. HIDE DEF t
    <3>3. /\ \A i \in 1 .. Len(s) : g[i] = f[i] /\ g[i] \in 1 .. (k - 1)
          /\ g[Len(s) + 1] = k
      BY <2>1, <3>2
    <3>4. g \in [1 .. Len(t) -> 1 .. k]
      <4>1. \A i \in 1 .. Len(t) : i \in 1 .. Len(s) \/ i = Len(s) + 1
        BY <2>1, <3>2
      <4>2. \A i \in 1 .. Len(t) : g[i] \in 1 .. k
        <5>. HIDE DEF g
        <5>. QED  BY <3>3, <4>1
      <4>. QED  BY <4>2
    <3>. HIDE DEF g
    <3>5. ASSUME NEW i \in 1 .. Len(t), NEW j \in 1 .. Len(t), i < j
          PROVE  g[i] < g[j]
      <4>1. i \in 1 .. Len(s)
        BY <2>1, <3>2, <3>5
      <4>2. CASE j \in 1 .. Len(s)
        BY <2>2, <3>3, <3>5, <4>1, <4>2 DEF Along
      <4>3. CASE j = Len(s) + 1
        <5>1. g[i] \in 1 .. (k - 1) /\ g[j] = k
          BY <3>3, <4>1, <4>3
        <5>. QED  BY <5>1
      <4>. QED  BY <2>1, <3>2, <4>2, <4>3
    <3>6. ASSUME NEW i \in 1 .. Len(t)
          PROVE  t[i] = list[g[i]]
      <4>1. CASE i \in 1 .. Len(s)
        BY <2>2, <3>2, <3>3, <4>1 DEF Along
      <4>2. CASE i = Len(s) + 1
        BY <3>2, <3>3, <4>2
      <4>. QED  BY <2>1, <3>2, <4>1, <4>2
    <3>7. Along(g, t, list)
      BY <3>5, <3>6 DEF Along
    <3>8. Ok(k, t)
      BY <3>2, <3>4, <3>7
    <3>. HIDE DEF Ok
    <3>. QED
      BY <3>1, <3>8
  <2>. QED
    BY <2>3, <2>4
<1>8. \A k \in 0 .. N : k \in T
  <2>. HIDE DEF T
  <2>. QED  BY <1>0, <1>6, <1>7, UpTo
<1>9. N \in T
  BY <1>0, <1>8
<1>. QED
  BY <1>4, <1>9 DEF Thins, N

\* An entry's place is its slot.
LEMMA SlotIs ==
    ASSUME NEW list, Lined(list), NEW i \in 1 .. Len(list)
    PROVE  Slots(list, list[i].name) = {i} /\ Slot(list, list[i].name) = i
<1>1. Slots(list, list[i].name) = {i}
  BY DEF Slots, Lined
<1>2. \A k \in {i} : (\A j \in {i} : k <= j) <=> k = i
  OBVIOUS
<1>. QED
  BY <1>1, <1>2 DEF Slot

LEMMA BeforeIs ==
    ASSUME NEW list, Lined(list), NEW x, NEW y
    PROVE  IsBefore(list, x, y) <=>
               \E i, j \in 1 .. Len(list) : i < j /\ list[i].name = x /\ list[j].name = y
<1>1. ASSUME IsBefore(list, x, y)
      PROVE  \E i, j \in 1 .. Len(list) : i < j /\ list[i].name = x /\ list[j].name = y
  <2>1. PICK i \in 1 .. Len(list) : list[i].name = x
    BY <1>1 DEF IsBefore, Slots
  <2>2. PICK j \in 1 .. Len(list) : list[j].name = y
    BY <1>1 DEF IsBefore, Slots
  <2>3. Slot(list, x) = i /\ Slot(list, y) = j
    BY <2>1, <2>2, SlotIs
  <2>. QED
    BY <1>1, <2>1, <2>2, <2>3 DEF IsBefore
<1>2. ASSUME NEW i \in 1 .. Len(list), NEW j \in 1 .. Len(list),
             i < j, list[i].name = x, list[j].name = y
      PROVE  IsBefore(list, x, y)
  <2>1. Slots(list, x) = {i} /\ Slot(list, x) = i /\ Slots(list, y) = {j} /\ Slot(list, y) = j
    BY <1>2, SlotIs
  <2>. QED
    BY <1>2, <2>1 DEF IsBefore
<1>. QED
  BY <1>1, <1>2

\* A thinned list is lined up, and nobody has come before another.
LEMMA ThinsKeeps ==
    ASSUME NEW long, Lined(long), NEW short, Thins(short, long)
    PROVE  /\ Lined(short)
           /\ \A x, y : IsBefore(short, x, y) => IsBefore(long, x, y)
<1>1. PICK f \in [1 .. Len(short) -> 1 .. Len(long)] : Along(f, short, long)
  BY DEF Thins
<1>2. short \in Seq(Waiter) /\ long \in Seq(Waiter) /\ Len(short) \in Nat /\ Len(long) \in Nat
  BY DEF Thins, Lined
<1>3. \A i \in 1 .. Len(short) : f[i] \in 1 .. Len(long) /\ short[i] = long[f[i]]
  BY <1>1 DEF Along
<1>4. \A i, j \in 1 .. Len(short) : i < j => f[i] < f[j]
  BY <1>1 DEF Along
<1>5. ASSUME NEW i \in 1 .. Len(short), NEW j \in 1 .. Len(short), short[i].name = short[j].name
      PROVE  i = j
  <2>1. f[i] = f[j]
    BY <1>3, <1>5 DEF Lined
  <2>2. ~(i < j) /\ ~(j < i)
    BY <1>3, <1>4, <2>1
  <2>. QED
    BY <1>2, <2>2
<1>6. Lined(short)
  <2>1. \A i \in 1 .. Len(short) : short[i].premium <=> short[i].name \in Premium
    BY <1>3 DEF Lined
  <2>2. \A i, j \in 1 .. Len(short) : i < j /\ short[j].premium => short[i].premium
    BY <1>3, <1>4 DEF Lined
  <2>. QED
    BY <1>2, <1>5, <2>1, <2>2 DEF Lined
<1>7. ASSUME NEW x, NEW y, IsBefore(short, x, y)
      PROVE  IsBefore(long, x, y)
  <2>1. PICK i, j \in 1 .. Len(short) : i < j /\ short[i].name = x /\ short[j].name = y
    BY <1>6, <1>7, BeforeIs
  <2>2. /\ f[i] \in 1 .. Len(long) /\ f[j] \in 1 .. Len(long) /\ f[i] < f[j]
        /\ long[f[i]].name = x /\ long[f[j]].name = y
    BY <1>3, <1>4, <2>1
  <2>. QED
    BY <2>2, BeforeIs
<1>. QED
  BY <1>6, <1>7

LEMMA Together ==
    ASSUME NEW S, NEW a \in Seq(S), NEW b \in Seq(S)
    PROVE  /\ a \o b \in Seq(S) /\ Len(a \o b) = Len(a) + Len(b)
           /\ \A i \in 1 .. Len(a) + Len(b) : (a \o b)[i] = IF i <= Len(a) THEN a[i] ELSE b[i - Len(a)]
OBVIOUS

\* Who enters is taken off, and those before him keep their places.
LEMMA WithoutThins ==
    ASSUME NEW list, Lined(list), NEW k \in 1 .. Len(list)
    PROVE  /\ Thins(Without(list, k), list)
           /\ \A i \in 1 .. Len(Without(list, k)) : i < k => Without(list, k)[i] = list[i]
           /\ \A i \in 1 .. Len(Without(list, k)) : i >= k => Without(list, k)[i] = list[i + 1]
<1>. DEFINE N == Len(list)
            s == Without(list, k)
            f == [i \in 1 .. N - 1 |-> IF i < k THEN i ELSE i + 1]
<1>1. list \in Seq(Waiter) /\ N \in Nat /\ k \in 1 .. N
  BY DEF Lined
<1>. DEFINE a == SubSeq(list, 1, k - 1)
            b == SubSeq(list, k + 1, N)
<1>2. /\ a \in Seq(Waiter) /\ Len(a) = k - 1 /\ \A i \in 1 .. k - 1 : a[i] = list[i]
  <2>. HIDE DEF N
  <2>. QED  BY <1>1, SubSeqProperties DEF N
<1>3. /\ b \in Seq(Waiter) /\ Len(b) = N - k /\ \A i \in 1 .. N - k : b[i] = list[i + k]
  BY <1>1
<1>4. s = a \o b
  BY DEF Without
<1>. HIDE DEF a, b, s
<1>5. /\ s \in Seq(Waiter) /\ Len(s) = N - 1
      /\ \A i \in 1 .. N - 1 : s[i] = IF i < k THEN a[i] ELSE b[i - (k - 1)]
  <2>1. /\ s \in Seq(Waiter) /\ Len(s) = (k - 1) + (N - k)
        /\ \A i \in 1 .. (k - 1) + (N - k) : s[i] = IF i <= k - 1 THEN a[i] ELSE b[i - (k - 1)]
    <3>1. a \in Seq(Waiter) /\ b \in Seq(Waiter)
      BY <1>2, <1>3
    <3>2. /\ s \in Seq(Waiter) /\ Len(s) = Len(a) + Len(b)
          /\ \A i \in 1 .. Len(a) + Len(b) : s[i] = IF i <= Len(a) THEN a[i] ELSE b[i - Len(a)]
      BY <1>4, <3>1, Together, Zenon
    <3>3. Len(a) = k - 1 /\ Len(b) = N - k
      BY <1>2, <1>3
    <3>. HIDE DEF N
    <3>. QED  BY <3>2, <3>3
  <2>. HIDE DEF N
  <2>2. (k - 1) + (N - k) = N - 1 /\ \A i \in 1 .. N - 1 : i <= k - 1 <=> i < k
    BY <1>1
  <2>. QED  BY <2>1, <2>2
<1>6. \A i \in 1 .. N - 1 : s[i] = IF i < k THEN list[i] ELSE list[i + 1]
  <2>. SUFFICES ASSUME NEW i \in 1 .. N - 1
                PROVE  s[i] = IF i < k THEN list[i] ELSE list[i + 1]
    OBVIOUS
  <2>1. CASE i < k
    BY <1>1, <1>2, <1>5, <2>1
  <2>2. CASE ~(i < k)
    <3>1. i - (k - 1) \in 1 .. N - k /\ (i - (k - 1)) + k = i + 1
      BY <1>1, <2>2
    <3>. QED
      BY <1>3, <1>5, <2>2, <3>1
  <2>. QED
    BY <2>1, <2>2
<1>. HIDE DEF N
<1>7. f \in [1 .. Len(s) -> 1 .. N]
  BY <1>1, <1>5
<1>8. \A i \in 1 .. Len(s) : f[i] = IF i < k THEN i ELSE i + 1
  BY <1>5
<1>. HIDE DEF f
<1>9. Along(f, s, list)
  <2>1. \A i, j \in 1 .. Len(s) : i < j => f[i] < f[j]
    BY <1>1, <1>5, <1>8
  <2>2. \A i \in 1 .. Len(s) : s[i] = list[f[i]]
    BY <1>5, <1>6, <1>8
  <2>. QED
    BY <2>1, <2>2 DEF Along
<1>10. Thins(s, list)
  BY <1>5, <1>7, <1>9 DEF Thins, N
<1>11. /\ \A i \in 1 .. Len(s) : i < k => s[i] = list[i]
       /\ \A i \in 1 .. Len(s) : i >= k => s[i] = list[i + 1]
  BY <1>1, <1>5, <1>6
<1>. QED
  BY <1>10, <1>11 DEF s

\* What putting n at k does.
PutAt(list, k, n) == SubSeq(list, 1, k - 1) \o <<Entry(n)>> \o SubSeq(list, k, Len(list))

LEMMA PutAtIs ==
    ASSUME NEW list \in Seq(Waiter), NEW n \in Name, NEW k \in 1 .. Len(list)
    PROVE  /\ PutAt(list, k, n) \in Seq(Waiter) /\ Len(PutAt(list, k, n)) = Len(list) + 1
           /\ \A i \in 1 .. Len(list) + 1 :
                 PutAt(list, k, n)[i] = IF i < k THEN list[i] ELSE IF i = k THEN Entry(n) ELSE list[i - 1]
<1>. DEFINE N == Len(list)
            a == SubSeq(list, 1, k - 1)
            b == SubSeq(list, k, N)
            e == Entry(n)
            s == PutAt(list, k, n)
<1>1. N \in Nat /\ k \in 1 .. N /\ e \in Waiter
  BY DEF Entry, Waiter
<1>2. a \in Seq(Waiter) /\ Len(a) = k - 1 /\ \A i \in 1 .. k - 1 : a[i] = list[i]
  <2>. HIDE DEF N
  <2>. QED  BY <1>1, SubSeqProperties DEF N
<1>3. b \in Seq(Waiter) /\ Len(b) = N - k + 1 /\ \A i \in 1 .. N - k + 1 : b[i] = list[i + (k - 1)]
  BY <1>1
<1>4. s = (a \o <<e>>) \o b
  BY DEF PutAt
<1>. HIDE DEF a, b, e, s
<1>. DEFINE c == a \o <<e>>
<1>5. c \in Seq(Waiter) /\ Len(c) = k /\ \A i \in 1 .. k : c[i] = IF i < k THEN list[i] ELSE e
  BY <1>1, <1>2
<1>. HIDE DEF c
<1>6. /\ s \in Seq(Waiter) /\ Len(s) = N + 1
      /\ \A i \in 1 .. N + 1 : s[i] = IF i <= k THEN c[i] ELSE b[i - k]
  <2>1. /\ s \in Seq(Waiter) /\ Len(s) = k + (N - k + 1)
        /\ \A i \in 1 .. k + (N - k + 1) : s[i] = IF i <= k THEN c[i] ELSE b[i - k]
    <3>1. c \in Seq(Waiter) /\ b \in Seq(Waiter) /\ s = c \o b
      BY <1>3, <1>4, <1>5 DEF c
    <3>2. /\ s \in Seq(Waiter) /\ Len(s) = Len(c) + Len(b)
          /\ \A i \in 1 .. Len(c) + Len(b) : s[i] = IF i <= Len(c) THEN c[i] ELSE b[i - Len(c)]
      BY <3>1, Together, Zenon
    <3>3. Len(c) = k /\ Len(b) = N - k + 1
      BY <1>3, <1>5
    <3>. HIDE DEF N
    <3>. QED  BY <3>2, <3>3
  <2>. HIDE DEF N
  <2>2. k + (N - k + 1) = N + 1
    BY <1>1
  <2>. QED  BY <2>1, <2>2
<1>7. \A i \in 1 .. N + 1 : s[i] = IF i < k THEN list[i] ELSE IF i = k THEN e ELSE list[i - 1]
  <2>. SUFFICES ASSUME NEW i \in 1 .. N + 1
                PROVE  s[i] = IF i < k THEN list[i] ELSE IF i = k THEN e ELSE list[i - 1]
    OBVIOUS
  <2>1. CASE i <= k
    <3>1. i \in 1 .. k
      BY <1>1, <2>1
    <3>. QED
      BY <1>1, <1>5, <1>6, <2>1, <3>1
  <2>2. CASE ~(i <= k)
    <3>1. i - k \in 1 .. N - k + 1 /\ (i - k) + (k - 1) = i - 1
      BY <1>1, <2>2
    <3>. QED
      BY <1>1, <1>3, <1>6, <2>2, <3>1
  <2>. QED
    BY <2>1, <2>2
<1>. QED
  BY <1>6, <1>7 DEF s, e, N

\* One who comes is put where he may stand: behind all, or, if he is premium,
\* before those who are not.
Comes(list, k, n) ==
    /\ n \in Premium => \A i \in 1 .. Len(list) : i < k <=> list[i].premium
    /\ n \notin Premium => k = Len(list) + 1

LEMMA InsertedIs ==
    ASSUME NEW list, Lined(list), NEW n \in Name
    PROVE  \E k \in 1 .. Len(list) + 1 :
              /\ Comes(list, k, n)
              /\ Inserted(list, n) \in Seq(Waiter) /\ Len(Inserted(list, n)) = Len(list) + 1
              /\ \A i \in 1 .. Len(list) + 1 :
                    Inserted(list, n)[i] = IF i < k THEN list[i] ELSE IF i = k THEN Entry(n) ELSE list[i - 1]
<1>. DEFINE ordinary == {i \in 1 .. Len(list) : ~list[i].premium}
            k == CHOOSE i \in ordinary : \A j \in ordinary : i <= j
<1>1. list \in Seq(Waiter) /\ Len(list) \in Nat /\ Entry(n) \in Waiter
  BY DEF Lined, Entry, Waiter
<1>2. CASE n \in Premium /\ ordinary # {}
  <2>1. k \in ordinary /\ \A j \in ordinary : k <= j
    <3>1. \E i \in ordinary : \A j \in ordinary : i <= j
      <4>1. ordinary \subseteq Nat
        BY <1>1
      <4>. HIDE DEF ordinary
      <4>. QED  BY <1>2, <4>1, NatMin
    <3>. HIDE DEF ordinary
    <3>. QED  BY <3>1
  <2>2. Inserted(list, n) = PutAt(list, k, n)
    BY <1>2 DEF Inserted, PutAt
  <2>. HIDE DEF k
  <2>3. k \in 1 .. Len(list) /\ ~list[k].premium
    BY <2>1
  <2>4. ASSUME NEW i \in 1 .. Len(list)
        PROVE  i < k <=> list[i].premium
    <3>1. CASE i < k
      BY <1>1, <2>1, <2>3, <3>1
    <3>2. CASE ~(i < k)
      <4>1. CASE i = k
        BY <2>3, <3>2, <4>1
      <4>2. CASE k < i
        BY <2>3, <3>2, <4>2 DEF Lined
      <4>. QED  BY <1>1, <2>3, <3>2, <4>1, <4>2
    <3>. QED  BY <3>1, <3>2
  <2>5. Comes(list, k, n)
    BY <1>2, <2>4 DEF Comes
  <2>. HIDE DEF ordinary
  <2>6. k \in 1 .. Len(list) + 1
    BY <1>1, <2>3
  <2>. QED
    BY <1>1, <2>2, <2>3, <2>5, <2>6, PutAtIs
<1>3. CASE ~(n \in Premium /\ ordinary # {})
  <2>. DEFINE s == Append(list, Entry(n))
              l == Len(list) + 1
  <2>1. Inserted(list, n) = s
    BY <1>3 DEF Inserted
  <2>2. /\ s \in Seq(Waiter) /\ Len(s) = Len(list) + 1 /\ l \in 1 .. Len(list) + 1
        /\ \A i \in 1 .. Len(list) : s[i] = list[i]
        /\ s[l] = Entry(n)
    BY <1>1
  <2>3. Comes(list, l, n)
    BY <1>1, <1>3 DEF Comes
  <2>4. \A i \in 1 .. Len(list) + 1 : s[i] = IF i < l THEN list[i] ELSE IF i = l THEN Entry(n) ELSE list[i - 1]
    <3>. HIDE DEF s
    <3>. QED  BY <1>1, <2>2
  <2>. HIDE DEF s, l
  <2>. QED
    BY <2>1, <2>2, <2>3, <2>4
<1>. QED
  BY <1>2, <1>3

\* Who comes stands before another only if he is premium and that one is not.
LEMMA InsertedKeeps ==
    ASSUME NEW list, Lined(list), NEW n \in Name, Slots(list, n) = {}
    PROVE  /\ Lined(Inserted(list, n))
           /\ \A x, y : IsBefore(Inserted(list, n), x, y) =>
                 IsBefore(list, x, y) \/ y = n \/ (x = n /\ x \in Premium /\ y \notin Premium)
<1>. DEFINE s == Inserted(list, n)
            M == Len(list) + 1
<1>1. PICK k \in 1 .. M :
              /\ Comes(list, k, n) /\ s \in Seq(Waiter) /\ Len(s) = M
              /\ \A i \in 1 .. M : s[i] = IF i < k THEN list[i] ELSE IF i = k THEN Entry(n) ELSE list[i - 1]
  BY InsertedIs
<1>. HIDE DEF s
<1>2. Len(list) \in Nat /\ M \in Nat /\ list \in Seq(Waiter)
  BY DEF Lined
<1>3. \A i \in 1 .. Len(list) : list[i].name # n
  BY DEF Slots
<1>4. Entry(n).name = n /\ Entry(n).premium = (n \in Premium)
  BY DEF Entry
<1>. DEFINE g(i) == IF i < k THEN i ELSE i - 1
<1>5. /\ s[k].name = n /\ (s[k].premium <=> n \in Premium)
      /\ \A i \in 1 .. M : i # k => g(i) \in 1 .. Len(list) /\ s[i] = list[g(i)] /\ s[i].name # n
  <2>1. s[k] = Entry(n)
    BY <1>1, <1>2
  <2>2. ASSUME NEW i \in 1 .. M, i # k
        PROVE  g(i) \in 1 .. Len(list) /\ s[i] = list[g(i)]
    BY <1>1, <1>2, <2>2
  <2>. HIDE DEF g, M
  <2>. QED
    BY <1>3, <1>4, <2>1, <2>2
<1>6. \A i, j \in 1 .. M : i # k /\ j # k => (g(i) = g(j) => i = j) /\ (i < j => g(i) < g(j))
  BY <1>1, <1>2
<1>7. \A i \in 1 .. M : i # k => (i < k => g(i) < k) /\ (k < i => ~(g(i) < k))
  BY <1>1, <1>2
<1>8. \A i \in 1 .. M : i # k => (s[i].premium <=> s[i].name \in Premium)
  <2>. HIDE DEF g, M
  <2>. QED  BY <1>5 DEF Lined
<1>9. \A i, j \in 1 .. M : s[i].name = s[j].name => i = j
  <2>. SUFFICES ASSUME NEW i \in 1 .. M, NEW j \in 1 .. M, s[i].name = s[j].name
                PROVE  i = j
    OBVIOUS
  <2>. HIDE DEF g, M
  <2>1. CASE i # k /\ j # k
    <3>1. /\ g(i) \in 1 .. Len(list) /\ s[i] = list[g(i)]
          /\ g(j) \in 1 .. Len(list) /\ s[j] = list[g(j)]
      BY <1>5, <2>1
    <3>2. g(i) = g(j)
      BY <3>1 DEF Lined
    <3>. QED
      BY <1>6, <2>1, <3>2
  <2>2. CASE ~(i # k /\ j # k)
    <3>1. i = k /\ j = k
      BY <1>5, <2>2
    <3>. QED
      BY <3>1
  <2>. QED
    BY <2>1, <2>2
<1>10. n \in Premium => \A i \in 1 .. M : (i < k => s[i].premium) /\ (k < i => ~s[i].premium)
  <2>1. ASSUME n \in Premium, NEW i \in 1 .. M, i # k
        PROVE  s[i].premium <=> g(i) < k
    <3>1. g(i) \in 1 .. Len(list) /\ s[i] = list[g(i)]
      BY <1>5, <2>1
    <3>2. \A j \in 1 .. Len(list) : j < k <=> list[j].premium
      BY <1>1, <2>1 DEF Comes
    <3>. HIDE DEF g
    <3>. QED
      BY <3>1, <3>2
  <2>. SUFFICES ASSUME n \in Premium, NEW i \in 1 .. M
                PROVE  (i < k => s[i].premium) /\ (k < i => ~s[i].premium)
    OBVIOUS
  <2>2. i < k \/ k < i => i # k
    BY <1>2
  <2>. HIDE DEF g, M
  <2>. QED
    BY <1>7, <2>1, <2>2
<1>11. n \notin Premium => k = M
  BY <1>1 DEF Comes
<1>12. \A i, j \in 1 .. M : i < j /\ s[j].premium => s[i].premium
  <2>. SUFFICES ASSUME NEW i \in 1 .. M, NEW j \in 1 .. M, i < j, s[j].premium
                PROVE  s[i].premium
    OBVIOUS
  <2>1. CASE i = k
    <3>1. n \in Premium
      BY <1>2, <1>11, <2>1
    <3>. QED
      BY <1>5, <2>1, <3>1
  <2>2. CASE j = k /\ i # k
    <3>1. n \in Premium
      BY <1>5, <2>2
    <3>2. i \in 1 .. M /\ i < k
      BY <2>2
    <3>. HIDE DEF g, M
    <3>. QED
      BY <1>10, <3>1, <3>2, Zenon
  <2>3. CASE i # k /\ j # k
    <3>. HIDE DEF g, M
    <3>. QED  BY <1>5, <1>6, <2>3 DEF Lined
  <2>. QED
    BY <2>1, <2>2, <2>3
<1>13. Lined(s)
  <2>1. \A i \in 1 .. M : s[i].premium <=> s[i].name \in Premium
    <3>. HIDE DEF g, M
    <3>. QED  BY <1>5, <1>8
  <2>. QED
    BY <1>1, <1>9, <1>12, <2>1 DEF Lined
<1>14. ASSUME NEW x, NEW y, IsBefore(s, x, y)
       PROVE  IsBefore(list, x, y) \/ y = n \/ (x = n /\ x \in Premium /\ y \notin Premium)
  <2>1. PICK i, j \in 1 .. M : i < j /\ s[i].name = x /\ s[j].name = y
    BY <1>1, <1>13, <1>14, BeforeIs
  <2>2. CASE j = k
    BY <1>5, <2>1, <2>2
  <2>3. CASE i = k
    <3>1. n \in Premium
      BY <1>2, <1>11, <2>1, <2>3
    <3>2. ~s[j].premium
      BY <1>10, <2>1, <2>3, <3>1
    <3>3. j # k
      BY <1>2, <2>1, <2>3
    <3>. QED
      BY <1>5, <1>8, <2>1, <2>3, <3>1, <3>2, <3>3
  <2>4. CASE i # k /\ j # k
    <3>1. /\ g(i) \in 1 .. Len(list) /\ g(j) \in 1 .. Len(list) /\ g(i) < g(j)
          /\ list[g(i)].name = x /\ list[g(j)].name = y
      <4>. HIDE DEF g, M
      <4>. QED  BY <1>5, <1>6, <2>1, <2>4
    <3>. HIDE DEF g
    <3>. QED  BY <3>1, BeforeIs
  <2>. QED
    BY <2>2, <2>3, <2>4
<1>. QED
  BY <1>13, <1>14 DEF s

\* What login does to the list: nobody is overtaken but by who is premium, and
\* who is let in leaves room for those who were before him.
Orders(list, q, n, online) ==
    /\ Lined(q.list)
    /\ \A x, y : IsBefore(q.list, x, y) =>
          IsBefore(list, x, y) \/ y = n \/ (x = n /\ x \in Premium /\ y \notin Premium)
    /\ q.admitted => \A y : IsBefore(list, y, n) /\ Slots(q.list, y) # {} =>
          (online + 1) + Slot(q.list, y) <= MaxPlayers

LEMMA AfterLoginIs ==
    ASSUME NEW list, Lined(list), NEW late, NEW n \in Name, NEW online \in Nat
    PROVE  Orders(list, AfterLogin(list, late, n, online), n, online)
<1>. DEFINE now == Cleaned(list, late)
            k == Slot(now, n)
            q == AfterLogin(list, late, n, online)
<1>. USE DEF Orders
<1>1. list \in Seq(Waiter)
  BY DEF Lined
<1>2. Lined(now) /\ \A x, y : IsBefore(now, x, y) => IsBefore(list, x, y)
  BY <1>1, CleanedThins, ThinsKeeps
<1>3. CASE list = <<>> /\ online < MaxPlayers
  <2>1. q.list = list
    BY <1>3 DEF AfterLogin
  <2>2. \A y : ~IsBefore(list, y, n)
    <3>1. Len(list) = 0
      BY <1>3
    <3>. QED  BY <3>1 DEF IsBefore, Slots
  <2>. QED
    BY <2>1, <2>2
<1>4. CASE ~(list = <<>> /\ online < MaxPlayers) /\ Slots(now, n) = {}
  <2>1. q.list = Inserted(now, n) /\ ~q.admitted
    BY <1>4 DEF AfterLogin
  <2>. HIDE DEF now
  <2>. QED
    BY <1>2, <1>4, <2>1, InsertedKeeps
<1>5. CASE ~(list = <<>> /\ online < MaxPlayers) /\ Slots(now, n) # {} /\ MayEnter(now, n, online)
  <2>1. q.list = Without(now, k) /\ online + k <= MaxPlayers
    BY <1>5 DEF AfterLogin, MayEnter
  <2>2. PICK i \in 1 .. Len(now) : now[i].name = n
    BY <1>5 DEF Slots
  <2>. HIDE DEF now
  <2>3. i = k
    BY <1>2, <2>2, SlotIs
  <2>. HIDE DEF k
  <2>4. k \in 1 .. Len(now) /\ now[k].name = n
    BY <2>2, <2>3
  <2>. DEFINE l == Without(now, k)
  <2>5. /\ Thins(l, now)
        /\ \A j \in 1 .. Len(l) : j < k => l[j] = now[j]
        /\ \A j \in 1 .. Len(l) : j >= k => l[j] = now[j + 1]
    BY <1>2, <2>4, WithoutThins
  <2>6. PICK f \in [1 .. Len(l) -> 1 .. Len(now)] : Along(f, l, now)
    BY <2>5 DEF Thins
  <2>. HIDE DEF l
  <2>7. Lined(l) /\ \A x, y : IsBefore(l, x, y) => IsBefore(now, x, y)
    BY <1>2, <2>5, ThinsKeeps
  <2>8. ASSUME NEW y, IsBefore(list, y, n), Slots(l, y) # {}
        PROVE  (online + 1) + Slot(l, y) <= MaxPlayers
    <3>1. PICK j \in 1 .. Len(l) : l[j].name = y
      BY <2>8 DEF Slots
    <3>2. Slot(l, y) = j
      BY <2>7, <3>1, SlotIs
    <3>3. j < k
      <4>. SUFFICES ASSUME ~(j < k)
                    PROVE  FALSE
        OBVIOUS
      <4>1. k \in Nat /\ j \in Nat /\ Len(now) \in Nat /\ k > 0
        BY <1>2, <2>4, <2>7, <3>1 DEF Lined
      <4>2. l[j] = now[f[j]] /\ f[j] \in 1 .. Len(now) /\ l[j] = now[j + 1]
        BY <2>5, <2>6, <3>1, <4>1 DEF Along
      <4>3. f[j] > k
        <5>1. f[j] # k
          <6>1. PICK a, b \in 1 .. Len(list) : a < b /\ list[a].name = y /\ list[b].name = n
            BY <2>8, BeforeIs
          <6>2. Len(list) \in Nat
            BY <1>1
          <6>3. y # n
            BY <6>1, <6>2 DEF Lined
          <6>. QED
            BY <2>4, <3>1, <4>2, <6>3
        <5>2. ASSUME f[j] < k
              PROVE  FALSE
          <6>1. f[j] \in 1 .. Len(l)
            BY <3>1, <4>1, <4>2, <5>2
          <6>2. l[f[j]] = now[f[j]]
            BY <2>5, <5>2, <6>1
          <6>3. f[j] = j
            BY <2>7, <3>1, <4>2, <6>1, <6>2 DEF Lined
          <6>. QED
            BY <5>2, <6>3
        <5>. QED
          BY <4>1, <4>2, <5>1, <5>2
      <4>4. IsBefore(now, n, y)
        <5>1. now[f[j]].name = y /\ k < f[j]
          BY <3>1, <4>1, <4>2, <4>3
        <5>2. \E a, b \in 1 .. Len(now) : a < b /\ now[a].name = n /\ now[b].name = y
          BY <2>4, <4>2, <5>1
        <5>. QED
          BY <1>2, <5>2, BeforeIs
      <4>5. IsBefore(list, n, y)
        BY <1>2, <4>4
      <4>6. PICK a, b \in 1 .. Len(list) : a < b /\ list[a].name = n /\ list[b].name = y
        BY <4>5, BeforeIs
      <4>7. PICK c, d \in 1 .. Len(list) : c < d /\ list[c].name = y /\ list[d].name = n
        BY <2>8, BeforeIs
      <4>8. a = d /\ b = c
        BY <4>6, <4>7 DEF Lined
      <4>. QED
        BY <4>6, <4>7, <4>8
    <3>4. j \in Nat /\ k \in Nat /\ MaxPlayers \in Nat
      BY <1>2, <2>4, <2>7, <3>1, WaitingAssumption DEF Lined
    <3>. QED
      BY <2>1, <3>2, <3>3, <3>4
  <2>. QED
    BY <1>2, <2>1, <2>7, <2>8 DEF l
<1>6. CASE ~(list = <<>> /\ online < MaxPlayers) /\ Slots(now, n) # {} /\ ~MayEnter(now, n, online)
  <2>1. q.list = now /\ ~q.admitted
    BY <1>6 DEF AfterLogin
  <2>. HIDE DEF now
  <2>. QED
    BY <1>2, <2>1
<1>. QED
  BY <1>3, <1>4, <1>5, <1>6

\* The list in an execution.
QInv == Lined(waitList) /\ IsFiniteSet(InGame)

\* Those who wait keep their order when n comes, and have the room they need when
\* he is in.
KeepOrder(n) ==
    \A x, y : IsBefore(waitList', x, y) =>
        IsBefore(waitList, x, y) \/ y = n \/ (x = n /\ x \in Premium /\ y \notin Premium)

LeavesRoom(n) ==
    \A y : IsBefore(waitList, y, n) /\ Slots(waitList', y) # {} =>
        Cardinality(InGame') + Slot(waitList', y) <= MaxPlayers

Queues(n) ==
    /\ QInv' /\ KeepOrder(n)
    /\ \A b \in InGame' \ InGame : body'[b].name = n /\ (~Skips(n) => LeavesRoom(n))

LEMMA LoginNewQueues ==
    ASSUME TypeOK, QInv, NEW c \in Client, LoginNew(c)
    PROVE  Queues(client[c].name)
<1>. DEFINE n == client[c].name
            A == InGame
<1>1. n \in Name
  BY Records DEF TypeOK
<1>2. IsFiniteSet(A) /\ Cardinality(A) \in Nat
  BY FS_CardinalityType DEF QInv
<1>3. PICK b \in Body, late \in SUBSET {e.name : e \in Elements(waitList)} :
          /\ body[b].at = "none"
          /\ \/ Refuse(c, b) /\ UNCHANGED waitList
             \/ /\ waitList' = Queue(n, late).list
                /\ Refuse(c, b) \/ (Queue(n, late).admitted /\ Enter(c, b))
  BY DEF LoginNew
<1>. DEFINE q == Queue(n, late)
            p == AfterLogin(waitList, late, n, Cardinality(A))
<1>4. /\ Lined(p.list)
      /\ \A x, y : IsBefore(p.list, x, y) =>
            IsBefore(waitList, x, y) \/ y = n \/ (x = n /\ x \in Premium /\ y \notin Premium)
      /\ p.admitted => \A y : IsBefore(waitList, y, n) /\ Slots(p.list, y) # {} =>
            (Cardinality(A) + 1) + Slot(p.list, y) <= MaxPlayers
  <2>. HIDE DEF n, A
  <2>1. Orders(waitList, p, n, Cardinality(A))
    BY <1>1, <1>2, AfterLoginIs DEF QInv
  <2>. HIDE DEF p
  <2>. QED  BY <2>1 DEF Orders
<1>5. \/ Skips(n) /\ q.list = waitList
      \/ ~Skips(n) /\ q.list = p.list /\ q.admitted = p.admitted
  BY DEF Queue
<1>. HIDE DEF p
<1>6. Lined(waitList') /\ KeepOrder(n)
  <2>1. waitList' = waitList \/ waitList' = p.list
    BY <1>3, <1>5
  <2>2. CASE waitList' = waitList
    BY <2>2 DEF QInv, KeepOrder
  <2>3. CASE waitList' = p.list
    BY <1>4, <2>3 DEF KeepOrder
  <2>. QED  BY <2>1, <2>2, <2>3
<1>7. ASSUME InGame' \subseteq A
      PROVE  Queues(n)
  <2>1. IsFiniteSet(InGame')
    BY <1>2, <1>7, FS_Subset
  <2>. QED
    BY <1>6, <1>7, <2>1 DEF Queues, QInv
<1>8. CASE Refuse(c, b)
  <2>1. body' = Made(c, b)
    BY <1>8 DEF Refuse
  <2>2. \A x \in Body : body'[x].at = "game" => body[x].at = "game"
    BY <1>1, <2>1, MadeEffect
  <2>. QED
    BY <1>7, <2>2 DEF InGame
<1>9. CASE waitList' = q.list /\ q.admitted /\ Enter(c, b)
  <2>. DEFINE placed == Placed(c, b, n)
  <2>1. /\ \A x \in Body : x # b => placed[x] = body[x]
        /\ placed[b].at = "game" /\ placed[b].name = n
    BY <1>1, MadeEffect
  <2>. DEFINE only == {b}
  <2>2. body' = placed \/ body' = Gone(placed, only)
    BY <1>9 DEF Enter, Remove, Placed
  <2>. HIDE DEF placed
  <2>3. CASE body' = Gone(placed, only)
    <3>1. \A x \in Body : body'[x].at = "game" => body[x].at = "game"
      <4>1. placed \in [Body -> PlayerObject]
        BY <1>1, MadeEffect DEF placed
      <4>2. \A x \in Body : body'[x].at = IF x \in only THEN "removed" ELSE placed[x].at
        <5>. HIDE DEF only
        <5>1. \A x \in Body : Gone(placed, only)[x].at = IF x \in only THEN "removed" ELSE placed[x].at
          <6>1. \A bo \in [Body -> PlayerObject] : \A B : \A x \in Body :
                    Gone(bo, B)[x].at = IF x \in B THEN "removed" ELSE bo[x].at
            <7>1. "removed" \in Places /\ "" \in Name
              BY DEF Places, Name
            <7>. QED  BY <7>1, Records DEF Gone
          <6>. QED  BY <4>1, <6>1
        <5>. QED  BY <2>3, <5>1
      <4>. QED
        BY <2>1, <4>2
    <3>. QED
      BY <1>7, <3>1 DEF InGame
  <2>4. CASE body' = placed
    <3>1. InGame' = A \cup {b} /\ b \notin A
      BY <1>3, <2>1, <2>4 DEF InGame
    <3>. HIDE DEF A
    <3>2. IsFiniteSet(InGame') /\ Cardinality(InGame') = Cardinality(A) + 1
      BY <1>2, <3>1, FS_AddElement
    <3>3. \A x \in InGame' \ InGame : body'[x].name = n
      BY <2>1, <2>4, <3>1 DEF A
    <3>4. ~Skips(n) => LeavesRoom(n)
      <4>. SUFFICES ASSUME ~Skips(n)
                    PROVE  LeavesRoom(n)
        OBVIOUS
      <4>1. waitList' = p.list /\ p.admitted
        BY <1>5, <1>9
      <4>2. \A y : IsBefore(waitList, y, n) /\ Slots(p.list, y) # {} =>
                (Cardinality(A) + 1) + Slot(p.list, y) <= MaxPlayers
        BY <1>4, <4>1
      <4>. QED
        BY <3>2, <4>1, <4>2 DEF LeavesRoom
    <3>5. QInv'
      BY <1>6, <3>2 DEF QInv
    <3>. QED
      BY <1>6, <3>3, <3>4, <3>5 DEF Queues
  <2>. QED
    BY <2>2, <2>3, <2>4
<1>. QED
  BY <1>3, <1>8, <1>9

\* Every other step leaves the list alone, and lets nobody into the game.
LEMMA OthersQueue ==
    ASSUME QInv, UNCHANGED waitList, \A b \in Body : body'[b].at = "game" => body[b].at = "game"
    PROVE  \A n : Queues(n)
<1>1. InGame' \subseteq InGame
  BY DEF InGame
<1>2. QInv'
  <2>1. IsFiniteSet(InGame')
    BY <1>1, FS_Subset DEF QInv
  <2>. QED  BY <2>1 DEF QInv
<1>. QED
  BY <1>1, <1>2 DEF Queues, KeepOrder

LEMMA StepQueues ==
    ASSUME TypeOK, StagesAgree, QInv, [Next]_vars
    PROVE  \E n \in Name : Queues(n)
<1>1. "" \in Name
  BY DEF Name
<1>2. CASE \E c \in Client : LoginNew(c)
  <2>1. PICK c \in Client : LoginNew(c)
    BY <1>2
  <2>2. client[c].name \in Name
    BY Records DEF TypeOK
  <2>. QED
    BY <2>1, <2>2, LoginNewQueues
<1>3. CASE ~\E c \in Client : LoginNew(c)
  <2>1. waitList' = waitList
    BY <1>3 DEF Next, vars, Arrive, BeginPacket, EndPacket, Drop, LoginAgain, TakeOver, ConnectEvent,
                LogoutTask, ReleaseProtocol, Kick, Die, SetGameState, Cleanup
  <2>. DEFINE Same == \A b \in Body : body'[b].at = "game" => body[b].at = "game"
  <2>2. ASSUME NEW c \in Client, NEW n \in cast.names, Arrive(c, n)
        PROVE  Same
    BY <2>2 DEF Arrive
  <2>3. ASSUME NEW c \in Client, BeginPacket(c) \/ EndPacket(c) \/ Drop(c)
        PROVE  Same
    BY <2>3 DEF BeginPacket, EndPacket, Drop
  <2>4. ASSUME NEW c \in Client, LoginAgain(c)
        PROVE  Same
    BY <2>4, LoginAgainEffect DEF Attaches
  <2>5. ASSUME NEW c \in Client, TakeOver(c)
        PROVE  Same
    <3>1. Departs({}) \/ \E b \in Body : Awaits(c, b)
      BY <2>5, TakeOverEffect
    <3>. QED
      BY <3>1 DEF Departs, Awaits
  <2>6. ASSUME NEW c \in Client, ConnectEvent(c)
        PROVE  Same
    <3>1. CASE Finds(client[c].seeks)
      BY <2>6, <3>1, ConnectEventEffect DEF Attaches
    <3>2. CASE ~Finds(client[c].seeks)
      BY <2>6, <3>2 DEF ConnectEvent, Connect
    <3>. QED  BY <3>1, <3>2
  <2>7. ASSUME NEW c \in Client, LogoutTask(c)
        PROVE  Same
    <3>1. PICK G \in SUBSET InGame : Departs(G)
      BY <2>7, LogoutTaskEffect
    <3>. QED  BY <3>1 DEF Departs
  <2>8. ASSUME NEW c \in Client, ReleaseProtocol(c)
        PROVE  Same
    BY <2>8, ReleaseEffect DEF Frees
  <2>9. ASSUME NEW b \in Body, Kick(b) \/ Die(b)
        PROVE  Same
    <3>1. PICK G \in SUBSET InGame : Departs(G)
      BY <2>9, KickEffect
    <3>. QED  BY <3>1 DEF Departs
  <2>10. ASSUME NEW s, SetGameState(s)
         PROVE  Same
    <3>1. PICK G \in SUBSET InGame : Departs(G)
      BY <2>10, SetGameStateEffect
    <3>. QED  BY <3>1 DEF Departs
  <2>11. ASSUME Cleanup
         PROVE  Same
    <3>1. NoPlayer.at = "none"
      BY DEF NoPlayer
    <3>2. \A b \in Body : body'[b] = NoPlayer \/ body'[b].at = body[b].at
      BY <2>11, CleanupEffect
    <3>. QED  BY <3>1, <3>2
  <2>12. ASSUME UNCHANGED vars
         PROVE  Same
    BY <2>12 DEF vars
  <2>13. Same
    <3>. HIDE DEF Same
    <3>. QED
      BY <1>3, <2>2, <2>3, <2>4, <2>5, <2>6, <2>7, <2>8, <2>9, <2>10, <2>11, <2>12 DEF Next
  <2>. QED
    BY <1>1, <2>1, <2>13, OthersQueue
<1>. QED
  BY <1>2, <1>3

\* Those who wait keep their order, whoever else tries to log in
\* (WaitingList::login, cleanup): only a premium character is put before those
\* who are not, and one who is let in leaves room for all who were before him.
THEOREM NobodyIsOvertaken == Spec => WaitInOrder
<1>1. Init => QInv
  <2>. SUFFICES ASSUME Init
                PROVE  QInv
    OBVIOUS
  <2>1. InGame = {}
    BY DEF Init, InGame, NoPlayer
  <2>2. waitList = <<>> /\ Len(waitList) = 0 /\ waitList \in Seq(Waiter)
    BY DEF Init
  <2>. QED
    BY <2>1, <2>2, FS_EmptySet DEF QInv, Lined
<1>2. IInv /\ QInv /\ [Next]_vars => QInv'
  BY StepQueues DEF IInv, Queues
<1>3. IInv /\ QInv /\ [Next]_vars =>
        [/\ \E n \in Name : \A x, y \in cast.names :
             IsBefore(waitList', x, y) => \/ IsBefore(waitList, x, y)
                                         \/ y = n
                                         \/ (x = n /\ x \in Premium /\ y \notin Premium)
         /\ \A b \in InGame' \ InGame :
             LET n == body'[b].name
             IN  ~Skips(n) =>
                   \A y \in cast.names :
                       IsBefore(waitList, y, n) /\ Slots(waitList', y) # {}
                           => Cardinality(InGame') + Slot(waitList', y) <= MaxPlayers]_vars
  <2>. SUFFICES ASSUME IInv, QInv, [Next]_vars
                PROVE  /\ \E n \in Name : \A x, y \in cast.names :
                             IsBefore(waitList', x, y) =>
                                 \/ IsBefore(waitList, x, y)
                                 \/ y = n
                                 \/ (x = n /\ x \in Premium /\ y \notin Premium)
                       /\ \A b \in InGame' \ InGame :
                             LET n == body'[b].name
                             IN  ~Skips(n) =>
                                   \A y \in cast.names :
                                       IsBefore(waitList, y, n) /\ Slots(waitList', y) # {}
                                           => Cardinality(InGame') + Slot(waitList', y) <= MaxPlayers
    OBVIOUS
  <2>1. PICK n \in Name : Queues(n)
    BY StepQueues DEF IInv
  <2>. QED
    BY <2>1 DEF Queues, KeepOrder, LeavesRoom
<1>. QED
  BY <1>1, <1>2, <1>3, Invariance, PTL DEF Spec, WaitInOrder
=============================================================================
