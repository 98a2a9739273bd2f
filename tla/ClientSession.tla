---------------------------- MODULE ClientSession ----------------------------
(***************************************************************************)
(* A client's session: the connection and its protocol, used by the        *)
(* service thread, which reads, answers and writes, and by the dispatcher  *)
(* thread, which logs the player in, sends the game's output, closes the   *)
(* connection and frees its parts when nothing refers to them any more     *)
(* (protocol.cpp, protocolgame.cpp, outputmessage.cpp, server.cpp).        *)
(*                                                                         *)
(* Two kinds of protocol: the game's, which exists from the first and      *)
(* speaks first, and the others (login, status, admin), made from the      *)
(* first packet, which answer on the service thread.                       *)
(*                                                                         *)
(* The service thread holds m_connectionLock in "reply", about to ask the  *)
(* pool for a message; the dispatcher thread holds m_outputPoolLock in     *)
(* "sendAll", about to send a message.                                     *)
(***************************************************************************)
EXTENDS Connection

CONSTANTS
    LostUpdates   \* what a race on a count may lose: 0 an increment, 2 a decrement

ASSUME LostUpdatesAssumption == LostUpdates \subseteq {0, 2}

VARIABLES
    kind,       \* "game" or "other"
    proto,      \* the Protocol object: "none", "alive", "deleted"
    attached,   \* Connection::m_protocol and Protocol::m_connection are set
    first,      \* Connection::m_receivedFirst
    player,     \* "in": a player's client is this protocol
    due,        \* events added to the scheduler
    spc,        \* the service thread: "idle", "reply"
    dpc,        \* the dispatcher thread: "idle", between two tasks; "frame",
                \* after a task; "drop" and "sendAll", inside sendAll
    batch,      \* what is left to send of this sendAll
    raced       \* history: two threads changed a count at once

sessionVars == <<kind, proto, attached, first, player, due, spc, dpc, batch, raced>>
vars == <<poolVars, tasks, connVars, sessionVars>>

ConnLockFree == spc # "reply"
PoolLockFree == dpc \notin {"drop", "sendAll"}

\* Bound: the dispatcher thread leaves a message for the reply under way.
Spare == Cardinality(Msg \ Allocated) > IF spc = "reply" THEN 1 ELSE 0

-----------------------------------------------------------------------------
(* The service thread. *)

\* ServicePort::handle.  The game protocol greets (onConnect) before the
\* first read is started.
Accept ==
    /\ connState = "new"
    /\ connState' = "open"
    /\ kind' \in {"game", "other"}
    /\ IF kind' = "game"
       THEN \E m \in Msg :
              /\ msgState' = [msgState EXCEPT ![m] = "writing"]
              /\ encoded' = {m}
              /\ AddRefs(1, 1)
              /\ proto' = "alive" /\ attached' = "yes"
              /\ pendingWrite' = 1
              /\ ops' = {"write", "header"} /\ timers' = {"write", "read"}
       ELSE /\ ops' = {"header"} /\ timers' = {"read"}
            /\ UNCHANGED <<msgState, encoded, connRefs, protoRefs, proto, attached,
                           pendingWrite>>
    /\ pendingRead' = 1
    /\ UNCHANGED <<outBuf, fresh, tasks, socket, errors, handlers, first, player, due,
                   spc, dpc, batch, raced>>

\* parsePacket up to the protocol: the first packet makes one where there is
\* none (a packet of no protocol closes the connection, and is the last read).
ParseUnknown ==
    /\ ConnLockFree /\ Readable("body")
    /\ proto = "none"
    /\ first' = "yes"
    /\ connState' = AfterClose /\ tasks' = WithClose(tasks)
    /\ pendingRead' = pendingRead - 1
    /\ timers' = timers \ {"read"}
    /\ handlers' = Tail(handlers)
    /\ UNCHANGED <<poolVars, socket, pendingWrite, errors, ops, kind, proto, attached,
                   player, due, spc, dpc, batch, raced>>

\* A packet that is not answered here: the game's first posts the login, the
\* others post what they ask of the game; or the protocol closes.
ParsePacket ==
    /\ ConnLockFree /\ Readable("body")
    /\ first' = "yes"
    /\ IF proto = "none" THEN proto' = "alive" /\ attached' = "yes"
                         ELSE UNCHANGED <<proto, attached>>
    /\ \/ /\ IF kind = "game" /\ first = "no" THEN tasks' = Append(tasks, "login")
                                              ELSE UNCHANGED tasks
          /\ UNCHANGED connState
       \/ connState' = AfterClose /\ tasks' = WithClose(tasks)
    /\ ReadNext("header")
    /\ handlers' = Tail(handlers)
    /\ UNCHANGED <<poolVars, socket, pendingRead, pendingWrite, errors, kind, player,
                   due, spc, dpc, batch, raced>>

\* A packet that is: parsePacket, with the connection locked, comes to
\* getOutputMessage.
ParseForReply ==
    /\ spc = "idle" /\ Readable("body") /\ Spare
    /\ kind = "other" \/ first = "no"
    /\ first' = "yes"
    /\ proto' = "alive" /\ attached' = "yes"
    /\ spc' = "reply"
    /\ handlers' = Tail(handlers)
    /\ timers' = timers \ {"read"}
    /\ UNCHANGED <<poolVars, tasks, connState, socket, pendingRead, pendingWrite,
                   errors, ops, kind, player, due, dpc, batch, raced>>

\* The dispatcher thread may be inside internalReleaseMessage.  It takes no
\* lock there: of the increment here and its decrement, one may be lost.  An
\* increment that is lost counts 0 here, one that undoes a decrement, 2.
\* (Bound: once.)
Overlap == ~raced /\ dpc = "idle" /\ tasks # <<>> /\ Head(tasks) \in Msg
Increments == {1} \cup IF Overlap THEN LostUpdates ELSE {}

\* The reply is sent; a game protocol that answers the first packet refuses
\* it and closes, the others close or go on.
Reply ==
    /\ spc = "reply" /\ PoolLockFree
    /\ \E m \in Msg \ Allocated, ci, pi \in Increments :
          /\ SendMsg(m)
          /\ AddRefs(ci, pi)
          /\ raced' = (raced \/ ci # 1 \/ pi # 1)
          /\ \/ /\ connState' = AfterClose /\ tasks' = WithClose(SendList(m, tasks))
             \/ /\ kind = "other"
                /\ tasks' = SendList(m, tasks)
                /\ UNCHANGED connState
    /\ SentWrite
    /\ ops' = ops \cup {"header"} \cup SendOps
    /\ timers' = timers \cup {"read"} \cup SendOps
    /\ spc' = "idle"
    /\ UNCHANGED <<socket, pendingRead, errors, handlers, kind, proto, attached, first,
                   player, due, dpc, batch>>

\* The handlers of Connection, between two of which the service thread holds
\* no lock.
ServiceHandler ==
    /\ spc = "idle"
    /\ \/ \E op \in {"header", "body"}, ok \in BOOLEAN : ReadFails(op, ok)
       \/ ParseHeader
       \/ \E m \in Msg, ok \in BOOLEAN : OnWrite(m, ok)
       \/ \E m \in Msg : LetGo(m)
       \/ \E k \in {"read", "write"} : OnTimeOut(k)
       \/ OnStop
    /\ UNCHANGED sessionVars

ServiceThread == ServiceHandler \/ ParseUnknown \/ ParsePacket \/ ParseForReply \/ Reply

-----------------------------------------------------------------------------
(* The dispatcher thread.  After each task it sends what the pool holds. *)

\* After a task the thread calls sendAll, which does nothing while no message
\* waits.
Framed == dpc' = IF \E m \in Msg : msgState'[m] \in {"auto", "add"} THEN "frame"
                                                               ELSE "idle"

Starts(t) == dpc = "idle" /\ tasks # <<>> /\ Head(tasks) = t

RunRelease(m) ==
    /\ Starts(m)
    /\ Release(m)
    /\ tasks' = Tail(tasks)
    /\ UNCHANGED <<connVars, kind, proto, attached, first, player, due, spc, batch, raced>>

\* disconnectClient: a message, when the protocol has a connection, and close.
\* The list is the dispatcher's, refs what else the protocol's count changes by.
DisconnectClient(list, refs) ==
    /\ IF attached = "yes"
       THEN /\ ConnLockFree
            /\ \E m \in Msg \ Allocated :
                  /\ Spare
                  /\ SendMsg(m)
                  /\ tasks' = WithClose(SendList(m, list))
            /\ AddRefs(1, 1 + refs)
            /\ connState' = AfterClose
            /\ SentWrite
            /\ ops' = ops \cup SendOps /\ timers' = timers \cup SendOps
       ELSE /\ tasks' = list
            /\ protoRefs' = protoRefs + refs
            /\ UNCHANGED <<msgState, encoded, outBuf, fresh, connRefs, connState,
                           pendingWrite, ops, timers>>
    /\ UNCHANGED <<socket, pendingRead, errors, handlers, player, due>>

\* The player is placed in the game, or already there and taken over.
TakePlayer(list, refs) ==
    /\ player' = "in"
    /\ tasks' = list
    /\ protoRefs' = protoRefs + refs
    /\ UNCHANGED <<msgState, encoded, outBuf, fresh, connRefs, connVars, due>>

\* Mutant: login that does not keep the protocol for its connect event.
RunLoginNoRef ==
    /\ Starts("login")
    /\ due' = due \cup {"connect"}
    /\ tasks' = Tail(tasks)
    /\ UNCHANGED <<poolVars, connVars, player, kind, proto, attached, first, spc,
                   batch, raced>>

\* ProtocolGame::login: refused, let in, or, when the player is in the game
\* under another client that is kicked, put off for a second.
RunLogin ==
    /\ Starts("login")
    /\ \/ DisconnectClient(Tail(tasks), 0)
       \/ TakePlayer(Tail(tasks), 0)
       \/ /\ protoRefs' = protoRefs + 1
          /\ due' = due \cup {"connect"}
          /\ tasks' = Tail(tasks)
          /\ UNCHANGED <<msgState, encoded, outBuf, fresh, connRefs, connVars, player>>
    /\ UNCHANGED <<kind, proto, attached, first, spc, batch, raced>>

\* ProtocolGame::connect, a second later.
RunConnect ==
    /\ Starts("connect")
    /\ \/ DisconnectClient(Tail(tasks), -1)
       \/ TakePlayer(Tail(tasks), -1)
    /\ UNCHANGED <<kind, proto, attached, first, spc, batch, raced>>

\* releaseConnection and releaseProtocol try again later while they are
\* referred to.
ConnEvents == IF connRefs # 0 THEN {"releaseConnection"} ELSE {}
StopHandler == IF connRefs # 0 THEN <<>> ELSE << <<"onStop", TRUE>> >>

ProtoEvents == IF protoRefs # 0 THEN {"releaseProtocol"} ELSE {}

\* Mutant: releaseProtocol that does not wait for the count.
AfterReleaseAtOnce == "deleted"

AfterRelease == IF protoRefs # 0 THEN proto ELSE "deleted"

\* Connection::closeConnection: the protocol is let go, the player loses its
\* client; the socket is closed now, or by the end of the write in progress.
RunClose ==
    /\ Starts("closeConnection") /\ ConnLockFree
    /\ tasks' = Tail(tasks)
    /\ IF connState # "requestClose"
       THEN UNCHANGED <<connVars, proto, attached, player, due>>
       ELSE LET now == pendingWrite = 0 \/ "write" \in errors
                detach == attached = "yes"
            IN  /\ attached' = "no" /\ player' = "out"
                /\ proto' = IF detach THEN AfterRelease ELSE proto
                /\ due' = due \cup (IF detach THEN ProtoEvents ELSE {})
                              \cup (IF now THEN ConnEvents ELSE {})
                /\ IF now
                   THEN connState' = "closed" /\ CloseSocket(handlers, StopHandler)
                   ELSE /\ connState' = "closing"
                        /\ UNCHANGED <<socket, pendingRead, pendingWrite, ops, handlers>>
                /\ UNCHANGED <<errors, timers>>
    /\ UNCHANGED <<poolVars, kind, first, spc, batch, raced>>

RunReleaseConnection ==
    /\ Starts("releaseConnection")
    /\ tasks' = Tail(tasks)
    /\ due' = due \cup ConnEvents
    /\ handlers' = handlers \o StopHandler
    /\ UNCHANGED <<poolVars, connState, socket, pendingRead, pendingWrite, errors, ops,
                   timers, kind, proto, attached, first, player, spc, batch, raced>>

RunReleaseProtocol ==
    /\ Starts("releaseProtocol")
    /\ tasks' = Tail(tasks)
    /\ player' = "out"
    /\ due' = due \cup ProtoEvents
    /\ proto' = AfterRelease
    /\ UNCHANGED <<poolVars, connVars, kind, attached, first, spc, batch, raced>>

\* Any other task of the game: it may write to the player's buffer, or log the
\* player out (ProtocolGame::logout, disconnect).
GameTask ==
    /\ dpc = "idle"
    /\ \/ Waiting # {} /\ UNCHANGED <<poolVars, tasks, connState>>
       \/ /\ player = "in" /\ attached = "yes" /\ Spare
          /\ \E m \in Msg : NewBuffer(m)
          /\ UNCHANGED <<tasks, connState>>
       \/ /\ player = "in" /\ attached = "yes" /\ ConnLockFree
          /\ connState' = AfterClose /\ tasks' = WithClose(tasks)
          /\ UNCHANGED poolVars
    /\ Framed
    /\ UNCHANGED <<socket, pendingRead, pendingWrite, errors, ops, timers, handlers,
                   kind, proto, attached, first, player, due, spc, batch, raced>>

(* sendAll *)

LockPool ==
    /\ dpc = "frame" /\ dpc' = "drop"
    /\ UNCHANGED <<poolVars, tasks, connVars, kind, proto, attached, first, player, due,
                   spc, batch, raced>>

\* A message that has waited for more than 10 seconds is dropped.
DropOld(m) ==
    /\ dpc = "drop"
    /\ msgState[m] = "add" /\ m \notin fresh
    /\ Encode(m)
    /\ msgState' = [msgState EXCEPT ![m] = "released"]
    /\ tasks' = ReleasedFirst(m)
    /\ fresh' = fresh \ {m}
    /\ UNCHANGED <<connRefs, protoRefs, connVars, sessionVars>>

\* The queue joins m_autoSend, of which what is old enough, or big, is sent.
MoveQueue ==
    /\ dpc = "drop" /\ dpc' = "sendAll"
    /\ msgState' = [m \in Msg |-> IF msgState[m] = "add" THEN "auto" ELSE msgState[m]]
    /\ \E big \in SUBSET (Waiting \cap fresh) : batch' = (Waiting \ fresh) \cup big
    /\ UNCHANGED <<encoded, outBuf, fresh, connRefs, protoRefs, tasks, connVars, kind,
                   proto, attached, first, player, due, spc, raced>>

SendOne(m) ==
    /\ dpc = "sendAll" /\ m \in batch /\ ConnLockFree
    /\ SendMsg(m)
    /\ tasks' = SendList(m, tasks)
    /\ SentWrite
    /\ ops' = ops \cup SendOps /\ timers' = timers \cup SendOps
    /\ batch' = batch \ {m}
    /\ UNCHANGED <<connRefs, protoRefs, connState, socket, pendingRead, errors,
                   handlers, kind, proto, attached, first, player, due, spc, dpc, raced>>

EndSendAll ==
    /\ dpc = "sendAll" /\ batch = {}
    /\ dpc' = "idle"
    /\ UNCHANGED <<poolVars, tasks, connVars, kind, proto, attached, first, player, due,
                   spc, batch, raced>>

RunTask ==
    /\ \/ \E m \in Msg : RunRelease(m)
       \/ RunLogin \/ RunConnect \/ RunClose \/ RunReleaseConnection \/ RunReleaseProtocol
    /\ Framed

SendAll == LockPool \/ MoveQueue \/ EndSendAll \/ \E m \in Msg : DropOld(m) \/ SendOne(m)

-----------------------------------------------------------------------------
(* The clock, the network, the whole. *)

EventFires(e) ==
    /\ e \in due /\ due' = due \ {e}
    /\ tasks' = Append(tasks, e)
    /\ UNCHANGED <<poolVars, connVars, kind, proto, attached, first, player, spc, dpc,
                   batch, raced>>

TimePasses ==
    /\ fresh # {} /\ fresh' = {}
    /\ UNCHANGED <<msgState, encoded, outBuf, connRefs, protoRefs, tasks, connVars,
                   sessionVars>>

Network == \E op \in {"header", "body", "write"}, ok \in BOOLEAN :
               Completes(op, ok) /\ UNCHANGED sessionVars

TimerExpires(k) == Expires(k) /\ UNCHANGED sessionVars

\* One of the threads is about to use what has been deleted: the protocol, by
\* one of its tasks or by a message it sends; the socket, by a handler.
UsesDeleted ==
    \/ /\ proto = "deleted"
       /\ \/ batch # {}
          \/ /\ dpc = "idle" /\ tasks # <<>>
             /\ Head(tasks) \in Msg \cup {"login", "connect", "releaseProtocol"}
    \/ /\ socket = "deleted"
       /\ \/ \E ok \in BOOLEAN : Handler(<<"write", ok>>)
          \/ \E k \in {"read", "write"} :
                Handler(TimeOut(k)) /\ Held /\ (Waits(k) \/ k \in errors)
          \/ Handler(<<"onStop", TRUE>>)

\* Each thread holds the lock the other one wants.
Embrace == spc = "reply" /\ dpc = "sendAll" /\ batch # {}

Alive == ~UsesDeleted /\ ~Embrace

\* The connection is gone and nothing is left to do for it.
Gone == /\ socket = "deleted" /\ proto # "alive" /\ Allocated = {}
        /\ tasks = <<>> /\ due = {} /\ handlers = <<>>

Next ==
    \/ /\ Alive
       /\ \/ Accept \/ ServiceThread
          \/ RunTask \/ GameTask \/ SendAll
          \/ \E e \in {"connect", "releaseConnection", "releaseProtocol"} : EventFires(e)
          \/ TimePasses \/ Network
          \/ \E k \in {"read", "write"} : TimerExpires(k)
    \/ (~Alive \/ Gone) /\ UNCHANGED vars

Init ==
    /\ PoolInit /\ ConnInit
    /\ kind = "game" /\ proto = "none" /\ attached = "no" /\ first = "no"
    /\ player = "out" /\ due = {}
    /\ spc = "idle" /\ dpc = "idle" /\ batch = {} /\ raced = FALSE

Spec == Init /\ [][Next]_vars

\* Both threads run, timers and events come, the game always has a next task.
\* The dispatcher's list is first in, first out: tasks of the game are run
\* between two of the connection's, never for ever before one (the SF).  The
\* peer need not do anything.
Fairness ==
    /\ WF_vars(Alive /\ ServiceThread)
    /\ WF_vars(Alive /\ RunTask)
    /\ SF_vars(Alive /\ Starts("closeConnection") /\ RunTask)
    /\ WF_vars(Alive /\ GameTask)
    /\ WF_vars(Alive /\ SendAll)
    /\ WF_vars(Alive /\ TimePasses)
    /\ \A e \in {"connect", "releaseConnection", "releaseProtocol"} :
          WF_vars(Alive /\ EventFires(e))
    /\ \A k \in {"read", "write"} : WF_vars(Alive /\ TimerExpires(k))

FairSpec == Spec /\ Fairness

-----------------------------------------------------------------------------
(* Properties. *)

TypeOK ==
    /\ PoolTypeOK /\ ConnTypeOK
    /\ kind \in {"game", "other"}
    /\ proto \in {"none", "alive", "deleted"}
    /\ attached \in {"yes", "no"} /\ first \in {"yes", "no"} /\ player \in {"in", "out"}
    /\ due \in SUBSET {"connect", "releaseConnection", "releaseProtocol"}
    /\ spc \in {"idle", "reply"} /\ dpc \in {"idle", "frame", "drop", "sendAll"}
    /\ batch \in SUBSET Msg
    /\ raced \in BOOLEAN

\* How many of the list are in S.
HowMany(list, S) == Cardinality({i \in 1 .. Len(list) : list[i] \in S})

Queued(K) == HowMany(handlers, K \X BOOLEAN)
Posted(t) == HowMany(tasks, {t})
Pending(e) == Posted(e) + IF e \in due THEN 1 ELSE 0

\* Both counts are what they count: the messages allocated, and for the
\* protocol the connect event that keeps it, unless a lost update came first.
RefsAreExact ==
    ~raced => /\ connRefs = Cardinality(Allocated)
              /\ protoRefs = Cardinality(Allocated) + Pending("connect")

\* No thread uses the protocol or the socket after its deletion, unless a
\* lost update has falsified a count.
NoUseAfterDelete == UsesDeleted => raced

\* A close that was asked for is done once: one closeConnection is in the
\* list while it is asked for and none otherwise, whoever asked, in whatever
\* state; and so the parts of the connection are released once.
OneCloseTask ==
    /\ Posted("closeConnection") = IF connState = "requestClose" THEN 1 ELSE 0
    /\ Pending("releaseConnection") + Queued({"onStop"}) + (IF socket = "deleted" THEN 1 ELSE 0)
          = IF connState = "closed" THEN 1 ELSE 0

\* One write at a time, as async_write demands; and m_pendingWrite is the
\* number of writes in progress, which it counts no further than 1.
OneWrite ==
    /\ Cardinality(Writing) <= 1
    /\ socket = "open" => pendingWrite = Cardinality(Writing)

\* One read at a time into the connection's only buffer, m_msg; and an open
\* connection always reads or is about to.
OneRead ==
    LET reads == (IF "header" \in ops THEN 1 ELSE 0) + (IF "body" \in ops THEN 1 ELSE 0)
                 + Queued({"header", "body"}) + (IF spc = "reply" THEN 1 ELSE 0)
    IN  reads <= 1 /\ (connState = "open" => reads = 1 /\ pendingRead = 1)

\* One operation of a kind at a time, whoever starts it: a second read would
\* write over the first one's packet, a second write mix two messages.
OneOperation == OneWrite /\ OneRead

\* Output is never added to a message that has been encoded, nor a message
\* encoded twice: the protocol's buffer is one that still waits, and what
\* waits is not encoded.
BufferIsNotEncoded ==
    /\ outBuf # NoMsg => outBuf \in Waiting
    /\ Waiting \cap encoded = {}

Spoiled == ~Alive \/ raced

\* A close that was asked for ends: the socket and the protocol are deleted, and
\* every message is back in the pool.
ClosedIsFreed ==
    connState = "requestClose"
        ~> (socket = "deleted" /\ proto # "alive" /\ Allocated = {}) \/ Spoiled
=============================================================================
