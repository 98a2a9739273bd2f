----------------------------- MODULE Connection -----------------------------
(***************************************************************************)
(* One client's Connection (connection.cpp): its state, its socket, the    *)
(* asynchronous operations on it and the handlers of their completion,     *)
(* which the service thread runs in the order they were queued.  Handlers  *)
(* run under m_connectionLock, and so does every other step below; the one *)
(* that also wants the pool's lock is in two steps (ClientSession).        *)
(***************************************************************************)
EXTENDS OutputPool

VARIABLES
    connState,     \* m_connectionState: "open", "requestClose", "closing",
                   \* "closed"; "new" before the socket is accepted
    socket,        \* m_socket: "open", "closed", "deleted"
    pendingRead,   \* m_pendingRead
    pendingWrite,  \* m_pendingWrite
    errors,        \* m_readError and m_writeError: those of "read", "write" set
    ops,           \* the operations in progress, of "header", "body", "write"
    timers,        \* the timers that run, of "read", "write"
    handlers       \* the service's queue: <<operation, without error>>

connVars == <<connState, socket, pendingRead, pendingWrite, errors, ops, timers,
              handlers>>

\* Mutant: close() that does not look at the state.
ClosesAlways == connState # "closed"

(* Connection::close: the state and the dispatcher's list after it. *)
Closes == connState \notin {"closed", "requestClose"}
AfterClose == IF Closes THEN "requestClose" ELSE connState
WithClose(list) == IF Closes THEN Append(list, "closeConnection") ELSE list

\* Closing a socket ends its operations with an error, reads before writes.
Aborting(op) == IF op \in ops THEN << <<op, FALSE>> >> ELSE <<>>
Aborted == Aborting("header") \o Aborting("body") \o Aborting("write")

\* Mutant: closeSocket that leaves the counts of pending operations.
CloseSocketOnly(q, more) ==
    /\ handlers' = q \o Aborted \o more
    /\ socket' = IF socket = "open" THEN "closed" ELSE socket
    /\ ops' = {}
    /\ UNCHANGED <<pendingRead, pendingWrite>>

\* closeSocket, with the service's queue at q before it and more added after.
CloseSocket(q, more) ==
    /\ handlers' = q \o Aborted \o more
    /\ IF socket = "open"
       THEN /\ socket' = "closed"
            /\ pendingRead' = 0 /\ pendingWrite' = 0
            /\ ops' = {}
       ELSE UNCHANGED <<socket, pendingRead, pendingWrite, ops>>

\* Mutant: send that does not wait for the write in progress.
SendResultNoWait ==
    IF connState # "open" \/ "write" \in errors THEN "released" ELSE "writing"

\* What Connection::send does with a message: written at once, queued behind
\* the write in progress, or dropped.
SendResult ==
    IF connState # "open" \/ "write" \in errors THEN "released"
    ELSE IF pendingWrite = 0 THEN "writing" ELSE "add"

\* The messages and the list after it.  onSendMessage is called by send, or
\* by its caller when it returns false.  (The branch m_pendingWrite > 100 of
\* send is never taken: see OneWrite.)
SendMsg(m) ==
    /\ msgState' = [msgState EXCEPT ![m] = SendResult]
    /\ IF SendResult = "add" THEN UNCHANGED <<encoded, outBuf>> ELSE Encode(m)
    /\ fresh' = IF SendResult = "add" /\ m \notin Waiting THEN fresh \cup {m} ELSE fresh \ {m}

SendList(m, list) == IF SendResult = "released" THEN <<m>> \o list ELSE list

\* internalSend.
SendOps == IF SendResult = "writing" THEN {"write"} ELSE {}

\* Mutant: internalSend that does not count the write.
SentWriteUncounted == UNCHANGED pendingWrite

SentWrite == pendingWrite' = IF SendResult = "writing" THEN pendingWrite + 1
                                                      ELSE pendingWrite

Written == {m \in Msg : msgState[m] = "written"}

\* The service thread is about to run h.
Handler(h) == handlers # <<>> /\ Head(handlers) = h /\ Written = {}

\* Starting the next read and its timer.
ReadNext(op) ==
    /\ ops' = ops \cup {op}
    /\ timers' = timers \cup {"read"}

\* Mutant: a failed read that does not close the connection.
ReadFailsQuietly(op, ok) ==
    /\ Handler(<<op, ok>>)
    /\ ~ok
    /\ errors' = errors \cup {"read"}
    /\ timers' = timers \ {"read"}
    /\ handlers' = Tail(handlers)
    /\ UNCHANGED <<poolVars, tasks, connState, socket, pendingRead, pendingWrite, ops>>

\* parseHeader and parsePacket when they do not go on: the peer is gone, the
\* size is wrong, or the connection is no longer open.
ReadFails(op, ok) ==
    /\ Handler(<<op, ok>>)
    /\ \E bad \in BOOLEAN :
          /\ bad <=> ~ok \/ (op = "header" /\ bad)
          /\ bad \/ connState # "open" \/ "read" \in errors
          /\ errors' = IF bad THEN errors \cup {"read"} ELSE errors
    /\ connState' = AfterClose
    /\ tasks' = WithClose(tasks)
    /\ timers' = timers \ {"read"}
    /\ handlers' = Tail(handlers)
    /\ UNCHANGED <<poolVars, socket, pendingRead, pendingWrite, ops>>

Readable(op) == Handler(<<op, TRUE>>) /\ connState = "open" /\ "read" \notin errors

\* parseHeader with a good size: on to the body.
ParseHeader ==
    /\ Readable("header")
    /\ ReadNext("body")
    /\ handlers' = Tail(handlers)
    /\ UNCHANGED <<poolVars, tasks, connState, socket, pendingRead, pendingWrite, errors>>

\* Mutant: onWrite that forgets that a close was waiting for it.
WriteIsLastOnError == "write" \in errors'

\* The write that has ended is the connection's last.
WriteIsLast == connState # "open" \/ "write" \in errors'

\* onWrite: an error, or a close asked meanwhile, ends the connection.  The
\* handler lets go of the message when it has returned (LetGo).
OnWrite(m, ok) ==
    /\ Handler(<<"write", ok>>)
    /\ m \in Writing
    /\ msgState' = [msgState EXCEPT ![m] = "written"]
    /\ errors' = IF ok THEN errors ELSE errors \cup {"write"}
    /\ timers' = timers \ {"write"}
    /\ IF WriteIsLast
       THEN /\ CloseSocket(Tail(handlers), <<>>)
            /\ connState' = AfterClose
            /\ tasks' = WithClose(tasks)
       ELSE /\ pendingWrite' = pendingWrite - 1
            /\ handlers' = Tail(handlers)
            /\ UNCHANGED <<tasks, connState, socket, pendingRead, ops>>
    /\ UNCHANGED <<encoded, outBuf, fresh, connRefs, protoRefs>>

LetGo(m) ==
    /\ m \in Written
    /\ msgState' = [msgState EXCEPT ![m] = "released"]
    /\ tasks' = ReleasedFirst(m)
    /\ UNCHANGED <<encoded, outBuf, fresh, connRefs, protoRefs, connVars>>

\* Whether anything still holds a shared_ptr to the connection after onStop;
\* if nothing does, the timer's weak_ptr has expired.
Held == Allocated # {} \/ ops # {} \/
        \E i \in 1 .. Len(handlers) : handlers[i][1] \in {"header", "body", "write"}

Waits(k) == IF k = "read" THEN pendingRead > 0 ELSE pendingWrite > 0
TimeOut(k) == IF k = "read" THEN <<"readTimeout", TRUE>> ELSE <<"writeTimeout", TRUE>>

\* onReadTimeout and onWriteTimeout.
OnTimeOut(k) ==
    /\ Handler(TimeOut(k))
    /\ IF (Waits(k) \/ k \in errors) /\ (socket # "deleted" \/ Held)
       THEN /\ CloseSocket(Tail(handlers), <<>>)
            /\ connState' = AfterClose
            /\ tasks' = WithClose(tasks)
       ELSE /\ handlers' = Tail(handlers)
            /\ UNCHANGED <<connState, tasks, socket, pendingRead, pendingWrite, ops>>
    /\ UNCHANGED <<poolVars, errors, timers>>

\* onStop: the socket object is deleted, the manager forgets the connection.
OnStop ==
    /\ Handler(<<"onStop", TRUE>>)
    /\ timers' = {}
    /\ socket' = "deleted"
    /\ ops' = {}
    /\ handlers' = Tail(handlers) \o Aborted
    /\ UNCHANGED <<poolVars, tasks, connState, pendingRead, pendingWrite, errors>>

(* What the network and the clock do. *)

\* An operation on an open socket completes; an error only when the peer has
\* reset or closed.
Completes(op, ok) ==
    /\ op \in ops /\ socket = "open"
    /\ ops' = ops \ {op}
    /\ handlers' = Append(handlers, <<op, ok>>)
    /\ UNCHANGED <<poolVars, tasks, connState, socket, pendingRead, pendingWrite,
                   errors, timers>>

Expires(k) ==
    /\ k \in timers
    /\ timers' = timers \ {k}
    /\ handlers' = Append(handlers, TimeOut(k))
    /\ UNCHANGED <<poolVars, tasks, connState, socket, pendingRead, pendingWrite,
                   errors, ops>>

ConnInit ==
    /\ connState = "new" /\ socket = "open"
    /\ pendingRead = 0 /\ pendingWrite = 0
    /\ errors = {} /\ ops = {} /\ timers = {}
    /\ handlers = <<>>

ConnTypeOK ==
    /\ connState \in {"new", "open", "requestClose", "closing", "closed"}
    /\ socket \in {"open", "closed", "deleted"}
    /\ pendingRead \in 0 .. 1 /\ pendingWrite \in Nat
    /\ errors \in SUBSET {"read", "write"}
    /\ ops \in SUBSET {"header", "body", "write"}
    /\ timers \in SUBSET {"read", "write"}
    /\ handlers \in Seq({"header", "body", "write", "readTimeout", "writeTimeout",
                         "onStop"} \X BOOLEAN)
=============================================================================
