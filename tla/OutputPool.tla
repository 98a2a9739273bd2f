----------------------------- MODULE OutputPool -----------------------------
(***************************************************************************)
(* The output messages of one connection (outputmessage.cpp) and the       *)
(* buffer its protocol collects output in (protocol.cpp).  A message is a  *)
(* reference counted object of the pool; while it is allocated it counts   *)
(* once in the connection's m_refCount and once in the protocol's.  When   *)
(* the last reference to it goes, its release is posted to the front of    *)
(* the dispatcher's list, where the counts are given back.                 *)
(*                                                                         *)
(* msgState[m]:                                                            *)
(*   free      in m_outputMessages     auto   in m_autoSend                *)
(*   add       in m_addQueue           writing  held by an async_write     *)
(*   written   held by the handler of its async_write, which has run       *)
(*   released  its release is in the dispatcher's list                     *)
(***************************************************************************)
EXTENDS Integers, Sequences, FiniteSets

CONSTANTS
    Msg,      \* bound: the messages this connection may hold at once
    NoMsg     \* the null pointer

\* The other tasks that concern a connection.
Calls == {"login", "connect", "closeConnection", "releaseConnection", "releaseProtocol"}

ASSUME MsgAssumption == NoMsg \notin Msg /\ IsFiniteSet(Msg) /\ Msg \cap Calls = {}

VARIABLES
    msgState,
    encoded,    \* the messages Protocol::onSendMessage has encoded
    outBuf,     \* Protocol::m_outputBuffer
    fresh,      \* of those that wait, the ones allocated no more than 10 ms ago
    connRefs,   \* Connection::m_refCount
    protoRefs,  \* Protocol::m_refCount
    tasks       \* the tasks in the dispatcher's list that concern this
                \* connection; a message stands for its release

poolVars == <<msgState, encoded, outBuf, fresh, connRefs, protoRefs>>

Allocated == {m \in Msg : msgState[m] # "free"}
Waiting == {m \in Msg : msgState[m] \in {"auto", "add"}}
Writing == {m \in Msg : msgState[m] = "writing"}

\* What is left of the counts after an increment that raced with a decrement
\* is in the inc arguments; 1 when there was no race.
AddRefs(connInc, protoInc) ==
    /\ connRefs' = connRefs + connInc
    /\ protoRefs' = protoRefs + protoInc

\* Mutant: the buffer is kept when its message is encoded.
EncodeKeepsBuffer(m) == encoded' = encoded \cup {m} /\ outBuf' = outBuf

\* Protocol::onSendMessage: length, encryption and checksum are written into
\* the message, and the protocol starts another buffer.
Encode(m) ==
    /\ encoded' = encoded \cup {m}
    /\ outBuf' = IF outBuf = m THEN NoMsg ELSE outBuf

\* Protocol::getOutputBuffer without a current buffer.
NewBuffer(m) ==
    /\ msgState[m] = "free" /\ outBuf = NoMsg
    /\ msgState' = [msgState EXCEPT ![m] = "auto"]
    /\ outBuf' = m
    /\ fresh' = fresh \cup {m}
    /\ AddRefs(1, 1)
    /\ UNCHANGED encoded

\* releaseMessage posts to the front of the dispatcher's list.
ReleasedFirst(m) == <<m>> \o tasks

\* Mutant: internalReleaseMessage that forgets the connection's count.
ReleaseProtocolOnly(m) ==
    /\ msgState' = [msgState EXCEPT ![m] = "free"]
    /\ encoded' = encoded \ {m}
    /\ protoRefs' = protoRefs - 1
    /\ UNCHANGED <<outBuf, fresh, connRefs>>

\* internalReleaseMessage, by the dispatcher thread.
Release(m) ==
    /\ msgState' = [msgState EXCEPT ![m] = "free"]
    /\ encoded' = encoded \ {m}
    /\ connRefs' = connRefs - 1
    /\ protoRefs' = protoRefs - 1
    /\ UNCHANGED <<outBuf, fresh>>

PoolInit ==
    /\ msgState = [m \in Msg |-> "free"]
    /\ encoded = {} /\ outBuf = NoMsg /\ fresh = {}
    /\ connRefs = 0 /\ protoRefs = 0
    /\ tasks = <<>>

PoolTypeOK ==
    /\ msgState \in [Msg -> {"free", "auto", "add", "writing", "written",
                           "released"}]
    /\ encoded \in SUBSET Msg /\ fresh \in SUBSET Msg
    /\ outBuf \in Msg \cup {NoMsg}
    /\ connRefs \in Int /\ protoRefs \in Int
    /\ tasks \in Seq(Msg \cup Calls)
=============================================================================
