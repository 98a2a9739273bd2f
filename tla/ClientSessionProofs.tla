-------------------------- MODULE ClientSessionProofs --------------------------
(***************************************************************************)
(* Theorems about a client's session, for any number of messages, any      *)
(* length of the two threads' lists, with or without lost updates.         *)
(*                                                                         *)
(* IInv is the inductive invariant.  JInv is the same in numbers: how many *)
(* tasks, handlers and messages there are of each kind.  After the lemmas  *)
(* about lists and about messages there is one lemma for each action,      *)
(* which says that it keeps JInv.                                          *)
(***************************************************************************)
EXTENDS ClientSession, FiniteSetTheorems, TLAPS

\* Nothing of a connection is there before it is accepted.
NewIsBlank ==
    connState = "new" =>
        /\ Allocated = {} /\ tasks = <<>> /\ handlers = <<>> /\ due = {}
        /\ ops = {} /\ timers = {} /\ pendingWrite = 0
        /\ proto = "none" /\ attached = "no" /\ first = "no" /\ spc = "idle"

\* Whether the socket is open follows from the state, but for a close that was
\* asked for; and a socket that is not open has nothing to do.
SocketAgrees ==
    /\ connState \in {"new", "open", "closing"} => socket = "open"
    /\ connState = "closed" => socket # "open"
    /\ socket # "open" => ops = {} /\ pendingWrite = 0

\* The protocol and the connection know each other until the close; then the
\* protocol waits for its release.
AttachedAgrees ==
    /\ spc = "reply" => connState = "open" /\ attached = "yes"
    /\ attached = "yes" => proto = "alive"
    /\ connState = "open" /\ proto # "none" => attached = "yes"
    /\ connState \in {"closing", "closed"} => attached = "no"
    /\ Pending("releaseProtocol") = IF attached = "no" /\ proto = "alive" THEN 1 ELSE 0

\* No a of A is before a b of B.
Behind(list, A, B) ==
    \A i, j \in 1 .. Len(list) : list[i] \in A /\ list[j] \in B => j < i

\* A login is posted once, by the first packet, and run before the close.
LoginsAreOnce ==
    /\ Posted("login") + Pending("connect") <= IF first = "yes" THEN 1 ELSE 0
    /\ Posted("login") > 0 => attached = "yes"
    /\ Behind(tasks, {"closeConnection"}, {"login"})

\* The release of a message is posted once, when nobody has it any more.
ReleasedArePosted ==
    \A m \in Msg : Posted(m) = IF msgState[m] = "released" THEN 1 ELSE 0

\* What is sent by sendAll waits; a message of the pool is not encoded.
BatchWaits ==
    /\ dpc = "sendAll" => \A m \in batch : msgState[m] = "auto"
    /\ dpc # "sendAll" => batch = {}
    /\ encoded \subseteq Allocated

\* A protocol is deleted when nobody refers to it.
DeletedIsFree ==
    ~raced /\ proto = "deleted" => Allocated = {} /\ Pending("connect") = 0

Transfers == {"header", "body", "write"}

\* So is the socket, and what it had to do is done before.
StoppedIsFree ==
    /\ ~raced /\ (Queued({"onStop"}) > 0 \/ socket = "deleted") => Allocated = {}
    /\ Behind(handlers, {"onStop"} \X BOOLEAN, Transfers \X BOOLEAN)
    /\ socket = "deleted" => Queued({"header", "body"}) = 0 /\ Queued({"write"}) = 0

\* A message that is being written has a write in progress, or a handler.
WritesAreCounted ==
    Cardinality(Writing) = (IF "write" \in ops THEN 1 ELSE 0) + Queued({"write"})

IInv ==
    /\ TypeOK
    /\ NewIsBlank /\ SocketAgrees /\ AttachedAgrees /\ LoginsAreOnce
    /\ ReleasedArePosted /\ BatchWaits /\ BufferIsNotEncoded
    /\ OneCloseTask /\ OneOperation /\ WritesAreCounted
    /\ RefsAreExact /\ DeletedIsFree /\ StoppedIsFree

-----------------------------------------------------------------------------
(* Counting in lists. *)

\* HowMany counts, and is 0 of a list that has none.
LEMMA HowManyIsNat ==
    ASSUME NEW X, NEW s \in Seq(X), NEW S
    PROVE  /\ HowMany(s, S) \in Nat
           /\ IsFiniteSet({i \in 1 .. Len(s) : s[i] \in S})
<1>1. Len(s) \in Nat
  OBVIOUS
<1>2. IsFiniteSet(1 .. Len(s))
  BY <1>1, FS_Interval
<1>3. IsFiniteSet({i \in 1 .. Len(s) : s[i] \in S})
  BY <1>2, FS_Subset
<1>. QED
  BY <1>3, FS_CardinalityType DEF HowMany

LEMMA HowManyIsPositive ==
    ASSUME NEW X, NEW s \in Seq(X), NEW S
    PROVE  HowMany(s, S) > 0 <=> \E i \in 1 .. Len(s) : s[i] \in S
<1>. DEFINE I == {i \in 1 .. Len(s) : s[i] \in S}
<1>1. IsFiniteSet(I) /\ HowMany(s, S) = Cardinality(I) /\ Cardinality(I) \in Nat
  BY HowManyIsNat, FS_CardinalityType DEF HowMany
<1>2. I = {} <=> Cardinality(I) = 0
  BY <1>1, FS_EmptySet
<1>3. I # {} <=> \E i \in 1 .. Len(s) : s[i] \in S
  OBVIOUS
<1>. HIDE DEF I
<1>. QED
  BY <1>1, <1>2, <1>3

\* Two sets one to one.
LEMMA SameNumber ==
    ASSUME NEW J, NEW K, IsFiniteSet(J), NEW f \in [J -> K],
           \A i, j \in J : f[i] = f[j] => i = j,
           \A k \in K : \E i \in J : f[i] = k
    PROVE  IsFiniteSet(K) /\ Cardinality(K) = Cardinality(J)
<1>1. f \in Bijection(J, K)
  BY DEF Bijection, Injection, Surjection, IsInjective
<1>. QED
  BY <1>1, FS_Bijection DEF ExistsBijection

\* Of two lists one after the other.
LEMMA HowManyTogether ==
    ASSUME NEW X, NEW s \in Seq(X), NEW t \in Seq(X), NEW S
    PROVE  HowMany(s \o t, S) = HowMany(s, S) + HowMany(t, S)
<1>. DEFINE I == {i \in 1 .. Len(s) : s[i] \in S}
            J == {i \in 1 .. Len(t) : t[i] \in S}
            K == {i \in Len(s) + 1 .. Len(s) + Len(t) : t[i - Len(s)] \in S}
            f == [i \in J |-> i + Len(s)]
<1>0. Len(s) \in Nat /\ Len(t) \in Nat
  OBVIOUS
<1>1. IsFiniteSet(I) /\ IsFiniteSet(J)
  BY HowManyIsNat
<1>2. /\ Len(s \o t) = Len(s) + Len(t)
      /\ \A i \in 1 .. Len(s) : (s \o t)[i] = s[i]
      /\ \A i \in Len(s) + 1 .. Len(s) + Len(t) : (s \o t)[i] = t[i - Len(s)]
  OBVIOUS
<1>3. {i \in 1 .. Len(s \o t) : (s \o t)[i] \in S} = I \cup K
  <2>1. 1 .. Len(s \o t) = (1 .. Len(s)) \cup (Len(s) + 1 .. Len(s) + Len(t))
    BY <1>0, <1>2
  <2>. QED
    BY <1>2, <2>1
<1>4. I \cap K = {}
  BY <1>0
<1>5. /\ f \in [J -> K]
      /\ \A i, j \in J : f[i] = f[j] => i = j
      /\ \A k \in K : \E i \in J : f[i] = k
  <2>1. \A i \in J : i + Len(s) \in K
    BY <1>0
  <2>2. \A k \in K : k - Len(s) \in J /\ (k - Len(s)) + Len(s) = k
    BY <1>0
  <2>3. \A i, j \in J : i + Len(s) = j + Len(s) => i = j
    BY <1>0
  <2>4. f \in [J -> K] /\ \A i \in J : f[i] = i + Len(s)
    BY <2>1
  <2>. QED
    BY <2>2, <2>3, <2>4
<1>6. IsFiniteSet(K) /\ Cardinality(K) = Cardinality(J)
  <2>. HIDE DEF f, J, K
  <2>. QED  BY <1>1, <1>5, SameNumber
<1>7. Cardinality(I \cup K) = Cardinality(I) + Cardinality(K)
  <2>. HIDE DEF I, K
  <2>1. Cardinality(I \cup K) = Cardinality(I) + Cardinality(K) - Cardinality(I \cap K)
    BY <1>1, <1>6, FS_Union
  <2>2. Cardinality(I) \in Nat /\ Cardinality(K) \in Nat
    BY <1>1, <1>6, FS_CardinalityType
  <2>3. Cardinality(I \cap K) = 0
    BY <1>4, FS_EmptySet
  <2>. QED  BY <2>1, <2>2, <2>3
<1>. QED
  BY <1>3, <1>6, <1>7 DEF HowMany

LEMMA HowManyOfNone ==
    ASSUME NEW S
    PROVE  HowMany(<<>>, S) = 0
<1>1. {i \in 1 .. Len(<<>>) : <<>>[i] \in S} = {}
  OBVIOUS
<1>. QED
  BY <1>1, FS_EmptySet DEF HowMany

LEMMA HowManyOfOne ==
    ASSUME NEW x, NEW S
    PROVE  /\ x \in S => HowMany(<<x>>, S) = 1
           /\ x \notin S => HowMany(<<x>>, S) = 0
<1>1. x \in S => {i \in 1 .. Len(<<x>>) : <<x>>[i] \in S} = {1}
  OBVIOUS
<1>2. x \notin S => {i \in 1 .. Len(<<x>>) : <<x>>[i] \in S} = {}
  OBVIOUS
<1>. QED
  BY <1>1, <1>2, FS_EmptySet, FS_Singleton DEF HowMany

\* One more at the end, one more at the head, the head gone.
LEMMA HowManyAfter ==
    ASSUME NEW X, NEW s \in Seq(X), NEW x \in X, NEW S
    PROVE  /\ x \in S => /\ HowMany(Append(s, x), S) = HowMany(s, S) + 1
                         /\ HowMany(<<x>> \o s, S) = HowMany(s, S) + 1
           /\ x \notin S => /\ HowMany(Append(s, x), S) = HowMany(s, S)
                            /\ HowMany(<<x>> \o s, S) = HowMany(s, S)
<1>1. <<x>> \in Seq(X) /\ Append(s, x) = s \o <<x>>
  OBVIOUS
<1>2. /\ HowMany(s \o <<x>>, S) = HowMany(s, S) + HowMany(<<x>>, S)
      /\ HowMany(<<x>> \o s, S) = HowMany(<<x>>, S) + HowMany(s, S)
  BY <1>1, HowManyTogether
<1>3. HowMany(s, S) \in Nat
  BY HowManyIsNat
<1>. QED
  BY <1>1, <1>2, <1>3, HowManyOfOne

LEMMA HowManyInTail ==
    ASSUME NEW X, NEW s \in Seq(X), s # <<>>, NEW S
    PROVE  /\ Head(s) \in S => HowMany(s, S) = HowMany(Tail(s), S) + 1
           /\ Head(s) \notin S => HowMany(s, S) = HowMany(Tail(s), S)
<1>1. Head(s) \in X /\ Tail(s) \in Seq(X) /\ s = <<Head(s)>> \o Tail(s)
  OBVIOUS
<1>2. \A x \in X : \A t \in Seq(X) :
          /\ x \in S => HowMany(<<x>> \o t, S) = HowMany(t, S) + 1
          /\ x \notin S => HowMany(<<x>> \o t, S) = HowMany(t, S)
  BY HowManyAfter
<1>3. /\ Head(s) \in S => HowMany(<<Head(s)>> \o Tail(s), S) = HowMany(Tail(s), S) + 1
      /\ Head(s) \notin S => HowMany(<<Head(s)>> \o Tail(s), S) = HowMany(Tail(s), S)
  BY <1>1, <1>2, Zenon
<1>. QED
  BY <1>1, <1>3, Zenon

LEMMA HowManyOfTwo ==
    ASSUME NEW X, NEW s \in Seq(X), NEW S, NEW T, S \cap T = {}
    PROVE  HowMany(s, S \cup T) = HowMany(s, S) + HowMany(s, T)
<1>. DEFINE I == {i \in 1 .. Len(s) : s[i] \in S}
            J == {i \in 1 .. Len(s) : s[i] \in T}
<1>1. IsFiniteSet(I) /\ IsFiniteSet(J) /\ HowMany(s, S) \in Nat /\ HowMany(s, T) \in Nat
  BY HowManyIsNat
<1>2. {i \in 1 .. Len(s) : s[i] \in S \cup T} = I \cup J /\ I \cap J = {}
  OBVIOUS
<1>3. HowMany(s, S) = Cardinality(I) /\ HowMany(s, T) = Cardinality(J)
      /\ HowMany(s, S \cup T) = Cardinality(I \cup J)
  BY <1>2 DEF HowMany
<1>. HIDE DEF I, J
<1>4. Cardinality(I \cap J) = 0
  BY <1>2, FS_EmptySet
<1>5. Cardinality(I \cup J) = Cardinality(I) + Cardinality(J) - Cardinality(I \cap J)
  BY <1>1, FS_Union
<1>. QED
  BY <1>1, <1>3, <1>4, <1>5

(* The order in lists. *)

\* Behind is kept by taking the head, by putting lists together, and holds of
\* a list of one.
LEMMA BehindInTail ==
    ASSUME NEW X, NEW s \in Seq(X), s # <<>>, NEW A, NEW B, Behind(s, A, B)
    PROVE  /\ Behind(Tail(s), A, B)
           /\ Head(s) \in A => HowMany(Tail(s), B) = 0
<1>1. /\ Tail(s) \in Seq(X) /\ Len(s) \in Nat /\ Len(Tail(s)) = Len(s) - 1
      /\ \A i \in 1 .. Len(s) - 1 : Tail(s)[i] = s[i + 1] /\ i + 1 \in 1 .. Len(s)
      /\ 1 \in 1 .. Len(s) /\ Head(s) = s[1]
  OBVIOUS
<1>2. Behind(Tail(s), A, B)
  BY <1>1 DEF Behind
<1>3. ASSUME Head(s) \in A
      PROVE  HowMany(Tail(s), B) = 0
  <2>1. \A i \in 1 .. Len(Tail(s)) : Tail(s)[i] \notin B
    BY <1>1, <1>3 DEF Behind
  <2>2. HowMany(Tail(s), B) \in Nat /\ ~(HowMany(Tail(s), B) > 0)
    BY <1>1, <2>1, HowManyIsNat, HowManyIsPositive
  <2>. QED
    BY <2>2
<1>. QED
  BY <1>2, <1>3

LEMMA BehindTogether ==
    ASSUME NEW X, NEW s \in Seq(X), NEW t \in Seq(X), NEW A, NEW B,
           Behind(s, A, B), Behind(t, A, B), HowMany(s, A) = 0 \/ HowMany(t, B) = 0
    PROVE  Behind(s \o t, A, B)
<1>1. /\ Len(s) \in Nat /\ Len(t) \in Nat /\ Len(s \o t) = Len(s) + Len(t)
      /\ \A i \in 1 .. Len(s) + Len(t) :
            \/ i \in 1 .. Len(s) /\ (s \o t)[i] = s[i]
            \/ i > Len(s) /\ i - Len(s) \in 1 .. Len(t) /\ (s \o t)[i] = t[i - Len(s)]
  OBVIOUS
<1>2. \/ \A i \in 1 .. Len(s) : s[i] \notin A
      \/ \A i \in 1 .. Len(t) : t[i] \notin B
  BY HowManyIsPositive
<1>. SUFFICES ASSUME NEW i \in 1 .. Len(s) + Len(t), NEW j \in 1 .. Len(s) + Len(t),
                     (s \o t)[i] \in A, (s \o t)[j] \in B
              PROVE  j < i
  BY <1>1 DEF Behind
<1>3. CASE i \in 1 .. Len(s) /\ (s \o t)[i] = s[i]
  <2>1. j \in 1 .. Len(s) /\ (s \o t)[j] = s[j]
    BY <1>1, <1>2, <1>3
  <2>. QED
    BY <1>3, <2>1 DEF Behind
<1>4. CASE i > Len(s) /\ i - Len(s) \in 1 .. Len(t) /\ (s \o t)[i] = t[i - Len(s)]
  <2>1. CASE j \in 1 .. Len(s)
    BY <1>1, <1>4, <2>1
  <2>2. CASE j - Len(s) \in 1 .. Len(t) /\ (s \o t)[j] = t[j - Len(s)]
    <3>1. j - Len(s) < i - Len(s)
      BY <1>4, <2>2 DEF Behind
    <3>. QED  BY <1>1, <3>1
  <2>. QED
    BY <1>1, <2>1, <2>2
<1>. QED
  BY <1>1, <1>3, <1>4

LEMMA BehindOfFew ==
    ASSUME NEW A, NEW B
    PROVE  Behind(<<>>, A, B) /\ \A x : ~(x \in A /\ x \in B) => Behind(<<x>>, A, B)
<1>1. Behind(<<>>, A, B)
  BY DEF Behind
<1>2. ASSUME NEW x, ~(x \in A /\ x \in B)
      PROVE  Behind(<<x>>, A, B)
  BY <1>2 DEF Behind
<1>. QED
  BY <1>1, <1>2
-----------------------------------------------------------------------------
(* The dispatcher's list. *)

Task == Msg \cup Calls

InOrder(list) == Behind(list, {"closeConnection"}, {"login"})

\* more has x once more than list.
OneMore(more, list, x) ==
    /\ list \in Seq(Task) /\ more \in Seq(Task)
    /\ HowMany(list, {x}) \in Nat
    /\ HowMany(more, {x}) = HowMany(list, {x}) + 1
    /\ \A y : y # x => HowMany(more, {y}) = HowMany(list, {y})

LEMMA TasksAreFew ==
    ASSUME NEW list \in Seq(Task)
    PROVE  \A x : HowMany(list, {x}) \in Nat
BY HowManyIsNat

\* The head is taken; a release is put first; a call is put last.
LEMMA TaskStarts ==
    ASSUME NEW list \in Seq(Task), list # <<>>, InOrder(list)
    PROVE  /\ OneMore(list, Tail(list), Head(list))
           /\ InOrder(Tail(list))
           /\ Head(list) = "closeConnection" => HowMany(Tail(list), {"login"}) = 0
<1>1. Head(list) \in Task /\ Tail(list) \in Seq(Task)
  OBVIOUS
<1>2. /\ InOrder(Tail(list))
      /\ Head(list) = "closeConnection" => HowMany(Tail(list), {"login"}) = 0
  BY BehindInTail DEF InOrder
<1>3. \A x : HowMany(Tail(list), {x}) \in Nat
  BY <1>1, TasksAreFew
<1>4. \A x : /\ Head(list) \in {x} => HowMany(list, {x}) = HowMany(Tail(list), {x}) + 1
             /\ Head(list) \notin {x} => HowMany(list, {x}) = HowMany(Tail(list), {x})
  BY HowManyInTail
<1>. QED
  BY <1>1, <1>2, <1>3, <1>4 DEF OneMore

LEMMA TaskIsFirst ==
    ASSUME NEW list \in Seq(Task), InOrder(list), NEW x \in Msg
    PROVE  OneMore(<<x>> \o list, list, x) /\ InOrder(<<x>> \o list)
<1>1. x \in Task /\ x \notin {"login"} /\ x \notin {"closeConnection"} /\ <<x>> \in Seq(Task)
      /\ <<x>> \o list \in Seq(Task)
  BY MsgAssumption DEF Task, Calls
<1>2. OneMore(<<x>> \o list, list, x)
  <2>1. \A y : /\ x \in {y} => HowMany(<<x>> \o list, {y}) = HowMany(list, {y}) + 1
               /\ x \notin {y} => HowMany(<<x>> \o list, {y}) = HowMany(list, {y})
    BY <1>1, HowManyAfter
  <2>2. \A y : HowMany(list, {y}) \in Nat
    BY TasksAreFew
  <2>. QED
    BY <1>1, <2>1, <2>2 DEF OneMore
<1>3. Behind(<<x>>, {"closeConnection"}, {"login"}) /\ HowMany(<<x>>, {"closeConnection"}) = 0
  BY <1>1, BehindOfFew, HowManyOfOne
<1>4. InOrder(<<x>> \o list)
  BY <1>1, <1>3, BehindTogether DEF InOrder
<1>. QED
  BY <1>2, <1>4

LEMMA OneMoreIsLast ==
    ASSUME NEW list \in Seq(Task), NEW x \in Task
    PROVE  OneMore(Append(list, x), list, x)
<1>1. <<x>> \in Seq(Task) /\ list \o <<x>> \in Seq(Task)
  OBVIOUS
<1>2. \A S : HowMany(list \o <<x>>, S) = HowMany(list, S) + HowMany(<<x>>, S)
  BY <1>1, HowManyTogether
<1>3. \A S : HowMany(list, S) \in Nat
  BY HowManyIsNat
<1>4. \A S : /\ x \in S => HowMany(<<x>>, S) = 1
             /\ x \notin S => HowMany(<<x>>, S) = 0
  BY HowManyOfOne
<1>5. OneMore(list \o <<x>>, list, x)
  BY <1>1, <1>2, <1>3, <1>4 DEF OneMore
<1>6. Append(list, x) = list \o <<x>>
  OBVIOUS
<1>. QED
  BY <1>5, <1>6, Zenon

LEMMA TaskIsLast ==
    ASSUME NEW list \in Seq(Task), InOrder(list), NEW x \in Calls,
           x # "login" \/ HowMany(list, {"closeConnection"}) = 0
    PROVE  OneMore(Append(list, x), list, x) /\ InOrder(Append(list, x))
<1>1. /\ x \in Task /\ <<x>> \in Seq(Task)
      /\ Append(list, x) \in Seq(Task) /\ Append(list, x) = list \o <<x>>
  BY DEF Task
<1>2. OneMore(Append(list, x), list, x)
  BY <1>1, OneMoreIsLast
<1>3. Behind(<<x>>, {"closeConnection"}, {"login"})
  BY BehindOfFew
<1>4. HowMany(list, {"closeConnection"}) = 0 \/ HowMany(<<x>>, {"login"}) = 0
  BY HowManyOfOne
<1>5. Behind(list \o <<x>>, {"closeConnection"}, {"login"})
  BY <1>1, <1>3, <1>4, BehindTogether DEF InOrder
<1>. QED
  BY <1>1, <1>2, <1>5 DEF InOrder

\* The lists of close and of send.
LEMMA CloseIsLast ==
    ASSUME NEW list \in Seq(Task), InOrder(list)
    PROVE  /\ WithClose(list) \in Seq(Task) /\ InOrder(WithClose(list))
           /\ Closes => OneMore(WithClose(list), list, "closeConnection")
           /\ ~Closes => WithClose(list) = list
<1>1. "closeConnection" \in Calls
  BY DEF Calls
<1>2. /\ OneMore(Append(list, "closeConnection"), list, "closeConnection")
      /\ InOrder(Append(list, "closeConnection"))
  BY <1>1, TaskIsLast
<1>. QED
  BY <1>2 DEF WithClose, OneMore

LEMMA ReleaseIsFirst ==
    ASSUME NEW list \in Seq(Task), InOrder(list), NEW m \in Msg
    PROVE  /\ SendList(m, list) \in Seq(Task) /\ InOrder(SendList(m, list))
           /\ SendResult = "released" => OneMore(SendList(m, list), list, m)
           /\ SendResult # "released" => SendList(m, list) = list
<1>1. OneMore(<<m>> \o list, list, m) /\ InOrder(<<m>> \o list)
  BY TaskIsFirst
<1>. QED
  BY <1>1 DEF SendList, OneMore

-----------------------------------------------------------------------------
(* The service thread's queue. *)

Handlers == {"header", "body", "write", "readTimeout", "writeTimeout", "onStop"} \X BOOLEAN

Stops(queue) == HowMany(queue, {"onStop"} \X BOOLEAN)
Reads(queue) == HowMany(queue, {"header", "body"} \X BOOLEAN)
Writes(queue) == HowMany(queue, {"write"} \X BOOLEAN)
StopIsLast(queue) == Behind(queue, {"onStop"} \X BOOLEAN, Transfers \X BOOLEAN)

LEMMA QueueCounts ==
    ASSUME NEW queue \in Seq(Handlers)
    PROVE  /\ Stops(queue) \in Nat /\ Reads(queue) \in Nat /\ Writes(queue) \in Nat
           /\ HowMany(queue, Transfers \X BOOLEAN) = Reads(queue) + Writes(queue)
<1>1. Stops(queue) \in Nat /\ Reads(queue) \in Nat /\ Writes(queue) \in Nat
  BY HowManyIsNat DEF Stops, Reads, Writes
<1>2. /\ ({"header", "body"} \X BOOLEAN) \cap ({"write"} \X BOOLEAN) = {}
      /\ Transfers \X BOOLEAN = ({"header", "body"} \X BOOLEAN) \cup ({"write"} \X BOOLEAN)
  BY DEF Transfers
<1>3. HowMany(queue, ({"header", "body"} \X BOOLEAN) \cup ({"write"} \X BOOLEAN))
        = Reads(queue) + Writes(queue)
  BY <1>2, HowManyOfTwo DEF Reads, Writes
<1>. QED
  BY <1>1, <1>2, <1>3

\* What one handler is counted for.
LEMMA HandlerCounts ==
    ASSUME NEW op, NEW ok \in BOOLEAN
    PROVE  /\ op = "onStop" <=> <<op, ok>> \in {"onStop"} \X BOOLEAN
           /\ op \in {"header", "body"} <=> <<op, ok>> \in {"header", "body"} \X BOOLEAN
           /\ op = "write" <=> <<op, ok>> \in {"write"} \X BOOLEAN
           /\ op \in Transfers <=> <<op, ok>> \in Transfers \X BOOLEAN
BY DEF Transfers

\* Queues one after the other, of one handler, of none; the head taken, one
\* put last.
LEMMA QueueTogether ==
    ASSUME NEW q \in Seq(Handlers), NEW r \in Seq(Handlers), StopIsLast(q), StopIsLast(r),
           Stops(q) = 0 \/ Reads(r) + Writes(r) = 0
    PROVE  /\ q \o r \in Seq(Handlers) /\ StopIsLast(q \o r)
           /\ Stops(q \o r) = Stops(q) + Stops(r)
           /\ Reads(q \o r) = Reads(q) + Reads(r)
           /\ Writes(q \o r) = Writes(q) + Writes(r)
<1>1. q \o r \in Seq(Handlers)
  OBVIOUS
<1>2. /\ Stops(q \o r) = Stops(q) + Stops(r)
      /\ Reads(q \o r) = Reads(q) + Reads(r)
      /\ Writes(q \o r) = Writes(q) + Writes(r)
  BY HowManyTogether DEF Stops, Reads, Writes
<1>3. HowMany(r, Transfers \X BOOLEAN) = Reads(r) + Writes(r)
  BY QueueCounts
<1>4. HowMany(q, {"onStop"} \X BOOLEAN) = 0 \/ HowMany(r, Transfers \X BOOLEAN) = 0
  BY <1>3 DEF Stops
<1>5. StopIsLast(q \o r)
  BY <1>4, BehindTogether DEF StopIsLast
<1>. QED
  BY <1>1, <1>2, <1>5

\* What a handler at the end, and one at the head, is counted for.
OneHandler(op, stops, reads, writes) ==
    /\ op \in {"header", "body"} => stops = 0 /\ reads = 1 /\ writes = 0
    /\ op = "write" => stops = 0 /\ reads = 0 /\ writes = 1
    /\ op = "onStop" => stops = 1 /\ reads = 0 /\ writes = 0
    /\ op \in {"readTimeout", "writeTimeout"} => stops = 0 /\ reads = 0 /\ writes = 0

Operations == {"header", "body", "write", "readTimeout", "writeTimeout", "onStop"}

LEMMA QueueOfOne ==
    ASSUME NEW op \in Operations, NEW ok \in BOOLEAN
    PROVE  /\ << <<op, ok>> >> \in Seq(Handlers) /\ StopIsLast(<< <<op, ok>> >>)
           /\ OneHandler(op, Stops(<< <<op, ok>> >>), Reads(<< <<op, ok>> >>),
                         Writes(<< <<op, ok>> >>))
<1>1. <<op, ok>> \in Handlers
  BY DEF Handlers, Operations
<1>2. << <<op, ok>> >> \in Seq(Handlers)
  BY <1>1
<1>3. ~(<<op, ok>> \in {"onStop"} \X BOOLEAN /\ <<op, ok>> \in Transfers \X BOOLEAN)
  BY DEF Transfers
<1>4. StopIsLast(<< <<op, ok>> >>)
  BY <1>3, BehindOfFew DEF StopIsLast
<1>5. \A S : /\ <<op, ok>> \in S => HowMany(<< <<op, ok>> >>, S) = 1
             /\ <<op, ok>> \notin S => HowMany(<< <<op, ok>> >>, S) = 0
  BY HowManyOfOne
<1>6. /\ op = "onStop" => Stops(<< <<op, ok>> >>) = 1
      /\ op # "onStop" => Stops(<< <<op, ok>> >>) = 0
  BY <1>5, HandlerCounts DEF Stops
<1>7. /\ op \in {"header", "body"} => Reads(<< <<op, ok>> >>) = 1
      /\ op \notin {"header", "body"} => Reads(<< <<op, ok>> >>) = 0
  BY <1>5, HandlerCounts DEF Reads
<1>8. /\ op = "write" => Writes(<< <<op, ok>> >>) = 1
      /\ op # "write" => Writes(<< <<op, ok>> >>) = 0
  BY <1>5, HandlerCounts DEF Writes
<1>. QED
  BY <1>2, <1>4, <1>6, <1>7, <1>8 DEF OneHandler

LEMMA QueueIsEmpty ==
    <<>> \in Seq(Handlers) /\ StopIsLast(<<>>)
    /\ Stops(<<>>) = 0 /\ Reads(<<>>) = 0 /\ Writes(<<>>) = 0
<1>1. <<>> \in Seq(Handlers)
  OBVIOUS
<1>. QED
  BY <1>1, HowManyOfNone, BehindOfFew DEF StopIsLast, Stops, Reads, Writes

LEMMA HandlerIsFirst ==
    ASSUME NEW queue \in Seq(Handlers), queue # <<>>, StopIsLast(queue),
           NEW op \in Operations, NEW ok \in BOOLEAN, Head(queue) = <<op, ok>>
    PROVE  /\ Tail(queue) \in Seq(Handlers) /\ StopIsLast(Tail(queue))
           /\ OneHandler(op, Stops(queue) - Stops(Tail(queue)), Reads(queue) - Reads(Tail(queue)),
                         Writes(queue) - Writes(Tail(queue)))
           /\ op = "onStop" => Reads(Tail(queue)) = 0 /\ Writes(Tail(queue)) = 0
<1>1. Tail(queue) \in Seq(Handlers) /\ queue = << <<op, ok>> >> \o Tail(queue)
  OBVIOUS
<1>2. /\ StopIsLast(Tail(queue))
      /\ Head(queue) \in {"onStop"} \X BOOLEAN
            => HowMany(Tail(queue), Transfers \X BOOLEAN) = 0
  BY BehindInTail DEF StopIsLast
<1>3. << <<op, ok>> >> \in Seq(Handlers)
  BY QueueOfOne
<1>4. /\ Stops(queue) = Stops(<< <<op, ok>> >>) + Stops(Tail(queue))
      /\ Reads(queue) = Reads(<< <<op, ok>> >>) + Reads(Tail(queue))
      /\ Writes(queue) = Writes(<< <<op, ok>> >>) + Writes(Tail(queue))
  <2>1. \A S : HowMany(<< <<op, ok>> >> \o Tail(queue), S)
                 = HowMany(<< <<op, ok>> >>, S) + HowMany(Tail(queue), S)
    BY <1>1, <1>3, HowManyTogether
  <2>2. \A S : HowMany(queue, S) = HowMany(<< <<op, ok>> >>, S) + HowMany(Tail(queue), S)
    BY <1>1, <2>1, Zenon
  <2>. QED
    BY <2>2 DEF Stops, Reads, Writes
<1>5. /\ Stops(Tail(queue)) \in Nat /\ Reads(Tail(queue)) \in Nat /\ Writes(Tail(queue)) \in Nat
      /\ HowMany(Tail(queue), Transfers \X BOOLEAN) = Reads(Tail(queue)) + Writes(Tail(queue))
  BY <1>1, QueueCounts
<1>6. OneHandler(op, Stops(<< <<op, ok>> >>), Reads(<< <<op, ok>> >>), Writes(<< <<op, ok>> >>))
  BY QueueOfOne
<1>7. OneHandler(op, Stops(queue) - Stops(Tail(queue)), Reads(queue) - Reads(Tail(queue)),
                 Writes(queue) - Writes(Tail(queue)))
  BY <1>4, <1>5, <1>6 DEF OneHandler, Operations
<1>8. op = "onStop" => Reads(Tail(queue)) = 0 /\ Writes(Tail(queue)) = 0
  BY <1>2, <1>5, HandlerCounts
<1>. QED
  BY <1>1, <1>2, <1>7, <1>8

LEMMA HandlerIsLast ==
    ASSUME NEW queue \in Seq(Handlers), StopIsLast(queue),
           NEW op \in Operations, NEW ok \in BOOLEAN, op \in Transfers => Stops(queue) = 0
    PROVE  /\ Append(queue, <<op, ok>>) \in Seq(Handlers)
           /\ StopIsLast(Append(queue, <<op, ok>>))
           /\ OneHandler(op, Stops(Append(queue, <<op, ok>>)) - Stops(queue),
                         Reads(Append(queue, <<op, ok>>)) - Reads(queue),
                         Writes(Append(queue, <<op, ok>>)) - Writes(queue))
<1>1. /\ << <<op, ok>> >> \in Seq(Handlers) /\ StopIsLast(<< <<op, ok>> >>)
      /\ OneHandler(op, Stops(<< <<op, ok>> >>), Reads(<< <<op, ok>> >>), Writes(<< <<op, ok>> >>))
  BY QueueOfOne
<1>2. Append(queue, <<op, ok>>) = queue \o << <<op, ok>> >>
  BY DEF Handlers, Operations
<1>3. Stops(queue) = 0 \/ Reads(<< <<op, ok>> >>) + Writes(<< <<op, ok>> >>) = 0
  BY <1>1 DEF OneHandler, Operations, Transfers
<1>4. Stops(queue) \in Nat /\ Reads(queue) \in Nat /\ Writes(queue) \in Nat
  BY QueueCounts
<1>5. /\ queue \o << <<op, ok>> >> \in Seq(Handlers) /\ StopIsLast(queue \o << <<op, ok>> >>)
      /\ Stops(queue \o << <<op, ok>> >>) = Stops(queue) + Stops(<< <<op, ok>> >>)
      /\ Reads(queue \o << <<op, ok>> >>) = Reads(queue) + Reads(<< <<op, ok>> >>)
      /\ Writes(queue \o << <<op, ok>> >>) = Writes(queue) + Writes(<< <<op, ok>> >>)
  BY <1>1, <1>3, QueueTogether
<1>6. OneHandler(op, Stops(queue \o << <<op, ok>> >>) - Stops(queue),
                 Reads(queue \o << <<op, ok>> >>) - Reads(queue),
                 Writes(queue \o << <<op, ok>> >>) - Writes(queue))
  BY <1>1, <1>4, <1>5 DEF OneHandler, Operations
<1>. QED
  BY <1>2, <1>5, <1>6

\* The operations that a close ends are queued once each.
LEMMA AbortedOnes ==
    ASSUME NEW op \in Transfers
    PROVE  /\ Aborting(op) \in Seq(Handlers) /\ StopIsLast(Aborting(op))
           /\ op \notin ops => Aborting(op) = <<>>
           /\ OneHandler(IF op \in ops THEN op ELSE "readTimeout", Stops(Aborting(op)),
                         Reads(Aborting(op)), Writes(Aborting(op)))
<1>1. CASE op \in ops
  <2>1. Aborting(op) = << <<op, FALSE>> >> /\ op \in Operations
    BY <1>1 DEF Aborting, Transfers, Operations
  <2>2. /\ << <<op, FALSE>> >> \in Seq(Handlers) /\ StopIsLast(<< <<op, FALSE>> >>)
        /\ OneHandler(op, Stops(<< <<op, FALSE>> >>), Reads(<< <<op, FALSE>> >>),
                      Writes(<< <<op, FALSE>> >>))
    BY <2>1, QueueOfOne
  <2>. QED
    BY <1>1, <2>1, <2>2
<1>2. CASE op \notin ops
  <2>1. Aborting(op) = <<>>
    BY <1>2 DEF Aborting
  <2>. QED
    BY <1>2, <2>1, QueueIsEmpty DEF OneHandler
<1>. QED
  BY <1>1, <1>2

LEMMA AbortedAll ==
    /\ Aborted \in Seq(Handlers) /\ StopIsLast(Aborted) /\ Stops(Aborted) = 0
    /\ Reads(Aborted) = (IF "header" \in ops THEN 1 ELSE 0) + (IF "body" \in ops THEN 1 ELSE 0)
    /\ Writes(Aborted) = IF "write" \in ops THEN 1 ELSE 0
    /\ ops = {} => Aborted = <<>>
<1>. DEFINE h == Aborting("header")
            b == Aborting("body")
            w == Aborting("write")
<1>1. /\ h \in Seq(Handlers) /\ StopIsLast(h) /\ Stops(h) = 0 /\ Writes(h) = 0
      /\ Reads(h) = IF "header" \in ops THEN 1 ELSE 0
      /\ ops = {} => h = <<>>
  BY AbortedOnes DEF OneHandler, Transfers
<1>2. /\ b \in Seq(Handlers) /\ StopIsLast(b) /\ Stops(b) = 0 /\ Writes(b) = 0
      /\ Reads(b) = IF "body" \in ops THEN 1 ELSE 0
      /\ ops = {} => b = <<>>
  BY AbortedOnes DEF OneHandler, Transfers
<1>3. /\ w \in Seq(Handlers) /\ StopIsLast(w) /\ Stops(w) = 0 /\ Reads(w) = 0
      /\ Writes(w) = IF "write" \in ops THEN 1 ELSE 0
      /\ ops = {} => w = <<>>
  BY AbortedOnes DEF OneHandler, Transfers
<1>4. Aborted = (h \o b) \o w
  BY DEF Aborted
<1>. HIDE DEF h, b, w
<1>5. /\ h \o b \in Seq(Handlers) /\ StopIsLast(h \o b) /\ Stops(h \o b) = 0 /\ Writes(h \o b) = 0
      /\ Reads(h \o b) = Reads(h) + Reads(b)
  BY <1>1, <1>2, QueueTogether
<1>6. /\ (h \o b) \o w \in Seq(Handlers) /\ StopIsLast((h \o b) \o w)
      /\ Stops((h \o b) \o w) = 0
      /\ Writes((h \o b) \o w) = Writes(w)
      /\ Reads((h \o b) \o w) = Reads(h) + Reads(b)
  <2>. DEFINE hb == h \o b
  <2>1. hb \in Seq(Handlers) /\ StopIsLast(hb) /\ Stops(hb) = 0
        /\ Writes(hb) = 0 /\ Reads(hb) = Reads(h) + Reads(b)
    BY <1>5
  <2>2. Reads(h) \in Nat /\ Reads(b) \in Nat /\ Writes(w) \in Nat
    BY <1>1, <1>2, <1>3, QueueCounts
  <2>. HIDE DEF hb
  <2>3. /\ hb \o w \in Seq(Handlers) /\ StopIsLast(hb \o w)
        /\ Stops(hb \o w) = Stops(hb) + Stops(w)
        /\ Reads(hb \o w) = Reads(hb) + Reads(w)
        /\ Writes(hb \o w) = Writes(hb) + Writes(w)
    BY <1>3, <2>1, QueueTogether
  <2>4. /\ hb \o w \in Seq(Handlers) /\ StopIsLast(hb \o w)
        /\ Stops(hb \o w) = 0 /\ Writes(hb \o w) = Writes(w)
        /\ Reads(hb \o w) = Reads(h) + Reads(b)
    BY <1>3, <2>1, <2>2, <2>3
  <2>. QED
    BY <2>4 DEF hb
<1>7. ops = {} => (h \o b) \o w = <<>>
  BY <1>1, <1>2, <1>3
<1>. QED
  BY <1>1, <1>2, <1>3, <1>4, <1>6, <1>7

-----------------------------------------------------------------------------
(* The messages. *)

MsgStates == {"free", "auto", "add", "writing", "written", "released"}

AllocatedIn(f) == {m \in Msg : f[m] # "free"}
WritingIn(f) == {m \in Msg : f[m] = "writing"}

LEMMA MessagesAreFew ==
    ASSUME NEW f
    PROVE  /\ IsFiniteSet(AllocatedIn(f)) /\ Cardinality(AllocatedIn(f)) \in Nat
           /\ IsFiniteSet(WritingIn(f)) /\ Cardinality(WritingIn(f)) \in Nat
           /\ Cardinality(AllocatedIn(f)) = 0 <=> AllocatedIn(f) = {}
           /\ Cardinality(WritingIn(f)) = 0 <=> WritingIn(f) = {}
<1>1. AllocatedIn(f) \subseteq Msg /\ WritingIn(f) \subseteq Msg
  BY DEF AllocatedIn, WritingIn
<1>2. IsFiniteSet(AllocatedIn(f)) /\ IsFiniteSet(WritingIn(f))
  BY <1>1, FS_Subset, MsgAssumption
<1>. QED
  BY <1>2, FS_CardinalityType, FS_EmptySet

\* Message m becomes st.
Moves(f, g, m, st) ==
    f \in [Msg -> MsgStates] /\ m \in Msg /\ st \in MsgStates /\ g = [f EXCEPT ![m] = st]

LEMMA MessageMoves ==
    ASSUME NEW f, NEW g, NEW m, NEW st, Moves(f, g, m, st)
    PROVE  /\ g \in [Msg -> MsgStates] /\ g[m] = st /\ \A n \in Msg : n # m => g[n] = f[n]
           /\ f[m] # "free" /\ st # "free" => AllocatedIn(g) = AllocatedIn(f)
           /\ f[m] = "free" /\ st # "free"
                => Cardinality(AllocatedIn(g)) = Cardinality(AllocatedIn(f)) + 1
           /\ f[m] # "free" /\ st = "free"
                => Cardinality(AllocatedIn(g)) = Cardinality(AllocatedIn(f)) - 1
           /\ f[m] # "writing" /\ st # "writing" => WritingIn(g) = WritingIn(f)
           /\ f[m] # "writing" /\ st = "writing"
                => Cardinality(WritingIn(g)) = Cardinality(WritingIn(f)) + 1
           /\ f[m] = "writing" /\ st # "writing"
                => Cardinality(WritingIn(g)) = Cardinality(WritingIn(f)) - 1
<1>1. /\ g \in [Msg -> MsgStates] /\ g[m] = st /\ \A n \in Msg : n # m => g[n] = f[n]
      /\ f \in [Msg -> MsgStates] /\ m \in Msg
  BY DEF Moves
<1>2. /\ f[m] # "free" /\ st # "free" => AllocatedIn(g) = AllocatedIn(f)
      /\ f[m] # "writing" /\ st # "writing" => WritingIn(g) = WritingIn(f)
  BY <1>1 DEF AllocatedIn, WritingIn
<1>3. IsFiniteSet(AllocatedIn(f)) /\ IsFiniteSet(WritingIn(f))
  BY MessagesAreFew
<1>4. ASSUME f[m] = "free", st # "free"
      PROVE  Cardinality(AllocatedIn(g)) = Cardinality(AllocatedIn(f)) + 1
  <2>1. AllocatedIn(g) = AllocatedIn(f) \cup {m} /\ m \notin AllocatedIn(f)
    BY <1>1, <1>4 DEF AllocatedIn
  <2>. QED
    BY <1>3, <2>1, FS_AddElement
<1>5. ASSUME f[m] # "free", st = "free"
      PROVE  Cardinality(AllocatedIn(g)) = Cardinality(AllocatedIn(f)) - 1
  <2>1. AllocatedIn(g) = AllocatedIn(f) \ {m} /\ m \in AllocatedIn(f)
    BY <1>1, <1>5 DEF AllocatedIn
  <2>. QED
    BY <1>3, <2>1, FS_RemoveElement
<1>6. ASSUME f[m] # "writing", st = "writing"
      PROVE  Cardinality(WritingIn(g)) = Cardinality(WritingIn(f)) + 1
  <2>1. WritingIn(g) = WritingIn(f) \cup {m} /\ m \notin WritingIn(f)
    BY <1>1, <1>6 DEF WritingIn
  <2>. QED
    BY <1>3, <2>1, FS_AddElement
<1>7. ASSUME f[m] = "writing", st # "writing"
      PROVE  Cardinality(WritingIn(g)) = Cardinality(WritingIn(f)) - 1
  <2>1. WritingIn(g) = WritingIn(f) \ {m} /\ m \in WritingIn(f)
    BY <1>1, <1>7 DEF WritingIn
  <2>. QED
    BY <1>3, <2>1, FS_RemoveElement
<1>. QED
  BY <1>1, <1>2, <1>4, <1>5, <1>6, <1>7

-----------------------------------------------------------------------------
(* What the invariant says, in numbers. *)

MsgIsNoCall == \A m \in Msg : m \notin Calls

N == Cardinality(AllocatedIn(msgState))
W == Cardinality(WritingIn(msgState))

LEMMA Numbers ==
    ASSUME TypeOK
    PROVE  /\ tasks \in Seq(Task) /\ handlers \in Seq(Handlers)
           /\ msgState \in [Msg -> MsgStates]
           /\ \A x : Posted(x) \in Nat
           /\ Stops(handlers) \in Nat /\ Reads(handlers) \in Nat /\ Writes(handlers) \in Nat
           /\ N \in Nat /\ W \in Nat
           /\ N = 0 <=> Allocated = {}
           /\ W = 0 <=> Writing = {}
<1>1. /\ tasks \in Seq(Task) /\ handlers \in Seq(Handlers)
      /\ msgState \in [Msg -> MsgStates]
  BY DEF TypeOK, PoolTypeOK, ConnTypeOK, Task, Handlers, MsgStates
<1>2. \A x : Posted(x) \in Nat
  BY <1>1, TasksAreFew DEF Posted
<1>3. Stops(handlers) \in Nat /\ Reads(handlers) \in Nat /\ Writes(handlers) \in Nat
  BY <1>1, QueueCounts
<1>4. Allocated = AllocatedIn(msgState) /\ Writing = WritingIn(msgState)
  BY DEF Allocated, Writing, AllocatedIn, WritingIn
<1>. QED
  BY <1>1, <1>2, <1>3, <1>4, MessagesAreFew DEF N, W

\* The parts of the invariant that count, in terms of the lists' counts.
Counts ==
    /\ Posted("closeConnection") = IF connState = "requestClose" THEN 1 ELSE 0
    /\ Pending("releaseConnection") + Stops(handlers) + (IF socket = "deleted" THEN 1 ELSE 0)
          = IF connState = "closed" THEN 1 ELSE 0
    /\ W <= 1
    /\ socket = "open" => pendingWrite = W
    /\ W = (IF "write" \in ops THEN 1 ELSE 0) + Writes(handlers)
    /\ ~raced => connRefs = N /\ protoRefs = N + Pending("connect")
    /\ ~raced /\ proto = "deleted" => N = 0 /\ Pending("connect") = 0
    /\ ~raced /\ (Stops(handlers) > 0 \/ socket = "deleted") => N = 0
    /\ StopIsLast(handlers)
    /\ socket = "deleted" => Reads(handlers) = 0 /\ Writes(handlers) = 0
    /\ InOrder(tasks)

ReadsAre(r) ==
    (IF "header" \in ops THEN 1 ELSE 0) + (IF "body" \in ops THEN 1 ELSE 0)
    + r + (IF spc = "reply" THEN 1 ELSE 0)

OneReadIs ==
    /\ ReadsAre(Reads(handlers)) <= 1
    /\ connState = "open" => ReadsAre(Reads(handlers)) = 1 /\ pendingRead = 1

LoginsAreFew ==
    /\ Posted("login") + Pending("connect") <= IF first = "yes" THEN 1 ELSE 0
    /\ Posted("login") > 0 => attached = "yes"

\* The invariant that the steps below keep.
MessagesAgree == ReleasedArePosted /\ BatchWaits /\ BufferIsNotEncoded
LifeAgrees == NewIsBlank /\ SocketAgrees /\ AttachedAgrees /\ LoginsAreFew /\ OneReadIs

JInv ==
    /\ TypeOK
    /\ MessagesAgree /\ Counts /\ LifeAgrees

LEMMA JInvIsIInv == IInv <=> JInv
<1>1. /\ Allocated = AllocatedIn(msgState) /\ Writing = WritingIn(msgState)
      /\ N = 0 <=> Allocated = {}
  BY MessagesAreFew DEF Allocated, Writing, AllocatedIn, WritingIn, N
<1>2. /\ Queued({"onStop"}) = Stops(handlers)
      /\ Queued({"header", "body"}) = Reads(handlers)
      /\ Queued({"write"}) = Writes(handlers)
  BY DEF Queued, Stops, Reads, Writes
<1>3. StopIsLast(handlers) <=> Behind(handlers, {"onStop"} \X BOOLEAN, Transfers \X BOOLEAN)
  BY DEF StopIsLast
<1>4. InOrder(tasks) <=> Behind(tasks, {"closeConnection"}, {"login"})
  BY DEF InOrder
<1>5. OneRead <=> OneReadIs
  BY <1>2 DEF OneRead, OneReadIs, ReadsAre
<1>. QED
  BY <1>1, <1>2, <1>3, <1>4, <1>5
  DEF IInv, JInv, MessagesAgree, LifeAgrees, LoginsAreFew, Counts, LoginsAreOnce,
      OneCloseTask, OneOperation, OneWrite, WritesAreCounted, RefsAreExact, DeletedIsFree,
      StoppedIsFree, N, W

LEMMA NoMessageIsACall == MsgIsNoCall
BY MsgAssumption DEF MsgIsNoCall

-----------------------------------------------------------------------------
(* The service thread. *)

\* Each action keeps the invariant: <action>Keeps.
LEMMA AcceptKeeps ==
    ASSUME JInv, Accept
    PROVE  JInv'
<1>1. /\ connState = "new" /\ connState' = "open" /\ socket = "open" /\ pendingRead' = 1
      /\ Allocated = {} /\ tasks = <<>> /\ handlers = <<>> /\ due = {} /\ ops = {}
      /\ pendingWrite = 0 /\ proto = "none" /\ attached = "no" /\ first = "no" /\ spc = "idle"
      /\ UNCHANGED <<outBuf, fresh, tasks, socket, errors, handlers, first, player, due,
                     spc, dpc, batch, raced>>
  BY DEF Accept, JInv, LifeAgrees, NewIsBlank, SocketAgrees
<1>2. /\ TypeOK /\ tasks \in Seq(Task) /\ msgState \in [Msg -> MsgStates]
      /\ N = 0 /\ N \in Nat /\ W = 0 /\ Writing = {}
  BY <1>1, Numbers, MessagesAreFew DEF JInv, Allocated, Writing, AllocatedIn, W, WritingIn
<1>3. /\ Stops(handlers) = 0 /\ Reads(handlers) = 0 /\ Writes(handlers) = 0
      /\ StopIsLast(handlers) /\ InOrder(tasks)
      /\ \A x : Posted(x) = 0
  BY <1>1, QueueIsEmpty, HowManyOfNone, BehindOfFew DEF Posted, InOrder
<1>4. /\ Stops(handlers') = 0 /\ Reads(handlers') = 0 /\ Writes(handlers') = 0
      /\ StopIsLast(handlers') /\ InOrder(tasks')
      /\ \A x : Posted(x)' = 0
  BY <1>1, <1>3 DEF Posted
<1>9. outBuf = NoMsg /\ encoded = {} /\ batch = {}
  <2>1. batch \subseteq Msg /\ encoded \subseteq Allocated
        /\ (outBuf # NoMsg => outBuf \in Waiting)
        /\ (dpc = "sendAll" => \A m \in batch : msgState[m] = "auto")
        /\ (dpc # "sendAll" => batch = {})
    BY <1>2 DEF JInv, MessagesAgree, TypeOK, BufferIsNotEncoded, BatchWaits
  <2>2. Waiting = {} /\ \A m \in Msg : msgState[m] = "free"
    BY <1>1 DEF Waiting, Allocated
  <2>. QED
    BY <1>1, <2>1, <2>2
<1>5. CASE kind' = "other"
  <2>1. /\ UNCHANGED <<msgState, encoded, connRefs, protoRefs, proto, attached, pendingWrite>>
        /\ ops' = {"header"} /\ timers' = {"read"}
    BY <1>5 DEF Accept
  <2>2. N' = N /\ W' = W
    BY <2>1 DEF N, W
  <2>3. TypeOK'
    BY <1>1, <1>2, <1>5, <2>1 DEF TypeOK, PoolTypeOK, ConnTypeOK
  <2>4. MessagesAgree'
    BY <1>1, <1>3, <1>4, <1>9, <2>1
    DEF JInv, MessagesAgree, ReleasedArePosted, BatchWaits, BufferIsNotEncoded, Allocated,
        Waiting
  <2>5. Counts'
    BY <1>1, <1>2, <1>3, <1>4, <2>1, <2>2 DEF JInv, Counts, Pending
  <2>6. LifeAgrees'
    BY <1>1, <1>3, <1>4, <2>1
    DEF LifeAgrees, NewIsBlank, SocketAgrees, AttachedAgrees, LoginsAreFew, OneReadIs,
        ReadsAre, Pending
  <2>. QED
    BY <2>3, <2>4, <2>5, <2>6 DEF JInv
<1>6. CASE kind' = "game"
  <2>1. PICK m \in Msg :
          /\ msgState' = [msgState EXCEPT ![m] = "writing"]
          /\ encoded' = {m}
          /\ AddRefs(1, 1)
          /\ proto' = "alive" /\ attached' = "yes"
          /\ pendingWrite' = 1
          /\ ops' = {"write", "header"} /\ timers' = {"write", "read"}
    BY <1>6 DEF Accept
  <2>2. msgState[m] = "free"
    BY <1>1 DEF Allocated
  <2>3. /\ msgState' \in [Msg -> MsgStates] /\ msgState'[m] = "writing"
        /\ \A n \in Msg : n # m => msgState'[n] = msgState[n]
        /\ N' = N + 1 /\ W' = W + 1
    <3>1. Moves(msgState, msgState', m, "writing")
      BY <1>2, <2>1 DEF Moves, MsgStates
    <3>. QED
      BY <2>2, <3>1, MessageMoves DEF N, W
  <2>4. TypeOK'
    BY <1>1, <1>2, <1>6, <2>1, <2>3
    DEF TypeOK, PoolTypeOK, ConnTypeOK, AddRefs, MsgStates
  <2>5. MessagesAgree'
    BY <1>1, <1>2, <1>3, <1>4, <1>9, <2>1, <2>2, <2>3
    DEF JInv, MessagesAgree, ReleasedArePosted, BatchWaits, BufferIsNotEncoded, Allocated,
        Waiting
  <2>6. Counts'
    BY <1>1, <1>2, <1>3, <1>4, <2>1, <2>3 DEF JInv, Counts, AddRefs, Pending
  <2>7. LifeAgrees'
    BY <1>1, <1>3, <1>4, <2>1
    DEF LifeAgrees, NewIsBlank, SocketAgrees, AttachedAgrees, LoginsAreFew, OneReadIs,
        ReadsAre, Pending
  <2>. QED
    BY <2>4, <2>5, <2>6, <2>7 DEF JInv
<1>. QED
  BY <1>5, <1>6 DEF Accept

\* What a list becomes when a close is asked for.
Asked(list) ==
    /\ list \in Seq(Task) /\ InOrder(list)
    /\ HowMany(list, {"closeConnection"}) = IF connState = "requestClose" THEN 1 ELSE 0

LEMMA CloseAsks ==
    ASSUME NEW list, Asked(list)
    PROVE  /\ WithClose(list) \in Seq(Task) /\ InOrder(WithClose(list))
           /\ \A x : x # "closeConnection" => HowMany(WithClose(list), {x}) = HowMany(list, {x})
           /\ HowMany(WithClose(list), {"closeConnection"})
                = IF AfterClose = "requestClose" THEN 1 ELSE 0
           /\ AfterClose \in {"requestClose", "closed"}
           /\ AfterClose = "closed" <=> connState = "closed"
<1>1. list \in Seq(Task) /\ InOrder(list)
  BY DEF Asked
<1>2. /\ WithClose(list) \in Seq(Task) /\ InOrder(WithClose(list))
      /\ Closes => OneMore(WithClose(list), list, "closeConnection")
      /\ ~Closes => WithClose(list) = list
  BY <1>1, CloseIsLast
<1>3. CASE Closes
  <2>1. /\ AfterClose = "requestClose" /\ connState # "closed"
        /\ HowMany(list, {"closeConnection"}) = 0
    BY <1>3 DEF Closes, AfterClose, Asked
  <2>2. /\ HowMany(WithClose(list), {"closeConnection"}) = 1
        /\ \A x : x # "closeConnection" => HowMany(WithClose(list), {x}) = HowMany(list, {x})
    <3>1. /\ HowMany(WithClose(list), {"closeConnection"}) = HowMany(list, {"closeConnection"}) + 1
          /\ \A x : x # "closeConnection" => HowMany(WithClose(list), {x}) = HowMany(list, {x})
      BY <1>2, <1>3, Zenon DEF OneMore
    <3>. QED
      BY <2>1, <3>1
  <2>. QED
    BY <1>2, <2>1, <2>2
<1>4. CASE ~Closes
  <2>1. AfterClose = connState /\ connState \in {"closed", "requestClose"}
    BY <1>4 DEF Closes, AfterClose
  <2>. QED
    BY <1>2, <1>4, <2>1 DEF Asked
<1>. QED
  BY <1>3, <1>4

\* The handler at the head of the queue.
LEMMA HandlerRuns ==
    ASSUME JInv, NEW op \in Operations, NEW ok \in BOOLEAN, Handler(<<op, ok>>)
    PROVE  /\ connState # "new" /\ Written = {}
           /\ Tail(handlers) \in Seq(Handlers) /\ StopIsLast(Tail(handlers))
           /\ Stops(Tail(handlers)) \in Nat /\ Reads(Tail(handlers)) \in Nat
           /\ Writes(Tail(handlers)) \in Nat
           /\ OneHandler(op, Stops(handlers) - Stops(Tail(handlers)),
                         Reads(handlers) - Reads(Tail(handlers)),
                         Writes(handlers) - Writes(Tail(handlers)))
           /\ op = "onStop" => Reads(Tail(handlers)) = 0 /\ Writes(Tail(handlers)) = 0
<1>1. handlers # <<>> /\ Head(handlers) = <<op, ok>> /\ Written = {}
  BY DEF Handler
<1>2. handlers \in Seq(Handlers) /\ StopIsLast(handlers)
  BY Numbers DEF JInv, Counts
<1>3. connState # "new"
  BY <1>1 DEF JInv, LifeAgrees, NewIsBlank
<1>4. /\ Tail(handlers) \in Seq(Handlers) /\ StopIsLast(Tail(handlers))
      /\ OneHandler(op, Stops(handlers) - Stops(Tail(handlers)),
                    Reads(handlers) - Reads(Tail(handlers)),
                    Writes(handlers) - Writes(Tail(handlers)))
      /\ op = "onStop" => Reads(Tail(handlers)) = 0 /\ Writes(Tail(handlers)) = 0
  BY <1>1, <1>2, HandlerIsFirst
<1>. QED
  BY <1>1, <1>3, <1>4, QueueCounts

\* The end of a read, at the head.
LEMMA ReadEnds ==
    ASSUME JInv, NEW op \in {"header", "body"}, NEW ok \in BOOLEAN, Handler(<<op, ok>>)
    PROVE  /\ connState # "new"
           /\ Tail(handlers) \in Seq(Handlers) /\ StopIsLast(Tail(handlers))
           /\ Stops(Tail(handlers)) = Stops(handlers)
           /\ Reads(Tail(handlers)) = Reads(handlers) - 1
           /\ Writes(Tail(handlers)) = Writes(handlers)
           /\ Reads(Tail(handlers)) \in Nat
<1>1. op \in Operations
  BY DEF Operations
<1>. QED
  BY <1>1, HandlerRuns, Numbers DEF OneHandler, JInv

LEMMA ReadableEnds ==
    ASSUME JInv, NEW op \in {"header", "body"}, Readable(op)
    PROVE  /\ connState = "open" /\ handlers # <<>>
           /\ Tail(handlers) \in Seq(Handlers) /\ StopIsLast(Tail(handlers))
           /\ Stops(Tail(handlers)) = Stops(handlers)
           /\ Reads(Tail(handlers)) = Reads(handlers) - 1
           /\ Writes(Tail(handlers)) = Writes(handlers)
           /\ Reads(Tail(handlers)) \in Nat
<1>. DEFINE ok == TRUE
<1>1. ok \in BOOLEAN /\ Handler(<<op, ok>>) /\ connState = "open" /\ handlers # <<>>
  BY DEF Readable, Handler
<1>. HIDE DEF ok
<1>. QED
  BY <1>1, ReadEnds

LEMMA ReadFailsKeeps ==
    ASSUME JInv, NEW op \in {"header", "body"}, NEW ok \in BOOLEAN, ReadFails(op, ok),
           spc = "idle", UNCHANGED sessionVars
    PROVE  JInv'
<1>1. /\ Handler(<<op, ok>>) /\ errors' \in {errors, errors \cup {"read"}}
      /\ connState' = AfterClose /\ tasks' = WithClose(tasks)
      /\ timers' = timers \ {"read"} /\ handlers' = Tail(handlers)
      /\ UNCHANGED <<msgState, encoded, outBuf, fresh, connRefs, protoRefs, socket,
                     pendingRead, pendingWrite, ops>>
  BY DEF ReadFails, poolVars
<1>2. UNCHANGED <<kind, proto, attached, first, player, due, spc, dpc, batch, raced>>
  BY DEF sessionVars
<1>3. /\ connState # "new"
      /\ handlers' \in Seq(Handlers) /\ StopIsLast(handlers')
      /\ Stops(handlers') = Stops(handlers) /\ Reads(handlers') = Reads(handlers) - 1
      /\ Writes(handlers') = Writes(handlers)
      /\ Reads(handlers') \in Nat /\ Stops(handlers') \in Nat /\ Writes(handlers') \in Nat
  BY <1>1, ReadEnds, Numbers DEF JInv
<1>4. /\ TypeOK /\ N \in Nat /\ W \in Nat /\ (\A x : Posted(x) \in Nat) /\ MsgIsNoCall
      /\ Stops(handlers) \in Nat /\ Reads(handlers) \in Nat /\ Writes(handlers) \in Nat
  BY Numbers, NoMessageIsACall DEF JInv
<1>5. Asked(tasks)
  BY Numbers DEF Asked, JInv, Counts, Posted
<1>6. /\ tasks' \in Seq(Task) /\ InOrder(tasks')
      /\ \A x : x # "closeConnection" => Posted(x)' = Posted(x)
      /\ Posted("closeConnection")' = IF connState' = "requestClose" THEN 1 ELSE 0
      /\ connState' \in {"requestClose", "closed"}
      /\ connState' = "closed" <=> connState = "closed"
  BY <1>1, <1>5, CloseAsks DEF Posted
<1>7. N' = N /\ W' = W
  BY <1>1 DEF N, W
<1>12. /\ Pending("connect")' = Pending("connect")
       /\ Pending("releaseConnection")' = Pending("releaseConnection")
       /\ Pending("releaseProtocol")' = Pending("releaseProtocol")
       /\ Posted("login")' = Posted("login")
  BY <1>2, <1>6 DEF Pending
<1>8. TypeOK'
  BY <1>1, <1>2, <1>3, <1>4, <1>6
  DEF TypeOK, PoolTypeOK, ConnTypeOK, Task, Handlers
<1>9. MessagesAgree'
  BY <1>1, <1>2, <1>4, <1>6
  DEF JInv, MessagesAgree, ReleasedArePosted, BatchWaits, BufferIsNotEncoded, Allocated,
      Waiting, MsgIsNoCall, Calls
<1>10. Counts'
  BY <1>1, <1>2, <1>3, <1>4, <1>6, <1>7, <1>12 DEF JInv, Counts
<1>11. LifeAgrees'
  BY <1>1, <1>2, <1>3, <1>4, <1>6, <1>12
  DEF JInv, LifeAgrees, NewIsBlank, SocketAgrees, AttachedAgrees, LoginsAreFew, OneReadIs,
      ReadsAre
<1>. QED
  BY <1>8, <1>9, <1>10, <1>11 DEF JInv

\* What JInv says of the lists and of the messages.
Figures ==
    /\ TypeOK /\ MsgIsNoCall /\ Asked(tasks)
    /\ tasks \in Seq(Task) /\ InOrder(tasks)
    /\ handlers \in Seq(Handlers) /\ StopIsLast(handlers)
    /\ msgState \in [Msg -> MsgStates]
    /\ N \in Nat /\ W \in Nat
    /\ (\A x : Posted(x) \in Nat) /\ (\A e : Pending(e) \in Nat)
    /\ Stops(handlers) \in Nat /\ Reads(handlers) \in Nat /\ Writes(handlers) \in Nat
    /\ (N = 0 <=> Allocated = {})

\* (Base is cited once in each proof that follows.)
LEMMA Base ==
    ASSUME JInv
    PROVE  Figures
<1>1. \A e : Pending(e) \in Nat
  BY Numbers DEF Pending, JInv
<1>. QED
  BY <1>1, Numbers, NoMessageIsACall DEF Figures, Asked, JInv, Counts, Posted

LEMMA ParseUnknownKeeps ==
    ASSUME JInv, ParseUnknown
    PROVE  JInv'
<1>0. Figures
  BY Base
<1>1. /\ Readable("body") /\ connState = "open" /\ spc = "idle"
      /\ proto = "none" /\ first' = "yes" /\ pendingRead' = pendingRead - 1
      /\ connState' = AfterClose /\ tasks' = WithClose(tasks)
      /\ timers' = timers \ {"read"} /\ handlers' = Tail(handlers)
      /\ UNCHANGED <<msgState, encoded, outBuf, fresh, connRefs, protoRefs, socket,
                     pendingWrite, errors, ops, kind, proto, attached, player, due, spc,
                     dpc, batch, raced>>
  <2>1. spc = "idle"
    BY DEF JInv, TypeOK, ParseUnknown, ConnLockFree
  <2>. QED
    BY <2>1 DEF ParseUnknown, Readable, poolVars
<1>2. /\ handlers' \in Seq(Handlers) /\ StopIsLast(handlers')
      /\ Stops(handlers') = Stops(handlers) /\ Reads(handlers') = Reads(handlers) - 1
      /\ Writes(handlers') = Writes(handlers)
      /\ Reads(handlers') \in Nat /\ Stops(handlers') \in Nat /\ Writes(handlers') \in Nat
  BY <1>0, <1>1, ReadableEnds DEF Figures
<1>3. /\ tasks' \in Seq(Task) /\ InOrder(tasks')
      /\ \A x : x # "closeConnection" => Posted(x)' = Posted(x)
      /\ Posted("closeConnection")' = IF connState' = "requestClose" THEN 1 ELSE 0
      /\ connState' = "requestClose"
  BY <1>0, <1>1, CloseAsks DEF Figures, Posted
<1>4. N' = N /\ W' = W
  BY <1>1 DEF N, W
<1>5. /\ Pending("connect")' = Pending("connect")
       /\ Pending("releaseConnection")' = Pending("releaseConnection")
       /\ Pending("releaseProtocol")' = Pending("releaseProtocol")
       /\ Posted("login")' = Posted("login")
  BY <1>1, <1>3 DEF Pending
<1>6. pendingRead = 1
  BY <1>1 DEF JInv, LifeAgrees, OneReadIs
<1>7. TypeOK'
  BY <1>0, <1>1, <1>2, <1>3, <1>6
  DEF Figures, TypeOK, PoolTypeOK, ConnTypeOK, Task, Handlers
<1>8. MessagesAgree'
  BY <1>0, <1>1, <1>3
  DEF Figures, JInv, MessagesAgree, ReleasedArePosted, BatchWaits, BufferIsNotEncoded, Allocated,
      Waiting, MsgIsNoCall, Calls
<1>9. Counts'
  BY <1>0, <1>1, <1>2, <1>3, <1>4, <1>5 DEF Figures, JInv, Counts
<1>10. LifeAgrees'
  <2>1. OneReadIs'
    <3>1. OneReadIs /\ Reads(handlers) \in Nat
      BY <1>0 DEF Figures, JInv, LifeAgrees
    <3>. QED
      BY <1>1, <1>2, <1>3, <1>5, <3>1 DEF OneReadIs, ReadsAre
  <2>2. NewIsBlank' /\ SocketAgrees' /\ LoginsAreFew'
    BY <1>0, <1>1, <1>2, <1>3, <1>5
    DEF Figures, JInv, LifeAgrees, NewIsBlank, SocketAgrees, AttachedAgrees, LoginsAreFew
  <2>3. AttachedAgrees'
    BY <1>0, <1>1, <1>2, <1>3, <1>5 DEF Figures, JInv, LifeAgrees, AttachedAgrees
  <2>. QED
    BY <2>1, <2>2, <2>3 DEF LifeAgrees
<1>. QED
  BY <1>7, <1>8, <1>9, <1>10 DEF JInv

LEMMA ParsePacketKeeps ==
    ASSUME JInv, ParsePacket
    PROVE  JInv'
<1>0. Figures
  BY Base
<1>1. /\ Readable("body") /\ connState = "open" /\ spc = "idle"
      /\ first' = "yes"
      /\ ops' = ops \cup {"header"} /\ timers' = timers \cup {"read"}
      /\ handlers' = Tail(handlers)
      /\ UNCHANGED <<msgState, encoded, outBuf, fresh, connRefs, protoRefs, socket,
                     pendingRead, pendingWrite, errors, kind, player, due, spc, dpc,
                     batch, raced>>
  <2>1. spc = "idle"
    BY DEF JInv, TypeOK, ParsePacket, ConnLockFree
  <2>. QED
    BY <2>1 DEF ParsePacket, Readable, ReadNext, poolVars
<1>2. /\ handlers' \in Seq(Handlers) /\ StopIsLast(handlers')
      /\ Stops(handlers') = Stops(handlers) /\ Reads(handlers') = Reads(handlers) - 1
      /\ Writes(handlers') = Writes(handlers)
      /\ Reads(handlers') \in Nat /\ Stops(handlers') \in Nat /\ Writes(handlers') \in Nat
  BY <1>0, <1>1, ReadableEnds DEF Figures
<1>3. proto' = "alive" /\ attached' = "yes" /\ proto \in {"none", "alive"}
  BY <1>0, <1>1 DEF Figures, ParsePacket, JInv, LifeAgrees, AttachedAgrees, TypeOK
<1>4. /\ tasks' \in Seq(Task) /\ InOrder(tasks')
      /\ \A x : x \notin {"login", "closeConnection"} => Posted(x)' = Posted(x)
      /\ Posted("closeConnection")' = IF connState' = "requestClose" THEN 1 ELSE 0
      /\ \/ Posted("login")' = Posted("login")
         \/ first = "no" /\ Posted("login")' = Posted("login") + 1
      /\ connState' \in {"open", "requestClose"}
  <2>1. CASE /\ kind = "game" /\ first = "no" /\ tasks' = Append(tasks, "login")
             /\ UNCHANGED connState
    <3>1. HowMany(tasks, {"closeConnection"}) = 0 /\ "login" \in Calls
      BY <1>0, <1>1 DEF Figures, Asked, Calls
    <3>2. OneMore(tasks', tasks, "login") /\ InOrder(tasks')
      BY <1>0, <2>1, <3>1, TaskIsLast DEF Figures
    <3>3. \A x : x # "login" => Posted(x)' = Posted(x)
      BY <3>2 DEF OneMore, Posted
    <3>4. Posted("login")' = Posted("login") + 1 /\ tasks' \in Seq(Task)
      BY <3>2 DEF OneMore, Posted
    <3>. QED
      BY <1>0, <1>1, <2>1, <3>1, <3>2, <3>3, <3>4 DEF Figures, Posted
  <2>2. CASE UNCHANGED <<tasks, connState>>
    BY <1>0, <1>1, <2>2 DEF Figures, Asked, Posted
  <2>3. CASE connState' = AfterClose /\ tasks' = WithClose(tasks)
    BY <1>0, <1>1, <2>3, CloseAsks DEF Figures, Posted
  <2>. QED
    BY <2>1, <2>2, <2>3 DEF ParsePacket
<1>5. N' = N /\ W' = W
  BY <1>1 DEF N, W
<1>6. /\ Pending("connect")' = Pending("connect")
      /\ Pending("releaseConnection")' = Pending("releaseConnection")
      /\ Pending("releaseProtocol")' = Pending("releaseProtocol")
  BY <1>1, <1>4 DEF Pending
<1>7. TypeOK'
  BY <1>0, <1>1, <1>2, <1>3, <1>4
  DEF Figures, TypeOK, PoolTypeOK, ConnTypeOK, Task, Handlers
<1>8. MessagesAgree'
  BY <1>0, <1>1, <1>4
  DEF Figures, JInv, MessagesAgree, ReleasedArePosted, BatchWaits, BufferIsNotEncoded, Allocated,
      Waiting, MsgIsNoCall, Calls
<1>9. Counts'
  <2>1. /\ Posted("closeConnection")' = IF connState' = "requestClose" THEN 1 ELSE 0
        /\ InOrder(tasks') /\ connState' # "closed" /\ connState # "closed"
    BY <1>1, <1>4
  <2>. QED
    BY <1>1, <1>2, <1>3, <1>5, <1>6, <2>1 DEF JInv, Counts
<1>10. LifeAgrees'
  <2>1. OneReadIs'
    <3>1. OneReadIs /\ Reads(handlers) \in Nat
      BY <1>0 DEF Figures, JInv, LifeAgrees
    <3>. QED
      BY <1>1, <1>2, <1>3, <1>4, <1>6, <3>1 DEF OneReadIs, ReadsAre
  <2>2. NewIsBlank' /\ SocketAgrees' /\ LoginsAreFew'
    BY <1>0, <1>1, <1>2, <1>3, <1>4, <1>6
    DEF Figures, JInv, LifeAgrees, NewIsBlank, SocketAgrees, AttachedAgrees, LoginsAreFew
  <2>3. AttachedAgrees'
    BY <1>0, <1>1, <1>2, <1>3, <1>4, <1>6 DEF Figures, JInv, LifeAgrees, AttachedAgrees
  <2>. QED
    BY <2>1, <2>2, <2>3 DEF LifeAgrees
<1>. QED
  BY <1>7, <1>8, <1>9, <1>10 DEF JInv

LEMMA ParseForReplyKeeps ==
    ASSUME JInv, ParseForReply
    PROVE  JInv'
<1>0. Figures
  BY Base
<1>1. /\ Readable("body") /\ connState = "open" /\ spc = "idle" /\ spc' = "reply"
      /\ first' = "yes" /\ proto' = "alive" /\ attached' = "yes"
      /\ timers' = timers \ {"read"} /\ handlers' = Tail(handlers)
      /\ UNCHANGED <<msgState, encoded, outBuf, fresh, connRefs, protoRefs, tasks, connState,
                     socket, pendingRead, pendingWrite, errors, ops, kind, player, due,
                     dpc, batch, raced>>
  BY DEF ParseForReply, Readable, poolVars
<1>2. /\ handlers' \in Seq(Handlers) /\ StopIsLast(handlers')
      /\ Stops(handlers') = Stops(handlers) /\ Reads(handlers') = Reads(handlers) - 1
      /\ Writes(handlers') = Writes(handlers)
      /\ Reads(handlers') \in Nat /\ Stops(handlers') \in Nat /\ Writes(handlers') \in Nat
  BY <1>0, <1>1, ReadableEnds DEF Figures
<1>3. proto \in {"none", "alive"}
  BY <1>0, <1>1 DEF Figures, JInv, LifeAgrees, AttachedAgrees, TypeOK
<1>4. tasks' \in Seq(Task) /\ InOrder(tasks') /\ \A x : Posted(x)' = Posted(x)
  BY <1>0, <1>1 DEF Figures, Posted
<1>5. N' = N /\ W' = W
  BY <1>1 DEF N, W
<1>6. /\ Pending("connect")' = Pending("connect")
       /\ Pending("releaseConnection")' = Pending("releaseConnection")
       /\ Pending("releaseProtocol")' = Pending("releaseProtocol")
       /\ Posted("login")' = Posted("login")
  BY <1>1, <1>4 DEF Pending
<1>7. TypeOK'
  BY <1>0, <1>1, <1>2, <1>4
  DEF Figures, TypeOK, PoolTypeOK, ConnTypeOK, Task, Handlers
<1>8. MessagesAgree'
  BY <1>0, <1>1, <1>4
  DEF Figures, JInv, MessagesAgree, ReleasedArePosted, BatchWaits, BufferIsNotEncoded, Allocated,
      Waiting, MsgIsNoCall, Calls
<1>9. Counts'
  BY <1>0, <1>1, <1>2, <1>3, <1>4, <1>5, <1>6 DEF Figures, JInv, Counts
<1>10. LifeAgrees'
  <2>1. OneReadIs'
    <3>1. OneReadIs /\ Reads(handlers) \in Nat
      BY <1>0 DEF Figures, JInv, LifeAgrees
    <3>. QED
      BY <1>1, <1>2, <1>3, <1>4, <1>6, <3>1 DEF OneReadIs, ReadsAre
  <2>2. NewIsBlank' /\ SocketAgrees' /\ LoginsAreFew'
    BY <1>0, <1>1, <1>2, <1>3, <1>4, <1>6
    DEF Figures, JInv, LifeAgrees, NewIsBlank, SocketAgrees, AttachedAgrees, LoginsAreFew
  <2>3. AttachedAgrees'
    BY <1>0, <1>1, <1>2, <1>3, <1>4, <1>6 DEF Figures, JInv, LifeAgrees, AttachedAgrees
  <2>. QED
    BY <2>1, <2>2, <2>3 DEF LifeAgrees
<1>. QED
  BY <1>7, <1>8, <1>9, <1>10 DEF JInv

\* A message of no one, or one that waits, is given to send.
Sent(m) ==
    /\ m \in Msg /\ msgState[m] \in {"free", "auto", "add"}
    /\ SendMsg(m) /\ SentWrite

LEMMA MessageIsSent ==
    ASSUME JInv, NEW m, Sent(m)
    PROVE  /\ SendResult \in {"released", "writing", "add"}
           /\ msgState' \in [Msg -> MsgStates] /\ msgState'[m] = SendResult
           /\ \A n \in Msg : n # m => msgState'[n] = msgState[n]
           /\ msgState[m] = "free" => N' = N + 1
           /\ msgState[m] # "free" => N' = N
           /\ SendResult = "writing" =>
                 /\ connState = "open" /\ W = 0 /\ W' = 1 /\ pendingWrite' = 1
                 /\ "write" \notin ops /\ Writes(handlers) = 0
           /\ SendResult # "writing" => W' = W /\ pendingWrite' = pendingWrite
           /\ encoded' \in SUBSET Msg /\ fresh' \in SUBSET Msg /\ outBuf' \in Msg \cup {NoMsg}
           /\ pendingWrite' \in Nat
           /\ BufferIsNotEncoded' /\ (encoded \subseteq Allocated)'
<1>0. Figures
  BY Base
<1>1. /\ m \in Msg /\ msgState[m] \in {"free", "auto", "add"}
      /\ msgState' = [msgState EXCEPT ![m] = SendResult]
      /\ SendResult = "add" => UNCHANGED <<encoded, outBuf>>
      /\ SendResult # "add" => Encode(m)
      /\ fresh' \in {fresh \cup {m}, fresh \ {m}}
      /\ pendingWrite' = IF SendResult = "writing" THEN pendingWrite + 1 ELSE pendingWrite
  BY DEF Sent, SendMsg, SentWrite
<1>2. /\ SendResult \in {"released", "writing", "add"}
      /\ SendResult = "writing" => connState = "open" /\ pendingWrite = 0
  BY DEF SendResult
<1>3. Moves(msgState, msgState', m, SendResult)
  BY <1>0, <1>1, <1>2 DEF Figures, Moves, MsgStates
<1>4. /\ msgState' \in [Msg -> MsgStates] /\ msgState'[m] = SendResult
      /\ \A n \in Msg : n # m => msgState'[n] = msgState[n]
      /\ msgState[m] = "free" => N' = N + 1
      /\ msgState[m] # "free" => N' = N
      /\ SendResult = "writing" => W' = W + 1
      /\ SendResult # "writing" => W' = W
  <2>1. PICK st : st = SendResult
    OBVIOUS
  <2>2. Moves(msgState, msgState', m, st)
    BY <1>3, <2>1
  <2>3. /\ msgState' \in [Msg -> MsgStates] /\ msgState'[m] = st
        /\ \A n \in Msg : n # m => msgState'[n] = msgState[n]
        /\ msgState[m] # "free" /\ st # "free"
              => AllocatedIn(msgState') = AllocatedIn(msgState)
        /\ msgState[m] = "free" /\ st # "free"
              => Cardinality(AllocatedIn(msgState')) = Cardinality(AllocatedIn(msgState)) + 1
        /\ msgState[m] # "writing" /\ st # "writing"
              => WritingIn(msgState') = WritingIn(msgState)
        /\ msgState[m] # "writing" /\ st = "writing"
              => Cardinality(WritingIn(msgState')) = Cardinality(WritingIn(msgState)) + 1
    BY <2>2, MessageMoves
  <2>. QED
    BY <1>1, <1>2, <2>1, <2>3 DEF N, W
<1>5. ASSUME SendResult = "writing"
      PROVE  /\ connState = "open" /\ W = 0 /\ W' = 1 /\ pendingWrite' = 1
             /\ "write" \notin ops /\ Writes(handlers) = 0
  <2>1. socket = "open"
    BY <1>2, <1>5 DEF JInv, LifeAgrees, SocketAgrees
  <2>2. W = 0 /\ W = (IF "write" \in ops THEN 1 ELSE 0) + Writes(handlers)
    BY <1>2, <1>5, <2>1 DEF JInv, Counts
  <2>. QED
    BY <1>0, <1>1, <1>2, <1>4, <1>5, <2>2 DEF Figures
<1>6. /\ encoded \in SUBSET Msg /\ fresh \in SUBSET Msg /\ outBuf \in Msg \cup {NoMsg}
      /\ pendingWrite \in Nat
  BY <1>0 DEF Figures, TypeOK, PoolTypeOK, ConnTypeOK
<1>7. /\ encoded' \in SUBSET Msg /\ fresh' \in SUBSET Msg /\ outBuf' \in Msg \cup {NoMsg}
      /\ pendingWrite' \in Nat
  BY <1>1, <1>6 DEF Encode
<1>8. encoded \subseteq Allocated /\ BufferIsNotEncoded
  BY DEF JInv, MessagesAgree, BatchWaits
<1>9. m \notin encoded
  BY <1>1, <1>8 DEF BufferIsNotEncoded, Waiting, Allocated
<1>10. BufferIsNotEncoded'
  <2>1. CASE SendResult = "add"
    BY <1>1, <1>4, <1>8, <1>9, <2>1 DEF BufferIsNotEncoded, Waiting
  <2>2. CASE SendResult # "add"
    BY <1>1, <1>2, <1>4, <1>8, <2>2 DEF BufferIsNotEncoded, Waiting, Encode
  <2>. QED
    BY <2>1, <2>2
<1>11. (encoded \subseteq Allocated)'
  BY <1>1, <1>2, <1>4, <1>8 DEF Allocated, Encode
<1>. QED
  BY <1>1, <1>2, <1>4, <1>5, <1>7, <1>10, <1>11

LEMMA SendAsks ==
    ASSUME NEW list, Asked(list), NEW m \in Msg
    PROVE  /\ Asked(SendList(m, list))
           /\ \A x : x # m => HowMany(SendList(m, list), {x}) = HowMany(list, {x})
           /\ SendResult = "released" => HowMany(SendList(m, list), {m}) = HowMany(list, {m}) + 1
           /\ SendResult # "released" => HowMany(SendList(m, list), {m}) = HowMany(list, {m})
<1>1. list \in Seq(Task) /\ InOrder(list) /\ m # "closeConnection"
  BY NoMessageIsACall DEF Asked, MsgIsNoCall, Calls
<1>2. /\ SendList(m, list) \in Seq(Task) /\ InOrder(SendList(m, list))
      /\ SendResult = "released" => OneMore(SendList(m, list), list, m)
      /\ SendResult # "released" => SendList(m, list) = list
  BY <1>1, ReleaseIsFirst
<1>3. CASE SendResult # "released"
  BY <1>2, <1>3
<1>4. CASE SendResult = "released"
  <2>1. /\ HowMany(SendList(m, list), {m}) = HowMany(list, {m}) + 1
        /\ \A x : x # m => HowMany(SendList(m, list), {x}) = HowMany(list, {x})
    BY <1>2, <1>4, Zenon DEF OneMore
  <2>2. HowMany(SendList(m, list), {"closeConnection"}) = HowMany(list, {"closeConnection"})
    BY <1>1, <2>1
  <2>. QED
    BY <1>2, <1>4, <2>1, <2>2 DEF Asked
<1>. QED
  BY <1>3, <1>4

\* After send, and after a close if there is one.
Listed(list, m, st, asking) ==
    /\ tasks' \in Seq(Task) /\ InOrder(tasks')
    /\ \A x : x \notin {"closeConnection", m} => Posted(x)' = HowMany(list, {x})
    /\ Posted(m)' = HowMany(list, {m}) + IF st = "released" THEN 1 ELSE 0
    /\ Posted("closeConnection")' = IF connState' = "requestClose" THEN 1 ELSE 0
    /\ connState' \in {"requestClose", "closed"} \cup {asking}
    /\ connState' = "closed" <=> connState = "closed"

LEMMA SendThenClose ==
    ASSUME NEW list, Asked(list), NEW m \in Msg, HowMany(list, {m}) \in Nat,
           connState' = AfterClose, tasks' = WithClose(SendList(m, list))
    PROVE  Listed(list, m, SendResult, "closed")
<1>1. m # "closeConnection"
  BY NoMessageIsACall DEF MsgIsNoCall, Calls
<1>2. PICK next : next = SendList(m, list)
  OBVIOUS
<1>3. /\ Asked(next)
      /\ \A x : x # m => HowMany(next, {x}) = HowMany(list, {x})
      /\ HowMany(next, {m}) = HowMany(list, {m}) + IF SendResult = "released" THEN 1 ELSE 0
  BY <1>2, SendAsks
<1>4. /\ tasks' \in Seq(Task) /\ InOrder(tasks')
      /\ \A x : x # "closeConnection" => HowMany(tasks', {x}) = HowMany(next, {x})
      /\ HowMany(tasks', {"closeConnection"}) = IF connState' = "requestClose" THEN 1 ELSE 0
      /\ connState' \in {"requestClose", "closed"}
      /\ connState' = "closed" <=> connState = "closed"
  BY <1>2, <1>3, CloseAsks
<1>. QED
  BY <1>1, <1>3, <1>4 DEF Listed, Posted

LEMMA SendOnly ==
    ASSUME NEW list, Asked(list), NEW m \in Msg, HowMany(list, {m}) \in Nat,
           connState' = connState, tasks' = SendList(m, list)
    PROVE  Listed(list, m, SendResult, connState)
<1>1. m # "closeConnection"
  BY NoMessageIsACall DEF MsgIsNoCall, Calls
<1>2. PICK next : next = SendList(m, list)
  OBVIOUS
<1>3. /\ Asked(next)
      /\ \A x : x # m => HowMany(next, {x}) = HowMany(list, {x})
      /\ HowMany(next, {m}) = HowMany(list, {m}) + IF SendResult = "released" THEN 1 ELSE 0
  BY <1>2, SendAsks
<1>. QED
  BY <1>1, <1>2, <1>3 DEF Listed, Posted, Asked

LEMMA ReplyKeeps ==
    ASSUME JInv, Reply
    PROVE  JInv'
<1>0. Figures
  BY Base
<1>1. PICK m \in Msg \ Allocated, ci \in Increments, pi \in Increments :
        /\ SendMsg(m)
        /\ AddRefs(ci, pi)
        /\ raced' = (raced \/ ci # 1 \/ pi # 1)
        /\ \/ /\ connState' = AfterClose /\ tasks' = WithClose(SendList(m, tasks))
           \/ /\ kind = "other"
              /\ tasks' = SendList(m, tasks)
              /\ UNCHANGED connState
  BY DEF Reply
<1>2. /\ spc = "reply" /\ spc' = "idle" /\ connState = "open" /\ attached = "yes"
      /\ proto = "alive" /\ SentWrite
      /\ ops' = ops \cup {"header"} \cup SendOps
      /\ timers' = timers \cup {"read"} \cup SendOps
      /\ UNCHANGED <<socket, pendingRead, errors, handlers, kind, proto, attached, first,
                     player, due, dpc, batch>>
  BY DEF Reply, JInv, LifeAgrees, AttachedAgrees
<1>3. m \in Msg /\ msgState[m] = "free" /\ Sent(m)
  BY <1>1, <1>2 DEF Sent, Allocated
<1>4. /\ SendResult \in {"released", "writing", "add"}
      /\ msgState' \in [Msg -> MsgStates] /\ msgState'[m] = SendResult
      /\ \A n \in Msg : n # m => msgState'[n] = msgState[n]
      /\ N' = N + 1
      /\ SendResult = "writing" =>
            /\ connState = "open" /\ W = 0 /\ W' = 1 /\ pendingWrite' = 1
            /\ "write" \notin ops /\ Writes(handlers) = 0
      /\ SendResult # "writing" => W' = W /\ pendingWrite' = pendingWrite
      /\ encoded' \in SUBSET Msg /\ fresh' \in SUBSET Msg /\ outBuf' \in Msg \cup {NoMsg}
      /\ pendingWrite' \in Nat
      /\ BufferIsNotEncoded' /\ (encoded \subseteq Allocated)'
  BY <1>3, MessageIsSent
<1>5. /\ SendOps \subseteq {"write"}
      /\ SendResult = "writing" => "write" \in ops'
      /\ SendResult # "writing" => ("write" \in ops' <=> "write" \in ops)
      /\ "header" \in ops' /\ ("body" \in ops' <=> "body" \in ops)
  BY <1>2 DEF SendOps
<1>6. /\ tasks' \in Seq(Task) /\ InOrder(tasks')
      /\ \A x : x \notin {"closeConnection", m} => Posted(x)' = Posted(x)
      /\ Posted(m)' = Posted(m) + IF SendResult = "released" THEN 1 ELSE 0
      /\ Posted("closeConnection")' = IF connState' = "requestClose" THEN 1 ELSE 0
      /\ connState' \in {"requestClose", "open"}
  <2>1. Asked(tasks) /\ HowMany(tasks, {m}) = Posted(m) /\ Posted(m) \in Nat
    BY <1>0 DEF Figures, Posted
  <2>2. Listed(tasks, m, SendResult, "closed") \/ Listed(tasks, m, SendResult, connState)
    BY <1>1, <1>3, <2>1, SendThenClose, SendOnly
  <2>. QED
    BY <1>2, <2>1, <2>2 DEF Listed, Posted
<1>7. /\ Posted("connect")' = Posted("connect") /\ Posted("login")' = Posted("login")
      /\ Posted("releaseConnection")' = Posted("releaseConnection")
      /\ Posted("releaseProtocol")' = Posted("releaseProtocol")
  BY <1>3, <1>6, NoMessageIsACall DEF MsgIsNoCall, Calls
<1>8. /\ Pending("connect")' = Pending("connect")
      /\ Pending("releaseConnection")' = Pending("releaseConnection")
      /\ Pending("releaseProtocol")' = Pending("releaseProtocol")
  BY <1>2, <1>7 DEF Pending
<1>9. /\ ci \in Int /\ pi \in Int /\ raced' \in BOOLEAN
      /\ ~raced' => ~raced /\ connRefs' = connRefs + 1 /\ protoRefs' = protoRefs + 1
      /\ connRefs' = connRefs + ci /\ protoRefs' = protoRefs + pi
  <2>1. ci \in Int /\ pi \in Int
    BY <1>1, LostUpdatesAssumption DEF Increments
  <2>. QED
    BY <1>1, <2>1 DEF AddRefs
<1>10. TypeOK'
  BY <1>0, <1>2, <1>4, <1>5, <1>6, <1>9
  DEF Figures, TypeOK, PoolTypeOK, ConnTypeOK, Task, Handlers, MsgStates
<1>11. MessagesAgree'
  <2>1. ReleasedArePosted'
    <3>1. \A n \in Msg : Posted(n) = IF msgState[n] = "released" THEN 1 ELSE 0
      BY DEF JInv, MessagesAgree, ReleasedArePosted
    <3>2. \A n \in Msg : n # m => Posted(n)' = Posted(n)
      BY <1>6, NoMessageIsACall DEF MsgIsNoCall, Calls
    <3>. QED
      BY <1>3, <1>4, <1>6, <3>1, <3>2 DEF ReleasedArePosted
  <2>2. BatchWaits'
    BY <1>0, <1>2, <1>3, <1>4 DEF Figures, TypeOK, JInv, MessagesAgree, BatchWaits
  <2>. QED
    BY <1>4, <2>1, <2>2 DEF MessagesAgree
<1>12. Counts'
  <2>1. Stops(handlers) = 0 /\ socket = "open"
    BY <1>0, <1>2 DEF Figures, JInv, Counts, LifeAgrees, SocketAgrees
  <2>2. Posted("closeConnection")' = IF connState' = "requestClose" THEN 1 ELSE 0
    BY <1>6
  <2>3. W' = (IF "write" \in ops' THEN 1 ELSE 0) + Writes(handlers') /\ W' <= 1
        /\ (socket' = "open" => pendingWrite' = W')
    <3>1. /\ handlers' = handlers /\ W \in Nat /\ W <= 1 /\ pendingWrite = W
          /\ W = (IF "write" \in ops THEN 1 ELSE 0) + Writes(handlers)
      BY <1>0, <1>2, <2>1 DEF Figures, JInv, Counts
    <3>2. CASE SendResult = "writing"
      BY <1>4, <1>5, <3>1, <3>2
    <3>3. CASE SendResult # "writing"
      BY <1>4, <1>5, <3>1, <3>3
    <3>. QED
      BY <3>2, <3>3
  <2>4. ~raced' => connRefs' = N' /\ protoRefs' = N' + Pending("connect")'
    BY <1>0, <1>4, <1>8, <1>9 DEF Figures, JInv, Counts
  <2>5. (Pending("releaseConnection") + Stops(handlers) + (IF socket = "deleted" THEN 1 ELSE 0)
           = IF connState = "closed" THEN 1 ELSE 0)'
    BY <1>2, <1>6, <1>8, <2>1 DEF JInv, Counts
  <2>. QED
    BY <1>0, <1>2, <1>6, <2>1, <2>2, <2>3, <2>4, <2>5 DEF Figures, Counts
<1>13. LifeAgrees'
  <2>1. OneReadIs'
    <3>1. OneReadIs /\ Reads(handlers) \in Nat
      BY <1>0 DEF Figures, JInv, LifeAgrees
    <3>. QED
      BY <1>2, <1>5, <3>1 DEF OneReadIs, ReadsAre
  <2>2. SocketAgrees'
    BY <1>2, <1>6 DEF JInv, LifeAgrees, SocketAgrees
  <2>3. NewIsBlank' /\ LoginsAreFew'
    BY <1>2, <1>6, <1>7, <1>8 DEF JInv, LifeAgrees, NewIsBlank, LoginsAreFew
  <2>4. AttachedAgrees'
    BY <1>2, <1>6, <1>8 DEF JInv, LifeAgrees, AttachedAgrees
  <2>. QED
    BY <2>1, <2>2, <2>3, <2>4 DEF LifeAgrees
<1>. QED
  BY <1>10, <1>11, <1>12, <1>13 DEF JInv

\* Closing the socket, with the queue at q: every operation ends.
Closable(q, more) ==
    /\ q \in Seq(Handlers) /\ StopIsLast(q) /\ (Stops(q) = 0 \/ connState = "closed")
    /\ more \in Seq(Handlers) /\ StopIsLast(more) /\ Reads(more) = 0 /\ Writes(more) = 0

LEMMA SocketCloses ==
    ASSUME JInv, NEW q, NEW more, Closable(q, more), CloseSocket(q, more)
    PROVE  /\ handlers' \in Seq(Handlers) /\ StopIsLast(handlers')
           /\ Stops(handlers') = Stops(q) + Stops(more)
           /\ Reads(handlers') = Reads(q) + (IF "header" \in ops THEN 1 ELSE 0)
                                          + (IF "body" \in ops THEN 1 ELSE 0)
           /\ Writes(handlers') = Writes(q) + IF "write" \in ops THEN 1 ELSE 0
           /\ ops' = {} /\ pendingWrite' = 0 /\ pendingRead' \in 0 .. 1
           /\ socket' \in {"closed", "deleted"}
           /\ socket' = "deleted" <=> socket = "deleted"
<1>0. Figures
  BY Base
<1>1. /\ q \in Seq(Handlers) /\ StopIsLast(q) /\ (Stops(q) = 0 \/ connState = "closed")
      /\ more \in Seq(Handlers) /\ StopIsLast(more) /\ Reads(more) = 0 /\ Writes(more) = 0
      /\ Stops(q) \in Nat /\ Reads(q) \in Nat /\ Writes(q) \in Nat /\ Stops(more) \in Nat
  BY QueueCounts DEF Closable
<1>2. /\ socket \in {"open", "closed", "deleted"} /\ pendingRead \in 0 .. 1
      /\ socket # "open" => ops = {} /\ pendingWrite = 0
      /\ connState = "closed" => socket # "open"
  BY <1>0 DEF Figures, JInv, LifeAgrees, SocketAgrees, TypeOK, ConnTypeOK
<1>3. /\ Aborted \in Seq(Handlers) /\ StopIsLast(Aborted) /\ Stops(Aborted) = 0
      /\ Reads(Aborted) = (IF "header" \in ops THEN 1 ELSE 0) + (IF "body" \in ops THEN 1 ELSE 0)
      /\ Writes(Aborted) = IF "write" \in ops THEN 1 ELSE 0
  BY AbortedAll
<1>4. Stops(q) = 0 \/ Reads(Aborted) + Writes(Aborted) = 0
  BY <1>1, <1>2, <1>3
<1>5. PICK list : list = q \o Aborted
  OBVIOUS
<1>6. /\ list \in Seq(Handlers) /\ StopIsLast(list)
      /\ Stops(list) = Stops(q) /\ Reads(list) = Reads(q) + Reads(Aborted)
      /\ Writes(list) = Writes(q) + Writes(Aborted)
  <2>1. /\ q \o Aborted \in Seq(Handlers) /\ StopIsLast(q \o Aborted)
        /\ Stops(q \o Aborted) = Stops(q) + Stops(Aborted)
        /\ Reads(q \o Aborted) = Reads(q) + Reads(Aborted)
        /\ Writes(q \o Aborted) = Writes(q) + Writes(Aborted)
    BY <1>1, <1>3, <1>4, QueueTogether
  <2>. QED
    BY <1>1, <1>3, <1>5, <2>1
<1>7. /\ list \o more \in Seq(Handlers) /\ StopIsLast(list \o more)
      /\ Stops(list \o more) = Stops(list) + Stops(more)
      /\ Reads(list \o more) = Reads(list) + Reads(more)
      /\ Writes(list \o more) = Writes(list) + Writes(more)
  BY <1>1, <1>6, QueueTogether
<1>8. handlers' = list \o more
  BY <1>5 DEF CloseSocket
<1>9. /\ handlers' \in Seq(Handlers) /\ StopIsLast(handlers')
      /\ Stops(handlers') = Stops(list) + Stops(more)
      /\ Reads(handlers') = Reads(list) + Reads(more)
      /\ Writes(handlers') = Writes(list) + Writes(more)
  BY <1>7, <1>8, Zenon
<1>10. /\ Reads(handlers') = Reads(q) + (IF "header" \in ops THEN 1 ELSE 0)
                                      + (IF "body" \in ops THEN 1 ELSE 0)
       /\ Writes(handlers') = Writes(q) + IF "write" \in ops THEN 1 ELSE 0
       /\ Stops(handlers') = Stops(q) + Stops(more)
  BY <1>1, <1>3, <1>6, <1>9
<1>11. CASE socket = "open"
  BY <1>9, <1>10, <1>11 DEF CloseSocket
<1>12. CASE socket # "open"
  BY <1>2, <1>9, <1>10, <1>12 DEF CloseSocket
<1>. QED
  BY <1>11, <1>12

LEMMA SocketOnlyCloses ==
    ASSUME JInv, NEW q \in Seq(Handlers), StopIsLast(q), Stops(q) = Stops(handlers),
           CloseSocket(q, <<>>)
    PROVE  /\ handlers' \in Seq(Handlers) /\ StopIsLast(handlers')
           /\ Stops(handlers') = Stops(handlers)
           /\ Reads(handlers') = Reads(q) + (IF "header" \in ops THEN 1 ELSE 0)
                                          + (IF "body" \in ops THEN 1 ELSE 0)
           /\ Writes(handlers') = Writes(q) + IF "write" \in ops THEN 1 ELSE 0
           /\ ops' = {} /\ pendingWrite' = 0 /\ pendingRead' \in 0 .. 1
           /\ socket' \in {"closed", "deleted"}
           /\ (socket' = "deleted" <=> socket = "deleted")
           /\ socket = "deleted" => ops = {}
<1>0. Figures
  BY Base
<1>1. PICK more : more = <<>>
  OBVIOUS
<1>2. CloseSocket(q, more)
  BY <1>1
<1>3. /\ more \in Seq(Handlers) /\ StopIsLast(more)
      /\ Stops(more) = 0 /\ Reads(more) = 0 /\ Writes(more) = 0
  BY <1>1, QueueIsEmpty
<1>4. Stops(q) \in Nat /\ Stops(handlers) \in Nat
  BY <1>0 DEF Figures
<1>5. Stops(q) = 0 \/ connState = "closed"
  BY <1>0, <1>4 DEF Figures, JInv, Counts
<1>6. Closable(q, more)
  BY <1>3, <1>5 DEF Closable
<1>7. /\ handlers' \in Seq(Handlers) /\ StopIsLast(handlers')
      /\ Stops(handlers') = Stops(q) + Stops(more)
      /\ Reads(handlers') = Reads(q) + (IF "header" \in ops THEN 1 ELSE 0)
                                     + (IF "body" \in ops THEN 1 ELSE 0)
      /\ Writes(handlers') = Writes(q) + IF "write" \in ops THEN 1 ELSE 0
      /\ ops' = {} /\ pendingWrite' = 0 /\ pendingRead' \in 0 .. 1
      /\ socket' \in {"closed", "deleted"}
      /\ (socket' = "deleted" <=> socket = "deleted")
  BY <1>2, <1>6, SocketCloses
<1>8. socket = "deleted" => ops = {}
  BY DEF JInv, LifeAgrees, SocketAgrees
<1>. QED
  BY <1>3, <1>4, <1>7, <1>8

LEMMA ParseHeaderKeeps ==
    ASSUME JInv, ParseHeader, spc = "idle", UNCHANGED sessionVars
    PROVE  JInv'
<1>0. Figures
  BY Base
<1>1. /\ Readable("header") /\ connState = "open" /\ spc = "idle"
      /\ ops' = ops \cup {"body"} /\ timers' = timers \cup {"read"}
      /\ handlers' = Tail(handlers)
      /\ UNCHANGED <<msgState, encoded, outBuf, fresh, connRefs, protoRefs, tasks, connState,
                     socket, pendingRead, pendingWrite, errors, kind, proto, attached, first,
                     player, due, spc, dpc, batch, raced>>
  BY DEF ParseHeader, Readable, ReadNext, poolVars, sessionVars
<1>2. /\ handlers' \in Seq(Handlers) /\ StopIsLast(handlers')
      /\ Stops(handlers') = Stops(handlers) /\ Reads(handlers') = Reads(handlers) - 1
      /\ Writes(handlers') = Writes(handlers)
      /\ Reads(handlers') \in Nat /\ Stops(handlers') \in Nat /\ Writes(handlers') \in Nat
  BY <1>0, <1>1, ReadableEnds DEF Figures
<1>4. tasks' \in Seq(Task) /\ InOrder(tasks') /\ \A x : Posted(x)' = Posted(x)
  BY <1>0, <1>1 DEF Figures, Posted
<1>5. N' = N /\ W' = W
  BY <1>1 DEF N, W
<1>6. /\ Pending("connect")' = Pending("connect")
       /\ Pending("releaseConnection")' = Pending("releaseConnection")
       /\ Pending("releaseProtocol")' = Pending("releaseProtocol")
       /\ Posted("login")' = Posted("login")
  BY <1>1, <1>4 DEF Pending
<1>7. TypeOK'
  BY <1>0, <1>1, <1>2, <1>4
  DEF Figures, TypeOK, PoolTypeOK, ConnTypeOK, Task, Handlers
<1>8. MessagesAgree'
  BY <1>0, <1>1, <1>4
  DEF Figures, JInv, MessagesAgree, ReleasedArePosted, BatchWaits, BufferIsNotEncoded, Allocated,
      Waiting, MsgIsNoCall, Calls
<1>9. Counts'
  <2>1. ("write" \in ops' <=> "write" \in ops) /\ socket = "open" /\ socket' = "open"
    BY <1>1 DEF JInv, LifeAgrees, SocketAgrees
  <2>2. Posted("closeConnection")' = IF connState' = "requestClose" THEN 1 ELSE 0
    BY <1>0, <1>1, <1>4 DEF Figures, Asked, Posted
  <2>. QED
    BY <1>1, <1>2, <1>4, <1>5, <1>6, <2>1, <2>2 DEF JInv, Counts
<1>10. LifeAgrees'
  <2>1. OneReadIs'
    <3>1. OneReadIs /\ Reads(handlers) \in Nat
      BY <1>0 DEF Figures, JInv, LifeAgrees
    <3>. QED
      BY <1>1, <1>2, <3>1 DEF OneReadIs, ReadsAre
  <2>2. NewIsBlank' /\ SocketAgrees' /\ LoginsAreFew'
    BY <1>0, <1>1, <1>4, <1>6
    DEF Figures, JInv, LifeAgrees, NewIsBlank, SocketAgrees, LoginsAreFew
  <2>3. AttachedAgrees'
    BY <1>0, <1>1, <1>4, <1>6 DEF Figures, JInv, LifeAgrees, AttachedAgrees
  <2>. QED
    BY <2>1, <2>2, <2>3 DEF LifeAgrees
<1>. QED
  BY <1>7, <1>8, <1>9, <1>10 DEF JInv

LEMMA OnWriteKeeps ==
    ASSUME JInv, NEW m \in Msg, NEW ok \in BOOLEAN, OnWrite(m, ok), spc = "idle",
           UNCHANGED sessionVars
    PROVE  JInv'
<1>0. Figures
  BY Base
<1>1. /\ Handler(<<"write", ok>>) /\ msgState[m] = "writing"
      /\ msgState' = [msgState EXCEPT ![m] = "written"]
      /\ errors' \in {errors, errors \cup {"write"}} /\ timers' = timers \ {"write"}
      /\ UNCHANGED <<encoded, outBuf, fresh, connRefs, protoRefs, kind, proto, attached, first,
                     player, due, spc, dpc, batch, raced>>
  BY DEF OnWrite, sessionVars, Writing
<1>2. /\ connState # "new"
      /\ Tail(handlers) \in Seq(Handlers) /\ StopIsLast(Tail(handlers))
      /\ Stops(Tail(handlers)) = Stops(handlers) /\ Reads(Tail(handlers)) = Reads(handlers)
      /\ Writes(Tail(handlers)) = Writes(handlers) - 1 /\ Writes(Tail(handlers)) \in Nat
  <2>1. PICK op \in Operations : op = "write"
    BY DEF Operations
  <2>2. Handler(<<op, ok>>)
    BY <1>1, <2>1
  <2>3. /\ connState # "new"
        /\ Tail(handlers) \in Seq(Handlers) /\ StopIsLast(Tail(handlers))
        /\ Stops(Tail(handlers)) \in Nat /\ Reads(Tail(handlers)) \in Nat
        /\ Writes(Tail(handlers)) \in Nat
        /\ OneHandler(op, Stops(handlers) - Stops(Tail(handlers)),
                      Reads(handlers) - Reads(Tail(handlers)),
                      Writes(handlers) - Writes(Tail(handlers)))
    BY <2>2, HandlerRuns
  <2>. QED
    BY <1>0, <2>1, <2>3 DEF OneHandler, Figures
<1>3. Moves(msgState, msgState', m, "written")
  BY <1>0, <1>1 DEF Figures, Moves, MsgStates
<1>4. /\ msgState' \in [Msg -> MsgStates] /\ msgState'[m] = "written"
      /\ \A n \in Msg : n # m => msgState'[n] = msgState[n]
      /\ N' = N /\ W' = W - 1
  BY <1>1, <1>3, MessageMoves DEF N, W
<1>5. W = 1 /\ W' = 0 /\ "write" \notin ops /\ Writes(Tail(handlers)) = 0
  BY <1>0, <1>2, <1>4 DEF Figures, JInv, Counts
<1>6. /\ handlers' \in Seq(Handlers) /\ StopIsLast(handlers')
      /\ Stops(handlers') = Stops(handlers) /\ Writes(handlers') = 0
      /\ "write" \notin ops'
      /\ Reads(handlers') + (IF "header" \in ops' THEN 1 ELSE 0)
                          + (IF "body" \in ops' THEN 1 ELSE 0)
           = Reads(handlers) + (IF "header" \in ops THEN 1 ELSE 0)
                             + (IF "body" \in ops THEN 1 ELSE 0)
      /\ Reads(handlers') \in Nat
      /\ ops' \subseteq ops /\ pendingRead' \in 0 .. 1 /\ pendingWrite' \in Nat
      /\ socket' \in {"open", "closed", "deleted"}
      /\ socket' = "deleted" => socket = "deleted" /\ ops = {}
      /\ socket = "deleted" => socket' = "deleted"
      /\ socket' = "open" => pendingWrite' = 0
      /\ socket' # "open" => ops' = {} /\ pendingWrite' = 0
      /\ tasks' \in Seq(Task) /\ InOrder(tasks')
      /\ \A x : x # "closeConnection" => Posted(x)' = Posted(x)
      /\ Posted("closeConnection")' = IF connState' = "requestClose" THEN 1 ELSE 0
      /\ connState' = "closed" <=> connState = "closed"
      /\ \/ connState' = "open" /\ connState = "open" /\ socket' = "open"
            /\ pendingRead' = pendingRead
         \/ connState' \in {"requestClose", "closed"} /\ socket' # "open"
  <2>1. CASE WriteIsLast
    <3>1. /\ CloseSocket(Tail(handlers), <<>>)
          /\ connState' = AfterClose /\ tasks' = WithClose(tasks)
      BY <2>1 DEF OnWrite
    <3>3. /\ handlers' \in Seq(Handlers) /\ StopIsLast(handlers')
          /\ Stops(handlers') = Stops(handlers)
          /\ Reads(handlers') = Reads(Tail(handlers)) + (IF "header" \in ops THEN 1 ELSE 0)
                                          + (IF "body" \in ops THEN 1 ELSE 0)
          /\ Writes(handlers') = Writes(Tail(handlers)) + IF "write" \in ops THEN 1 ELSE 0
          /\ ops' = {} /\ pendingWrite' = 0 /\ pendingRead' \in 0 .. 1
          /\ socket' \in {"closed", "deleted"}
          /\ (socket' = "deleted" <=> socket = "deleted")
          /\ socket = "deleted" => ops = {}
      BY <1>2, <3>1, SocketOnlyCloses
    <3>4. /\ tasks' \in Seq(Task) /\ InOrder(tasks')
          /\ \A x : x # "closeConnection" => Posted(x)' = Posted(x)
          /\ Posted("closeConnection")' = IF connState' = "requestClose" THEN 1 ELSE 0
          /\ connState' \in {"requestClose", "closed"}
          /\ connState' = "closed" <=> connState = "closed"
      BY <1>0, <3>1, CloseAsks DEF Figures, Posted
    <3>6. /\ Stops(handlers') = Stops(handlers) /\ Writes(handlers') = 0
          /\ Reads(handlers') = Reads(handlers) + (IF "header" \in ops THEN 1 ELSE 0)
                                                + (IF "body" \in ops THEN 1 ELSE 0)
      <4>1. Stops(handlers') = Stops(handlers)
        BY <3>3
      <4>2. Writes(handlers') = 0
        BY <1>5, <3>3
      <4>3. Reads(handlers') = Reads(handlers) + (IF "header" \in ops THEN 1 ELSE 0)
                                              + (IF "body" \in ops THEN 1 ELSE 0)
        BY <1>2, <3>3
      <4>. QED
        BY <4>1, <4>2, <4>3
    <3>7. /\ "write" \notin ops' /\ ops' \subseteq ops
          /\ "header" \notin ops' /\ "body" \notin ops' /\ Reads(handlers') \in Nat
      BY <1>0, <3>3, <3>6 DEF Figures
    <3>8. Reads(handlers') + (IF "header" \in ops' THEN 1 ELSE 0)
                           + (IF "body" \in ops' THEN 1 ELSE 0)
            = Reads(handlers) + (IF "header" \in ops THEN 1 ELSE 0)
                              + (IF "body" \in ops THEN 1 ELSE 0)
      BY <1>0, <3>6, <3>7 DEF Figures
    <3>. QED
      BY <3>3, <3>4, <3>6, <3>7, <3>8
  <2>2. CASE ~WriteIsLast
    <3>1. /\ connState = "open" /\ pendingWrite' = pendingWrite - 1
          /\ handlers' = Tail(handlers)
          /\ UNCHANGED <<tasks, connState, socket, pendingRead, ops>>
      BY <2>2 DEF OnWrite, WriteIsLast
    <3>2. socket = "open" /\ pendingWrite = 1 /\ pendingRead \in 0 .. 1
      BY <1>0, <1>5, <3>1 DEF Figures, JInv, Counts, LifeAgrees, SocketAgrees, TypeOK, ConnTypeOK
    <3>3. /\ tasks' \in Seq(Task) /\ InOrder(tasks')
          /\ \A x : Posted(x)' = Posted(x)
          /\ Posted("closeConnection")' = IF connState' = "requestClose" THEN 1 ELSE 0
      BY <1>0, <3>1 DEF Figures, Posted, Asked
    <3>. QED
      BY <1>0, <1>2, <1>5, <3>1, <3>2, <3>3 DEF Figures
  <2>. QED
    BY <2>1, <2>2
<1>7. /\ Pending("connect")' = Pending("connect")
       /\ Pending("releaseConnection")' = Pending("releaseConnection")
       /\ Pending("releaseProtocol")' = Pending("releaseProtocol")
       /\ Posted("login")' = Posted("login")
  BY <1>1, <1>6 DEF Pending
<1>8. TypeOK'
  BY <1>0, <1>1, <1>4, <1>6
  DEF Figures, TypeOK, PoolTypeOK, ConnTypeOK, Task, Handlers, MsgStates
<1>9. MessagesAgree'
  <2>1. ReleasedArePosted'
    BY <1>0, <1>1, <1>4, <1>6
    DEF Figures, MsgIsNoCall, Calls, JInv, MessagesAgree, ReleasedArePosted
  <2>2. BatchWaits' /\ BufferIsNotEncoded'
    BY <1>0, <1>1, <1>4
    DEF Figures, TypeOK, JInv, MessagesAgree, BatchWaits, BufferIsNotEncoded, Allocated, Waiting
  <2>. QED
    BY <2>1, <2>2 DEF MessagesAgree
<1>10. Counts'
  <2>1. /\ (Pending("releaseConnection") + Stops(handlers)
               + (IF socket = "deleted" THEN 1 ELSE 0) = IF connState = "closed" THEN 1 ELSE 0)'
        /\ W' <= 1 /\ (socket' = "open" => pendingWrite' = W')
        /\ W' = (IF "write" \in ops' THEN 1 ELSE 0) + Writes(handlers')
        /\ (socket' = "deleted" => Reads(handlers') = 0 /\ Writes(handlers') = 0)
    <3>1. (Pending("releaseConnection") + Stops(handlers)
               + (IF socket = "deleted" THEN 1 ELSE 0) = IF connState = "closed" THEN 1 ELSE 0)'
      BY <1>6, <1>7 DEF JInv, Counts
    <3>2. /\ W' <= 1 /\ (socket' = "open" => pendingWrite' = W')
          /\ W' = (IF "write" \in ops' THEN 1 ELSE 0) + Writes(handlers')
      BY <1>5, <1>6
    <3>3. socket' = "deleted" => Reads(handlers') = 0 /\ Writes(handlers') = 0
      <4>1. ASSUME socket' = "deleted"
            PROVE  Reads(handlers') = 0
        <5>1. socket = "deleted" /\ ops = {} /\ ops' = {} /\ Reads(handlers) = 0
          BY <1>6, <4>1 DEF JInv, Counts
        <5>. QED
          BY <1>6, <5>1
      <4>. QED
        BY <1>6, <4>1
    <3>. QED
      BY <3>1, <3>2, <3>3
  <2>2. /\ ~raced' => connRefs' = N' /\ protoRefs' = N' + Pending("connect")'
        /\ ~raced' /\ proto' = "deleted" => N' = 0 /\ Pending("connect")' = 0
        /\ ~raced' /\ (Stops(handlers') > 0 \/ socket' = "deleted") => N' = 0
    BY <1>1, <1>4, <1>6, <1>7 DEF JInv, Counts
  <2>. QED
    BY <1>6, <2>1, <2>2 DEF Counts
<1>11. LifeAgrees'
  <2>1. OneReadIs'
    <3>1. OneReadIs /\ Reads(handlers) \in Nat
      BY <1>0 DEF Figures, JInv, LifeAgrees
    <3>2. ReadsAre(Reads(handlers))' = ReadsAre(Reads(handlers))
      BY <1>1, <1>6, <3>1 DEF ReadsAre
    <3>. QED
      BY <1>6, <3>1, <3>2 DEF OneReadIs
  <2>2. NewIsBlank' /\ SocketAgrees' /\ LoginsAreFew'
    BY <1>0, <1>1, <1>6, <1>7
    DEF Figures, JInv, LifeAgrees, NewIsBlank, SocketAgrees, LoginsAreFew
  <2>3. AttachedAgrees'
    BY <1>0, <1>1, <1>6, <1>7 DEF Figures, JInv, LifeAgrees, AttachedAgrees
  <2>. QED
    BY <2>1, <2>2, <2>3 DEF LifeAgrees
<1>. QED
  BY <1>8, <1>9, <1>10, <1>11 DEF JInv

\* A message's release is posted to the front.
LEMMA ReleaseIsPosted ==
    ASSUME JInv, NEW m \in Msg, tasks' = ReleasedFirst(m), UNCHANGED <<connState, due>>
    PROVE  /\ tasks' \in Seq(Task) /\ InOrder(tasks')
           /\ Posted(m)' = Posted(m) + 1
           /\ \A x : x # m => Posted(x)' = Posted(x)
           /\ Posted("closeConnection")' = IF connState' = "requestClose" THEN 1 ELSE 0
           /\ Pending("connect")' = Pending("connect")
           /\ Pending("releaseConnection")' = Pending("releaseConnection")
           /\ Pending("releaseProtocol")' = Pending("releaseProtocol")
           /\ Posted("login")' = Posted("login")
<1>0. Figures
  BY Base
<1>1. OneMore(<<m>> \o tasks, tasks, m) /\ InOrder(<<m>> \o tasks)
  BY <1>0, TaskIsFirst DEF Figures
<1>2. /\ tasks' \in Seq(Task) /\ InOrder(tasks')
      /\ HowMany(tasks', {m}) = HowMany(tasks, {m}) + 1
      /\ \A x : x # m => HowMany(tasks', {x}) = HowMany(tasks, {x})
  BY <1>1, Zenon DEF OneMore, ReleasedFirst
<1>3. Posted(m)' = Posted(m) + 1 /\ \A x : x # m => Posted(x)' = Posted(x)
  BY <1>2 DEF Posted
<1>4. /\ Posted("closeConnection")' = Posted("closeConnection")
      /\ Posted("connect")' = Posted("connect") /\ Posted("login")' = Posted("login")
      /\ Posted("releaseConnection")' = Posted("releaseConnection")
      /\ Posted("releaseProtocol")' = Posted("releaseProtocol")
  BY <1>0, <1>3 DEF Figures, MsgIsNoCall, Calls
<1>5. /\ Pending("connect")' = Pending("connect")
      /\ Pending("releaseConnection")' = Pending("releaseConnection")
      /\ Pending("releaseProtocol")' = Pending("releaseProtocol")
  BY <1>4 DEF Pending
<1>6. Posted("closeConnection")' = IF connState' = "requestClose" THEN 1 ELSE 0
  BY <1>4 DEF JInv, Counts
<1>. QED
  BY <1>2, <1>3, <1>4, <1>5, <1>6

LEMMA LetGoKeeps ==
    ASSUME JInv, NEW m \in Msg, LetGo(m), UNCHANGED sessionVars
    PROVE  JInv'
<1>0. Figures
  BY Base
<1>1. /\ msgState[m] = "written" /\ msgState' = [msgState EXCEPT ![m] = "released"]
      /\ tasks' = ReleasedFirst(m)
      /\ UNCHANGED <<encoded, outBuf, fresh, connRefs, protoRefs, connState, socket,
                     pendingRead, pendingWrite, errors, ops, timers, handlers>>
      /\ UNCHANGED <<kind, proto, attached, first, player, due, spc, dpc, batch, raced>>
  BY DEF LetGo, Written, connVars, sessionVars
<1>2. Moves(msgState, msgState', m, "released")
  BY <1>0, <1>1 DEF Figures, Moves, MsgStates
<1>3. /\ msgState' \in [Msg -> MsgStates] /\ msgState'[m] = "released"
      /\ \A n \in Msg : n # m => msgState'[n] = msgState[n]
      /\ N' = N /\ W' = W
  BY <1>1, <1>2, MessageMoves DEF N, W
<1>4. /\ tasks' \in Seq(Task) /\ InOrder(tasks')
      /\ Posted(m)' = Posted(m) + 1
      /\ \A x : x # m => Posted(x)' = Posted(x)
      /\ Posted("closeConnection")' = IF connState' = "requestClose" THEN 1 ELSE 0
      /\ Pending("connect")' = Pending("connect")
      /\ Pending("releaseConnection")' = Pending("releaseConnection")
      /\ Pending("releaseProtocol")' = Pending("releaseProtocol")
      /\ Posted("login")' = Posted("login")
  BY <1>1, ReleaseIsPosted
<1>5. connState # "new"
  BY <1>1 DEF JInv, LifeAgrees, NewIsBlank, Allocated
<1>7. TypeOK'
  BY <1>0, <1>1, <1>3, <1>4
  DEF Figures, TypeOK, PoolTypeOK, ConnTypeOK, Task, Handlers, MsgStates
<1>8. MessagesAgree'
  <2>1. ReleasedArePosted'
    BY <1>1, <1>3, <1>4 DEF JInv, MessagesAgree, ReleasedArePosted
  <2>2. BatchWaits' /\ BufferIsNotEncoded'
    BY <1>0, <1>1, <1>3
    DEF Figures, TypeOK, JInv, MessagesAgree, BatchWaits, BufferIsNotEncoded, Allocated, Waiting
  <2>. QED
    BY <2>1, <2>2 DEF MessagesAgree
<1>9. Counts'
  BY <1>1, <1>3, <1>4 DEF JInv, Counts
<1>10. LifeAgrees'
  BY <1>1, <1>4, <1>5
  DEF JInv, LifeAgrees, NewIsBlank, SocketAgrees, AttachedAgrees, LoginsAreFew, OneReadIs,
      ReadsAre
<1>. QED
  BY <1>7, <1>8, <1>9, <1>10 DEF JInv

LEMMA OnTimeOutKeeps ==
    ASSUME JInv, NEW k \in {"read", "write"}, OnTimeOut(k), spc = "idle", UNCHANGED sessionVars
    PROVE  JInv'
<1>0. Figures
  BY Base
<1>1. /\ Handler(TimeOut(k))
      /\ UNCHANGED <<msgState, encoded, outBuf, fresh, connRefs, protoRefs, errors, timers>>
      /\ UNCHANGED <<kind, proto, attached, first, player, due, spc, dpc, batch, raced>>
      /\ \/ /\ CloseSocket(Tail(handlers), <<>>)
            /\ connState' = AfterClose /\ tasks' = WithClose(tasks)
         \/ /\ handlers' = Tail(handlers)
            /\ UNCHANGED <<connState, tasks, socket, pendingRead, pendingWrite, ops>>
  BY DEF OnTimeOut, poolVars, sessionVars
<1>2. /\ connState # "new"
      /\ Tail(handlers) \in Seq(Handlers) /\ StopIsLast(Tail(handlers))
      /\ Stops(Tail(handlers)) = Stops(handlers) /\ Reads(Tail(handlers)) = Reads(handlers)
      /\ Writes(Tail(handlers)) = Writes(handlers)
  <2>1. PICK op \in Operations, ok \in BOOLEAN :
            op \in {"readTimeout", "writeTimeout"} /\ Handler(<<op, ok>>)
    BY <1>1 DEF Operations, TimeOut
  <2>2. /\ connState # "new"
        /\ Tail(handlers) \in Seq(Handlers) /\ StopIsLast(Tail(handlers))
        /\ Stops(Tail(handlers)) \in Nat /\ Reads(Tail(handlers)) \in Nat
        /\ Writes(Tail(handlers)) \in Nat
        /\ OneHandler(op, Stops(handlers) - Stops(Tail(handlers)),
                      Reads(handlers) - Reads(Tail(handlers)),
                      Writes(handlers) - Writes(Tail(handlers)))
    BY <2>1, HandlerRuns
  <2>. QED
    BY <1>0, <2>1, <2>2 DEF OneHandler, Figures
<1>3. N' = N /\ W' = W
  BY <1>1 DEF N, W
<1>4. CASE CloseSocket(Tail(handlers), <<>>) /\ connState' = AfterClose /\ tasks' = WithClose(tasks)
  <2>1. /\ handlers' \in Seq(Handlers) /\ StopIsLast(handlers')
        /\ Stops(handlers') = Stops(handlers)
        /\ Reads(handlers') = Reads(Tail(handlers)) + (IF "header" \in ops THEN 1 ELSE 0)
                                        + (IF "body" \in ops THEN 1 ELSE 0)
        /\ Writes(handlers') = Writes(Tail(handlers)) + IF "write" \in ops THEN 1 ELSE 0
        /\ ops' = {} /\ pendingWrite' = 0 /\ pendingRead' \in 0 .. 1
        /\ socket' \in {"closed", "deleted"}
        /\ (socket' = "deleted" <=> socket = "deleted")
        /\ socket = "deleted" => ops = {}
    BY <1>2, <1>4, SocketOnlyCloses
  <2>2. /\ tasks' \in Seq(Task) /\ InOrder(tasks')
        /\ \A x : x # "closeConnection" => Posted(x)' = Posted(x)
        /\ Posted("closeConnection")' = IF connState' = "requestClose" THEN 1 ELSE 0
        /\ connState' \in {"requestClose", "closed"}
        /\ connState' = "closed" <=> connState = "closed"
    BY <1>0, <1>4, CloseAsks DEF Figures, Posted
  <2>3. /\ Pending("connect")' = Pending("connect")
       /\ Pending("releaseConnection")' = Pending("releaseConnection")
       /\ Pending("releaseProtocol")' = Pending("releaseProtocol")
       /\ Posted("login")' = Posted("login")
    BY <1>1, <2>2 DEF Pending
  <2>4. Writes(handlers') = W' /\ W' <= 1
    <3>1. W = (IF "write" \in ops THEN 1 ELSE 0) + Writes(handlers) /\ W <= 1
      BY DEF JInv, Counts
    <3>. QED
      BY <1>0, <1>2, <1>3, <2>1, <3>1 DEF Figures
  <2>5. Reads(handlers') = Reads(handlers) + (IF "header" \in ops THEN 1 ELSE 0)
                                           + (IF "body" \in ops THEN 1 ELSE 0)
    BY <1>2, <2>1
  <2>6. TypeOK'
    BY <1>0, <1>1, <2>1, <2>2
    DEF Figures, TypeOK, PoolTypeOK, ConnTypeOK, Task, Handlers
  <2>7. MessagesAgree'
    BY <1>0, <1>1, <2>2
    DEF Figures, JInv, MessagesAgree, ReleasedArePosted, BatchWaits, BufferIsNotEncoded,
        Allocated, Waiting, MsgIsNoCall, Calls
  <2>8. Counts'
    <3>1. socket' = "deleted" => Reads(handlers') = 0 /\ Writes(handlers') = 0
      <4>1. ASSUME socket' = "deleted"
            PROVE  Reads(handlers') = 0 /\ Writes(handlers') = 0
        <5>1. ops = {} /\ Reads(handlers) = 0 /\ Writes(handlers) = 0
          BY <2>1, <4>1 DEF JInv, Counts
        <5>2. Reads(handlers') = 0
          BY <2>5, <5>1
        <5>3. Writes(handlers') = 0
          BY <1>2, <2>1, <5>1
        <5>. QED
          BY <5>2, <5>3
      <4>. QED
        BY <4>1
    <3>2. W' = (IF "write" \in ops' THEN 1 ELSE 0) + Writes(handlers')
      BY <1>0, <1>3, <2>1, <2>4 DEF Figures
    <3>3. (Pending("releaseConnection") + Stops(handlers)
               + (IF socket = "deleted" THEN 1 ELSE 0) = IF connState = "closed" THEN 1 ELSE 0)'
      BY <2>1, <2>2, <2>3 DEF JInv, Counts
    <3>4. /\ ~raced' => connRefs' = N' /\ protoRefs' = N' + Pending("connect")'
          /\ ~raced' /\ proto' = "deleted" => N' = 0 /\ Pending("connect")' = 0
          /\ ~raced' /\ (Stops(handlers') > 0 \/ socket' = "deleted") => N' = 0
      BY <1>1, <1>3, <2>1, <2>3 DEF JInv, Counts
    <3>. QED
      BY <2>1, <2>2, <2>4, <3>1, <3>2, <3>3, <3>4 DEF Counts
  <2>9. LifeAgrees'
    <3>1. OneReadIs'
      <4>1. ReadsAre(Reads(handlers)) <= 1 /\ Reads(handlers) \in Nat
        BY <1>0 DEF Figures, JInv, LifeAgrees, OneReadIs
      <4>2. ReadsAre(Reads(handlers))' = ReadsAre(Reads(handlers))
        BY <1>1, <2>1, <2>5, <4>1 DEF ReadsAre
      <4>. QED
        BY <2>2, <4>1, <4>2 DEF OneReadIs
    <3>2. NewIsBlank' /\ SocketAgrees' /\ LoginsAreFew'
      BY <1>0, <1>1, <2>1, <2>2, <2>3
      DEF Figures, JInv, LifeAgrees, NewIsBlank, SocketAgrees, LoginsAreFew
    <3>3. AttachedAgrees'
      BY <1>0, <1>1, <2>2, <2>3 DEF Figures, JInv, LifeAgrees, AttachedAgrees
    <3>. QED
      BY <3>1, <3>2, <3>3 DEF LifeAgrees
  <2>. QED
    BY <2>6, <2>7, <2>8, <2>9 DEF JInv
<1>5. CASE /\ handlers' = Tail(handlers)
           /\ UNCHANGED <<connState, tasks, socket, pendingRead, pendingWrite, ops>>
  <2>1. /\ handlers' \in Seq(Handlers) /\ StopIsLast(handlers')
        /\ Stops(handlers') = Stops(handlers) /\ Reads(handlers') = Reads(handlers)
        /\ Writes(handlers') = Writes(handlers)
    BY <1>2, <1>5
  <2>2. tasks' \in Seq(Task) /\ InOrder(tasks') /\ \A x : Posted(x)' = Posted(x)
    BY <1>0, <1>5 DEF Figures, Posted
  <2>3. /\ Pending("connect")' = Pending("connect")
       /\ Pending("releaseConnection")' = Pending("releaseConnection")
       /\ Pending("releaseProtocol")' = Pending("releaseProtocol")
       /\ Posted("login")' = Posted("login")
    BY <1>1, <2>2 DEF Pending
  <2>4. TypeOK'
    BY <1>0, <1>1, <1>5, <2>1, <2>2
    DEF Figures, TypeOK, PoolTypeOK, ConnTypeOK, Task, Handlers
  <2>5. MessagesAgree'
    BY <1>0, <1>1, <2>2
    DEF Figures, JInv, MessagesAgree, ReleasedArePosted, BatchWaits, BufferIsNotEncoded,
        Allocated, Waiting, MsgIsNoCall, Calls
  <2>6. Counts'
    BY <1>0, <1>1, <1>3, <1>5, <2>1, <2>2, <2>3 DEF Figures, JInv, Counts
  <2>7. LifeAgrees'
    BY <1>1, <1>2, <1>5, <2>1, <2>2, <2>3
    DEF JInv, LifeAgrees, NewIsBlank, SocketAgrees, AttachedAgrees, LoginsAreFew, OneReadIs,
      ReadsAre
  <2>. QED
    BY <2>4, <2>5, <2>6, <2>7 DEF JInv
<1>. QED
  BY <1>1, <1>4, <1>5

LEMMA OnStopKeeps ==
    ASSUME JInv, OnStop, spc = "idle", UNCHANGED sessionVars
    PROVE  JInv'
<1>0. Figures
  BY Base
<1>1. /\ Handler(<<"onStop", TRUE>>)
      /\ timers' = {} /\ socket' = "deleted" /\ ops' = {}
      /\ handlers' = Tail(handlers) \o Aborted
      /\ UNCHANGED <<msgState, encoded, outBuf, fresh, connRefs, protoRefs, tasks, connState,
                     pendingRead, pendingWrite, errors>>
      /\ UNCHANGED <<kind, proto, attached, first, player, due, spc, dpc, batch, raced>>
  BY DEF OnStop, poolVars, sessionVars
<1>2. /\ connState # "new"
      /\ Tail(handlers) \in Seq(Handlers) /\ StopIsLast(Tail(handlers))
      /\ Stops(Tail(handlers)) = Stops(handlers) - 1 /\ Stops(Tail(handlers)) \in Nat
      /\ Reads(Tail(handlers)) = 0 /\ Writes(Tail(handlers)) = 0
      /\ Reads(handlers) = 0 /\ Writes(handlers) = 0
  <2>1. PICK op \in Operations, ok \in BOOLEAN : op = "onStop" /\ Handler(<<op, ok>>)
    BY <1>1 DEF Operations
  <2>2. /\ connState # "new"
        /\ Tail(handlers) \in Seq(Handlers) /\ StopIsLast(Tail(handlers))
        /\ Stops(Tail(handlers)) \in Nat /\ Reads(Tail(handlers)) \in Nat
        /\ Writes(Tail(handlers)) \in Nat
        /\ OneHandler(op, Stops(handlers) - Stops(Tail(handlers)),
                      Reads(handlers) - Reads(Tail(handlers)),
                      Writes(handlers) - Writes(Tail(handlers)))
        /\ op = "onStop" => Reads(Tail(handlers)) = 0 /\ Writes(Tail(handlers)) = 0
    BY <2>1, HandlerRuns
  <2>. QED
    BY <1>0, <2>1, <2>2 DEF OneHandler, Figures
<1>3. /\ connState = "closed" /\ socket # "deleted" /\ Stops(handlers) = 1
      /\ Pending("releaseConnection") = 0
  BY <1>0, <1>2 DEF Figures, JInv, Counts
<1>4. ops = {} /\ pendingWrite = 0 /\ W = 0 /\ (~raced => N = 0)
  BY <1>0, <1>2, <1>3 DEF Figures, JInv, Counts, LifeAgrees, SocketAgrees
<1>5. handlers' = Tail(handlers)
  BY <1>1, <1>2, <1>4, AbortedAll
<1>6. /\ handlers' \in Seq(Handlers) /\ StopIsLast(handlers')
      /\ Stops(handlers') = 0 /\ Reads(handlers') = 0 /\ Writes(handlers') = 0
  BY <1>2, <1>3, <1>5
<1>7. N' = N /\ W' = W
  BY <1>1 DEF N, W
<1>8. /\ tasks' \in Seq(Task) /\ InOrder(tasks') /\ \A x : Posted(x)' = Posted(x)
  BY <1>0, <1>1 DEF Figures, Posted
<1>9. /\ Pending("connect")' = Pending("connect")
       /\ Pending("releaseConnection")' = Pending("releaseConnection")
       /\ Pending("releaseProtocol")' = Pending("releaseProtocol")
       /\ Posted("login")' = Posted("login")
  BY <1>1, <1>8 DEF Pending
<1>10. TypeOK'
  BY <1>0, <1>1, <1>6, <1>8
  DEF Figures, TypeOK, PoolTypeOK, ConnTypeOK, Task, Handlers
<1>11. MessagesAgree'
  BY <1>0, <1>1, <1>8
  DEF Figures, JInv, MessagesAgree, ReleasedArePosted, BatchWaits, BufferIsNotEncoded, Allocated,
      Waiting, MsgIsNoCall, Calls
<1>12. Counts'
  BY <1>1, <1>3, <1>4, <1>6, <1>7, <1>8, <1>9 DEF JInv, Counts
<1>13. LifeAgrees'
  BY <1>1, <1>3, <1>4, <1>6, <1>8, <1>9
  DEF JInv, LifeAgrees, NewIsBlank, SocketAgrees, AttachedAgrees, LoginsAreFew, OneReadIs,
      ReadsAre
<1>. QED
  BY <1>10, <1>11, <1>12, <1>13 DEF JInv

-----------------------------------------------------------------------------
(* The dispatcher thread. *)

\* The task at the head of the list, and the list without it.
LEMMA TaskRuns ==
    ASSUME JInv, NEW t, Starts(t)
    PROVE  /\ dpc = "idle" /\ batch = {} /\ connState # "new"
           /\ Tail(tasks) \in Seq(Task) /\ InOrder(Tail(tasks))
           /\ Posted(t) = HowMany(Tail(tasks), {t}) + 1
           /\ \A x : x # t => HowMany(Tail(tasks), {x}) = Posted(x)
           /\ \A x : HowMany(Tail(tasks), {x}) \in Nat
           /\ t = "closeConnection" => HowMany(Tail(tasks), {"login"}) = 0
           /\ t # "closeConnection" => Asked(Tail(tasks))
<1>0. Figures
  BY Base
<1>1. dpc = "idle" /\ tasks # <<>> /\ Head(tasks) = t
  BY DEF Starts
<1>2. batch = {} /\ connState # "new"
  BY <1>1 DEF JInv, MessagesAgree, BatchWaits, LifeAgrees, NewIsBlank
<1>3. /\ OneMore(tasks, Tail(tasks), t)
      /\ InOrder(Tail(tasks))
      /\ t = "closeConnection" => HowMany(Tail(tasks), {"login"}) = 0
  BY <1>0, <1>1, TaskStarts DEF Figures
<1>4. /\ Tail(tasks) \in Seq(Task)
      /\ HowMany(tasks, {t}) = HowMany(Tail(tasks), {t}) + 1
      /\ \A x : x # t => HowMany(tasks, {x}) = HowMany(Tail(tasks), {x})
  BY <1>3, Zenon DEF OneMore
<1>5. \A x : HowMany(Tail(tasks), {x}) \in Nat
  BY <1>4, TasksAreFew
<1>6. t # "closeConnection" => Asked(Tail(tasks))
  BY <1>0, <1>3, <1>4 DEF Asked, Figures
<1>. QED
  BY <1>1, <1>2, <1>3, <1>4, <1>5, <1>6 DEF Posted

LEMMA RunReleaseKeeps ==
    ASSUME JInv, NEW m \in Msg, RunRelease(m), dpc' \in {"frame", "idle"}
    PROVE  JInv'
<1>0. Figures
  BY Base
<1>1. /\ Starts(m) /\ msgState' = [msgState EXCEPT ![m] = "free"]
      /\ encoded' = encoded \ {m}
      /\ connRefs' = connRefs - 1 /\ protoRefs' = protoRefs - 1
      /\ tasks' = Tail(tasks)
      /\ UNCHANGED <<outBuf, fresh, connState, socket, pendingRead, pendingWrite, errors, ops,
                     timers, handlers>>
      /\ UNCHANGED <<kind, proto, attached, first, player, due, spc, batch, raced>>
  BY DEF RunRelease, Release, connVars
<1>2. /\ dpc = "idle" /\ batch = {} /\ connState # "new"
      /\ Tail(tasks) \in Seq(Task) /\ InOrder(Tail(tasks))
      /\ Posted(m) = HowMany(Tail(tasks), {m}) + 1
      /\ \A x : x # m => HowMany(Tail(tasks), {x}) = Posted(x)
      /\ HowMany(Tail(tasks), {m}) \in Nat
  BY <1>1, TaskRuns
<1>3. /\ tasks' \in Seq(Task) /\ InOrder(tasks')
      /\ Posted(m) = Posted(m)' + 1 /\ Posted(m)' \in Nat
      /\ \A x : x # m => Posted(x)' = Posted(x)
  BY <1>1, <1>2 DEF Posted
<1>4. msgState[m] = "released" /\ Posted(m)' = 0
  BY <1>3 DEF JInv, MessagesAgree, ReleasedArePosted
<1>5. Moves(msgState, msgState', m, "free")
  BY <1>0, <1>1 DEF Figures, Moves, MsgStates
<1>6. /\ msgState' \in [Msg -> MsgStates] /\ msgState'[m] = "free"
      /\ \A n \in Msg : n # m => msgState'[n] = msgState[n]
      /\ N' = N - 1 /\ W' = W
  BY <1>4, <1>5, MessageMoves DEF N, W
<1>7. /\ Posted("closeConnection")' = Posted("closeConnection")
      /\ Posted("connect")' = Posted("connect") /\ Posted("login")' = Posted("login")
      /\ Posted("releaseConnection")' = Posted("releaseConnection")
      /\ Posted("releaseProtocol")' = Posted("releaseProtocol")
  BY <1>0, <1>3 DEF Figures, MsgIsNoCall, Calls
<1>8. /\ Pending("connect")' = Pending("connect")
      /\ Pending("releaseConnection")' = Pending("releaseConnection")
      /\ Pending("releaseProtocol")' = Pending("releaseProtocol")
  BY <1>1, <1>7 DEF Pending
<1>9. Allocated # {} /\ N # 0
  BY <1>0, <1>4 DEF Figures, Allocated
<1>10. TypeOK'
  BY <1>0, <1>1, <1>3, <1>6
  DEF Figures, TypeOK, PoolTypeOK, ConnTypeOK, Task, Handlers, MsgStates
<1>11. MessagesAgree'
  <2>1. ReleasedArePosted'
    BY <1>3, <1>4, <1>6 DEF JInv, MessagesAgree, ReleasedArePosted
  <2>2. BatchWaits'
    BY <1>1, <1>2, <1>6 DEF JInv, MessagesAgree, BatchWaits, Allocated
  <2>3. BufferIsNotEncoded'
    BY <1>1, <1>4, <1>6 DEF JInv, MessagesAgree, BufferIsNotEncoded, Waiting
  <2>. QED
    BY <2>1, <2>2, <2>3 DEF MessagesAgree
<1>12. Counts'
  <2>1. ~raced => ~(proto = "deleted") /\ ~(Stops(handlers) > 0 \/ socket = "deleted")
    BY <1>9 DEF JInv, Counts
  <2>2. ~raced' => connRefs' = N' /\ protoRefs' = N' + Pending("connect")'
    BY <1>0, <1>1, <1>6, <1>8 DEF Figures, JInv, Counts
  <2>. QED
    BY <1>1, <1>3, <1>6, <1>7, <1>8, <2>1, <2>2 DEF JInv, Counts
<1>13. LifeAgrees'
  BY <1>1, <1>2, <1>7, <1>8
  DEF JInv, LifeAgrees, NewIsBlank, SocketAgrees, AttachedAgrees, LoginsAreFew, OneReadIs,
      ReadsAre
<1>. QED
  BY <1>10, <1>11, <1>12, <1>13 DEF JInv

\* A login or a connect that only changes the protocol's count.
LEMMA LoginEndsKeeps ==
    ASSUME JInv, NEW t \in {"login", "connect"}, Starts(t), tasks' = Tail(tasks),
           dpc' \in {"frame", "idle"}, player' \in {"in", "out"},
           due' = due \/ (t = "login" /\ due' = due \cup {"connect"}),
           protoRefs' = protoRefs + (Pending("connect")' - Pending("connect")),
           UNCHANGED <<msgState, encoded, outBuf, fresh, connRefs>>,
           UNCHANGED <<connState, socket, pendingRead, pendingWrite, errors, ops, timers,
                       handlers>>,
           UNCHANGED <<kind, proto, attached, first, spc, batch, raced>>
    PROVE  JInv'
<1>0. Figures
  BY Base
<1>2. /\ dpc = "idle" /\ batch = {} /\ connState # "new"
      /\ Tail(tasks) \in Seq(Task) /\ InOrder(Tail(tasks))
      /\ Posted(t) = HowMany(Tail(tasks), {t}) + 1
      /\ \A x : x # t => HowMany(Tail(tasks), {x}) = Posted(x)
      /\ HowMany(Tail(tasks), {t}) \in Nat
  BY TaskRuns
<1>3. /\ tasks' \in Seq(Task) /\ InOrder(tasks')
      /\ Posted(t) = Posted(t)' + 1 /\ Posted(t)' \in Nat
      /\ \A x : x # t => Posted(x)' = Posted(x)
  BY <1>2 DEF Posted
<1>4. N' = N /\ W' = W
  BY DEF N, W
<1>5. /\ Posted("closeConnection")' = Posted("closeConnection")
      /\ Posted("releaseConnection")' = Posted("releaseConnection")
      /\ Posted("releaseProtocol")' = Posted("releaseProtocol")
  BY <1>3
<1>6. /\ Pending("releaseConnection")' = Pending("releaseConnection")
      /\ Pending("releaseProtocol")' = Pending("releaseProtocol")
  BY <1>5 DEF Pending
<1>7. /\ Posted("login") + Pending("connect") <= 1
      /\ first = "yes" /\ (t = "login" => attached = "yes" /\ proto = "alive")
      /\ (Posted("login") > 0 => attached = "yes")
  <2>1. /\ Posted("login") \in Nat /\ Posted("connect") \in Nat /\ Pending("connect") \in Nat
        /\ Posted(t) > 0 /\ Pending("connect") >= Posted("connect")
    BY <1>0, <1>3 DEF Figures, Pending
  <2>2. /\ Posted("login") + Pending("connect") <= IF first = "yes" THEN 1 ELSE 0
        /\ (Posted("login") > 0 => attached = "yes") /\ (attached = "yes" => proto = "alive")
    BY DEF JInv, LifeAgrees, LoginsAreFew, AttachedAgrees
  <2>3. CASE t = "login"
    BY <2>1, <2>2, <2>3
  <2>4. CASE t = "connect"
    BY <2>1, <2>2, <2>4
  <2>. QED
    BY <2>3, <2>4
<1>8. /\ Pending("connect")' \in Nat /\ Posted("login")' \in Nat
      /\ Posted("login")' + Pending("connect")' <= 1
      /\ Posted("login")' <= Posted("login")
      /\ (t = "connect" => Pending("connect")' < Pending("connect"))
  <2>1. CASE t = "connect"
    <3>1. /\ due' = due /\ Posted("login")' = Posted("login")
          /\ Posted("connect")' = Posted("connect") - 1
      BY <1>0, <1>3, <2>1 DEF Figures
    <3>2. Pending("connect")' = Pending("connect") - 1 /\ Pending("connect")' \in Nat
      BY <1>0, <1>3, <2>1, <3>1 DEF Figures, Pending
    <3>3. Posted("login") \in Nat /\ Pending("connect") \in Nat
      BY <1>0 DEF Figures
    <3>. QED
      BY <1>7, <2>1, <3>1, <3>2, <3>3
  <2>2. CASE t = "login"
    <3>1. Posted("connect")' = Posted("connect") /\ Posted("login")' = Posted("login") - 1
      <4>1. Posted("login") = Posted("login")' + 1 /\ Posted("login")' \in Nat
        BY <1>3, <2>2
      <4>2. Posted("connect")' = Posted("connect")
        BY <1>3, <2>2
      <4>. QED
        BY <4>1, <4>2
    <3>2. Pending("connect") = 0 /\ Posted("login") = 1
      BY <1>0, <1>3, <1>7, <2>2 DEF Figures
    <3>3. Pending("connect")' \in {0, 1}
      BY <1>0, <3>1, <3>2 DEF Figures, Pending
    <3>. QED
      BY <2>2, <3>1, <3>2, <3>3
  <2>. QED
    BY <2>1, <2>2
<1>9. TypeOK'
  <2>1. due' \in SUBSET {"connect", "releaseConnection", "releaseProtocol"} /\ protoRefs' \in Int
    <3>1. /\ due \in SUBSET {"connect", "releaseConnection", "releaseProtocol"}
          /\ protoRefs \in Int /\ Pending("connect") \in Nat
      BY <1>0 DEF Figures, TypeOK, PoolTypeOK
    <3>2. protoRefs' \in Int
      BY <1>8, <3>1
    <3>3. due' = due \/ due' = due \cup {"connect"}
      OBVIOUS
    <3>. QED
      BY <3>1, <3>2, <3>3
  <2>. QED
    BY <1>0, <1>3, <2>1
    DEF Figures, TypeOK, PoolTypeOK, ConnTypeOK, Task, Handlers
<1>10. MessagesAgree'
  <2>1. \A m \in Msg : Posted(m)' = Posted(m)
    BY <1>0, <1>3 DEF Figures, MsgIsNoCall, Calls
  <2>. QED
    BY <1>2, <2>1
    DEF JInv, MessagesAgree, ReleasedArePosted, BatchWaits, BufferIsNotEncoded, Allocated, Waiting
<1>11. Counts'
  <2>1. ~raced' => connRefs' = N' /\ protoRefs' = N' + Pending("connect")'
    BY <1>0, <1>4, <1>8 DEF Figures, JInv, Counts
  <2>2. ~raced' /\ proto' = "deleted" => N' = 0 /\ Pending("connect")' = 0
    BY <1>0, <1>4, <1>7, <1>8 DEF Figures, JInv, Counts
  <2>. QED
    BY <1>3, <1>4, <1>5, <1>6, <2>1, <2>2 DEF JInv, Counts
<1>12. LifeAgrees'
  <2>1. LoginsAreFew'
    BY <1>0, <1>7, <1>8 DEF Figures, LoginsAreFew
  <2>. QED
    BY <1>2, <1>6, <2>1
    DEF JInv, LifeAgrees, NewIsBlank, SocketAgrees, AttachedAgrees, OneReadIs, ReadsAre
<1>. QED
  BY <1>9, <1>10, <1>11, <1>12 DEF JInv

\* A login or a connect that tells the client why it is refused.
LEMMA DisconnectKeeps ==
    ASSUME JInv, NEW t \in {"login", "connect"}, Starts(t), attached = "yes",
           NEW refs, refs = (IF t = "connect" THEN -1 ELSE 0),
           DisconnectClient(Tail(tasks), refs), dpc' \in {"frame", "idle"},
           UNCHANGED <<kind, proto, attached, first, spc, batch, raced>>
    PROVE  JInv'
<1>0. Figures
  BY Base
<1>1. PICK m \in Msg \ Allocated :
        SendMsg(m) /\ tasks' = WithClose(SendList(m, Tail(tasks)))
  BY DEF DisconnectClient
<1>2. /\ AddRefs(1, 1 + refs) /\ connState' = AfterClose /\ SentWrite /\ spc # "reply"
      /\ ops' = ops \cup SendOps /\ timers' = timers \cup SendOps
      /\ UNCHANGED <<socket, pendingRead, errors, handlers, player, due>>
  BY DEF DisconnectClient, ConnLockFree
<1>3. /\ proto = "alive" /\ connState \in {"open", "requestClose"}
      /\ socket # "deleted" /\ Stops(handlers) = 0 /\ Pending("releaseConnection") = 0
  <2>1. /\ proto = "alive" /\ connState \notin {"closing", "closed"}
        /\ (connState = "new" => attached = "no")
    BY DEF JInv, LifeAgrees, AttachedAgrees, NewIsBlank
  <2>2. connState \in {"new", "open", "requestClose", "closing", "closed"}
    BY <1>0 DEF Figures, TypeOK, ConnTypeOK
  <2>3. connState \in {"open", "requestClose"}
    BY <2>1, <2>2
  <2>. QED
    BY <1>0, <2>1, <2>3 DEF Figures, JInv, Counts
<1>4. m \in Msg /\ msgState[m] = "free" /\ Sent(m)
  BY <1>1, <1>2 DEF Sent, Allocated
<1>5. /\ SendResult \in {"released", "writing", "add"}
      /\ msgState' \in [Msg -> MsgStates] /\ msgState'[m] = SendResult
      /\ \A n \in Msg : n # m => msgState'[n] = msgState[n]
      /\ N' = N + 1
      /\ SendResult = "writing" =>
            /\ connState = "open" /\ W = 0 /\ W' = 1 /\ pendingWrite' = 1
            /\ "write" \notin ops /\ Writes(handlers) = 0
      /\ SendResult # "writing" => W' = W /\ pendingWrite' = pendingWrite
      /\ encoded' \in SUBSET Msg /\ fresh' \in SUBSET Msg /\ outBuf' \in Msg \cup {NoMsg}
      /\ pendingWrite' \in Nat
      /\ BufferIsNotEncoded' /\ (encoded \subseteq Allocated)'
  BY <1>4, MessageIsSent
<1>6. /\ SendOps \subseteq {"write"}
      /\ SendResult = "writing" => "write" \in ops'
      /\ SendResult # "writing" => ops' = ops
      /\ ("header" \in ops' <=> "header" \in ops) /\ ("body" \in ops' <=> "body" \in ops)
  BY <1>2 DEF SendOps
<1>7. /\ dpc = "idle" /\ batch = {}
      /\ Posted(t) = HowMany(Tail(tasks), {t}) + 1
      /\ \A x : x # t => HowMany(Tail(tasks), {x}) = Posted(x)
      /\ \A x : HowMany(Tail(tasks), {x}) \in Nat
      /\ Asked(Tail(tasks))
  BY TaskRuns
<1>8. Listed(Tail(tasks), m, SendResult, "closed")
  BY <1>1, <1>2, <1>4, <1>7, SendThenClose
<1>9. m # t /\ m \notin Calls
  BY <1>0, <1>4 DEF Figures, MsgIsNoCall, Calls
<1>10. /\ tasks' \in Seq(Task) /\ InOrder(tasks')
       /\ Posted("closeConnection")' = IF connState' = "requestClose" THEN 1 ELSE 0
       /\ connState' \in {"requestClose", "closed"} /\ connState' # "closed"
       /\ Posted(m)' = Posted(m) + IF SendResult = "released" THEN 1 ELSE 0
       /\ \A x : x \notin {"closeConnection", m, t} => Posted(x)' = Posted(x)
       /\ Posted(t)' = HowMany(Tail(tasks), {t})
  BY <1>3, <1>7, <1>8, <1>9 DEF Listed
<1>11. Posted(t) = Posted(t)' + 1 /\ Posted(t)' \in Nat
  BY <1>7, <1>10
<1>12. /\ Posted("releaseConnection")' = Posted("releaseConnection")
       /\ Posted("releaseProtocol")' = Posted("releaseProtocol")
       /\ t = "connect" => Posted("login")' = Posted("login")
       /\ t = "login" => Posted("connect")' = Posted("connect")
  BY <1>9, <1>10 DEF Calls
<1>13. /\ Pending("releaseConnection")' = Pending("releaseConnection")
       /\ Pending("releaseProtocol")' = Pending("releaseProtocol")
  BY <1>2, <1>12 DEF Pending
<1>14. /\ Posted("login")' \in Nat /\ Pending("connect")' \in Nat
       /\ Posted("login")' <= Posted("login")
       /\ Pending("connect")' = Pending("connect") + refs /\ refs \in Int
       /\ Posted("login")' + Pending("connect")' <= Posted("login") + Pending("connect")
  <2>1. Posted("login") \in Nat /\ Pending("connect") \in Nat /\ Posted("connect") \in Nat
    BY <1>0 DEF Figures
  <2>2. CASE t = "connect"
    <3>1. /\ Posted("connect") = Posted("connect")' + 1 /\ Posted("connect")' \in Nat
          /\ Posted("login")' = Posted("login") /\ due' = due /\ refs = -1
      BY <1>2, <1>11, <1>12, <2>2
    <3>2. Pending("connect")' = Pending("connect") - 1 /\ Pending("connect")' \in Nat
      BY <2>1, <3>1 DEF Pending
    <3>. QED
      BY <2>1, <3>1, <3>2
  <2>3. CASE t = "login"
    <3>1. /\ Posted("login") = Posted("login")' + 1 /\ Posted("login")' \in Nat
          /\ Posted("connect")' = Posted("connect") /\ due' = due /\ refs = 0
      BY <1>2, <1>11, <1>12, <2>3
    <3>2. Pending("connect")' = Pending("connect")
      BY <3>1 DEF Pending
    <3>. QED
      BY <2>1, <3>1, <3>2
  <2>. QED
    BY <2>2, <2>3
<1>15. TypeOK'
  <2>1. connRefs' \in Int /\ protoRefs' \in Int
    BY <1>0, <1>2, <1>14 DEF Figures, TypeOK, PoolTypeOK, AddRefs
  <2>. QED
    BY <1>0, <1>2, <1>5, <1>6, <1>10, <2>1
    DEF Figures, TypeOK, PoolTypeOK, ConnTypeOK, Task, Handlers, MsgStates
<1>16. MessagesAgree'
  <2>1. ReleasedArePosted'
    <3>1. \A n \in Msg : Posted(n) = IF msgState[n] = "released" THEN 1 ELSE 0
      BY DEF JInv, MessagesAgree, ReleasedArePosted
    <3>2. \A n \in Msg : n # m => Posted(n)' = Posted(n)
      BY <1>0, <1>10 DEF Figures, MsgIsNoCall, Calls
    <3>. QED
      BY <1>4, <1>5, <1>10, <3>1, <3>2 DEF ReleasedArePosted
  <2>2. BatchWaits'
    BY <1>5, <1>7 DEF BatchWaits
  <2>. QED
    BY <1>5, <2>1, <2>2 DEF MessagesAgree
<1>17. Counts'
  <2>1. W' = (IF "write" \in ops' THEN 1 ELSE 0) + Writes(handlers') /\ W' <= 1
        /\ (socket' = "open" => pendingWrite' = W')
    <3>1. /\ handlers' = handlers /\ W \in Nat /\ W <= 1 /\ socket' = socket
          /\ (socket = "open" => pendingWrite = W)
          /\ W = (IF "write" \in ops THEN 1 ELSE 0) + Writes(handlers)
      BY <1>0, <1>2 DEF Figures, JInv, Counts
    <3>2. CASE SendResult = "writing"
      BY <1>5, <1>6, <3>1, <3>2
    <3>3. CASE SendResult # "writing"
      BY <1>5, <1>6, <3>1, <3>3
    <3>. QED
      BY <3>2, <3>3
  <2>2. ~raced' => connRefs' = N' /\ protoRefs' = N' + Pending("connect")'
    <3>1. ~raced => connRefs = N /\ protoRefs = N + Pending("connect")
      BY DEF JInv, Counts
    <3>2. connRefs' = connRefs + 1 /\ protoRefs' = protoRefs + (1 + refs)
      BY <1>2 DEF AddRefs
    <3>3. N \in Nat /\ Pending("connect") \in Nat
      BY <1>0 DEF Figures
    <3>. QED
      BY <1>5, <1>14, <3>1, <3>2, <3>3
  <2>3. (Pending("releaseConnection") + Stops(handlers) + (IF socket = "deleted" THEN 1 ELSE 0)
           = IF connState = "closed" THEN 1 ELSE 0)'
    BY <1>2, <1>3, <1>10, <1>13
  <2>. QED
    BY <1>0, <1>2, <1>3, <1>10, <2>1, <2>2, <2>3 DEF Figures, Counts
<1>18. LifeAgrees'
  <2>1. OneReadIs'
    <3>1. OneReadIs
      BY DEF JInv, LifeAgrees
    <3>2. ReadsAre(Reads(handlers))' = ReadsAre(Reads(handlers))
      BY <1>2, <1>6 DEF ReadsAre
    <3>. QED
      BY <1>2, <1>10, <3>1, <3>2 DEF OneReadIs
  <2>2. SocketAgrees'
    <3>1. SocketAgrees
      BY DEF JInv, LifeAgrees
    <3>2. SendResult = "writing" => socket = "open"
      BY <1>5, <3>1 DEF SocketAgrees
    <3>. QED
      BY <1>2, <1>5, <1>6, <1>10, <3>1, <3>2 DEF SocketAgrees
  <2>3. NewIsBlank' /\ LoginsAreFew'
    <3>1. LoginsAreFew /\ Posted("login") \in Nat /\ Pending("connect") \in Nat
      BY <1>0 DEF Figures, JInv, LifeAgrees
    <3>. QED
      BY <1>10, <1>14, <3>1 DEF NewIsBlank, LoginsAreFew
  <2>4. AttachedAgrees'
    BY <1>2, <1>10, <1>13 DEF JInv, LifeAgrees, AttachedAgrees
  <2>. QED
    BY <2>1, <2>2, <2>3, <2>4 DEF LifeAgrees
<1>. QED
  BY <1>15, <1>16, <1>17, <1>18 DEF JInv

\* The connects that are left of a login's, or of a connect's, task.
LEMMA ConnectsAfter ==
    ASSUME JInv, NEW t \in {"login", "connect"}, Starts(t), tasks' = Tail(tasks)
    PROVE  /\ Posted("connect") \in Nat /\ Posted("connect")' \in Nat
           /\ t = "login" => Posted("connect")' = Posted("connect") /\ Pending("connect") = 0
           /\ t = "connect" => Posted("connect") = Posted("connect")' + 1
<1>0. Figures
  BY Base
<1>1. /\ Posted(t) = Posted(t)' + 1 /\ Posted(t)' \in Nat
      /\ \A x : x # t => Posted(x)' = Posted(x)
      /\ \A x : Posted(x) \in Nat
  BY <1>0, TaskRuns DEF Posted, Figures
<1>2. CASE t = "login"
  <2>1. /\ Posted("login") = Posted("login")' + 1 /\ Posted("login")' \in Nat
        /\ Posted("connect")' = Posted("connect") /\ Posted("connect") \in Nat
        /\ Pending("connect") \in Nat
    BY <1>0, <1>1, <1>2 DEF Figures
  <2>2. Posted("login") + Pending("connect") <= IF first = "yes" THEN 1 ELSE 0
    BY DEF JInv, LifeAgrees, LoginsAreFew
  <2>. QED
    BY <1>2, <2>1, <2>2
<1>3. CASE t = "connect"
  BY <1>1, <1>3
<1>. QED
  BY <1>2, <1>3

LEMMA RunLoginKeeps ==
    ASSUME JInv, RunLogin, dpc' \in {"frame", "idle"}
    PROVE  JInv'
<1>0. Figures
  BY Base
<1>1. PICK t \in {"login", "connect"} : t = "login"
  OBVIOUS
<1>2. Starts(t) /\ UNCHANGED <<kind, proto, attached, first, spc, batch, raced>>
  BY <1>1 DEF RunLogin
<1>3. player \in {"in", "out"} /\ protoRefs \in Int
  BY <1>0 DEF Figures, TypeOK, PoolTypeOK
<1>4. CASE DisconnectClient(Tail(tasks), 0) /\ attached = "yes"
  <2>1. PICK refs : refs = 0
    OBVIOUS
  <2>2. DisconnectClient(Tail(tasks), refs) /\ refs = (IF t = "connect" THEN -1 ELSE 0)
    BY <1>1, <1>4, <2>1
  <2>. QED
    BY <1>2, <1>4, <2>2, DisconnectKeeps
<1>5. ASSUME tasks' = Tail(tasks)
      PROVE  /\ "connect" \notin due
             /\ due' = due => Pending("connect")' - Pending("connect") = 0
             /\ due' = due \cup {"connect"} => Pending("connect")' - Pending("connect") = 1
  <2>1. /\ Posted("connect") \in Nat /\ Posted("connect")' = Posted("connect")
        /\ Pending("connect") = 0
    BY <1>1, <1>2, <1>5, ConnectsAfter
  <2>2. "connect" \notin due /\ Posted("connect") = 0
    BY <2>1 DEF Pending
  <2>3. due' = due => Pending("connect")' = 0
    BY <2>1, <2>2 DEF Pending
  <2>4. due' = due \cup {"connect"} => Pending("connect")' = 1
    BY <2>1, <2>2 DEF Pending
  <2>. QED
    BY <2>1, <2>2, <2>3, <2>4
<1>6. CASE DisconnectClient(Tail(tasks), 0) /\ attached # "yes"
  <2>1. /\ tasks' = Tail(tasks) /\ protoRefs' = protoRefs + 0
        /\ UNCHANGED <<msgState, encoded, outBuf, fresh, connRefs>>
        /\ UNCHANGED <<connState, socket, pendingRead, pendingWrite, errors, ops, timers,
                       handlers>>
        /\ player' = player /\ due' = due
    BY <1>6 DEF DisconnectClient
  <2>3. protoRefs' = protoRefs + (Pending("connect")' - Pending("connect"))
    BY <1>5, <2>1
  <2>. QED
    BY <1>2, <1>3, <2>1, <2>3, LoginEndsKeeps
<1>7. CASE TakePlayer(Tail(tasks), 0)
  <2>1. /\ tasks' = Tail(tasks) /\ protoRefs' = protoRefs + 0
        /\ UNCHANGED <<msgState, encoded, outBuf, fresh, connRefs>>
        /\ UNCHANGED <<connState, socket, pendingRead, pendingWrite, errors, ops, timers,
                       handlers>>
        /\ player' = "in" /\ due' = due
    BY <1>7 DEF TakePlayer, connVars
  <2>3. protoRefs' = protoRefs + (Pending("connect")' - Pending("connect"))
    BY <1>5, <2>1
  <2>. QED
    BY <1>2, <2>1, <2>3, LoginEndsKeeps
<1>8. CASE /\ protoRefs' = protoRefs + 1
           /\ due' = due \cup {"connect"}
           /\ tasks' = Tail(tasks)
           /\ UNCHANGED <<msgState, encoded, outBuf, fresh, connRefs, connVars, player>>
  <2>1. /\ UNCHANGED <<msgState, encoded, outBuf, fresh, connRefs>>
        /\ UNCHANGED <<connState, socket, pendingRead, pendingWrite, errors, ops, timers,
                       handlers>>
        /\ player' = player
    BY <1>8 DEF connVars
  <2>3. protoRefs' = protoRefs + (Pending("connect")' - Pending("connect"))
    BY <1>5, <1>8
  <2>. QED
    BY <1>1, <1>2, <1>3, <1>8, <2>1, <2>3, LoginEndsKeeps
<1>. QED
  BY <1>4, <1>6, <1>7, <1>8 DEF RunLogin

LEMMA RunConnectKeeps ==
    ASSUME JInv, RunConnect, dpc' \in {"frame", "idle"}
    PROVE  JInv'
<1>0. Figures
  BY Base
<1>1. PICK t \in {"login", "connect"} : t = "connect"
  OBVIOUS
<1>2. Starts(t) /\ UNCHANGED <<kind, proto, attached, first, spc, batch, raced>>
  BY <1>1 DEF RunConnect
<1>3. player \in {"in", "out"} /\ protoRefs \in Int
  BY <1>0 DEF Figures, TypeOK, PoolTypeOK
<1>4. CASE DisconnectClient(Tail(tasks), -1) /\ attached = "yes"
  <2>1. PICK refs : refs = -1
    OBVIOUS
  <2>2. DisconnectClient(Tail(tasks), refs) /\ refs = (IF t = "connect" THEN -1 ELSE 0)
    BY <1>1, <1>4, <2>1
  <2>. QED
    BY <1>2, <1>4, <2>2, DisconnectKeeps
<1>5. ASSUME tasks' = Tail(tasks), protoRefs' = protoRefs + (-1), due' = due
      PROVE  protoRefs' = protoRefs + (Pending("connect")' - Pending("connect"))
  <2>1. /\ Posted("connect") \in Nat /\ Posted("connect")' \in Nat
        /\ Posted("connect") = Posted("connect")' + 1
    BY <1>1, <1>2, <1>5, ConnectsAfter
  <2>2. Pending("connect") = Pending("connect")' + 1 /\ Pending("connect")' \in Nat
    BY <1>5, <2>1 DEF Pending
  <2>. QED
    BY <1>3, <1>5, <2>2
<1>6. CASE DisconnectClient(Tail(tasks), -1) /\ attached # "yes"
  <2>1. /\ tasks' = Tail(tasks) /\ protoRefs' = protoRefs + (-1)
        /\ UNCHANGED <<msgState, encoded, outBuf, fresh, connRefs>>
        /\ UNCHANGED <<connState, socket, pendingRead, pendingWrite, errors, ops, timers,
                       handlers>>
        /\ player' = player /\ due' = due
    BY <1>6 DEF DisconnectClient
  <2>2. protoRefs' = protoRefs + (Pending("connect")' - Pending("connect"))
    BY <1>5, <2>1
  <2>. QED
    BY <1>2, <1>3, <2>1, <2>2, LoginEndsKeeps
<1>7. CASE TakePlayer(Tail(tasks), -1)
  <2>1. /\ tasks' = Tail(tasks) /\ protoRefs' = protoRefs + (-1)
        /\ UNCHANGED <<msgState, encoded, outBuf, fresh, connRefs>>
        /\ UNCHANGED <<connState, socket, pendingRead, pendingWrite, errors, ops, timers,
                       handlers>>
        /\ player' = "in" /\ due' = due
    BY <1>7 DEF TakePlayer, connVars
  <2>2. protoRefs' = protoRefs + (Pending("connect")' - Pending("connect"))
    BY <1>5, <2>1
  <2>. QED
    BY <1>2, <2>1, <2>2, LoginEndsKeeps
<1>. QED
  BY <1>4, <1>6, <1>7 DEF RunConnect

\* The handler that releaseConnection posts, when the connection is free.
LEMMA StopHandlerIs ==
    /\ StopHandler \in Seq(Handlers) /\ StopIsLast(StopHandler)
    /\ Reads(StopHandler) = 0 /\ Writes(StopHandler) = 0
    /\ Stops(StopHandler) = IF connRefs # 0 THEN 0 ELSE 1
<1>1. CASE connRefs # 0
  <2>1. StopHandler = <<>>
    BY <1>1 DEF StopHandler
  <2>. QED
    BY <1>1, <2>1, QueueIsEmpty
<1>2. CASE connRefs = 0
  <2>1. PICK op \in Operations, ok \in BOOLEAN : op = "onStop" /\ ok = TRUE
    BY DEF Operations
  <2>2. StopHandler = << <<op, ok>> >>
    BY <1>2, <2>1 DEF StopHandler
  <2>3. /\ << <<op, ok>> >> \in Seq(Handlers) /\ StopIsLast(<< <<op, ok>> >>)
        /\ OneHandler(op, Stops(<< <<op, ok>> >>), Reads(<< <<op, ok>> >>),
                      Writes(<< <<op, ok>> >>))
    BY QueueOfOne
  <2>4. /\ Stops(<< <<op, ok>> >>) = 1 /\ Reads(<< <<op, ok>> >>) = 0
        /\ Writes(<< <<op, ok>> >>) = 0
    BY <2>1, <2>3 DEF OneHandler
  <2>. QED
    BY <1>2, <2>2, <2>3, <2>4
<1>. QED
  BY <1>1, <1>2

\* The end of a task of the protocol or of the connection.
LEMMA CallEnds ==
    ASSUME JInv, NEW t \in Calls, Starts(t), tasks' = Tail(tasks)
    PROVE  /\ tasks' \in Seq(Task) /\ InOrder(tasks')
           /\ Posted(t) = Posted(t)' + 1 /\ Posted(t)' \in Nat
           /\ \A x : x # t => Posted(x)' = Posted(x)
           /\ \A m \in Msg : Posted(m)' = Posted(m)
           /\ batch = {} /\ dpc = "idle" /\ connState # "new"
           /\ t = "closeConnection" => Posted("login")' = 0
<1>1. /\ dpc = "idle" /\ batch = {} /\ connState # "new"
      /\ Tail(tasks) \in Seq(Task) /\ InOrder(Tail(tasks))
      /\ Posted(t) = HowMany(Tail(tasks), {t}) + 1
      /\ \A x : x # t => HowMany(Tail(tasks), {x}) = Posted(x)
      /\ \A x : HowMany(Tail(tasks), {x}) \in Nat
      /\ t = "closeConnection" => HowMany(Tail(tasks), {"login"}) = 0
  BY TaskRuns
<1>2. \A m \in Msg : m # t
  BY NoMessageIsACall DEF MsgIsNoCall
<1>. QED
  BY <1>1, <1>2 DEF Posted

LEMMA RunCloseKeeps ==
    ASSUME JInv, RunClose, dpc' \in {"frame", "idle"}
    PROVE  JInv'
<1>0. Figures
  BY Base
<1>1. /\ Starts("closeConnection") /\ spc # "reply" /\ tasks' = Tail(tasks)
      /\ UNCHANGED <<msgState, encoded, outBuf, fresh, connRefs, protoRefs>>
      /\ UNCHANGED <<kind, first, spc, batch, raced>>
  BY DEF RunClose, ConnLockFree, poolVars
<1>2. /\ tasks' \in Seq(Task) /\ InOrder(tasks')
      /\ Posted("closeConnection") = Posted("closeConnection")' + 1
      /\ Posted("closeConnection")' \in Nat
      /\ \A x : x # "closeConnection" => Posted(x)' = Posted(x)
      /\ \A m \in Msg : Posted(m)' = Posted(m)
      /\ batch = {} /\ dpc = "idle" /\ Posted("login")' = 0
  <2>1. PICK t \in Calls : t = "closeConnection"
    BY DEF Calls
  <2>2. /\ tasks' \in Seq(Task) /\ InOrder(tasks')
        /\ Posted(t) = Posted(t)' + 1 /\ Posted(t)' \in Nat
        /\ \A x : x # t => Posted(x)' = Posted(x)
        /\ \A m \in Msg : Posted(m)' = Posted(m)
        /\ batch = {} /\ dpc = "idle"
        /\ t = "closeConnection" => Posted("login")' = 0
    BY <1>1, <2>1, CallEnds
  <2>. QED
    BY <2>1, <2>2
<1>3. /\ connState = "requestClose" /\ Posted("closeConnection")' = 0
      /\ Pending("releaseConnection") = 0 /\ Stops(handlers) = 0 /\ socket # "deleted"
  <2>1. Posted("closeConnection") = IF connState = "requestClose" THEN 1 ELSE 0
    BY DEF JInv, Counts
  <2>2. connState = "requestClose" /\ Posted("closeConnection")' = 0
    BY <1>2, <2>1
  <2>3. /\ Pending("releaseConnection") + Stops(handlers) + (IF socket = "deleted" THEN 1 ELSE 0)
              = IF connState = "closed" THEN 1 ELSE 0
        /\ Pending("releaseConnection") \in Nat /\ Stops(handlers) \in Nat
    BY <1>0 DEF Figures, JInv, Counts
  <2>. QED
    BY <2>2, <2>3
<1>4. /\ Posted("releaseConnection") = 0 /\ "releaseConnection" \notin due
      /\ Posted("releaseConnection")' = 0
      /\ Posted("releaseProtocol")' = Posted("releaseProtocol")
      /\ Posted("connect")' = Posted("connect")
  <2>1. Posted("releaseConnection") \in Nat
    BY <1>0 DEF Figures
  <2>. QED
    BY <1>2, <1>3, <2>1 DEF Pending
<1>. DEFINE now == pendingWrite = 0 \/ "write" \in errors
            detach == attached = "yes"
<1>5. /\ attached' = "no" /\ player' = "out"
      /\ proto' = IF detach THEN AfterRelease ELSE proto
      /\ due' = due \cup (IF detach THEN ProtoEvents ELSE {})
                    \cup (IF now THEN ConnEvents ELSE {})
      /\ now => connState' = "closed" /\ CloseSocket(handlers, StopHandler)
      /\ ~now => /\ connState' = "closing"
                 /\ UNCHANGED <<socket, pendingRead, pendingWrite, ops, handlers>>
      /\ UNCHANGED <<errors, timers>>
  BY <1>3 DEF RunClose
<1>6. N' = N /\ W' = W
  BY <1>1 DEF N, W
<1>7. /\ Pending("connect")' = Pending("connect")
      /\ Pending("releaseProtocol")' = (IF proto' = "alive" THEN 1 ELSE 0)
      /\ Pending("releaseConnection")' = (IF now /\ connRefs # 0 THEN 1 ELSE 0)
      /\ due' \in SUBSET {"connect", "releaseConnection", "releaseProtocol"}
      /\ proto' \in {"none", "alive", "deleted"}
      /\ proto' = "deleted" => proto = "deleted" \/ protoRefs = 0
  <2>1. /\ due \in SUBSET {"connect", "releaseConnection", "releaseProtocol"}
        /\ proto \in {"none", "alive", "deleted"}
    BY <1>0 DEF Figures, TypeOK
  <2>2. /\ "connect" \in due' <=> "connect" \in due
        /\ "releaseConnection" \in due' <=> now /\ connRefs # 0
        /\ "releaseProtocol" \in due' <=>
              "releaseProtocol" \in due \/ (detach /\ protoRefs # 0)
        /\ due' \in SUBSET {"connect", "releaseConnection", "releaseProtocol"}
    <3>. HIDE DEF now, detach
    <3>. QED
      BY <1>4, <1>5, <2>1 DEF ProtoEvents, ConnEvents
  <2>3. /\ attached = "yes" => proto = "alive"
        /\ Pending("releaseProtocol") = IF attached = "no" /\ proto = "alive" THEN 1 ELSE 0
    BY DEF JInv, LifeAgrees, AttachedAgrees
  <2>4. Pending("connect")' = Pending("connect")
    BY <1>4, <2>2 DEF Pending
  <2>5. Pending("releaseConnection")' = (IF now /\ connRefs # 0 THEN 1 ELSE 0)
    <3>. HIDE DEF now
    <3>. QED
      BY <1>4, <2>2 DEF Pending
  <2>6. CASE detach
    <3>1. Posted("releaseProtocol") = 0 /\ "releaseProtocol" \notin due /\ proto = "alive"
      <4>1. Pending("releaseProtocol") = 0 /\ Posted("releaseProtocol") \in Nat /\ proto = "alive"
        BY <1>0, <2>3, <2>6 DEF Figures
      <4>. QED
        BY <4>1 DEF Pending
    <3>2. /\ proto' = IF protoRefs # 0 THEN "alive" ELSE "deleted"
          /\ "releaseProtocol" \in due' <=> protoRefs # 0
      BY <1>5, <2>2, <2>6, <3>1 DEF AfterRelease
    <3>3. Pending("releaseProtocol")' = (IF proto' = "alive" THEN 1 ELSE 0)
      BY <1>4, <3>1, <3>2 DEF Pending
    <3>. QED
      BY <2>2, <2>4, <2>5, <3>2, <3>3
  <2>7. CASE ~detach
    <3>1. /\ proto' = proto /\ ("releaseProtocol" \in due' <=> "releaseProtocol" \in due)
          /\ attached = "no"
      BY <1>0, <1>5, <2>2, <2>7 DEF Figures, TypeOK
    <3>2. Pending("releaseProtocol")' = Pending("releaseProtocol")
      BY <1>4, <3>1 DEF Pending
    <3>. QED
      BY <2>1, <2>2, <2>3, <2>4, <2>5, <3>1, <3>2
  <2>. QED
    BY <2>6, <2>7
<1>8. /\ handlers' \in Seq(Handlers) /\ StopIsLast(handlers')
      /\ Stops(handlers') = (IF now /\ connRefs = 0 THEN 1 ELSE 0)
      /\ W' = (IF "write" \in ops' THEN 1 ELSE 0) + Writes(handlers')
      /\ Reads(handlers') + (IF "header" \in ops' THEN 1 ELSE 0)
                          + (IF "body" \in ops' THEN 1 ELSE 0)
           = Reads(handlers) + (IF "header" \in ops THEN 1 ELSE 0)
                             + (IF "body" \in ops THEN 1 ELSE 0)
      /\ ops' \subseteq ops /\ pendingRead' \in 0 .. 1 /\ pendingWrite' \in Nat
      /\ socket' \in {"open", "closed"}
      /\ socket' = "open" => pendingWrite' = W' /\ ~now
      /\ socket' # "open" => ops' = {} /\ pendingWrite' = 0 /\ now
  <2>1. /\ W = (IF "write" \in ops THEN 1 ELSE 0) + Writes(handlers)
        /\ (socket = "open" => pendingWrite = W)
        /\ (socket # "open" => ops = {} /\ pendingWrite = 0)
        /\ socket \in {"open", "closed", "deleted"} /\ pendingRead \in 0 .. 1
        /\ pendingWrite \in Nat
    BY <1>0 DEF Figures, JInv, Counts, LifeAgrees, SocketAgrees, TypeOK, ConnTypeOK
  <2>2. CASE now
    <3>1. /\ StopHandler \in Seq(Handlers) /\ StopIsLast(StopHandler)
          /\ Reads(StopHandler) = 0 /\ Writes(StopHandler) = 0
          /\ Stops(StopHandler) = IF connRefs # 0 THEN 0 ELSE 1
      BY StopHandlerIs
    <3>2. Closable(handlers, StopHandler)
      BY <1>0, <1>3, <3>1 DEF Closable, Figures
    <3>3. /\ handlers' \in Seq(Handlers) /\ StopIsLast(handlers')
          /\ Stops(handlers') = Stops(handlers) + Stops(StopHandler)
          /\ Reads(handlers') = Reads(handlers) + (IF "header" \in ops THEN 1 ELSE 0)
                                                + (IF "body" \in ops THEN 1 ELSE 0)
          /\ Writes(handlers') = Writes(handlers) + IF "write" \in ops THEN 1 ELSE 0
          /\ ops' = {} /\ pendingWrite' = 0 /\ pendingRead' \in 0 .. 1
          /\ socket' \in {"closed", "deleted"}
          /\ (socket' = "deleted" <=> socket = "deleted")
      BY <1>5, <2>2, <3>2, SocketCloses
    <3>4. Stops(handlers') = (IF now /\ connRefs = 0 THEN 1 ELSE 0)
      BY <1>3, <2>2, <3>1, <3>3
    <3>5. W' = (IF "write" \in ops' THEN 1 ELSE 0) + Writes(handlers')
      BY <1>0, <1>6, <2>1, <3>3 DEF Figures
    <3>6. "header" \notin ops' /\ "body" \notin ops' /\ Reads(handlers') \in Nat
      BY <1>0, <3>3 DEF Figures
    <3>7. Reads(handlers') + (IF "header" \in ops' THEN 1 ELSE 0)
                           + (IF "body" \in ops' THEN 1 ELSE 0)
            = Reads(handlers) + (IF "header" \in ops THEN 1 ELSE 0)
                              + (IF "body" \in ops THEN 1 ELSE 0)
      BY <1>0, <3>3, <3>6 DEF Figures
    <3>. QED
      BY <1>3, <2>2, <3>3, <3>4, <3>5, <3>7
  <2>3. CASE ~now
    <3>1. /\ pendingWrite # 0 /\ socket = "open"
          /\ UNCHANGED <<socket, pendingRead, pendingWrite, ops, handlers>>
      BY <1>5, <2>1, <2>3
    <3>2. /\ handlers' \in Seq(Handlers) /\ StopIsLast(handlers') /\ Stops(handlers') = 0
      BY <1>0, <1>3, <3>1 DEF Figures
    <3>. QED
      BY <1>6, <2>1, <2>3, <3>1, <3>2
  <2>. QED
    BY <2>2, <2>3
<1>9. (now => connState' = "closed") /\ (~now => connState' = "closing")
  BY <1>5
<1>. HIDE DEF now, detach
<1>10. TypeOK'
  BY <1>0, <1>1, <1>2, <1>5, <1>7, <1>8, <1>9
  DEF Figures, TypeOK, PoolTypeOK, ConnTypeOK, Task, Handlers
<1>11. MessagesAgree'
  BY <1>0, <1>1, <1>2
  DEF Figures, JInv, MessagesAgree, ReleasedArePosted, BatchWaits, BufferIsNotEncoded, Allocated,
      Waiting, MsgIsNoCall, Calls
<1>12. Counts'
  <2>1. (Pending("releaseConnection") + Stops(handlers) + (IF socket = "deleted" THEN 1 ELSE 0)
           = IF connState = "closed" THEN 1 ELSE 0)'
    BY <1>7, <1>8, <1>9
  <2>2. ~raced' => connRefs' = N' /\ protoRefs' = N' + Pending("connect")'
    BY <1>1, <1>6, <1>7 DEF JInv, Counts
  <2>3. ~raced' /\ proto' = "deleted" => N' = 0 /\ Pending("connect")' = 0
    <3>1. ~raced /\ protoRefs = 0 => N = 0 /\ Pending("connect") = 0
      <4>1. N \in Nat /\ Pending("connect") \in Nat
        BY <1>0 DEF Figures
      <4>2. ~raced => protoRefs = N + Pending("connect")
        BY DEF JInv, Counts
      <4>. QED
        BY <4>1, <4>2
    <3>2. ~raced /\ proto = "deleted" => N = 0 /\ Pending("connect") = 0
      BY DEF JInv, Counts
    <3>. QED
      BY <1>1, <1>6, <1>7, <3>1, <3>2
  <2>4. ~raced' /\ (Stops(handlers') > 0 \/ socket' = "deleted") => N' = 0
    <3>1. Stops(handlers') > 0 => connRefs = 0
      BY <1>8
    <3>2. ~raced => connRefs = N
      BY DEF JInv, Counts
    <3>. QED
      BY <1>1, <1>6, <1>8, <3>1, <3>2
  <2>5. W' <= 1
    BY <1>6 DEF JInv, Counts
  <2>6. Posted("closeConnection")' = IF connState' = "requestClose" THEN 1 ELSE 0
    BY <1>3, <1>9
  <2>. QED
    BY <1>2, <1>8, <2>1, <2>2, <2>3, <2>4, <2>5, <2>6 DEF Counts
<1>13. LifeAgrees'
  <2>1. OneReadIs'
    <3>1. ReadsAre(Reads(handlers)) <= 1 /\ Reads(handlers) \in Nat
      BY <1>0 DEF Figures, JInv, LifeAgrees, OneReadIs
    <3>2. ReadsAre(Reads(handlers))' = ReadsAre(Reads(handlers))
      <4>1. Reads(handlers') \in Nat
        BY <1>8, QueueCounts
      <4>. QED
        BY <1>1, <1>8, <3>1, <4>1 DEF ReadsAre
    <3>. QED
      BY <1>9, <3>1, <3>2 DEF OneReadIs
  <2>2. NewIsBlank' /\ SocketAgrees'
    BY <1>8, <1>9 DEF NewIsBlank, SocketAgrees
  <2>3. LoginsAreFew'
    <3>1. LoginsAreFew /\ Posted("login") \in Nat /\ Pending("connect") \in Nat
      BY <1>0 DEF Figures, JInv, LifeAgrees
    <3>. QED
      BY <1>1, <1>2, <1>7, <3>1 DEF LoginsAreFew
  <2>4. AttachedAgrees'
    BY <1>1, <1>5, <1>7, <1>9 DEF AttachedAgrees
  <2>. QED
    BY <2>1, <2>2, <2>3, <2>4 DEF LifeAgrees
<1>. QED
  BY <1>10, <1>11, <1>12, <1>13 DEF JInv

LEMMA RunReleaseConnectionKeeps ==
    ASSUME JInv, RunReleaseConnection, dpc' \in {"frame", "idle"}
    PROVE  JInv'
<1>0. Figures
  BY Base
<1>1. /\ Starts("releaseConnection") /\ tasks' = Tail(tasks)
      /\ due' = due \cup ConnEvents /\ handlers' = handlers \o StopHandler
      /\ UNCHANGED <<msgState, encoded, outBuf, fresh, connRefs, protoRefs>>
      /\ UNCHANGED <<connState, socket, pendingRead, pendingWrite, errors, ops, timers>>
      /\ UNCHANGED <<kind, proto, attached, first, player, spc, batch, raced>>
  BY DEF RunReleaseConnection, poolVars
<1>2. /\ tasks' \in Seq(Task) /\ InOrder(tasks')
      /\ Posted("releaseConnection") = Posted("releaseConnection")' + 1
      /\ Posted("releaseConnection")' \in Nat
      /\ \A x : x # "releaseConnection" => Posted(x)' = Posted(x)
      /\ \A m \in Msg : Posted(m)' = Posted(m)
      /\ batch = {} /\ dpc = "idle" /\ connState # "new"
  <2>1. PICK t \in Calls : t = "releaseConnection"
    BY DEF Calls
  <2>2. /\ tasks' \in Seq(Task) /\ InOrder(tasks')
        /\ Posted(t) = Posted(t)' + 1 /\ Posted(t)' \in Nat
        /\ \A x : x # t => Posted(x)' = Posted(x)
        /\ \A m \in Msg : Posted(m)' = Posted(m)
        /\ batch = {} /\ dpc = "idle" /\ connState # "new"
    BY <1>1, <2>1, CallEnds
  <2>. QED
    BY <2>1, <2>2
<1>3. /\ connState = "closed" /\ Posted("releaseConnection")' = 0
      /\ "releaseConnection" \notin due /\ Stops(handlers) = 0 /\ socket # "deleted"
  <2>1. /\ Pending("releaseConnection") + Stops(handlers) + (IF socket = "deleted" THEN 1 ELSE 0)
              = IF connState = "closed" THEN 1 ELSE 0
        /\ Stops(handlers) \in Nat
    BY <1>0 DEF Figures, JInv, Counts
  <2>2. Pending("releaseConnection") = Posted("releaseConnection")' + 1
                                         + IF "releaseConnection" \in due THEN 1 ELSE 0
    BY <1>2 DEF Pending
  <2>3. CASE "releaseConnection" \in due
    BY <1>2, <2>1, <2>2, <2>3
  <2>4. CASE "releaseConnection" \notin due
    <3>1. Pending("releaseConnection") = Posted("releaseConnection")' + 1
      BY <1>2, <2>2, <2>4
    <3>2. connState = "closed" /\ socket # "deleted"
      BY <1>2, <2>1, <3>1
    <3>3. Posted("releaseConnection")' + 1 + Stops(handlers) = 1
      BY <1>2, <2>1, <3>1, <3>2
    <3>. QED
      BY <1>2, <2>1, <2>4, <3>2, <3>3
  <2>. QED
    BY <2>3, <2>4
<1>4. /\ handlers' \in Seq(Handlers) /\ StopIsLast(handlers')
      /\ Stops(handlers') = (IF connRefs # 0 THEN 0 ELSE 1)
      /\ Reads(handlers') = Reads(handlers) /\ Writes(handlers') = Writes(handlers)
  <2>1. /\ StopHandler \in Seq(Handlers) /\ StopIsLast(StopHandler)
        /\ Reads(StopHandler) = 0 /\ Writes(StopHandler) = 0
        /\ Stops(StopHandler) = IF connRefs # 0 THEN 0 ELSE 1
    BY StopHandlerIs
  <2>2. PICK more : more = StopHandler
    OBVIOUS
  <2>3. /\ handlers \in Seq(Handlers) /\ StopIsLast(handlers)
        /\ Reads(handlers) \in Nat /\ Writes(handlers) \in Nat
    BY <1>0 DEF Figures
  <2>4. /\ handlers \o more \in Seq(Handlers) /\ StopIsLast(handlers \o more)
        /\ Stops(handlers \o more) = Stops(handlers) + Stops(more)
        /\ Reads(handlers \o more) = Reads(handlers) + Reads(more)
        /\ Writes(handlers \o more) = Writes(handlers) + Writes(more)
    BY <1>3, <2>1, <2>2, <2>3, QueueTogether
  <2>. QED
    BY <1>1, <1>3, <2>1, <2>2, <2>3, <2>4
<1>5. N' = N /\ W' = W
  BY <1>1 DEF N, W
<1>6. /\ Posted("closeConnection")' = Posted("closeConnection")
      /\ Posted("connect")' = Posted("connect") /\ Posted("login")' = Posted("login")
      /\ Posted("releaseProtocol")' = Posted("releaseProtocol")
  BY <1>2
<1>7. /\ due' \in SUBSET {"connect", "releaseConnection", "releaseProtocol"}
      /\ "connect" \in due' <=> "connect" \in due
      /\ "releaseProtocol" \in due' <=> "releaseProtocol" \in due
      /\ "releaseConnection" \in due' <=> connRefs # 0
  <2>1. due \in SUBSET {"connect", "releaseConnection", "releaseProtocol"}
    BY <1>0 DEF Figures, TypeOK
  <2>. QED
    BY <1>1, <1>3, <2>1 DEF ConnEvents
<1>8. /\ Pending("connect")' = Pending("connect")
      /\ Pending("releaseProtocol")' = Pending("releaseProtocol")
      /\ Pending("releaseConnection")' = (IF connRefs # 0 THEN 1 ELSE 0)
  BY <1>3, <1>6, <1>7 DEF Pending
<1>9. TypeOK'
  BY <1>0, <1>1, <1>2, <1>4, <1>7
  DEF Figures, TypeOK, PoolTypeOK, ConnTypeOK, Task, Handlers
<1>10. MessagesAgree'
  BY <1>0, <1>1, <1>2
  DEF Figures, JInv, MessagesAgree, ReleasedArePosted, BatchWaits, BufferIsNotEncoded, Allocated,
      Waiting, MsgIsNoCall, Calls
<1>11. Counts'
  <2>1. (Pending("releaseConnection") + Stops(handlers) + (IF socket = "deleted" THEN 1 ELSE 0)
           = IF connState = "closed" THEN 1 ELSE 0)'
    BY <1>1, <1>3, <1>4, <1>8
  <2>2. ~raced' /\ (Stops(handlers') > 0 \/ socket' = "deleted") => N' = 0
    <3>1. Stops(handlers') > 0 => connRefs = 0
      BY <1>4
    <3>2. ~raced => connRefs = N
      BY DEF JInv, Counts
    <3>. QED
      BY <1>1, <1>3, <1>5, <3>1, <3>2
  <2>3. W' = (IF "write" \in ops' THEN 1 ELSE 0) + Writes(handlers')
    BY <1>1, <1>4, <1>5 DEF JInv, Counts
  <2>4. /\ Posted("closeConnection")' = IF connState' = "requestClose" THEN 1 ELSE 0
        /\ W' <= 1 /\ (socket' = "open" => pendingWrite' = W')
        /\ ~raced' => connRefs' = N' /\ protoRefs' = N' + Pending("connect")'
        /\ ~raced' /\ proto' = "deleted" => N' = 0 /\ Pending("connect")' = 0
    BY <1>1, <1>5, <1>6, <1>8 DEF JInv, Counts
  <2>5. socket' # "deleted"
    BY <1>1, <1>3
  <2>. QED
    BY <1>2, <1>4, <2>1, <2>2, <2>3, <2>4, <2>5 DEF Counts
<1>12. LifeAgrees'
  <2>1. OneReadIs'
    BY <1>1, <1>4 DEF JInv, LifeAgrees, OneReadIs, ReadsAre
  <2>2. NewIsBlank' /\ SocketAgrees'
    BY <1>1, <1>3 DEF JInv, LifeAgrees, NewIsBlank, SocketAgrees
  <2>3. LoginsAreFew' /\ AttachedAgrees'
    BY <1>1, <1>6, <1>8 DEF JInv, LifeAgrees, LoginsAreFew, AttachedAgrees
  <2>. QED
    BY <2>1, <2>2, <2>3 DEF LifeAgrees
<1>. QED
  BY <1>9, <1>10, <1>11, <1>12 DEF JInv

LEMMA RunReleaseProtocolKeeps ==
    ASSUME JInv, RunReleaseProtocol, dpc' \in {"frame", "idle"}
    PROVE  JInv'
<1>0. Figures
  BY Base
<1>1. /\ Starts("releaseProtocol") /\ tasks' = Tail(tasks) /\ player' = "out"
      /\ due' = due \cup ProtoEvents /\ proto' = AfterRelease
      /\ UNCHANGED <<msgState, encoded, outBuf, fresh, connRefs, protoRefs>>
      /\ UNCHANGED <<connState, socket, pendingRead, pendingWrite, errors, ops, timers, handlers>>
      /\ UNCHANGED <<kind, attached, first, spc, batch, raced>>
  BY DEF RunReleaseProtocol, poolVars, connVars
<1>2. /\ tasks' \in Seq(Task) /\ InOrder(tasks')
      /\ Posted("releaseProtocol") = Posted("releaseProtocol")' + 1
      /\ Posted("releaseProtocol")' \in Nat
      /\ \A x : x # "releaseProtocol" => Posted(x)' = Posted(x)
      /\ \A m \in Msg : Posted(m)' = Posted(m)
      /\ batch = {} /\ dpc = "idle" /\ connState # "new"
  <2>1. PICK t \in Calls : t = "releaseProtocol"
    BY DEF Calls
  <2>2. /\ tasks' \in Seq(Task) /\ InOrder(tasks')
        /\ Posted(t) = Posted(t)' + 1 /\ Posted(t)' \in Nat
        /\ \A x : x # t => Posted(x)' = Posted(x)
        /\ \A m \in Msg : Posted(m)' = Posted(m)
        /\ batch = {} /\ dpc = "idle" /\ connState # "new"
    BY <1>1, <2>1, CallEnds
  <2>. QED
    BY <2>1, <2>2
<1>3. /\ attached = "no" /\ proto = "alive" /\ Posted("releaseProtocol")' = 0
      /\ "releaseProtocol" \notin due
  <2>1. Pending("releaseProtocol") = IF attached = "no" /\ proto = "alive" THEN 1 ELSE 0
    BY DEF JInv, LifeAgrees, AttachedAgrees
  <2>2. Pending("releaseProtocol") = Posted("releaseProtocol")' + 1
                                       + IF "releaseProtocol" \in due THEN 1 ELSE 0
    BY <1>2 DEF Pending
  <2>3. CASE "releaseProtocol" \in due
    BY <1>2, <2>1, <2>2, <2>3
  <2>4. CASE "releaseProtocol" \notin due
    <3>1. Pending("releaseProtocol") = Posted("releaseProtocol")' + 1
      BY <1>2, <2>2, <2>4
    <3>. QED
      BY <1>2, <2>1, <2>4, <3>1
  <2>. QED
    BY <2>3, <2>4
<1>5. N' = N /\ W' = W
  BY <1>1 DEF N, W
<1>6. /\ Posted("closeConnection")' = Posted("closeConnection")
      /\ Posted("connect")' = Posted("connect") /\ Posted("login")' = Posted("login")
      /\ Posted("releaseConnection")' = Posted("releaseConnection")
  BY <1>2
<1>7. /\ due' \in SUBSET {"connect", "releaseConnection", "releaseProtocol"}
      /\ "connect" \in due' <=> "connect" \in due
      /\ "releaseConnection" \in due' <=> "releaseConnection" \in due
      /\ "releaseProtocol" \in due' <=> protoRefs # 0
      /\ proto' = IF protoRefs # 0 THEN "alive" ELSE "deleted"
  <2>1. due \in SUBSET {"connect", "releaseConnection", "releaseProtocol"}
    BY <1>0 DEF Figures, TypeOK
  <2>. QED
    BY <1>1, <1>3, <2>1 DEF ProtoEvents, AfterRelease
<1>8. /\ Pending("connect")' = Pending("connect")
      /\ Pending("releaseConnection")' = Pending("releaseConnection")
      /\ Pending("releaseProtocol")' = (IF protoRefs # 0 THEN 1 ELSE 0)
  BY <1>3, <1>6, <1>7 DEF Pending
<1>9. TypeOK'
  BY <1>0, <1>1, <1>2, <1>7
  DEF Figures, TypeOK, PoolTypeOK, ConnTypeOK, Task, Handlers
<1>10. MessagesAgree'
  BY <1>0, <1>1, <1>2
  DEF Figures, JInv, MessagesAgree, ReleasedArePosted, BatchWaits, BufferIsNotEncoded, Allocated,
      Waiting, MsgIsNoCall, Calls
<1>11. Counts'
  <2>1. ~raced' /\ proto' = "deleted" => N' = 0 /\ Pending("connect")' = 0
    <3>1. N \in Nat /\ Pending("connect") \in Nat
      BY <1>0 DEF Figures
    <3>2. ~raced => protoRefs = N + Pending("connect")
      BY DEF JInv, Counts
    <3>3. proto' = "deleted" => protoRefs = 0
      BY <1>7
    <3>. QED
      BY <1>1, <1>5, <1>8, <3>1, <3>2, <3>3
  <2>. QED
    BY <1>1, <1>2, <1>5, <1>6, <1>8, <2>1 DEF JInv, Counts
<1>12. LifeAgrees'
  <2>1. OneReadIs'
    BY <1>1 DEF JInv, LifeAgrees, OneReadIs, ReadsAre
  <2>2. NewIsBlank' /\ SocketAgrees'
    BY <1>1, <1>2 DEF JInv, LifeAgrees, NewIsBlank, SocketAgrees
  <2>3. LoginsAreFew'
    BY <1>1, <1>6, <1>8 DEF JInv, LifeAgrees, LoginsAreFew
  <2>4. AttachedAgrees'
    BY <1>1, <1>3, <1>7, <1>8 DEF JInv, LifeAgrees, AttachedAgrees
  <2>. QED
    BY <2>1, <2>2, <2>3, <2>4 DEF LifeAgrees
<1>. QED
  BY <1>9, <1>10, <1>11, <1>12 DEF JInv

\* A step that only moves the dispatcher thread, or passes the time.
LEMMA QuietKeeps ==
    ASSUME JInv, UNCHANGED <<msgState, encoded, outBuf, connRefs, protoRefs, tasks>>,
           UNCHANGED <<connState, socket, pendingRead, pendingWrite, errors, ops, timers,
                       handlers>>,
           UNCHANGED <<kind, proto, attached, first, player, due, spc, raced>>,
           fresh' \in SUBSET Msg, batch' \in SUBSET Msg,
           dpc' \in {"idle", "frame", "drop", "sendAll"},
           dpc' = "sendAll" => \A m \in batch' : msgState[m] = "auto",
           dpc' # "sendAll" => batch' = {}
    PROVE  JInv'
<1>0. Figures
  BY Base
<1>1. N' = N /\ W' = W /\ \A x : Posted(x)' = Posted(x)
  BY DEF N, W, Posted
<1>2. \A e : Pending(e)' = Pending(e)
  BY <1>1 DEF Pending
<1>3. TypeOK'
  BY <1>0 DEF Figures, TypeOK, PoolTypeOK, ConnTypeOK
<1>4. MessagesAgree'
  BY <1>1
  DEF JInv, MessagesAgree, ReleasedArePosted, BatchWaits, BufferIsNotEncoded, Allocated, Waiting
<1>5. Counts'
  BY <1>1, <1>2 DEF JInv, Counts
<1>6. LifeAgrees'
  <2>1. OneReadIs'
    BY DEF JInv, LifeAgrees, OneReadIs, ReadsAre
  <2>2. NewIsBlank' /\ SocketAgrees'
    BY DEF JInv, LifeAgrees, NewIsBlank, SocketAgrees, Allocated
  <2>3. LoginsAreFew' /\ AttachedAgrees'
    BY <1>1, <1>2 DEF JInv, LifeAgrees, LoginsAreFew, AttachedAgrees
  <2>. QED
    BY <2>1, <2>2, <2>3 DEF LifeAgrees
<1>. QED
  BY <1>3, <1>4, <1>5, <1>6 DEF JInv

LEMMA GameTaskKeeps ==
    ASSUME JInv, GameTask
    PROVE  JInv'
<1>0. Figures
  BY Base
<1>1. /\ dpc = "idle" /\ batch = {} /\ dpc' \in {"frame", "idle"}
      /\ UNCHANGED <<socket, pendingRead, pendingWrite, errors, ops, timers, handlers,
                     kind, proto, attached, first, player, due, spc, batch, raced>>
  BY DEF GameTask, Framed, JInv, MessagesAgree, BatchWaits
<1>2. CASE UNCHANGED <<poolVars, tasks, connState>>
  <2>1. /\ UNCHANGED <<msgState, encoded, outBuf, connRefs, protoRefs, tasks>>
        /\ fresh' \in SUBSET Msg /\ batch' = {} /\ connState' = connState
    BY <1>0, <1>1, <1>2 DEF poolVars, Figures, TypeOK, PoolTypeOK
  <2>. QED
    BY <1>1, <2>1, QuietKeeps
<1>3. ASSUME attached = "yes"
      PROVE  /\ proto = "alive" /\ connState \in {"open", "requestClose"}
             /\ socket # "deleted" /\ Stops(handlers) = 0
             /\ Pending("releaseConnection") = 0
  <2>1. /\ proto = "alive" /\ connState \notin {"closing", "closed"}
        /\ (connState = "new" => attached = "no")
    BY <1>3 DEF JInv, LifeAgrees, AttachedAgrees, NewIsBlank
  <2>2. connState \in {"new", "open", "requestClose", "closing", "closed"}
    BY <1>0 DEF Figures, TypeOK, ConnTypeOK
  <2>3. connState \in {"open", "requestClose"}
    BY <1>3, <2>1, <2>2
  <2>. QED
    BY <1>0, <2>1, <2>3 DEF Figures, JInv, Counts
<1>4. ASSUME attached = "yes", NEW m \in Msg, NewBuffer(m), UNCHANGED <<tasks, connState>>
      PROVE  JInv'
  <2>1. /\ msgState[m] = "free" /\ outBuf = NoMsg
        /\ msgState' = [msgState EXCEPT ![m] = "auto"]
        /\ outBuf' = m /\ fresh' = fresh \cup {m} /\ encoded' = encoded
        /\ connRefs' = connRefs + 1 /\ protoRefs' = protoRefs + 1
    BY <1>4 DEF NewBuffer, AddRefs
  <2>2. Moves(msgState, msgState', m, "auto")
    BY <1>0, <1>4, <2>1 DEF Figures, Moves, MsgStates
  <2>3. /\ msgState' \in [Msg -> MsgStates] /\ msgState'[m] = "auto"
        /\ \A n \in Msg : n # m => msgState'[n] = msgState[n]
        /\ N' = N + 1 /\ W' = W
    BY <2>1, <2>2, MessageMoves DEF N, W
  <2>4. \A x : Posted(x)' = Posted(x)
    BY <1>4 DEF Posted
  <2>5. \A e : Pending(e)' = Pending(e)
    BY <1>1, <2>4 DEF Pending
  <2>6. TypeOK'
    BY <1>0, <1>1, <1>4, <2>1, <2>3
    DEF Figures, TypeOK, PoolTypeOK, ConnTypeOK, MsgStates
  <2>7. MessagesAgree'
    <3>1. m \notin encoded /\ encoded \subseteq Allocated
      BY <2>1 DEF JInv, MessagesAgree, BatchWaits, Allocated
    <3>2. ReleasedArePosted'
      BY <1>4, <2>1, <2>3, <2>4 DEF JInv, MessagesAgree, ReleasedArePosted
    <3>3. BatchWaits'
      BY <1>1, <2>1, <2>3, <3>1 DEF BatchWaits, Allocated
    <3>4. BufferIsNotEncoded'
      BY <1>4, <2>1, <2>3, <3>1 DEF JInv, MessagesAgree, BufferIsNotEncoded, Waiting
    <3>. QED
      BY <3>2, <3>3, <3>4 DEF MessagesAgree
  <2>8. Counts'
    <3>1. ~raced' => connRefs' = N' /\ protoRefs' = N' + Pending("connect")'
      BY <1>0, <1>1, <2>1, <2>3, <2>5 DEF Figures, JInv, Counts
    <3>. QED
      BY <1>1, <1>3, <1>4, <2>3, <2>4, <2>5, <3>1 DEF JInv, Counts
  <2>9. LifeAgrees'
    <3>1. OneReadIs'
      BY <1>1, <1>4 DEF JInv, LifeAgrees, OneReadIs, ReadsAre
    <3>2. NewIsBlank' /\ SocketAgrees'
      BY <1>1, <1>3, <1>4 DEF JInv, LifeAgrees, NewIsBlank, SocketAgrees
    <3>3. LoginsAreFew' /\ AttachedAgrees'
      BY <1>1, <1>4, <2>4, <2>5 DEF JInv, LifeAgrees, LoginsAreFew, AttachedAgrees
    <3>. QED
      BY <3>1, <3>2, <3>3 DEF LifeAgrees
  <2>. QED
    BY <2>6, <2>7, <2>8, <2>9 DEF JInv
<1>5. ASSUME attached = "yes", spc # "reply", connState' = AfterClose, tasks' = WithClose(tasks),
             UNCHANGED poolVars
      PROVE  JInv'
  <2>1. /\ tasks' \in Seq(Task) /\ InOrder(tasks')
        /\ \A x : x # "closeConnection" => Posted(x)' = Posted(x)
        /\ Posted("closeConnection")' = IF connState' = "requestClose" THEN 1 ELSE 0
        /\ connState' = "requestClose"
    BY <1>0, <1>3, <1>5, CloseAsks DEF Figures, Posted
  <2>2. UNCHANGED <<msgState, encoded, outBuf, fresh, connRefs, protoRefs>> /\ N' = N /\ W' = W
    BY <1>5 DEF poolVars, N, W
  <2>3. /\ Pending("connect")' = Pending("connect")
        /\ Pending("releaseConnection")' = Pending("releaseConnection")
        /\ Pending("releaseProtocol")' = Pending("releaseProtocol")
        /\ Posted("login")' = Posted("login")
    BY <1>1, <2>1 DEF Pending
  <2>4. TypeOK'
    BY <1>0, <1>1, <2>1, <2>2
    DEF Figures, TypeOK, PoolTypeOK, ConnTypeOK, Task, Handlers
  <2>5. MessagesAgree'
    BY <1>0, <1>1, <2>1, <2>2
    DEF Figures, JInv, MessagesAgree, ReleasedArePosted, BatchWaits, BufferIsNotEncoded,
        Allocated, Waiting, MsgIsNoCall, Calls
  <2>6. Counts'
    BY <1>1, <1>3, <1>5, <2>1, <2>2, <2>3 DEF JInv, Counts
  <2>7. LifeAgrees'
    <3>1. OneReadIs'
      BY <1>1, <2>1 DEF JInv, LifeAgrees, OneReadIs, ReadsAre
    <3>2. NewIsBlank' /\ SocketAgrees'
      BY <1>1, <2>1 DEF JInv, LifeAgrees, NewIsBlank, SocketAgrees
    <3>3. LoginsAreFew' /\ AttachedAgrees'
      BY <1>1, <1>5, <2>1, <2>3 DEF JInv, LifeAgrees, LoginsAreFew, AttachedAgrees
    <3>. QED
      BY <3>1, <3>2, <3>3 DEF LifeAgrees
  <2>. QED
    BY <2>4, <2>5, <2>6, <2>7 DEF JInv
<1>. QED
  BY <1>2, <1>4, <1>5 DEF GameTask, ConnLockFree

-----------------------------------------------------------------------------
(* sendAll. *)

LEMMA DropOldKeeps ==
    ASSUME JInv, NEW m \in Msg, DropOld(m)
    PROVE  JInv'
<1>0. Figures
  BY Base
<1>1. /\ dpc = "drop" /\ msgState[m] = "add" /\ Encode(m)
      /\ msgState' = [msgState EXCEPT ![m] = "released"]
      /\ tasks' = ReleasedFirst(m) /\ fresh' = fresh \ {m}
      /\ UNCHANGED <<connRefs, protoRefs>>
      /\ UNCHANGED <<connState, socket, pendingRead, pendingWrite, errors, ops, timers, handlers>>
      /\ UNCHANGED <<kind, proto, attached, first, player, due, spc, dpc, batch, raced>>
  BY DEF DropOld, connVars, sessionVars
<1>2. Moves(msgState, msgState', m, "released")
  BY <1>0, <1>1 DEF Figures, Moves, MsgStates
<1>3. /\ msgState' \in [Msg -> MsgStates] /\ msgState'[m] = "released"
      /\ \A n \in Msg : n # m => msgState'[n] = msgState[n]
      /\ N' = N /\ W' = W
  BY <1>1, <1>2, MessageMoves DEF N, W
<1>4. /\ tasks' \in Seq(Task) /\ InOrder(tasks')
      /\ Posted(m)' = Posted(m) + 1
      /\ \A x : x # m => Posted(x)' = Posted(x)
      /\ Posted("closeConnection")' = IF connState' = "requestClose" THEN 1 ELSE 0
      /\ Pending("connect")' = Pending("connect")
      /\ Pending("releaseConnection")' = Pending("releaseConnection")
      /\ Pending("releaseProtocol")' = Pending("releaseProtocol")
      /\ Posted("login")' = Posted("login")
  BY <1>1, ReleaseIsPosted
<1>5. connState # "new"
  BY <1>1 DEF JInv, LifeAgrees, NewIsBlank, Allocated
<1>6. /\ encoded' = encoded \cup {m} /\ outBuf' # m
      /\ outBuf' = outBuf \/ outBuf' = NoMsg
      /\ outBuf = m => outBuf' = NoMsg
  BY <1>1, MsgAssumption DEF Encode
<1>7. TypeOK'
  BY <1>0, <1>1, <1>3, <1>4, <1>6
  DEF Figures, TypeOK, PoolTypeOK, ConnTypeOK, Task, Handlers, MsgStates
<1>8. MessagesAgree'
  <2>1. ReleasedArePosted'
    BY <1>1, <1>3, <1>4 DEF JInv, MessagesAgree, ReleasedArePosted
  <2>2. BatchWaits'
    <3>1. encoded \subseteq Allocated /\ batch = {}
      BY <1>1 DEF JInv, MessagesAgree, BatchWaits
    <3>. QED
      BY <1>1, <1>3, <1>6, <3>1 DEF BatchWaits, Allocated
  <2>3. BufferIsNotEncoded'
    <3>1. /\ outBuf # NoMsg => outBuf \in Waiting
          /\ Waiting \cap encoded = {}
      BY DEF JInv, MessagesAgree, BufferIsNotEncoded
    <3>. QED
      BY <1>1, <1>3, <1>6, <3>1 DEF BufferIsNotEncoded, Waiting
  <2>. QED
    BY <2>1, <2>2, <2>3 DEF MessagesAgree
<1>9. Counts'
  BY <1>1, <1>3, <1>4 DEF JInv, Counts
<1>10. LifeAgrees'
  BY <1>1, <1>4, <1>5
  DEF JInv, LifeAgrees, NewIsBlank, SocketAgrees, AttachedAgrees, LoginsAreFew, OneReadIs,
      ReadsAre
<1>. QED
  BY <1>7, <1>8, <1>9, <1>10 DEF JInv

LEMMA MoveQueueKeeps ==
    ASSUME JInv, MoveQueue
    PROVE  JInv'
<1>0. Figures
  BY Base
<1>1. /\ dpc = "drop" /\ dpc' = "sendAll"
      /\ msgState' = [m \in Msg |-> IF msgState[m] = "add" THEN "auto" ELSE msgState[m]]
      /\ batch' \subseteq Waiting
      /\ UNCHANGED <<encoded, outBuf, fresh, connRefs, protoRefs, tasks>>
      /\ UNCHANGED <<connState, socket, pendingRead, pendingWrite, errors, ops, timers, handlers>>
      /\ UNCHANGED <<kind, proto, attached, first, player, due, spc, raced>>
  BY DEF MoveQueue, connVars
<1>2. /\ msgState' \in [Msg -> MsgStates]
      /\ \A m \in Msg : msgState'[m] = IF msgState[m] = "add" THEN "auto" ELSE msgState[m]
  BY <1>0, <1>1 DEF Figures, MsgStates
<1>3. /\ AllocatedIn(msgState') = AllocatedIn(msgState)
      /\ WritingIn(msgState') = WritingIn(msgState)
      /\ Allocated' = Allocated /\ Waiting' = Waiting
  BY <1>2 DEF AllocatedIn, WritingIn, Allocated, Waiting
<1>4. N' = N /\ W' = W
  BY <1>3 DEF N, W
<1>5. \A x : Posted(x)' = Posted(x)
  BY <1>1 DEF Posted
<1>6. \A e : Pending(e)' = Pending(e)
  BY <1>1, <1>5 DEF Pending
<1>7. TypeOK'
  BY <1>0, <1>1, <1>2 DEF Figures, TypeOK, PoolTypeOK, ConnTypeOK, MsgStates, Waiting
<1>8. MessagesAgree'
  <2>1. ReleasedArePosted'
    BY <1>2, <1>5 DEF JInv, MessagesAgree, ReleasedArePosted
  <2>2. BatchWaits'
    <3>1. encoded' \subseteq Allocated'
      BY <1>1, <1>3 DEF JInv, MessagesAgree, BatchWaits
    <3>2. \A m \in batch' : msgState'[m] = "auto"
      BY <1>1, <1>2 DEF Waiting
    <3>. QED
      BY <1>1, <3>1, <3>2 DEF BatchWaits
  <2>3. BufferIsNotEncoded'
    BY <1>1, <1>3 DEF JInv, MessagesAgree, BufferIsNotEncoded
  <2>. QED
    BY <2>1, <2>2, <2>3 DEF MessagesAgree
<1>9. Counts'
  BY <1>1, <1>4, <1>5, <1>6 DEF JInv, Counts
<1>10. LifeAgrees'
  <2>1. OneReadIs'
    BY <1>1 DEF JInv, LifeAgrees, OneReadIs, ReadsAre
  <2>2. NewIsBlank' /\ SocketAgrees'
    BY <1>1, <1>3 DEF JInv, LifeAgrees, NewIsBlank, SocketAgrees
  <2>3. LoginsAreFew' /\ AttachedAgrees'
    BY <1>1, <1>5, <1>6 DEF JInv, LifeAgrees, LoginsAreFew, AttachedAgrees
  <2>. QED
    BY <2>1, <2>2, <2>3 DEF LifeAgrees
<1>. QED
  BY <1>7, <1>8, <1>9, <1>10 DEF JInv

LEMMA SendOneKeeps ==
    ASSUME JInv, NEW m \in Msg, SendOne(m)
    PROVE  JInv'
<1>0. Figures
  BY Base
<1>1. /\ dpc = "sendAll" /\ m \in batch /\ spc # "reply" /\ SendMsg(m) /\ SentWrite
      /\ tasks' = SendList(m, tasks)
      /\ ops' = ops \cup SendOps /\ timers' = timers \cup SendOps
      /\ batch' = batch \ {m}
      /\ UNCHANGED <<connRefs, protoRefs, connState, socket, pendingRead, errors,
                     handlers, kind, proto, attached, first, player, due, spc, dpc, raced>>
  BY DEF SendOne, ConnLockFree
<1>2. msgState[m] = "auto" /\ Sent(m)
  BY <1>1 DEF JInv, MessagesAgree, BatchWaits, Sent
<1>3. /\ SendResult \in {"released", "writing", "add"}
      /\ msgState' \in [Msg -> MsgStates] /\ msgState'[m] = SendResult
      /\ \A n \in Msg : n # m => msgState'[n] = msgState[n]
      /\ N' = N
      /\ SendResult = "writing" =>
            /\ connState = "open" /\ W = 0 /\ W' = 1 /\ pendingWrite' = 1
            /\ "write" \notin ops /\ Writes(handlers) = 0
      /\ SendResult # "writing" => W' = W /\ pendingWrite' = pendingWrite
      /\ encoded' \in SUBSET Msg /\ fresh' \in SUBSET Msg /\ outBuf' \in Msg \cup {NoMsg}
      /\ pendingWrite' \in Nat
      /\ BufferIsNotEncoded' /\ (encoded \subseteq Allocated)'
  BY <1>2, MessageIsSent
<1>4. /\ SendOps \subseteq {"write"}
      /\ SendResult = "writing" => "write" \in ops'
      /\ SendResult # "writing" => ops' = ops
      /\ ("header" \in ops' <=> "header" \in ops) /\ ("body" \in ops' <=> "body" \in ops)
  BY <1>1 DEF SendOps
<1>5. Allocated # {} /\ N # 0 /\ connState # "new"
  BY <1>0, <1>2 DEF Figures, Allocated, JInv, LifeAgrees, NewIsBlank
<1>6. /\ tasks' \in Seq(Task) /\ InOrder(tasks')
      /\ \A x : x \notin {"closeConnection", m} => Posted(x)' = Posted(x)
      /\ Posted(m)' = Posted(m) + IF SendResult = "released" THEN 1 ELSE 0
      /\ Posted("closeConnection")' = IF connState' = "requestClose" THEN 1 ELSE 0
  <2>1. Asked(tasks) /\ HowMany(tasks, {m}) = Posted(m) /\ Posted(m) \in Nat
    BY <1>0 DEF Figures, Posted
  <2>2. Listed(tasks, m, SendResult, connState)
    BY <1>1, <2>1, SendOnly
  <2>. QED
    BY <2>1, <2>2 DEF Listed, Posted
<1>7. /\ Posted("connect")' = Posted("connect") /\ Posted("login")' = Posted("login")
      /\ Posted("releaseConnection")' = Posted("releaseConnection")
      /\ Posted("releaseProtocol")' = Posted("releaseProtocol")
  BY <1>6, NoMessageIsACall DEF MsgIsNoCall, Calls
<1>8. /\ Pending("connect")' = Pending("connect")
      /\ Pending("releaseConnection")' = Pending("releaseConnection")
      /\ Pending("releaseProtocol")' = Pending("releaseProtocol")
  BY <1>1, <1>7 DEF Pending
<1>9. TypeOK'
  BY <1>0, <1>1, <1>3, <1>4, <1>6
  DEF Figures, TypeOK, PoolTypeOK, ConnTypeOK, Task, Handlers, MsgStates
<1>10. MessagesAgree'
  <2>1. ReleasedArePosted'
    <3>1. \A n \in Msg : Posted(n) = IF msgState[n] = "released" THEN 1 ELSE 0
      BY DEF JInv, MessagesAgree, ReleasedArePosted
    <3>2. \A n \in Msg : n # m => Posted(n)' = Posted(n)
      BY <1>6, NoMessageIsACall DEF MsgIsNoCall, Calls
    <3>. QED
      BY <1>2, <1>3, <1>6, <3>1, <3>2 DEF ReleasedArePosted
  <2>2. BatchWaits'
    <3>1. \A n \in batch : msgState[n] = "auto" /\ n \in Msg
      BY <1>0, <1>1 DEF JInv, MessagesAgree, BatchWaits, Figures, TypeOK
    <3>. QED
      BY <1>1, <1>3, <3>1 DEF BatchWaits
  <2>. QED
    BY <1>3, <2>1, <2>2 DEF MessagesAgree
<1>11. Counts'
  <2>1. ~raced => ~(proto = "deleted") /\ ~(Stops(handlers) > 0 \/ socket = "deleted")
    BY <1>5 DEF JInv, Counts
  <2>2. W' = (IF "write" \in ops' THEN 1 ELSE 0) + Writes(handlers') /\ W' <= 1
        /\ (socket' = "open" => pendingWrite' = W')
    <3>1. /\ handlers' = handlers /\ W \in Nat /\ W <= 1 /\ socket' = socket
          /\ (socket = "open" => pendingWrite = W)
          /\ W = (IF "write" \in ops THEN 1 ELSE 0) + Writes(handlers)
      BY <1>0, <1>1 DEF Figures, JInv, Counts
    <3>2. CASE SendResult = "writing"
      BY <1>3, <1>4, <3>1, <3>2
    <3>3. CASE SendResult # "writing"
      BY <1>3, <1>4, <3>1, <3>3
    <3>. QED
      BY <3>2, <3>3
  <2>3. ~raced' => connRefs' = N' /\ protoRefs' = N' + Pending("connect")'
    BY <1>1, <1>3, <1>8 DEF JInv, Counts
  <2>4. (Pending("releaseConnection") + Stops(handlers) + (IF socket = "deleted" THEN 1 ELSE 0)
           = IF connState = "closed" THEN 1 ELSE 0)'
    BY <1>1, <1>8 DEF JInv, Counts
  <2>5. /\ StopIsLast(handlers')
        /\ socket' = "deleted" => Reads(handlers') = 0 /\ Writes(handlers') = 0
    BY <1>1 DEF JInv, Counts
  <2>. QED
    BY <1>1, <1>6, <2>1, <2>2, <2>3, <2>4, <2>5 DEF Counts
<1>12. LifeAgrees'
  <2>1. OneReadIs'
    <3>1. OneReadIs
      BY DEF JInv, LifeAgrees
    <3>2. ReadsAre(Reads(handlers))' = ReadsAre(Reads(handlers))
      BY <1>1, <1>4 DEF ReadsAre
    <3>. QED
      BY <1>1, <3>1, <3>2 DEF OneReadIs
  <2>2. SocketAgrees'
    <3>1. SocketAgrees
      BY DEF JInv, LifeAgrees
    <3>2. SendResult = "writing" => socket = "open"
      BY <1>3, <3>1 DEF SocketAgrees
    <3>. QED
      BY <1>1, <1>3, <1>4, <3>1, <3>2 DEF SocketAgrees
  <2>3. NewIsBlank' /\ LoginsAreFew'
    BY <1>1, <1>5, <1>7, <1>8 DEF JInv, LifeAgrees, NewIsBlank, LoginsAreFew
  <2>4. AttachedAgrees'
    BY <1>1, <1>8 DEF JInv, LifeAgrees, AttachedAgrees
  <2>. QED
    BY <2>1, <2>2, <2>3, <2>4 DEF LifeAgrees
<1>. QED
  BY <1>9, <1>10, <1>11, <1>12 DEF JInv

-----------------------------------------------------------------------------
(* The clock and the network. *)

LEMMA EventFiresKeeps ==
    ASSUME JInv, NEW e \in {"connect", "releaseConnection", "releaseProtocol"}, EventFires(e)
    PROVE  JInv'
<1>0. Figures
  BY Base
<1>1. /\ e \in due /\ due' = due \ {e} /\ tasks' = Append(tasks, e)
      /\ UNCHANGED <<msgState, encoded, outBuf, fresh, connRefs, protoRefs>>
      /\ UNCHANGED <<connState, socket, pendingRead, pendingWrite, errors, ops, timers, handlers>>
      /\ UNCHANGED <<kind, proto, attached, first, player, spc, dpc, batch, raced>>
  BY DEF EventFires, poolVars, connVars
<1>2. e \in Calls /\ e # "login" /\ e # "closeConnection" /\ connState # "new"
  BY <1>1 DEF Calls, JInv, LifeAgrees, NewIsBlank
<1>3. OneMore(Append(tasks, e), tasks, e) /\ InOrder(Append(tasks, e))
  BY <1>0, <1>2, TaskIsLast DEF Figures
<1>4. /\ tasks' \in Seq(Task) /\ InOrder(tasks')
      /\ Posted(e)' = Posted(e) + 1 /\ Posted(e) \in Nat
      /\ \A x : x # e => Posted(x)' = Posted(x)
  <2>1. OneMore(tasks', tasks, e) /\ InOrder(tasks')
    BY <1>1, <1>3, Zenon
  <2>. QED
    BY <2>1 DEF OneMore, Posted
<1>5. /\ Posted("closeConnection")' = Posted("closeConnection")
      /\ Posted("login")' = Posted("login")
  BY <1>2, <1>4
<1>6. \A x \in {"connect", "releaseConnection", "releaseProtocol"} : Pending(x)' = Pending(x)
  <2>. SUFFICES ASSUME NEW x \in {"connect", "releaseConnection", "releaseProtocol"}
                PROVE  Pending(x)' = Pending(x)
    OBVIOUS
  <2>1. CASE x = e
    BY <1>1, <1>4, <2>1 DEF Pending
  <2>2. CASE x # e
    BY <1>1, <1>4, <2>2 DEF Pending
  <2>. QED
    BY <2>1, <2>2
<1>7. N' = N /\ W' = W
  BY <1>1 DEF N, W
<1>8. TypeOK'
  BY <1>0, <1>1, <1>4
  DEF Figures, TypeOK, PoolTypeOK, ConnTypeOK, Task, Handlers
<1>9. MessagesAgree'
  <2>1. \A m \in Msg : Posted(m)' = Posted(m)
    BY <1>0, <1>2, <1>4 DEF Figures, MsgIsNoCall
  <2>. QED
    BY <1>1, <2>1
    DEF JInv, MessagesAgree, ReleasedArePosted, BatchWaits, BufferIsNotEncoded, Allocated, Waiting
<1>10. Counts'
  BY <1>1, <1>4, <1>5, <1>6, <1>7 DEF JInv, Counts
<1>11. LifeAgrees'
  <2>1. OneReadIs'
    BY <1>1 DEF JInv, LifeAgrees, OneReadIs, ReadsAre
  <2>2. NewIsBlank' /\ SocketAgrees'
    BY <1>1, <1>2 DEF JInv, LifeAgrees, NewIsBlank, SocketAgrees
  <2>3. LoginsAreFew' /\ AttachedAgrees'
    BY <1>1, <1>5, <1>6 DEF JInv, LifeAgrees, LoginsAreFew, AttachedAgrees
  <2>. QED
    BY <2>1, <2>2, <2>3 DEF LifeAgrees
<1>. QED
  BY <1>8, <1>9, <1>10, <1>11 DEF JInv

LEMMA CompletesKeeps ==
    ASSUME JInv, NEW op \in {"header", "body", "write"}, NEW ok \in BOOLEAN, Completes(op, ok),
           UNCHANGED sessionVars
    PROVE  JInv'
<1>0. Figures
  BY Base
<1>1. /\ op \in ops /\ socket = "open" /\ ops' = ops \ {op}
      /\ handlers' = Append(handlers, <<op, ok>>)
      /\ UNCHANGED <<msgState, encoded, outBuf, fresh, connRefs, protoRefs, tasks>>
      /\ UNCHANGED <<connState, socket, pendingRead, pendingWrite, errors, timers>>
      /\ UNCHANGED <<kind, proto, attached, first, player, due, spc, dpc, batch, raced>>
  BY DEF Completes, poolVars, sessionVars
<1>2. connState # "new" /\ connState # "closed" /\ Stops(handlers) = 0
  <2>1. connState # "new" /\ connState # "closed"
    BY <1>1 DEF JInv, LifeAgrees, NewIsBlank, SocketAgrees
  <2>2. /\ Pending("releaseConnection") + Stops(handlers) + 0 = 0
        /\ Pending("releaseConnection") \in Nat /\ Stops(handlers) \in Nat
    BY <1>0, <1>1, <2>1 DEF Figures, JInv, Counts
  <2>. QED
    BY <2>1, <2>2
<1>3. op \in Operations /\ handlers \in Seq(Handlers) /\ StopIsLast(handlers)
  BY <1>0 DEF Operations, Figures
<1>4. /\ handlers' \in Seq(Handlers) /\ StopIsLast(handlers')
      /\ OneHandler(op, Stops(handlers') - Stops(handlers), Reads(handlers') - Reads(handlers),
                    Writes(handlers') - Writes(handlers))
  BY <1>1, <1>2, <1>3, HandlerIsLast
<1>5. /\ Stops(handlers') \in Nat /\ Reads(handlers') \in Nat /\ Writes(handlers') \in Nat
      /\ Stops(handlers) \in Nat /\ Reads(handlers) \in Nat /\ Writes(handlers) \in Nat
  BY <1>0, <1>4, QueueCounts DEF Figures
<1>6. /\ Stops(handlers') = 0
      /\ op \in {"header", "body"} => Reads(handlers') = Reads(handlers) + 1
                                      /\ Writes(handlers') = Writes(handlers)
      /\ op = "write" => Reads(handlers') = Reads(handlers)
                         /\ Writes(handlers') = Writes(handlers) + 1
  BY <1>2, <1>4, <1>5 DEF OneHandler
<1>7. N' = N /\ W' = W /\ \A x : Posted(x)' = Posted(x)
  BY <1>1 DEF N, W, Posted
<1>8. \A e : Pending(e)' = Pending(e)
  BY <1>1, <1>7 DEF Pending
<1>9. TypeOK'
  BY <1>0, <1>1, <1>4 DEF Figures, TypeOK, PoolTypeOK, ConnTypeOK, Task, Handlers
<1>10. MessagesAgree'
  BY <1>1, <1>7
  DEF JInv, MessagesAgree, ReleasedArePosted, BatchWaits, BufferIsNotEncoded, Allocated, Waiting
<1>11. Counts'
  <2>1. W' = (IF "write" \in ops' THEN 1 ELSE 0) + Writes(handlers')
    <3>1. W = (IF "write" \in ops THEN 1 ELSE 0) + Writes(handlers)
      BY DEF JInv, Counts
    <3>2. CASE op = "write"
      BY <1>1, <1>5, <1>6, <1>7, <3>1, <3>2
    <3>3. CASE op \in {"header", "body"}
      BY <1>1, <1>5, <1>6, <1>7, <3>1, <3>3
    <3>. QED
      BY <3>2, <3>3
  <2>2. socket' # "deleted" /\ ~(Stops(handlers') > 0)
    BY <1>1, <1>6
  <2>3. (Pending("releaseConnection") + Stops(handlers) + (IF socket = "deleted" THEN 1 ELSE 0)
           = IF connState = "closed" THEN 1 ELSE 0)'
    BY <1>1, <1>2, <1>6, <1>8 DEF JInv, Counts
  <2>4. InOrder(tasks')
    BY <1>1 DEF JInv, Counts
  <2>. QED
    BY <1>1, <1>4, <1>7, <1>8, <2>1, <2>2, <2>3, <2>4 DEF JInv, Counts
<1>12. LifeAgrees'
  <2>1. OneReadIs'
    <3>1. OneReadIs
      BY DEF JInv, LifeAgrees
    <3>2. ReadsAre(Reads(handlers))' = ReadsAre(Reads(handlers))
      <4>1. CASE op = "write"
        BY <1>1, <1>6, <4>1 DEF ReadsAre
      <4>2. CASE op = "header"
        BY <1>1, <1>5, <1>6, <4>2 DEF ReadsAre
      <4>3. CASE op = "body"
        BY <1>1, <1>5, <1>6, <4>3 DEF ReadsAre
      <4>. QED
        BY <4>1, <4>2, <4>3
    <3>. QED
      BY <1>1, <3>1, <3>2 DEF OneReadIs
  <2>2. NewIsBlank' /\ SocketAgrees'
    BY <1>1, <1>2 DEF JInv, LifeAgrees, NewIsBlank, SocketAgrees
  <2>3. LoginsAreFew' /\ AttachedAgrees'
    BY <1>1, <1>7, <1>8 DEF JInv, LifeAgrees, LoginsAreFew, AttachedAgrees
  <2>. QED
    BY <2>1, <2>2, <2>3 DEF LifeAgrees
<1>. QED
  BY <1>9, <1>10, <1>11, <1>12 DEF JInv

LEMMA ExpiresKeeps ==
    ASSUME JInv, NEW k \in {"read", "write"}, Expires(k), UNCHANGED sessionVars
    PROVE  JInv'
<1>0. Figures
  BY Base
<1>1. /\ k \in timers /\ timers' = timers \ {k} /\ handlers' = Append(handlers, TimeOut(k))
      /\ UNCHANGED <<msgState, encoded, outBuf, fresh, connRefs, protoRefs, tasks>>
      /\ UNCHANGED <<connState, socket, pendingRead, pendingWrite, errors, ops>>
      /\ UNCHANGED <<kind, proto, attached, first, player, due, spc, dpc, batch, raced>>
  BY DEF Expires, poolVars, sessionVars
<1>2. connState # "new"
  BY <1>1 DEF JInv, LifeAgrees, NewIsBlank
<1>3. PICK op \in Operations, ok \in BOOLEAN :
          op \in {"readTimeout", "writeTimeout"} /\ TimeOut(k) = <<op, ok>>
  BY DEF Operations, TimeOut
<1>4. /\ handlers' \in Seq(Handlers) /\ StopIsLast(handlers')
      /\ OneHandler(op, Stops(handlers') - Stops(handlers), Reads(handlers') - Reads(handlers),
                    Writes(handlers') - Writes(handlers))
  <2>1. handlers \in Seq(Handlers) /\ StopIsLast(handlers) /\ op \notin Transfers
    BY <1>0, <1>3 DEF Figures, Transfers
  <2>. QED
    BY <1>1, <1>3, <2>1, HandlerIsLast
<1>5. /\ Stops(handlers') = Stops(handlers) /\ Reads(handlers') = Reads(handlers)
      /\ Writes(handlers') = Writes(handlers)
  <2>1. /\ Stops(handlers') \in Nat /\ Reads(handlers') \in Nat /\ Writes(handlers') \in Nat
        /\ Stops(handlers) \in Nat /\ Reads(handlers) \in Nat /\ Writes(handlers) \in Nat
    BY <1>0, <1>4, QueueCounts DEF Figures
  <2>. QED
    BY <1>3, <1>4, <2>1 DEF OneHandler
<1>7. N' = N /\ W' = W /\ \A x : Posted(x)' = Posted(x)
  BY <1>1 DEF N, W, Posted
<1>8. \A e : Pending(e)' = Pending(e)
  BY <1>1, <1>7 DEF Pending
<1>9. TypeOK'
  BY <1>0, <1>1, <1>4 DEF Figures, TypeOK, PoolTypeOK, ConnTypeOK, Task, Handlers
<1>10. MessagesAgree'
  BY <1>1, <1>7
  DEF JInv, MessagesAgree, ReleasedArePosted, BatchWaits, BufferIsNotEncoded, Allocated, Waiting
<1>11. Counts'
  BY <1>1, <1>4, <1>5, <1>7, <1>8 DEF JInv, Counts
<1>12. LifeAgrees'
  <2>1. OneReadIs'
    BY <1>1, <1>5 DEF JInv, LifeAgrees, OneReadIs, ReadsAre
  <2>2. NewIsBlank' /\ SocketAgrees'
    BY <1>1, <1>2 DEF JInv, LifeAgrees, NewIsBlank, SocketAgrees
  <2>3. LoginsAreFew' /\ AttachedAgrees'
    BY <1>1, <1>7, <1>8 DEF JInv, LifeAgrees, LoginsAreFew, AttachedAgrees
  <2>. QED
    BY <2>1, <2>2, <2>3 DEF LifeAgrees
<1>. QED
  BY <1>9, <1>10, <1>11, <1>12 DEF JInv

-----------------------------------------------------------------------------
(* The whole. *)

\* The invariant holds at first, and every step of either thread, the clock
\* and the network keeps it.
LEMMA InitHasJInv ==
    ASSUME Init
    PROVE  JInv
<1>1. /\ msgState = [m \in Msg |-> "free"] /\ encoded = {} /\ outBuf = NoMsg /\ fresh = {}
      /\ connRefs = 0 /\ protoRefs = 0 /\ tasks = <<>>
      /\ connState = "new" /\ socket = "open" /\ pendingRead = 0 /\ pendingWrite = 0
      /\ errors = {} /\ ops = {} /\ timers = {} /\ handlers = <<>>
      /\ kind = "game" /\ proto = "none" /\ attached = "no" /\ first = "no"
      /\ player = "out" /\ due = {} /\ spc = "idle" /\ dpc = "idle" /\ batch = {}
      /\ raced = FALSE
  BY DEF Init, PoolInit, ConnInit
<1>2. TypeOK
  <2>1. /\ msgState \in [Msg -> {"free", "auto", "add", "writing", "written", "released"}]
        /\ encoded \in SUBSET Msg /\ fresh \in SUBSET Msg /\ outBuf \in Msg \cup {NoMsg}
        /\ connRefs \in Int /\ protoRefs \in Int
    BY <1>1
  <2>2. tasks \in Seq(Msg \cup Calls) /\ handlers \in Seq(Handlers)
    BY <1>1
  <2>3. PoolTypeOK /\ ConnTypeOK
    BY <1>1, <2>1, <2>2 DEF PoolTypeOK, ConnTypeOK, Handlers
  <2>. QED
    BY <1>1, <2>3 DEF TypeOK
<1>3. Allocated = {} /\ Waiting = {} /\ AllocatedIn(msgState) = {} /\ WritingIn(msgState) = {}
  BY <1>1 DEF Allocated, Waiting, AllocatedIn, WritingIn
<1>4. N = 0 /\ W = 0
  BY <1>3, MessagesAreFew DEF N, W
<1>5. /\ Stops(handlers) = 0 /\ Reads(handlers) = 0 /\ Writes(handlers) = 0
      /\ StopIsLast(handlers) /\ InOrder(tasks)
      /\ \A x : Posted(x) = 0
  BY <1>1, QueueIsEmpty, HowManyOfNone, BehindOfFew DEF Posted, InOrder
<1>6. \A e : Pending(e) = 0
  BY <1>1, <1>5 DEF Pending
<1>7. MessagesAgree
  BY <1>1, <1>3, <1>5
  DEF MessagesAgree, ReleasedArePosted, BatchWaits, BufferIsNotEncoded
<1>8. Counts
  BY <1>1, <1>4, <1>5, <1>6 DEF Counts
<1>9. LifeAgrees
  BY <1>1, <1>3, <1>5, <1>6
  DEF LifeAgrees, NewIsBlank, SocketAgrees, AttachedAgrees, LoginsAreFew, OneReadIs, ReadsAre
<1>. QED
  BY <1>2, <1>7, <1>8, <1>9 DEF JInv

LEMMA ServiceKeeps ==
    ASSUME JInv, ServiceThread
    PROVE  JInv'
<1>1. CASE ServiceHandler
  <2>1. spc = "idle" /\ UNCHANGED sessionVars
    BY <1>1 DEF ServiceHandler
  <2>2. ASSUME NEW op \in {"header", "body"}, NEW ok \in BOOLEAN, ReadFails(op, ok)
        PROVE  JInv'
    BY <2>1, <2>2, ReadFailsKeeps
  <2>3. CASE ParseHeader
    BY <2>1, <2>3, ParseHeaderKeeps
  <2>4. ASSUME NEW m \in Msg, NEW ok \in BOOLEAN, OnWrite(m, ok)
        PROVE  JInv'
    BY <2>1, <2>4, OnWriteKeeps
  <2>5. ASSUME NEW m \in Msg, LetGo(m)
        PROVE  JInv'
    BY <2>1, <2>5, LetGoKeeps
  <2>6. ASSUME NEW k \in {"read", "write"}, OnTimeOut(k)
        PROVE  JInv'
    BY <2>1, <2>6, OnTimeOutKeeps
  <2>7. CASE OnStop
    BY <2>1, <2>7, OnStopKeeps
  <2>. QED
    BY <1>1, <2>2, <2>3, <2>4, <2>5, <2>6, <2>7 DEF ServiceHandler
<1>2. CASE ParseUnknown
  BY <1>2, ParseUnknownKeeps
<1>3. CASE ParsePacket
  BY <1>3, ParsePacketKeeps
<1>4. CASE ParseForReply
  BY <1>4, ParseForReplyKeeps
<1>5. CASE Reply
  BY <1>5, ReplyKeeps
<1>. QED
  BY <1>1, <1>2, <1>3, <1>4, <1>5 DEF ServiceThread

LEMMA DispatcherKeeps ==
    ASSUME JInv, RunTask \/ GameTask \/ SendAll
    PROVE  JInv'
<1>1. CASE RunTask
  <2>1. dpc' \in {"frame", "idle"}
    BY <1>1 DEF RunTask, Framed
  <2>2. ASSUME NEW m \in Msg, RunRelease(m)
        PROVE  JInv'
    BY <2>1, <2>2, RunReleaseKeeps
  <2>3. CASE RunLogin
    BY <2>1, <2>3, RunLoginKeeps
  <2>4. CASE RunConnect
    BY <2>1, <2>4, RunConnectKeeps
  <2>5. CASE RunClose
    BY <2>1, <2>5, RunCloseKeeps
  <2>6. CASE RunReleaseConnection
    BY <2>1, <2>6, RunReleaseConnectionKeeps
  <2>7. CASE RunReleaseProtocol
    BY <2>1, <2>7, RunReleaseProtocolKeeps
  <2>. QED
    BY <1>1, <2>2, <2>3, <2>4, <2>5, <2>6, <2>7 DEF RunTask
<1>2. CASE GameTask
  BY <1>2, GameTaskKeeps
<1>3. CASE LockPool \/ EndSendAll
  <2>1. /\ UNCHANGED <<msgState, encoded, outBuf, fresh, connRefs, protoRefs, tasks>>
        /\ UNCHANGED <<connState, socket, pendingRead, pendingWrite, errors, ops, timers,
                       handlers>>
        /\ UNCHANGED <<kind, proto, attached, first, player, due, spc, batch, raced>>
        /\ dpc' \in {"idle", "drop"} /\ batch = {}
    BY <1>3 DEF LockPool, EndSendAll, poolVars, connVars, JInv, MessagesAgree, BatchWaits
  <2>2. fresh' \in SUBSET Msg /\ batch' \in SUBSET Msg
    BY <2>1 DEF JInv, TypeOK, PoolTypeOK
  <2>. QED
    BY <2>1, <2>2, QuietKeeps
<1>4. CASE MoveQueue
  BY <1>4, MoveQueueKeeps
<1>5. ASSUME NEW m \in Msg, DropOld(m)
      PROVE  JInv'
  BY <1>5, DropOldKeeps
<1>6. ASSUME NEW m \in Msg, SendOne(m)
      PROVE  JInv'
  BY <1>6, SendOneKeeps
<1>. QED
  BY <1>1, <1>2, <1>3, <1>4, <1>5, <1>6 DEF SendAll

LEMMA NextKeepsJInv ==
    ASSUME JInv, [Next]_vars
    PROVE  JInv'
<1>1. CASE Accept
  BY <1>1, AcceptKeeps
<1>2. CASE ServiceThread
  BY <1>2, ServiceKeeps
<1>3. CASE RunTask \/ GameTask \/ SendAll
  BY <1>3, DispatcherKeeps
<1>4. ASSUME NEW e \in {"connect", "releaseConnection", "releaseProtocol"}, EventFires(e)
      PROVE  JInv'
  BY <1>4, EventFiresKeeps
<1>5. CASE TimePasses \/ UNCHANGED vars
  <2>1. /\ UNCHANGED <<msgState, encoded, outBuf, connRefs, protoRefs, tasks>>
        /\ UNCHANGED <<connState, socket, pendingRead, pendingWrite, errors, ops, timers,
                       handlers>>
        /\ UNCHANGED <<kind, proto, attached, first, player, due, spc, dpc, batch, raced>>
        /\ fresh' = fresh \/ fresh' = {}
    BY <1>5 DEF TimePasses, vars, poolVars, connVars, sessionVars
  <2>2. /\ fresh' \in SUBSET Msg /\ batch' \in SUBSET Msg
        /\ dpc' \in {"idle", "frame", "drop", "sendAll"}
    BY <2>1 DEF JInv, TypeOK, PoolTypeOK
  <2>3. /\ dpc' = "sendAll" => \A m \in batch' : msgState[m] = "auto"
        /\ dpc' # "sendAll" => batch' = {}
    BY <2>1 DEF JInv, MessagesAgree, BatchWaits
  <2>. QED
    BY <2>1, <2>2, <2>3, QuietKeeps
<1>6. CASE Network
  BY <1>6, CompletesKeeps DEF Network
<1>7. ASSUME NEW k \in {"read", "write"}, TimerExpires(k)
      PROVE  JInv'
  BY <1>7, ExpiresKeeps DEF TimerExpires
<1>. QED
  BY <1>1, <1>2, <1>3, <1>4, <1>5, <1>6, <1>7 DEF Next

\* The inductive invariant holds.
THEOREM InvariantHolds == Spec => []IInv
<1>1. Init => JInv
  BY InitHasJInv
<1>2. JInv /\ [Next]_vars => JInv'
  BY NextKeepsJInv
<1>3. JInv => IInv
  BY JInvIsIInv
<1>. QED
  BY <1>1, <1>2, <1>3, PTL DEF Spec

\* Every variable of the session has its type: no count of reads exceeds one,
\* no list has a task or a handler the code does not know.
THEOREM TypeCorrect == Spec => []TypeOK
<1>1. IInv => TypeOK
  BY DEF IInv
<1>. QED
  BY <1>1, InvariantHolds, PTL

\* Connection::m_refCount and Protocol::m_refCount are what they count, the
\* messages allocated and the connect event that keeps the protocol, as long as
\* no unlocked update of theirs has been lost.
THEOREM CountsAreExact == Spec => []RefsAreExact
<1>1. IInv => RefsAreExact
  BY DEF IInv
<1>. QED
  BY <1>1, InvariantHolds, PTL

\* A close is posted once while it is asked for, whoever asked and how often,
\* and the release of the connection is under way once after it.
THEOREM ClosesOnce == Spec => []OneCloseTask
<1>1. IInv => OneCloseTask
  BY DEF IInv
<1>. QED
  BY <1>1, InvariantHolds, PTL

\* No two reads and no two writes are in progress on a connection, though both
\* threads start them.
THEOREM OneAtATime == Spec => []OneOperation
<1>1. IInv => OneOperation
  BY DEF IInv
<1>. QED
  BY <1>1, InvariantHolds, PTL

\* Output is never added to a message that is encoded, nor one encoded twice.
THEOREM WaitingIsNotEncoded == Spec => []BufferIsNotEncoded
<1>1. IInv => BufferIsNotEncoded
  BY DEF IInv
<1>. QED
  BY <1>1, InvariantHolds, PTL

\* What could be used after the deletion is counted, and the count is 0.
LEMMA NothingUsesDeleted ==
    ASSUME JInv
    PROVE  NoUseAfterDelete
<1>0. Figures
  BY Base
<1>. SUFFICES ASSUME ~raced, UsesDeleted
              PROVE  FALSE
  BY DEF NoUseAfterDelete
<1>1. ASSUME proto = "deleted", batch # {}
      PROVE  FALSE
  <2>1. PICK m \in batch : m \in Msg /\ msgState[m] = "auto"
    BY <1>0, <1>1 DEF JInv, MessagesAgree, BatchWaits, Figures, TypeOK
  <2>2. N # 0
    BY <1>0, <2>1 DEF Figures, Allocated
  <2>. QED
    BY <1>1, <2>2 DEF JInv, Counts
<1>2. ASSUME proto = "deleted", dpc = "idle", tasks # <<>>,
             Head(tasks) \in Msg \cup {"login", "connect", "releaseProtocol"}
      PROVE  FALSE
  <2>1. PICK t : t = Head(tasks)
    OBVIOUS
  <2>2. Starts(t)
    BY <1>2, <2>1 DEF Starts
  <2>3. Posted(t) = HowMany(Tail(tasks), {t}) + 1 /\ HowMany(Tail(tasks), {t}) \in Nat
    BY <2>2, TaskRuns
  <2>4. Posted(t) > 0
    BY <2>3
  <2>5. N = 0 /\ Pending("connect") = 0 /\ attached # "yes" /\ Pending("releaseProtocol") = 0
    BY <1>2 DEF JInv, Counts, LifeAgrees, AttachedAgrees
  <2>6. CASE t \in Msg
    <3>1. msgState[t] = "released"
      BY <2>4, <2>6 DEF JInv, MessagesAgree, ReleasedArePosted
    <3>. QED
      BY <1>0, <2>5, <2>6, <3>1 DEF Figures, Allocated
  <2>7. CASE t = "login"
    BY <2>4, <2>5, <2>7 DEF JInv, LifeAgrees, LoginsAreFew
  <2>8. CASE t \in {"connect", "releaseProtocol"}
    <3>1. Posted(t) \in Nat /\ Pending(t) = 0
      BY <1>0, <2>5, <2>8 DEF Figures
    <3>. QED
      BY <2>4, <3>1 DEF Pending
  <2>. QED
    BY <1>2, <2>1, <2>6, <2>7, <2>8
<1>3. ASSUME socket = "deleted"
      PROVE  /\ N = 0 /\ Allocated = {} /\ ops = {}
             /\ Stops(handlers) = 0 /\ Reads(handlers) = 0 /\ Writes(handlers) = 0
  <2>1. N = 0 /\ Reads(handlers) = 0 /\ Writes(handlers) = 0
    BY <1>3 DEF JInv, Counts
  <2>2. Allocated = {} /\ ops = {}
    BY <1>0, <1>3, <2>1 DEF Figures, JInv, LifeAgrees, SocketAgrees
  <2>3. /\ Pending("releaseConnection") + Stops(handlers) + 1
             = IF connState = "closed" THEN 1 ELSE 0
        /\ Pending("releaseConnection") \in Nat /\ Stops(handlers) \in Nat
    BY <1>0, <1>3 DEF Figures, JInv, Counts
  <2>4. Stops(handlers) = 0
    BY <2>3
  <2>. QED
    BY <2>1, <2>2, <2>4
<1>4. ASSUME socket = "deleted", NEW op \in {"write", "onStop"}, NEW ok \in BOOLEAN,
             Handler(<<op, ok>>)
      PROVE  FALSE
  <2>1. op \in Operations
    BY <1>4 DEF Operations
  <2>2. /\ Stops(Tail(handlers)) \in Nat /\ Writes(Tail(handlers)) \in Nat
        /\ OneHandler(op, Stops(handlers) - Stops(Tail(handlers)),
                      Reads(handlers) - Reads(Tail(handlers)),
                      Writes(handlers) - Writes(Tail(handlers)))
    BY <1>4, <2>1, HandlerRuns
  <2>. QED
    BY <1>3, <1>4, <2>2 DEF OneHandler
<1>5. ASSUME socket = "deleted"
      PROVE  ~Held
  <2>1. HowMany(handlers, Transfers \X BOOLEAN) = 0
    <3>1. HowMany(handlers, Transfers \X BOOLEAN) = Reads(handlers) + Writes(handlers)
      BY <1>0, QueueCounts DEF Figures
    <3>. QED
      BY <1>3, <1>5, <3>1
  <2>2. \A i \in 1 .. Len(handlers) : handlers[i] \notin Transfers \X BOOLEAN
    BY <1>0, <2>1, HowManyIsPositive DEF Figures
  <2>3. \A i \in 1 .. Len(handlers) : handlers[i] \in Handlers
    BY <1>0 DEF Figures
  <2>4. \A i \in 1 .. Len(handlers) : handlers[i][1] \notin {"header", "body", "write"}
    BY <2>2, <2>3 DEF Handlers, Transfers
  <2>. QED
    BY <1>3, <1>5, <2>4 DEF Held
<1>6. ASSUME socket = "deleted", NEW ok \in BOOLEAN, Handler(<<"write", ok>>)
      PROVE  FALSE
  <2>1. PICK op \in {"write", "onStop"} : op = "write"
    OBVIOUS
  <2>. QED
    BY <1>4, <1>6, <2>1
<1>7. ASSUME socket = "deleted", Handler(<<"onStop", TRUE>>)
      PROVE  FALSE
  <2>1. PICK op \in {"write", "onStop"}, ok \in BOOLEAN : op = "onStop" /\ ok = TRUE
    OBVIOUS
  <2>2. Handler(<<op, ok>>)
    BY <1>7, <2>1
  <2>. QED
    BY <1>4, <1>7, <2>2
<1>. QED
  BY <1>1, <1>2, <1>5, <1>6, <1>7 DEF UsesDeleted

\* Until a lost update falsifies a count, no thread uses the protocol or the
\* socket after its deletion: what a task, a message or a handler still refers
\* to is counted, and neither part is deleted before its count is 0.
THEOREM NothingDeletedIsUsed == Spec => []NoUseAfterDelete
<1>1. IInv => NoUseAfterDelete
  BY JInvIsIInv, NothingUsesDeleted
<1>. QED
  BY <1>1, InvariantHolds, PTL
=============================================================================
