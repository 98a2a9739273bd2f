----------------------------- MODULE PartyProofs -----------------------------
(***************************************************************************)
(* Proofs about parties, for any number of players, and of addresses at    *)
(* which parties are allocated and deleted.                                *)
(***************************************************************************)
EXTENDS Party, FiniteSetTheorems, TLAPS

-----------------------------------------------------------------------------
(* Lists of members, which have a player once. *)

LEMMA WithoutErases ==
    ASSUME NEW s \in Seq(Player), IsInjective(s), NEW p
    PROVE  /\ Without(s, p) \in Seq(Player)
           /\ IsInjective(Without(s, p))
           /\ Range(Without(s, p)) = Range(s) \ {p}
<1>1. s \in [1 .. Len(s) -> Player] /\ Len(s) \in Nat /\ DOMAIN s = 1 .. Len(s)
  OBVIOUS
<1>2. CASE p \notin Range(s)
  BY <1>2 DEF Without
<1>3. CASE p \in Range(s)
  <2>. DEFINE k == CHOOSE i \in 1 .. Len(s) : s[i] = p
              w == [i \in 1 .. Len(s) - 1 |-> IF i < k THEN s[i] ELSE s[i + 1]]
  <2>1. k \in 1 .. Len(s) /\ s[k] = p
    BY <1>1, <1>3 DEF Range
  <2>2. Without(s, p) = w
    BY <1>3 DEF Without
  <2>. HIDE DEF k
  <2>3. Len(s) - 1 \in Nat
    BY <1>1, <2>1
  <2>4. \A i \in 1 .. Len(s) - 1 : /\ i \in 1 .. Len(s) /\ i + 1 \in 1 .. Len(s)
                                   /\ w[i] = IF i < k THEN s[i] ELSE s[i + 1]
    BY <1>1, <2>1
  <2>5. w \in Seq(Player) /\ DOMAIN w = 1 .. Len(s) - 1
    <3>1. w \in [1 .. Len(s) - 1 -> Player]
      BY <1>1, <2>4
    <3>2. \A n \in Nat : \A f \in [1 .. n -> Player] : f \in Seq(Player)
      OBVIOUS
    <3>. QED  BY <2>3, <3>1, <3>2
  <2>6. IsInjective(w)
    <3>. SUFFICES ASSUME NEW i \in 1 .. Len(s) - 1, NEW j \in 1 .. Len(s) - 1, w[i] = w[j]
                  PROVE  i = j
      BY <2>5 DEF IsInjective
    <3>1. \A m, n \in 1 .. Len(s) : s[m] = s[n] => m = n
      BY <1>1 DEF IsInjective
    <3>. HIDE DEF w
    <3>. QED  BY <1>1, <2>1, <2>4, <3>1
  <2>7. Range(w) = Range(s) \ {p}
    <3>. HIDE DEF w
    <3>1. \A m, n \in 1 .. Len(s) : s[m] = s[n] => m = n
      BY <1>1 DEF IsInjective
    <3>2. ASSUME NEW i \in 1 .. Len(s) - 1
          PROVE  w[i] \in Range(s) \ {p}
      BY <1>1, <2>1, <2>4, <3>1 DEF Range
    <3>3. ASSUME NEW m \in 1 .. Len(s), s[m] # p
          PROVE  \E i \in 1 .. Len(s) - 1 : w[i] = s[m]
      <4>1. CASE m < k
        BY <1>1, <2>1, <2>4, <4>1
      <4>2. CASE m > k
        <5>1. m - 1 \in 1 .. Len(s) - 1 /\ ~(m - 1 < k) /\ (m - 1) + 1 = m
          BY <1>1, <2>1, <4>2
        <5>. QED  BY <2>4, <5>1
      <4>. QED  BY <1>1, <2>1, <3>3, <4>1, <4>2
    <3>. QED
      BY <1>1, <2>5, <3>2, <3>3 DEF Range
  <2>. QED
    BY <2>2, <2>5, <2>6, <2>7
<1>. QED
  BY <1>2, <1>3

LEMMA AppendAdds ==
    ASSUME NEW s \in Seq(Player), IsInjective(s), NEW p \in Player, p \notin Range(s)
    PROVE  /\ Append(s, p) \in Seq(Player)
           /\ IsInjective(Append(s, p))
           /\ Range(Append(s, p)) = Range(s) \cup {p}
<1>. DEFINE t == Append(s, p)
<1>1. /\ Len(s) \in Nat /\ DOMAIN s = 1 .. Len(s)
      /\ t \in Seq(Player) /\ DOMAIN t = 1 .. Len(s) + 1
      /\ \A i \in 1 .. Len(s) : t[i] = s[i]
      /\ t[Len(s) + 1] = p
  OBVIOUS
<1>. HIDE DEF t
<1>2. IsInjective(t)
  <2>1. \A m, n \in 1 .. Len(s) : s[m] = s[n] => m = n
    BY <1>1 DEF IsInjective
  <2>2. \A m \in 1 .. Len(s) : s[m] # p
    BY <1>1 DEF Range
  <2>3. \A i \in 1 .. Len(s) + 1 : i \in 1 .. Len(s) \/ i = Len(s) + 1
    BY <1>1
  <2>. QED
    BY <1>1, <2>1, <2>2, <2>3 DEF IsInjective
<1>3. Range(t) = Range(s) \cup {p}
  <2>1. \A i \in 1 .. Len(s) + 1 : i \in 1 .. Len(s) \/ i = Len(s) + 1
    BY <1>1
  <2>2. 1 .. Len(s) \subseteq 1 .. Len(s) + 1 /\ Len(s) + 1 \in 1 .. Len(s) + 1
    BY <1>1
  <2>. QED
    BY <1>1, <2>1, <2>2 DEF Range
<1>. QED
  BY <1>1, <1>2, <1>3 DEF t

LEMMA PrependAdds ==
    ASSUME NEW s \in Seq(Player), IsInjective(s), NEW p \in Player, p \notin Range(s)
    PROVE  /\ <<p>> \o s \in Seq(Player)
           /\ IsInjective(<<p>> \o s)
           /\ Range(<<p>> \o s) = Range(s) \cup {p}
<1>. DEFINE t == <<p>> \o s
<1>1. /\ Len(s) \in Nat /\ DOMAIN s = 1 .. Len(s)
      /\ t \in Seq(Player) /\ DOMAIN t = 1 .. Len(s) + 1
      /\ \A i \in 1 .. Len(s) : t[i + 1] = s[i]
      /\ t[1] = p
  OBVIOUS
<1>2. \A i \in 1 .. Len(s) + 1 : i = 1 \/ (i - 1 \in 1 .. Len(s) /\ (i - 1) + 1 = i)
  BY <1>1
<1>. HIDE DEF t
<1>3. \A i \in 1 .. Len(s) + 1 : i # 1 => i - 1 \in 1 .. Len(s) /\ t[i] = s[i - 1]
  BY <1>1, <1>2
<1>4. IsInjective(t)
  <2>1. \A m, n \in 1 .. Len(s) : s[m] = s[n] => m = n
    BY <1>1 DEF IsInjective
  <2>2. \A m \in 1 .. Len(s) : s[m] # p
    BY <1>1 DEF Range
  <2>3. ASSUME NEW i \in 1 .. Len(s) + 1, NEW j \in 1 .. Len(s) + 1, t[i] = t[j]
        PROVE  i = j
    <3>1. CASE i # 1 /\ j # 1
      <4>1. i - 1 = j - 1
        BY <1>3, <2>1, <2>3, <3>1
      <4>. QED  BY <4>1
    <3>. QED  BY <1>1, <1>3, <2>2, <2>3, <3>1
  <2>. QED
    BY <1>1, <2>3 DEF IsInjective
<1>5. Range(t) = Range(s) \cup {p}
  <2>1. \A i \in 1 .. Len(s) : i + 1 \in 1 .. Len(s) + 1
    BY <1>1
  <2>2. 1 \in 1 .. Len(s) + 1
    BY <1>1
  <2>3. \A i \in 1 .. Len(s) + 1 : t[i] \in Range(s) \cup {p}
    BY <1>1, <1>3 DEF Range
  <2>4. \A i \in 1 .. Len(s) : \E j \in 1 .. Len(s) + 1 : t[j] = s[i]
    BY <1>1, <2>1
  <2>5. Range(t) \subseteq Range(s) \cup {p}
    BY <1>1, <2>3 DEF Range
  <2>6. p \in Range(t)
    BY <1>1, <2>2 DEF Range
  <2>7. Range(s) \subseteq Range(t)
    BY <1>1, <2>4 DEF Range
  <2>. QED
    BY <2>5, <2>6, <2>7
<1>. QED
  BY <1>1, <1>4, <1>5 DEF t

LEMMA RangeIsEmpty ==
    ASSUME NEW s \in Seq(Player)
    PROVE  /\ Range(s) \subseteq Player
           /\ s = <<>> <=> Range(s) = {}
           /\ s # <<>> => Head(s) \in Range(s)
<1>1. Range(s) \subseteq Player
  BY DEF Range
<1>2. ASSUME s # <<>>
      PROVE  Head(s) \in Range(s)
  BY <1>2 DEF Range
<1>3. ASSUME s = <<>>
      PROVE  Range(s) = {}
  BY <1>3 DEF Range
<1>. QED
  BY <1>1, <1>2, <1>3

\* A list that has a player once is as long as the players are many.
LEMMA ListCounts ==
    ASSUME NEW s \in Seq(Player), IsInjective(s)
    PROVE  IsFiniteSet(Range(s)) /\ Cardinality(Range(s)) = Len(s)
<1>1. Len(s) \in Nat /\ DOMAIN s = 1 .. Len(s) /\ s \in [1 .. Len(s) -> Range(s)]
  BY DEF Range
<1>2. s \in Bijection(1 .. Len(s), Range(s))
  BY <1>1 DEF Bijection, Injection, Surjection, Range
<1>3. ExistsBijection(1 .. Len(s), Range(s))
  BY <1>2 DEF ExistsBijection
<1>. QED
  BY <1>1, <1>3, FS_CountingElements, FS_NatBijection

-----------------------------------------------------------------------------
(* Parties, one by one. *)

\* A party that has a leader: its lists make sense together.
Proper(r) ==
    /\ r \in Parties
    /\ r.leader \in Player
    /\ IsInjective(r.members) /\ r.leader \notin Range(r.members)
    /\ r.active \subseteq Players(r)

\* The flag is what an examination would give.
Current(r) == r.shared = "enabled" <=> (r.shared # "off" /\ CanEnable(r))

\* The same party, that may share other than before.
Alike(s, r) ==
    /\ s \in Parties
    /\ s.leader = r.leader /\ s.members = r.members /\ s.invited = r.invited /\ s.active = r.active

LEMMA ProperPlayers ==
    ASSUME NEW r, Proper(r)
    PROVE  /\ Players(r) = {r.leader} \cup Range(r.members)
           /\ Players(r) \subseteq Player
           /\ r.leader \in Players(r)
<1>1. r.members \in Seq(Player) /\ r.leader \in Player
  BY DEF Proper, Parties
<1>2. Range(r.members) \subseteq Player /\ NoPlayer \notin Player
  BY <1>1, RangeIsEmpty, PartyAssumption
<1>. QED
  BY <1>1, <1>2 DEF Players

LEMMA AlikeIsProper ==
    ASSUME NEW r, NEW s, Proper(r), Alike(s, r)
    PROVE  /\ Proper(s) /\ Players(s) = Players(r)
           /\ \A gone : Ended(s, gone) <=> Ended(r, gone)
BY DEF Proper, Alike, Players, Ended

LEMMA RefreshedIsAlike ==
    ASSUME NEW r \in Parties
    PROVE  Alike(Refreshed(r), r) /\ Current(Refreshed(r))
<1>. DEFINE flag == IF r.shared = "off" THEN r.shared ELSE IF CanEnable(r) THEN "enabled" ELSE "waiting"
<1>1. Refreshed(r) = [r EXCEPT !.shared = flag]
  BY DEF Refreshed
<1>2. flag \in {"off", "waiting", "enabled"} /\ (flag = "enabled" <=> flag # "off" /\ CanEnable(r))
  BY DEF Parties
<1>. HIDE DEF flag
<1>3. /\ Refreshed(r) \in Parties
      /\ Refreshed(r).leader = r.leader /\ Refreshed(r).members = r.members
      /\ Refreshed(r).invited = r.invited /\ Refreshed(r).active = r.active
      /\ Refreshed(r).together = r.together /\ Refreshed(r).shared = flag
  BY <1>1, <1>2 DEF Parties
<1>4. CanEnable(Refreshed(r)) <=> CanEnable(r)
  BY <1>3 DEF CanEnable, Players
<1>. QED
  BY <1>2, <1>3, <1>4 DEF Alike, Current

LEMMA SomewhereIsAlike ==
    ASSUME NEW r \in Parties, NEW s \in Somewhere(r)
    PROVE  Alike(s, r)
<1>1. PICK t \in BOOLEAN : s = [r EXCEPT !.together = t]
  BY DEF Somewhere
<1>2. /\ s \in Parties
      /\ s.leader = r.leader /\ s.members = r.members /\ s.invited = r.invited /\ s.active = r.active
  BY <1>1 DEF Parties
<1>. QED
  BY <1>2 DEF Alike

\* Whoever joins was no player of the party, and is one then.
LEMMA JoinedIsProper ==
    ASSUME NEW r, Proper(r), NEW p \in Player, p \notin Players(r)
    PROVE  /\ Proper(Joined(r, p))
           /\ Players(Joined(r, p)) = Players(r) \cup {p}
           /\ Joined(r, p).leader = r.leader /\ Joined(r, p).invited = r.invited \ {p}
           /\ Joined(r, p).members # <<>>
<1>. DEFINE s == Joined(r, p)
<1>0. r \in Parties /\ r.members \in Seq(Player) /\ Players(r) = {r.leader} \cup Range(r.members)
  BY ProperPlayers DEF Proper, Parties
<1>1. /\ Append(r.members, p) \in Seq(Player)
      /\ IsInjective(Append(r.members, p))
      /\ Range(Append(r.members, p)) = Range(r.members) \cup {p}
  BY <1>0, AppendAdds DEF Proper
<1>2. /\ s \in Parties
      /\ s.leader = r.leader /\ s.members = Append(r.members, p) /\ s.invited = r.invited \ {p}
      /\ s.active = r.active
  BY <1>0, <1>1 DEF Joined, Parties
<1>. HIDE DEF s
<1>3. s.leader \in Player /\ IsInjective(s.members) /\ s.leader \notin Range(s.members)
  BY <1>0, <1>1, <1>2 DEF Proper
<1>4. Players(s) = Players(r) \cup {p}
  BY <1>1, <1>2, PartyAssumption DEF Players
<1>5. Proper(s)
  BY <1>2, <1>3, <1>4 DEF Proper
<1>6. s.members # <<>>
  BY <1>0, <1>2
<1>. QED
  BY <1>2, <1>4, <1>5, <1>6 DEF s

\* The leadership goes to a member, and the leader to the members.
LEMMA PassedIsProper ==
    ASSUME NEW r, Proper(r), NEW q \in Range(r.members)
    PROVE  /\ Proper(Passed(r, q))
           /\ Players(Passed(r, q)) = Players(r)
           /\ Passed(r, q).leader = q /\ Passed(r, q).invited = r.invited
           /\ Passed(r, q).active = r.active
           /\ Passed(r, q).members # <<>>
<1>. DEFINE s == Passed(r, q)
            list == <<r.leader>> \o Without(r.members, q)
<1>0. /\ r \in Parties /\ r.members \in Seq(Player) /\ r.leader \in Player
      /\ Players(r) = {r.leader} \cup Range(r.members)
      /\ q \in Player /\ q # r.leader
  BY ProperPlayers, RangeIsEmpty DEF Proper, Parties
<1>1. /\ Without(r.members, q) \in Seq(Player)
      /\ IsInjective(Without(r.members, q))
      /\ Range(Without(r.members, q)) = Range(r.members) \ {q}
  BY <1>0, WithoutErases DEF Proper
<1>2. /\ list \in Seq(Player)
      /\ IsInjective(list)
      /\ Range(list) = (Range(r.members) \ {q}) \cup {r.leader}
  BY <1>0, <1>1, PrependAdds DEF Proper
<1>. HIDE DEF list
<1>3. s = [r EXCEPT !.leader = q, !.members = list]
  BY DEF Passed, list
<1>4. /\ s \in Parties
      /\ s.leader = q /\ s.members = list /\ s.invited = r.invited /\ s.active = r.active
  BY <1>0, <1>2, <1>3 DEF Parties
<1>. HIDE DEF s
<1>5. s.leader \in Player /\ IsInjective(s.members) /\ s.leader \notin Range(s.members)
  BY <1>0, <1>2, <1>4
<1>6. Players(s) = Players(r)
  BY <1>0, <1>2, <1>4, PartyAssumption DEF Players
<1>7. Proper(s)
  BY <1>4, <1>5, <1>6 DEF Proper
<1>8. s.members # <<>>
  BY <1>2, <1>4, RangeIsEmpty
<1>. QED
  BY <1>4, <1>6, <1>7, <1>8 DEF s

\* Others have contributed.
LEMMA ActiveIsProper ==
    ASSUME NEW r, Proper(r), NEW X \in SUBSET Players(r), NEW s, s = [r EXCEPT !.active = X]
    PROVE  /\ Proper(s) /\ Players(s) = Players(r)
           /\ s.leader = r.leader /\ s.members = r.members /\ s.invited = r.invited
           /\ s.shared = r.shared
<1>1. X \in SUBSET Player
  BY ProperPlayers
<1>2. /\ s \in Parties
      /\ s.leader = r.leader /\ s.members = r.members /\ s.invited = r.invited /\ s.active = X
      /\ s.shared = r.shared
  BY <1>1 DEF Proper, Parties
<1>. QED
  BY <1>2 DEF Proper, Players

\* Whoever leaves is no player of the party then, and is not waited for; a
\* leader who leaves alone stays until the party is disbanded.
LEMMA LeftIsProper ==
    ASSUME NEW r, Proper(r), NEW p \in Players(r)
    PROVE  /\ Left(r, p) \in Parties /\ Left(r, p).invited = r.invited \ {p}
           /\ r.leader = p /\ r.members = <<>> => Left(r, p).leader = p
           /\ r.leader # p \/ r.members # <<>> =>
                 /\ Proper(Left(r, p))
                 /\ Players(Left(r, p)) = Players(r) \ {p}
<1>. DEFINE s == IF r.leader = p /\ r.members # <<>> THEN Passed(r, Head(r.members)) ELSE r
            t == Left(r, p)
<1>0. /\ r \in Parties /\ r.members \in Seq(Player) /\ r.leader \in Player
      /\ r.members # <<>> => Head(r.members) \in Range(r.members)
      /\ r.leader \notin Range(r.members)
  BY RangeIsEmpty DEF Proper, Parties
<1>1. /\ Proper(s) /\ Players(s) = Players(r) /\ s.invited = r.invited /\ s.active = r.active
      /\ r.leader = p /\ r.members = <<>> => s.leader = p
      /\ r.leader # p \/ r.members # <<>> => s.leader # p
  <2>1. CASE r.leader = p /\ r.members # <<>>
    <3>1. s = Passed(r, Head(r.members)) /\ Head(r.members) \in Range(r.members)
      BY <1>0, <2>1
    <3>. HIDE DEF s
    <3>. QED  BY <1>0, <2>1, <3>1, PassedIsProper
  <2>2. CASE r.leader # p \/ r.members = <<>>
    <3>1. s = r
      BY <2>2
    <3>. HIDE DEF s
    <3>. QED  BY <2>2, <3>1
  <2>. QED
    BY <2>1, <2>2
<1>2. t = [s EXCEPT !.members = Without(@, p), !.invited = @ \ {p}, !.active = @ \ {p}]
  BY DEF Left
<1>. HIDE DEF s, t
<1>3. /\ s \in Parties /\ s.members \in Seq(Player) /\ IsInjective(s.members)
      /\ s.leader \in Player /\ s.leader \notin Range(s.members) /\ s.active \subseteq Players(s)
      /\ Players(s) = {s.leader} \cup Range(s.members)
  BY <1>1, ProperPlayers DEF Proper, Parties
<1>4. /\ Without(s.members, p) \in Seq(Player)
      /\ IsInjective(Without(s.members, p))
      /\ Range(Without(s.members, p)) = Range(s.members) \ {p}
  BY <1>3, WithoutErases
<1>5. /\ t \in Parties
      /\ t.leader = s.leader /\ t.members = Without(s.members, p)
      /\ t.invited = r.invited \ {p} /\ t.active = r.active \ {p}
  BY <1>1, <1>2, <1>3, <1>4 DEF Parties
<1>6. ASSUME r.leader # p \/ r.members # <<>>
      PROVE  Proper(t) /\ Players(t) = Players(r) \ {p}
  <2>1. Players(t) = Players(r) \ {p}
    BY <1>1, <1>3, <1>4, <1>5, <1>6, PartyAssumption DEF Players
  <2>2. IsInjective(t.members) /\ t.leader \notin Range(t.members) /\ t.leader \in Player
    BY <1>3, <1>4, <1>5
  <2>. QED
    BY <1>1, <1>3, <1>5, <2>1, <2>2 DEF Proper
<1>. QED
  BY <1>1, <1>5, <1>6 DEF t

-----------------------------------------------------------------------------
(* The invariant. *)

Membership ==
    /\ \A p \in Player : partyOf[p] # NoParty =>
          p \in online /\ partyOf[p] \in Live /\ p \in Players(party[partyOf[p]])
    /\ \A a \in Live : /\ Proper(party[a]) /\ ~Ended(party[a], {})
                       /\ \A p \in Players(party[a]) : partyOf[p] = a
    /\ \A a \in Address \ Live : party[a] = Free

\* Whoever a party waits for has its invitation, even if he invited himself.
InvitedKnow ==
    \A a \in Live : \A p \in party[a].invited : a \in invitedTo[p] /\ p \in online

IInv ==
    /\ TypeOK
    /\ Membership
    /\ InvitationsAgree
    /\ InvitedKnow
    /\ UsersAreOnline
    /\ SharedIsCurrent

\* As many players as the lists say.
LEMMA MembershipCounts == Membership => MembershipAgrees
<1>. SUFFICES ASSUME Membership
              PROVE  MembershipAgrees
  OBVIOUS
<1>1. ASSUME NEW a \in Live
      PROVE  Cardinality(Players(party[a])) = 1 + Len(party[a].members)
  <2>. DEFINE r == party[a]
  <2>1. Proper(r)
    BY DEF Membership
  <2>. HIDE DEF r
  <2>2. /\ r.members \in Seq(Player) /\ IsInjective(r.members) /\ r.leader \notin Range(r.members)
        /\ Players(r) = Range(r.members) \cup {r.leader}
    BY <2>1, ProperPlayers DEF Proper, Parties
  <2>3. IsFiniteSet(Range(r.members)) /\ Cardinality(Range(r.members)) = Len(r.members)
    BY <2>2, ListCounts
  <2>4. Cardinality(Range(r.members) \cup {r.leader}) = Len(r.members) + 1
    BY <2>2, <2>3, FS_AddElement
  <2>5. Len(r.members) \in Nat
    BY <2>2
  <2>6. Cardinality(Players(r)) = 1 + Len(r.members)
    BY <2>2, <2>4, <2>5
  <2>. QED
    BY <2>6 DEF r
<1>. QED
  BY <1>1 DEF Membership, MembershipAgrees

LEMMA FreeIsParty ==
    /\ Free \in Parties /\ Free.leader = NoPlayer /\ Free.invited = {}
    /\ Free.shared = "off" /\ Free.active = {} /\ Free.members = <<>>
BY DEF Free, Parties

LEMMA NobodyIsInNone == Players(Free) = {}
<1>1. <<>> \in Seq(Player)
  OBVIOUS
<1>2. Range(<<>>) = {}
  BY <1>1, RangeIsEmpty
<1>. QED
  BY <1>2, FreeIsParty DEF Players

LEMMA InitInv == Init => IInv
<1>. SUFFICES ASSUME Init
              PROVE  IInv
  OBVIOUS
<1>1. /\ party \in [Address -> Parties] /\ \A a \in Address : party[a] = Free
      /\ Live = {}
  BY FreeIsParty DEF Init, Live
<1>2. TypeOK
  <2>1. \A a \in Address : party[a].active \subseteq Players(party[a])
    BY <1>1, FreeIsParty
  <2>. QED
    BY <1>1, <2>1 DEF Init, TypeOK
<1>3. Membership /\ InvitationsAgree /\ InvitedKnow /\ UsersAreOnline /\ SharedIsCurrent
  BY <1>1 DEF Init, Membership, InvitationsAgree, InvitedKnow, UsersAreOnline, SharedIsCurrent
<1>. QED
  BY <1>2, <1>3 DEF IInv

-----------------------------------------------------------------------------
(* Steps that leave the parties as many as they are. *)

\* The flags and the order in one party change, not who is in it.
LEMMA RearrangedKeepsInv ==
    ASSUME IInv, NEW a \in Live, NEW s, Proper(s), ~Ended(s, {}),
           Players(s) = Players(party[a]), s.invited = party[a].invited,
           party' = [party EXCEPT ![a] = s], UNCHANGED playerVars,
           unnoticed' \in SUBSET Address, unnoticed \ {a} \subseteq unnoticed',
           a \notin unnoticed' => Current(s)
    PROVE  IInv' /\ Live' = Live
<1>0. UNCHANGED <<online, partyOf, invitedTo, users, selfInvited, scene>>
  BY DEF playerVars
<1>1. /\ a \in Address /\ party \in [Address -> Parties] /\ s \in Parties
      /\ party'[a] = s /\ \A b \in Address \ {a} : party'[b] = party[b]
  BY DEF IInv, TypeOK, Live, Proper
<1>2. s.leader # NoPlayer /\ party[a].leader # NoPlayer
  BY PartyAssumption DEF Proper, Live
<1>3. Live' = Live
  BY <1>1, <1>2 DEF Live
<1>4. TypeOK'
  <2>1. party' \in [Address -> Parties]
    BY <1>1
  <2>2. \A b \in Address : party'[b].active \subseteq Players(party'[b])
    BY <1>1 DEF IInv, TypeOK, Proper
  <2>. QED
    BY <1>0, <2>1, <2>2 DEF IInv, TypeOK
<1>5. Membership'
  <2>1. \A b \in Address : Players(party'[b]) = Players(party[b])
    BY <1>1
  <2>2. ASSUME NEW b \in Live
        PROVE  /\ Proper(party'[b]) /\ ~Ended(party'[b], {})
               /\ \A q \in Players(party'[b]) : partyOf[q] = b
    <3>1. \A q \in Players(party[b]) : partyOf[q] = b
      BY DEF IInv, Membership
    <3>2. b # a => Proper(party'[b]) /\ ~Ended(party'[b], {})
      BY <1>1 DEF IInv, Membership, Live
    <3>. QED
      BY <1>1, <2>1, <3>1, <3>2 DEF Live
  <2>3. \A b \in Address \ Live : party'[b] = Free
    BY <1>1 DEF IInv, Membership
  <2>4. ASSUME NEW q \in Player, partyOf[q] # NoParty
        PROVE  q \in online /\ partyOf[q] \in Live /\ q \in Players(party'[partyOf[q]])
    BY <2>1, <2>4 DEF IInv, Membership, Live
  <2>. QED
    BY <1>0, <1>3, <2>2, <2>3, <2>4 DEF Membership
<1>6. \A b \in Live : Players(party'[b]) = Players(party[b]) /\ party'[b].invited = party[b].invited
  BY <1>1 DEF Live
<1>7. InvitationsAgree' /\ InvitedKnow'
  BY <1>0, <1>3, <1>6 DEF IInv, InvitationsAgree, InvitedKnow
<1>8. UsersAreOnline'
  BY <1>0 DEF IInv, UsersAreOnline
<1>9. SharedIsCurrent'
  <2>1. ASSUME NEW b \in Live \ unnoticed'
        PROVE  Current(party'[b])
    <3>1. b # a => b \in Live \ unnoticed
      BY <2>1
    <3>2. b # a => Current(party[b])
      BY <3>1 DEF IInv, SharedIsCurrent, Current
    <3>. QED
      BY <1>1, <2>1, <3>2 DEF Live
  <2>. QED
    BY <1>3, <2>1 DEF SharedIsCurrent, Current
<1>. QED
  BY <1>3, <1>4, <1>5, <1>7, <1>8, <1>9 DEF IInv

\* The party is examined, or something has changed behind its back.
LEMMA UpdatesKeepInv ==
    ASSUME IInv, NEW a \in Live, NEW s, Proper(s), ~Ended(s, {}),
           Players(s) = Players(party[a]), s.invited = party[a].invited,
           UNCHANGED playerVars, Update(a, s)
    PROVE  IInv' /\ Live' = Live
<1>. DEFINE t == Refreshed(s)
<1>1. party' = [party EXCEPT ![a] = t] /\ unnoticed' = unnoticed \ {a}
  BY DEF Update
<1>2. Alike(t, s) /\ Current(t)
  BY RefreshedIsAlike DEF Proper
<1>. HIDE DEF t
<1>3. Proper(t) /\ Players(t) = Players(s) /\ ~Ended(t, {}) /\ t.invited = s.invited
  BY <1>2, AlikeIsProper DEF Alike
<1>4. unnoticed' \in SUBSET Address
  BY <1>1 DEF IInv, TypeOK
<1>. QED
  BY <1>1, <1>2, <1>3, <1>4, RearrangedKeepsInv

LEMMA BehindKeepsInv ==
    ASSUME IInv, NEW a \in Live, NEW s, Proper(s), ~Ended(s, {}),
           Players(s) = Players(party[a]), s.invited = party[a].invited,
           UNCHANGED playerVars, BehindItsBack(a, s)
    PROVE  IInv' /\ Live' = Live
<1>1. /\ party' = [party EXCEPT ![a] = s]
      /\ unnoticed' = IF s.shared = "off" THEN unnoticed ELSE unnoticed \cup {a}
  BY DEF BehindItsBack
<1>2. unnoticed' \in SUBSET Address /\ unnoticed \ {a} \subseteq unnoticed'
  BY <1>1 DEF IInv, TypeOK, Live
<1>3. a \notin unnoticed' => Current(s)
  BY <1>1 DEF Current
<1>. QED
  BY <1>1, <1>2, <1>3, RearrangedKeepsInv

\* The party of a player who has one.
LEMMA PartyIsProper ==
    ASSUME Membership, NEW p \in Player, partyOf[p] # NoParty
    PROVE  /\ partyOf[p] \in Live /\ p \in Players(party[partyOf[p]]) /\ p \in online
           /\ Proper(party[partyOf[p]]) /\ ~Ended(party[partyOf[p]], {})
BY DEF Membership

LEMMA SharingKeepsInv ==
    ASSUME IInv, NEW p \in Player,
           SetShared(p) \/ GainPoints(p) \/ IdleStatus(p) \/ MoveOrAdvance(p) \/ LoseLevel(p) \/ PointsAge(p)
    PROVE  IInv' /\ Live' = Live
<1>. DEFINE a == partyOf[p]
            r == party[a]
<1>0. a # NoParty /\ UNCHANGED playerVars
  BY DEF SetShared, GainPoints, IdleStatus, MoveOrAdvance, LoseLevel, PointsAge, SharesIn, HasParty
<1>1. a \in Live /\ p \in Players(r) /\ Proper(r) /\ ~Ended(r, {}) /\ r \in Parties
  BY <1>0, PartyIsProper DEF IInv, Proper
<1>2. ASSUME NEW s, Alike(s, r)
      PROVE  Proper(s) /\ ~Ended(s, {}) /\ Players(s) = Players(r) /\ s.invited = r.invited
  <2>. HIDE DEF r
  <2>. QED  BY <1>1, <1>2, AlikeIsProper DEF Alike
<1>3. ASSUME NEW X \in SUBSET Players(r), NEW s, s = [r EXCEPT !.active = X]
      PROVE  Proper(s) /\ ~Ended(s, {}) /\ Players(s) = Players(r) /\ s.invited = r.invited
  <2>. HIDE DEF r
  <2>1. /\ Proper(s) /\ Players(s) = Players(r) /\ s.invited = r.invited
        /\ s.leader = r.leader /\ s.members = r.members
    BY <1>1, <1>3, ActiveIsProper
  <2>2. ~Ended(s, {})
    BY <1>1, <2>1 DEF Ended
  <2>. QED  BY <2>1, <2>2
<1>4. CASE SetShared(p)
  <2>1. PICK s : s = [r EXCEPT !.shared = IF @ = "off" THEN "waiting" ELSE "off"] /\ Update(a, s)
    BY <1>4 DEF SetShared
  <2>2. Alike(s, r)
    <3>. HIDE DEF r
    <3>. QED  BY <1>1, <2>1 DEF Alike, Parties
  <2>. HIDE DEF a
  <2>. QED  BY <1>0, <1>1, <1>2, <2>1, <2>2, UpdatesKeepInv
<1>5. CASE GainPoints(p)
  <2>1. PICK s : s = [r EXCEPT !.active = r.active \cup {p}] /\ Update(a, s)
    BY <1>5 DEF GainPoints
  <2>2. r.active \cup {p} \in SUBSET Players(r)
    BY <1>1 DEF Proper
  <2>. HIDE DEF a
  <2>. QED  BY <1>0, <1>1, <1>3, <2>1, <2>2, UpdatesKeepInv
<1>6. CASE IdleStatus(p)
  <2>1. PICK s : s = [r EXCEPT !.active = r.active \ {p}] /\ Update(a, s)
    BY <1>6 DEF IdleStatus
  <2>2. r.active \ {p} \in SUBSET Players(r)
    BY <1>1 DEF Proper
  <2>. HIDE DEF a
  <2>. QED  BY <1>0, <1>1, <1>3, <2>1, <2>2, UpdatesKeepInv
<1>7. CASE MoveOrAdvance(p)
  <2>1. PICK s \in Somewhere(r) : Update(a, s)
    BY <1>7 DEF MoveOrAdvance, UpdateAll
  <2>2. Alike(s, r)
    <3>. HIDE DEF r
    <3>. QED  BY <1>1, SomewhereIsAlike
  <2>. HIDE DEF a
  <2>. QED  BY <1>0, <1>1, <1>2, <2>1, <2>2, UpdatesKeepInv
<1>8. CASE LoseLevel(p)
  <2>1. PICK s : s = [r EXCEPT !.together = ~@] /\ BehindItsBack(a, s)
    BY <1>8 DEF LoseLevel
  <2>2. Alike(s, r)
    <3>. HIDE DEF r
    <3>1. PICK t \in BOOLEAN : t = ~r.together
      BY <1>1 DEF Parties
    <3>2. s = [r EXCEPT !.together = t]
      BY <2>1, <3>1
    <3>. QED  BY <1>1, <3>2 DEF Alike, Parties
  <2>. HIDE DEF a
  <2>. QED  BY <1>0, <1>1, <1>2, <2>1, <2>2, BehindKeepsInv
<1>9. CASE PointsAge(p)
  <2>1. PICK s : s = [r EXCEPT !.active = r.active \ {p}] /\ BehindItsBack(a, s)
    BY <1>9 DEF PointsAge
  <2>2. r.active \ {p} \in SUBSET Players(r)
    BY <1>1 DEF Proper
  <2>. HIDE DEF a
  <2>. QED  BY <1>0, <1>1, <1>3, <2>1, <2>2, BehindKeepsInv
<1>. QED
  BY <1>4, <1>5, <1>6, <1>7, <1>8, <1>9

LEMMA PassLeadershipKeepsInv ==
    ASSUME IInv, NEW p \in Player, NEW q \in Player, PassLeadership(p, q)
    PROVE  IInv' /\ Live' = Live
<1>. DEFINE a == partyOf[p]
            r == party[a]
<1>0. /\ a # NoParty /\ r.leader = p /\ partyOf[q] = a /\ q # p /\ UNCHANGED playerVars
  BY DEF PassLeadership, IsLeader
<1>1. a \in Live /\ Proper(r) /\ ~Ended(r, {}) /\ q \in Players(r)
  BY <1>0, PartyIsProper DEF IInv
<1>2. PICK s \in Somewhere(Passed(r, q)) : Update(a, s)
  BY DEF PassLeadership, UpdateAll
<1>3. Proper(s) /\ ~Ended(s, {}) /\ Players(s) = Players(r) /\ s.invited = r.invited
  <2>. HIDE DEF r
  <2>1. q \in Range(r.members)
    BY <1>0, <1>1, ProperPlayers
  <2>2. /\ Proper(Passed(r, q)) /\ Players(Passed(r, q)) = Players(r)
        /\ Passed(r, q).invited = r.invited /\ ~Ended(Passed(r, q), {})
    BY <1>1, <2>1, PassedIsProper DEF Ended
  <2>3. Alike(s, Passed(r, q))
    BY <1>2, <2>2, SomewhereIsAlike DEF Proper
  <2>. QED
    BY <2>2, <2>3, AlikeIsProper DEF Alike
<1>. QED
  <2>. HIDE DEF a
  <2>. QED  BY <1>0, <1>1, <1>2, <1>3, UpdatesKeepInv

\* Somebody enters the game, or another list of a channel.
LEMMA ChannelsKeepInv ==
    ASSUME IInv, UNCHANGED <<party, partyOf, invitedTo, selfInvited, scene, unnoticed>>,
           online' \in SUBSET Player, online \subseteq online',
           users' \in [Address -> SUBSET Player],
           \A a \in Address : users'[a] \subseteq online'
    PROVE  IInv' /\ Live' = Live
<1>1. Live' = Live
  BY DEF Live
<1>2. TypeOK' /\ UsersAreOnline' /\ SharedIsCurrent'
  BY <1>1 DEF IInv, TypeOK, UsersAreOnline, SharedIsCurrent
<1>3. Membership' /\ InvitationsAgree' /\ InvitedKnow'
  BY <1>1 DEF IInv, Membership, InvitationsAgree, InvitedKnow
<1>. QED
  BY <1>1, <1>2, <1>3 DEF IInv

LEMMA ComingsKeepInv ==
    ASSUME IInv, NEW p \in Player,
           OpenChannel(p) \/ CloseChannel(p) \/ TakeOver(p) \/ Login(p)
    PROVE  IInv' /\ Live' = Live
<1>0. /\ users \in [Address -> SUBSET Player] /\ online \in SUBSET Player
      /\ \A a \in Address : users[a] \subseteq online
  BY DEF IInv, TypeOK, UsersAreOnline
<1>1. UNCHANGED <<party, partyOf, invitedTo, selfInvited, scene, unnoticed>>
  BY DEF OpenChannel, CloseChannel, TakeOver, Login
<1>2. online' \in SUBSET Player /\ online \subseteq online'
  BY <1>0 DEF OpenChannel, CloseChannel, TakeOver, Login
<1>3. users' \in [Address -> SUBSET Player] /\ \A a \in Address : users'[a] \subseteq online'
  <2>1. CASE OpenChannel(p)
    <3>1. p \in online /\ users' = [users EXCEPT ![partyOf[p]] = @ \cup {p}] /\ online' = online
      BY <2>1 DEF OpenChannel, HasParty
    <3>2. partyOf[p] \in Address
      BY <2>1 DEF OpenChannel, HasParty, IInv, TypeOK
    <3>. QED  BY <1>0, <3>1, <3>2
  <2>2. CASE CloseChannel(p)
    <3>1. users' = [users EXCEPT ![partyOf[p]] = @ \ {p}] /\ online' = online
      BY <2>2 DEF CloseChannel
    <3>2. partyOf[p] \in Address
      BY <2>2 DEF CloseChannel, HasParty, IInv, TypeOK
    <3>. QED  BY <1>0, <3>1, <3>2
  <2>3. CASE TakeOver(p)
    BY <1>0, <2>3 DEF TakeOver
  <2>4. CASE Login(p)
    BY <1>0, <2>4 DEF Login
  <2>. QED
    BY <2>1, <2>2, <2>3, <2>4
<1>. QED
  BY <1>1, <1>2, <1>3, ChannelsKeepInv

-----------------------------------------------------------------------------
(* Steps that bring a player to a party, or an invitation. *)

\* The party at a, made now or before, is s now; p is one of its players, now or
\* before.
LEMMA GrownKeepsInv ==
    ASSUME IInv, NEW a \in Address, NEW s, Proper(s), ~Ended(s, {}),
           NEW p \in Player, p \in online, partyOf[p] \in {NoParty, a},
           Players(s) = Players(party[a]) \cup {p},
           party' = [party EXCEPT ![a] = s], partyOf' = [partyOf EXCEPT ![p] = a],
           UNCHANGED <<online, users, scene>>,
           invitedTo' \in [Player -> SUBSET Address],
           \A q \in Player : \A b \in Address \ {a} : b \in invitedTo'[q] <=> b \in invitedTo[q],
           \A q \in Player : q \in s.invited => a \in invitedTo'[q] /\ q \in online,
           \A q \in Player \ selfInvited' : a \in invitedTo'[q] => q \in s.invited,
           \A q \in Player \ selfInvited' : q \in s.invited => q \notin Players(s),
           selfInvited' \in SUBSET Player, selfInvited \subseteq selfInvited',
           unnoticed' \in SUBSET Address, unnoticed \ {a} \subseteq unnoticed',
           a \notin unnoticed' => Current(s)
    PROVE  IInv' /\ Live' = Live \cup {a}
<1>1. /\ party \in [Address -> Parties] /\ s \in Parties
      /\ party'[a] = s /\ \A b \in Address \ {a} : party'[b] = party[b]
  BY DEF IInv, TypeOK, Proper
<1>2. /\ partyOf \in [Player -> Address \cup {NoParty}]
      /\ partyOf'[p] = a /\ \A q \in Player \ {p} : partyOf'[q] = partyOf[q]
  BY DEF IInv, TypeOK
<1>3. s.leader # NoPlayer /\ s.leader \in Player /\ a # NoParty /\ NoParty \notin Address
  BY PartyAssumption DEF Proper
<1>4. Live' = Live \cup {a}
  BY <1>1, <1>3 DEF Live
<1>5. a \notin Live => Players(party[a]) = {}
  BY NobodyIsInNone DEF IInv, Membership
<1>6. TypeOK'
  <2>1. party' \in [Address -> Parties] /\ partyOf' \in [Player -> Address \cup {NoParty}]
    BY <1>1, <1>2
  <2>2. \A b \in Address : party'[b].active \subseteq Players(party'[b])
    BY <1>1 DEF IInv, TypeOK, Proper
  <2>. QED
    BY <2>1, <2>2 DEF IInv, TypeOK
<1>7. \A q \in Players(party[a]) : q \in Player /\ partyOf[q] = a
  <2>1. CASE a \in Live
    BY <2>1, ProperPlayers DEF IInv, Membership
  <2>. QED
    BY <1>5, <2>1
<1>8. Membership'
  <2>1. ASSUME NEW q \in Player, partyOf'[q] # NoParty
        PROVE  q \in online /\ partyOf'[q] \in Live \cup {a} /\ q \in Players(party'[partyOf'[q]])
    <3>1. CASE q = p
      BY <1>1, <1>2, <3>1
    <3>2. CASE q # p
      <4>1. partyOf'[q] = partyOf[q] /\ partyOf[q] # NoParty
        BY <1>2, <2>1, <3>2
      <4>2. q \in online /\ partyOf[q] \in Live /\ q \in Players(party[partyOf[q]])
        BY <4>1 DEF IInv, Membership
      <4>3. partyOf[q] = a \/ partyOf[q] \in Address \ {a}
        BY <4>2 DEF Live
      <4>. QED  BY <1>1, <4>1, <4>2, <4>3
    <3>. QED  BY <3>1, <3>2
  <2>2. ASSUME NEW b \in Live \cup {a}
        PROVE  /\ Proper(party'[b]) /\ ~Ended(party'[b], {})
               /\ \A q \in Players(party'[b]) : partyOf'[q] = b
    <3>1. CASE b = a
      <4>1. \A q \in Players(s) : partyOf'[q] = a
        BY <1>2, <1>7
      <4>. QED  BY <1>1, <3>1, <4>1
    <3>2. CASE b # a
      <4>1. b \in Live /\ b \in Address \ {a} /\ party'[b] = party[b]
        BY <1>1, <3>2 DEF Live
      <4>2. /\ Proper(party[b]) /\ ~Ended(party[b], {})
            /\ \A q \in Players(party[b]) : partyOf[q] = b /\ q \in Player
        BY <4>1, ProperPlayers DEF IInv, Membership
      <4>3. \A q \in Players(party[b]) : q # p
        BY <1>3, <3>2, <4>1, <4>2
      <4>. QED  BY <1>2, <4>1, <4>2, <4>3
    <3>. QED  BY <3>1, <3>2
  <2>3. \A b \in Address \ (Live \cup {a}) : party'[b] = Free
    BY <1>1 DEF IInv, Membership
  <2>. QED
    BY <1>4, <2>1, <2>2, <2>3 DEF Membership
<1>9. InvitationsAgree'
  <2>. SUFFICES ASSUME NEW q \in Player \ selfInvited'
                PROVE  /\ invitedTo'[q] = {b \in Live \cup {a} : q \in party'[b].invited}
                       /\ invitedTo'[q] # {} => q \in online
                       /\ \A b \in Live \cup {a} : q \in party'[b].invited => q \notin Players(party'[b])
    BY <1>4 DEF InvitationsAgree
  <2>1. /\ invitedTo[q] = {b \in Live : q \in party[b].invited}
        /\ invitedTo[q] # {} => q \in online
        /\ \A b \in Live : q \in party[b].invited => q \notin Players(party[b])
        /\ invitedTo'[q] \in SUBSET Address
    BY DEF IInv, InvitationsAgree
  <2>2. \A b \in Address \ {a} : b \in invitedTo'[q] <=> b \in Live /\ q \in party'[b].invited
    BY <1>1, <2>1
  <2>3. a \in invitedTo'[q] <=> q \in party'[a].invited
    BY <1>1
  <2>4. Live \cup {a} \subseteq Address
    BY DEF Live
  <2>5. invitedTo'[q] = {b \in Live \cup {a} : q \in party'[b].invited}
    BY <2>1, <2>2, <2>3, <2>4
  <2>6. invitedTo'[q] # {} => q \in online
    BY <1>1, <2>1, <2>3
  <2>7. ASSUME NEW b \in Live \cup {a}, q \in party'[b].invited
        PROVE  q \notin Players(party'[b])
    BY <1>1, <2>1, <2>4, <2>7
  <2>. QED
    BY <2>5, <2>6, <2>7
<1>10. InvitedKnow'
  <2>. SUFFICES ASSUME NEW b \in Live \cup {a}, NEW q \in party'[b].invited
                PROVE  b \in invitedTo'[q] /\ q \in online
    BY <1>4 DEF InvitedKnow
  <2>1. b \in Address /\ q \in Player
    BY <1>1 DEF Live, Parties
  <2>2. CASE b = a
    BY <1>1, <2>1, <2>2
  <2>3. CASE b # a
    BY <1>1, <2>1, <2>3 DEF IInv, InvitedKnow
  <2>. QED
    BY <2>2, <2>3
<1>11. UsersAreOnline'
  BY DEF IInv, UsersAreOnline
<1>12. SharedIsCurrent'
  <2>1. ASSUME NEW b \in (Live \cup {a}) \ unnoticed'
        PROVE  Current(party'[b])
    <3>1. b # a => b \in Live \ unnoticed
      BY <2>1
    <3>2. b # a => Current(party[b])
      BY <3>1 DEF IInv, SharedIsCurrent, Current
    <3>. QED
      BY <1>1, <2>1, <3>2 DEF Live
  <2>. QED
    BY <1>4, <2>1 DEF SharedIsCurrent, Current
<1>. QED
  BY <1>4, <1>6, <1>8, <1>9, <1>10, <1>11, <1>12 DEF IInv

\* A party that waits for others.
LEMMA WaitingIsProper ==
    ASSUME NEW r, Proper(r), NEW X \in SUBSET Player
    PROVE  LET s == [r EXCEPT !.invited = X]
           IN  /\ Proper(s) /\ Players(s) = Players(r)
               /\ s.leader = r.leader /\ s.members = r.members /\ s.invited = X
               /\ Current(s) <=> Current(r)
<1>. DEFINE s == [r EXCEPT !.invited = X]
<1>1. /\ s \in Parties
      /\ s.leader = r.leader /\ s.members = r.members /\ s.invited = X /\ s.active = r.active
      /\ s.shared = r.shared /\ s.together = r.together
  BY DEF Proper, Parties
<1>. HIDE DEF s
<1>2. Proper(s) /\ Players(s) = Players(r)
  BY <1>1 DEF Proper, Players
<1>3. Current(s) <=> Current(r)
  BY <1>1, <1>2 DEF Current, CanEnable
<1>. QED
  BY <1>1, <1>2, <1>3 DEF s

LEMMA NewIsProper ==
    ASSUME NEW p \in Player, NEW q \in Player
    PROVE  /\ Proper(NewParty(p, q)) /\ ~Ended(NewParty(p, q), {})
           /\ Players(NewParty(p, q)) = {p} /\ NewParty(p, q).invited = {q}
           /\ Current(NewParty(p, q))
<1>. DEFINE r == NewParty(p, q)
<1>0. <<>> \in Seq(Player) /\ IsInjective(<<>>) /\ Range(<<>>) = {}
  <2>0. <<>> \in Seq(Player)
    OBVIOUS
  <2>1. PICK e \in Seq(Player) : e = <<>>
    BY <2>0, Zenon
  <2>2. DOMAIN e = 1 .. 0
    BY <2>1
  <2>3. IsInjective(e)
    BY <2>2 DEF IsInjective
  <2>. QED
    BY <2>1, <2>3, RangeIsEmpty
<1>1. /\ r \in Parties
      /\ r.leader = p /\ r.members = <<>> /\ r.invited = {q} /\ r.active = {} /\ r.shared = "off"
  BY FreeIsParty DEF NewParty, Parties
<1>. HIDE DEF r
<1>2. Players(r) = {p}
  BY <1>0, <1>1, PartyAssumption DEF Players
<1>3. Proper(r)
  BY <1>0, <1>1, <1>2 DEF Proper
<1>4. ~Ended(r, {}) /\ Current(r)
  BY <1>1 DEF Ended, Current
<1>. QED
  BY <1>1, <1>2, <1>3, <1>4 DEF r

LEMMA InviteKeepsInv ==
    ASSUME IInv, NEW p \in Player, NEW q \in Player, Invite(p, q)
    PROVE  IInv' /\ Live \subseteq Live'
<1>1. PICK a \in scene.addresses :
          /\ \/ /\ partyOf[p] = NoParty /\ a \notin Live
                /\ party' = [party EXCEPT ![a] = NewParty(p, q)]
             \/ /\ a = partyOf[p] /\ IsLeader(p) /\ ~IsInviting(p, q)
                /\ party' = [party EXCEPT ![a].invited = @ \cup {q}]
          /\ partyOf' = [partyOf EXCEPT ![p] = a]
          /\ invitedTo' = [invitedTo EXCEPT ![q] = @ \cup {a}]
  BY DEF Invite
<1>2. /\ p \in online /\ q \in online /\ partyOf[q] = NoParty
      /\ selfInvited' = IF p = q THEN selfInvited \cup {p} ELSE selfInvited
      /\ UNCHANGED <<online, users, unnoticed, scene>>
  BY DEF Invite
<1>3. a \in Address
  BY PartyAssumption DEF IInv, TypeOK
<1>4. /\ invitedTo' \in [Player -> SUBSET Address]
      /\ \A x \in Player : \A b \in Address \ {a} : b \in invitedTo'[x] <=> b \in invitedTo[x]
      /\ \A x \in Player : a \in invitedTo'[x] <=> (a \in invitedTo[x] \/ x = q)
  BY <1>1, <1>3 DEF IInv, TypeOK
<1>5. /\ selfInvited' \in SUBSET Player /\ selfInvited \subseteq selfInvited'
      /\ p = q => q \in selfInvited'
  BY <1>2 DEF IInv, TypeOK
<1>6. \A x \in Player \ selfInvited : a \in invitedTo[x] <=> a \in Live /\ x \in party[a].invited
  BY DEF IInv, InvitationsAgree
<1>7. a \in Live => /\ \A x \in party[a].invited : a \in invitedTo[x] /\ x \in online
                    /\ Proper(party[a]) /\ ~Ended(party[a], {})
                    /\ \A x \in Players(party[a]) : partyOf[x] = a
                    /\ \A x \in Player \ selfInvited : x \in party[a].invited => x \notin Players(party[a])
                    /\ a \notin unnoticed => Current(party[a])
  BY DEF IInv, Membership, InvitedKnow, InvitationsAgree, SharedIsCurrent, Current
<1>8. partyOf[p] \in {NoParty, a} /\ NoParty # a
  BY <1>1, <1>3, PartyAssumption
<1>9. unnoticed' \in SUBSET Address /\ unnoticed \ {a} \subseteq unnoticed'
  BY <1>2 DEF IInv, TypeOK
<1>10. CASE partyOf[p] = NoParty /\ a \notin Live /\ party' = [party EXCEPT ![a] = NewParty(p, q)]
  <2>1. PICK s : s = NewParty(p, q)
    OBVIOUS
  <2>2. Proper(s) /\ ~Ended(s, {}) /\ Players(s) = {p} /\ s.invited = {q} /\ Current(s)
    BY <2>1, NewIsProper
  <2>3. Players(s) = Players(party[a]) \cup {p}
    BY <1>3, <1>10, <2>2, NobodyIsInNone DEF IInv, Membership
  <2>4. party' = [party EXCEPT ![a] = s]
    BY <1>10, <2>1
  <2>5. \A x \in Player : x \in s.invited => a \in invitedTo'[x] /\ x \in online
    BY <1>2, <1>4, <2>2
  <2>6. \A x \in Player \ selfInvited' : a \in invitedTo'[x] => x \in s.invited
    BY <1>4, <1>5, <1>6, <1>10, <2>2
  <2>7. \A x \in Player \ selfInvited' : x \in s.invited => x \notin Players(s)
    BY <1>5, <2>2
  <2>8. IInv' /\ Live' = Live \cup {a}
    BY <1>1, <1>2, <1>3, <1>4, <1>5, <1>8, <1>9, <2>2, <2>3, <2>4, <2>5, <2>6, <2>7, GrownKeepsInv
  <2>. QED
    BY <2>8
<1>11. CASE a = partyOf[p] /\ IsLeader(p) /\ party' = [party EXCEPT ![a].invited = @ \cup {q}]
  <2>. DEFINE r == party[a]
  <2>0. a \in Live /\ p \in Players(r) /\ Proper(r)
    BY <1>8, <1>11, PartyIsProper DEF IInv
  <2>1. PICK s : s = [r EXCEPT !.invited = r.invited \cup {q}]
    OBVIOUS
  <2>2. r.invited \cup {q} \in SUBSET Player
    BY <2>0 DEF Proper, Parties
  <2>3. /\ Proper(s) /\ Players(s) = Players(r) /\ s.invited = r.invited \cup {q}
        /\ s.leader = r.leader /\ s.members = r.members
        /\ Current(s) <=> Current(r)
    <3>. HIDE DEF r
    <3>. QED  BY <2>0, <2>1, <2>2, WaitingIsProper
  <2>4. ~Ended(s, {})
    BY <2>3 DEF Ended
  <2>5. Players(s) = Players(party[a]) \cup {p}
    BY <2>0, <2>3
  <2>6. party' = [party EXCEPT ![a] = s]
    BY <1>11, <2>1
  <2>7. \A x \in Player : x \in s.invited => a \in invitedTo'[x] /\ x \in online
    BY <1>2, <1>4, <1>7, <2>0, <2>3
  <2>8. \A x \in Player \ selfInvited' : a \in invitedTo'[x] => x \in s.invited
    BY <1>4, <1>5, <1>6, <2>3
  <2>9. \A x \in Player \ selfInvited' : x \in s.invited => x \notin Players(s)
    BY <1>2, <1>5, <1>7, <1>8, <2>0, <2>3
  <2>10. a \notin unnoticed' => Current(s)
    BY <1>2, <1>7, <2>0, <2>3
  <2>11. IInv' /\ Live' = Live \cup {a}
    <3>. HIDE DEF r
    <3>. QED
      BY <1>1, <1>2, <1>3, <1>4, <1>5, <1>8, <1>9, <2>3, <2>4, <2>5, <2>6, <2>7, <2>8, <2>9, <2>10,
         GrownKeepsInv
  <2>. QED
    BY <2>11
<1>. QED
  BY <1>1, <1>10, <1>11

LEMMA JoinKeepsInv ==
    ASSUME IInv, NEW p \in Player, NEW l \in Player, Join(p, l)
    PROVE  IInv' /\ Live \subseteq Live'
<1>. DEFINE a == partyOf[l]
            r == party[a]
<1>1. /\ p \in online /\ partyOf[p] = NoParty /\ a # NoParty /\ p \in r.invited
      /\ partyOf' = [partyOf EXCEPT ![p] = a]
      /\ invitedTo' = [invitedTo EXCEPT ![p] = @ \ {a}]
      /\ UNCHANGED <<online, users, selfInvited, scene>>
  BY DEF Join, IsInviting, IsLeader
<1>2. PICK t \in Somewhere(Joined(r, p)) : Update(a, t)
  BY DEF Join, UpdateAll
<1>3. a \in Live /\ a \in Address /\ Proper(r) /\ r \in Parties
  BY <1>1, PartyIsProper DEF IInv, Live, Proper
<1>4. PICK s : s = Refreshed(t)
  OBVIOUS
<1>5. party' = [party EXCEPT ![a] = s] /\ unnoticed' = unnoticed \ {a}
  BY <1>2, <1>4 DEF Update
<1>6. \A x \in Players(r) : partyOf[x] = a
  BY <1>3 DEF IInv, Membership
<1>7. /\ Proper(s) /\ ~Ended(s, {}) /\ Players(s) = Players(r) \cup {p}
      /\ s.invited = r.invited \ {p} /\ Current(s)
  <2>. HIDE DEF r, a
  <2>1. p \notin Players(r)
    BY <1>1, <1>6
  <2>2. /\ Proper(Joined(r, p)) /\ Players(Joined(r, p)) = Players(r) \cup {p}
        /\ Joined(r, p).invited = r.invited \ {p} /\ ~Ended(Joined(r, p), {})
    BY <1>3, <2>1, JoinedIsProper DEF Ended
  <2>3. Alike(t, Joined(r, p))
    BY <1>2, <2>2, SomewhereIsAlike DEF Proper
  <2>4. Proper(t) /\ Players(t) = Players(r) \cup {p} /\ t.invited = r.invited \ {p} /\ ~Ended(t, {})
    BY <2>2, <2>3, AlikeIsProper DEF Alike
  <2>5. Alike(s, t) /\ Current(s)
    BY <1>4, <2>4, RefreshedIsAlike DEF Proper
  <2>. QED
    BY <2>4, <2>5, AlikeIsProper DEF Alike
<1>8. /\ invitedTo' \in [Player -> SUBSET Address]
      /\ \A x \in Player : \A b \in Address \ {a} : b \in invitedTo'[x] <=> b \in invitedTo[x]
      /\ \A x \in Player : a \in invitedTo'[x] <=> (a \in invitedTo[x] /\ x # p)
  <2>. HIDE DEF a
  <2>. QED  BY <1>1, <1>3 DEF IInv, TypeOK
<1>9. \A x \in Player : x \in s.invited => a \in invitedTo'[x] /\ x \in online
  BY <1>3, <1>7, <1>8 DEF IInv, InvitedKnow
<1>10. \A x \in Player \ selfInvited : a \in invitedTo'[x] => x \in s.invited
  BY <1>7, <1>8 DEF IInv, InvitationsAgree
<1>11. \A x \in Player \ selfInvited : x \in s.invited => x \notin Players(s)
  BY <1>3, <1>7 DEF IInv, InvitationsAgree
<1>12. unnoticed' \in SUBSET Address /\ selfInvited' \in SUBSET Player /\ selfInvited' = selfInvited
  BY <1>1, <1>5 DEF IInv, TypeOK
<1>13. IInv' /\ Live' = Live \cup {a}
  <2>. HIDE DEF a
  <2>. QED
    BY <1>1, <1>3, <1>5, <1>7, <1>8, <1>9, <1>10, <1>11, <1>12, GrownKeepsInv
<1>. QED
  BY <1>13
-----------------------------------------------------------------------------
(* Steps that may end a party. *)

\* What has become of the parties, r, and of the players' lists before those
\* that have ended are disbanded: every party that goes on is in order, and
\* every player but those gone is in the party he names, or it ends.
Orderly(r, lists, gone, quit) ==
    /\ r \in [Address -> Parties] /\ lists \in [Player -> SUBSET Address]
    /\ gone \in SUBSET Player
    /\ online' \in SUBSET Player /\ selfInvited' \in SUBSET Player /\ UNCHANGED scene
    /\ \A a \in Address \ Live : r[a] = Free
    /\ \A a \in Live : ~Ended(r[a], gone) =>
           /\ Proper(r[a])
           /\ \A q \in Players(r[a]) : q \notin gone /\ partyOf[q] = a
           /\ a \notin unnoticed \/ (\E q \in gone : partyOf[q] = a) => Current(r[a])
    /\ \A q \in Player \ gone : partyOf[q] # NoParty =>
           /\ q \in online'
           /\ Ended(r[partyOf[q]], gone) \/ q \in Players(r[partyOf[q]])
    /\ \A q \in Player \ selfInvited' :
           /\ lists[q] = {a \in Live : q \in r[a].invited}
           /\ lists[q] # {} => q \in online'
           /\ \A a \in Live : q \in r[a].invited /\ ~Ended(r[a], gone) => q \notin Players(r[a])
    /\ \A a \in Live : \A q \in r[a].invited : a \in lists[q] /\ q \in online'
    /\ \A a \in Address : users[a] \ quit \subseteq online'

LEMMA SettleKeepsInv ==
    ASSUME IInv, NEW r, NEW lists, NEW gone, NEW quit,
           Settle(r, lists, gone, quit), Orderly(r, lists, gone, quit)
    PROVE  IInv' /\ \A a \in Live \ Live' : Ended(r[a], gone)
<1>. DEFINE ended == {a \in Live : Ended(r[a], gone)}
            rest == {q \in Player \ gone : partyOf[q] \in ended}
<1>1. /\ party' = [a \in Address |-> IF a \in ended THEN Free ELSE r[a]]
      /\ partyOf' = [q \in Player |-> IF q \in gone \cup rest THEN NoParty ELSE partyOf[q]]
      /\ invitedTo' = [q \in Player |-> lists[q] \ {a \in ended : q \in r[a].invited}]
      /\ unnoticed' = unnoticed \ (ended \cup {partyOf[q] : q \in gone})
      /\ \E told \in SUBSET rest :
            users' = [a \in Address |-> users[a] \ (quit \cup IF a \in ended THEN told ELSE {})]
  BY DEF Settle
<1>0. /\ r \in [Address -> Parties] /\ lists \in [Player -> SUBSET Address]
      /\ gone \in SUBSET Player
      /\ online' \in SUBSET Player /\ selfInvited' \in SUBSET Player /\ UNCHANGED scene
      /\ \A a \in Address \ Live : r[a] = Free
      /\ \A a \in Live : ~Ended(r[a], gone) =>
             /\ Proper(r[a])
             /\ \A q \in Players(r[a]) : q \notin gone /\ partyOf[q] = a
             /\ a \notin unnoticed \/ (\E q \in gone : partyOf[q] = a) => Current(r[a])
      /\ \A q \in Player \ gone : partyOf[q] # NoParty =>
             /\ q \in online'
             /\ Ended(r[partyOf[q]], gone) \/ q \in Players(r[partyOf[q]])
      /\ \A q \in Player \ selfInvited' :
             /\ lists[q] = {a \in Live : q \in r[a].invited}
             /\ lists[q] # {} => q \in online'
             /\ \A a \in Live : q \in r[a].invited /\ ~Ended(r[a], gone) => q \notin Players(r[a])
      /\ \A a \in Live : \A q \in r[a].invited : a \in lists[q] /\ q \in online'
      /\ \A a \in Address : users[a] \ quit \subseteq online'
  BY DEF Orderly
<1>2. /\ \A a \in Address : a \in ended <=> a \in Live /\ Ended(r[a], gone)
      /\ ended \subseteq Live /\ Live \subseteq Address /\ rest \subseteq Player
      /\ \A q \in Player : q \in rest <=> q \notin gone /\ partyOf[q] \in ended
  BY <1>0 DEF Live
<1>. HIDE DEF ended, rest
<1>3. /\ \A a \in ended : party'[a] = Free
      /\ \A a \in Address \ ended : party'[a] = r[a]
      /\ \A a \in Live \ ended : party'[a] = r[a] /\ Proper(r[a]) /\ ~Ended(r[a], gone)
  BY <1>0, <1>1, <1>2
<1>4. Live' = Live \ ended
  <2>1. \A a \in ended : party'[a].leader = NoPlayer
    BY <1>0, <1>3, FreeIsParty
  <2>2. \A a \in Live \ ended : party'[a].leader # NoPlayer
    BY <1>0, <1>3, PartyAssumption DEF Proper
  <2>3. \A a \in Address \ Live : party'[a].leader = NoPlayer
    BY <1>0, <1>2, <1>3, FreeIsParty
  <2>. QED
    BY <1>0, <1>2, <2>1, <2>2, <2>3 DEF Live
<1>5. /\ \A q \in gone : partyOf'[q] = NoParty
      /\ \A q \in Player : partyOf'[q] # NoParty =>
            /\ q \notin gone /\ partyOf'[q] = partyOf[q] /\ partyOf[q] \notin ended
      /\ \A q \in Player \ gone : partyOf[q] \notin ended => partyOf'[q] = partyOf[q]
      /\ partyOf' \in [Player -> Address \cup {NoParty}]
  BY <1>0, <1>1, <1>2 DEF IInv, TypeOK
<1>6. \A a \in Address \ ended : ~Ended(r[a], {}) \/ a \notin Live
  BY <1>0, <1>2 DEF Ended
<1>7. TypeOK'
  <2>1. party' \in [Address -> Parties]
    BY <1>0, <1>1, FreeIsParty
  <2>2. \A a \in Address : party'[a].active \subseteq Players(party'[a])
    BY <1>0, <1>2, <1>3, FreeIsParty DEF Proper
  <2>3. users' \in [Address -> SUBSET Player] /\ unnoticed' \in SUBSET Address
    BY <1>0, <1>1 DEF IInv, TypeOK
  <2>4. invitedTo' \in [Player -> SUBSET Address]
    BY <1>0, <1>1
  <2>. QED
    BY <1>0, <1>5, <2>1, <2>2, <2>3, <2>4 DEF IInv, TypeOK
<1>8. Membership'
  <2>1. ASSUME NEW q \in Player, partyOf'[q] # NoParty
        PROVE  q \in online' /\ partyOf'[q] \in Live' /\ q \in Players(party'[partyOf'[q]])
    <3>1. q \notin gone /\ partyOf'[q] = partyOf[q] /\ partyOf[q] \notin ended /\ partyOf[q] # NoParty
      BY <1>0, <1>5, <2>1
    <3>2. partyOf[q] \in Live
      BY <1>0, <3>1 DEF IInv, Membership
    <3>. QED
      BY <1>0, <1>2, <1>3, <1>4, <3>1, <3>2
  <2>2. ASSUME NEW a \in Live'
        PROVE  /\ Proper(party'[a]) /\ ~Ended(party'[a], {})
               /\ \A q \in Players(party'[a]) : partyOf'[q] = a
    <3>1. a \in Live /\ a \notin ended /\ party'[a] = r[a] /\ Proper(r[a]) /\ ~Ended(r[a], {})
      BY <1>0, <1>2, <1>3, <1>4, <1>6
    <3>2. \A q \in Players(r[a]) : q \in Player /\ q \notin gone /\ partyOf[q] = a
      BY <1>0, <1>3, <3>1, ProperPlayers
    <3>. QED
      BY <1>0, <1>5, <3>1, <3>2
  <2>3. \A a \in Address \ Live' : party'[a] = Free
    BY <1>0, <1>2, <1>3, <1>4
  <2>. QED
    BY <1>0, <2>1, <2>2, <2>3 DEF Membership
<1>9. \A q \in Player : invitedTo'[q] = lists[q] \ {a \in ended : q \in r[a].invited}
  BY <1>0, <1>1
<1>10. InvitationsAgree'
  <2>. SUFFICES ASSUME NEW q \in Player \ selfInvited'
                PROVE  /\ invitedTo'[q] = {a \in Live' : q \in party'[a].invited}
                       /\ invitedTo'[q] # {} => q \in online'
                       /\ \A a \in Live' : q \in party'[a].invited => q \notin Players(party'[a])
    BY <1>0 DEF InvitationsAgree
  <2>1. \A a \in Live' : a \in Live \ ended /\ party'[a] = r[a] /\ ~Ended(r[a], gone)
    BY <1>0, <1>3, <1>4
  <2>2. lists[q] = {a \in Live : q \in r[a].invited}
    BY <1>0
  <2>3. invitedTo'[q] = {a \in Live' : q \in party'[a].invited}
    BY <1>0, <1>2, <1>4, <1>9, <2>1, <2>2
  <2>. QED
    BY <1>0, <1>9, <2>1, <2>3
<1>11. InvitedKnow'
  <2>. SUFFICES ASSUME NEW a \in Live', NEW q \in party'[a].invited
                PROVE  a \in invitedTo'[q] /\ q \in online'
    BY <1>0 DEF InvitedKnow
  <2>1. a \in Live /\ a \notin ended /\ party'[a] = r[a] /\ r[a] \in Parties
    BY <1>0, <1>3, <1>4 DEF Proper
  <2>2. q \in Player
    BY <1>0, <2>1 DEF Parties
  <2>. QED
    BY <1>0, <1>9, <2>1, <2>2
<1>12. UsersAreOnline'
  BY <1>0, <1>1 DEF UsersAreOnline
<1>13. SharedIsCurrent'
  <2>1. ASSUME NEW a \in Live' \ unnoticed'
        PROVE  Current(party'[a])
    <3>1. a \in Live \ ended /\ party'[a] = r[a] /\ ~Ended(r[a], gone)
      BY <1>0, <1>3, <1>4
    <3>2. a \notin unnoticed \/ \E q \in gone : partyOf[q] = a
      BY <1>0, <1>1, <2>1, <3>1
    <3>. QED
      BY <1>0, <3>1, <3>2
  <2>. QED
    BY <1>0, <2>1 DEF SharedIsCurrent, Current
<1>. QED
  BY <1>0, <1>2, <1>4, <1>7, <1>8, <1>10, <1>11, <1>12, <1>13 DEF IInv

\* Of those the party has or waits for, p and at most one other.
OneOther(r, p) == Cardinality(Others(r, p)) <= 1

Alone(r, p) == Players(r) = {p} \/ OneOther(r, p)

LEMMA OneAtMost ==
    ASSUME NEW S, NEW x, S \subseteq {x}
    PROVE  Cardinality(S) <= 1
<1>1. CASE S = {}
  BY <1>1, FS_EmptySet
<1>2. CASE S # {}
  <2>1. S = {x}
    BY <1>2
  <2>. QED
    BY <2>1, FS_Singleton
<1>. QED
  BY <1>1, <1>2

\* The party waits for q no more, and that may be its end.
LEMMA RefusedIsProper ==
    ASSUME NEW r, Proper(r), ~Ended(r, {}), NEW q, NEW gone, r.leader \notin gone
    PROVE  LET s == [r EXCEPT !.invited = @ \ {q}]
           IN  /\ Proper(s) /\ Players(s) = Players(r)
               /\ s.leader = r.leader /\ s.members = r.members /\ s.invited = r.invited \ {q}
               /\ Current(s) <=> Current(r)
               /\ Ended(s, gone) => OneOther(r, q)
<1>. DEFINE s == [r EXCEPT !.invited = @ \ {q}]
<1>0. PICK X \in SUBSET Player : X = r.invited \ {q}
  BY DEF Proper, Parties
<1>1. s = [r EXCEPT !.invited = X]
  BY <1>0
<1>. HIDE DEF s
<1>2. /\ Proper(s) /\ Players(s) = Players(r)
      /\ s.leader = r.leader /\ s.members = r.members /\ s.invited = X
      /\ Current(s) <=> Current(r)
  BY <1>0, <1>1, WaitingIsProper
<1>3. ASSUME Ended(s, gone)
      PROVE  OneOther(r, q)
  <2>1. r.members = <<>> /\ r.invited \ {q} = {}
    BY <1>0, <1>2, <1>3 DEF Ended
  <2>2. Players(r) = {r.leader} \cup Range(r.members) /\ r.members \in Seq(Player)
    BY ProperPlayers DEF Proper, Parties
  <2>3. Players(r) = {r.leader}
    BY <2>1, <2>2, RangeIsEmpty
  <2>4. (Players(r) \cup r.invited) \ {q} \subseteq {r.leader}
    BY <2>1, <2>3
  <2>. QED
    BY <2>4, OneAtMost DEF OneOther, Others
<1>. QED
  BY <1>0, <1>2, <1>3 DEF s

\* What the party may be when p has left it.
Departed(r, p) == {Refreshed(t) : t \in Somewhere(Left(r, p))}

\* One of its players has left the party, and that may be its end.
LEMMA DepartedIsProper ==
    ASSUME NEW r, Proper(r), NEW p \in Players(r), NEW s \in Departed(r, p)
    PROVE  /\ s \in Parties /\ s.invited = r.invited \ {p} /\ Current(s)
           /\ ~Ended(s, {p}) => Proper(s)
           /\ r.leader # p \/ r.members # <<>> => Players(s) = Players(r) \ {p}
           /\ r.leader = p /\ r.members = <<>> => Ended(s, {p}) /\ Players(r) = {p}
           /\ Ended(s, {p}) => Alone(r, p)
<1>0. PICK t \in Somewhere(Left(r, p)) : s = Refreshed(t)
  BY DEF Departed
<1>1. /\ Left(r, p) \in Parties /\ Left(r, p).invited = r.invited \ {p}
      /\ r.leader = p /\ r.members = <<>> => Left(r, p).leader = p
      /\ r.leader # p \/ r.members # <<>> =>
            /\ Proper(Left(r, p))
            /\ Players(Left(r, p)) = Players(r) \ {p}
  BY LeftIsProper
<1>2. Alike(t, Left(r, p)) /\ t \in Parties
  BY <1>1, SomewhereIsAlike DEF Alike
<1>3. Alike(s, t) /\ Current(s)
  BY <1>0, <1>2, RefreshedIsAlike
<1>4. Alike(s, Left(r, p))
  BY <1>2, <1>3 DEF Alike
<1>5. s \in Parties /\ s.invited = r.invited \ {p}
  BY <1>1, <1>4 DEF Alike
<1>6. CASE r.leader = p /\ r.members = <<>>
  <2>1. Ended(s, {p})
    BY <1>1, <1>4, <1>6 DEF Alike, Ended
  <2>2. Players(r) = {r.leader} \cup Range(r.members) /\ r.members \in Seq(Player)
    BY ProperPlayers DEF Proper, Parties
  <2>3. Players(r) = {p}
    BY <1>6, <2>2, RangeIsEmpty
  <2>. QED
    BY <1>3, <1>5, <1>6, <2>1, <2>3 DEF Alone
<1>7. CASE r.leader # p \/ r.members # <<>>
  <2>1. Proper(s) /\ Players(s) = Players(r) \ {p}
    BY <1>1, <1>4, <1>7, AlikeIsProper
  <2>2. ASSUME Ended(s, {p})
        PROVE  Alone(r, p)
    <3>1. s.leader # p
      BY <2>1, ProperPlayers
    <3>2. s.members = <<>> /\ s.invited = {}
      BY <2>2, <3>1 DEF Ended
    <3>3. Players(s) = {s.leader} \cup Range(s.members) /\ s.members \in Seq(Player)
      BY <2>1, ProperPlayers DEF Proper, Parties
    <3>4. Players(s) = {s.leader}
      BY <3>2, <3>3, RangeIsEmpty
    <3>5. (Players(r) \cup r.invited) \ {p} \subseteq {s.leader}
      BY <1>5, <2>1, <3>2, <3>4
    <3>. QED
      BY <3>5, OneAtMost DEF Alone, OneOther, Others
  <2>. QED
    BY <1>3, <1>5, <1>7, <2>1, <2>2
<1>. QED
  BY <1>6, <1>7

LEMMA RevokeKeepsInv ==
    ASSUME IInv, NEW p \in Player, NEW q \in Player, Revoke(p, q)
    PROVE  IInv' /\ \A a \in Live \ Live' : OneOther(party[a], q)
<1>1. PICK a : a = partyOf[p]
  OBVIOUS
<1>2. PICK s : s = [party[a] EXCEPT !.invited = @ \ {q}]
  OBVIOUS
<1>3. PICK r : r = [party EXCEPT ![a] = s]
  OBVIOUS
<1>4. PICK lists : lists = [invitedTo EXCEPT ![q] = @ \ {a}]
  OBVIOUS
<1>5. /\ q \in online /\ a # NoParty /\ q \in party[a].invited
      /\ Settle(r, lists, {}, {})
      /\ UNCHANGED <<online, selfInvited, scene>>
  BY <1>1, <1>2, <1>3, <1>4 DEF Revoke, IsInviting, IsLeader
<1>6. a \in Live /\ a \in Address /\ Proper(party[a]) /\ ~Ended(party[a], {})
  BY <1>1, <1>5, PartyIsProper DEF IInv, Live
<1>7. /\ Proper(s) /\ Players(s) = Players(party[a])
      /\ s.leader = party[a].leader /\ s.members = party[a].members
      /\ s.invited = party[a].invited \ {q}
      /\ Current(s) <=> Current(party[a])
      /\ Ended(s, {}) => OneOther(party[a], q)
  BY <1>2, <1>6, RefusedIsProper
<1>8. /\ r \in [Address -> Parties] /\ r[a] = s
      /\ \A b \in Address \ {a} : r[b] = party[b]
  BY <1>3, <1>6, <1>7 DEF IInv, TypeOK, Proper
<1>9. /\ lists \in [Player -> SUBSET Address]
      /\ lists[q] = invitedTo[q] \ {a}
      /\ \A x \in Player \ {q} : lists[x] = invitedTo[x]
  BY <1>4 DEF IInv, TypeOK
<1>10. \A b \in Address \ Live : r[b] = Free
  BY <1>6, <1>8 DEF IInv, Membership
<1>11. ASSUME NEW b \in Live
       PROVE  /\ Proper(r[b]) /\ Players(r[b]) = Players(party[b])
              /\ \A x \in Players(r[b]) : x \notin {} /\ partyOf[x] = b
              /\ Current(r[b]) <=> Current(party[b])
              /\ Ended(r[b], {}) => OneOther(party[b], q)
  <2>1. Proper(party[b]) /\ ~Ended(party[b], {}) /\ \A x \in Players(party[b]) : partyOf[x] = b
    BY DEF IInv, Membership
  <2>2. b = a \/ r[b] = party[b]
    BY <1>8 DEF Live
  <2>. QED
    BY <1>7, <1>8, <2>1, <2>2
<1>12. \A b \in Live : b \notin unnoticed => Current(party[b])
  BY DEF IInv, SharedIsCurrent, Current
<1>13. ASSUME NEW x \in Player, partyOf[x] # NoParty
       PROVE  x \in online /\ x \in Players(r[partyOf[x]])
  BY <1>11, <1>13, PartyIsProper DEF IInv
<1>14. \A b \in Live : \A x : x \in r[b].invited <=> x \in party[b].invited /\ ~(x = q /\ b = a)
  BY <1>7, <1>8 DEF Live
<1>15. ASSUME NEW x \in Player \ selfInvited
       PROVE  /\ lists[x] = {b \in Live : x \in r[b].invited}
              /\ lists[x] # {} => x \in online
              /\ \A b \in Live : x \in r[b].invited => x \notin Players(r[b])
  <2>1. /\ invitedTo[x] = {b \in Live : x \in party[b].invited}
        /\ invitedTo[x] # {} => x \in online
        /\ \A b \in Live : x \in party[b].invited => x \notin Players(party[b])
    BY DEF IInv, InvitationsAgree
  <2>2. \A b : b \in lists[x] <=> b \in invitedTo[x] /\ ~(x = q /\ b = a)
    BY <1>9
  <2>. QED
    BY <1>11, <1>14, <2>1, <2>2
<1>16. ASSUME NEW b \in Live, NEW x \in r[b].invited
       PROVE  b \in lists[x] /\ x \in online
  <2>1. x \in party[b].invited /\ ~(x = q /\ b = a) /\ x \in Player
    BY <1>11, <1>14 DEF Proper, Parties
  <2>2. b \in invitedTo[x] /\ x \in online
    BY <2>1 DEF IInv, InvitedKnow
  <2>. QED
    BY <1>9, <2>1, <2>2
<1>17. \A b \in Address : users[b] \ {} \subseteq online
  BY DEF IInv, UsersAreOnline
<1>18. online \in SUBSET Player /\ selfInvited \in SUBSET Player
  BY DEF IInv, TypeOK
<1>19. IInv' /\ \A b \in Live \ Live' : Ended(r[b], {})
  <2>0. PICK none \in SUBSET Player : none = {}
    OBVIOUS
  <2>1. /\ Settle(r, lists, none, none)
        /\ online' = online /\ selfInvited' = selfInvited /\ UNCHANGED scene
        /\ online' \in SUBSET Player /\ selfInvited' \in SUBSET Player
    BY <1>5, <1>18, <2>0
  <2>2. \A b \in Live : ~Ended(r[b], none) =>
            /\ Proper(r[b])
            /\ \A x \in Players(r[b]) : x \notin none /\ partyOf[x] = b
            /\ b \notin unnoticed \/ (\E x \in none : partyOf[x] = b) => Current(r[b])
    BY <1>11, <1>12, <2>0
  <2>3. \A x \in Player \ none : partyOf[x] # NoParty =>
            /\ x \in online'
            /\ Ended(r[partyOf[x]], none) \/ x \in Players(r[partyOf[x]])
    BY <1>13, <2>1
  <2>4. \A x \in Player \ selfInvited' :
            /\ lists[x] = {b \in Live : x \in r[b].invited}
            /\ lists[x] # {} => x \in online'
            /\ \A b \in Live : x \in r[b].invited /\ ~Ended(r[b], none) => x \notin Players(r[b])
    BY <1>15, <2>1
  <2>5. \A b \in Live : \A x \in r[b].invited : b \in lists[x] /\ x \in online'
    BY <1>16, <2>1
  <2>6. \A b \in Address : users[b] \ none \subseteq online'
    BY <1>17, <2>0, <2>1
  <2>7. Orderly(r, lists, none, none)
    BY <1>8, <1>9, <1>10, <2>1, <2>2, <2>3, <2>4, <2>5, <2>6 DEF Orderly
  <2>. QED
    BY <2>0, <2>1, <2>7, SettleKeepsInv
<1>. QED
  BY <1>11, <1>19
LEMMA LeaveKeepsInv ==
    ASSUME IInv, NEW p \in Player, Leave(p)
    PROVE  IInv' /\ \A a \in Live \ Live' : Alone(party[a], p)
<1>1. PICK a : a = partyOf[p]
  OBVIOUS
<1>2. p \in online /\ a # NoParty /\ UNCHANGED <<online, selfInvited, scene>>
  BY <1>1 DEF Leave, HasParty
<1>3. PICK s \in Departed(party[a], p) : Settle([party EXCEPT ![a] = s], invitedTo, {p}, {})
  BY <1>1 DEF Leave, Departed
<1>5. PICK r : r = [party EXCEPT ![a] = s]
  OBVIOUS
<1>6. /\ a \in Live /\ a \in Address /\ p \in Players(party[a])
      /\ Proper(party[a]) /\ ~Ended(party[a], {})
  BY <1>1, <1>2, PartyIsProper DEF IInv, Live
<1>7. /\ s \in Parties /\ s.invited = party[a].invited \ {p} /\ Current(s)
      /\ ~Ended(s, {p}) => Proper(s)
      /\ Ended(s, {p}) \/ Players(s) = Players(party[a]) \ {p}
      /\ Ended(s, {p}) => Alone(party[a], p)
  BY <1>3, <1>6, DepartedIsProper
<1>8. /\ r \in [Address -> Parties] /\ r[a] = s
      /\ \A b \in Address \ {a} : r[b] = party[b]
  BY <1>5, <1>6, <1>7 DEF IInv, TypeOK
<1>9. invitedTo \in [Player -> SUBSET Address] /\ online \in SUBSET Player /\ selfInvited \in SUBSET Player
  BY DEF IInv, TypeOK
<1>10. \A b \in Address \ Live : r[b] = Free
  BY <1>6, <1>8 DEF IInv, Membership
<1>11. \A b \in Live : /\ Proper(party[b]) /\ ~Ended(party[b], {})
                       /\ \A x \in Players(party[b]) : x \in Player /\ partyOf[x] = b
                       /\ b \notin unnoticed => Current(party[b])
  BY ProperPlayers DEF IInv, Membership, SharedIsCurrent, Current
<1>12. \A b \in Live \ {a} : /\ r[b] = party[b] /\ p \notin Players(party[b])
                             /\ ~Ended(party[b], {p})
  <2>. SUFFICES ASSUME NEW b \in Live \ {a}
                PROVE  r[b] = party[b] /\ p \notin Players(party[b]) /\ ~Ended(party[b], {p})
    OBVIOUS
  <2>1. r[b] = party[b] /\ p \notin Players(party[b])
    BY <1>1, <1>8, <1>11 DEF Live
  <2>2. party[b].leader \in Players(party[b])
    BY <1>11, ProperPlayers
  <2>. QED
    BY <1>11, <2>1, <2>2 DEF Ended
<1>13. ASSUME NEW b \in Live
       PROVE  Ended(r[b], {p}) => Alone(party[b], p)
  BY <1>7, <1>8, <1>12
<1>14. ASSUME NEW b \in Live, ~Ended(r[b], {p})
       PROVE  /\ Proper(r[b])
              /\ \A x \in Players(r[b]) : x \notin {p} /\ partyOf[x] = b
              /\ b \notin unnoticed \/ (\E x \in {p} : partyOf[x] = b) => Current(r[b])
  <2>1. CASE b = a
    BY <1>1, <1>7, <1>8, <1>11, <1>14, <2>1
  <2>2. CASE b # a
    BY <1>1, <1>11, <1>12, <2>2
  <2>. QED
    BY <2>1, <2>2
<1>15. ASSUME NEW x \in Player \ {p}, partyOf[x] # NoParty
       PROVE  /\ x \in online
              /\ Ended(r[partyOf[x]], {p}) \/ x \in Players(r[partyOf[x]])
  <2>1. x \in online /\ partyOf[x] \in Live /\ x \in Players(party[partyOf[x]])
    BY <1>15, PartyIsProper DEF IInv
  <2>. QED
    BY <1>7, <1>8, <1>12, <2>1
<1>16. \A b \in Live : \A x : x \in r[b].invited <=> x \in party[b].invited /\ ~(x = p /\ b = a)
  BY <1>7, <1>8, <1>12
<1>17. ASSUME NEW x \in Player \ selfInvited
       PROVE  /\ invitedTo[x] = {b \in Live : x \in r[b].invited}
              /\ invitedTo[x] # {} => x \in online
              /\ \A b \in Live : x \in r[b].invited /\ ~Ended(r[b], {p}) => x \notin Players(r[b])
  <2>1. /\ invitedTo[x] = {b \in Live : x \in party[b].invited}
        /\ invitedTo[x] # {} => x \in online
        /\ \A b \in Live : x \in party[b].invited => x \notin Players(party[b])
    BY DEF IInv, InvitationsAgree
  <2>2. \A b \in Live : x \in r[b].invited <=> x \in party[b].invited
    BY <1>6, <1>16, <2>1
  <2>3. \A b \in Live : Ended(r[b], {p}) \/ Players(r[b]) \subseteq Players(party[b])
    BY <1>7, <1>8, <1>12
  <2>. QED
    BY <2>1, <2>2, <2>3
<1>18. ASSUME NEW b \in Live, NEW x \in r[b].invited
       PROVE  b \in invitedTo[x] /\ x \in online
  BY <1>16 DEF IInv, InvitedKnow
<1>19. \A b \in Address : users[b] \ {} \subseteq online
  BY DEF IInv, UsersAreOnline
<1>20. Settle(r, invitedTo, {p}, {}) /\ Orderly(r, invitedTo, {p}, {})
  <2>1. Settle(r, invitedTo, {p}, {}) /\ {p} \in SUBSET Player
    BY <1>3, <1>5
  <2>2. online' = online /\ selfInvited' = selfInvited /\ UNCHANGED scene
    BY <1>2
  <2>. QED
    BY <1>8, <1>9, <1>10, <1>14, <1>15, <1>17, <1>18, <1>19, <2>1, <2>2 DEF Orderly
<1>21. IInv' /\ \A b \in Live \ Live' : Ended(r[b], {p})
  BY <1>20, SettleKeepsInv
<1>. QED
  BY <1>13, <1>21

LEMMA LogoutKeepsInv ==
    ASSUME IInv, NEW p \in Player, Logout(p)
    PROVE  IInv' /\ \A a \in Live \ Live' : Alone(party[a], p)
<1>1. PICK refused : refused = [b \in Address |-> IF b \in invitedTo[p]
                                                 THEN [party[b] EXCEPT !.invited = @ \ {p}]
                                                 ELSE party[b]]
  OBVIOUS
<1>2. PICK lists : lists = [invitedTo EXCEPT ![p] = {}]
  OBVIOUS
<1>3. /\ p \in online /\ online' = online \ {p} /\ selfInvited' = selfInvited \ {p}
      /\ UNCHANGED scene /\ invitedTo[p] \subseteq Live
  BY DEF Logout
<1>4. \/ /\ partyOf[p] = NoParty
         /\ Settle(refused, lists, {p}, {p})
      \/ \E a \in {partyOf[p]} \cap Address : \E s \in Departed(refused[a], p) :
            Settle([refused EXCEPT ![a] = s], lists, {p}, {p})
  BY <1>1, <1>2 DEF Logout, Quits, Departed
<1>5. /\ online \in SUBSET Player /\ selfInvited \in SUBSET Player
      /\ invitedTo \in [Player -> SUBSET Address] /\ party \in [Address -> Parties]
      /\ partyOf[p] = NoParty \/ partyOf[p] \in Live
  BY PartyIsProper DEF IInv, TypeOK
<1>6. /\ lists \in [Player -> SUBSET Address] /\ lists[p] = {}
      /\ \A x \in Player \ {p} : lists[x] = invitedTo[x]
  BY <1>2, <1>5
<1>7. \A b \in Live : /\ b \in Address /\ Proper(party[b]) /\ ~Ended(party[b], {})
                      /\ \A x \in Players(party[b]) : x \in Player /\ partyOf[x] = b
                      /\ party[b].leader \in Players(party[b])
                      /\ b \notin unnoticed => Current(party[b])
  BY ProperPlayers DEF IInv, Membership, SharedIsCurrent, Current, Live
\* What becomes of the parties when the invitations are refused.
<1>8. ASSUME NEW b \in Live
      PROVE  /\ Proper(refused[b]) /\ Players(refused[b]) = Players(party[b])
             /\ refused[b].leader = party[b].leader /\ refused[b].members = party[b].members
             /\ refused[b].invited = party[b].invited \ {p}
             /\ Current(refused[b]) <=> Current(party[b])
             /\ p # party[b].leader /\ Ended(refused[b], {p}) => Alone(party[b], p)
  <2>1. Proper(party[b]) /\ ~Ended(party[b], {}) /\ party[b].leader \notin {}
    BY <1>7
  <2>2. CASE b \in invitedTo[p]
    <3>1. refused[b] = [party[b] EXCEPT !.invited = @ \ {p}]
      BY <1>1, <1>7, <2>2
    <3>2. /\ Proper(refused[b]) /\ Players(refused[b]) = Players(party[b])
          /\ refused[b].leader = party[b].leader /\ refused[b].members = party[b].members
          /\ refused[b].invited = party[b].invited \ {p}
          /\ Current(refused[b]) <=> Current(party[b])
      BY <2>1, <3>1, RefusedIsProper
    <3>3. ASSUME party[b].leader \notin {p}, Ended(refused[b], {p})
          PROVE  Alone(party[b], p)
      BY <2>1, <3>1, <3>3, RefusedIsProper DEF Alone
    <3>. QED
      BY <3>2, <3>3
  <2>3. CASE b \notin invitedTo[p]
    <3>1. refused[b] = party[b]
      BY <1>1, <1>7, <2>3
    <3>2. p \notin party[b].invited
      BY <2>3 DEF IInv, InvitedKnow
    <3>3. p # party[b].leader => ~Ended(party[b], {p})
      BY <2>1 DEF Ended
    <3>4. refused[b].invited = party[b].invited \ {p}
      BY <3>1, <3>2
    <3>. QED
      BY <2>1, <3>1, <3>3, <3>4
  <2>. QED
    BY <2>2, <2>3
<1>9. \A b \in Address \ Live : refused[b] = Free
  BY <1>1, <1>3 DEF IInv, Membership
<1>10. refused \in [Address -> Parties]
  <2>1. \A b \in Address : refused[b] \in Parties
    BY <1>8, <1>9, FreeIsParty DEF Proper
  <2>. QED
    BY <1>1, <2>1
\* What becomes of the parties when the player has left his own as well.
<1>11. PICK r \in [Address -> Parties] :
          /\ Settle(r, lists, {p}, {p})
          /\ \A b \in Address : b # partyOf[p] => r[b] = refused[b]
          /\ partyOf[p] \in Live => r[partyOf[p]] \in Departed(refused[partyOf[p]], p)
  <2>1. CASE partyOf[p] = NoParty /\ Settle(refused, lists, {p}, {p})
    <3>1. partyOf[p] \notin Live
      BY <2>1, PartyAssumption DEF Live
    <3>. QED
      BY <1>10, <2>1, <3>1
  <2>2. ASSUME NEW a \in {partyOf[p]} \cap Address, NEW s \in Departed(refused[a], p),
               Settle([refused EXCEPT ![a] = s], lists, {p}, {p})
        PROVE  \E r \in [Address -> Parties] :
                  /\ Settle(r, lists, {p}, {p})
                  /\ \A b \in Address : b # partyOf[p] => r[b] = refused[b]
                  /\ partyOf[p] \in Live => r[partyOf[p]] \in Departed(refused[partyOf[p]], p)
    <3>1. a = partyOf[p] /\ a \in Live /\ a \in Address
      BY <1>5, PartyAssumption
    <3>2. Proper(refused[a]) /\ p \in Players(refused[a])
      BY <1>8, <3>1, PartyAssumption, PartyIsProper DEF IInv
    <3>3. s \in Parties
      BY <3>2, DepartedIsProper
    <3>4. PICK r : r = [refused EXCEPT ![a] = s]
      OBVIOUS
    <3>5. r \in [Address -> Parties] /\ r[a] = s /\ \A b \in Address : b # a => r[b] = refused[b]
      BY <1>10, <3>1, <3>3, <3>4
    <3>. QED
      BY <2>2, <3>1, <3>4, <3>5
  <2>. QED
    BY <1>4, <2>1, <2>2
<1>12. ASSUME NEW b \in Live, b # partyOf[p]
       PROVE  r[b] = refused[b] /\ p \notin Players(party[b])
  BY <1>7, <1>11, <1>12
<1>13. ASSUME NEW b \in Live, b = partyOf[p]
       PROVE  /\ r[b].invited = party[b].invited \ {p} /\ Current(r[b])
              /\ ~Ended(r[b], {p}) => Proper(r[b])
              /\ Ended(r[b], {p}) \/ Players(r[b]) = Players(party[b]) \ {p}
              /\ Ended(r[b], {p}) => Alone(party[b], p)
  <2>1. p \in Players(refused[b]) /\ Proper(refused[b])
    BY <1>7, <1>8, <1>13, PartyAssumption, PartyIsProper DEF IInv
  <2>2. r[b] \in Departed(refused[b], p)
    BY <1>11, <1>13
  <2>3. /\ r[b].invited = refused[b].invited \ {p} /\ Current(r[b])
        /\ ~Ended(r[b], {p}) => Proper(r[b])
        /\ Ended(r[b], {p}) \/ Players(r[b]) = Players(refused[b]) \ {p}
        /\ Ended(r[b], {p}) => Alone(refused[b], p)
    BY <2>1, <2>2, DepartedIsProper
  <2>4. Others(refused[b], p) = Others(party[b], p)
    BY <1>8 DEF Others
  <2>5. Alone(refused[b], p) => Alone(party[b], p)
    BY <1>8, <2>4 DEF Alone, OneOther
  <2>6. r[b].invited = party[b].invited \ {p}
    BY <1>8, <2>3
  <2>. QED
    BY <1>8, <2>3, <2>5, <2>6
<1>14. \A b \in Live : Ended(r[b], {p}) => Alone(party[b], p)
  <2>. SUFFICES ASSUME NEW b \in Live, Ended(r[b], {p})
                PROVE  Alone(party[b], p)
    OBVIOUS
  <2>1. CASE b = partyOf[p]
    BY <1>13, <2>1
  <2>2. CASE b # partyOf[p]
    BY <1>7, <1>8, <1>12, <2>2
  <2>. QED
    BY <2>1, <2>2
<1>15. ASSUME NEW b \in Live, ~Ended(r[b], {p})
       PROVE  /\ Proper(r[b])
              /\ \A x \in Players(r[b]) : x \notin {p} /\ partyOf[x] = b
              /\ b \notin unnoticed \/ (\E x \in {p} : partyOf[x] = b) => Current(r[b])
  <2>1. CASE b = partyOf[p]
    BY <1>7, <1>13, <1>15, <2>1
  <2>2. CASE b # partyOf[p]
    BY <1>7, <1>8, <1>12, <2>2
  <2>. QED
    BY <2>1, <2>2
<1>16. ASSUME NEW x \in Player \ {p}, partyOf[x] # NoParty
       PROVE  /\ x \in online'
              /\ Ended(r[partyOf[x]], {p}) \/ x \in Players(r[partyOf[x]])
  <2>1. x \in online /\ partyOf[x] \in Live /\ x \in Players(party[partyOf[x]])
    BY <1>16, PartyIsProper DEF IInv
  <2>2. CASE partyOf[x] = partyOf[p]
    BY <1>3, <1>13, <2>1, <2>2
  <2>3. CASE partyOf[x] # partyOf[p]
    BY <1>3, <1>8, <1>12, <2>1, <2>3
  <2>. QED
    BY <2>2, <2>3
<1>17. \A b \in Live : r[b].invited = party[b].invited \ {p}
  BY <1>8, <1>12, <1>13
<1>18. ASSUME NEW x \in Player \ selfInvited'
       PROVE  /\ lists[x] = {b \in Live : x \in r[b].invited}
              /\ lists[x] # {} => x \in online'
              /\ \A b \in Live : x \in r[b].invited /\ ~Ended(r[b], {p}) => x \notin Players(r[b])
  <2>1. CASE x = p
    BY <1>6, <1>17, <2>1
  <2>2. CASE x # p
    <3>1. /\ invitedTo[x] = {b \in Live : x \in party[b].invited}
          /\ invitedTo[x] # {} => x \in online
          /\ \A b \in Live : x \in party[b].invited => x \notin Players(party[b])
      BY <1>3, <2>2 DEF IInv, InvitationsAgree
    <3>2. \A b \in Live : x \in r[b].invited <=> x \in party[b].invited
      BY <1>17, <2>2
    <3>3. \A b \in Live : Ended(r[b], {p}) \/ Players(r[b]) \subseteq Players(party[b])
      BY <1>8, <1>12, <1>13
    <3>. QED
      BY <1>3, <1>6, <2>2, <3>1, <3>2, <3>3
  <2>. QED
    BY <2>1, <2>2
<1>19. ASSUME NEW b \in Live, NEW x \in r[b].invited
       PROVE  b \in lists[x] /\ x \in online'
  <2>1. x \in party[b].invited /\ x # p /\ x \in Player
    BY <1>7, <1>17 DEF Proper, Parties
  <2>2. b \in invitedTo[x] /\ x \in online
    BY <2>1 DEF IInv, InvitedKnow
  <2>. QED
    BY <1>3, <1>6, <2>1, <2>2
<1>20. \A b \in Address : users[b] \ {p} \subseteq online'
  BY <1>3 DEF IInv, UsersAreOnline
<1>21. \A b \in Address \ Live : r[b] = Free
  BY <1>5, <1>9, <1>11, PartyAssumption
<1>22. Orderly(r, lists, {p}, {p})
  <2>1. /\ {p} \in SUBSET Player /\ online' \in SUBSET Player /\ selfInvited' \in SUBSET Player
        /\ UNCHANGED scene
    BY <1>3, <1>5
  <2>. QED
    BY <1>6, <1>11, <1>15, <1>16, <1>18, <1>19, <1>20, <1>21, <2>1 DEF Orderly
<1>23. IInv' /\ \A b \in Live \ Live' : Ended(r[b], {p})
  BY <1>11, <1>22, SettleKeepsInv
<1>. QED
  BY <1>14, <1>23

-----------------------------------------------------------------------------
(* Every step, and what follows. *)

\* The step is one of p's, or the revocation of p's invitation, and ends r.
EndedBy(r, p) ==
    \/ (Leave(p) \/ Logout(p)) /\ Alone(r, p)
    \/ (\E l \in Player : Revoke(l, p)) /\ OneOther(r, p)

LEMMA NextKeepsInv ==
    ASSUME IInv, [Next]_vars
    PROVE  IInv' /\ \A a \in Live \ Live' : \E p \in Player : EndedBy(party[a], p)
<1>1. ASSUME NEW p \in Player, NEW q \in Player, Invite(p, q)
      PROVE  IInv' /\ Live \ Live' = {}
  BY <1>1, InviteKeepsInv
<1>2. ASSUME NEW p \in Player, NEW q \in Player, Join(p, q)
      PROVE  IInv' /\ Live \ Live' = {}
  BY <1>2, JoinKeepsInv
<1>3. ASSUME NEW p \in Player, NEW q \in Player, PassLeadership(p, q)
      PROVE  IInv' /\ Live \ Live' = {}
  BY <1>3, PassLeadershipKeepsInv
<1>4. ASSUME NEW p \in Player, NEW q \in Player, Revoke(p, q)
      PROVE  IInv' /\ \A a \in Live \ Live' : \E x \in Player : EndedBy(party[a], x)
  BY <1>4, RevokeKeepsInv DEF EndedBy
<1>5. ASSUME NEW p \in Player, Leave(p)
      PROVE  IInv' /\ \A a \in Live \ Live' : \E x \in Player : EndedBy(party[a], x)
  BY <1>5, LeaveKeepsInv DEF EndedBy
<1>6. ASSUME NEW p \in Player, Logout(p)
      PROVE  IInv' /\ \A a \in Live \ Live' : \E x \in Player : EndedBy(party[a], x)
  BY <1>6, LogoutKeepsInv DEF EndedBy
<1>7. ASSUME NEW p \in Player, Login(p) \/ TakeOver(p) \/ OpenChannel(p) \/ CloseChannel(p)
      PROVE  IInv' /\ Live \ Live' = {}
  BY <1>7, ComingsKeepInv
<1>8. ASSUME NEW p \in Player,
             SetShared(p) \/ GainPoints(p) \/ IdleStatus(p) \/ MoveOrAdvance(p) \/ LoseLevel(p) \/ PointsAge(p)
      PROVE  IInv' /\ Live \ Live' = {}
  BY <1>8, SharingKeepsInv
<1>9. CASE UNCHANGED vars
  <2>1. /\ UNCHANGED <<party, partyOf, invitedTo, selfInvited, scene, unnoticed>>
        /\ online' = online /\ users' = users
    BY <1>9 DEF vars, playerVars
  <2>2. IInv' /\ Live' = Live
    BY <2>1, ChannelsKeepInv DEF IInv, TypeOK, UsersAreOnline
  <2>. QED
    BY <2>2
<1>10. CASE Next
  BY <1>1, <1>2, <1>3, <1>4, <1>5, <1>6, <1>7, <1>8, <1>10 DEF Next
<1>. QED
  BY <1>9, <1>10

LEMMA InvHolds == Spec => []IInv
<1>1. IInv /\ [Next]_vars => IInv'
  BY NextKeepsInv
<1>. QED
  BY InitInv, <1>1, PTL DEF Spec

\* Every variable has its type, and those active in a party are its players.
THEOREM TypeCorrect == Spec => []TypeOK
<1>1. IInv => TypeOK
  BY DEF IInv
<1>. QED
  BY InvHolds, <1>1, PTL

\* However many players invite, join, pass, revoke, leave and go, and whatever
\* addresses are used again: a party and its players know each other, each of
\* them once, as do those it waits for.
THEOREM PartiesAndPlayersAgree == Spec => []PartiesAgree
<1>1. IInv => PartiesAgree
  BY MembershipCounts DEF IInv, PartiesAgree
<1>. QED
  BY InvHolds, <1>1, PTL

\* No channel of a party, not even of one that is gone, keeps a player who has
\* left the game.
THEOREM ChannelsHoldPlayersInTheGame == Spec => []UsersAreOnline
<1>1. IInv => UsersAreOnline
  BY DEF IInv
<1>. QED
  BY InvHolds, <1>1, PTL

\* The flag is what an examination of the party would give, unless only time or
\* a loss of levels is in between.
THEOREM TheFlagIsCurrent == Spec => []SharedIsCurrent
<1>1. IInv => SharedIsCurrent
  BY DEF IInv
<1>. QED
  BY InvHolds, <1>1, PTL

\* A party ends only when its one player leaves, or when a player leaves or is
\* no longer invited and one at most remains of all whom it has or waits for.
THEOREM NoPartyEndsWithOthers == Spec => EndsWhenAlone
<1>1. ASSUME IInv, [Next]_vars
      PROVE  \A a \in Live \ Live' :
                \E p \in Player :
                    \/ /\ Leave(p) \/ Logout(p)
                       /\ Players(party[a]) = {p} \/ Cardinality(Others(party[a], p)) <= 1
                    \/ /\ \E l \in Player : Revoke(l, p)
                       /\ Cardinality(Others(party[a], p)) <= 1
  BY <1>1, NextKeepsInv DEF EndedBy, Alone, OneOther
<1>. QED
  BY InvHolds, <1>1, PTL DEF Spec, EndsWhenAlone
=============================================================================
