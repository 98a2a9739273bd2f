------------------------------ MODULE WaitingList ------------------------------
(***************************************************************************)
(* The waiting list of a full server (waitlist.cpp) as functions on the    *)
(* list.  Where a character connects from is not told apart: an entry is   *)
(* known by its name.  Time-outs are only looked at by cleanup: which have *)
(* passed by then is any choice.                                           *)
(***************************************************************************)
EXTENDS Integers, Sequences

CONSTANTS
    MaxPlayers,
    Premium          \* the characters of premium accounts

ASSUME WaitingAssumption == MaxPlayers \in Nat

Elements(list) == {list[i] : i \in 1 .. Len(list)}

Entry(n) == [name |-> n, premium |-> n \in Premium]

\* cleanup, when the entries of the names late have timed out.
Cleaned(list, late) ==
    LET kept[i \in 0 .. Len(list)] ==
            IF i = 0 THEN <<>>
            ELSE IF list[i].name \in late THEN kept[i - 1] ELSE Append(kept[i - 1], list[i])
    IN  kept[Len(list)]

\* find: the slots of a name, of which the first counts.
Slots(list, n) == {i \in 1 .. Len(list) : list[i].name = n}
Slot(list, n) == CHOOSE i \in Slots(list, n) : \A j \in Slots(list, n) : i <= j

Without(list, i) == SubSeq(list, 1, i - 1) \o SubSeq(list, i + 1, Len(list))

\* A premium character is put before the first who is not.
Inserted(list, n) ==
    LET ordinary == {i \in 1 .. Len(list) : ~list[i].premium}
        k == CHOOSE i \in ordinary : \A j \in ordinary : i <= j
    IN  IF n \in Premium /\ ordinary # {}
        THEN SubSeq(list, 1, k - 1) \o <<Entry(n)>> \o SubSeq(list, k, Len(list))
        ELSE Append(list, Entry(n))

\* Mutant: the slot is not counted.
MayEnterUncounted(list, n, online) == online < MaxPlayers

\* The place of one who is in the list, now that the late have been removed.
MayEnter(list, n, online) == online + Slot(list, n) <= MaxPlayers

\* login: the list after it, and whether the character may enter.  One who has
\* to wait longer has his time-out renewed.
AfterLogin(list, late, n, online) ==
    LET now == Cleaned(list, late)
    IN  IF list = <<>> /\ online < MaxPlayers
        THEN [admitted |-> TRUE, list |-> list]
        ELSE IF Slots(now, n) = {}
        THEN [admitted |-> FALSE, list |-> Inserted(now, n)]
        ELSE IF MayEnter(now, n, online)
        THEN [admitted |-> TRUE, list |-> Without(now, Slot(now, n))]
        ELSE [admitted |-> FALSE, list |-> now]
=============================================================================
