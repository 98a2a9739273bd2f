------------------------------ MODULE MCScripts ------------------------------
(* Scripts with small constants for TLC. *)
EXTENDS Scripts, TLC

CONSTANTS i1, i2, i3

MCItem == {i1, i2, i3}

Kind == [time |-> 0, to |-> None, stop |-> FALSE, class |-> "thing", top |-> FALSE,
         box |-> FALSE, equip |-> None, deEquip |-> None]

\* A lamp that is lit and put out, a body that turns to dust, an altar; a candle and
\* a lich that keep their mark when their time is over.
MCTypes ==
    [lamp |-> [Kind EXCEPT !.stop = TRUE, !.equip = "lit"],
     lit |-> [Kind EXCEPT !.time = 4, !.to = "dust", !.deEquip = "lamp"],
     body |-> [Kind EXCEPT !.time = 3, !.to = "dust", !.class = "box", !.box = TRUE],
     dust |-> [Kind EXCEPT !.time = 1, !.to = Gone],
     candle |-> [Kind EXCEPT !.time = 2, !.to = "stub", !.deEquip = "stub"],
     stub |-> [Kind EXCEPT !.stop = TRUE, !.equip = "candle"],
     lich |-> [Kind EXCEPT !.time = 2, !.to = "remains", !.class = "box", !.box = TRUE],
     remains |-> [Kind EXCEPT !.to = Gone, !.class = "box", !.box = TRUE],
     altar |-> [Kind EXCEPT !.top = TRUE]]

MCChanges == {<<"lamp", "lit">>, <<"lit", "lamp">>, <<"dust", "altar">>}

Scene(ts, m, d, n) == [types |-> ts, items |-> m, depth |-> d, timers |-> n]

\* Lamps; bodies; what scripts make; what keeps its mark; timed calls.
MCScenes == {Scene({"lamp", "lit"}, 2, 1, 0), Scene({"body", "lit"}, 2, 0, 0),
             Scene({"body", "dust"}, 2, 2, 0), Scene({"candle", "lich"}, 2, 0, 0), Scene({}, 0, 2, 3)}
=============================================================================
