------------------------------- MODULE Scripts -------------------------------
(***************************************************************************)
(* The Lua interface (luascript.h, luascript.cpp): the stack of            *)
(* environments that scripts run in, the items a script makes before they  *)
(* have a place (doCreateItemEx), and timed calls (addEvent, stopEvent);   *)
(* with the items that tasks and scripts move, change and remove, and the  *)
(* passes that make them decay and give them back.                         *)
(*                                                                         *)
(* A script runs inside a task of the dispatcher thread: while one runs,   *)
(* no pass does.  A call into the game may run another script inside it.   *)
(***************************************************************************)
EXTENDS Items, Functions

CONSTANTS
    Scenes,     \* bound: the types an execution makes, how many items at a time, how many
                \* scripts within scripts (the code allows 21), and its timed calls
    Changes     \* bound: the types a script turns an item into

ASSUME ScriptsAssumption ==
    /\ Scenes \subseteq [types : SUBSET Type, items : 0 .. Cardinality(Item), depth : Nat, timers : Nat]
    /\ Changes \subseteq Type \X Type

VARIABLES
    env,        \* the environments in use, by what runs: a timer's id or 0
    temp,       \* m_tempItems, of all environments
    known,      \* m_localMap: for each item the environment that made it and has its uid, or 0
    timers,     \* m_timerEvents: the ids of the timed calls
    lastTimer,  \* m_lastTimer
    events,     \* external: how many of a timer's events the scheduler has, or has handed over
    strayed,    \* history: an item got a place after a script inside its maker's had freed it
    erased      \* executeTimer went on with an entry that its call had erased

scriptVars == <<env, temp, known, timers, lastTimer, events, strayed, erased>>
vars == <<store, scene, scriptVars>>

Timer == UNION {1 .. s.timers : s \in Scenes}
depth == Len(env)

-----------------------------------------------------------------------------
(* Environments. *)

\* reserveEnv, and the script begins.  An event of the game calls it, from the
\* loop or from inside what another script does.
Begins ==
    /\ depth < scene.depth
    /\ env' = Append(env, 0)
    /\ UNCHANGED <<store, scene, temp, known, timers, lastTimer, events, strayed, erased>>

\* reset frees the items that have no place yet, of all environments.
FreeTemps(w) ==
    [w EXCEPT !.item = [i \in Item |->
        IF i \in temp /\ w.item[i].parent = "void" THEN [w.item[i] EXCEPT !.freed = @ + 1] ELSE w.item[i]]]

\* releaseEnv; after a timed call its entry is erased.
Ends ==
    /\ depth > 0
    /\ Becomes(FreeTemps(Now))
    /\ temp' = {}
    /\ known' = [i \in Item |-> IF known[i] = depth THEN 0 ELSE known[i]]
    /\ env' = SubSeq(env, 1, depth - 1)
    /\ timers' = timers \ {env[depth]}
    /\ erased' = (env[depth] # 0 /\ env[depth] \notin timers)
    /\ UNCHANGED <<lastTimer, events, strayed>>

\* doCreateItemEx.
CreatesItem(t) ==
    LET i == Fresh(store)
    IN  /\ depth > 0 /\ t \in scene.types /\ MayCreate
        /\ Becomes(Create(Now, i, t, "void"))
        /\ temp' = temp \cup {i}
        /\ known' = [known EXCEPT ![i] = depth]
        /\ UNCHANGED <<env, timers, lastTimer, events, strayed, erased>>

\* doTileAddItemEx, doPlayerAddItemEx, doAddContainerItemEx: the item has a place.
\* removeTempItem looks for it in a copy of the list, and leaves it there.
AddsItem(i, p) ==
    /\ depth > 0 /\ store.item[i].parent = "void" /\ known[i] = depth
    /\ p \in Place(store, i)
    /\ Becomes([Now EXCEPT !.item[i].parent = p])
    /\ strayed' = (strayed \/ store.item[i].freed > 0)
    /\ UNCHANGED <<env, temp, known, timers, lastTimer, events, erased>>

\* What the script that runs can reach: what is in a place, and what it made.
Reaches(i) == InGame(store, i) /\ \A j \in Holders(store, i) : store.item[j].parent = "void" => known[j] = depth

\* doTransformItem, doDecayItem.
Transforms(i, t) == depth > 0 /\ Reaches(i) /\ Becomes(Transform(Now, i, t).store) /\ UNCHANGED scriptVars
StartsDecay(i) == depth > 0 /\ Reaches(i) /\ Becomes(StartDecay(Now, i)) /\ UNCHANGED scriptVars

-----------------------------------------------------------------------------
(* Timed calls. *)

\* Mutant: the id of a timer that is no more.
FreeTimer == CHOOSE e \in 1 .. lastTimer + 1 : e \notin timers /\ \A d \in 1 .. e - 1 : d \in timers

NextTimer == lastTimer + 1

\* addEvent.
AddEvent ==
    /\ depth > 0 /\ NextTimer <= scene.timers
    /\ lastTimer' = NextTimer
    /\ timers' = timers \cup {lastTimer'}
    /\ events' = [events EXCEPT ![lastTimer'].queued = @ + 1]
    /\ UNCHANGED <<store, scene, env, temp, known, strayed, erased>>

\* stopEvent.
StopEvent(e) ==
    /\ depth > 0 /\ e \in timers
    /\ timers' = timers \ {e}
    /\ events' = [events EXCEPT ![e].queued = 0]
    /\ UNCHANGED <<store, scene, env, temp, known, lastTimer, strayed, erased>>

\* The scheduler's thread hands the event over, at any time.
HandsOver(e) ==
    /\ events[e].queued > 0
    /\ events' = [events EXCEPT ![e].queued = @ - 1, ![e].posted = @ + 1]
    /\ UNCHANGED <<store, scene, env, temp, known, timers, lastTimer, strayed, erased>>

\* executeTimer runs what is still in the table.
ExecuteTimer(e) ==
    /\ depth = 0 /\ events[e].posted > 0
    /\ events' = [events EXCEPT ![e].posted = @ - 1]
    /\ env' = IF e \in timers THEN <<e>> ELSE env
    /\ UNCHANGED <<store, scene, temp, known, timers, lastTimer, strayed, erased>>

\* reInitState: no timer is left, and their events will find none.
Reload ==
    /\ depth = 0 /\ timers # {}
    /\ timers' = {}
    /\ UNCHANGED <<store, scene, env, temp, known, lastTimer, events, strayed, erased>>

-----------------------------------------------------------------------------

Init ==
    /\ ItemsInit /\ scene \in Scenes
    /\ env = <<>> /\ temp = {} /\ known = [i \in Item |-> 0]
    /\ timers = {} /\ lastTimer = 0 /\ events = [e \in Timer |-> [queued |-> 0, posted |-> 0]]
    /\ strayed = FALSE /\ erased = FALSE

\* What tasks do to items, through a script or not.
ItemStep ==
    \E i \in Item :
        \/ \E t \in Type : Appears(t, "floor") \/ Appears(t, i) \/ Equips(i, t) \/ DeEquips(i, t)
        \/ \E p \in {"floor"} \cup Item : Moves(i, p)
        \/ Removes(i)

\* What only scripts do.
ScriptStep ==
    \E i \in Item :
        \/ \E t \in Type : \/ CreatesItem(t)
                           \/ <<store.item[i].type, t>> \in Changes /\ Transforms(i, t)
        \/ \E p \in {"floor"} \cup Item : AddsItem(i, p)
        \/ StartsDecay(i)

TimerStep == \/ AddEvent \/ Reload
             \/ \E e \in Timer : StopEvent(e) \/ HandsOver(e) \/ ExecuteTimer(e)

\* Bound: an execution ends where an object that was deleted is used, or will be.
Next ==
    /\ ~store.torn /\ ~erased /\ ~strayed
    /\ \/ Begins \/ Ends
       \/ ScriptStep
       \/ depth = 0 /\ (ItemStep \/ CheckDecay \/ CheckCreatures) /\ UNCHANGED scriptVars
       \/ TimerStep

Spec == Init /\ [][Next]_vars

-----------------------------------------------------------------------------
(* Properties. *)

\* An item's count is that of the references to it: of the cylinder it is in, or
\* the script that made it; of its entries in the lists of those that decay; and
\* those to be given up.  So nobody's item is deleted, and none that nobody has
\* is kept, whatever decays, is replaced, or is thrown away with the container it
\* is in.  It may fail after a script inside another freed what that one had made.
ItemsAreCounted ==
    ~strayed =>
        /\ ~store.torn
        /\ \A i \in Item :
              /\ store.item[i].refs = B(store.item[i].parent \notin {None, "void"})
                                      + B(i \in temp /\ store.item[i].parent = "void")
                                      + Cardinality(Entries(store, i)) + store.item[i].freed
              /\ Exists(store, i) <=> store.item[i].refs > 0
              /\ store.item[i].parent \in Item => Exists(store, store.item[i].parent)

\* What setID leaves of an item that decayed into a type that keeps its mark, if
\* there is one (the candelabrum 2041 and the lich 8274 of items.xml): no time.
Stuck(q) ==
    /\ q.dur \in {0, None}
    /\ Types[q.type].time > 0 \/ KeepsMark(q.type)
    /\ \E t \in Type : Types[t].to \in Type /\ KeepsMark(Types[t].to)

\* An item in the game that is marked as decaying is in a list: else it would
\* stay for ever, since startDecay passes over what is marked.  Only one whose
\* time is over is left marked, when a type of the table decays into one that
\* keeps the mark; nothing that has time left is, whatever it becomes.
MarkedAreListed ==
    \A i \in Item : InGame(store, i) /\ store.item[i].marked /\ store.item[i].parent # "void" =>
        Listed(store, i) \/ Stuck(store.item[i])

\* Whatever buckets it goes through, an item decays with the pass its time says,
\* or one of the next two, and not before.
OnTime == store.ends \subseteq {-2, -1, 0}

\* A timed call in the table has one event to come, or is running: a call that
\* was stopped or lost in a reload is not made by the event it leaves behind, nor
\* does that event make another's.
TimersAreDue ==
    \A e \in Timer :
        /\ events[e].queued + events[e].posted + B(e \in Range(env)) <= 1
        /\ e \in timers => events[e].queued + events[e].posted + B(e \in Range(env)) = 1
=============================================================================
