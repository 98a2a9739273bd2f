----------------------------- MODULE Scheduler -----------------------------
(***************************************************************************)
(* The scheduler (scheduler.cpp): the queue of delayed events, the ids of  *)
(* those nobody stopped, the calls addEvent and stopEvent, and the thread  *)
(* that hands each event, when its time comes, to the dispatcher.          *)
(*                                                                         *)
(* A critical section under m_eventLock is one step.  addEvent notifies    *)
(* the thread after it has unlocked, in a later step of its caller.        *)
(*                                                                         *)
(* spc, where the scheduler thread is:                                     *)
(*   loop        about to lock and look at the queue                       *)
(*   wait        in m_eventSignal.wait       (waitWoken: notified there)   *)
(*   timedWait   in m_eventSignal.timed_wait (timedWoken: notified there)  *)
(*   handOver    holds an event it has popped, and will run it (run)       *)
(*   discard     holds an event it has popped, which was stopped (!run)    *)
(*   notify      has put it in the dispatcher's list, must notify          *)
(*   crashed     has called top() and pop() on an empty queue              *)
(***************************************************************************)
EXTENDS Dispatcher

VARIABLES
    eventList,   \* m_eventList: only the top of the priority queue is read
    eventIds,    \* m_eventIds
    lastEvent,   \* m_lastEvent
    schedState,  \* m_threadState
    spc,
    popped,      \* local variable task of schedulerThread
    deadline,    \* the date timed_wait was given; 0 when it is past
    handles,     \* the event ids game code still holds for a stopEvent
    cancelled,   \* history: events for which stopEvent has returned true
    collided     \* history: an id was reused while it still meant something

schedVars == <<eventList, eventIds, lastEvent, schedState, spc, popped,
               deadline, handles, cancelled, collided>>

\* Mutant: a signal computed as if the new event were still to be pushed.
BecomesTopLate(l) == \E u \in eventList : l < left[u]

NextId == IF lastEvent >= MaxEventId THEN 1 ELSE lastEvent + 1

IsTop(t) == t \in eventList /\ \A u \in eventList : left[t] <= left[u]

\* Whether a date comes before all the queued ones: a heap puts a newcomer
\* below an element of equal date.
BecomesTop(l) == \A u \in eventList : l < left[u]

\* Mutant: addEvent that forgets m_eventIds.insert.
AddEventNoId(t, l) ==
    /\ cancelled' = cancelled \ {t}
    /\ schedState = "running"
    /\ New(t, l, NextId)
    /\ lastEvent' = NextId
    /\ eventList' = eventList \cup {t}
    /\ UNCHANGED <<eventIds, collided, schedState, spc, popped, deadline, handles>>

\* The critical section of addEvent, for a task just created.
AddEvent(t, l) ==
    /\ cancelled' = cancelled \ {t}
    /\ IF schedState = "running"
       THEN /\ New(t, l, NextId)
            /\ lastEvent' = NextId
            /\ eventIds' = eventIds \cup {NextId}
            /\ eventList' = eventList \cup {t}
            /\ collided' = (\/ collided
                            \/ NextId \in handles \cup eventIds
                            \/ \E u \in eventList : eventId[u] = NextId)
       ELSE /\ New(t, l, 0)
            /\ UNCHANGED <<lastEvent, eventIds, eventList, collided>>
    /\ UNCHANGED <<schedState, spc, popped, deadline, handles>>

NotifyScheduler ==
    spc' = CASE spc = "wait"      -> "waitWoken"
             [] spc = "timedWait" -> "timedWoken"
             [] OTHER             -> spc

\* stopEvent, by game code that then forgets the id.
StopEvent(id) ==
    /\ eventIds' = eventIds \ {id}
    /\ handles' = handles \ {id}
    /\ cancelled' = IF id \in eventIds
                    THEN cancelled \cup {t \in eventList : eventId[t] = id}
                    ELSE cancelled
    /\ UNCHANGED <<heapVars, eventList, lastEvent, schedState, spc, popped,
                   deadline, collided>>

EnterWait ==
    /\ spc = "loop" /\ schedState # "terminated" /\ eventList = {}
    /\ spc' = "wait"
    /\ UNCHANGED <<heapVars, eventList, eventIds, lastEvent, schedState,
                   popped, deadline, handles, cancelled, collided>>

EnterTimedWait ==
    /\ spc = "loop" /\ schedState # "terminated"
    /\ \E t \in eventList : IsTop(t) /\ deadline' = IF HasExpired(t) THEN 0 ELSE left[t]
    /\ spc' = "timedWait"
    /\ UNCHANGED <<heapVars, eventList, eventIds, lastEvent, schedState,
                   popped, handles, cancelled, collided>>

\* timed_wait has returned true, or the scheduler was shut down meanwhile.
GoRound ==
    /\ \/ spc = "timedWoken"
       \/ schedState = "terminated" /\ spc = "waitWoken"
       \/ schedState = "terminated" /\ spc = "timedWait" /\ deadline = 0
    /\ spc' = "loop"
    /\ deadline' = NoDate
    /\ UNCHANGED <<heapVars, eventList, eventIds, lastEvent, schedState,
                   popped, handles, cancelled, collided>>

\* The thread holds m_eventLock with ret = false: timed_wait timed out, or
\* wait returned, which leaves ret as it was initialised.
RetFalse ==
    /\ \/ spc = "waitWoken"
       \/ spc \in {"timedWait", "timedWoken"} /\ deadline <= 0
    /\ schedState # "terminated"

\* Mutants: PopEvent that does not look whether the event was stopped, or does
\* not erase its id.
PopEventBlindly ==
    /\ RetFalse
    /\ \E t \in eventList :
          /\ popped' = t
          /\ eventList' = eventList \ {t}
          /\ eventIds' = eventIds \ {eventId[t]}
    /\ spc' = "handOver"
    /\ deadline' = NoDate
    /\ UNCHANGED <<heapVars, lastEvent, schedState, handles, cancelled, collided>>

PopEventKeepsId ==
    /\ RetFalse
    /\ \E t \in eventList :
          /\ popped' = t
          /\ eventList' = eventList \ {t}
          /\ spc' = IF eventId[t] \in eventIds THEN "handOver" ELSE "discard"
    /\ deadline' = NoDate
    /\ UNCHANGED <<heapVars, eventIds, lastEvent, schedState, handles, cancelled, collided>>

PopEvent ==
    /\ RetFalse
    /\ \E t \in eventList :
          /\ IsTop(t)
          /\ popped' = t
          /\ eventList' = eventList \ {t}
          /\ spc' = IF eventId[t] \in eventIds THEN "handOver" ELSE "discard"
          /\ eventIds' = eventIds \ {eventId[t]}
    /\ deadline' = NoDate
    /\ UNCHANGED <<heapVars, lastEvent, schedState, handles, cancelled,
                   collided>>

\* top() and pop() on an empty vector are undefined: the model stops here.
PopNothing ==
    /\ RetFalse /\ eventList = {}
    /\ spc' = "crashed"
    /\ UNCHANGED <<heapVars, eventList, eventIds, lastEvent, schedState,
                   popped, deadline, handles, cancelled, collided>>

\* Mutant: HandOver that leaves the event its expiration.
HandOverWithDate ==
    /\ spc = "handOver" /\ taskLock = "free"
    /\ Enqueue(popped, FALSE)
    /\ spc' = IF MustSignal THEN "notify" ELSE "loop"
    /\ popped' = NoTask
    /\ UNCHANGED <<heapVars, dispState, taskLock, dpc, running, eventList, eventIds,
                   lastEvent, schedState, deadline, handles, cancelled, collided>>

HandOver ==
    /\ spc = "handOver" /\ taskLock = "free"
    /\ UnsetExpiration(popped)
    /\ Enqueue(popped, FALSE)
    /\ spc' = IF MustSignal THEN "notify" ELSE "loop"
    /\ popped' = NoTask
    /\ UNCHANGED <<dispState, taskLock, dpc, running, eventList, eventIds,
                   lastEvent, schedState, deadline, handles, cancelled,
                   collided>>

DeleteStopped ==
    /\ spc = "discard"
    /\ Delete(popped)
    /\ cancelled' = cancelled \ {popped}
    /\ spc' = "loop"
    /\ popped' = NoTask
    /\ UNCHANGED <<eventList, eventIds, lastEvent, schedState,
                   deadline, handles, collided>>

StopScheduler ==
    /\ schedState' = "closing"
    /\ UNCHANGED <<heapVars, eventList, eventIds, lastEvent, spc, popped,
                   deadline, handles, cancelled, collided>>

\* The queued objects are forgotten, not deleted, and nobody is notified.
ShutdownScheduler ==
    /\ schedState' = "terminated"
    /\ eventList' = {}
    /\ eventIds' = {}
    /\ UNCHANGED <<heapVars, lastEvent, spc, popped, deadline,
                   handles, cancelled, collided>>

SchedInit ==
    /\ eventList = {} /\ eventIds = {} /\ lastEvent = 0
    /\ schedState = "running"
    /\ spc = "loop" /\ popped = NoTask
    /\ deadline = NoDate
    /\ handles = {} /\ cancelled = {} /\ collided = FALSE

SchedTypeOK ==
    /\ eventList \in SUBSET Task
    /\ eventIds \in SUBSET EventId
    /\ lastEvent \in {0} \cup EventId
    /\ schedState \in ThreadState
    /\ spc \in {"loop", "wait", "waitWoken", "timedWait", "timedWoken",
                "handOver", "discard", "notify", "crashed"}
    /\ popped \in IF spc \in {"handOver", "discard"} THEN Task ELSE {NoTask}
    /\ deadline \in 0 .. NoDate
    /\ handles \in SUBSET EventId
    /\ cancelled \in SUBSET Task
    /\ collided \in BOOLEAN
=============================================================================
