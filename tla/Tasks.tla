------------------------------- MODULE Tasks -------------------------------
(***************************************************************************)
(* The heap objects the server's threads exchange: Task (dispatcher.h) and *)
(* SchedulerTask (scheduler.h), a closure with an expiration date and, for *)
(* a SchedulerTask, the id of its event.  An address is reused as soon as  *)
(* its object is deleted.  The closures themselves are in TaskEngine.      *)
(*                                                                         *)
(* Dates are kept relative to the present: left[t] is what remains until   *)
(* m_expiration, negative once it has passed, and one Tick of the clock    *)
(* brings every date nearer.                                               *)
(***************************************************************************)
EXTENDS Integers

CONSTANTS
    Task,        \* the addresses at which task objects are allocated
    NoTask,      \* the null pointer
    MaxDelay,    \* bound: the longest delay, in ticks
    MaxLate,     \* bound: how far behind a queued event time may run, in ticks
    MaxEventId   \* the largest event id, 0xFFFFFFFF in the code

ASSUME NoTaskAssumption == NoTask \notin Task
ASSUME BoundAssumption == /\ MaxDelay \in Nat \ {0}
                          /\ MaxLate \in Nat \ {0}
                          /\ MaxEventId \in Nat \ {0}

VARIABLES
    live,     \* the addresses that hold an object not yet deleted
    left,     \* Task::m_expiration
    eventId   \* SchedulerTask::m_eventId, 0 for a task that is no event

heapVars == <<live, left, eventId>>

NoDate == MaxDelay + 1                 \* boost::date_time::not_a_date_time
Date == (-MaxLate) .. NoDate
EventId == 1 .. MaxEventId

HasExpired(t) == left[t] < 0           \* NoDate is positive: it never expires

New(t, l, id) ==
    /\ t \notin live
    /\ live' = live \cup {t}
    /\ left' = [left EXCEPT ![t] = l]
    /\ eventId' = [eventId EXCEPT ![t] = id]

\* What is left at a deleted address is no longer the program's: the model
\* puts it back to its initial value.
Delete(t) ==
    /\ live' = live \ {t}
    /\ left' = [left EXCEPT ![t] = NoDate]
    /\ eventId' = [eventId EXCEPT ![t] = 0]

UnsetExpiration(t) ==
    /\ left' = [left EXCEPT ![t] = NoDate]
    /\ UNCHANGED <<live, eventId>>

Sooner(l) == IF l \in {NoDate, -MaxLate} THEN l ELSE l - 1

HeapInit ==
    /\ live = {}
    /\ left = [t \in Task |-> NoDate]
    /\ eventId = [t \in Task |-> 0]

HeapTypeOK ==
    /\ live \in SUBSET Task
    /\ left \in [Task -> Date]
    /\ eventId \in [Task -> {0} \cup EventId]
=============================================================================
