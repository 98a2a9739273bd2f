----------------------------- MODULE Dispatcher -----------------------------
(***************************************************************************)
(* The dispatcher (dispatcher.cpp): the one thread that runs game code,    *)
(* the list of tasks it serves, and Dispatcher::shutdown, which runs what  *)
(* is left of the list while it holds m_taskLock.                          *)
(*                                                                         *)
(* A critical section under m_taskLock is one step, except the one of      *)
(* shutdown(), which spans the tasks it flushes: taskLock says it is held. *)
(* The notification that follows a critical section is a step of its own.  *)
(*                                                                         *)
(* dpc, where the dispatcher thread is:                                    *)
(*   take        about to lock and look at the list                        *)
(*   wait        in m_taskSignal.wait     woken   notified, about to lock  *)
(*   start       holds a task taken from the list                          *)
(*   body        inside the task          flush   in flush()               *)
(*   selfLocked  locking m_taskLock, which it holds, for ever              *)
(*   exited      past exit(-1) of Game::shutdown                           *)
(***************************************************************************)
EXTENDS Tasks, Sequences

VARIABLES
    taskList,   \* Dispatcher::m_taskList
    dispState,  \* Dispatcher::m_threadState
    taskLock,   \* m_taskLock: "free", or "held" by the dispatcher thread in shutdown()
    dpc,
    running     \* the task the dispatcher thread works on

dispVars == <<taskList, dispState, taskLock, dpc, running>>

ThreadState == {"running", "closing", "terminated"}

\* Mutant (MCTaskEngine.cfg): a task left in the list it was taken from.
TakeTaskNoPop ==
    /\ dpc \in {"take", "woken"} /\ taskList # <<>>
    /\ dispState # "terminated"
    /\ running' = Head(taskList)
    /\ dpc' = "start"
    /\ UNCHANGED <<heapVars, taskList, dispState, taskLock>>

\* The critical section of addTask: a task that comes too late is dropped.
Enqueue(t, front) ==
    taskList' = IF dispState # "running" THEN taskList
                ELSE IF front THEN <<t>> \o taskList
                ELSE Append(taskList, t)

MustSignal == dispState = "running" /\ taskList = <<>>

NotifyDispatcher == dpc' = IF dpc = "wait" THEN "woken" ELSE dpc

WaitForTask ==
    /\ dpc = "take" /\ taskList = <<>>
    /\ dpc' = "wait"
    /\ UNCHANGED <<heapVars, taskList, dispState, taskLock, running>>

\* Woken for a list another wake-up has already emptied: round the loop.
WokenForNothing ==
    /\ dpc = "woken" /\ taskList = <<>>
    /\ dpc' = "take"
    /\ UNCHANGED <<heapVars, taskList, dispState, taskLock, running>>

TakeTask ==
    /\ dpc \in {"take", "woken"} /\ taskList # <<>>
    /\ dispState # "terminated"
    /\ running' = Head(taskList)
    /\ taskList' = Tail(taskList)
    /\ dpc' = "start"
    /\ UNCHANGED <<heapVars, dispState, taskLock>>

SkipExpired ==
    /\ dpc = "start" /\ HasExpired(running)
    /\ Delete(running)
    /\ running' = NoTask
    /\ dpc' = "take"
    /\ UNCHANGED <<taskList, dispState, taskLock>>

RunTask ==
    /\ dpc = "start" /\ ~HasExpired(running)
    /\ dpc' = "body"
    /\ UNCHANGED <<heapVars, taskList, dispState, taskLock, running>>

FinishTask ==
    /\ dpc = "body"
    /\ Delete(running)
    /\ running' = NoTask
    /\ dpc' = IF taskLock = "held" THEN "flush" ELSE "take"
    /\ UNCHANGED <<taskList, dispState, taskLock>>

StopDispatcher ==
    /\ dispState' = "closing"
    /\ UNCHANGED <<heapVars, taskList, taskLock, dpc, running>>

\* Dispatcher::shutdown up to flush().  The object of the task that calls it
\* is never deleted: its function ends in exit(-1).
ShutdownDispatcher ==
    /\ dispState' = "terminated"
    /\ taskLock' = "held"
    /\ dpc' = "flush"
    /\ running' = NoTask
    /\ UNCHANGED <<heapVars, taskList>>

FlushTask ==
    /\ dpc = "flush" /\ taskList # <<>>
    /\ running' = Head(taskList)
    /\ taskList' = Tail(taskList)
    /\ dpc' = "body"
    /\ UNCHANGED <<heapVars, dispState, taskLock>>

FlushEnd ==
    /\ dpc = "flush" /\ taskList = <<>>
    /\ taskLock' = "free"
    /\ dpc' = "exited"
    /\ UNCHANGED <<heapVars, taskList, dispState, running>>

\* The dispatcher thread, inside a flushed task, calls something that locks
\* m_taskLock: a boost::mutex is not recursive.
SelfLock ==
    /\ dpc = "body" /\ taskLock = "held"
    /\ dpc' = "selfLocked"
    /\ UNCHANGED <<heapVars, taskList, dispState, taskLock, running>>

DispInit ==
    /\ taskList = <<>>
    /\ dispState = "running"
    /\ taskLock = "free"
    /\ dpc = "take"
    /\ running = NoTask

DispTypeOK ==
    /\ taskList \in Seq(Task)
    /\ dispState \in ThreadState
    /\ taskLock \in {"free", "held"}
    /\ dpc \in {"take", "wait", "woken", "start", "body", "flush", "selfLocked", "exited"}
    /\ running \in IF dpc \in {"start", "body", "selfLocked"} THEN Task ELSE {NoTask}
=============================================================================
