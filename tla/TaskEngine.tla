----------------------------- MODULE TaskEngine -----------------------------
(***************************************************************************)
(* The server's task engine: the scheduler thread, the dispatcher thread   *)
(* with the game code its tasks run, and the other threads that post to    *)
(* them (the network service and the signal handler), down to the shutdown *)
(* of the whole (Game::setGameState, Game::shutdown).                      *)
(*                                                                         *)
(* An ordinary task makes up to MaxCalls calls of addEvent, stopEvent and  *)
(* addTask, in any order, and returns.  The three shutdown tasks have an   *)
(* object each: of any of them at most one is posted at a time.            *)
(***************************************************************************)
EXTENDS Scheduler

CONSTANTS
    SaveAndStop,   \* the task of SIGQUIT: setGameState(GAMESTATE_SHUTDOWN)
    Final,         \* the task it posts in turn: Game::shutdown
    Terminate,     \* the task of SIGTERM: Game::shutdown at once
    Signals,       \* the signals the process may receive
    MaxCalls,      \* bound: calls an ordinary task makes
    Spurious       \* whether condition variables wake up unasked

ASSUME EngineAssumption ==
    /\ {SaveAndStop, Final, Terminate} \subseteq Task
    /\ SaveAndStop # Final /\ SaveAndStop # Terminate /\ Final # Terminate
    /\ Signals \subseteq {"SIGQUIT", "SIGTERM"}
    /\ MaxCalls \in Nat
    /\ Spurious \in BOOLEAN

VARIABLES
    phase,      \* how far the running task has come
    calls,      \* calls it has made
    gameState,  \* Game::gameState
    callPc,     \* for each calling thread, where it is inside addEvent/addTask
    callTask    \* and the task it passed

gameVars == <<phase, calls, gameState>>
callVars == <<callPc, callTask>>
vars == <<heapVars, dispVars, schedVars, gameVars, callVars>>

Terminators == {Final, Terminate}
Ordinary == Task \ {SaveAndStop, Final, Terminate}
Caller == {"game", "net"}   \* the dispatcher thread, and the other threads
SignalTask(s) == IF s = "SIGQUIT" THEN SaveAndStop ELSE Terminate

Alive == spc # "crashed" /\ dpc # "exited"

-----------------------------------------------------------------------------
(* What callers do. *)

\* The game calls from inside a task, one call after the other; the other
\* threads call whenever they like.
MayCall(c) ==
    /\ callPc[c] = "none"
    /\ c = "game" => dpc = "body" /\ phase = "calls" /\ calls < MaxCalls

CountCall(c) ==
    /\ calls' = IF c = "game" THEN calls + 1 ELSE calls
    /\ UNCHANGED <<phase, gameState>>

\* Date 0: the caller was held up past the event's date before it got the lock.
CallAddEvent(c) ==
    /\ MayCall(c)
    /\ \E t \in Ordinary, l \in 0 .. MaxDelay :
          /\ AddEvent(t, l)
          /\ callTask' = [callTask EXCEPT ![c] = t]
          /\ callPc' = [callPc EXCEPT ![c] =
                IF schedState = "running" /\ BecomesTop(l) THEN "notifyEvent"
                                                           ELSE "return"]
    /\ CountCall(c)
    /\ UNCHANGED dispVars

CallNotifyEvent(c) ==
    /\ callPc[c] = "notifyEvent"
    /\ NotifyScheduler
    /\ callPc' = [callPc EXCEPT ![c] = "return"]
    /\ UNCHANGED <<heapVars, dispVars, eventList, eventIds, lastEvent,
                   schedState, popped, deadline, handles, cancelled,
                   collided, gameVars, callTask>>

\* addEvent ends with return task->getEventId(); the caller keeps the id or not.
CallReturn(c) ==
    /\ callPc[c] = "return"
    /\ \E keep \in BOOLEAN :
          handles' = IF c = "game" /\ keep
                     THEN handles \cup ({eventId[callTask[c]]} \ {0})
                     ELSE handles
    /\ callPc' = [callPc EXCEPT ![c] = "none"]
    /\ callTask' = [callTask EXCEPT ![c] = NoTask]
    /\ UNCHANGED <<heapVars, dispVars, eventList, eventIds, lastEvent,
                   schedState, spc, popped, deadline, cancelled,
                   collided, gameVars>>

CallStopEvent ==
    /\ MayCall("game")
    /\ \E id \in handles : StopEvent(id)
    /\ CountCall("game")
    /\ UNCHANGED <<dispVars, callVars>>

\* addTask with a new task, with or without a date, at either end.
Post(t, l, front) ==
    /\ taskLock = "free"
    /\ New(t, l, 0)
    /\ Enqueue(t, front)
    /\ cancelled' = cancelled \ {t}
    /\ UNCHANGED <<dispState, taskLock, dpc, running, eventList, eventIds,
                   lastEvent, schedState, spc, popped, deadline,
                   handles, collided>>

PostPc(c) == [callPc EXCEPT ![c] = IF c = "net" /\ MustSignal
                                   THEN "notifyTask" ELSE "none"]

CallAddTask(c) ==
    /\ MayCall(c)
    /\ \E t \in Ordinary, l \in {NoDate} \cup 0 .. MaxDelay, front \in BOOLEAN :
          Post(t, l, front)
    /\ callPc' = PostPc(c)
    /\ CountCall(c)
    /\ UNCHANGED callTask

SignalArrives(s) ==
    /\ callPc["net"] = "none"
    /\ Post(SignalTask(s), NoDate, FALSE)
    /\ callPc' = PostPc("net")
    /\ UNCHANGED <<gameVars, callTask>>

CallNotifyTask ==
    /\ callPc["net"] = "notifyTask"
    /\ NotifyDispatcher
    /\ callPc' = [callPc EXCEPT !["net"] = "none"]
    /\ UNCHANGED <<heapVars, taskList, dispState, taskLock, running, schedVars,
                   gameVars, callTask>>

-----------------------------------------------------------------------------
(* What the dispatcher thread does inside a task. *)

EnterBody(t) ==
    /\ phase' = IF t \in Terminators THEN "stopScheduler"
                ELSE IF t = SaveAndStop /\ gameState = "shutdown" THEN "done"
                ELSE "calls"
    /\ gameState' = IF t = SaveAndStop THEN "shutdown" ELSE gameState
    /\ calls' = 0

BodyRun == RunTask /\ EnterBody(running) /\ UNCHANGED <<schedVars, callVars>>
BodyFlush == FlushTask /\ EnterBody(Head(taskList)) /\ UNCHANGED <<schedVars, callVars>>

InPhase(T, p) ==
    dpc = "body" /\ running \in T /\ phase = p /\ callPc["game"] = "none"
GoTo(p) == phase' = p /\ UNCHANGED <<calls, gameState, callVars>>

\* Mutant: setGameState that does not post Game::shutdown.
ShutdownNoPost ==
    /\ InPhase({SaveAndStop}, "calls") /\ taskLock = "free"
    /\ GoTo("closeScheduler")
    /\ UNCHANGED <<heapVars, dispVars, schedVars>>

\* setGameState(GAMESTATE_SHUTDOWN): the players are kicked and saved (calls),
\* Game::shutdown is posted, then both threads are told to accept no more.
ShutdownPost ==
    /\ InPhase({SaveAndStop}, "calls")
    /\ Post(Final, NoDate, FALSE)
    /\ GoTo("closeScheduler")

ShutdownStopScheduler ==
    /\ InPhase({SaveAndStop}, "closeScheduler")
    /\ StopScheduler
    /\ GoTo("closeDispatcher")
    /\ UNCHANGED dispVars

ShutdownStopDispatcher ==
    /\ InPhase({SaveAndStop}, "closeDispatcher")
    /\ StopDispatcher
    /\ GoTo("done")
    /\ UNCHANGED schedVars

\* Game::shutdown.
TerminateScheduler ==
    /\ InPhase(Terminators, "stopScheduler")
    /\ ShutdownScheduler
    /\ GoTo("stopDispatcher")
    /\ UNCHANGED dispVars

TerminateDispatcher ==
    /\ InPhase(Terminators, "stopDispatcher") /\ taskLock = "free"
    /\ ShutdownDispatcher
    /\ GoTo("done")
    /\ UNCHANGED schedVars

BodyEnd ==
    /\ FinishTask
    /\ callPc["game"] = "none"
    /\ \/ running \in Ordinary
       \/ running = SaveAndStop /\ phase = "done"
    /\ phase' = "done" /\ calls' = 0
    /\ UNCHANGED <<schedVars, gameState, callVars>>

\* A flushed task that posts a task, or the second of two shutdowns, needs
\* the lock the dispatcher thread holds.
NeedsTaskLock == MayCall("game") \/ InPhase({SaveAndStop}, "calls")
                                \/ InPhase(Terminators, "stopDispatcher")

FlushedTaskLocks ==
    /\ NeedsTaskLock /\ SelfLock
    /\ UNCHANGED <<schedVars, gameVars, callVars>>

-----------------------------------------------------------------------------
(* The scheduler and dispatcher threads, the clock, the whole. *)

\* A tick of the clock.  It waits for an event that is MaxLate overdue.
Tick ==
    /\ \A t \in eventList : left[t] > -MaxLate
    /\ left' = [t \in Task |-> IF t \in live THEN Sooner(left[t]) ELSE left[t]]
    /\ deadline' = IF deadline = 0 THEN 0 ELSE Sooner(deadline)
    /\ UNCHANGED <<live, eventId, dispVars, eventList, eventIds, lastEvent,
                   schedState, spc, popped, handles, cancelled,
                   collided, gameVars, callVars>>

SpuriousWake ==
    /\ Spurious
    /\ \/ spc \in {"wait", "timedWait"} /\ NotifyScheduler /\ UNCHANGED dpc
       \/ dpc = "wait" /\ NotifyDispatcher /\ UNCHANGED spc
    /\ UNCHANGED <<heapVars, taskList, dispState, taskLock, running, eventList,
                   eventIds, lastEvent, schedState, popped, deadline,
                   handles, cancelled, collided, gameVars, callVars>>

\* The game no longer refers to an event: it ran, or its owner is gone.
ForgetHandle ==
    /\ \E id \in handles : handles' = handles \ {id}
    /\ UNCHANGED <<heapVars, dispVars, eventList, eventIds, lastEvent,
                   schedState, spc, popped, deadline, cancelled,
                   collided, gameVars, callVars>>

SchedulerNotifies ==
    /\ spc = "notify" /\ spc' = "loop"
    /\ NotifyDispatcher
    /\ UNCHANGED <<heapVars, taskList, dispState, taskLock, running, eventList,
                   eventIds, lastEvent, schedState, popped, deadline,
                   handles, cancelled, collided, gameVars, callVars>>

SchedulerWaits == (EnterWait \/ EnterTimedWait \/ GoRound \/ PopEvent \/ PopNothing)
                  /\ UNCHANGED <<dispVars, gameVars, callVars>>

SchedulerHandsOver == HandOver /\ UNCHANGED <<gameVars, callVars>>

SchedulerDeletes == DeleteStopped /\ UNCHANGED <<dispVars, gameVars, callVars>>

SchedulerThread ==
    SchedulerWaits \/ SchedulerHandsOver \/ SchedulerDeletes \/ SchedulerNotifies

DispatcherLoop == (WaitForTask \/ WokenForNothing \/ TakeTask \/ SkipExpired \/ FlushEnd)
                  /\ UNCHANGED <<schedVars, gameVars, callVars>>

ShutdownStep ==
    \/ ShutdownPost \/ ShutdownStopScheduler \/ ShutdownStopDispatcher
    \/ TerminateScheduler \/ TerminateDispatcher

\* What the dispatcher thread does without being asked; its calls apart.
DispatcherThread ==
    DispatcherLoop \/ BodyRun \/ BodyFlush \/ BodyEnd \/ ShutdownStep \/ FlushedTaskLocks

\* A call that has begun.
CallGoesOn(c) == CallNotifyEvent(c) \/ CallReturn(c)

Next ==
    \/ /\ Alive
       /\ \/ SchedulerThread
          \/ DispatcherThread
          \/ \E c \in Caller : CallAddEvent(c) \/ CallAddTask(c) \/ CallGoesOn(c)
          \/ CallStopEvent \/ ForgetHandle \/ CallNotifyTask
          \/ \E s \in Signals : SignalArrives(s)
          \/ Tick \/ SpuriousWake
    \/ ~Alive /\ UNCHANGED vars

Init ==
    /\ HeapInit /\ DispInit /\ SchedInit
    /\ phase = "done" /\ calls = 0 /\ gameState = "normal"
    /\ callPc = [c \in Caller |-> "none"]
    /\ callTask = [c \in Caller |-> NoTask]

Spec == Init /\ [][Next]_vars

\* The operating system runs both threads and lets a call that has begun
\* return; time passes.  Nothing makes anyone begin a call.
Fairness ==
    /\ WF_vars(Alive /\ SchedulerThread)
    /\ WF_vars(Alive /\ DispatcherThread)
    /\ \A c \in Caller : WF_vars(Alive /\ CallGoesOn(c))
    /\ WF_vars(Alive /\ CallNotifyTask)
    /\ WF_vars(Alive /\ Tick)

FairSpec == Spec /\ Fairness

-----------------------------------------------------------------------------
(* Properties. *)

TypeOK ==
    /\ HeapTypeOK /\ DispTypeOK /\ SchedTypeOK
    /\ phase \in {"calls", "closeScheduler", "closeDispatcher",
                  "stopScheduler", "stopDispatcher", "done"}
    /\ calls \in 0 .. MaxCalls
    /\ gameState \in {"normal", "shutdown"}
    /\ callPc \in [Caller -> {"none", "notifyEvent", "return", "notifyTask"}]
    /\ callTask \in [Caller -> Task \cup {NoTask}]
    /\ \A c \in Caller :
          callTask[c] # NoTask <=> callPc[c] \in {"notifyEvent", "return"}

Listed == {taskList[i] : i \in 1 .. Len(taskList)}

NoRepeats == \A i, j \in 1 .. Len(taskList) : taskList[i] = taskList[j] => i = j

\* Every task object has one owner at most: the event queue, the scheduler
\* thread, one place in the dispatcher's list, or the dispatcher thread.  So
\* none is deleted twice, nor run after it was deleted.
OneOwner ==
    /\ eventList \cup Listed \subseteq live
    /\ eventList \cap Listed = {}
    /\ popped # NoTask => popped \in live \ (eventList \cup Listed)
    /\ running # NoTask => running \in live \ (eventList \cup Listed \cup {popped})
    /\ NoRepeats

\* An event for which stopEvent has returned true is never handed to the
\* dispatcher, whichever thread was in the middle of what (Player and Creature
\* stop their walk and action events and count on it).  It takes ids that are
\* not reused while they still mean something.
StoppedEventNeverRuns ==
    ~collided => /\ cancelled \cap (Listed \cup {running}) = {}
                 /\ spc = "handOver" => popped \notin cancelled

\* stopEvent tells the truth: among the queued events, the active ids are
\* those of the events nobody stopped, each of one event.
ActiveIdsAreExact ==
    ~collided => /\ eventIds = {eventId[t] : t \in eventList \ cancelled}
                 /\ \A t, u \in eventList : eventId[t] = eventId[u] => t = u

\* addEvent reads the id of its task after it has unlocked.  When the caller
\* is the dispatcher thread the object is still there.
ReturnedIdIsRead ==
    (~collided /\ callPc["game"] \in {"notifyEvent", "return"})
        => callTask["game"] \in live

\* An event the scheduler has handed over has no expiration left, however
\* long the list before it: the dispatcher cannot drop it.
HandedEventsNeverExpire ==
    \A t \in Listed \cup ({running} \ {NoTask}) : eventId[t] # 0 => left[t] = NoDate

\* A dispatcher that accepts no more tasks and has not been shut down yet has
\* one that ends the process, in its list or in hand: setGameState posts
\* Game::shutdown before it closes the lists, and nothing the other threads do
\* in between, nor what they posted before, makes that task be refused, expire
\* or be dropped.  Else the server would run on, closed to every order to end.
ClosedHasItsEnd ==
    dispState = "closing" => (Listed \cup {running}) \cap Terminators # {}

Stuck == ~Alive \/ dpc = "selfLocked"

\* Every queued event is popped: no wake-up of the scheduler thread is lost.
EventsArePopped == \A t \in Ordinary : t \in eventList ~> t \notin eventList \/ Stuck

\* The dispatcher thread does not sleep on a task: no wake-up is lost.
NoSleepOnWork == (dpc = "wait" /\ taskList # <<>>) ~> (dpc # "wait" \/ Stuck)

\* Neither of the two threads that wait for a signal sleeps on work: the two above.
NoWakeUpIsLost == EventsArePopped /\ NoSleepOnWork

\* A shutdown that has begun ends the process, unless a task it flushed
\* posted another (then the dispatcher thread waits for itself).
ShutdownEnds == gameState = "shutdown" ~> Stuck

\* otserv.cpp:293: SIGTERM is "shutdown": the process ends.
SigtermEnds == (running = Terminate) ~> ~Alive
=============================================================================
