-------------------------- MODULE TaskEngineProofs --------------------------
(***************************************************************************)
(* Theorems about the task engine, for any number of tasks, any delays and *)
(* any width of the event ids.                                             *)
(***************************************************************************)
EXTENDS TaskEngine, TLAPS

LEMMA DateFacts ==
    /\ NoDate \in Date /\ NoDate > 0
    /\ 0 .. MaxDelay \subseteq Date
    /\ \A l \in Date : Sooner(l) \in Date
BY BoundAssumption DEF NoDate, Date, Sooner

LEMMA NextIdType == lastEvent \in {0} \cup EventId => NextId \in EventId
BY BoundAssumption DEF NextId, EventId

\* What each operation of the heap does to its type.
LEMMA NewType ==
    ASSUME HeapTypeOK, NEW t \in Task, NEW l \in Date, NEW id \in {0} \cup EventId,
           New(t, l, id)
    PROVE  HeapTypeOK'
BY DEF HeapTypeOK, New

LEMMA DeleteType ==
    ASSUME HeapTypeOK, NEW t \in Task, Delete(t)
    PROVE  HeapTypeOK'
BY DateFacts DEF HeapTypeOK, Delete

LEMMA InitTypeOK == Init => TypeOK
<1> SUFFICES ASSUME Init PROVE TypeOK
  OBVIOUS
<1>1. HeapTypeOK
  BY DateFacts DEF Init, HeapInit, HeapTypeOK
<1>2. DispTypeOK
  BY DEF Init, DispInit, DispTypeOK, ThreadState
<1>3. SchedTypeOK
  <2>1. collided \in BOOLEAN
    BY Zenon DEF Init, SchedInit
  <2> QED BY <2>1, BoundAssumption DEF Init, SchedInit, SchedTypeOK, ThreadState, NoDate
<1>4. calls \in 0 .. MaxCalls
  BY EngineAssumption DEF Init
<1> QED BY <1>1, <1>2, <1>3, <1>4 DEF Init, TypeOK

LEMMA PostType ==
    ASSUME TypeOK, NEW t \in Task, NEW l \in Date, NEW front \in BOOLEAN,
           Post(t, l, front)
    PROVE  HeapTypeOK' /\ DispTypeOK' /\ SchedTypeOK'
<1>1. HeapTypeOK'
  BY NewType DEF TypeOK, Post
<1>2. DispTypeOK'
  BY DEF TypeOK, DispTypeOK, Post, Enqueue
<1>3. SchedTypeOK'
  BY DEF TypeOK, SchedTypeOK, Post
<1> QED BY <1>1, <1>2, <1>3

\* Type correctness of a step, one case per action.
LEMMA StepTypeOK == TypeOK /\ [Next]_vars => TypeOK'
<1> SUFFICES ASSUME TypeOK, [Next]_vars PROVE TypeOK'
  OBVIOUS
<1> USE DEF TypeOK
<1>1. CASE SchedulerWaits
  <2>1. HeapTypeOK' /\ DispTypeOK'
    BY <1>1 DEF SchedulerWaits, EnterWait, EnterTimedWait, GoRound, PopEvent, PopNothing,
        heapVars, dispVars, HeapTypeOK, DispTypeOK
  <2>2. deadline' \in 0 .. NoDate
    <3>1. \A t \in Task : left[t] \in Date
      BY DEF HeapTypeOK
    <3>2. \A t \in Task : (IF HasExpired(t) THEN 0 ELSE left[t]) \in 0 .. NoDate
      BY <3>1, BoundAssumption DEF HasExpired, Date, NoDate
    <3>3. NoDate \in 0 .. NoDate
      BY BoundAssumption DEF NoDate
    <3> QED BY <1>1, <3>2, <3>3 DEF SchedulerWaits, EnterWait, EnterTimedWait, GoRound, PopEvent,
          PopNothing, SchedTypeOK
  <2>3. SchedTypeOK'
    <3>1. CASE PopEvent
      <4>1. PICK t \in eventList : /\ popped' = t
                                   /\ eventList' = eventList \ {t}
                                   /\ spc' = IF eventId[t] \in eventIds THEN "handOver" ELSE "discard"
                                   /\ eventIds' = eventIds \ {eventId[t]}
        BY <3>1 DEF PopEvent
      <4>2. popped' \in Task /\ spc' \in {"handOver", "discard"}
        BY <4>1 DEF SchedTypeOK
      <4> QED BY <2>2, <3>1, <4>1, <4>2 DEF PopEvent, SchedTypeOK
    <3>2. CASE EnterWait \/ EnterTimedWait \/ GoRound \/ PopNothing
      BY <2>2, <3>2 DEF EnterWait, EnterTimedWait, GoRound, PopNothing, RetFalse, SchedTypeOK
    <3> QED BY <1>1, <3>1, <3>2 DEF SchedulerWaits
  <2> QED BY <1>1, <2>1, <2>3 DEF SchedulerWaits, gameVars, callVars
<1>2. CASE SchedulerHandsOver
  <2>1. popped \in Task
    BY <1>2 DEF SchedulerHandsOver, HandOver, SchedTypeOK
  <2>2. HeapTypeOK'
    BY <1>2, <2>1, DateFacts DEF SchedulerHandsOver, HandOver, UnsetExpiration, HeapTypeOK
  <2>3. DispTypeOK'
    BY <1>2, <2>1 DEF SchedulerHandsOver, HandOver, Enqueue, DispTypeOK
  <2>4. SchedTypeOK'
    BY <1>2 DEF SchedulerHandsOver, HandOver, SchedTypeOK
  <2> QED BY <1>2, <2>2, <2>3, <2>4 DEF SchedulerHandsOver, gameVars, callVars
<1>3. CASE SchedulerDeletes
  <2>1. popped \in Task
    BY <1>3 DEF SchedulerDeletes, DeleteStopped, SchedTypeOK
  <2>2. HeapTypeOK'
    BY <1>3, <2>1, DeleteType DEF SchedulerDeletes, DeleteStopped
  <2>3. DispTypeOK' /\ SchedTypeOK'
    BY <1>3 DEF SchedulerDeletes, DeleteStopped, dispVars, DispTypeOK, SchedTypeOK
  <2> QED BY <1>3, <2>2, <2>3 DEF SchedulerDeletes, gameVars, callVars
<1>4. CASE SchedulerNotifies
  BY <1>4 DEF SchedulerNotifies, NotifyDispatcher, heapVars, gameVars, callVars,
      HeapTypeOK, DispTypeOK, SchedTypeOK
<1>5. CASE DispatcherLoop
  <2>1. HeapTypeOK'
    BY <1>5, DeleteType DEF DispatcherLoop, WaitForTask, WokenForNothing, TakeTask,
        SkipExpired, FlushEnd, heapVars, HeapTypeOK, DispTypeOK
  <2>2. CASE TakeTask
    <3>1. Head(taskList) \in Task /\ Tail(taskList) \in Seq(Task)
      BY <2>2 DEF TakeTask, DispTypeOK
    <3> QED BY <1>5, <2>1, <2>2, <3>1
        DEF DispatcherLoop, TakeTask, DispTypeOK, schedVars, gameVars, callVars, SchedTypeOK
  <2>3. CASE WaitForTask \/ WokenForNothing \/ SkipExpired \/ FlushEnd
    <3>1. DispTypeOK'
      BY <2>3 DEF WaitForTask, WokenForNothing, SkipExpired, FlushEnd, DispTypeOK
    <3> QED BY <1>5, <2>1, <3>1 DEF DispatcherLoop, schedVars, gameVars, callVars, SchedTypeOK
  <2> QED BY <1>5, <2>2, <2>3 DEF DispatcherLoop
<1>6. CASE BodyRun \/ BodyFlush
  <2>1. DispTypeOK' /\ HeapTypeOK'
    BY <1>6 DEF BodyRun, BodyFlush, RunTask, FlushTask, heapVars, DispTypeOK, HeapTypeOK
  <2>2. calls' \in 0 .. MaxCalls
    BY <1>6, EngineAssumption DEF BodyRun, BodyFlush, EnterBody
  <2> QED BY <1>6, <2>1, <2>2 DEF BodyRun, BodyFlush, EnterBody, schedVars, callVars, SchedTypeOK
<1>7. CASE BodyEnd
  <2>1. HeapTypeOK'
    BY <1>7, DeleteType DEF BodyEnd, FinishTask, DispTypeOK
  <2>2. DispTypeOK'
    BY <1>7 DEF BodyEnd, FinishTask, DispTypeOK
  <2> QED BY <1>7, <2>1, <2>2, EngineAssumption
      DEF BodyEnd, schedVars, callVars, gameVars, SchedTypeOK
<1>8. CASE ShutdownPost
  <2>1. HeapTypeOK' /\ DispTypeOK' /\ SchedTypeOK'
    BY <1>8, PostType, DateFacts, EngineAssumption DEF ShutdownPost
  <2> QED BY <1>8, <2>1 DEF ShutdownPost, GoTo, callVars
<1>9. CASE ShutdownStopScheduler \/ ShutdownStopDispatcher \/ TerminateScheduler \/ TerminateDispatcher
  <2>1. HeapTypeOK' /\ DispTypeOK' /\ SchedTypeOK'
    BY <1>9 DEF ShutdownStopScheduler, ShutdownStopDispatcher, TerminateScheduler,
        TerminateDispatcher, StopScheduler, StopDispatcher, ShutdownScheduler,
        ShutdownDispatcher, heapVars, dispVars, schedVars, HeapTypeOK, DispTypeOK,
        SchedTypeOK, ThreadState
  <2> QED BY <1>9, <2>1 DEF ShutdownStopScheduler, ShutdownStopDispatcher, TerminateScheduler,
          TerminateDispatcher, GoTo, callVars
<1>10. CASE FlushedTaskLocks
  BY <1>10 DEF FlushedTaskLocks, SelfLock, heapVars, schedVars, gameVars, callVars,
      HeapTypeOK, DispTypeOK, SchedTypeOK
<1>11. ASSUME NEW c \in Caller, CallAddEvent(c) PROVE TypeOK'
  <2>1. PICK t \in Ordinary, l \in 0 .. MaxDelay :
            /\ AddEvent(t, l)
            /\ callTask' = [callTask EXCEPT ![c] = t]
            /\ callPc' = [callPc EXCEPT ![c] =
                  IF schedState = "running" /\ BecomesTop(l) THEN "notifyEvent" ELSE "return"]
    BY <1>11 DEF CallAddEvent
  <2>2. t \in Task /\ l \in Date
    BY DateFacts DEF Ordinary
  <2>3. NextId \in EventId
    BY NextIdType DEF SchedTypeOK
  <2>4. HeapTypeOK'
    BY <2>1, <2>2, <2>3, NewType DEF AddEvent
  <2>5. collided' \in BOOLEAN
    BY <2>1, Zenon DEF AddEvent, SchedTypeOK
  <2>6. SchedTypeOK'
    BY <2>1, <2>2, <2>3, <2>5 DEF AddEvent, SchedTypeOK
  <2>7. calls' \in 0 .. MaxCalls
    BY <1>11, EngineAssumption DEF CallAddEvent, MayCall, CountCall
  <2>8. DispTypeOK'
    BY <1>11 DEF CallAddEvent, dispVars, DispTypeOK
  <2> QED BY <1>11, <2>1, <2>2, <2>4, <2>6, <2>7, <2>8, NoTaskAssumption DEF CallAddEvent, CountCall
<1>12. ASSUME NEW c \in Caller, CallNotifyEvent(c) PROVE TypeOK'
  <2>1. SchedTypeOK'
    BY <1>12 DEF CallNotifyEvent, NotifyScheduler, SchedTypeOK
  <2> QED BY <1>12, <2>1 DEF CallNotifyEvent, heapVars, dispVars, gameVars, HeapTypeOK, DispTypeOK
<1>13. ASSUME NEW c \in Caller, CallReturn(c) PROVE TypeOK'
  <2>1. eventId[callTask[c]] \in {0} \cup EventId
    BY <1>13 DEF CallReturn, HeapTypeOK, Caller
  <2>2. handles' \in SUBSET EventId
    BY <1>13, <2>1 DEF CallReturn, SchedTypeOK
  <2>3. SchedTypeOK'
    BY <1>13, <2>2 DEF CallReturn, SchedTypeOK
  <2> QED BY <1>13, <2>3 DEF CallReturn, heapVars, dispVars, gameVars, HeapTypeOK, DispTypeOK
<1>14. CASE CallStopEvent
  <2>1. SchedTypeOK' /\ HeapTypeOK' /\ DispTypeOK'
    BY <1>14 DEF CallStopEvent, StopEvent, heapVars, dispVars, SchedTypeOK, HeapTypeOK, DispTypeOK
  <2>2. calls' \in 0 .. MaxCalls
    BY <1>14, EngineAssumption DEF CallStopEvent, MayCall, CountCall
  <2> QED BY <1>14, <2>1, <2>2 DEF CallStopEvent, CountCall, callVars
<1>15. ASSUME NEW c \in Caller, CallAddTask(c) PROVE TypeOK'
  <2>1. HeapTypeOK' /\ DispTypeOK' /\ SchedTypeOK'
    BY <1>15, PostType, DateFacts DEF CallAddTask, Ordinary
  <2>2. calls' \in 0 .. MaxCalls
    BY <1>15, EngineAssumption DEF CallAddTask, MayCall, CountCall
  <2> QED BY <1>15, <2>1, <2>2 DEF CallAddTask, CountCall, PostPc, MayCall
<1>16. ASSUME NEW s \in Signals, SignalArrives(s) PROVE TypeOK'
  <2>1. HeapTypeOK' /\ DispTypeOK' /\ SchedTypeOK'
    BY <1>16, PostType, DateFacts, EngineAssumption DEF SignalArrives, SignalTask
  <2> QED BY <1>16, <2>1 DEF SignalArrives, PostPc, gameVars, Caller
<1>17. CASE CallNotifyTask
  BY <1>17 DEF CallNotifyTask, NotifyDispatcher, heapVars, schedVars, gameVars,
      HeapTypeOK, DispTypeOK, SchedTypeOK, Caller
<1>18. CASE Tick
  <2>1. HeapTypeOK'
    BY <1>18, DateFacts DEF Tick, HeapTypeOK
  <2>2. deadline' \in 0 .. NoDate
    BY <1>18, BoundAssumption DEF Tick, Sooner, SchedTypeOK, NoDate
  <2> QED BY <1>18, <2>1, <2>2 DEF Tick, dispVars, gameVars, callVars, DispTypeOK, SchedTypeOK
<1>19. CASE SpuriousWake
  BY <1>19 DEF SpuriousWake, NotifyScheduler, NotifyDispatcher, heapVars, gameVars, callVars,
      HeapTypeOK, DispTypeOK, SchedTypeOK
<1>20. CASE ForgetHandle
  BY <1>20 DEF ForgetHandle, heapVars, dispVars, gameVars, callVars,
      HeapTypeOK, DispTypeOK, SchedTypeOK
<1>21. CASE UNCHANGED vars
  BY <1>21 DEF vars, heapVars, dispVars, schedVars, gameVars, callVars,
      HeapTypeOK, DispTypeOK, SchedTypeOK
<1> QED BY <1>1, <1>2, <1>3, <1>4, <1>5, <1>6, <1>7, <1>8, <1>9, <1>10, <1>11, <1>12, <1>13,
    <1>14, <1>15, <1>16, <1>17, <1>18, <1>19, <1>20, <1>21
    DEF Next, SchedulerThread, DispatcherThread, ShutdownStep, CallGoesOn

\* Every variable keeps its type, and a thread holds a task exactly when the
\* place it is at says so.
THEOREM TypeCorrect == Spec => []TypeOK
BY InitTypeOK, StepTypeOK, PTL DEF Spec

-----------------------------------------------------------------------------
(* Ownership of the task objects. *)

\* What adding to the dispatcher's list does to its members.
LEMMA EnqueueListed ==
    ASSUME taskList \in Seq(Task), NEW t \in Task, NEW front \in BOOLEAN, Enqueue(t, front)
    PROVE  /\ Listed' \subseteq Listed \cup {t}
           /\ Listed \subseteq Listed'
           /\ dispState = "running" => t \in Listed'
           /\ (NoRepeats /\ t \notin Listed) => NoRepeats'
<1>1. CASE dispState # "running" /\ taskList' = taskList
  BY <1>1 DEF Listed, NoRepeats
<1>2. CASE taskList' = Append(taskList, t)
  <2>1. /\ Len(taskList') = Len(taskList) + 1
        /\ \A i \in 1 .. Len(taskList') :
              taskList'[i] = IF i = Len(taskList) + 1 THEN t ELSE taskList[i]
    BY <1>2
  <2>2. t \in Listed' /\ Listed \subseteq Listed'
    <3>1. Len(taskList') \in 1 .. Len(taskList') /\ taskList'[Len(taskList')] = t
      BY <2>1
    <3>2. \A i \in 1 .. Len(taskList) : i \in 1 .. Len(taskList') /\ taskList'[i] = taskList[i]
      BY <2>1
    <3> QED BY <3>1, <3>2 DEF Listed
  <2>3. Listed' \subseteq Listed \cup {t} /\ ((NoRepeats /\ t \notin Listed) => NoRepeats')
    BY <2>1 DEF Listed, NoRepeats
  <2> QED BY <2>2, <2>3
<1>3. CASE taskList' = <<t>> \o taskList
  <2>1. /\ Len(taskList') = Len(taskList) + 1
        /\ \A i \in 1 .. Len(taskList') :
              taskList'[i] = IF i = 1 THEN t ELSE taskList[i - 1]
    BY <1>3
  <2>2. t \in Listed' /\ Listed \subseteq Listed'
    <3>1. 1 \in 1 .. Len(taskList') /\ taskList'[1] = t
      BY <2>1
    <3>2. \A i \in 1 .. Len(taskList) :
            i + 1 \in 1 .. Len(taskList') /\ taskList'[i + 1] = taskList[i]
      BY <2>1
    <3> QED BY <3>1, <3>2 DEF Listed
  <2>3. Listed' \subseteq Listed \cup {t} /\ ((NoRepeats /\ t \notin Listed) => NoRepeats')
    BY <2>1 DEF Listed, NoRepeats
  <2> QED BY <2>2, <2>3
<1> QED BY <1>1, <1>2, <1>3, Zenon DEF Enqueue

\* What taking the first task does.
LEMMA DequeueListed ==
    ASSUME taskList \in Seq(Task), taskList # <<>>, taskList' = Tail(taskList)
    PROVE  /\ Head(taskList) \in Listed
           /\ Listed' \subseteq Listed
           /\ Listed \subseteq Listed' \cup {Head(taskList)}
           /\ NoRepeats => NoRepeats' /\ Head(taskList) \notin Listed'
<1>1. /\ Len(taskList) \in Nat \ {0}
      /\ Len(taskList') = Len(taskList) - 1
      /\ Head(taskList) = taskList[1]
      /\ \A i \in 1 .. Len(taskList') : taskList'[i] = taskList[i + 1]
  OBVIOUS
<1>2. \A i \in 1 .. Len(taskList) :
        i = 1 \/ (i - 1 \in 1 .. Len(taskList') /\ taskList'[i - 1] = taskList[i])
  BY <1>1
<1>3. Listed \subseteq Listed' \cup {Head(taskList)}
  BY <1>1, <1>2 DEF Listed
<1>4. /\ Head(taskList) \in Listed /\ Listed' \subseteq Listed
      /\ NoRepeats => NoRepeats' /\ Head(taskList) \notin Listed'
  BY <1>1 DEF Listed, NoRepeats
<1> QED BY <1>3, <1>4

LEMMA PostOwner ==
    ASSUME TypeOK, OneOwner, NEW t \in Task, NEW l, NEW front \in BOOLEAN, Post(t, l, front)
    PROVE  OneOwner'
<1>1. t \notin live /\ live' = live \cup {t}
  BY DEF Post, New
<1>2. Listed' \subseteq Listed \cup {t} /\ NoRepeats'
  BY <1>1, EnqueueListed DEF Post, OneOwner, TypeOK, DispTypeOK
<1> QED BY <1>1, <1>2 DEF Post, OneOwner

\* A step that leaves the list alone leaves its members alone.
LEMMA SameListed ==
    UNCHANGED taskList => Listed' = Listed /\ NoRepeats' = NoRepeats
BY DEF Listed, NoRepeats

LEMMA InitOneOwner == Init => OneOwner
BY DEF Init, HeapInit, DispInit, SchedInit, OneOwner, Listed, NoRepeats

LEMMA StepOneOwner == TypeOK /\ OneOwner /\ [Next]_vars => OneOwner'
<1> SUFFICES ASSUME TypeOK, OneOwner, [Next]_vars PROVE OneOwner'
  OBVIOUS
<1>1. CASE SchedulerWaits
  BY <1>1, SameListed DEF SchedulerWaits, EnterWait, EnterTimedWait, GoRound, PopEvent,
      PopNothing, heapVars, dispVars, OneOwner, TypeOK, SchedTypeOK
<1>2. CASE SchedulerHandsOver
  <2>1. popped \in Task /\ popped \in live \ (eventList \cup Listed) /\ popped # running
    BY <1>2, NoTaskAssumption DEF SchedulerHandsOver, HandOver, OneOwner, TypeOK, SchedTypeOK
  <2>2. Listed' \subseteq Listed \cup {popped} /\ NoRepeats'
    BY <1>2, <2>1, EnqueueListed DEF SchedulerHandsOver, HandOver, OneOwner, TypeOK, DispTypeOK
  <2> QED BY <1>2, <2>1, <2>2 DEF SchedulerHandsOver, HandOver, UnsetExpiration, OneOwner
<1>3. CASE SchedulerDeletes
  BY <1>3, SameListed, NoTaskAssumption DEF SchedulerDeletes, DeleteStopped, Delete, dispVars,
      OneOwner, TypeOK, SchedTypeOK
<1>4. CASE SchedulerNotifies \/ CallNotifyTask \/ SpuriousWake \/ ForgetHandle \/ Tick
           \/ FlushedTaskLocks
  BY <1>4, SameListed DEF SchedulerNotifies, CallNotifyTask, SpuriousWake, ForgetHandle, Tick,
      FlushedTaskLocks, SelfLock, heapVars, dispVars, schedVars, OneOwner
<1>5. CASE DispatcherLoop
  <2>1. CASE WaitForTask \/ WokenForNothing \/ FlushEnd
    BY <1>5, <2>1, SameListed DEF DispatcherLoop, WaitForTask, WokenForNothing, FlushEnd,
        heapVars, schedVars, OneOwner
  <2>2. CASE TakeTask
    <3>1. /\ Head(taskList) \in Listed \ Listed' /\ Listed' \subseteq Listed /\ NoRepeats'
      BY <2>2, DequeueListed DEF TakeTask, OneOwner, TypeOK, DispTypeOK
    <3> QED BY <1>5, <2>2, <3>1 DEF DispatcherLoop, TakeTask, heapVars, schedVars, OneOwner
  <2>3. CASE SkipExpired
    BY <1>5, <2>3, SameListed, NoTaskAssumption DEF DispatcherLoop, SkipExpired, Delete,
        schedVars, OneOwner, TypeOK, DispTypeOK
  <2> QED BY <1>5, <2>1, <2>2, <2>3 DEF DispatcherLoop
<1>6. CASE BodyRun
  BY <1>6, SameListed DEF BodyRun, RunTask, heapVars, schedVars, OneOwner
<1>7. CASE BodyFlush
  <2>1. /\ Head(taskList) \in Listed \ Listed' /\ Listed' \subseteq Listed /\ NoRepeats'
    BY <1>7, DequeueListed DEF BodyFlush, FlushTask, OneOwner, TypeOK, DispTypeOK
  <2> QED BY <1>7, <2>1 DEF BodyFlush, FlushTask, heapVars, schedVars, OneOwner
<1>8. CASE BodyEnd
  BY <1>8, SameListed, NoTaskAssumption DEF BodyEnd, FinishTask, Delete, schedVars,
      OneOwner, TypeOK, DispTypeOK
<1>9. CASE ShutdownPost
  BY <1>9, PostOwner, EngineAssumption DEF ShutdownPost
<1>10. CASE ShutdownStopScheduler \/ ShutdownStopDispatcher \/ TerminateScheduler \/ TerminateDispatcher
  BY <1>10, SameListed DEF ShutdownStopScheduler, ShutdownStopDispatcher, TerminateScheduler,
      TerminateDispatcher, StopScheduler, StopDispatcher, ShutdownScheduler,
      ShutdownDispatcher, heapVars, dispVars, schedVars, OneOwner
<1>11. ASSUME NEW c \in Caller, CallAddEvent(c) PROVE OneOwner'
  <2>1. PICK t \in Ordinary, l \in 0 .. MaxDelay : AddEvent(t, l)
    BY <1>11 DEF CallAddEvent
  <2>2. t \notin live /\ live' = live \cup {t} /\ eventList' \subseteq eventList \cup {t}
    BY <2>1 DEF AddEvent, New
  <2> QED BY <1>11, <2>1, <2>2, SameListed DEF CallAddEvent, AddEvent, dispVars, OneOwner
<1>12. ASSUME NEW c \in Caller, CallGoesOn(c) PROVE OneOwner'
  BY <1>12, SameListed DEF CallGoesOn, CallNotifyEvent, CallReturn, heapVars, dispVars, OneOwner
<1>13. CASE CallStopEvent
  BY <1>13, SameListed DEF CallStopEvent, StopEvent, heapVars, dispVars, OneOwner
<1>14. ASSUME NEW c \in Caller, CallAddTask(c) PROVE OneOwner'
  BY <1>14, PostOwner DEF CallAddTask, Ordinary
<1>15. ASSUME NEW s \in Signals, SignalArrives(s) PROVE OneOwner'
  BY <1>15, PostOwner, EngineAssumption DEF SignalArrives, SignalTask
<1>16. CASE UNCHANGED vars
  BY <1>16, SameListed DEF vars, heapVars, dispVars, schedVars, OneOwner
<1> QED BY <1>1, <1>2, <1>3, <1>4, <1>5, <1>6, <1>7, <1>8, <1>9, <1>10, <1>11, <1>12, <1>13,
    <1>14, <1>15, <1>16
    DEF Next, SchedulerThread, DispatcherThread, ShutdownStep

\* No task object is ever owned twice, so none is deleted twice or run after
\* its deletion.
THEOREM OwnershipIsUnique == Spec => []OneOwner
BY InitTypeOK, StepTypeOK, InitOneOwner, StepOneOwner, PTL DEF Spec

-----------------------------------------------------------------------------
(* The events somebody stopped. *)

StopInv == ActiveIdsAreExact /\ StoppedEventNeverRuns

\* The part of StopInv that a step leaves alone when it changes neither the
\* queue, nor the ids, nor the events stopped, nor the id of a queued event.
LEMMA SameIds ==
    ASSUME ActiveIdsAreExact, UNCHANGED <<eventList, eventIds, cancelled, collided>>,
           \A t \in eventList : eventId'[t] = eventId[t]
    PROVE  ActiveIdsAreExact'
BY DEF ActiveIdsAreExact

LEMMA PostStop ==
    ASSUME TypeOK, OneOwner, StopInv, NEW t \in Task, NEW l, NEW front \in BOOLEAN,
           Post(t, l, front)
    PROVE  StopInv'
<1>1. t \notin live /\ t \notin eventList
  BY DEF Post, New, OneOwner
<1>2. ActiveIdsAreExact'
  BY <1>1 DEF StopInv, ActiveIdsAreExact, Post, New, TypeOK, HeapTypeOK, SchedTypeOK
<1>3. Listed' \subseteq Listed \cup {t}
  BY EnqueueListed DEF Post, TypeOK, DispTypeOK
<1>4. running # t /\ popped # t
  BY <1>1, NoTaskAssumption DEF OneOwner
<1>5. StoppedEventNeverRuns'
  BY <1>3, <1>4 DEF StopInv, StoppedEventNeverRuns, Post
<1> QED BY <1>2, <1>5 DEF StopInv

LEMMA InitStop == Init => StopInv
BY DEF Init, HeapInit, DispInit, SchedInit, StopInv, ActiveIdsAreExact, StoppedEventNeverRuns,
    Listed

LEMMA StepStop == TypeOK /\ OneOwner /\ StopInv /\ [Next]_vars => StopInv'
<1> SUFFICES ASSUME TypeOK, OneOwner, StopInv, [Next]_vars PROVE StopInv'
  OBVIOUS
<1> USE DEF StopInv
<1>1. CASE EnterWait /\ UNCHANGED dispVars
  BY <1>1, SameListed, SameIds DEF EnterWait, heapVars, dispVars, StoppedEventNeverRuns
<1>2. CASE (EnterTimedWait \/ GoRound \/ PopNothing) /\ UNCHANGED dispVars
  BY <1>2, SameListed, SameIds DEF EnterTimedWait, GoRound, PopNothing, heapVars,
      dispVars, StoppedEventNeverRuns
<1>3. CASE PopEvent /\ UNCHANGED dispVars
  <2> SUFFICES ASSUME ~collided PROVE StopInv'
    BY <1>3 DEF PopEvent, ActiveIdsAreExact, StoppedEventNeverRuns
  <2>1. PICK t \in eventList : /\ popped' = t
                               /\ eventList' = eventList \ {t}
                               /\ spc' = IF eventId[t] \in eventIds THEN "handOver" ELSE "discard"
                               /\ eventIds' = eventIds \ {eventId[t]}
    BY <1>3 DEF PopEvent
  <2>2. UNCHANGED <<cancelled, collided, eventId, running, taskList>>
    BY <1>3 DEF PopEvent, heapVars, dispVars
  <2>3. /\ eventIds = {eventId[u] : u \in eventList \ cancelled}
        /\ \A u, v \in eventList : eventId[u] = eventId[v] => u = v
    BY DEF ActiveIdsAreExact
  <2>4. ActiveIdsAreExact'
    BY <2>1, <2>2, <2>3 DEF ActiveIdsAreExact
  <2>5. spc' = "handOver" => t \notin cancelled
    BY <2>1, <2>3
  <2> QED BY <2>1, <2>2, <2>4, <2>5, SameListed DEF StoppedEventNeverRuns
<1>4. CASE SchedulerHandsOver
  <2>1. popped \in Task /\ popped \notin eventList /\ spc = "handOver"
    BY <1>4, NoTaskAssumption DEF SchedulerHandsOver, HandOver, OneOwner, TypeOK, SchedTypeOK
  <2>2. Listed' \subseteq Listed \cup {popped}
    BY <1>4, <2>1, EnqueueListed DEF SchedulerHandsOver, HandOver, TypeOK, DispTypeOK
  <2>3. ActiveIdsAreExact'
    BY <1>4, SameIds DEF SchedulerHandsOver, HandOver, UnsetExpiration
  <2>4. StoppedEventNeverRuns'
    BY <1>4, <2>1, <2>2 DEF SchedulerHandsOver, HandOver, StoppedEventNeverRuns
  <2> QED BY <2>3, <2>4
<1>5. CASE SchedulerDeletes
  <2>1. popped \in Task /\ popped \notin eventList
    BY <1>5, NoTaskAssumption DEF SchedulerDeletes, DeleteStopped, OneOwner, TypeOK, SchedTypeOK
  <2>2. ActiveIdsAreExact'
    BY <1>5, <2>1 DEF SchedulerDeletes, DeleteStopped, Delete, ActiveIdsAreExact, TypeOK, HeapTypeOK
  <2>3. StoppedEventNeverRuns'
    BY <1>5, SameListed DEF SchedulerDeletes, DeleteStopped, dispVars, StoppedEventNeverRuns
  <2> QED BY <2>2, <2>3
<1>6. CASE SchedulerNotifies \/ CallNotifyTask \/ SpuriousWake \/ ForgetHandle \/ Tick
           \/ FlushedTaskLocks
  <2>1. UNCHANGED <<eventList, eventIds, cancelled, collided, eventId, taskList, running, popped>>
    BY <1>6 DEF SchedulerNotifies, CallNotifyTask, SpuriousWake, ForgetHandle, Tick,
        FlushedTaskLocks, SelfLock, heapVars, dispVars, schedVars
  <2>2. spc' = "handOver" => spc = "handOver"
    BY <1>6 DEF SchedulerNotifies, CallNotifyTask, SpuriousWake, ForgetHandle, Tick,
        FlushedTaskLocks, NotifyScheduler, schedVars
  <2> QED BY <2>1, <2>2, SameListed, SameIds DEF StoppedEventNeverRuns
<1>7. CASE DispatcherLoop \/ BodyRun \/ BodyFlush \/ BodyEnd
  <2>1. UNCHANGED <<eventList, eventIds, cancelled, collided, spc, popped>>
    BY <1>7 DEF DispatcherLoop, BodyRun, BodyFlush, BodyEnd, schedVars
  <2>2. \A t \in eventList : eventId'[t] = eventId[t]
    <3>1. running \notin eventList
      BY NoTaskAssumption DEF OneOwner, TypeOK, SchedTypeOK
    <3>2. UNCHANGED eventId \/ eventId' = [eventId EXCEPT ![running] = 0]
      BY <1>7 DEF DispatcherLoop, BodyRun, BodyFlush, BodyEnd, WaitForTask, WokenForNothing,
          TakeTask, SkipExpired, FlushEnd, RunTask, FlushTask, FinishTask, Delete, heapVars
    <3> QED BY <3>1, <3>2 DEF TypeOK, HeapTypeOK, SchedTypeOK
  <2>3. Listed' \cup {running'} \subseteq Listed \cup {running, NoTask}
    <3>1. CASE TakeTask \/ FlushTask
      BY <3>1, DequeueListed DEF TakeTask, FlushTask, TypeOK, DispTypeOK
    <3>2. CASE UNCHANGED taskList /\ running' \in {running, NoTask}
      BY <3>2, SameListed
    <3> QED BY <1>7, <3>1, <3>2 DEF DispatcherLoop, BodyRun, BodyFlush, BodyEnd, WaitForTask,
          WokenForNothing, SkipExpired, FlushEnd, RunTask, FinishTask
  <2>4. NoTask \notin cancelled
    BY NoTaskAssumption DEF TypeOK, SchedTypeOK
  <2> QED BY <2>1, <2>2, <2>3, <2>4, SameIds DEF StoppedEventNeverRuns
<1>8. CASE ShutdownPost
  BY <1>8, PostStop, EngineAssumption DEF ShutdownPost
<1>9. CASE ShutdownStopScheduler \/ ShutdownStopDispatcher \/ TerminateScheduler \/ TerminateDispatcher
  <2>1. UNCHANGED <<cancelled, collided, eventId, spc, popped, taskList>>
    BY <1>9 DEF ShutdownStopScheduler, ShutdownStopDispatcher, TerminateScheduler,
        TerminateDispatcher, StopScheduler, StopDispatcher, ShutdownScheduler,
        ShutdownDispatcher, heapVars, dispVars, schedVars
  <2>2. running' \in {running, NoTask}
    BY <1>9 DEF ShutdownStopScheduler, ShutdownStopDispatcher, TerminateScheduler,
        TerminateDispatcher, StopDispatcher, ShutdownDispatcher, dispVars
  <2>3. \/ UNCHANGED <<eventList, eventIds>>
        \/ eventList' = {} /\ eventIds' = {}
    BY <1>9 DEF ShutdownStopScheduler, ShutdownStopDispatcher, TerminateScheduler,
        TerminateDispatcher, StopScheduler, ShutdownScheduler, schedVars
  <2>4. ActiveIdsAreExact'
    BY <2>1, <2>3 DEF ActiveIdsAreExact
  <2>5. NoTask \notin cancelled
    BY NoTaskAssumption DEF TypeOK, SchedTypeOK
  <2> QED BY <2>1, <2>2, <2>4, <2>5, SameListed DEF StoppedEventNeverRuns
<1>10. ASSUME NEW c \in Caller, CallAddEvent(c) PROVE StopInv'
  <2>1. PICK t \in Ordinary, l \in 0 .. MaxDelay : AddEvent(t, l)
    BY <1>10 DEF CallAddEvent
  <2>2. t \in Task /\ t \notin live
    BY <2>1 DEF Ordinary, AddEvent, New
  <2>3. t \notin eventList /\ t \notin Listed /\ t # running /\ t # popped
    BY <2>2, NoTaskAssumption DEF OneOwner
  <2>4. \A u \in eventList : eventId'[u] = eventId[u]
    BY <2>1, <2>3 DEF AddEvent, New, TypeOK, HeapTypeOK, SchedTypeOK
  <2>5. CASE schedState = "running"
    <3>1. /\ eventIds' = eventIds \cup {NextId}
          /\ eventList' = eventList \cup {t}
          /\ eventId'[t] = NextId
          /\ cancelled' = cancelled \ {t}
      BY <2>1, <2>2, <2>5 DEF AddEvent, New, TypeOK, HeapTypeOK
    <3>2. ~collided' => ~collided /\ \A u \in eventList : eventId[u] # NextId
      BY <2>1, <2>5, Zenon DEF AddEvent
    <3> QED BY <1>10, <2>1, <2>3, <2>4, <3>1, <3>2, SameListed
        DEF CallAddEvent, AddEvent, dispVars, ActiveIdsAreExact, StoppedEventNeverRuns
  <2>6. CASE schedState # "running"
    <3>1. UNCHANGED <<eventIds, eventList, collided>> /\ cancelled' = cancelled \ {t}
      BY <2>1, <2>6 DEF AddEvent
    <3> QED BY <1>10, <2>1, <2>3, <2>4, <3>1, SameListed
        DEF CallAddEvent, AddEvent, dispVars, ActiveIdsAreExact, StoppedEventNeverRuns
  <2> QED BY <2>5, <2>6
<1>11. ASSUME NEW c \in Caller, CallGoesOn(c) PROVE StopInv'
  <2>1. UNCHANGED <<eventList, eventIds, cancelled, collided, eventId, taskList, running, popped>>
    BY <1>11 DEF CallGoesOn, CallNotifyEvent, CallReturn, heapVars, dispVars
  <2>2. spc' = "handOver" => spc = "handOver"
    BY <1>11 DEF CallGoesOn, CallNotifyEvent, CallReturn, NotifyScheduler
  <2> QED BY <2>1, <2>2, SameListed, SameIds DEF StoppedEventNeverRuns
<1>12. CASE CallStopEvent
  <2> SUFFICES ASSUME ~collided PROVE StopInv'
    BY <1>12 DEF CallStopEvent, StopEvent, ActiveIdsAreExact, StoppedEventNeverRuns
  <2>1. PICK id \in handles : StopEvent(id)
    BY <1>12 DEF CallStopEvent
  <2>2. /\ eventIds = {eventId[u] : u \in eventList \ cancelled}
        /\ \A u, v \in eventList : eventId[u] = eventId[v] => u = v
    BY DEF ActiveIdsAreExact
  <2>3. UNCHANGED <<eventList, eventId, collided, taskList, running, popped, spc>>
    BY <1>12, <2>1 DEF CallStopEvent, StopEvent, heapVars, dispVars
  <2>4. ActiveIdsAreExact'
    BY <2>1, <2>2, <2>3 DEF StopEvent, ActiveIdsAreExact
  <2>5. cancelled' \subseteq cancelled \cup eventList
    BY <2>1 DEF StopEvent
  <2>6. eventList \cap (Listed \cup {running, popped}) = {}
    BY NoTaskAssumption DEF OneOwner, TypeOK, SchedTypeOK
  <2> QED BY <2>3, <2>4, <2>5, <2>6, SameListed DEF StoppedEventNeverRuns
<1>13. ASSUME NEW c \in Caller, CallAddTask(c) PROVE StopInv'
  BY <1>13, PostStop DEF CallAddTask, Ordinary
<1>14. ASSUME NEW s \in Signals, SignalArrives(s) PROVE StopInv'
  BY <1>14, PostStop, EngineAssumption DEF SignalArrives, SignalTask
<1>15. CASE UNCHANGED vars
  BY <1>15, SameListed, SameIds DEF vars, heapVars, dispVars, schedVars, StoppedEventNeverRuns
<1> QED BY <1>1, <1>2, <1>3, <1>4, <1>5, <1>6, <1>7, <1>8, <1>9, <1>10, <1>11, <1>12, <1>13,
    <1>14, <1>15
    DEF Next, SchedulerThread, DispatcherThread, ShutdownStep, SchedulerWaits

\* stopEvent answers truthfully: the active ids are exactly those of the queued
\* events nobody has stopped.
THEOREM StopIsTruthful == Spec => []ActiveIdsAreExact
BY InitTypeOK, StepTypeOK, InitOneOwner, StepOneOwner, InitStop, StepStop, PTL DEF Spec, StopInv

\* An event somebody stopped is never handed to the dispatcher.
THEOREM StopIsFinal == Spec => []StoppedEventNeverRuns
BY InitTypeOK, StepTypeOK, InitOneOwner, StepOneOwner, InitStop, StepStop, PTL DEF Spec, StopInv

-----------------------------------------------------------------------------
(* The object whose id addEvent returns. *)

\* While the dispatcher thread is inside addEvent it is inside a task, nobody
\* else can stop the event it has just added, and the scheduler thread has not
\* popped it as one that was stopped.
CallInv ==
    callPc["game"] \in {"notifyEvent", "return"} =>
        /\ dpc = "body"
        /\ ~collided => /\ callTask["game"] \in live \ cancelled
                        /\ spc = "discard" => popped # callTask["game"]

LEMMA InitCall == Init => CallInv
BY DEF Init, Caller, CallInv

LEMMA StepCall == TypeOK /\ OneOwner /\ StopInv /\ CallInv /\ [Next]_vars => CallInv'
<1> SUFFICES ASSUME TypeOK, OneOwner, StopInv, CallInv, [Next]_vars,
                    callPc'["game"] \in {"notifyEvent", "return"}
             PROVE  /\ dpc' = "body"
                    /\ ~collided' => /\ callTask'["game"] \in live' \ cancelled'
                                     /\ spc' = "discard" => popped' # callTask'["game"]
  BY DEF CallInv
<1>1. CASE SchedulerWaits
  <2>1. CASE PopEvent
    <3>1. PICK t \in eventList : /\ popped' = t
                                 /\ spc' = IF eventId[t] \in eventIds THEN "handOver" ELSE "discard"
      BY <2>1 DEF PopEvent
    <3>2. ~collided /\ spc' = "discard" => t \in cancelled
      BY <3>1 DEF StopInv, ActiveIdsAreExact
    <3> QED BY <1>1, <2>1, <3>1, <3>2
        DEF SchedulerWaits, PopEvent, heapVars, dispVars, callVars, CallInv
  <2>2. CASE EnterWait \/ EnterTimedWait \/ GoRound \/ PopNothing
    BY <1>1, <2>2 DEF SchedulerWaits, EnterWait, EnterTimedWait, GoRound, PopNothing,
        heapVars, dispVars, callVars, CallInv
  <2> QED BY <1>1, <2>1, <2>2 DEF SchedulerWaits
<1>2. CASE SchedulerHandsOver
  BY <1>2 DEF SchedulerHandsOver, HandOver, UnsetExpiration, callVars, CallInv
<1>3. CASE SchedulerDeletes
  BY <1>3 DEF SchedulerDeletes, DeleteStopped, Delete, dispVars, callVars, CallInv
<1>4. CASE SchedulerNotifies
  BY <1>4 DEF SchedulerNotifies, NotifyDispatcher, heapVars, callVars, CallInv
<1>5. CASE DispatcherLoop
  BY <1>5 DEF DispatcherLoop, WaitForTask, WokenForNothing, TakeTask, SkipExpired, FlushEnd,
      callVars, CallInv
<1>6. CASE BodyRun \/ BodyFlush
  BY <1>6 DEF BodyRun, BodyFlush, RunTask, FlushTask, callVars, CallInv
<1>7. CASE BodyEnd \/ FlushedTaskLocks \/ ShutdownStep
  BY <1>7 DEF BodyEnd, FlushedTaskLocks, NeedsTaskLock, MayCall, InPhase, ShutdownStep,
      ShutdownPost, ShutdownStopScheduler, ShutdownStopDispatcher, TerminateScheduler,
      TerminateDispatcher, GoTo, callVars
<1>8. CASE CallAddEvent("game")
  <2>1. PICK t \in Ordinary, l \in 0 .. MaxDelay :
            AddEvent(t, l) /\ callTask' = [callTask EXCEPT !["game"] = t]
    BY <1>8 DEF CallAddEvent
  <2>2. /\ t \notin live /\ live' = live \cup {t}
        /\ cancelled' = cancelled \ {t} /\ UNCHANGED <<spc, popped>>
    BY <2>1 DEF AddEvent, New
  <2>3. callTask'["game"] = t
    BY <2>1 DEF TypeOK, Caller
  <2>4. spc = "discard" => popped \in live
    BY NoTaskAssumption DEF TypeOK, SchedTypeOK, OneOwner
  <2> QED BY <1>8, <2>2, <2>3, <2>4 DEF CallAddEvent, MayCall, dispVars
<1>9. CASE CallAddEvent("net")
  <2>1. PICK t \in Ordinary, l \in 0 .. MaxDelay :
            /\ AddEvent(t, l) /\ callTask' = [callTask EXCEPT !["net"] = t]
            /\ \E pc \in {"notifyEvent", "return"} : callPc' = [callPc EXCEPT !["net"] = pc]
    BY <1>9 DEF CallAddEvent
  <2>2. /\ live' = live \cup {t} /\ cancelled' = cancelled \ {t} /\ UNCHANGED <<spc, popped>>
    BY <2>1 DEF AddEvent, New
  <2>3. ~collided' => ~collided
    BY <2>1, Zenon DEF AddEvent
  <2>4. callTask'["game"] = callTask["game"] /\ callPc'["game"] = callPc["game"]
    BY <2>1 DEF TypeOK, Caller
  <2> QED BY <1>9, <2>2, <2>3, <2>4 DEF CallAddEvent, dispVars, CallInv
<1>10. ASSUME NEW c \in Caller, CallGoesOn(c)
       PROVE  /\ dpc' = "body"
              /\ ~collided' => /\ callTask'["game"] \in live' \ cancelled'
                               /\ spc' = "discard" => popped' # callTask'["game"]
  <2>1. callPc["game"] \in {"notifyEvent", "return"} /\ callTask'["game"] = callTask["game"]
    BY <1>10 DEF CallGoesOn, CallNotifyEvent, CallReturn, TypeOK, Caller
  <2> QED BY <1>10, <2>1 DEF CallGoesOn, CallNotifyEvent, CallReturn, NotifyScheduler, heapVars,
        dispVars, CallInv
<1>11. CASE CallStopEvent
  BY <1>11 DEF CallStopEvent, MayCall, callVars
<1>12. ASSUME NEW c \in Caller, CallAddTask(c)
       PROVE  /\ dpc' = "body"
              /\ ~collided' => /\ callTask'["game"] \in live' \ cancelled'
                               /\ spc' = "discard" => popped' # callTask'["game"]
  <2>1. callPc["game"] \in {"notifyEvent", "return"} /\ UNCHANGED callTask
    BY <1>12 DEF CallAddTask, PostPc, TypeOK, Caller
  <2> QED BY <1>12, <2>1 DEF CallAddTask, Post, New, CallInv
<1>13. ASSUME NEW s \in Signals, SignalArrives(s)
       PROVE  /\ dpc' = "body"
              /\ ~collided' => /\ callTask'["game"] \in live' \ cancelled'
                               /\ spc' = "discard" => popped' # callTask'["game"]
  <2>1. callPc["game"] \in {"notifyEvent", "return"} /\ UNCHANGED callTask
    BY <1>13 DEF SignalArrives, PostPc, TypeOK, Caller
  <2> QED BY <1>13, <2>1 DEF SignalArrives, Post, New, CallInv
<1>14. CASE CallNotifyTask
  <2>1. callPc'["game"] = callPc["game"]
    BY <1>14 DEF CallNotifyTask, TypeOK, Caller
  <2> QED BY <1>14, <2>1 DEF CallNotifyTask, NotifyDispatcher, heapVars, schedVars, CallInv
<1>15. CASE Tick \/ ForgetHandle \/ UNCHANGED vars
  BY <1>15 DEF Tick, ForgetHandle, vars, heapVars, dispVars, schedVars, callVars, CallInv
<1>16. CASE SpuriousWake
  BY <1>16 DEF SpuriousWake, NotifyScheduler, NotifyDispatcher, heapVars, callVars, CallInv
<1> QED BY <1>1, <1>2, <1>3, <1>4, <1>5, <1>6, <1>7, <1>8, <1>9, <1>10, <1>11, <1>12, <1>13,
    <1>14, <1>15, <1>16
    DEF Next, SchedulerThread, DispatcherThread, Caller

\* addEvent, called by the game, reads the id of an object that still exists,
\* however late it is run after it has unlocked.
THEOREM AddEventReadsItsTask == Spec => []ReturnedIdIsRead
<1>1. CallInv => ReturnedIdIsRead
  BY DEF CallInv, ReturnedIdIsRead
<1> QED BY <1>1, InitTypeOK, StepTypeOK, InitOneOwner, StepOneOwner, InitStop, StepStop,
        InitCall, StepCall, PTL DEF Spec

-----------------------------------------------------------------------------
(* What becomes of a task that waits for its turn. *)

LEMMA PostLasts ==
    ASSUME TypeOK, OneOwner, HandedEventsNeverExpire, NEW t \in Task, NEW l,
           NEW front \in BOOLEAN, Post(t, l, front)
    PROVE  HandedEventsNeverExpire'
<1>1. t \notin live /\ running # t
  BY NoTaskAssumption DEF Post, New, OneOwner
<1>2. Listed' \subseteq Listed \cup {t}
  BY EnqueueListed DEF Post, TypeOK, DispTypeOK
<1>3. \A u \in Task : eventId'[u] = (IF u = t THEN 0 ELSE eventId[u])
                      /\ (u # t => left'[u] = left[u])
  BY DEF Post, New, TypeOK, HeapTypeOK
<1>4. Listed' \subseteq Task /\ running' \in Task \cup {NoTask}
  BY <1>2 DEF Post, Listed, TypeOK, DispTypeOK
<1> QED BY <1>1, <1>2, <1>3, <1>4 DEF Post, HandedEventsNeverExpire

LEMMA InitLasts == Init => HandedEventsNeverExpire
BY DEF Init, DispInit, HandedEventsNeverExpire, Listed

LEMMA StepLasts ==
    TypeOK /\ OneOwner /\ HandedEventsNeverExpire /\ [Next]_vars => HandedEventsNeverExpire'
<1> SUFFICES ASSUME TypeOK, OneOwner, HandedEventsNeverExpire, [Next]_vars
             PROVE  HandedEventsNeverExpire'
  OBVIOUS
<1>0. Listed \subseteq Task /\ running \in Task \cup {NoTask}
  BY DEF Listed, TypeOK, DispTypeOK
<1>1. CASE SchedulerWaits
  BY <1>1, SameListed DEF SchedulerWaits, EnterWait, EnterTimedWait, GoRound, PopEvent,
      PopNothing, heapVars, dispVars, HandedEventsNeverExpire
<1>2. CASE SchedulerHandsOver
  <2>1. popped \in Task
    BY <1>2 DEF SchedulerHandsOver, HandOver, TypeOK, SchedTypeOK
  <2>2. Listed' \subseteq Listed \cup {popped}
    BY <1>2, <2>1, EnqueueListed DEF SchedulerHandsOver, HandOver, TypeOK, DispTypeOK
  <2>3. left' = [left EXCEPT ![popped] = NoDate] /\ UNCHANGED <<eventId, running>>
    BY <1>2 DEF SchedulerHandsOver, HandOver, UnsetExpiration
  <2> QED BY <1>0, <2>1, <2>2, <2>3 DEF HandedEventsNeverExpire, TypeOK, HeapTypeOK
<1>3. CASE SchedulerDeletes
  <2>1. /\ left' = [left EXCEPT ![popped] = NoDate] /\ eventId' = [eventId EXCEPT ![popped] = 0]
        /\ UNCHANGED <<taskList, running>>
    BY <1>3 DEF SchedulerDeletes, DeleteStopped, Delete, dispVars
  <2> QED BY <1>0, <2>1, SameListed DEF HandedEventsNeverExpire, TypeOK, HeapTypeOK
<1>4. CASE SchedulerNotifies \/ CallNotifyTask \/ SpuriousWake \/ ForgetHandle \/ FlushedTaskLocks
  BY <1>4, SameListed DEF SchedulerNotifies, CallNotifyTask, SpuriousWake, ForgetHandle,
      FlushedTaskLocks, SelfLock, heapVars, dispVars, HandedEventsNeverExpire
<1>5. CASE Tick
  <2>1. UNCHANGED <<taskList, running, eventId>>
    BY <1>5 DEF Tick, dispVars
  <2>2. \A t \in Task : left[t] = NoDate => left'[t] = NoDate
    BY <1>5 DEF Tick, Sooner
  <2> QED BY <1>0, <2>1, <2>2, SameListed DEF HandedEventsNeverExpire
<1>6. CASE DispatcherLoop \/ BodyRun \/ BodyFlush \/ BodyEnd
  <2>1. \/ UNCHANGED <<left, eventId>>
        \/ left' = [left EXCEPT ![running] = NoDate] /\ eventId' = [eventId EXCEPT ![running] = 0]
    BY <1>6 DEF DispatcherLoop, BodyRun, BodyFlush, BodyEnd, WaitForTask, WokenForNothing,
        TakeTask, SkipExpired, FlushEnd, RunTask, FlushTask, FinishTask, Delete, heapVars
  <2>2. Listed' \subseteq Listed /\ running' \in Listed \cup {running, NoTask}
    <3>1. CASE TakeTask \/ FlushTask
      BY <3>1, DequeueListed DEF TakeTask, FlushTask, TypeOK, DispTypeOK
    <3>2. CASE UNCHANGED taskList /\ running' \in {running, NoTask}
      BY <3>2, SameListed
    <3> QED BY <1>6, <3>1, <3>2 DEF DispatcherLoop, BodyRun, BodyFlush, BodyEnd, WaitForTask,
          WokenForNothing, SkipExpired, FlushEnd, RunTask, FinishTask
  <2> SUFFICES ASSUME NEW t \in Listed' \cup ({running'} \ {NoTask}), eventId'[t] # 0
               PROVE  left'[t] = NoDate
    BY DEF HandedEventsNeverExpire
  <2>3. t \in Listed \cup ({running} \ {NoTask}) /\ t \in Task
    BY <1>0, <2>2, NoTaskAssumption
  <2>4. eventId[t] # 0 => left[t] = NoDate
    BY <2>3 DEF HandedEventsNeverExpire
  <2> QED BY <2>1, <2>3, <2>4 DEF TypeOK, HeapTypeOK
<1>7. CASE ShutdownPost
  BY <1>7, PostLasts, EngineAssumption DEF ShutdownPost
<1>8. CASE ShutdownStopScheduler \/ ShutdownStopDispatcher \/ TerminateScheduler \/ TerminateDispatcher
  BY <1>8, SameListed DEF ShutdownStopScheduler, ShutdownStopDispatcher, TerminateScheduler,
      TerminateDispatcher, StopScheduler, StopDispatcher, ShutdownScheduler,
      ShutdownDispatcher, heapVars, dispVars, HandedEventsNeverExpire
<1>9. ASSUME NEW c \in Caller, CallAddEvent(c) PROVE HandedEventsNeverExpire'
  <2>1. PICK t \in Ordinary, l \in 0 .. MaxDelay : AddEvent(t, l)
    BY <1>9 DEF CallAddEvent
  <2>2. PICK id \in {0, NextId} : New(t, l, id)
    BY <2>1 DEF AddEvent
  <2>3. t \notin Listed /\ t # running
    BY <2>2, NoTaskAssumption DEF New, OneOwner, Ordinary
  <2>4. \A u \in Task \ {t} : left'[u] = left[u] /\ eventId'[u] = eventId[u]
    BY <2>2 DEF New, TypeOK, HeapTypeOK
  <2> QED BY <1>0, <1>9, <2>3, <2>4, SameListed DEF CallAddEvent, dispVars, HandedEventsNeverExpire
<1>10. ASSUME NEW c \in Caller, CallGoesOn(c) PROVE HandedEventsNeverExpire'
  BY <1>10, SameListed DEF CallGoesOn, CallNotifyEvent, CallReturn, heapVars, dispVars,
      HandedEventsNeverExpire
<1>11. CASE CallStopEvent
  BY <1>11, SameListed DEF CallStopEvent, StopEvent, heapVars, dispVars, HandedEventsNeverExpire
<1>12. ASSUME NEW c \in Caller, CallAddTask(c) PROVE HandedEventsNeverExpire'
  BY <1>12, PostLasts DEF CallAddTask, Ordinary
<1>13. ASSUME NEW s \in Signals, SignalArrives(s) PROVE HandedEventsNeverExpire'
  BY <1>13, PostLasts, EngineAssumption DEF SignalArrives, SignalTask
<1>14. CASE UNCHANGED vars
  BY <1>14, SameListed DEF vars, heapVars, dispVars, HandedEventsNeverExpire
<1> QED BY <1>1, <1>2, <1>3, <1>4, <1>5, <1>6, <1>7, <1>8, <1>9, <1>10, <1>11, <1>12, <1>13,
    <1>14
    DEF Next, SchedulerThread, DispatcherThread, ShutdownStep

\* The dispatcher drops no event for having waited behind others.
THEOREM NoHandedEventIsDropped == Spec => []HandedEventsNeverExpire
BY InitTypeOK, StepTypeOK, InitOneOwner, StepOneOwner, InitLasts, StepLasts, PTL DEF Spec

-----------------------------------------------------------------------------
\* Between the post of Game::shutdown and the close of the dispatcher the task is
\* in the list; it is posted while the dispatcher accepts tasks, since it is
\* posted once, and has no date to pass.
EndInv ==
    /\ ClosedHasItsEnd
    /\ dispState = "closing" => gameState = "shutdown"
    /\ dispState = "terminated" => taskLock = "held" \/ dpc = "exited"
    /\ \A t \in Terminators : t \in Listed \cup {running} => left[t] = NoDate
    /\ dpc = "body" /\ running = SaveAndStop =>
          /\ gameState = "shutdown"
          /\ phase = "calls" => dispState # "closing"
          /\ phase \in {"closeScheduler", "closeDispatcher"} => Final \in Listed

\* A terminator that is listed or in hand stays so: whoever posts adds only,
\* and it does not expire.
LEMMA PostEnd ==
    ASSUME TypeOK, OneOwner, EndInv, NEW t \in Task, NEW l \in Date, NEW front \in BOOLEAN,
           Post(t, l, front), t \in Terminators => l = NoDate
    PROVE  /\ Listed \subseteq Listed'
           /\ dispState = "running" => t \in Listed'
           /\ UNCHANGED <<dispState, taskLock, dpc, running>>
           /\ \A u \in Terminators : u \in (Listed \cup {running})' => left'[u] = NoDate
<1>1. UNCHANGED <<dispState, taskLock, dpc, running>>
  BY DEF Post
<1>2. /\ Listed \subseteq Listed' /\ Listed' \subseteq Listed \cup {t}
      /\ dispState = "running" => t \in Listed'
  BY EnqueueListed DEF Post, TypeOK, DispTypeOK
<1>3. left' = [left EXCEPT ![t] = l]
  BY DEF Post, New
<1>4. \A u \in Terminators : u \in Task
  BY EngineAssumption DEF Terminators
<1> QED BY <1>1, <1>2, <1>3, <1>4 DEF EndInv, TypeOK, HeapTypeOK

\* A step that leaves the dispatcher's state and list alone.
LEMMA SameEnd ==
    ASSUME EndInv, UNCHANGED <<taskList, dispState, taskLock, running, phase, gameState>>,
           dpc' = dpc \/ (dpc' # "body" /\ dpc # "exited"),
           \A t \in Terminators : t \in Listed \cup {running} => left'[t] = left[t]
    PROVE  EndInv'
BY SameListed DEF EndInv, ClosedHasItsEnd

LEMMA InitEnd == Init => EndInv
BY NoTaskAssumption, EngineAssumption
   DEF Init, HeapInit, DispInit, EndInv, ClosedHasItsEnd, Terminators

LEMMA StepEnd == TypeOK /\ OneOwner /\ EndInv /\ [Next]_vars => EndInv'
<1> SUFFICES ASSUME TypeOK, OneOwner, EndInv, [Next]_vars PROVE EndInv'
  OBVIOUS
<1>0. /\ Listed \subseteq Task /\ running \in Task \cup {NoTask}
      /\ Terminators \subseteq Task /\ SaveAndStop \notin Terminators
      /\ SaveAndStop \in Task /\ NoTask \notin Task
      /\ NoDate \in Date /\ NoDate > 0 /\ 0 .. MaxDelay \subseteq Date
  BY EngineAssumption, NoTaskAssumption, DateFacts
     DEF Listed, Terminators, TypeOK, DispTypeOK
<1>1. CASE SchedulerWaits
  BY <1>1, SameEnd DEF SchedulerWaits, EnterWait, EnterTimedWait, GoRound, PopEvent,
      PopNothing, heapVars, dispVars, gameVars
<1>2. CASE SchedulerHandsOver
  <2>1. popped \in Task /\ left' = [left EXCEPT ![popped] = NoDate]
        /\ UNCHANGED <<dispState, taskLock, dpc, running, gameState, phase>>
    BY <1>2 DEF SchedulerHandsOver, HandOver, UnsetExpiration, TypeOK, SchedTypeOK, gameVars
  <2>2. Listed \subseteq Listed' /\ Listed' \subseteq Listed \cup {popped}
    BY <1>2, <2>1, EnqueueListed DEF SchedulerHandsOver, HandOver, TypeOK, DispTypeOK
  <2>3. \A t \in Terminators : t \in (Listed \cup {running})' => left'[t] = NoDate
    BY <1>0, <2>1, <2>2 DEF EndInv, TypeOK, HeapTypeOK
  <2> QED BY <2>1, <2>2, <2>3 DEF EndInv, ClosedHasItsEnd
<1>3. CASE SchedulerDeletes
  <2>1. popped \notin Listed \cup {running} /\ left' = [left EXCEPT ![popped] = NoDate]
    BY <1>3, <1>0 DEF SchedulerDeletes, DeleteStopped, Delete, OneOwner, TypeOK, SchedTypeOK
  <2> QED BY <1>3, <2>1, <1>0, SameEnd
      DEF SchedulerDeletes, dispVars, gameVars, TypeOK, HeapTypeOK
<1>4. CASE SchedulerNotifies \/ CallNotifyTask \/ SpuriousWake \/ ForgetHandle \/ FlushedTaskLocks
  BY <1>4, SameEnd DEF SchedulerNotifies, CallNotifyTask, SpuriousWake, ForgetHandle,
      NotifyDispatcher, FlushedTaskLocks, SelfLock, heapVars, dispVars, gameVars
<1>5. CASE Tick
  <2>1. \A t \in Terminators : t \in Listed \cup {running} => left'[t] = left[t]
    BY <1>5, <1>0 DEF Tick, Sooner, EndInv
  <2> QED BY <1>5, <2>1, SameEnd DEF Tick, dispVars, gameVars
<1>6. CASE DispatcherLoop
  <2>1. CASE TakeTask
    <3>1. /\ running' = Head(taskList) /\ dpc' = "start"
          /\ UNCHANGED <<left, dispState, taskLock, phase, gameState>>
          /\ dpc # "exited"
      BY <1>6, <2>1 DEF DispatcherLoop, TakeTask, heapVars, gameVars
    <3>2. running = NoTask
      BY <2>1 DEF TakeTask, TypeOK, DispTypeOK
    <3>3. /\ Head(taskList) \in Listed /\ Listed' \subseteq Listed
          /\ Listed \subseteq Listed' \cup {Head(taskList)}
      BY <2>1, DequeueListed DEF TakeTask, TypeOK, DispTypeOK
    <3>4. ClosedHasItsEnd'
      BY <1>0, <3>1, <3>2, <3>3 DEF EndInv, ClosedHasItsEnd
    <3> QED BY <3>1, <3>3, <3>4 DEF EndInv
  <2>2. CASE SkipExpired
    <3>1. running \notin Terminators
      BY <2>2, <1>0, BoundAssumption DEF SkipExpired, HasExpired, EndInv, NoDate
    <3>2. \A t \in Terminators : left'[t] = left[t]
      BY <2>2, <3>1, <1>0 DEF SkipExpired, Delete, TypeOK, HeapTypeOK
    <3>3. /\ running' = NoTask /\ dpc' = "take" /\ dpc = "start"
          /\ UNCHANGED <<taskList, dispState, taskLock, phase, gameState>>
      BY <1>6, <2>2 DEF DispatcherLoop, SkipExpired, gameVars
    <3> QED BY <1>0, <3>1, <3>2, <3>3, SameListed DEF EndInv, ClosedHasItsEnd
  <2>3. CASE WaitForTask \/ WokenForNothing
    BY <1>6, <2>3, SameEnd DEF DispatcherLoop, WaitForTask, WokenForNothing, heapVars, gameVars
  <2>4. CASE FlushEnd
    <3>1. /\ UNCHANGED <<left, dispState, running, taskList, phase, gameState>>
          /\ dpc' = "exited"
      BY <1>6, <2>4 DEF DispatcherLoop, FlushEnd, heapVars, gameVars
    <3> QED BY <3>1, SameListed DEF EndInv, ClosedHasItsEnd
  <2> QED BY <1>6, <2>1, <2>2, <2>3, <2>4 DEF DispatcherLoop
<1>7. CASE BodyRun
  <2>1. /\ UNCHANGED <<left, dispState, running, taskList, taskLock>>
        /\ dpc = "start"
        /\ EnterBody(running)
    BY <1>7 DEF BodyRun, RunTask, heapVars
  <2>2. /\ gameState' = IF running = SaveAndStop THEN "shutdown" ELSE gameState
        /\ running = SaveAndStop => phase' = IF gameState = "shutdown" THEN "done" ELSE "calls"
    BY <2>1, <1>0 DEF EnterBody
  <2> QED BY <2>1, <2>2, SameListed DEF EndInv, ClosedHasItsEnd
<1>8. CASE BodyFlush
  <2>1. /\ UNCHANGED <<left, dispState, taskLock>> /\ running' = Head(taskList)
        /\ dpc = "flush" /\ dpc' = "body"
        /\ EnterBody(Head(taskList))
    BY <1>8 DEF BodyFlush, FlushTask, heapVars
  <2>2. running = NoTask
    BY <2>1 DEF TypeOK, DispTypeOK
  <2>3. /\ Head(taskList) \in Listed /\ Listed' \subseteq Listed
        /\ Listed \subseteq Listed' \cup {Head(taskList)}
    BY <1>8, DequeueListed DEF BodyFlush, FlushTask, TypeOK, DispTypeOK
  <2>4. /\ gameState' = IF running' = SaveAndStop THEN "shutdown" ELSE gameState
        /\ running' = SaveAndStop => phase' = IF gameState = "shutdown" THEN "done" ELSE "calls"
    BY <2>1, <1>0 DEF EnterBody
  <2>5. ClosedHasItsEnd'
    BY <1>0, <2>1, <2>2, <2>3 DEF EndInv, ClosedHasItsEnd
  <2>6. \A t \in Terminators : t \in (Listed \cup {running})' => left'[t] = NoDate
    BY <2>1, <2>3 DEF EndInv
  <2> QED BY <2>1, <2>4, <2>5, <2>6 DEF EndInv
<1>9. CASE BodyEnd
  <2>1. running \notin Terminators
    BY <1>9, <1>0 DEF BodyEnd, Ordinary, Terminators
  <2>2. \A t \in Terminators : left'[t] = left[t]
    BY <1>9, <2>1, <1>0 DEF BodyEnd, FinishTask, Delete, TypeOK, HeapTypeOK
  <2>3. /\ running' = NoTask /\ dpc = "body"
        /\ UNCHANGED <<taskList, dispState, taskLock, gameState>>
    BY <1>9 DEF BodyEnd, FinishTask
  <2> QED BY <1>0, <2>1, <2>2, <2>3, SameListed DEF EndInv, ClosedHasItsEnd
<1>10. CASE ShutdownPost
  <2>1. /\ dpc = "body" /\ running = SaveAndStop /\ phase = "calls" /\ taskLock = "free"
        /\ phase' = "closeScheduler" /\ UNCHANGED gameState
    BY <1>10 DEF ShutdownPost, InPhase, GoTo, Post
  <2>2. dispState = "running"
    BY <2>1 DEF EndInv, TypeOK, DispTypeOK, ThreadState
  <2>3. /\ Listed \subseteq Listed' /\ Final \in Listed'
        /\ UNCHANGED <<dispState, taskLock, dpc, running>>
        /\ \A u \in Terminators : u \in (Listed \cup {running})' => left'[u] = NoDate
    BY <1>0, <1>10, <2>2, PostEnd, EngineAssumption DEF ShutdownPost
  <2> QED BY <2>1, <2>2, <2>3 DEF EndInv, ClosedHasItsEnd
<1>11. CASE ShutdownStopScheduler
  <2>1. /\ UNCHANGED <<left, taskList, dispState, taskLock, dpc, running, gameState>>
        /\ dpc = "body" /\ running = SaveAndStop /\ phase = "closeScheduler"
        /\ phase' = "closeDispatcher"
    BY <1>11 DEF ShutdownStopScheduler, StopScheduler, InPhase, GoTo, heapVars, dispVars
  <2> QED BY <2>1, SameListed DEF EndInv, ClosedHasItsEnd
<1>12. CASE ShutdownStopDispatcher
  <2>1. /\ UNCHANGED <<left, taskList, taskLock, dpc, running, gameState>>
        /\ dispState' = "closing" /\ dpc = "body" /\ running = SaveAndStop
        /\ phase = "closeDispatcher" /\ phase' = "done"
    BY <1>12 DEF ShutdownStopDispatcher, StopDispatcher, InPhase, GoTo, heapVars
  <2>2. Final \in Listed /\ gameState = "shutdown"
    BY <2>1 DEF EndInv
  <2> QED BY <2>1, <2>2, SameListed DEF EndInv, ClosedHasItsEnd, Terminators
<1>13. CASE TerminateScheduler
  <2>1. /\ UNCHANGED <<left, taskList, dispState, taskLock, dpc, running, gameState>>
        /\ running \in Terminators
    BY <1>13 DEF TerminateScheduler, ShutdownScheduler, InPhase, GoTo, heapVars, dispVars
  <2> QED BY <2>1, <1>0, SameListed DEF EndInv, ClosedHasItsEnd
<1>14. CASE TerminateDispatcher
  <2>1. /\ UNCHANGED <<left, taskList, gameState>>
        /\ dispState' = "terminated" /\ taskLock' = "held" /\ dpc' = "flush" /\ running' = NoTask
    BY <1>14 DEF TerminateDispatcher, ShutdownDispatcher, GoTo, heapVars
  <2> QED BY <2>1, <1>0, SameListed DEF EndInv, ClosedHasItsEnd
<1>15. ASSUME NEW c \in Caller, CallAddEvent(c) PROVE EndInv'
  <2>1. PICK t \in Ordinary, l \in 0 .. MaxDelay : AddEvent(t, l)
    BY <1>15 DEF CallAddEvent
  <2>2. \A u \in Task \ {t} : left'[u] = left[u]
    BY <2>1 DEF AddEvent, New, TypeOK, HeapTypeOK
  <2>3. t \notin Terminators
    BY DEF Ordinary, Terminators
  <2> QED BY <1>0, <1>15, <2>2, <2>3, SameEnd DEF CallAddEvent, CountCall, dispVars
<1>16. ASSUME NEW c \in Caller, CallGoesOn(c) PROVE EndInv'
  BY <1>16, SameEnd DEF CallGoesOn, CallNotifyEvent, CallReturn, heapVars, dispVars, gameVars
<1>17. CASE CallStopEvent
  BY <1>17, SameEnd DEF CallStopEvent, StopEvent, CountCall, heapVars, dispVars
<1>18. ASSUME NEW c \in Caller, CallAddTask(c) PROVE EndInv'
  <2>1. PICK t \in Ordinary, l \in {NoDate} \cup 0 .. MaxDelay, front \in BOOLEAN :
          Post(t, l, front)
    BY <1>18 DEF CallAddTask
  <2>2. t \in Task /\ t \notin Terminators /\ l \in Date
    BY <1>0 DEF Ordinary, Terminators
  <2>3. /\ Listed \subseteq Listed'
        /\ UNCHANGED <<dispState, taskLock, dpc, running>>
        /\ \A u \in Terminators : u \in (Listed \cup {running})' => left'[u] = NoDate
    BY <2>1, <2>2, PostEnd
  <2> QED BY <1>18, <2>3 DEF CallAddTask, CountCall, EndInv, ClosedHasItsEnd
<1>19. ASSUME NEW s \in Signals, SignalArrives(s) PROVE EndInv'
  <2>1. SignalTask(s) \in Task /\ Post(SignalTask(s), NoDate, FALSE)
        /\ UNCHANGED <<phase, gameState>>
    BY <1>19, EngineAssumption DEF SignalArrives, SignalTask, gameVars
  <2>2. /\ Listed \subseteq Listed'
        /\ UNCHANGED <<dispState, taskLock, dpc, running>>
        /\ \A u \in Terminators : u \in (Listed \cup {running})' => left'[u] = NoDate
    BY <1>0, <2>1, PostEnd
  <2> QED BY <2>1, <2>2 DEF EndInv, ClosedHasItsEnd
<1>20. CASE UNCHANGED vars
  BY <1>20, SameEnd DEF vars, heapVars, dispVars, gameVars
<1> QED BY <1>1, <1>2, <1>3, <1>4, <1>5, <1>6, <1>7, <1>8, <1>9, <1>10, <1>11, <1>12, <1>13,
    <1>14, <1>15, <1>16, <1>17, <1>18, <1>19, <1>20
    DEF Next, SchedulerThread, DispatcherThread, ShutdownStep

\* A server that accepts no more tasks has the one that ends it.
THEOREM AClosedServerEnds == Spec => []ClosedHasItsEnd
<1>1. EndInv => ClosedHasItsEnd
  BY DEF EndInv
<1> QED BY <1>1, InitTypeOK, StepTypeOK, InitOneOwner, StepOneOwner, InitEnd, StepEnd, PTL DEF Spec
=============================================================================
