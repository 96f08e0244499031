---------------------------- MODULE TasksProofs ----------------------------
(***************************************************************************)
(* What Tasks and TaskStream guarantee for any number of tasks, stop       *)
(* calls, browsers, log lines and steps of work.                           *)
(*                                                                         *)
(* None of the properties is inductive. Whether an ending was explained    *)
(* depends on what a thread that is about to finish has sent, and even the *)
(* type of a status on what that thread holds: TasksInv adds the facts     *)
(* about threads in the middle of `log`, `progress` and `finish`. What a   *)
(* browser shows depends on which events its receiver has passed, on what  *)
(* the last event of a task told (ToldInv) and on the deque a SYNC lists.  *)
(***************************************************************************)
EXTENDS TaskStream, FiniteSetTheorems, TLAPS

\* A runner acts on its own task, and does nothing before `spawn` starts it.
RunnerInv ==
    \A t \in Task :
        /\ on[t] = t
        /\ spawner[t] \in {"new", "pushed", "announced"} => pc[t] = "unborn"

\* A thread that will finish its task holds the verdict it logged ...
VerdictHeld ==
    \A th \in Thread :
        pc[th] \in {"logged", "throttle", "send"} /\ then[th] = "finish" =>
            held[th].task = on[th] /\ held[th].line \in Ended

\* ... and has sent it by the time it finishes the task.
VerdictSent ==
    \A th \in Thread :
        pc[th] = "finish" => held[th].line \in Ended /\ Explained(on[th], held[th].line)

\* Complete progress has been sent, or the runner holds the event that will say so.
CompletionHeld ==
    \A t \in Task : Complete(info[t].progress) =>
        \/ CompletionSent(t)
        \/ /\ pc[t] \in {"throttle", "send"}
           /\ held[t].task = t /\ Complete(held[t].info.progress)

TasksInv ==
    TypeOK /\ RunnerInv /\ VerdictHeld /\ VerdictSent /\ EndIsExplained /\ CompletionHeld

-----------------------------------------------------------------------------
(* The data.                                                               *)

\* A deque that drops its oldest element when full stays a deque of its elements.
LEMMA RingTypes ==
    ASSUME NEW S, NEW q \in Seq(S), NEW x \in S
    PROVE  Append(Evict(q), x) \in Seq(S) /\ Append(Trim(q), x) \in Seq(S)
  <1>1. Evict(q) \in Seq(S)
    BY TasksAssumption DEF Evict
  <1>2. Trim(q) \in Seq(S)
    BY TasksAssumption DEF Trim
  <1> QED
    BY <1>1, <1>2

\* The records the actions build have their types.
LEMMA RecordTypes ==
    /\ Started \in TaskInfo
    /\ \A i \in TaskInfo, p \in Progress \cup {NoProgress} : Showing(i, p) \in TaskInfo
    /\ \A i \in TaskInfo, status \in TaskStatus : EndedAs(i, status) \in TaskInfo
    /\ \A t \in Task, i \in TaskInfo, line \in Line \cup {NoLine} :
          Event(t, i, line) \in TaskEvent
  BY DEF Started, TaskInfo, TaskStatus, Showing, EndedAs, Event, TaskEvent

\* The fields of those records.
LEMMA RecordFields ==
    /\ Started.status = "Running" /\ Started.progress = NoProgress
    /\ \A i, p : Showing(i, p).status = i.status /\ Showing(i, p).progress = p
    /\ \A i, status : /\ EndedAs(i, status).status = status
                      /\ EndedAs(i, status).progress = i.progress
    /\ \A t, i, line : /\ Event(t, i, line).task = t
                       /\ Event(t, i, line).info = i
                       /\ Event(t, i, line).line = line
  BY DEF Started, Showing, EndedAs, Event

\* "No progress" is not complete progress, since a total is never negative.
LEMMA NoProgressIncomplete == ~Complete(NoProgress)
  BY TasksAssumption DEF Complete, NoProgress

\* What has been sent is never unsent, and a new event is sent.
LEMMA SendGrows ==
    ASSUME NEW e \in TaskEvent, events \in Seq(TaskEvent), events' = Append(events, e)
    PROVE  /\ events' \in Seq(TaskEvent)
           /\ \A t, line : Explained(t, line) => Explained(t, line)'
           /\ \A t : CompletionSent(t) => CompletionSent(t)'
           /\ Explained(e.task, e.line)'
           /\ Complete(e.info.progress) => CompletionSent(e.task)'
  <1>1. \A i \in DOMAIN events : i \in DOMAIN events' /\ events'[i] = events[i]
    OBVIOUS
  <1>2. Len(events) + 1 \in DOMAIN events' /\ events'[Len(events) + 1] = e
    OBVIOUS
  <1> QED
    BY <1>1, <1>2 DEF Explained, CompletionSent, Sent

\* Nothing sent, nothing changed.
LEMMA NoSend ==
    ASSUME UNCHANGED events
    PROVE  /\ \A t, line : Explained(t, line)' <=> Explained(t, line)
           /\ \A t : CompletionSent(t)' <=> CompletionSent(t)
  BY DEF Explained, CompletionSent, Sent

-----------------------------------------------------------------------------
(* The invariant holds initially and every step preserves it.              *)

LEMMA InitTasksInv == Init => TasksInv
  <1> SUFFICES ASSUME Init PROVE TasksInv
    OBVIOUS
  <1>1. TypeOK
    BY TasksAssumption, RecordTypes
       DEF Init, TypeOK, Thread, PC, RunnerPC, StopperPC, CommonPC
  <1>2. RunnerInv /\ VerdictHeld /\ VerdictSent
    BY TasksAssumption DEF Init, RunnerInv, VerdictHeld, VerdictSent, Thread
  <1>3. EndIsExplained /\ CompletionHeld
    BY RecordFields, NoProgressIncomplete DEF Init, EndIsExplained, CompletionHeld, Ended
  <1> QED
    BY <1>1, <1>2, <1>3 DEF TasksInv

\* The steps of `spawn`.
LEMMA SpawnKeepsInv ==
    ASSUME TasksInv, NEW t \in Task, Spawn(t)
    PROVE  TasksInv'
  <1> USE TasksAssumption DEF TasksInv, TypeOK, Thread, PC, RunnerPC, StopperPC, CommonPC
  <1>1. CASE SpawnPush(t)
    <2>1. TypeOK'
      BY <1>1, RingTypes DEF SpawnPush
    <2> QED
      BY <1>1, <2>1, NoSend DEF SpawnPush, RunnerInv, VerdictHeld, VerdictSent, EndIsExplained, CompletionHeld
  <1>2. CASE SpawnAnnounce(t)
    <2>1. Event(t, Started, NoLine) \in TaskEvent
      BY RecordTypes
    <2>2. events' = Append(events, Event(t, Started, NoLine))
      BY <1>2 DEF SpawnAnnounce
    <2>3. TypeOK'
      BY <1>2, <2>1, <2>2, SendGrows DEF SpawnAnnounce
    <2> QED
      BY <1>2, <2>1, <2>2, <2>3, SendGrows
         DEF SpawnAnnounce, RunnerInv, VerdictHeld, VerdictSent, EndIsExplained, CompletionHeld
  <1>3. CASE SpawnStart(t)
    <2>1. TypeOK'
      BY <1>3 DEF SpawnStart
    <2> QED
      BY <1>3, <2>1, NoSend DEF SpawnStart, RunnerInv, VerdictHeld, VerdictSent, EndIsExplained, CompletionHeld
  <1>4. CASE SpawnKeepAbort(t)
    <2>1. TypeOK'
      BY <1>4 DEF SpawnKeepAbort
    <2> QED
      BY <1>4, <2>1, NoSend DEF SpawnKeepAbort, RunnerInv, VerdictHeld, VerdictSent, EndIsExplained, CompletionHeld
  <1> QED
    BY <1>1, <1>2, <1>3, <1>4 DEF Spawn

\* Putting a line into the log: a verdict only if the task is to be finished.
LEMMA PushLineKeepsInv ==
    ASSUME TasksInv, NEW th \in Thread, pc[th] \in {"poll", "stopping"},
           NEW line \in Line, NEW next \in {"poll", "finish"},
           next = "finish" => line \in Ended,
           PushLine(th, line, next),
           steps' \in [Task -> Nat],
           UNCHANGED <<tasks, info, abort, aborted, recent, spawner, on, events>>
    PROVE  TasksInv'
  <1> USE TasksAssumption DEF TasksInv, TypeOK, Thread, PC, RunnerPC, StopperPC, CommonPC
  <1> DEFINE e == Event(on[th], info[on[th]], line)
  <1>0. on[th] \in Task /\ info[on[th]] \in TaskInfo
    OBVIOUS
  <1>1. /\ e \in TaskEvent /\ e.task = on[th] /\ e.line = line
    BY <1>0, RecordTypes DEF Event
  <1>2. /\ held' = [held EXCEPT ![th] = e]
        /\ then' = [then EXCEPT ![th] = next]
        /\ pc' = [pc EXCEPT ![th] = "logged"]
    BY DEF PushLine
  <1> HIDE DEF e
  <1>3. log' \in [Task -> Seq(Line)]
    BY RingTypes DEF PushLine
  <1>4. TypeOK'
    BY <1>1, <1>2, <1>3
  <1>5. RunnerInv' /\ VerdictSent' /\ EndIsExplained'
    BY <1>2, NoSend DEF RunnerInv, VerdictSent, EndIsExplained
  <1>6. VerdictHeld'
    BY <1>1, <1>2 DEF VerdictHeld
  <1>7. CompletionHeld'
    BY <1>2, NoSend DEF CompletionHeld
  <1> QED
    BY <1>4, <1>5, <1>6, <1>7

\* The rest of `log` and `finish`: copy the task, send, end the task.
LEMMA ReportKeepsInv ==
    ASSUME TasksInv, NEW th \in Thread, Report(th)
    PROVE  TasksInv'
  <1> USE TasksAssumption DEF TasksInv, TypeOK, Thread, PC, RunnerPC, StopperPC, CommonPC
  <1>0. held[th] \in TaskEvent /\ held[th].line \in Line \cup {NoLine}
    BY DEF TaskEvent
  <1>1. CASE LogSnapshot(th)
    <2> DEFINE e == Event(on[th], info[on[th]], held[th].line)
    <2>1. /\ e \in TaskEvent /\ e.task = on[th] /\ e.line = held[th].line
      BY <1>0, RecordTypes DEF Event
    <2>2. /\ pc[th] = "logged" /\ held' = [held EXCEPT ![th] = e]
          /\ pc' = [pc EXCEPT ![th] = "send"]
          /\ UNCHANGED <<tasks, info, log, abort, aborted, recent, spawner, on, then, steps, events>>
      BY <1>1 DEF LogSnapshot
    <2> HIDE DEF e
    <2>3. TypeOK'
      BY <2>1, <2>2
    <2>4. RunnerInv' /\ VerdictHeld'
      BY <2>1, <2>2 DEF RunnerInv, VerdictHeld
    <2>5. VerdictSent' /\ EndIsExplained'
      BY <2>2, NoSend DEF VerdictSent, EndIsExplained
    <2>6. CompletionHeld'
      BY <2>2, NoSend DEF CompletionHeld
    <2> QED
      BY <2>3, <2>4, <2>5, <2>6
  <1>2. CASE Send(th)
    <2>1. events' = Append(events, held[th])
      BY <1>2 DEF Send
    <2>2. TypeOK'
      BY <1>0, <1>2, <2>1, SendGrows DEF Send
    <2>3. RunnerInv' /\ VerdictHeld' /\ EndIsExplained'
      BY <1>0, <1>2, <2>1, SendGrows DEF Send, RunnerInv, VerdictHeld, EndIsExplained
    <2>4. VerdictSent'
      BY <1>0, <1>2, <2>1, SendGrows DEF Send, VerdictHeld, VerdictSent
    <2>5. CompletionHeld'
      BY <1>0, <1>2, <2>1, SendGrows DEF Send, CompletionHeld
    <2> QED
      BY <2>2, <2>3, <2>4, <2>5
  <1>3. CASE Finish(th) /\ info[on[th]].status = "Running"
    <2> DEFINE ended == EndedAs(info[on[th]], held[th].line)
               e == Event(on[th], ended, NoLine)
    <2>1. /\ held[th].line \in Ended /\ Explained(on[th], held[th].line)
          /\ pc[th] = "finish"
      BY <1>3 DEF Finish, VerdictSent
    <2>2. /\ ended \in TaskInfo /\ ended.status = held[th].line
          /\ ended.progress = info[on[th]].progress
      BY <2>1, RecordTypes DEF TaskStatus, EndedAs
    <2>3. /\ info' = [info EXCEPT ![on[th]] = ended]
          /\ held' = [held EXCEPT ![th] = e]
          /\ then' = [then EXCEPT ![th] = "done"]
          /\ pc' = [pc EXCEPT ![th] = "send"]
          /\ UNCHANGED <<tasks, log, abort, aborted, recent, spawner, on, steps, events>>
      BY <1>3 DEF Finish
    <2> HIDE DEF ended
    <2>4. e \in TaskEvent
      BY <2>2, RecordTypes
    <2> HIDE DEF e
    <2>5. TypeOK'
      BY <2>2, <2>3, <2>4
    <2>6. RunnerInv' /\ VerdictHeld' /\ VerdictSent'
      BY <2>1, <2>3, NoSend DEF RunnerInv, VerdictHeld, VerdictSent
    <2>7. EndIsExplained'
      BY <2>1, <2>2, <2>3, NoSend DEF EndIsExplained
    <2>8. CompletionHeld'
      <3> SUFFICES ASSUME NEW u \in Task, Complete(info[u].progress)'
                   PROVE  \/ CompletionSent(u)'
                          \/ /\ pc'[u] \in {"throttle", "send"}
                             /\ held'[u].task = u /\ Complete(held'[u].info.progress)
        BY DEF CompletionHeld
      <3>1. Complete(info[u].progress)
        BY <2>2, <2>3
      <3>2. CASE CompletionSent(u)
        BY <3>2, <2>3, NoSend
      <3>3. CASE pc[u] \in {"throttle", "send"} /\ held[u].task = u /\ Complete(held[u].info.progress)
        <4>1. u # th /\ pc'[u] = pc[u] /\ held'[u] = held[u]
          BY <2>1, <2>3, <3>3
        <4> QED
          BY <3>3, <4>1
      <3> QED
        BY <3>1, <3>2, <3>3 DEF CompletionHeld
    <2> QED
      BY <2>5, <2>6, <2>7, <2>8
  <1>4. CASE Finish(th) /\ info[on[th]].status # "Running"
    <2>1. /\ pc[th] = "finish" /\ pc' = [pc EXCEPT ![th] = "done"]
          /\ UNCHANGED <<tasks, info, log, abort, aborted, recent, spawner, on, then,
                          held, steps, events>>
      BY <1>4 DEF Finish
    <2> QED
      BY <2>1, NoSend DEF RunnerInv, VerdictHeld, VerdictSent, EndIsExplained, CompletionHeld
  <1> QED
    BY <1>1, <1>2, <1>3, <1>4 DEF Report

\* The steps of the work.
LEMMA WorkKeepsInv ==
    ASSUME TasksInv, NEW t \in Task, Work(t) \/ IntervalPasses(t)
    PROVE  TasksInv'
  <1> USE TasksAssumption DEF TasksInv, TypeOK, Thread, PC, RunnerPC, StopperPC, CommonPC
  <1>1. CASE Resume(t) \/ Cancel(t) \/ Await(t) \/ Panic(t)
    <2>1. TypeOK'
      BY <1>1 DEF Resume, Cancel, Await, Panic
    <2>2. /\ pc[t] \in {"await", "poll"}
          /\ \E x \in {"await", "poll", "cancelled", "panicked"} : pc' = [pc EXCEPT ![t] = x]
          /\ UNCHANGED <<info, spawner, on, then, held, events>>
      BY <1>1 DEF Resume, Cancel, Await, Panic
    <2>3. PICK x \in {"await", "poll", "cancelled", "panicked"} : pc' = [pc EXCEPT ![t] = x]
      BY <2>2
    <2>4. RunnerInv' /\ VerdictHeld' /\ VerdictSent'
      BY <2>2, <2>3, NoSend DEF RunnerInv, VerdictHeld, VerdictSent
    <2>5. EndIsExplained' /\ CompletionHeld'
      BY <2>2, <2>3, NoSend DEF EndIsExplained, CompletionHeld
    <2> QED
      BY <2>1, <2>4, <2>5
  <1>2. CASE WorkLog(t)
    <2>1. steps' \in [Task -> Nat]
      BY <1>2 DEF WorkLog
    <2> QED
      BY <1>2, <2>1, PushLineKeepsInv DEF WorkLog, Line
  <1>3. ASSUME NEW status \in {"Ok", "Error"}, WorkReturns(t, status) PROVE TasksInv'
    BY <1>3, PushLineKeepsInv DEF WorkReturns, Line, Ended
  <1>4. ASSUME NEW p \in Progress, WorkProgress(t, p) PROVE TasksInv'
    <2> DEFINE i == Showing(info[t], p)
               e == Event(t, i, NoLine)
    <2>1. /\ i \in TaskInfo /\ i.status = info[t].status /\ i.progress = p
          /\ e \in TaskEvent /\ e.task = t /\ e.info = i
      BY RecordTypes DEF Showing, Event
    <2>2. /\ pc[t] = "poll" /\ info' = [info EXCEPT ![t] = i]
          /\ held' = [held EXCEPT ![t] = e]
      BY <1>4 DEF WorkProgress
    <2> HIDE DEF i, e
    <2>3. TypeOK'
      <3>1. info' \in [Task -> TaskInfo] /\ held' \in [Thread -> TaskEvent]
        BY <2>1, <2>2
      <3>2. /\ pc' \in [Thread -> PC] /\ then' \in [Thread -> {"poll", "finish", "done"}]
            /\ steps' \in [Task -> Nat]
        BY <1>4 DEF WorkProgress
      <3>3. UNCHANGED <<tasks, log, abort, aborted, recent, spawner, on, events>>
        BY <1>4 DEF WorkProgress
      <3> QED
        BY <3>1, <3>2, <3>3
    <2>4. RunnerInv' /\ VerdictHeld' /\ VerdictSent' /\ EndIsExplained'
      BY <1>4, <2>1, <2>2, NoSend
         DEF WorkProgress, RunnerInv, VerdictHeld, VerdictSent, EndIsExplained
    <2>5. CompletionHeld'
      <3>1. pc' = [pc EXCEPT ![t] = "throttle"] /\ UNCHANGED events
        BY <1>4 DEF WorkProgress
      <3> SUFFICES ASSUME NEW u \in Task, Complete(info[u].progress)'
                   PROVE  \/ CompletionSent(u)'
                          \/ /\ pc'[u] \in {"throttle", "send"}
                             /\ held'[u].task = u /\ Complete(held'[u].info.progress)
        BY DEF CompletionHeld
      <3>2. CASE u = t
        BY <2>1, <2>2, <3>1, <3>2
      <3>3. CASE u # t
        <4>1. info'[u] = info[u] /\ held'[u] = held[u] /\ pc'[u] = pc[u]
          BY <2>2, <3>1, <3>3
        <4> QED
          BY <3>1, <4>1, NoSend DEF CompletionHeld
      <3> QED
        BY <3>2, <3>3
    <2> QED
      BY <2>3, <2>4, <2>5
  <1>5. CASE Throttle(t)
    <2>1. TypeOK'
      BY <1>5 DEF Throttle
    <2>2. RunnerInv' /\ VerdictHeld' /\ VerdictSent' /\ EndIsExplained'
      BY <1>5, NoSend DEF Throttle, RunnerInv, VerdictHeld, VerdictSent, EndIsExplained
    <2>3. CompletionHeld'
      <3>1. CASE Throttled(t)
        <4>1. pc' = [pc EXCEPT ![t] = "poll"] /\ UNCHANGED <<info, held, events>>
          BY <1>5, <3>1 DEF Throttle
        <4> QED
          BY <3>1, <4>1, NoSend DEF Throttled, CompletionHeld
      <3>2. CASE ~Throttled(t)
        <4>1. pc' = [pc EXCEPT ![t] = "send"] /\ UNCHANGED <<info, held, events>>
          BY <1>5, <3>2 DEF Throttle
        <4> QED
          BY <4>1, NoSend DEF CompletionHeld
      <3> QED
        BY <3>1, <3>2
    <2> QED
      BY <2>1, <2>2, <2>3
  <1>6. CASE WorkClearProgress(t)
    <2> DEFINE i == Showing(info[t], NoProgress)
               e == Event(t, i, NoLine)
    <2>1. /\ i \in TaskInfo /\ i.status = info[t].status /\ i.progress = NoProgress
          /\ e \in TaskEvent
      BY RecordTypes DEF Showing, Event
    <2>2. /\ pc[t] = "poll" /\ info' = [info EXCEPT ![t] = i]
          /\ held' = [held EXCEPT ![t] = e]
      BY <1>6 DEF WorkClearProgress
    <2> HIDE DEF i, e
    <2>3. TypeOK'
      BY <1>6, <2>1, <2>2 DEF WorkClearProgress
    <2> QED
      BY <1>6, <2>1, <2>2, <2>3, NoSend, NoProgressIncomplete
         DEF WorkClearProgress, RunnerInv, VerdictHeld, VerdictSent, EndIsExplained, CompletionHeld
  <1>7. CASE IntervalPasses(t)
    <2>1. TypeOK'
      BY <1>7 DEF IntervalPasses
    <2> QED
      BY <1>7, <2>1, NoSend
         DEF IntervalPasses, RunnerInv, VerdictHeld, VerdictSent, EndIsExplained, CompletionHeld
  <1> QED
    BY <1>1, <1>2, <1>3, <1>4, <1>5, <1>6, <1>7 DEF Work

\* The steps of a stop before it logs its verdict, and the logging.
LEMMA StopKeepsInv ==
    ASSUME TasksInv, NEW s \in Stopper, Stop(s)
    PROVE  TasksInv'
  <1> USE TasksAssumption DEF TasksInv, TypeOK, Thread, PC, RunnerPC, StopperPC, CommonPC
  <1>1. ASSUME NEW user \in User, StopFind(s, user) PROVE TasksInv'
    <2>1. TypeOK'
      BY <1>1 DEF StopFind
    <2> QED
      BY <1>1, <2>1, NoSend
         DEF StopFind, RunnerInv, VerdictHeld, VerdictSent, EndIsExplained, CompletionHeld
  <1>2. CASE StopAbort(s)
    <2>1. TypeOK'
      <3>1. on[s] \in Task /\ s \in Thread
        OBVIOUS
      <3> QED
        BY <1>2, <3>1 DEF StopAbort
    <2> QED
      BY <1>2, <2>1, NoSend
         DEF StopAbort, RunnerInv, VerdictHeld, VerdictSent, EndIsExplained, CompletionHeld
  <1>3. CASE StopLog(s)
    BY <1>3, PushLineKeepsInv DEF StopLog, Line, Ended
  <1> QED
    BY <1>1, <1>2, <1>3 DEF Stop

LEMMA NextTasksInv == TasksInv /\ [Next]_vars => TasksInv'
  <1> SUFFICES ASSUME TasksInv, [Next]_vars PROVE TasksInv'
    OBVIOUS
  <1>1. CASE UNCHANGED vars
    BY <1>1, NoSend
       DEF vars, TasksInv, TypeOK, RunnerInv, VerdictHeld, VerdictSent, EndIsExplained, CompletionHeld
  <1> QED
    BY <1>1, SpawnKeepsInv, WorkKeepsInv, StopKeepsInv, ReportKeepsInv DEF Next

-----------------------------------------------------------------------------
(* Theorems.                                                               *)

\* The strengthened invariant holds in every reachable state of the task manager.
THEOREM TasksInvariant == Spec => []TasksInv
  <1> QED
    BY InitTasksInv, NextTasksInv, PTL DEF Spec

\* Every field of every task, event and thread keeps its type; in particular
\* `finish` only ever writes an ending.
THEOREM TasksTypeCorrect == Spec => []TypeOK
  <1>1. TasksInv => TypeOK
    BY DEF TasksInv
  <1> QED
    BY <1>1, TasksInvariant, PTL

\* However many stops race with a task's runner, a task's ending was streamed as
\* a log line before its status says so.
THEOREM TasksExplainEndings == Spec => []EndIsExplained
  <1>1. TasksInv => EndIsExplained
    BY DEF TasksInv
  <1> QED
    BY <1>1, TasksInvariant, PTL

\* Throttling never swallows the progress that completes a task's total.
THEOREM TasksTellCompletion == Spec => []CompletionIsTold
  <1>1. TasksInv => CompletionIsTold
    BY DEF TasksInv, CompletionHeld, CompletionIsTold
  <1> QED
    BY <1>1, TasksInvariant, PTL

\* The first `finish` decides how a task ended; no step changes it afterwards.
LEMMA StepKeepsEnding ==
    ASSUME TasksInv, [Next]_vars, NEW t \in Task, info[t].status \in Ended
    PROVE  info'[t].status = info[t].status
  <1> USE DEF TasksInv, TypeOK
  <1>1. ASSUME NEW u \in Task, NEW p, info' = [info EXCEPT ![u] = Showing(info[u], p)]
        PROVE  info'[t].status = info[t].status
    BY <1>1 DEF Showing
  <1>2. ASSUME NEW u \in Task, Spawn(u) PROVE info' = info
    BY <1>2 DEF Spawn, SpawnPush, SpawnAnnounce, SpawnStart, SpawnKeepAbort
  <1>3. ASSUME NEW u \in Task, Work(u) \/ IntervalPasses(u)
        PROVE  info' = info \/ \E p : info' = [info EXCEPT ![u] = Showing(info[u], p)]
    BY <1>3 DEF Work, Resume, Cancel, Await, WorkLog, WorkProgress, Throttle,
                WorkClearProgress, WorkReturns, Panic, IntervalPasses
  <1>4. ASSUME NEW s \in Stopper, Stop(s) PROVE info' = info
    BY <1>4 DEF Stop, StopFind, StopAbort, StopLog
  <1>5. ASSUME NEW th \in Thread, Report(th) PROVE info'[t].status = info[t].status
    <2>1. CASE LogSnapshot(th) \/ Send(th)
      BY <2>1 DEF LogSnapshot, Send
    <2>2. CASE Finish(th) /\ info[on[th]].status = "Running"
      <3>1. on[th] # t
        BY <2>2 DEF Ended
      <3>2. info' = [info EXCEPT ![on[th]] = EndedAs(info[on[th]], held[th].line)]
        BY <2>2 DEF Finish
      <3> QED
        BY <3>1, <3>2
    <2>3. CASE Finish(th) /\ info[on[th]].status # "Running"
      BY <2>3 DEF Finish
    <2> QED
      BY <1>5, <2>1, <2>2, <2>3 DEF Report
  <1> QED
    BY <1>1, <1>2, <1>3, <1>4, <1>5 DEF Next, vars

\* A task ends once, for any number of racing runners and stops.
THEOREM TasksEndOnce == Spec => EndIsFinal
  <1>1. TasksInv /\ [Next]_vars =>
          [\A t \in Task : info[t].status \in Ended => info'[t].status = info[t].status]_vars
    BY StepKeepsEnding
  <1> QED
    BY <1>1, TasksInvariant, PTL DEF Spec, EndIsFinal
-----------------------------------------------------------------------------
(* What the events of the channel say of the tasks they are about.         *)

Spawned(t) == spawner[t] # "new"

\* The deque holds no task twice, and none that was not pushed onto it.
DequeInv ==
    /\ \A i, j \in DOMAIN tasks : tasks[i] = tasks[j] => i = j
    /\ \A i \in DOMAIN tasks : Spawned(tasks[i])

\* A thread reports on its own task, once there is one, and an event that shows
\* an ending shows the one that the task has.
HeldInv ==
    \A th \in Thread :
        /\ held[th].task = on[th]
        /\ pc[th] \in {"logged", "throttle", "send", "finish", "abort", "stopping"} => Spawned(on[th])
        /\ held[th].info.status \in Ended => info[on[th]].status = held[th].info.status

SentInv ==
    \A i \in DOMAIN events :
        /\ Spawned(events[i].task)
        /\ events[i].info.status \in Ended => info[events[i].task].status = events[i].info.status

\* Of the events about a task one was the last.
LastInv ==
    \A t \in Task : Sent(t) # {} => \E i \in Sent(t) : \A j \in Sent(t) : j <= i

ToldInv == TasksInv /\ DequeInv /\ HeldInv /\ SentInv /\ LastInv

\* An event is sent by `spawn`, which announces its task, or by the thread that
\* holds it; nothing else is ever appended, and nothing taken back.
LEMMA WhatIsSent ==
    ASSUME TasksInv, [Next]_vars
    PROVE  \/ UNCHANGED events
           \/ \E t \in Task : /\ spawner[t] = "pushed" /\ UNCHANGED held
                              /\ events' = Append(events, Event(t, Started, NoLine))
           \/ \E th \in Thread : /\ pc[th] = "send" /\ UNCHANGED held
                                 /\ events' = Append(events, held[th])
  <1>1. ASSUME NEW t \in Task, Spawn(t)
        PROVE  UNCHANGED events \/ /\ spawner[t] = "pushed" /\ UNCHANGED held
                                   /\ events' = Append(events, Event(t, Started, NoLine))
    BY <1>1 DEF Spawn, SpawnPush, SpawnAnnounce, SpawnStart, SpawnKeepAbort
  <1>2. ASSUME NEW t \in Task, Work(t) \/ IntervalPasses(t) PROVE UNCHANGED events
    BY <1>2 DEF Work, Resume, Cancel, Await, WorkLog, WorkProgress, Throttle,
                WorkClearProgress, WorkReturns, Panic, IntervalPasses
  <1>3. ASSUME NEW s \in Stopper, Stop(s) PROVE UNCHANGED events
    BY <1>3 DEF Stop, StopFind, StopAbort, StopLog
  <1>4. ASSUME NEW th \in Thread, Report(th)
        PROVE  UNCHANGED events \/ (pc[th] = "send" /\ UNCHANGED held /\ events' = Append(events, held[th]))
    BY <1>4 DEF Report, LogSnapshot, Send, Finish
  <1> QED
    BY <1>1, <1>2, <1>3, <1>4 DEF Next, vars

\* What a thread holds, it copied from its task as the task is after the step.
LEMMA WhatIsHeld ==
    ASSUME TasksInv, [Next]_vars, NEW th \in Thread
    PROVE  /\ on' = on
           /\ held'[th] = held[th] \/ (held'[th].task = on[th] /\ held'[th].info = info'[on[th]])
  <1> USE DEF Thread
  <1>0. /\ on \in [Thread -> Task] /\ held \in [Thread -> TaskEvent] /\ info \in [Task -> TaskInfo]
        /\ \A t \in Task : on[t] = t
    BY DEF TasksInv, TypeOK, RunnerInv
  <1>1. ASSUME NEW t \in Task, Spawn(t) PROVE UNCHANGED <<on, held>>
    BY <1>1 DEF Spawn, SpawnPush, SpawnAnnounce, SpawnStart, SpawnKeepAbort
  <1>2. ASSUME NEW u \in Thread, NEW line, NEW i, held' = [held EXCEPT ![u] = Event(on[u], i, line)],
               i = info'[on[u]], UNCHANGED on
        PROVE  /\ on' = on
               /\ held'[th] = held[th] \/ (held'[th].task = on[th] /\ held'[th].info = info'[on[th]])
    BY <1>0, <1>2, RecordFields
  <1>3. ASSUME NEW t \in Task, Work(t) \/ IntervalPasses(t)
        PROVE  /\ on' = on
               /\ \/ held' = held
                  \/ \E i, line : held' = [held EXCEPT ![t] = Event(on[t], i, line)] /\ i = info'[on[t]]
    <2>1. CASE Resume(t) \/ Cancel(t) \/ Await(t) \/ Panic(t) \/ Throttle(t) \/ IntervalPasses(t)
      BY <2>1 DEF Resume, Cancel, Await, Panic, Throttle, IntervalPasses
    <2>2. CASE WorkLog(t) \/ \E status \in {"Ok", "Error"} : WorkReturns(t, status)
      BY <1>0, <2>2 DEF WorkLog, WorkReturns, PushLine
    <2>3. ASSUME NEW p \in Progress, WorkProgress(t, p)
          PROVE  on' = on /\ \E i, line : /\ held' = [held EXCEPT ![t] = Event(on[t], i, line)]
                                          /\ i = info'[on[t]]
      BY <1>0, <2>3 DEF WorkProgress
    <2>4. CASE WorkClearProgress(t)
      BY <1>0, <2>4 DEF WorkClearProgress
    <2> QED
      BY <1>3, <2>1, <2>2, <2>3, <2>4 DEF Work
  <1>4. ASSUME NEW s \in Stopper, Stop(s)
        PROVE  /\ on' = on
               /\ \/ held' = held
                  \/ \E i, line : held' = [held EXCEPT ![s] = Event(on[s], i, line)] /\ i = info'[on[s]]
    BY <1>0, <1>4 DEF Stop, StopFind, StopAbort, StopLog, PushLine
  <1>5. ASSUME NEW u \in Thread, Report(u)
        PROVE  /\ on' = on
               /\ \/ held' = held
                  \/ \E i, line : held' = [held EXCEPT ![u] = Event(on[u], i, line)] /\ i = info'[on[u]]
    <2>1. CASE LogSnapshot(u) BY <2>1 DEF LogSnapshot
    <2>2. CASE Send(u) BY <2>2 DEF Send
    <2>3. CASE Finish(u) BY <1>0, <2>3 DEF Finish
    <2> QED BY <1>5, <2>1, <2>2, <2>3 DEF Report
  <1>6. CASE UNCHANGED vars BY <1>6 DEF vars
  <1> QED
    BY <1>1, <1>2, <1>3, <1>4, <1>5, <1>6 DEF Next

\* The deque changes only when `spawn` pushes a task, which is spawned from then
\* on; a task stays spawned.
LEMMA WhatIsSpawned ==
    ASSUME TasksInv, [Next]_vars
    PROVE  /\ \A t \in Task : Spawned(t) => Spawned(t)'
           /\ \/ UNCHANGED tasks /\ \A t \in Task : Spawned(t)' => Spawned(t)
              \/ \E t \in Task : SpawnPush(t)
  <1>0. spawner \in [Task -> {"new", "pushed", "announced", "started", "returned"}]
    BY DEF TasksInv, TypeOK
  <1>1. ASSUME NEW t \in Task, Spawn(t), ~SpawnPush(t)
        PROVE  /\ spawner[t] # "new" /\ UNCHANGED tasks
               /\ \E x \in {"announced", "started", "returned"} : spawner' = [spawner EXCEPT ![t] = x]
    BY <1>1 DEF Spawn, SpawnAnnounce, SpawnStart, SpawnKeepAbort
  <1>2. ASSUME NEW t \in Task, SpawnPush(t)
        PROVE  \A u \in Task : Spawned(u) => Spawned(u)'
    BY <1>0, <1>2 DEF SpawnPush, Spawned
  <1>3. ASSUME NEW t \in Task, Work(t) \/ IntervalPasses(t) PROVE UNCHANGED <<tasks, spawner>>
    BY <1>3 DEF Work, Resume, Cancel, Await, WorkLog, WorkProgress, Throttle,
                WorkClearProgress, WorkReturns, Panic, IntervalPasses
  <1>4. ASSUME NEW s \in Stopper, Stop(s) PROVE UNCHANGED <<tasks, spawner>>
    BY <1>4 DEF Stop, StopFind, StopAbort, StopLog
  <1>5. ASSUME NEW th \in Thread, Report(th) PROVE UNCHANGED <<tasks, spawner>>
    BY <1>5 DEF Report, LogSnapshot, Send, Finish
  <1>6. CASE UNCHANGED <<tasks, spawner>> BY <1>6 DEF Spawned
  <1>7. ASSUME NEW t \in Task, Spawn(t), ~SpawnPush(t)
        PROVE  UNCHANGED tasks /\ \A u \in Task : Spawned(u) <=> Spawned(u)'
    BY <1>0, <1>1, <1>7 DEF Spawned
  <1> QED
    BY <1>2, <1>3, <1>4, <1>5, <1>6, <1>7 DEF Next, vars

\* A stop moves by its own steps.
LEMMA WhoMoves ==
    ASSUME TasksInv, [Next]_vars, NEW s \in Stopper, pc'[s] # pc[s]
    PROVE  Stop(s) \/ Report(s)
  <1>0. pc \in [Thread -> PC] /\ s \in Thread /\ s \notin Task
    BY TasksAssumption DEF TasksInv, TypeOK, Thread
  <1>1. ASSUME NEW t \in Task, Spawn(t) PROVE pc'[s] = pc[s]
    BY <1>0, <1>1 DEF Spawn, SpawnPush, SpawnAnnounce, SpawnStart, SpawnKeepAbort
  <1>2. ASSUME NEW t \in Task, Work(t) \/ IntervalPasses(t) PROVE pc'[s] = pc[s]
    <2>1. CASE Resume(t) \/ Cancel(t) \/ Await(t) \/ Panic(t) \/ Throttle(t) \/ IntervalPasses(t)
      BY <1>0, <2>1 DEF Resume, Cancel, Await, Panic, Throttle, IntervalPasses
    <2>2. CASE WorkLog(t) \/ \E status \in {"Ok", "Error"} : WorkReturns(t, status)
      BY <1>0, <2>2 DEF WorkLog, WorkReturns, PushLine
    <2>3. CASE WorkClearProgress(t) \/ \E p \in Progress : WorkProgress(t, p)
      BY <1>0, <2>3 DEF WorkProgress, WorkClearProgress
    <2> QED
      BY <1>2, <2>1, <2>2, <2>3 DEF Work
  <1>3. ASSUME NEW u \in Stopper, u # s, Stop(u) PROVE pc'[s] = pc[s]
    BY <1>0, <1>3 DEF Stop, StopFind, StopAbort, StopLog, PushLine
  <1>4. ASSUME NEW th \in Thread, th # s, Report(th) PROVE pc'[s] = pc[s]
    BY <1>0, <1>4 DEF Report, LogSnapshot, Send, Finish
  <1> QED
    BY <1>1, <1>2, <1>3, <1>4 DEF Next, vars

\* What is pushed onto a deque is on it once.
LEMMA DequeKept ==
    ASSUME TasksInv, DequeInv, [Next]_vars
    PROVE  DequeInv'
  <1>0. /\ tasks \in Seq(Task)
        /\ spawner \in [Task -> {"new", "pushed", "announced", "started", "returned"}]
    BY DEF TasksInv, TypeOK
  <1>1. CASE UNCHANGED tasks /\ \A t \in Task : Spawned(t) => Spawned(t)'
    BY <1>0, <1>1 DEF DequeInv
  <1>2. ASSUME NEW t \in Task, SpawnPush(t) PROVE DequeInv'
    <2>1. /\ Evict(tasks) \in Seq(Task)
          /\ \A i \in DOMAIN Evict(tasks) : \E k \in DOMAIN tasks : Evict(tasks)[i] = tasks[k]
          /\ \A i, j \in DOMAIN Evict(tasks) : Evict(tasks)[i] = Evict(tasks)[j] => i = j
      <3>1. CASE Len(tasks) < KEEP
        BY <1>0, <3>1, TasksAssumption DEF Evict, DequeInv
      <3>2. CASE Len(tasks) >= KEEP
        <4>1. Evict(tasks) = Tail(tasks) /\ tasks # <<>>
          BY <1>0, <3>2, TasksAssumption DEF Evict
        <4>2. /\ Tail(tasks) \in Seq(Task) /\ Len(Tail(tasks)) = Len(tasks) - 1
              /\ \A i \in 1 .. Len(tasks) - 1 : Tail(tasks)[i] = tasks[i + 1]
          BY <1>0, <4>1
        <4>3. \A i \in 1 .. Len(tasks) - 1 : i + 1 \in DOMAIN tasks
          BY <1>0
        <4> QED
          BY <1>0, <4>1, <4>2, <4>3 DEF DequeInv
      <3> QED
        BY <1>0, <3>1, <3>2, TasksAssumption
    <2>2. /\ tasks' = Append(Evict(tasks), t) /\ spawner[t] = "new"
          /\ spawner' = [spawner EXCEPT ![t] = "pushed"]
      BY <1>2 DEF SpawnPush
    <2>3. \A i \in DOMAIN Evict(tasks) : Evict(tasks)[i] # t /\ spawner[Evict(tasks)[i]] # "new"
      BY <2>1, <2>2 DEF DequeInv, Spawned
    <2> DEFINE q == Evict(tasks)
    <2> HIDE DEF q
    <2>4. q \in Seq(Task) /\ tasks' = Append(q, t)
      BY <2>1, <2>2 DEF q
    <2>5. /\ DOMAIN tasks' = 1 .. Len(q) + 1 /\ tasks'[Len(q) + 1] = t
          /\ \A i \in 1 .. Len(q) : tasks'[i] = q[i] /\ i \in DOMAIN q
      BY <2>4
    <2>6. \A i \in 1 .. Len(q) : q[i] \in Task /\ q[i] # t /\ spawner'[q[i]] # "new"
      BY <1>0, <2>1, <2>2, <2>3, <2>4 DEF q
    <2>7. \A i, j \in 1 .. Len(q) : q[i] = q[j] => i = j
      BY <2>1, <2>4 DEF q
    <2>8. spawner'[t] = "pushed"
      BY <1>0, <2>2
    <2>9. Len(q) \in Nat
      BY <2>4
    <2>10. \A i \in DOMAIN tasks' : i \in 1 .. Len(q) \/ i = Len(q) + 1
      BY <2>5, <2>9
    <2>11. \A i, j \in DOMAIN tasks' : tasks'[i] = tasks'[j] => i = j
      BY <2>5, <2>6, <2>7, <2>10
    <2>12. \A i \in DOMAIN tasks' : spawner'[tasks'[i]] # "new"
      BY <2>5, <2>6, <2>8, <2>10
    <2> QED
      BY <2>11, <2>12 DEF DequeInv, Spawned
  <1> QED
    BY <1>1, <1>2, WhatIsSpawned

\* No step makes a thread hold, or sends, an ending that is not the task's.
LEMMA HeldKept ==
    ASSUME TasksInv, TasksInv', DequeInv, HeldInv, [Next]_vars
    PROVE  HeldInv'
  <1> SUFFICES ASSUME NEW th \in Thread
               PROVE  /\ held'[th].task = on'[th]
                      /\ pc'[th] \in {"logged", "throttle", "send", "finish", "abort", "stopping"} =>
                            Spawned(on[th])'
                      /\ held'[th].info.status \in Ended =>
                            info'[on'[th]].status = held'[th].info.status
    BY DEF HeldInv
  <1>0. on[th] \in Task /\ (th \in Task => on[th] = th)
    BY DEF TasksInv, TypeOK, RunnerInv
  <1>1. on' = on /\ (held'[th] = held[th] \/ (held'[th].task = on[th] /\ held'[th].info = info'[on[th]]))
    BY WhatIsHeld
  <1>2. held'[th].task = on'[th]
    BY <1>1 DEF HeldInv
  <1>3. ASSUME held'[th].info.status \in Ended PROVE info'[on[th]].status = held'[th].info.status
    <2>1. CASE held'[th] = held[th]
      <3>1. info[on[th]].status = held[th].info.status
        BY <1>3, <2>1 DEF HeldInv
      <3>2. info'[on[th]].status = info[on[th]].status
        BY <1>0, <1>3, <2>1, <3>1, StepKeepsEnding
      <3> QED
        BY <2>1, <3>1, <3>2
    <2>2. CASE held'[th].info = info'[on[th]]
      BY <2>2
    <2> QED
      BY <1>1, <2>1, <2>2
  <1>4. ASSUME pc'[th] \in {"logged", "throttle", "send", "finish", "abort", "stopping"}
        PROVE  Spawned(on[th])'
    <2>1. CASE th \in Task
      <3>1. spawner'[th] # "new"
        BY <1>4, <2>1 DEF TasksInv, RunnerInv
      <3> QED
        BY <1>0, <1>1, <2>1, <3>1 DEF Spawned
    <2>2. CASE th \in Stopper
      <3>1. CASE pc'[th] = pc[th]
        <4>1. Spawned(on[th]) BY <1>4, <3>1 DEF HeldInv
        <4>2. Spawned(on[th]) => spawner'[on[th]] # "new" BY <1>0, WhatIsSpawned DEF Spawned
        <4> QED BY <1>1, <4>1, <4>2 DEF Spawned
      <3>2. CASE pc'[th] # pc[th]
        <4>1. Stop(th) \/ Report(th)
          BY <2>2, <3>2, WhoMoves
        <4>2. ASSUME NEW user \in User, StopFind(th, user) PROVE spawner[on[th]] # "new"
          <5>1. pc' = [pc EXCEPT ![th] = IF Find(user, on[th]) THEN "abort" ELSE "done"]
            BY <4>2 DEF StopFind
          <5>2. pc \in [Thread -> PC] BY DEF TasksInv, TypeOK
          <5>3. Find(user, on[th]) BY <1>4, <5>1, <5>2
          <5>4. PICK i \in DOMAIN tasks : tasks[i] = on[th] BY <5>3 DEF Find
          <5> QED
            BY <5>4 DEF DequeInv, Spawned
        <4>3. ASSUME StopAbort(th) \/ StopLog(th) \/ Report(th) PROVE spawner[on[th]] # "new"
          <5>1. pc[th] \in {"logged", "send", "finish", "abort", "stopping"}
            BY <4>3 DEF StopAbort, StopLog, Report, LogSnapshot, Send, Finish
          <5> QED
            BY <5>1 DEF HeldInv, Spawned
        <4>4. spawner[on[th]] # "new"
          BY <4>1, <4>2, <4>3 DEF Stop
        <4>5. spawner'[on[th]] # "new" BY <1>0, <4>4, WhatIsSpawned DEF Spawned
        <4> QED
          BY <1>1, <4>5 DEF Spawned
      <3> QED
        BY <3>1, <3>2
    <2> QED
      BY <2>1, <2>2 DEF Thread
  <1> QED
    BY <1>1, <1>2, <1>3, <1>4

\* One more event: what a property of the events has to be shown of.
LEMMA OneMoreEvent ==
    ASSUME NEW e \in TaskEvent, events \in Seq(TaskEvent), events' = Append(events, e)
    PROVE  /\ DOMAIN events = 1 .. Len(events) /\ DOMAIN events' = 1 .. Len(events) + 1
           /\ Len(events') = Len(events) + 1 /\ Len(events) \in Nat
           /\ \A i \in DOMAIN events : i \in DOMAIN events' /\ events'[i] = events[i]
           /\ \A i \in DOMAIN events' : i \in DOMAIN events \/ i = Len(events) + 1
           /\ events'[Len(events) + 1] = e
  OBVIOUS

LEMMA SentKept ==
    ASSUME TasksInv, TasksInv', HeldInv, SentInv, [Next]_vars
    PROVE  SentInv'
  <1>0. events \in Seq(TaskEvent) /\ on \in [Thread -> Task] /\ held \in [Thread -> TaskEvent]
    BY DEF TasksInv, TypeOK
  <1>1. ASSUME NEW i \in DOMAIN events
        PROVE  /\ spawner'[events[i].task] # "new"
               /\ events[i].info.status \in Ended =>
                     info'[events[i].task].status = events[i].info.status
    <2>1. events[i].task \in Task
      <3>1. events[i] \in TaskEvent BY <1>0, <1>1
      <3> QED BY <3>1 DEF TaskEvent
    <2>2. spawner'[events[i].task] # "new" BY <1>1, <2>1, WhatIsSpawned DEF SentInv, Spawned
    <2>3. events[i].info.status \in Ended => info'[events[i].task].status = events[i].info.status
      BY <1>1, <2>1, StepKeepsEnding DEF SentInv
    <2> QED BY <2>2, <2>3
  <1>2. ASSUME NEW e \in TaskEvent, events' = Append(events, e), spawner'[e.task] # "new",
               e.info.status \in Ended => info'[e.task].status = e.info.status
        PROVE  SentInv'
    <2> SUFFICES ASSUME NEW i \in DOMAIN events'
                 PROVE  /\ spawner'[events'[i].task] # "new"
                        /\ events'[i].info.status \in Ended =>
                              info'[events'[i].task].status = events'[i].info.status
      BY DEF SentInv, Spawned
    <2>1. CASE i \in DOMAIN events
      <3>1. events'[i] = events[i] BY <1>0, <1>2, <2>1, OneMoreEvent
      <3> QED BY <1>1, <2>1, <3>1
    <2>2. CASE i = Len(events) + 1
      <3>1. events'[i] = e BY <1>0, <1>2, <2>2, OneMoreEvent
      <3> QED BY <1>2, <3>1
    <2> QED BY <1>0, <1>2, <2>1, <2>2, OneMoreEvent
  <1>3. CASE UNCHANGED events
    BY <1>1, <1>3 DEF SentInv, Spawned
  <1>4. ASSUME NEW t \in Task, spawner[t] = "pushed", events' = Append(events, Event(t, Started, NoLine))
        PROVE  SentInv'
    <2>1. /\ Event(t, Started, NoLine) \in TaskEvent /\ Event(t, Started, NoLine).task = t
          /\ Event(t, Started, NoLine).info.status \notin Ended
      BY RecordTypes, RecordFields DEF Ended
    <2>2. spawner'[t] # "new" BY <1>4, WhatIsSpawned DEF Spawned
    <2> QED BY <1>2, <1>4, <2>1, <2>2
  <1>5. ASSUME NEW th \in Thread, pc[th] = "send", UNCHANGED held, events' = Append(events, held[th])
        PROVE  SentInv'
    <2>1. held[th] \in TaskEvent /\ held[th].task = on[th] /\ on[th] \in Task
      BY <1>0 DEF HeldInv
    <2>2. spawner[on[th]] # "new" BY <1>5 DEF HeldInv, Spawned
    <2>3. spawner'[on[th]] # "new" BY <2>1, <2>2, WhatIsSpawned DEF Spawned
    <2>4. held[th].info.status \in Ended => info'[on[th]].status = held[th].info.status
      BY <2>1, StepKeepsEnding DEF HeldInv
    <2> QED BY <1>2, <1>5, <2>1, <2>3, <2>4
  <1> QED
    BY <1>3, <1>4, <1>5, WhatIsSent

LEMMA LastKept ==
    ASSUME TasksInv, LastInv, [Next]_vars
    PROVE  LastInv'
  <1>0. events \in Seq(TaskEvent) /\ held \in [Thread -> TaskEvent]
    BY DEF TasksInv, TypeOK
  <1>1. ASSUME NEW e \in TaskEvent, events' = Append(events, e)
        PROVE  LastInv'
    <2> SUFFICES ASSUME NEW t \in Task, Sent(t)' # {}
                 PROVE  \E i \in Sent(t)' : \A j \in Sent(t)' : j <= i
      BY DEF LastInv
    <2>1. CASE e.task = t
      <3>1. Len(events) + 1 \in Sent(t)' BY <1>0, <1>1, <2>1, OneMoreEvent DEF Sent
      <3>2. \A j \in Sent(t)' : j <= Len(events) + 1 BY <1>0, <1>1, OneMoreEvent DEF Sent
      <3> QED BY <3>1, <3>2
    <2>2. CASE e.task # t
      <3>1. Sent(t)' = Sent(t) BY <1>0, <1>1, <2>2, OneMoreEvent DEF Sent
      <3> QED BY <3>1 DEF LastInv
    <2> QED BY <2>1, <2>2
  <1>2. CASE UNCHANGED events
    BY <1>2 DEF LastInv, Sent
  <1>3. \A t \in Task : Event(t, Started, NoLine) \in TaskEvent
    BY RecordTypes
  <1> QED
    BY <1>0, <1>1, <1>2, <1>3, WhatIsSent

LEMMA ToldKept == ToldInv /\ [Next]_vars => ToldInv'
  BY NextTasksInv, DequeKept, HeldKept, SentKept, LastKept DEF ToldInv

LEMMA ToldInit == Init => ToldInv
  <1> SUFFICES ASSUME Init PROVE ToldInv
    OBVIOUS
  <1>1. tasks = <<>> /\ events = <<>> /\ spawner = [t \in Task |-> "new"]
    BY DEF Init
  <1>2. DequeInv /\ SentInv /\ LastInv
    BY <1>1 DEF DequeInv, SentInv, LastInv, Sent
  <1>3. HeldInv
    <2>1. \A th \in Thread : held[th] = Event(on[th], Started, NoLine) /\ pc[th] \in {"unborn", "idle"}
      BY DEF Init
    <2> QED
      BY <2>1, RecordFields DEF HeldInv, Ended
  <1> QED
    BY <1>2, <1>3, InitTasksInv DEF ToldInv

-----------------------------------------------------------------------------
(* What a browser is shown.                                                *)

\* A detail on its way to a browser is about a task of its user.
DetailInv ==
    \A b \in Browser : detail[b] # NoDetail => Mine(b, detail[b].task) /\ details[b] > 0

\* A receiver has read no further than what was sent.
CursorInv == \A b \in Browser : cursor[b] <= Len(events) + 1

StreamInv == TasksInv /\ StreamTypeOK /\ DetailInv /\ CursorInv /\ OwnTasksOnly

\* A frame changes the tasks it carries, in the store of its browser, and
\* nothing else.
LEMMA UpsertShows ==
    ASSUME view \in [Browser -> [Task -> TaskInfo \cup {Unseen}]],
           NEW b \in Browser, NEW S, NEW new,
           \A t \in Task \cap S : new[t] \in TaskInfo,
           Upsert(b, S, new)
    PROVE  /\ view' \in [Browser -> [Task -> TaskInfo \cup {Unseen}]]
           /\ \A c \in Browser \ {b} : view'[c] = view[c]
           /\ \A t \in Task : view'[b][t] = IF alive[b] /\ t \in S THEN new[t] ELSE view[b][t]
  <1> DEFINE shown == [t \in Task |-> IF alive[b] /\ t \in S THEN new[t] ELSE view[b][t]]
  <1>1. view' = [view EXCEPT ![b] = shown] BY DEF Upsert
  <1>2. shown \in [Task -> TaskInfo \cup {Unseen}]
    <2>1. ASSUME NEW t \in Task PROVE shown[t] \in TaskInfo \cup {Unseen}
      <3>1. view[b][t] \in TaskInfo \cup {Unseen} OBVIOUS
      <3> QED BY <3>1
    <2> QED BY <2>1
  <1>3. \A t \in Task : shown[t] = IF alive[b] /\ t \in S THEN new[t] ELSE view[b][t] OBVIOUS
  <1> HIDE DEF shown
  <1> QED BY <1>1, <1>2, <1>3

\* A SYNC carries tasks of the user it is for, as they are.
LEMMA ListIsMine ==
    ASSUME TasksInv, NEW u \in User, NEW t \in List(u)
    PROVE  t \in Task /\ Owner[t] = u /\ info[t] \in TaskInfo
  <1>1. tasks \in Seq(Task) /\ info \in [Task -> TaskInfo] BY DEF TasksInv, TypeOK
  <1>2. PICK i \in DOMAIN tasks : t = tasks[i] /\ Owner[tasks[i]] = u BY DEF List
  <1> QED BY <1>1, <1>2

LEMMA SyncShows ==
    ASSUME StreamInv, NEW b \in Browser, EmitSync(b)
    PROVE  /\ view' \in [Browser -> [Task -> TaskInfo \cup {Unseen}]]
           /\ \A c \in Browser \ {b} : view'[c] = view[c]
           /\ \A t \in Task : view'[b][t] = IF alive[b] /\ t \in List(BUser[b]) THEN info[t] ELSE view[b][t]
           /\ \A t \in List(BUser[b]) : Mine(b, t)
  <1>1. BUser[b] \in User BY StreamAssumption
  <1>2. view \in [Browser -> [Task -> TaskInfo \cup {Unseen}]] BY DEF StreamInv, StreamTypeOK
  <1>3. \A t \in List(BUser[b]) : Mine(b, t) /\ info[t] \in TaskInfo
    BY <1>1, ListIsMine DEF StreamInv, Mine
  <1> QED BY <1>2, <1>3, UpsertShows DEF EmitSync

\* An UPDATE carries the one task of its event.
LEMMA RecvShows ==
    ASSUME StreamInv, NEW b \in Browser, TopicRecv(b)
    PROVE  /\ cursor[b] \in DOMAIN events
           /\ view' \in [Browser -> [Task -> TaskInfo \cup {Unseen}]]
           /\ \A c \in Browser \ {b} : view'[c] = view[c]
           /\ \A t \in Task : view'[b][t] = IF alive[b] /\ t = events[cursor[b]].task /\ Mine(b, t)
                                              THEN events[cursor[b]].info ELSE view[b][t]
  <1>1. /\ events \in Seq(TaskEvent) /\ cursor[b] \in Nat \ {0}
        /\ view \in [Browser -> [Task -> TaskInfo \cup {Unseen}]]
    BY DEF StreamInv, TasksInv, TypeOK, StreamTypeOK
  <1>2. cursor[b] \in DOMAIN events
    BY <1>1, StreamAssumption DEF TopicRecv, Behind
  <1> DEFINE e == events[cursor[b]]
             S == {t \in {e.task} : Owner[t] = BUser[b]}
             new == [t \in {e.task} |-> e.info]
  <1>3. e \in TaskEvent BY <1>1, <1>2
  <1>4. Upsert(b, S, new) BY DEF TopicRecv
  <1>5. \A t \in S : new[t] = e.info /\ e.info \in TaskInfo BY <1>3 DEF TaskEvent
  <1>6. \A t \in Task : t \in S <=> t = e.task /\ Mine(b, t) BY DEF Mine
  <1> HIDE DEF e, S, new
  <1>7. /\ view' \in [Browser -> [Task -> TaskInfo \cup {Unseen}]]
        /\ \A c \in Browser \ {b} : view'[c] = view[c]
        /\ \A t \in Task : view'[b][t] = IF alive[b] /\ t \in S THEN new[t] ELSE view[b][t]
    BY <1>1, <1>4, <1>5, UpsertShows
  <1> QED BY <1>2, <1>5, <1>6, <1>7 DEF e

\* So does the answer to `tasks.detail`.
LEMMA ReplyShows ==
    ASSUME StreamInv, NEW b \in Browser, DetailReply(b)
    PROVE  /\ Mine(b, detail[b].task)
           /\ view' \in [Browser -> [Task -> TaskInfo \cup {Unseen}]]
           /\ \A c \in Browser \ {b} : view'[c] = view[c]
           /\ \A t \in Task : view'[b][t] = IF alive[b] /\ t = detail[b].task
                                              THEN detail[b].info ELSE view[b][t]
  <1>1. /\ detail[b] \in [task: Task, info: TaskInfo] /\ detail[b] # NoDetail
        /\ view \in [Browser -> [Task -> TaskInfo \cup {Unseen}]]
    BY DEF StreamInv, StreamTypeOK, DetailReply
  <1> DEFINE S == {detail[b].task}
             new == [t \in {detail[b].task} |-> detail[b].info]
  <1>2. Upsert(b, S, new) BY DEF DetailReply
  <1>3. \A t \in S : new[t] = detail[b].info /\ detail[b].info \in TaskInfo BY <1>1
  <1>4. \A t \in Task : t \in S <=> t = detail[b].task OBVIOUS
  <1> HIDE DEF S, new
  <1>5. /\ view' \in [Browser -> [Task -> TaskInfo \cup {Unseen}]]
        /\ \A c \in Browser \ {b} : view'[c] = view[c]
        /\ \A t \in Task : view'[b][t] = IF alive[b] /\ t \in S THEN new[t] ELSE view[b][t]
    BY <1>1, <1>2, <1>3, UpsertShows
  <1>6. Mine(b, detail[b].task) BY <1>1 DEF StreamInv, DetailInv
  <1> QED BY <1>3, <1>4, <1>5, <1>6

\* The steps of a topic, a socket and a detail keep the types, and show a browser
\* its own tasks.
LEMMA StreamStepSafe ==
    ASSUME StreamInv, NEW b \in Browser, StreamStep(b), UNCHANGED vars
    PROVE  StreamInv'
  <1>0. TasksInv' BY NextTasksInv DEF StreamInv
  <1>a. /\ topic \in [Browser -> {"off", "subscribed", "listen", "lagged"}]
        /\ cursor \in [Browser -> Nat \ {0}] /\ alive \in [Browser -> BOOLEAN]
        /\ view \in [Browser -> [Task -> TaskInfo \cup {Unseen}]]
        /\ detail \in [Browser -> {NoDetail} \cup [task: Task, info: TaskInfo]]
        /\ drops \in [Browser -> 0 .. MaxDrops] /\ details \in [Browser -> 0 .. MaxDetails]
    BY DEF StreamInv, StreamTypeOK
  <1>b. Len(events) \in Nat /\ UNCHANGED <<events, tasks, info>>
    BY DEF StreamInv, TasksInv, TypeOK, vars
  <1>c. MaxDrops \in Nat /\ MaxDetails \in Nat /\ CAPACITY \in Nat \ {0} BY StreamAssumption
  <1>d. DetailInv /\ CursorInv /\ OwnTasksOnly BY DEF StreamInv
  <1>1. CASE TopicSubscribe(b)
    <2>1. /\ cursor' = [cursor EXCEPT ![b] = Len(events) + 1] /\ topic' = [topic EXCEPT ![b] = "subscribed"]
          /\ UNCHANGED <<alive, view, detail, drops, details>>
      BY <1>1 DEF TopicSubscribe
    <2>2. StreamTypeOK' BY <1>a, <1>b, <2>1 DEF StreamTypeOK
    <2>3. CursorInv' BY <1>a, <1>b, <1>d, <2>1 DEF CursorInv
    <2>4. DetailInv' /\ OwnTasksOnly' BY <1>d, <2>1 DEF DetailInv, OwnTasksOnly, Mine
    <2> QED BY <1>0, <2>2, <2>3, <2>4 DEF StreamInv
  <1>2. CASE TopicSync(b) \/ TopicResync(b)
    <2>1. /\ EmitSync(b) /\ topic' = [topic EXCEPT ![b] = "listen"]
          /\ UNCHANGED <<cursor, alive, detail, drops, details>>
      BY <1>2 DEF TopicSync, TopicResync
    <2>2. StreamTypeOK' BY <1>a, <2>1, SyncShows DEF StreamTypeOK
    <2>3. CursorInv' /\ DetailInv' BY <1>b, <1>d, <2>1 DEF CursorInv, DetailInv, Mine
    <2>4. OwnTasksOnly' BY <1>d, <2>1, SyncShows DEF OwnTasksOnly, Mine
    <2> QED BY <1>0, <2>2, <2>3, <2>4 DEF StreamInv
  <1>3. CASE TopicRecv(b)
    <2>1. cursor' = [cursor EXCEPT ![b] = @ + 1] /\ UNCHANGED <<topic, alive, detail, drops, details>>
      BY <1>3 DEF TopicRecv
    <2>2. cursor[b] \in 1 .. Len(events)
      BY <1>3, <1>b, RecvShows DEF StreamInv, TasksInv, TypeOK
    <2>3. StreamTypeOK'
      <3>1. cursor' \in [Browser -> Nat \ {0}] BY <1>a, <2>1
      <3> QED BY <1>3, <1>a, <2>1, <3>1, RecvShows DEF StreamTypeOK
    <2>4. CursorInv' BY <1>a, <1>b, <1>d, <2>1, <2>2 DEF CursorInv
    <2>5. DetailInv' BY <1>d, <2>1 DEF DetailInv, Mine
    <2>6. OwnTasksOnly' BY <1>3, <1>d, <2>1, RecvShows DEF OwnTasksOnly, Mine
    <2> QED BY <1>0, <2>3, <2>4, <2>5, <2>6 DEF StreamInv
  <1>4. CASE TopicLagged(b)
    <2>1. /\ cursor' = [cursor EXCEPT ![b] = Len(events) + 1 - CAPACITY] /\ topic' = [topic EXCEPT ![b] = "lagged"]
          /\ UNCHANGED <<alive, view, detail, drops, details>>
      BY <1>4 DEF TopicLagged
    <2>2. Len(events) + 1 - CAPACITY \in Nat \ {0} /\ Len(events) + 1 - CAPACITY <= Len(events) + 1
      <3>1. cursor[b] \in Nat \ {0} BY <1>a
      <3>2. Len(events) + 1 - cursor[b] > CAPACITY BY <1>4 DEF TopicLagged, Behind
      <3> QED BY <1>b, <1>c, <3>1, <3>2
    <2>3. StreamTypeOK' BY <1>a, <2>1, <2>2 DEF StreamTypeOK
    <2>4. CursorInv' BY <1>a, <1>b, <1>d, <2>1, <2>2 DEF CursorInv
    <2>5. DetailInv' /\ OwnTasksOnly' BY <1>d, <2>1 DEF DetailInv, OwnTasksOnly, Mine
    <2> QED BY <1>0, <2>3, <2>4, <2>5 DEF StreamInv
  <1>5. ASSUME NEW t \in Task, DetailRead(b, t) PROVE StreamInv'
    <2> DEFINE d == [task |-> t, info |-> info[t]]
    <2>1. /\ detail' = [detail EXCEPT ![b] = d] /\ details' = [details EXCEPT ![b] = @ + 1]
          /\ details[b] < MaxDetails /\ Owner[t] = BUser[b]
          /\ UNCHANGED <<topic, cursor, alive, view, drops>>
      BY <1>5 DEF DetailRead, Find
    <2>2. d \in [task: Task, info: TaskInfo] /\ d.task = t
      BY DEF StreamInv, TasksInv, TypeOK
    <2> HIDE DEF d
    <2>3. details' \in [Browser -> 0 .. MaxDetails] /\ details'[b] > 0
      <3>1. details[b] + 1 \in 0 .. MaxDetails /\ details[b] + 1 > 0 BY <1>a, <1>c, <2>1
      <3> QED BY <1>a, <2>1, <3>1
    <2>4. StreamTypeOK'
      <3>1. detail' \in [Browser -> {NoDetail} \cup [task: Task, info: TaskInfo]] BY <1>a, <2>1, <2>2
      <3> QED BY <1>a, <2>1, <2>3, <3>1 DEF StreamTypeOK
    <2>5. CursorInv' /\ OwnTasksOnly' BY <1>b, <1>d, <2>1 DEF CursorInv, OwnTasksOnly, Mine
    <2>6. DetailInv'
      <3> SUFFICES ASSUME NEW c \in Browser, detail'[c] # NoDetail
                   PROVE  Mine(c, detail'[c].task) /\ details'[c] > 0
        BY DEF DetailInv, Mine
      <3>1. CASE c = b BY <1>a, <2>1, <2>2, <2>3, <3>1 DEF Mine
      <3>2. CASE c # b BY <1>a, <1>d, <2>1, <3>2 DEF DetailInv
      <3> QED BY <3>1, <3>2
    <2> QED BY <1>0, <2>4, <2>5, <2>6 DEF StreamInv
  <1>6. CASE DetailReply(b)
    <2>1. detail' = [detail EXCEPT ![b] = NoDetail] /\ UNCHANGED <<topic, cursor, alive, drops, details>>
      BY <1>6 DEF DetailReply
    <2>2. StreamTypeOK'
      <3>1. detail' \in [Browser -> {NoDetail} \cup [task: Task, info: TaskInfo]] BY <1>a, <2>1
      <3> QED BY <1>6, <1>a, <2>1, <3>1, ReplyShows DEF StreamTypeOK
    <2>3. CursorInv' BY <1>b, <1>d, <2>1 DEF CursorInv
    <2>4. DetailInv'
      <3> SUFFICES ASSUME NEW c \in Browser, detail'[c] # NoDetail
                   PROVE  Mine(c, detail'[c].task) /\ details'[c] > 0
        BY DEF DetailInv, Mine
      <3>1. c # b /\ detail'[c] = detail[c] BY <1>a, <2>1
      <3> QED BY <1>d, <2>1, <3>1 DEF DetailInv
    <2>5. OwnTasksOnly' BY <1>6, <1>d, ReplyShows DEF OwnTasksOnly, Mine
    <2> QED BY <1>0, <2>2, <2>3, <2>4, <2>5 DEF StreamInv
  <1>7. CASE SocketDies(b) \/ Reconnect(b)
    <2>1. UNCHANGED <<cursor, view, detail, details>> BY <1>7 DEF SocketDies, Reconnect
    <2>2. StreamTypeOK'
      <3>1. alive' \in [Browser -> BOOLEAN] BY <1>7, <1>a, Zenon DEF SocketDies, Reconnect
      <3>2. drops' \in [Browser -> 0 .. MaxDrops]
        <4>1. CASE SocketDies(b)
          <5>1. drops' = [drops EXCEPT ![b] = @ + 1] /\ drops[b] < MaxDrops BY <4>1 DEF SocketDies
          <5>2. drops[b] + 1 \in 0 .. MaxDrops BY <1>a, <1>c, <5>1
          <5> QED BY <1>a, <5>1, <5>2
        <4>2. CASE Reconnect(b) BY <1>a, <4>2 DEF Reconnect
        <4> QED BY <1>7, <4>1, <4>2
      <3>3. topic' \in [Browser -> {"off", "subscribed", "listen", "lagged"}]
        BY <1>7, <1>a DEF SocketDies, Reconnect
      <3> QED BY <1>a, <2>1, <3>1, <3>2, <3>3 DEF StreamTypeOK
    <2>3. CursorInv' /\ DetailInv' /\ OwnTasksOnly'
      BY <1>b, <1>d, <2>1 DEF CursorInv, DetailInv, OwnTasksOnly, Mine
    <2> QED BY <1>0, <2>2, <2>3 DEF StreamInv
  <1> QED
    BY <1>1, <1>2, <1>3, <1>4, <1>5, <1>6, <1>7 DEF StreamStep, Relay

\* A step of the tasks sends, and shows nobody anything.
LEMMA StreamStepKeeps ==
    ASSUME StreamInv, [StreamNext]_allVars PROVE StreamInv'
  <1>1. CASE [Next]_vars /\ UNCHANGED streamVars
    <2>1. TasksInv' BY <1>1, NextTasksInv DEF StreamInv
    <2>2. UNCHANGED <<topic, cursor, alive, view, detail, drops, details>> BY <1>1 DEF streamVars
    <2>3. StreamTypeOK' /\ DetailInv' /\ OwnTasksOnly'
      BY <2>2 DEF StreamInv, StreamTypeOK, DetailInv, OwnTasksOnly, Mine
    <2>4. Len(events) <= Len(events') /\ Len(events) \in Nat /\ Len(events') \in Nat
      <3>1. events \in Seq(TaskEvent) /\ held \in [Thread -> TaskEvent] BY DEF StreamInv, TasksInv, TypeOK
      <3>2. \A t \in Task : Event(t, Started, NoLine) \in TaskEvent BY RecordTypes
      <3>3. TasksInv /\ [Next]_vars BY <1>1 DEF StreamInv
      <3> QED BY <3>1, <3>2, <3>3, WhatIsSent
    <2>5. CursorInv'
      <3>1. \A b \in Browser : cursor[b] \in Nat BY DEF StreamInv, StreamTypeOK
      <3> QED BY <2>2, <2>4, <3>1 DEF StreamInv, CursorInv
    <2> QED BY <2>1, <2>3, <2>5 DEF StreamInv
  <1>2. ASSUME NEW b \in Browser, StreamStep(b), UNCHANGED vars PROVE StreamInv'
    BY <1>2, StreamStepSafe
  <1> QED BY <1>1, <1>2 DEF StreamNext, allVars

LEMMA StreamStarts == Init /\ StreamInit => StreamInv
  <1> SUFFICES ASSUME Init, StreamInit PROVE StreamInv
    OBVIOUS
  <1>1. StreamTypeOK
    <2>1. /\ drops \in [Browser -> 0 .. MaxDrops] /\ details \in [Browser -> 0 .. MaxDetails]
          /\ cursor \in [Browser -> Nat \ {0}]
      BY StreamAssumption DEF StreamInit
    <2>2. alive \in [Browser -> BOOLEAN] BY Zenon DEF StreamInit
    <2>3. /\ topic \in [Browser -> {"off", "subscribed", "listen", "lagged"}]
          /\ view \in [Browser -> [Task -> TaskInfo \cup {Unseen}]]
          /\ detail \in [Browser -> {NoDetail} \cup [task: Task, info: TaskInfo]]
      BY DEF StreamInit
    <2> QED BY <2>1, <2>2, <2>3 DEF StreamTypeOK
  <1>2. CursorInv
    <2>1. events = <<>> /\ \A b \in Browser : cursor[b] = 1 BY DEF Init, StreamInit
    <2> QED BY <2>1 DEF CursorInv
  <1>3. DetailInv /\ OwnTasksOnly BY DEF StreamInit, DetailInv, OwnTasksOnly
  <1> QED BY <1>1, <1>2, <1>3, InitTasksInv DEF StreamInv

\* While b listens, its store shows the ending that the last event before its
\* cursor tells of a task a SYNC would carry: from that event, or from a SYNC
\* later than it. What a SYNC would not carry now, it may not have carried then.
ShownInv ==
    \A b \in Browser, t \in Task : \A i \in Sent(t) :
        /\ topic[b] = "listen" /\ alive[b] /\ details[b] = 0 /\ Mine(b, t)
        /\ t \in List(BUser[b])
        /\ i < cursor[b] /\ (\A j \in Sent(t) : j < cursor[b] => j <= i)
        /\ events[i].info.status \in Ended
        => view[b][t].status = events[i].info.status

ShowingInv == StreamInv /\ ToldInv /\ ShownInv

\* A set that something enumerates without repetition is not smaller than it.
LEMMA Enumerated ==
    ASSUME NEW S, IsFiniteSet(S), NEW P, NEW f \in [P -> S],
           \A i, j \in P : f[i] = f[j] => i = j
    PROVE  IsFiniteSet(P) /\ Cardinality(P) <= Cardinality(S)
  <1>1. f \in Injection(P, S) BY DEF Injection, IsInjective
  <1> QED BY <1>1, FS_Injection

\* A task does not come back into what a SYNC carries: a push moves the others
\* towards the old end of the deque, and adds no task that was there before.
LEMMA ListOnlyShrinks ==
    ASSUME TasksInv, NEW new \in Task, SpawnPush(new),
           NEW u \in User, NEW t \in Task, t # new, t \in List(u)'
    PROVE  t \in List(u)
  <1>0. tasks \in Seq(Task) /\ Len(tasks) \in Nat /\ DOMAIN tasks = 1 .. Len(tasks)
    BY DEF TasksInv, TypeOK
  <1>1. PICK d \in {0, 1} :
           /\ \A i \in DOMAIN tasks : i - d >= 1 => i - d \in DOMAIN tasks' /\ tasks'[i - d] = tasks[i]
           /\ \A i \in DOMAIN tasks' : tasks'[i] = new \/ i + d \in DOMAIN tasks
           /\ DOMAIN tasks' \subseteq 1 .. Len(tasks) + 1
    <2>1. CASE tasks' = Append(tasks, new)
      <3>1. /\ \A i \in DOMAIN tasks : i - 0 \in DOMAIN tasks' /\ tasks'[i - 0] = tasks[i]
            /\ \A i \in DOMAIN tasks' : tasks'[i] = new \/ i + 0 \in DOMAIN tasks
            /\ DOMAIN tasks' \subseteq 1 .. Len(tasks) + 1
        BY <1>0, <2>1
      <3> QED BY <3>1
    <2>2. CASE tasks' = Append(Tail(tasks), new) /\ Len(tasks) >= 1
      <3> DEFINE q == Tail(tasks)
      <3>1. q \in Seq(Task) /\ Len(q) = Len(tasks) - 1 /\ \A i \in 1 .. Len(tasks) - 1 : q[i] = tasks[i + 1]
        BY <1>0, <2>2
      <3>2. tasks' = Append(q, new) BY <2>2
      <3> HIDE DEF q
      <3>3. /\ \A i \in 1 .. Len(q) : tasks'[i] = q[i]
            /\ tasks'[Len(q) + 1] = new /\ DOMAIN tasks' = 1 .. Len(q) + 1
        BY <3>1, <3>2
      <3>4. ASSUME NEW i \in DOMAIN tasks, i - 1 >= 1
            PROVE  i - 1 \in DOMAIN tasks' /\ tasks'[i - 1] = tasks[i]
        <4>1. i - 1 \in 1 .. Len(q) /\ (i - 1) + 1 = i BY <1>0, <3>1, <3>4
        <4> QED BY <3>1, <3>3, <4>1
      <3>5. \A i \in DOMAIN tasks' : tasks'[i] = new \/ i + 1 \in DOMAIN tasks
        BY <1>0, <3>1, <3>3
      <3>6. DOMAIN tasks' \subseteq 1 .. Len(tasks) + 1 BY <1>0, <3>1, <3>3
      <3> QED BY <3>4, <3>5, <3>6
    <2> QED BY <1>0, <2>1, <2>2, TasksAssumption DEF SpawnPush, Evict
  <1>2. PICK j \in DOMAIN tasks' : tasks'[j] = t /\ Owner[tasks'[j]] = u
                                   /\ Cardinality(Newer(u, j)') <= SYNC_LIMIT
    BY DEF List, Newer
  <1> DEFINE k == j + d
             P == Newer(u, k)
             S == {i \in DOMAIN tasks' : i >= j /\ Owner[tasks'[i]] = u}
  <1>3. j \in Nat /\ j >= 1 /\ k \in DOMAIN tasks /\ tasks[k] = t
    <2>1. j \in Nat /\ j >= 1 BY <1>0, <1>1
    <2>2. k \in DOMAIN tasks BY <1>1, <1>2
    <2>3. k - d = j BY <1>1, <2>1
    <2> QED BY <1>1, <1>2, <2>1, <2>2, <2>3
  <1>4. IsFiniteSet(S)
    <2>1. IsFiniteSet(1 .. Len(tasks) + 1) BY <1>0, FS_Interval
    <2>2. S \in SUBSET (1 .. Len(tasks) + 1) BY <1>1
    <2> QED BY <2>1, <2>2, FS_Subset
  <1>5. IsFiniteSet(P) /\ Cardinality(P) <= Cardinality(S)
    <2> DEFINE f == [i \in P |-> i - d]
    <2>1. P \subseteq DOMAIN tasks /\ \A i \in P : i \in Nat /\ i >= k /\ Owner[tasks[i]] = u
      BY <1>0 DEF Newer
    <2>2. \A i \in P : i - d \in S
      <3> SUFFICES ASSUME NEW i \in P PROVE i - d \in S OBVIOUS
      <3>1. i - d >= j /\ i - d >= 1 BY <1>1, <1>3, <2>1
      <3> QED BY <1>1, <2>1, <3>1
    <2>3. \A i, m \in P : f[i] = f[m] => i = m BY <1>1, <2>1
    <2>4. f \in [P -> S] BY <2>2
    <2> HIDE DEF f, P, S
    <2> QED BY <1>4, <2>3, <2>4, Enumerated
  <1>6. Cardinality(S) \in Nat /\ Cardinality(P) \in Nat BY <1>4, <1>5, FS_CardinalityType
  <1>7. Cardinality(S) <= SYNC_LIMIT BY <1>2 DEF Newer
  <1>8. Cardinality(Newer(u, k)) <= SYNC_LIMIT
    <2> HIDE DEF S
    <2> QED BY <1>5, <1>6, <1>7, StreamAssumption
  <1> QED BY <1>2, <1>3, <1>8 DEF List

\* A SYNC shows how each of the browser's tasks has ended, if the channel says so.
LEMMA SyncTells ==
    ASSUME StreamInv, ToldInv,
           NEW b \in Browser, alive[b], EmitSync(b),
           NEW t \in Task, t \in List(BUser[b]), NEW i \in Sent(t), events[i].info.status \in Ended
    PROVE  view'[b][t].status = events[i].info.status
  <1>1. i \in DOMAIN events /\ events[i].task = t BY DEF Sent
  <1>2. info[t].status = events[i].info.status
    BY <1>1 DEF ToldInv, SentInv
  <1>3. view'[b][t] = info[t] BY SyncShows
  <1> QED BY <1>2, <1>3

\* The steps of a browser keep it.
LEMMA ShownKept ==
    ASSUME ShowingInv, StreamInv', NEW c \in Browser, StreamStep(c), UNCHANGED vars
    PROVE  ShownInv'
  <1> SUFFICES ASSUME NEW b \in Browser, NEW t \in Task, NEW i \in Sent(t),
                      topic'[b] = "listen", alive'[b], details'[b] = 0, Mine(b, t),
                      t \in List(BUser[b]), i < cursor'[b], \A j \in Sent(t) : j < cursor'[b] => j <= i,
                      events[i].info.status \in Ended
               PROVE  view'[b][t].status = events[i].info.status
    BY DEF ShownInv, vars, Sent, Mine, List, Newer
  <1>0. /\ topic \in [Browser -> {"off", "subscribed", "listen", "lagged"}]
        /\ cursor \in [Browser -> Nat \ {0}] /\ alive \in [Browser -> BOOLEAN]
        /\ view \in [Browser -> [Task -> TaskInfo \cup {Unseen}]]
        /\ details \in [Browser -> 0 .. MaxDetails]
        /\ StreamInv /\ ToldInv /\ ShownInv
    BY DEF ShowingInv, StreamInv, StreamTypeOK
  <1>a. i \in DOMAIN events /\ events[i].task = t /\ i \in Nat
    BY <1>0 DEF Sent, StreamInv, TasksInv, TypeOK
  <1>b. ASSUME topic[b] = "listen", alive[b], details[b] = 0, cursor'[b] = cursor[b], view'[b][t] = view[b][t]
        PROVE  view'[b][t].status = events[i].info.status
    BY <1>0, <1>b DEF ShownInv
  <1>c. ASSUME c # b
        PROVE  /\ topic'[b] = topic[b] /\ alive'[b] = alive[b] /\ details'[b] = details[b]
               /\ cursor'[b] = cursor[b] /\ view'[b] = view[b]
    <2>1. CASE TopicSubscribe(c) \/ TopicLagged(c)
      BY <1>0, <1>c, <2>1 DEF TopicSubscribe, TopicLagged
    <2>2. CASE TopicSync(c) \/ TopicResync(c)
      <3>1. EmitSync(c) /\ topic' = [topic EXCEPT ![c] = "listen"]
            /\ UNCHANGED <<cursor, alive, detail, drops, details>>
        BY <2>2 DEF TopicSync, TopicResync
      <3> QED BY <1>0, <1>c, <3>1, SyncShows
    <2>3. CASE TopicRecv(c)
      <3>1. cursor' = [cursor EXCEPT ![c] = @ + 1] /\ UNCHANGED <<topic, alive, detail, drops, details>>
        BY <2>3 DEF TopicRecv
      <3> QED BY <1>0, <1>c, <2>3, <3>1, RecvShows
    <2>4. ASSUME NEW u \in Task, DetailRead(c, u)
          PROVE  /\ topic'[b] = topic[b] /\ alive'[b] = alive[b] /\ details'[b] = details[b]
                 /\ cursor'[b] = cursor[b] /\ view'[b] = view[b]
      BY <1>0, <1>c, <2>4 DEF DetailRead
    <2>5. CASE DetailReply(c)
      <3>1. UNCHANGED <<topic, cursor, alive, drops, details>> BY <2>5 DEF DetailReply
      <3> QED BY <1>0, <1>c, <2>5, <3>1, ReplyShows
    <2>6. CASE SocketDies(c) \/ Reconnect(c)
      BY <1>0, <1>c, <2>6 DEF SocketDies, Reconnect
    <2> QED BY <2>1, <2>2, <2>3, <2>4, <2>5, <2>6 DEF StreamStep, Relay
  <1>1. CASE c # b
    BY <1>b, <1>c, <1>1
  <1>2. CASE c = b
    <2>1. CASE TopicSubscribe(b) \/ TopicLagged(b) \/ SocketDies(b) \/ Reconnect(b)
      <3>1. topic'[b] # "listen" \/ ~alive'[b]
        BY <1>0, <2>1 DEF TopicSubscribe, TopicLagged, SocketDies, Reconnect
      <3> QED BY <3>1
    <2>2. CASE TopicSync(b) \/ TopicResync(b)
      <3>1. EmitSync(b) /\ alive[b] BY <2>2 DEF TopicSync, TopicResync
      <3> QED BY <1>0, <3>1, SyncTells
    <2>3. CASE TopicRecv(b)
      <3>1. /\ cursor'[b] = cursor[b] + 1
            /\ topic[b] = "listen" /\ alive[b] /\ details[b] = 0
        BY <1>0, <2>3 DEF TopicRecv
      <3>2. cursor[b] \in Nat /\ cursor[b] \in DOMAIN events BY <1>0, <2>3, RecvShows
      <3>3. CASE i = cursor[b]
        BY <1>0, <1>a, <2>3, <3>1, <3>3, RecvShows
      <3>4. CASE i # cursor[b]
        <4>1. events[cursor[b]].task # t
          <5> SUFFICES ASSUME cursor[b] \in Sent(t) PROVE FALSE
            BY <3>2 DEF Sent
          <5>1. cursor[b] <= i BY <3>1, <3>2
          <5> QED BY <1>a, <3>1, <3>2, <3>4, <5>1
        <4>2. view'[b][t] = view[b][t] BY <1>0, <2>3, <4>1, RecvShows
        <4>3. i < cursor[b] /\ \A j \in Sent(t) : j < cursor[b] => j <= i
          <5>1. i < cursor[b] BY <1>a, <3>1, <3>2, <3>4
          <5>2. \A j \in Sent(t) : j \in Nat BY <1>0 DEF Sent, StreamInv, TasksInv, TypeOK
          <5> QED BY <3>1, <3>2, <5>1, <5>2
        <4> QED BY <1>0, <3>1, <4>2, <4>3 DEF ShownInv
      <3> QED BY <3>3, <3>4
    <2>4. ASSUME NEW u \in Task, DetailRead(b, u) PROVE FALSE
      <3>1. details'[b] = details[b] + 1 /\ details[b] \in Nat
        BY <1>0, <2>4, StreamAssumption DEF DetailRead
      <3> QED BY <3>1
    <2>5. CASE DetailReply(b)
      <3>1. detail[b] # NoDetail /\ details'[b] = details[b] BY <2>5 DEF DetailReply
      <3>2. details[b] > 0 BY <1>0, <3>1 DEF StreamInv, DetailInv
      <3> QED BY <3>1, <3>2
    <2> QED BY <1>2, <2>1, <2>2, <2>3, <2>4, <2>5 DEF StreamStep, Relay
  <1> QED BY <1>1, <1>2

\* The steps of the tasks keep it: what they send is not before any cursor.
LEMMA ShownWhileSending ==
    ASSUME ShowingInv, [Next]_vars, UNCHANGED streamVars
    PROVE  ShownInv'
  <1>0. /\ events \in Seq(TaskEvent) /\ held \in [Thread -> TaskEvent] /\ TasksInv
        /\ \A b \in Browser : cursor[b] \in Nat /\ cursor[b] <= Len(events) + 1
        /\ ShownInv
    BY DEF ShowingInv, StreamInv, CursorInv, StreamTypeOK, TasksInv, TypeOK
  <1>a. UNCHANGED <<topic, cursor, alive, view, detail, details>> BY DEF streamVars
  <1>b. ASSUME NEW t \in Task, NEW b \in Browser, NEW i \in Sent(t), t \in List(BUser[b])'
        PROVE  t \in List(BUser[b])
    <2>1. CASE UNCHANGED tasks BY <1>b, <2>1 DEF List, Newer
    <2>2. ASSUME NEW u \in Task, SpawnPush(u) PROVE t \in List(BUser[b])
      <3>1. Spawned(t)
        <4>1. i \in DOMAIN events /\ events[i].task = t BY DEF Sent
        <4> QED BY <4>1 DEF ShowingInv, ToldInv, SentInv
      <3>2. t # u BY <2>2, <3>1 DEF SpawnPush, Spawned
      <3>3. BUser[b] \in User BY StreamAssumption
      <3> QED BY <1>0, <1>b, <2>2, <3>2, <3>3, ListOnlyShrinks
    <2> QED BY <1>0, <2>1, <2>2, WhatIsSpawned
  <1>1. CASE UNCHANGED events
    <2>1. \A t \in Task : Sent(t)' = Sent(t) BY <1>1 DEF Sent
    <2> SUFFICES ASSUME NEW b \in Browser, NEW t \in Task, NEW i \in Sent(t),
                        topic[b] = "listen", alive[b], details[b] = 0, Mine(b, t),
                        t \in List(BUser[b])',
                        i < cursor[b], \A j \in Sent(t) : j < cursor[b] => j <= i,
                        events[i].info.status \in Ended
                 PROVE  view[b][t].status = events[i].info.status
      BY <1>a, <1>1, <2>1 DEF ShownInv, Mine
    <2>2. t \in List(BUser[b]) BY <1>b
    <2> QED BY <1>0, <2>2 DEF ShownInv
  <1>2. ASSUME NEW e \in TaskEvent, events' = Append(events, e) PROVE ShownInv'
    <2>1. /\ \A i \in DOMAIN events : i \in DOMAIN events' /\ events'[i] = events[i]
          /\ \A i \in DOMAIN events' : i \in DOMAIN events \/ i = Len(events) + 1
          /\ Len(events) \in Nat
      BY <1>0, <1>2, OneMoreEvent
    <2>2. \A t \in Task, b \in Browser :
            \A i \in Sent(t)' : i < cursor[b] => i \in Sent(t) /\ events'[i] = events[i]
      BY <1>0, <2>1 DEF Sent
    <2>3. \A t \in Task : \A j \in Sent(t) : j \in Sent(t)' BY <2>1 DEF Sent
    <2> SUFFICES ASSUME NEW b \in Browser, NEW t \in Task, NEW i \in Sent(t)',
                        topic[b] = "listen", alive[b], details[b] = 0, Mine(b, t),
                        t \in List(BUser[b])',
                        i < cursor[b], \A j \in Sent(t)' : j < cursor[b] => j <= i,
                        events'[i].info.status \in Ended
                 PROVE  view[b][t].status = events'[i].info.status
      BY <1>a DEF ShownInv, Mine
    <2>4. i \in Sent(t) /\ events'[i] = events[i] BY <2>2
    <2>5. \A j \in Sent(t) : j < cursor[b] => j <= i BY <2>3
    <2>6. t \in List(BUser[b]) BY <1>b, <2>4
    <2> QED BY <1>0, <2>4, <2>5, <2>6 DEF ShownInv
  <1>3. \A t \in Task : Event(t, Started, NoLine) \in TaskEvent BY RecordTypes
  <1> QED BY <1>0, <1>1, <1>2, <1>3, WhatIsSent

LEMMA ShowingKept ==
    ASSUME ShowingInv, [StreamNext]_allVars PROVE ShowingInv'
  <1>1. StreamInv' /\ StreamInv /\ ToldInv BY StreamStepKeeps DEF ShowingInv
  <1>2. [Next]_vars BY DEF StreamNext, allVars
  <1>3. ToldInv' BY <1>1, <1>2, ToldKept
  <1>5. ShownInv'
    <2>1. CASE [Next]_vars /\ UNCHANGED streamVars BY <2>1, ShownWhileSending
    <2>2. ASSUME NEW b \in Browser, StreamStep(b), UNCHANGED vars PROVE ShownInv'
      BY <1>1, <2>2, ShownKept
    <2> QED BY <2>1, <2>2 DEF StreamNext, allVars
  <1> QED BY <1>1, <1>3, <1>5 DEF ShowingInv

LEMMA ShowingStarts ==
    ASSUME Init, StreamInit PROVE ShowingInv
  <1>1. StreamInv /\ ToldInv BY StreamStarts, ToldInit
  <1>3. ShownInv BY DEF StreamInit, ShownInv
  <1> QED BY <1>1, <1>3 DEF ShowingInv

\* The last word of a task is that of the last event about it.
LEMMA ShowingShows == ShowingInv => LastWordIsShown
  <1> SUFFICES ASSUME ShowingInv, NEW b \in Browser, NEW t \in Task,
                      Drained(b), Mine(b, t), t \in List(BUser[b]), details[b] = 0,
                      Sent(t) # {}, LastWord(t) \in Ended
               PROVE  view[b][t].status = LastWord(t)
    BY DEF LastWordIsShown
  <1> DEFINE m == CHOOSE i \in Sent(t) : \A j \in Sent(t) : j <= i
  <1>1. m \in Sent(t) /\ \A j \in Sent(t) : j <= m
    <2>1. \E i \in Sent(t) : \A j \in Sent(t) : j <= i BY DEF ShowingInv, ToldInv, LastInv
    <2> QED BY <2>1
  <1>2. LastWord(t) = events[m].info.status BY DEF LastWord
  <1> HIDE DEF m
  <1>3. /\ cursor[b] \in Nat /\ Len(events) \in Nat /\ m \in 1 .. Len(events)
        /\ ShownInv
    BY <1>1 DEF ShowingInv, StreamInv, StreamTypeOK, TasksInv, TypeOK, Sent
  <1>4. m < cursor[b] BY <1>3 DEF Drained, Behind
  <1> QED BY <1>1, <1>2, <1>3, <1>4 DEF ShownInv, Drained

-----------------------------------------------------------------------------
(* Theorems about the stream.                                              *)

\* The invariant of the stream, whatever is evicted and however far a receiver
\* falls behind.
THEOREM StreamInvariant == StreamSpec => []StreamInv
  BY StreamStarts, StreamStepKeeps, PTL DEF StreamSpec

\* The state of topics, sockets and stores has its type; in particular a cursor
\* never falls below the first event.
THEOREM StreamTypeCorrect == StreamSpec => []StreamTypeOK
  <1>1. StreamInv => StreamTypeOK BY DEF StreamInv
  <1> QED BY <1>1, StreamInvariant, PTL

\* The task manager with its viewers does what the task manager does: no browser,
\* however slow or dead, holds a task up or alters one, so that what is proved of
\* Tasks holds here too (a broadcast channel never waits for its receivers).
THEOREM ViewersOnlyWatch == StreamSpec => Spec
  <1>1. Init /\ StreamInit => Init OBVIOUS
  <1>2. [StreamNext]_allVars => [Next]_vars
    <2> SUFFICES ASSUME [StreamNext]_allVars PROVE [Next]_vars OBVIOUS
    <2>1. CASE StreamNext BY <2>1 DEF StreamNext
    <2>2. CASE UNCHANGED allVars BY <2>2 DEF allVars
    <2> QED BY <2>1, <2>2
  <1> QED BY <1>1, <1>2, PTL DEF StreamSpec, Spec

\* No browser's store ever holds another user's task, for any number of users,
\* browsers, reconnects and details (list, stream, detail).
THEOREM TasksArePrivate == StreamSpec => []OwnTasksOnly
  <1>1. StreamInv => OwnTasksOnly BY DEF StreamInv
  <1> QED BY <1>1, StreamInvariant, PTL

\* No ending that was sent last is lost on a browser, however its receiver lags,
\* its socket dies and the deque evicts, for any capacity and limits.
THEOREM LastWordsAreShown == StreamSpec => []LastWordIsShown
  <1>1. Init /\ StreamInit => ShowingInv BY ShowingStarts
  <1>2. ShowingInv /\ [StreamNext]_allVars => ShowingInv' BY ShowingKept
  <1> QED BY <1>1, <1>2, ShowingShows, PTL DEF StreamSpec
=============================================================================
