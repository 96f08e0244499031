------------------------------- MODULE Tasks -------------------------------
(***************************************************************************)
(* The task manager of src/tasks.rs: a deque of the last KEEP tasks, one   *)
(* runner per task (the tokio task that `spawn` starts), any number of     *)
(* `tasks.stop` calls, and one broadcast channel that every change of a    *)
(* task is sent on.                                                        *)
(*                                                                         *)
(* The server runs on tokio's multi-threaded runtime, so the grain of      *)
(* atomicity is one critical section (a `lock().unwrap()` block) or one    *)
(* channel send: `log`, `progress` and `finish` each release the lock they *)
(* read a task under before they send what they read.                      *)
(*                                                                         *)
(* A thread is the runner of a task, named by the task itself, or a        *)
(* stopper: one call of `tasks.stop`.                                      *)
(***************************************************************************)
EXTENDS Integers, Sequences

CONSTANTS Task,        \* tasks that may ever be spawned (their UPIDs)
          Stopper,     \* calls of `tasks.stop`
          User,        \* signed-in users
          Owner,       \* Owner[t]: the user who starts t
          KEEP,        \* tasks remembered
          LOG_LINES,   \* log lines remembered per task
          Total,       \* the units a task's progress counts up to
          MaxSteps     \* bound: log and progress calls one task's work makes

ASSUME TasksAssumption ==
    /\ Task \cap Stopper = {}
    /\ Owner \in [Task -> User]
    /\ KEEP \in Nat \ {0} /\ LOG_LINES \in Nat \ {0}
    /\ Total \in Nat \ {0} /\ MaxSteps \in Nat

VARIABLES
    tasks,     \* the deque, oldest first
    info,      \* info[t]: the status and progress of a TaskInfo
    log,       \* log[t]: the log lines kept
    abort,     \* abort[t]: the Option<AbortHandle> of the entry
    aborted,   \* tasks whose runner has been told to abort
    recent,    \* tasks with a progress event sent within PROGRESS_EVERY
    spawner,   \* spawner[t]: how far `spawn` has got
    pc,        \* pc[th]: what thread th does next
    on,        \* on[th]: the task th acts on
    then,      \* then[th]: where th continues after the send it is in
    held,      \* held[th]: the event th has built and not yet sent
    steps,     \* steps[t]: log and progress calls made by t's work
    events     \* everything ever sent on the broadcast channel

vars == <<tasks, info, log, abort, aborted, recent, spawner, pc, on, then,
          held, steps, events>>

-----------------------------------------------------------------------------
Thread == Task \cup Stopper

Ended == {"Ok", "Error", "Stopped"}          \* no code path sets Warning
TaskStatus == {"Running"} \cup Ended

\* -1 is `None`; Total is the value whose `done` reaches `total`.
NoProgress == -1
Progress == 0 .. Total
TaskInfo == [status: TaskStatus, progress: Progress \cup {NoProgress}]

\* A log line is a step of the work, or the verdict that ends a task.
Line == {"step"} \cup Ended
NoLine == "none"
TaskEvent == [task: Task, info: TaskInfo, line: Line \cup {NoLine}]

Started == [status |-> "Running", progress |-> NoProgress]
EndedAs(i, status) == [status |-> status, progress |-> i.progress]
Showing(i, p) == [status |-> i.status, progress |-> p]
Event(t, i, line) == [task |-> t, info |-> i, line |-> line]

RunnerPC == {"unborn", "await", "poll", "throttle", "cancelled", "panicked"}
StopperPC == {"idle", "abort", "stopping"}
CommonPC == {"logged", "send", "finish", "done"}
PC == RunnerPC \cup StopperPC \cup CommonPC

TypeOK ==
    /\ tasks \in Seq(Task)
    /\ info \in [Task -> TaskInfo]
    /\ log \in [Task -> Seq(Line)]
    /\ abort \in [Task -> {"None", "Some", "Taken"}]
    /\ aborted \subseteq Task
    /\ recent \subseteq Task
    /\ spawner \in [Task -> {"new", "pushed", "announced", "started", "returned"}]
    /\ pc \in [Thread -> PC]
    /\ on \in [Thread -> Task]
    /\ then \in [Thread -> {"poll", "finish", "done"}]
    /\ held \in [Thread -> TaskEvent]
    /\ steps \in [Task -> Nat]
    /\ events \in Seq(TaskEvent)

Init ==
    /\ tasks = <<>>
    /\ info = [t \in Task |-> Started]
    /\ log = [t \in Task |-> <<>>]
    /\ abort = [t \in Task |-> "None"]
    /\ aborted = {}
    /\ recent = {}
    /\ spawner = [t \in Task |-> "new"]
    /\ pc = [th \in Thread |-> IF th \in Task THEN "unborn" ELSE "idle"]
    /\ on \in {f \in [Thread -> Task] : \A t \in Task : f[t] = t}
    /\ then = [th \in Thread |-> "done"]
    /\ held = [th \in Thread |-> Event(on[th], Started, NoLine)]
    /\ steps = [t \in Task |-> 0]
    /\ events = <<>>

-----------------------------------------------------------------------------
(* TaskManager::spawn, one step per critical section.                      *)

Evict(q) == IF Len(q) >= KEEP THEN Tail(q) ELSE q

SpawnPush(t) ==
    /\ spawner[t] = "new"
    /\ tasks' = Append(Evict(tasks), t)
    /\ spawner' = [spawner EXCEPT ![t] = "pushed"]
    /\ UNCHANGED <<info, log, abort, aborted, recent, pc, on, then, held, steps, events>>

SpawnAnnounce(t) ==
    /\ spawner[t] = "pushed"
    /\ events' = Append(events, Event(t, Started, NoLine))
    /\ spawner' = [spawner EXCEPT ![t] = "announced"]
    /\ UNCHANGED <<tasks, info, log, abort, aborted, recent, pc, on, then, held, steps>>

SpawnStart(t) ==
    /\ spawner[t] = "announced"
    /\ pc' = [pc EXCEPT ![t] = "await"]
    /\ spawner' = [spawner EXCEPT ![t] = "started"]
    /\ UNCHANGED <<tasks, info, log, abort, aborted, recent, on, then, held, steps, events>>

SpawnKeepAbort(t) ==
    /\ spawner[t] = "started"
    /\ abort' = [abort EXCEPT ![t] = "Some"]
    /\ spawner' = [spawner EXCEPT ![t] = "returned"]
    /\ UNCHANGED <<tasks, info, log, aborted, recent, pc, on, then, held, steps, events>>

-----------------------------------------------------------------------------
(* TaskHandle::log and ::finish, used by runners and stoppers alike.       *)

Trim(s) == IF Len(s) >= LOG_LINES THEN Tail(s) ELSE s

\* The first critical section of `log`: the line joins the ring buffer.
PushLine(th, line, next) ==
    LET t == on[th] IN
    /\ log' = [log EXCEPT ![t] = Append(Trim(log[t]), line)]
    /\ held' = [held EXCEPT ![th] = Event(t, info[t], line)]
    /\ then' = [then EXCEPT ![th] = next]
    /\ pc' = [pc EXCEPT ![th] = "logged"]

\* The second: the task is copied, under another lock, for the event.
LogSnapshot(th) ==
    /\ pc[th] = "logged"
    /\ held' = [held EXCEPT ![th] = Event(on[th], info[on[th]], held[th].line)]
    /\ pc' = [pc EXCEPT ![th] = "send"]
    /\ UNCHANGED <<tasks, info, log, abort, aborted, recent, spawner, on, then, steps, events>>

\* The send itself, with no lock held.
Send(th) ==
    /\ pc[th] = "send"
    /\ events' = Append(events, held[th])
    /\ pc' = [pc EXCEPT ![th] = then[th]]
    /\ UNCHANGED <<tasks, info, log, abort, aborted, recent, spawner, on, then, held, steps>>

\* Mutant: `finish` does not look at the status first.
FinishAgain(th) ==
    LET ended == EndedAs(info[on[th]], held[th].line) IN
    /\ pc[th] = "finish"
    /\ info' = [info EXCEPT ![on[th]] = ended]
    /\ held' = [held EXCEPT ![th] = Event(on[th], ended, NoLine)]
    /\ then' = [then EXCEPT ![th] = "done"]
    /\ pc' = [pc EXCEPT ![th] = "send"]
    /\ UNCHANGED <<tasks, log, abort, aborted, recent, spawner, on, steps, events>>

\* Only the first to finish a running task changes it and tells anyone.
Finish(th) ==
    LET t == on[th]
        status == held[th].line
        ended == EndedAs(info[t], status)
    IN
    /\ pc[th] = "finish"
    /\ \/ /\ info[t].status = "Running"
          /\ info' = [info EXCEPT ![t] = ended]
          /\ held' = [held EXCEPT ![th] = Event(t, ended, NoLine)]
          /\ then' = [then EXCEPT ![th] = "done"]
          /\ pc' = [pc EXCEPT ![th] = "send"]
       \/ /\ info[t].status # "Running"
          /\ pc' = [pc EXCEPT ![th] = "done"]
          /\ UNCHANGED <<info, held, then>>
    /\ UNCHANGED <<tasks, log, abort, aborted, recent, spawner, on, steps, events>>

-----------------------------------------------------------------------------
(* The runner: the async block of `spawn`. `abort` takes effect only where *)
(* the work awaits; between two awaits it runs to its next await or end.   *)

Resume(t) ==
    /\ pc[t] = "await" /\ t \notin aborted
    /\ pc' = [pc EXCEPT ![t] = "poll"]
    /\ UNCHANGED <<tasks, info, log, abort, aborted, recent, spawner, on, then, held, steps, events>>

Cancel(t) ==
    /\ pc[t] = "await" /\ t \in aborted
    /\ pc' = [pc EXCEPT ![t] = "cancelled"]
    /\ UNCHANGED <<tasks, info, log, abort, aborted, recent, spawner, on, then, held, steps, events>>

Await(t) ==
    /\ pc[t] = "poll"
    /\ pc' = [pc EXCEPT ![t] = "await"]
    /\ UNCHANGED <<tasks, info, log, abort, aborted, recent, spawner, on, then, held, steps, events>>

WorkLog(t) ==
    /\ pc[t] = "poll" /\ steps[t] < MaxSteps
    /\ steps' = [steps EXCEPT ![t] = @ + 1]
    /\ PushLine(t, "step", "poll")
    /\ UNCHANGED <<tasks, info, abort, aborted, recent, spawner, on, events>>

\* TaskHandle::progress: recorded unless the task has ended or nothing changed...
WorkProgress(t, p) ==
    /\ pc[t] = "poll" /\ steps[t] < MaxSteps
    /\ info[t].status = "Running" /\ info[t].progress # p
    /\ steps' = [steps EXCEPT ![t] = @ + 1]
    /\ info' = [info EXCEPT ![t] = Showing(info[t], p)]
    /\ held' = [held EXCEPT ![t] = Event(t, Showing(info[t], p), NoLine)]
    /\ then' = [then EXCEPT ![t] = "poll"]
    /\ pc' = [pc EXCEPT ![t] = "throttle"]
    /\ UNCHANGED <<tasks, log, abort, aborted, recent, spawner, on, events>>

\* `done` has reached `total`.
Complete(p) == p >= Total

\* Mutant: completion is throttled like any other progress.
ThrottledAlways(t) == t \in recent

\* ... and told at most once per PROGRESS_EVERY, except that completion always is.
Throttled(t) == ~Complete(held[t].info.progress) /\ t \in recent

Throttle(t) ==
    /\ pc[t] = "throttle"
    /\ \/ /\ Throttled(t)
          /\ pc' = [pc EXCEPT ![t] = "poll"]
          /\ UNCHANGED recent
       \/ /\ ~Throttled(t)
          /\ pc' = [pc EXCEPT ![t] = "send"]
          /\ recent' = recent \cup {t}
    /\ UNCHANGED <<tasks, info, log, abort, aborted, spawner, on, then, held, steps, events>>

\* PROGRESS_EVERY passes after the last progress event.
IntervalPasses(t) ==
    /\ t \in recent
    /\ recent' = recent \ {t}
    /\ UNCHANGED <<tasks, info, log, abort, aborted, spawner, pc, on, then, held, steps, events>>

\* TaskHandle::clear_progress does not look at the status.
WorkClearProgress(t) ==
    /\ pc[t] = "poll"
    /\ info[t].progress # NoProgress
    /\ info' = [info EXCEPT ![t] = Showing(info[t], NoProgress)]
    /\ held' = [held EXCEPT ![t] = Event(t, Showing(info[t], NoProgress), NoLine)]
    /\ then' = [then EXCEPT ![t] = "poll"]
    /\ pc' = [pc EXCEPT ![t] = "send"]
    /\ UNCHANGED <<tasks, log, abort, aborted, recent, spawner, on, steps, events>>

\* Mutant: the verdict is logged as if it were a step of the work.
WorkReturnsStep(t, status) ==
    /\ pc[t] = "poll"
    /\ PushLine(t, "step", "finish")
    /\ UNCHANGED <<tasks, info, abort, aborted, recent, spawner, on, steps, events>>

\* The work returns: the verdict is logged, then the task finished. (The message
\* of an `Ok(Some(message))` is logged first: a WorkLog step before this one.)
WorkReturns(t, status) ==
    /\ pc[t] = "poll"
    /\ PushLine(t, status, "finish")
    /\ UNCHANGED <<tasks, info, abort, aborted, recent, spawner, on, steps, events>>

\* The work panics: the JoinError that says so has no reader, nothing is logged.
Panic(t) ==
    /\ pc[t] = "poll"
    /\ pc' = [pc EXCEPT ![t] = "panicked"]
    /\ UNCHANGED <<tasks, info, log, abort, aborted, recent, spawner, on, then, held, steps, events>>

-----------------------------------------------------------------------------
(* TaskManager::stop, called through `tasks.stop` by `user`.               *)

Find(user, t) == (\E i \in DOMAIN tasks : tasks[i] = t) /\ Owner[t] = user

\* A caller knows a task's UPID from the event that announces it or from the answer
\* of the method that spawned it. (A `tasks.list` of another browser between the push
\* and that event would show it too; nobody acts on one in that moment.)
StopFind(s, user) ==
    /\ pc[s] = "idle"
    /\ spawner[on[s]] # "pushed"
    /\ pc' = [pc EXCEPT ![s] = IF Find(user, on[s]) THEN "abort" ELSE "done"]
    /\ UNCHANGED <<tasks, info, log, abort, aborted, recent, spawner, on, then, held, steps, events>>

StopAbort(s) ==
    LET t == on[s] IN
    /\ pc[s] = "abort"
    /\ \/ /\ abort[t] = "Some"
          /\ abort' = [abort EXCEPT ![t] = "Taken"]
          /\ aborted' = aborted \cup {t}
       \/ /\ abort[t] # "Some"
          /\ UNCHANGED <<abort, aborted>>
    /\ pc' = [pc EXCEPT ![s] = "stopping"]
    /\ UNCHANGED <<tasks, info, log, recent, spawner, on, then, held, steps, events>>

\* Mutant: a stop finishes the task before it logs the verdict.
StopFinishesFirst(s) ==
    /\ pc[s] = "stopping"
    /\ held' = [held EXCEPT ![s] = Event(on[s], info[on[s]], "Stopped")]
    /\ pc' = [pc EXCEPT ![s] = "finish"]
    /\ UNCHANGED <<tasks, info, log, abort, aborted, recent, spawner, on, then, steps, events>>

\* Mutant: a stop leaves finishing to the runner it has just aborted.
StopOnlyLogs(s) ==
    /\ pc[s] = "stopping"
    /\ PushLine(s, "Stopped", "done")
    /\ UNCHANGED <<tasks, info, abort, aborted, recent, spawner, on, steps, events>>

StopLog(s) ==
    /\ pc[s] = "stopping"
    /\ PushLine(s, "Stopped", "finish")
    /\ UNCHANGED <<tasks, info, abort, aborted, recent, spawner, on, steps, events>>

-----------------------------------------------------------------------------
Spawn(t) == SpawnPush(t) \/ SpawnAnnounce(t) \/ SpawnStart(t) \/ SpawnKeepAbort(t)

Report(th) == LogSnapshot(th) \/ Send(th) \/ Finish(th)

Work(t) ==
    \/ Resume(t) \/ Cancel(t) \/ Await(t) \/ WorkLog(t)
    \/ \E p \in Progress : WorkProgress(t, p)
    \/ Throttle(t) \/ WorkClearProgress(t)
    \/ \E status \in {"Ok", "Error"} : WorkReturns(t, status)
    \/ Panic(t)

Stop(s) == (\E user \in User : StopFind(s, user)) \/ StopAbort(s) \/ StopLog(s)

Next ==
    \/ \E t \in Task : Spawn(t) \/ Work(t) \/ IntervalPasses(t)
    \/ \E s \in Stopper : Stop(s)
    \/ \E th \in Thread : Report(th)

Spec == Init /\ [][Next]_vars

\* `spawn`, `stop`, `log` and `finish` never wait once called. Of the work nothing is
\* assumed: it may await for ever, never return, or panic.
Fairness ==
    /\ \A t \in Task : WF_vars(SpawnAnnounce(t) \/ SpawnStart(t) \/ SpawnKeepAbort(t))
    /\ \A s \in Stopper : WF_vars(StopAbort(s) \/ StopLog(s))
    /\ \A th \in Thread : WF_vars(Report(th))

FairSpec == Spec /\ Fairness

-----------------------------------------------------------------------------
(* Properties.                                                             *)

\* The positions of the events sent about t.
Sent(t) == {i \in DOMAIN events : events[i].task = t}
Explained(t, line) == \E i \in Sent(t) : events[i].line = line
CompletionSent(t) == \E i \in Sent(t) : Complete(events[i].info.progress)

\* A task ends once: when the runner's `finish` and a stopper's `finish` race,
\* the first to take the info lock decides and the other changes nothing.
EndIsFinal ==
    [][\A t \in Task : info[t].status \in Ended => info'[t].status = info[t].status]_vars

\* The log line that explains an ending (TASK OK, TASK ERROR, TASK STOPPED) has
\* been streamed before the task's status says that it ended that way, whoever
\* ends it and whatever else is logging at the time.
EndIsExplained ==
    \A t \in Task : info[t].status \in Ended => Explained(t, info[t].status)

\* A bar never sticks below its total: whenever a task's progress is complete,
\* an event that says so went out, unless its runner is about to send it.
CompletionIsTold ==
    \A t \in Task :
        Complete(info[t].progress) /\ pc[t] \notin {"throttle", "send"} => CompletionSent(t)

\* t's work has returned, or a stop has found t and is about to abort its runner.
Decided(t) ==
    \/ pc[t] = "logged" /\ held[t].line \in Ended
    \/ \E s \in Stopper : on[s] = t /\ pc[s] = "abort"

\* A task that somebody decides to end does end: the work that returns although a
\* stop aborts it meanwhile, and the stop of a task whose work never returns, has
\* panicked, or has not been started.
TaskEnds ==
    \A t \in Task : Decided(t) ~> (info[t].status \in Ended)
=============================================================================
