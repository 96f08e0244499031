--------------------------- MODULE VmTasksProofs ---------------------------
(***************************************************************************)
(* VmTasks is type correct, and for any number of tasks of any kinds, and  *)
(* any number of instances over time, what a task says when it ends is so. *)
(*                                                                         *)
(* The invariant is a part about the machine and, for every task, a part   *)
(* about that task and the machine. A step of a task has to be looked at   *)
(* for that task alone: the others only need that the machine moved        *)
(* onward, in that uids are never handed out twice.                        *)
(***************************************************************************)
EXTENDS VmTasks, TLAPS

PowerKinds == {"start", "stop", "restart", "signal"}

\* An instance that runs has its uid on record; no instance has uid 0; uids only
\* grow.
Instances ==
    /\ phase = "None" <=> vmi = 0
    /\ phase = "Running" => vmi \in ran
    /\ vm <= uids /\ vmi <= uids

\* The instance there is now is none older than the one that t found first.
OlderInv(t) ==
    /\ before[t] <= uids
    /\ kind[t] \in PowerKinds => vmi = 0 \/ vmi >= before[t]

\* What a power task relies on while it waits, and what it has seen when it says
\* so. An instance that was there when a start was accepted had ended.
PowerInv(t) ==
    /\ kind[t] = "start" /\ pc[t] \in {"wait", "look"} /\ vmi = before[t] =>
          phase \in Final \cup {"None"}
    /\ kind[t] = "stop" /\ pc[t] = "wait" => before[t] # 0
    /\ said[t] = "running" => \E u \in ran : u > before[t]
    /\ said[t] = "stopped" => before[t] # 0 /\ kind[t] \in PowerKinds /\ vmi # before[t]
    /\ said[t] = "restarted" => \E u \in ran : u > before[t]

\* A delete remembers a VM, and is past its wait only when that one is gone.
DeleteInv(t) ==
    /\ kind[t] = "delete" /\ pc[t] \in {"put", "wait", "claims"} => before[t] # 0
    /\ kind[t] = "delete" /\ pc[t] = "claims" => vm # before[t]

\* A task claims nothing before it has ended.
EndInv(t) == pc[t] # "done" => said[t] = "going"

TaskInv(t) ==
    OlderInv(t) /\ PowerInv(t) /\ DeleteInv(t) /\ EndInv(t)

Inv == TypeOK /\ Instances /\ \A t \in Task : TaskInv(t)

-----------------------------------------------------------------------------
(* The frame.                                                              *)

\* Uids are fresh when they are handed out, what has run has run, and what has
\* ended does not come back.
Onward ==
    /\ uids <= uids' /\ ran \subseteq ran'
    /\ vm' \in {vm, 0} \/ vm' > uids
    /\ vmi' \in {vmi, 0} \/ vmi' > uids
    /\ vmi' = vmi /\ phase \in Final => phase' = phase

\* What TypeOK says of the variables that no invariant constrains.
RestOK ==
    /\ doomed \in Nat
    /\ deleting \in BOOLEAN /\ want \in BOOLEAN /\ failure \in BOOLEAN
    /\ volumes \subseteq Disk /\ live \subseteq Disk /\ claims \subseteq Disk
    /\ todo \in [Task -> SUBSET ({"DV", "PVC"} \X Disk)]
    /\ read \in [Task -> SUBSET Disk]

\* A task that does not move keeps its part when the machine moves onward.
LEMMA OthersKeep ==
    ASSUME Inv, TypeOK', Instances', Onward, NEW s \in Task,
           UNCHANGED kind,
           pc'[s] = pc[s], said'[s] = said[s], before'[s] = before[s]
    PROVE  TaskInv(s)'
  <1>1. /\ uids \in Nat /\ vm \in Nat /\ vmi \in Nat /\ before[s] \in Nat
        /\ uids' \in Nat /\ vm' \in Nat /\ vmi' \in Nat
    BY DEF Inv, TypeOK
  <1>2. TaskInv(s) /\ Instances BY DEF Inv
  <1>3. OlderInv(s)' BY <1>1, <1>2 DEF TaskInv, OlderInv, Onward
  <1>4. PowerInv(s)'
    <2>1. PowerInv(s) /\ OlderInv(s) BY <1>2 DEF TaskInv
    <2>2. ASSUME vmi' = before[s], pc[s] \in {"wait", "look"}, kind[s] = "start"
          PROVE  phase' \in Final \cup {"None"}
      <3>1. vmi' \in {vmi, 0} BY <1>1, <2>1, <2>2 DEF OlderInv, Onward
      <3>2. CASE vmi' = 0 BY <3>2 DEF Instances
      <3>3. CASE vmi' = vmi /\ vmi # 0
        <4>1. phase \in Final BY <1>2, <2>1, <2>2, <3>3 DEF PowerInv, Instances
        <4> QED BY <3>3, <4>1 DEF Onward
      <3> QED BY <3>1, <3>2, <3>3
    <2>3. \A u \in ran : u \in ran' BY DEF Onward
    <2>4. before[s] # 0 /\ vmi # before[s] => vmi' # before[s]
      BY <1>1, <2>1 DEF OlderInv, Onward
    <2> QED BY <2>1, <2>2, <2>3, <2>4 DEF PowerInv
  <1>5. DeleteInv(s)' BY <1>1, <1>2 DEF TaskInv, OlderInv, DeleteInv, Onward
  <1>6. EndInv(s)' BY <1>2 DEF TaskInv, EndInv
  <1> QED BY <1>3, <1>4, <1>5, <1>6 DEF TaskInv

\* A step of t that leaves the VM and its instance as they are keeps the
\* invariant if it keeps t's part of it.
LEMMA OneMoves ==
    ASSUME Inv, NEW t \in Task, RestOK',
           UNCHANGED <<vm, vmi, phase, uids, ran, kind>>,
           pc' \in [Task -> PC], said' \in [Task -> Verdict], before' \in [Task -> Nat],
           job' \in [Task -> JobState],
           \A s \in Task \ {t} : pc'[s] = pc[s] /\ said'[s] = said[s] /\ before'[s] = before[s],
           TaskInv(t)'
    PROVE  Inv'
  <1>1. TypeOK' BY DEF Inv, TypeOK, RestOK
  <1>2. Instances' BY DEF Inv, Instances
  <1>3. Onward
    <2>1. uids \in Nat BY DEF Inv, TypeOK
    <2> QED BY <2>1 DEF Onward
  <1>4. ASSUME NEW s \in Task PROVE TaskInv(s)'
    <2>1. CASE s # t BY <1>1, <1>2, <1>3, <2>1, OthersKeep
    <2> QED BY <2>1
  <1> QED BY <1>1, <1>2, <1>4 DEF Inv

\* The variables that no invariant constrains keep their types while they keep
\* their values.
LEMMA RestKept ==
    ASSUME TypeOK, UNCHANGED <<doomed, deleting, want, failure, volumes, live, claims, todo, read>>
    PROVE  RestOK'
  BY DEF TypeOK, RestOK

\* `Goto` and `End` move their own task.
LEMMA GotoOne ==
    ASSUME TypeOK, NEW t \in Task, NEW w \in PC, Goto(t, w)
    PROVE  /\ pc' \in [Task -> PC] /\ said' \in [Task -> Verdict]
           /\ pc'[t] = w /\ said'[t] = said[t]
           /\ \A s \in Task \ {t} : pc'[s] = pc[s] /\ said'[s] = said[s]
  BY DEF TypeOK, Goto

LEMMA EndOne ==
    ASSUME TypeOK, NEW t \in Task, NEW v \in Verdict, End(t, v)
    PROVE  /\ pc' \in [Task -> PC] /\ said' \in [Task -> Verdict]
           /\ pc'[t] = "done" /\ said'[t] = v
           /\ \A s \in Task \ {t} : pc'[s] = pc[s] /\ said'[s] = said[s]
  <1>1. "done" \in PC BY DEF PC
  <1>2. pc \in [Task -> PC] /\ said \in [Task -> Verdict] BY DEF TypeOK
  <1> QED BY <1>1, <1>2 DEF End

\* t only goes on, or ends.
LEMMA GotoMoves ==
    ASSUME Inv, NEW t \in Task, NEW w \in PC, Goto(t, w), RestOK',
           UNCHANGED <<vm, vmi, phase, uids, ran, kind, before, job>>,
           TaskInv(t)'
    PROVE  Inv'
  <1>1. TypeOK BY DEF Inv
  <1>2. before \in [Task -> Nat] /\ job \in [Task -> JobState]
    BY <1>1 DEF TypeOK
  <1> QED BY <1>1, <1>2, GotoOne, OneMoves

LEMMA EndMoves ==
    ASSUME Inv, NEW t \in Task, NEW v \in Verdict, End(t, v), RestOK',
           UNCHANGED <<vm, vmi, phase, uids, ran, kind, before, job>>,
           TaskInv(t)'
    PROVE  Inv'
  <1>1. TypeOK BY DEF Inv
  <1>2. before \in [Task -> Nat] /\ job \in [Task -> JobState]
    BY <1>1 DEF TypeOK
  <1> QED BY <1>1, <1>2, EndOne, OneMoves

\* The verdicts that claim something.
Claims == {"running", "stopped", "restarted"}

\* An end that claims nothing keeps the invariant.
LEMMA EndQuietly ==
    ASSUME Inv, NEW t \in Task, NEW v \in Verdict, v \notin Claims, End(t, v), RestOK',
           UNCHANGED <<vm, vmi, phase, uids, ran, kind, before, job>>
    PROVE  Inv'
  <1>1. pc'[t] = "done" /\ said'[t] = v BY EndOne DEF Inv
  <1>2. TaskInv(t) BY DEF Inv
  <1>3. TaskInv(t)'
    BY <1>1, <1>2 DEF TaskInv, OlderInv, PowerInv, DeleteInv, EndInv, Claims
  <1> QED BY <1>3, EndMoves

\* A task of a kind that relies on nothing while it waits keeps the invariant
\* wherever it goes.
LEMMA GotoQuietly ==
    ASSUME Inv, NEW t \in Task, NEW w \in PC, Goto(t, w), RestOK',
           UNCHANGED <<vm, vmi, phase, uids, ran, kind, before, job>>,
           pc[t] # "done", kind[t] \notin {"start", "stop", "delete"}
    PROVE  Inv'
  <1>1. pc'[t] = w /\ said'[t] = said[t] BY GotoOne DEF Inv
  <1>2. TaskInv(t) BY DEF Inv
  <1>3. TaskInv(t)'
    BY <1>1, <1>2 DEF TaskInv, OlderInv, PowerInv, DeleteInv, EndInv
  <1> QED BY <1>3, GotoMoves

-----------------------------------------------------------------------------
(* The initial states and the steps.                                       *)

\* The invariant holds before the first task.
LEMMA VmTasksInit == Init => Inv
  <1> SUFFICES ASSUME Init PROVE Inv
    OBVIOUS
  <1>0. Kind \subseteq Kinds BY VmTasksAssumption
  <1>1. \A t \in Task : /\ pc[t] = First[kind[t]] /\ kind[t] \in Kinds /\ said[t] = "going"
                        /\ before[t] = 0
    BY <1>0 DEF Init
  <1>2. \A k \in Kinds : /\ First[k] \in {"find", "dry", "grant", "post", "put"}
                         /\ k = "create" => First[k] = "dry"
                         /\ k = "delete" => First[k] = "find"
    BY DEF First, Kinds
  <1>3. uids = 2 /\ vmi \in {0, 2} /\ vm \in {0, 1} BY DEF Init
  <1>4. TypeOK
    <2>1. uids \in Nat /\ vm \in Nat /\ doomed \in Nat BY <1>3 DEF Init
    <2>2. vmi \in Nat /\ phase \in {"None", "Pending", "Running"} \cup Final BY <1>3 DEF Init
    <2>3. ran \subseteq Nat BY <1>3 DEF Init
    <2>4. before \in [Task -> Nat] BY DEF Init
    <2>5. pc \in [Task -> PC] BY <1>1, <1>2 DEF Init, PC
    <2>6. deleting \in BOOLEAN /\ want \in BOOLEAN /\ failure \in BOOLEAN
      BY Zenon DEF Init
    <2>7. volumes \subseteq Disk /\ live \subseteq Disk /\ claims \subseteq Disk BY DEF Init
    <2>8. /\ todo \in [Task -> SUBSET ({"DV", "PVC"} \X Disk)] /\ read \in [Task -> SUBSET Disk]
          /\ kind \in [Task -> Kind]
      BY DEF Init
    <2>9. job \in [Task -> JobState] /\ said \in [Task -> Verdict] BY DEF Init, JobState, Verdict
    <2> QED BY <2>1, <2>2, <2>3, <2>4, <2>5, <2>6, <2>7, <2>8, <2>9 DEF TypeOK
  <1>5. Instances BY <1>3 DEF Init, Instances
  <1>6. ASSUME NEW t \in Task PROVE TaskInv(t)
    <2>1. OlderInv(t) BY <1>1, <1>3, <1>6 DEF OlderInv
    <2>2. PowerInv(t) /\ DeleteInv(t) BY <1>1, <1>2, <1>6 DEF PowerInv, DeleteInv
    <2>3. EndInv(t) BY <1>1, <1>6 DEF EndInv
    <2> QED BY <2>1, <2>2, <2>3 DEF TaskInv
  <1> QED BY <1>4, <1>5, <1>6 DEF Inv

\* The power actions: what each relies on when it begins to wait, and what it has
\* seen when it says so.
LEMMA PowerSteps == ASSUME Inv, NEW t \in Task, Power(t) PROVE Inv'
  <1>0. TypeOK /\ Instances /\ TaskInv(t) BY DEF Inv
  <1>a. vmi \in Nat /\ uids \in Nat /\ before \in [Task -> Nat] /\ before[t] \in Nat
    BY <1>0 DEF TypeOK
  <1>b. {"put", "wait", "look"} \subseteq PC BY DEF PC
  <1>c. {"error", "requested", "running", "stopped", "not running", "restarted"} \subseteq Verdict
    BY DEF Verdict
  <1> USE DEF machine, request, instance, At
  <1>1. CASE Find(t)
    <2>1. Goto(t, "put") /\ before' = [before EXCEPT ![t] = vmi] /\ kind[t] \in PowerKinds /\ pc[t] = "find"
          /\ UNCHANGED <<machine, kind, todo, read, job>>
      BY <1>1 DEF Find, PowerKinds
    <2>2. RestOK' BY <1>0, <2>1, RestKept
    <2>3. /\ pc' \in [Task -> PC] /\ said' \in [Task -> Verdict] /\ pc'[t] = "put" /\ said'[t] = said[t]
          /\ \A s \in Task \ {t} : pc'[s] = pc[s] /\ said'[s] = said[s]
      BY <1>0, <1>b, <2>1, GotoOne
    <2>4. /\ before' \in [Task -> Nat] /\ before'[t] = vmi
          /\ \A s \in Task \ {t} : before'[s] = before[s]
      BY <1>a, <2>1
    <2>5. job \in [Task -> JobState] BY <1>0 DEF TypeOK
    <2>6. TaskInv(t)'
      <3>1. kind[t] # "delete" /\ kind[t] # "create" BY <2>1 DEF PowerKinds
      <3>2. OlderInv(t)' BY <1>0, <1>a, <2>1, <2>4 DEF OlderInv, Instances
      <3>3. PowerInv(t)' /\ DeleteInv(t)' /\ EndInv(t)'
        BY <1>0, <2>1, <2>3, <3>1 DEF TaskInv, PowerInv, DeleteInv, EndInv
      <3> QED BY <3>2, <3>3 DEF TaskInv
    <2> QED BY <2>1, <2>2, <2>3, <2>4, <2>5, <2>6, OneMoves
  <1>2. CASE SignalPut(t)
    <2>1. End(t, "requested") /\ UNCHANGED <<machine, kind, before, todo, read, job>>
      BY <1>2 DEF SignalPut
    <2> QED BY <1>0, <1>c, <2>1, RestKept, EndQuietly DEF Claims
  <1>3. CASE StartPut(t)
    <2>1. /\ kind[t] = "start" /\ pc[t] = "put" /\ phase \in Final \cup {"None"}
          /\ Goto(t, "wait") \/ End(t, "requested")
          /\ UNCHANGED <<vm, deleting, uids, instance, volumes, claims, kind, before, todo, read, job>>
      BY <1>3 DEF StartPut, StartAccepted, Requested
    <2>2. RestOK'
      <3>1. want' = TRUE /\ doomed' = vmi /\ failure' = FALSE BY <1>3 DEF StartPut, StartAccepted
      <3>2. want' \in BOOLEAN /\ failure' \in BOOLEAN BY <3>1, Zenon
      <3> QED BY <1>0, <1>a, <2>1, <3>1, <3>2 DEF TypeOK, RestOK
    <2>3. CASE Goto(t, "wait")
      <3>1. pc'[t] = "wait" /\ said'[t] = said[t] BY <1>0, <1>b, <2>3, GotoOne
      <3>2. TaskInv(t)'
        BY <1>0, <2>1, <3>1 DEF TaskInv, OlderInv, PowerInv, DeleteInv, EndInv
      <3> QED BY <1>b, <2>1, <2>2, <2>3, <3>2, GotoMoves
    <2>4. CASE End(t, "requested")
      BY <1>c, <2>1, <2>2, <2>4, EndQuietly DEF Claims
    <2> QED BY <2>1, <2>3, <2>4
  <1>4. CASE StartPoll(t)
    <2>1. /\ kind[t] = "start" /\ pc[t] = "wait"
          /\ UNCHANGED <<machine, kind, before, todo, read, job>>
      BY <1>4 DEF StartPoll
    <2>2. RestOK' BY <1>0, <2>1, RestKept
    <2>3. CASE phase = "Running" /\ End(t, "running")
      <3>1. pc'[t] = "done" /\ said'[t] = "running" BY <1>0, <1>c, <2>3, EndOne
      <3>2. vmi \in ran /\ vmi # 0 BY <1>0, <2>3 DEF Instances
      <3>3. vmi # before[t] BY <1>0, <2>1, <2>3 DEF TaskInv, PowerInv, Final
      <3>4. vmi > before[t]
        BY <1>0, <1>a, <2>1, <3>2, <3>3 DEF TaskInv, OlderInv, PowerKinds
      <3>5. TaskInv(t)'
        BY <1>0, <2>1, <3>1, <3>2, <3>4 DEF TaskInv, OlderInv, PowerInv, DeleteInv, EndInv
      <3> QED BY <1>c, <2>1, <2>2, <2>3, <3>5, EndMoves
    <2>4. CASE phase = "Failed" /\ End(t, "error") BY <1>c, <2>1, <2>2, <2>4, EndQuietly DEF Claims
    <2>5. CASE vmi = 0 /\ Goto(t, "look")
      <3>1. pc'[t] = "look" /\ said'[t] = said[t] BY <1>0, <1>b, <2>5, GotoOne
      <3>2. TaskInv(t)'
        BY <1>0, <2>1, <3>1 DEF TaskInv, OlderInv, PowerInv, DeleteInv, EndInv
      <3> QED BY <1>b, <2>1, <2>2, <2>5, <3>2, GotoMoves
    <2> QED BY <1>4, <2>3, <2>4, <2>5 DEF StartPoll
  <1>5. CASE StartLook(t)
    <2>1. /\ kind[t] = "start" /\ pc[t] = "look"
          /\ UNCHANGED <<machine, kind, before, todo, read, job>>
      BY <1>5 DEF StartLook
    <2>2. RestOK' BY <1>0, <2>1, RestKept
    <2>3. CASE End(t, "error") BY <1>c, <2>1, <2>2, <2>3, EndQuietly DEF Claims
    <2>4. CASE Goto(t, "wait")
      <3>1. pc'[t] = "wait" /\ said'[t] = said[t] BY <1>0, <1>b, <2>4, GotoOne
      <3>2. TaskInv(t)'
        BY <1>0, <2>1, <3>1 DEF TaskInv, OlderInv, PowerInv, DeleteInv, EndInv
      <3> QED BY <1>b, <2>1, <2>2, <2>4, <3>2, GotoMoves
    <2> QED BY <1>5, <2>3, <2>4 DEF StartLook
  <1>6. CASE StopPut(t)
    <2>1. /\ kind[t] = "stop" /\ pc[t] = "put"
          /\ \/ before[t] # 0 /\ Goto(t, "wait")
             \/ End(t, "requested") \/ End(t, "not running")
          /\ UNCHANGED <<vm, deleting, uids, instance, volumes, claims, kind, before, todo, read, job>>
      BY <1>6 DEF StopPut, Requested
    <2>2. RestOK'
      <3>1. want' = FALSE /\ doomed' = vmi /\ failure' = FALSE BY <1>6 DEF StopPut
      <3>2. want' \in BOOLEAN /\ failure' \in BOOLEAN BY <3>1, Zenon
      <3> QED BY <1>0, <1>a, <2>1, <3>1, <3>2 DEF TypeOK, RestOK
    <2>3. CASE before[t] # 0 /\ Goto(t, "wait")
      <3>1. pc'[t] = "wait" /\ said'[t] = said[t] BY <1>0, <1>b, <2>3, GotoOne
      <3>2. TaskInv(t)'
        BY <1>0, <2>1, <2>3, <3>1 DEF TaskInv, OlderInv, PowerInv, DeleteInv, EndInv
      <3> QED BY <1>b, <2>1, <2>2, <2>3, <3>2, GotoMoves
    <2>4. CASE End(t, "requested") BY <1>c, <2>1, <2>2, <2>4, EndQuietly DEF Claims
    <2>5. CASE End(t, "not running") BY <1>c, <2>1, <2>2, <2>5, EndQuietly DEF Claims
    <2> QED BY <2>1, <2>3, <2>4, <2>5
  <1>7. CASE StopPoll(t)
    <2>1. /\ kind[t] = "stop" /\ pc[t] = "wait" /\ vmi # before[t] /\ End(t, "stopped")
          /\ UNCHANGED <<machine, kind, before, todo, read, job>>
      BY <1>7 DEF StopPoll
    <2>2. pc'[t] = "done" /\ said'[t] = "stopped" BY <1>0, <1>c, <2>1, EndOne
    <2>3. TaskInv(t)'
      BY <1>0, <2>1, <2>2
         DEF TaskInv, OlderInv, PowerInv, DeleteInv, EndInv, PowerKinds
    <2> QED BY <1>0, <1>c, <2>1, <2>3, RestKept, EndMoves
  <1>8. CASE RestartPut(t)
    <2>1. /\ kind[t] = "restart" /\ pc[t] = "put"
          /\ Goto(t, "wait") \/ End(t, "requested")
          /\ UNCHANGED <<vm, deleting, uids, failure, instance, volumes, claims, kind, before, todo, read, job>>
      BY <1>8 DEF RestartPut, Requested
    <2>2. RestOK'
      <3>1. want' = TRUE /\ doomed' = vmi BY <1>8 DEF RestartPut
      <3>2. want' \in BOOLEAN BY <3>1, Zenon
      <3> QED BY <1>0, <1>a, <2>1, <3>1, <3>2 DEF TypeOK, RestOK
    <2>3. CASE Goto(t, "wait") BY <1>b, <2>1, <2>2, <2>3, GotoQuietly
    <2>4. CASE End(t, "requested") BY <1>c, <2>1, <2>2, <2>4, EndQuietly DEF Claims
    <2> QED BY <2>1, <2>3, <2>4
  <1>9. CASE RestartPoll(t)
    <2>1. /\ kind[t] = "restart" /\ pc[t] = "wait" /\ End(t, "restarted")
          /\ vmi # before[t] /\ phase = "Running"
          /\ UNCHANGED <<machine, kind, before, todo, read, job>>
      BY <1>9 DEF RestartPoll
    <2>2. pc'[t] = "done" /\ said'[t] = "restarted" BY <1>0, <1>c, <2>1, EndOne
    <2>3. vmi \in ran /\ vmi # 0 BY <1>0, <2>1 DEF Instances
    <2>4. vmi > before[t] BY <1>0, <1>a, <2>1, <2>3 DEF TaskInv, OlderInv, PowerKinds
    <2>5. TaskInv(t)'
      BY <1>0, <2>1, <2>2, <2>3, <2>4
         DEF TaskInv, OlderInv, PowerInv, DeleteInv, EndInv
    <2> QED BY <1>0, <1>c, <2>1, <2>5, RestKept, EndMoves
  <1> QED BY <1>1, <1>2, <1>3, <1>4, <1>5, <1>6, <1>7, <1>8, <1>9 DEF Power


\* A delete and the VM it found.
LEMMA DeleteSteps == ASSUME Inv, NEW t \in Task, Delete(t) PROVE Inv'
  <1>0. TypeOK /\ Instances /\ TaskInv(t) BY DEF Inv
  <1>a. vm \in Nat /\ uids \in Nat /\ before \in [Task -> Nat] /\ before[t] \in Nat
    BY <1>0 DEF TypeOK
  <1>b. {"put", "wait", "claims"} \subseteq PC BY DEF PC
  <1>c. "destroyed" \in Verdict \ Claims BY DEF Verdict, Claims
  <1>d. job \in [Task -> JobState] BY <1>0 DEF TypeOK
  <1>e. pc \in [Task -> PC] /\ said \in [Task -> Verdict] BY <1>0 DEF TypeOK
  <1> USE DEF machine, request, instance, At
  <1>1. CASE DeleteFind(t)
    <2>1. /\ kind[t] = "delete" /\ pc[t] = "find" /\ vm # 0 /\ Goto(t, "put")
          /\ before' = [before EXCEPT ![t] = vm]
          /\ UNCHANGED <<machine, kind, read, job>>
      BY <1>1 DEF DeleteFind
    <2>2. RestOK'
      <3>1. PICK objects \in {{}, {"PVC"}, {"DV", "PVC"}} :
                todo' = [todo EXCEPT ![t] = objects \X volumes]
        BY <1>1 DEF DeleteFind
      <3>2. objects \X volumes \in SUBSET ({"DV", "PVC"} \X Disk) BY <1>0 DEF TypeOK
      <3>3. todo' \in [Task -> SUBSET ({"DV", "PVC"} \X Disk)] BY <1>0, <3>1, <3>2 DEF TypeOK
      <3> QED BY <1>0, <2>1, <3>3 DEF TypeOK, RestOK
    <2>3. /\ pc' \in [Task -> PC] /\ said' \in [Task -> Verdict] /\ pc'[t] = "put" /\ said'[t] = said[t]
          /\ \A s \in Task \ {t} : pc'[s] = pc[s] /\ said'[s] = said[s]
      BY <1>0, <1>b, <2>1, GotoOne
    <2>4. /\ before' \in [Task -> Nat] /\ before'[t] = vm
          /\ \A s \in Task \ {t} : before'[s] = before[s]
      BY <1>a, <2>1
    <2>5. TaskInv(t)'
      <3>1. said[t] = "going" BY <1>0, <2>1 DEF TaskInv, EndInv
      <3>2. OlderInv(t)' BY <1>0, <2>1, <2>4 DEF OlderInv, Instances, PowerKinds
      <3>3. PowerInv(t)' /\ DeleteInv(t)' BY <2>1, <2>3, <2>4, <3>1 DEF PowerInv, DeleteInv
      <3>4. EndInv(t)' BY <2>1, <2>3, <3>1 DEF EndInv
      <3> QED BY <3>2, <3>3, <3>4 DEF TaskInv
    <2> QED BY <1>d, <2>1, <2>2, <2>3, <2>4, <2>5, OneMoves
  <1>2. CASE DeletePut(t)
    <2>1. /\ kind[t] = "delete" /\ pc[t] = "put" /\ deleting' = TRUE /\ Goto(t, "wait")
          /\ UNCHANGED <<vm, uids, request, instance, volumes, claims, kind, before, todo, read, job>>
      BY <1>2 DEF DeletePut
    <2>2. RestOK'
      <3>1. deleting' \in BOOLEAN BY <2>1, Zenon
      <3> QED BY <1>0, <2>1, <3>1 DEF TypeOK, RestOK
    <2>3. pc'[t] = "wait" /\ said'[t] = said[t] BY <1>0, <1>b, <2>1, GotoOne
    <2>4. TaskInv(t)'
      BY <1>0, <2>1, <2>3 DEF TaskInv, OlderInv, PowerInv, DeleteInv, EndInv
    <2> QED BY <1>b, <2>1, <2>2, <2>4, GotoMoves
  <1>3. CASE DeletePoll(t)
    <2>1. /\ kind[t] = "delete" /\ pc[t] = "wait" /\ vm = 0 /\ Goto(t, "claims")
          /\ UNCHANGED <<machine, kind, before, todo, read, job>>
      BY <1>3 DEF DeletePoll
    <2>2. pc'[t] = "claims" /\ said'[t] = said[t] BY <1>0, <1>b, <2>1, GotoOne
    <2>3. TaskInv(t)'
      BY <1>0, <2>1, <2>2 DEF TaskInv, OlderInv, PowerInv, DeleteInv, EndInv
    <2> QED BY <1>0, <1>b, <2>1, <2>3, RestKept, GotoMoves
  <1>4. CASE DeleteClaim(t)
    <2>1. UNCHANGED <<vm, deleting, uids, request, instance, volumes, kind, pc, said, before, read, job>>
      BY <1>4 DEF DeleteClaim
    <2>2. RestOK'
      <3>1. PICK c \in Disk, object \in {"DV", "PVC"} :
                /\ claims' \in {claims, claims \ {c}}
                /\ todo' = [todo EXCEPT ![t] = @ \ {<<object, c>>}]
        BY <1>4 DEF DeleteClaim
      <3>2. claims' \subseteq Disk BY <1>0, <3>1 DEF TypeOK
      <3>3. todo' \in [Task -> SUBSET ({"DV", "PVC"} \X Disk)] BY <1>0, <3>1 DEF TypeOK
      <3> QED BY <1>0, <2>1, <3>2, <3>3 DEF TypeOK, RestOK
    <2>3. TaskInv(t)' BY <1>0, <2>1 DEF TaskInv, OlderInv, PowerInv, DeleteInv, EndInv
    <2> QED BY <1>a, <1>d, <1>e, <2>1, <2>2, <2>3, OneMoves
  <1>5. CASE DeleteDone(t)
    <2>1. End(t, "destroyed") /\ UNCHANGED <<machine, kind, before, todo, read, job>>
      BY <1>5 DEF DeleteDone
    <2> QED BY <1>0, <1>c, <2>1, RestKept, EndQuietly
  <1> QED BY <1>1, <1>2, <1>3, <1>4, <1>5 DEF Delete

\* A create, and a disk alone.
LEMMA CreateSteps == ASSUME Inv, NEW t \in Task, Create(t) PROVE Inv'
  <1>0. TypeOK /\ Instances /\ TaskInv(t) BY DEF Inv
  <1>a. /\ uids \in Nat /\ vm \in Nat /\ before \in [Task -> Nat]
        /\ job \in [Task -> JobState]
        /\ pc \in [Task -> PC] /\ said \in [Task -> Verdict]
    BY <1>0 DEF TypeOK
  <1>b. {"grant", "extras", "post", "disks", "follow", "wait"} \subseteq PC BY DEF PC
  <1>c. "created" \in Verdict \ Claims BY DEF Verdict, Claims
  <1> USE DEF machine, request, instance, At
  <1>1. CASE CreateDry(t)
    <2>1. /\ kind[t] = "create" /\ pc[t] = "dry" /\ Goto(t, "grant")
          /\ UNCHANGED <<machine, kind, before, todo, read, job>>
      BY <1>1 DEF CreateDry
    <2> QED BY <1>0, <1>b, <2>1, RestKept, GotoQuietly
  <1>2. CASE CreateGrant(t)
    <2>1. /\ kind[t] \in {"create", "disk"} /\ pc[t] = "grant"
          /\ \E w \in {"extras", "post"} : Goto(t, w)
          /\ UNCHANGED <<machine, kind, before, todo, read, job>>
      BY <1>2 DEF CreateGrant
    <2>2. PICK w \in {"extras", "post"} : Goto(t, w) BY <2>1
    <2>3. RestOK' BY <1>0, <2>1, RestKept
    <2> QED BY <1>b, <2>1, <2>2, <2>3, GotoQuietly
  <1>3. CASE CreateExtras(t)
    <2>1. /\ kind[t] = "create" /\ pc[t] = "extras" /\ Goto(t, "disks")
          /\ UNCHANGED <<machine, kind, before, read, job>>
      BY <1>3 DEF CreateExtras
    <2>2. RestOK'
      <3>1. PICK disks \in {{}, Disk} : todo' = [todo EXCEPT ![t] = {"DV"} \X disks]
        BY <1>3 DEF CreateExtras
      <3>2. {"DV"} \X disks \in SUBSET ({"DV", "PVC"} \X Disk) OBVIOUS
      <3>3. todo' \in [Task -> SUBSET ({"DV", "PVC"} \X Disk)] BY <1>0, <3>1, <3>2 DEF TypeOK
      <3> QED BY <1>0, <2>1, <3>3 DEF TypeOK, RestOK
    <2> QED BY <1>b, <2>1, <2>2, GotoQuietly
  <1>4. CASE CreateDisk(t)
    <2>1. /\ kind[t] = "create" /\ pc[t] = "disks"
          /\ UNCHANGED <<vm, deleting, uids, request, instance, volumes, kind, pc, said, before, read, job>>
      BY <1>4 DEF CreateDisk
    <2>2. RestOK'
      <3>1. PICK c \in Disk : /\ claims' = claims \cup {c}
                              /\ todo' = [todo EXCEPT ![t] = @ \ {<<"DV", c>>}]
        BY <1>4 DEF CreateDisk
      <3>2. claims' \subseteq Disk BY <1>0, <3>1 DEF TypeOK
      <3>3. todo' \in [Task -> SUBSET ({"DV", "PVC"} \X Disk)] BY <1>0, <3>1 DEF TypeOK
      <3> QED BY <1>0, <2>1, <3>2, <3>3 DEF TypeOK, RestOK
    <2>3. TaskInv(t)'
      BY <1>0, <2>1 DEF TaskInv, OlderInv, PowerInv, DeleteInv, EndInv
    <2> QED BY <1>a, <2>1, <2>2, <2>3, OneMoves
  <1>5. CASE CreateVm(t)
    <2>1. /\ kind[t] = "create" /\ Goto(t, "follow")
          /\ pc[t] = "disks"
          /\ uids' = uids + 1 /\ vm' = uids + 1 /\ doomed' = 0 /\ volumes' = Disk
          /\ UNCHANGED <<instance, claims, kind, before, todo, read, job>>
      BY <1>5 DEF CreateVm
    <2>2. /\ pc' \in [Task -> PC] /\ said' \in [Task -> Verdict] /\ pc'[t] = "follow" /\ said'[t] = said[t]
          /\ \A s \in Task \ {t} : pc'[s] = pc[s] /\ said'[s] = said[s]
      BY <1>0, <1>b, <2>1, GotoOne
    <2>3. TypeOK'
      <3>1. uids' \in Nat /\ vm' \in Nat /\ doomed' \in Nat BY <1>a, <2>1
      <3>2. want' \in BOOLEAN /\ deleting' \in BOOLEAN /\ failure' \in BOOLEAN
        BY <1>5, Zenon DEF CreateVm
      <3>3. volumes' \subseteq Disk BY <2>1
      <3> QED BY <1>0, <2>1, <2>2, <3>1, <3>2, <3>3 DEF TypeOK
    <2>4. Instances' BY <1>0, <1>a, <2>1 DEF Instances, TypeOK
    <2>5. Onward BY <1>a, <2>1 DEF Onward
    <2>6. ASSUME NEW s \in Task PROVE TaskInv(s)'
      <3>1. CASE s # t BY <2>1, <2>2, <2>3, <2>4, <2>5, <3>1, OthersKeep
      <3>2. CASE s = t
        <4>1. OlderInv(t)' BY <1>0, <1>a, <2>1 DEF TaskInv, OlderInv
        <4>2. PowerInv(t)' /\ DeleteInv(t)' /\ EndInv(t)'
          BY <1>0, <2>1, <2>2 DEF TaskInv, PowerInv, DeleteInv, EndInv
        <4> QED BY <3>2, <4>1, <4>2 DEF TaskInv
      <3> QED BY <3>1, <3>2
    <2> QED BY <2>3, <2>4, <2>6 DEF Inv
  <1>6. CASE CreateFollowed(t)
    <2>1. End(t, "created") /\ UNCHANGED <<machine, kind, before, todo, read, job>>
      BY <1>6 DEF CreateFollowed
    <2> QED BY <1>0, <1>c, <2>1, RestKept, EndQuietly
  <1>7. CASE DiskPost(t)
    <2>1. /\ kind[t] = "disk" /\ pc[t] = "post" /\ Goto(t, "wait")
          /\ UNCHANGED <<vm, deleting, uids, request, instance, volumes, kind, before, todo, read, job>>
      BY <1>7 DEF DiskPost
    <2>2. RestOK'
      <3>1. claims' \subseteq Disk BY <1>0, <1>7 DEF DiskPost, TypeOK
      <3> QED BY <1>0, <2>1, <3>1 DEF TypeOK, RestOK
    <2> QED BY <1>b, <2>1, <2>2, GotoQuietly
  <1>8. CASE DiskFollowed(t)
    <2>1. End(t, "created") /\ UNCHANGED <<machine, kind, before, todo, read, job>>
      BY <1>8 DEF DiskFollowed
    <2> QED BY <1>0, <1>c, <2>1, RestKept, EndQuietly
  <1> QED BY <1>1, <1>2, <1>3, <1>4, <1>5, <1>6, <1>7, <1>8 DEF Create

\* Volumes plugged and unplugged: nothing that the invariant speaks of.
LEMMA PlugSteps == ASSUME Inv, NEW t \in Task, Plug(t) PROVE Inv'
  <1>0. TypeOK BY DEF Inv
  <1>a. {"find", "patch"} \subseteq PC BY DEF PC
  <1>b. "plugged" \in Verdict \ Claims BY DEF Verdict, Claims
  <1> USE DEF machine, request, instance, At
  <1>1. CASE HotplugPut(t) \/ UnplugPut(t)
    <2>1. /\ kind[t] \in {"hotplug", "unplug"} /\ pc[t] = "put" /\ Goto(t, "find")
          /\ UNCHANGED <<vm, deleting, uids, request, vmi, phase, ran, volumes, claims,
                         kind, before, read, job>>
      BY <1>1 DEF HotplugPut, UnplugPut
    <2>2. RestOK'
      <3>1. PICK d \in Disk : /\ todo' = [todo EXCEPT ![t] = {<<"PVC", d>>}]
                              /\ live' \in {live, live \cup {d}, live \ {d}}
        BY <1>1 DEF HotplugPut, UnplugPut
      <3>2. live' \subseteq Disk BY <1>0, <3>1 DEF TypeOK
      <3>3. {<<"PVC", d>>} \in SUBSET ({"DV", "PVC"} \X Disk) OBVIOUS
      <3>4. todo' \in [Task -> SUBSET ({"DV", "PVC"} \X Disk)] BY <1>0, <3>1, <3>3 DEF TypeOK
      <3> QED BY <1>0, <2>1, <3>2, <3>4 DEF TypeOK, RestOK
    <2> QED BY <1>a, <2>1, <2>2, GotoQuietly
  <1>2. CASE HotplugRead(t) \/ UnplugRead(t)
    <2>1. /\ kind[t] \in {"hotplug", "unplug"} /\ pc[t] = "find"
          /\ Goto(t, "patch") \/ End(t, "plugged")
          /\ UNCHANGED <<machine, kind, before, todo, job>>
      BY <1>2 DEF HotplugRead, UnplugRead
    <2>2. RestOK'
      <3>1. PICK d \in Disk : read' \in {read, [read EXCEPT ![t] = volumes \cup {d}],
                                         [read EXCEPT ![t] = volumes \ {d}]}
        BY <1>2 DEF HotplugRead, UnplugRead
      <3>2. read' \in [Task -> SUBSET Disk]
        <4>1. volumes \cup {d} \in SUBSET Disk /\ volumes \ {d} \in SUBSET Disk BY <1>0 DEF TypeOK
        <4>2. read \in [Task -> SUBSET Disk] BY <1>0 DEF TypeOK
        <4> QED BY <3>1, <4>1, <4>2
      <3> QED BY <1>0, <2>1, <3>2 DEF TypeOK, RestOK
    <2>4. CASE Goto(t, "patch") BY <1>a, <2>1, <2>2, <2>4, GotoQuietly
    <2>5. CASE End(t, "plugged") BY <1>b, <2>1, <2>2, <2>5, EndQuietly
    <2> QED BY <2>1, <2>4, <2>5
  <1>3. CASE VolumesPatch(t)
    <2>1. /\ volumes' = read[t] /\ End(t, "plugged")
          /\ UNCHANGED <<vm, deleting, uids, request, instance, claims, kind, before, todo, read, job>>
      BY <1>3 DEF VolumesPatch
    <2>2. RestOK' BY <1>0, <2>1 DEF TypeOK, RestOK
    <2> QED BY <1>b, <2>1, <2>2, EndQuietly
  <1> QED BY <1>1, <1>2, <1>3 DEF Plug

\* Snapshots, restores and clones, and the objects they wait for.
LEMMA ChoreSteps == ASSUME Inv, NEW t \in Task, Chore(t) PROVE Inv'
  <1>0. TypeOK /\ TaskInv(t) BY DEF Inv
  <1>a. /\ before \in [Task -> Nat] /\ job \in [Task -> JobState]
        /\ pc \in [Task -> PC] /\ said \in [Task -> Verdict]
    BY <1>0 DEF TypeOK
  <1>b. {"post", "wait", "tell"} \subseteq PC BY DEF PC
  <1>c. {"error", "complete", "some disks", "all disks"} \subseteq Verdict \ Claims
    BY DEF Verdict, Claims
  <1> USE DEF machine, request, instance, At
  <1>1. CASE RestoreFind(t)
    <2>1. /\ kind[t] = "restore" /\ pc[t] = "find" /\ Goto(t, "post")
          /\ UNCHANGED <<machine, kind, before, todo, read, job>>
      BY <1>1 DEF RestoreFind
    <2> QED BY <1>0, <1>b, <2>1, RestKept, GotoQuietly
  <1>2. CASE SnapshotPost(t) \/ RestorePost(t) \/ ClonePost(t)
    <2>1. /\ kind[t] \in {"snapshot", "restore", "clone"} /\ pc[t] = "post" /\ Goto(t, "wait")
          /\ job' = [job EXCEPT ![t] = "working"]
          /\ UNCHANGED <<machine, kind, before, todo, read>>
      BY <1>2 DEF SnapshotPost, RestorePost, ClonePost, Post
    <2>2. /\ pc' \in [Task -> PC] /\ said' \in [Task -> Verdict] /\ pc'[t] = "wait" /\ said'[t] = said[t]
          /\ \A s \in Task \ {t} : pc'[s] = pc[s] /\ said'[s] = said[s]
      BY <1>0, <1>b, <2>1, GotoOne
    <2>3. job' \in [Task -> JobState] /\ \A s \in Task \ {t} : job'[s] = job[s]
      BY <1>a, <2>1 DEF JobState
    <2>4. TaskInv(t)'
      BY <1>0, <2>1, <2>2 DEF TaskInv, OlderInv, PowerInv, DeleteInv, EndInv
    <2> QED BY <1>0, <1>a, <2>1, <2>2, <2>3, <2>4, RestKept, OneMoves
  <1>3. CASE SnapshotPoll(t)
    <2>1. /\ kind[t] = "snapshot" /\ pc[t] = "wait"
          /\ UNCHANGED <<machine, kind, before, todo, read, job>>
      BY <1>3 DEF SnapshotPoll
    <2>2. RestOK' BY <1>0, <2>1, RestKept
    <2>3. CASE End(t, "error") BY <1>c, <2>1, <2>2, <2>3, EndQuietly
    <2>4. CASE Goto(t, "tell") BY <1>b, <2>1, <2>2, <2>4, GotoQuietly
    <2> QED BY <1>3, <2>3, <2>4 DEF SnapshotPoll
  <1>4. CASE SnapshotTell(t)
    <2>1. /\ \E v \in {"some disks", "all disks"} : End(t, v)
          /\ UNCHANGED <<machine, kind, before, todo, read, job>>
      BY <1>4 DEF SnapshotTell
    <2> QED BY <1>0, <1>c, <2>1, RestKept, EndQuietly
  <1>5. CASE RestorePoll(t) \/ ClonePoll(t)
    <2>1. /\ End(t, "error") \/ End(t, "complete")
          /\ UNCHANGED <<machine, kind, before, todo, read, job>>
      BY <1>5 DEF RestorePoll, ClonePoll
    <2> QED BY <1>0, <1>c, <2>1, RestKept, EndQuietly
  <1>6. CASE JobMoves(t)
    <2>1. UNCHANGED <<machine, kind, pc, said, before, todo, read>> BY <1>6 DEF JobMoves, task
    <2>2. /\ job' \in [Task -> JobState] /\ \A s \in Task \ {t} : job'[s] = job[s]
          /\ job[t] = "working" \/ job'[t] = "gone"
      BY <1>a, <1>6 DEF JobMoves, JobState
    <2>3. TaskInv(t)' BY <1>0, <2>1, <2>2 DEF TaskInv, OlderInv, PowerInv, DeleteInv, EndInv
    <2> QED BY <1>0, <1>a, <2>1, <2>2, <2>3, RestKept, OneMoves
  <1> QED BY <1>1, <1>2, <1>3, <1>4, <1>5, <1>6 DEF Chore

\* KubeVirt's steps move the machine onward and no task.
LEMMA KubeVirtSteps == ASSUME Inv, KubeVirt PROVE Inv'
  <1>0. TypeOK /\ Instances BY DEF Inv
  <1>a. uids \in Nat /\ vm \in Nat /\ vmi \in Nat BY <1>0 DEF TypeOK
  <1> USE DEF machine, request, instance, task
  <1>1. UNCHANGED <<kind, pc, said, before, job>>
    BY DEF KubeVirt, InstanceCreated, InstanceMoves, InstanceRemoved, VmRemoved, FailureReported
  <1>2. TypeOK' /\ Instances' /\ Onward
    <2>1. CASE InstanceCreated
      <3>1. /\ vmi' = uids + 1 /\ phase' = "Pending" /\ uids' = uids + 1 /\ live' = volumes
            /\ failure' = FALSE /\ doomed' = 0
            /\ UNCHANGED <<vm, deleting, want, ran, volumes, claims, job, task>>
        BY <2>1 DEF InstanceCreated
      <3>2. TypeOK'
        <4>1. uids' \in Nat /\ vmi' \in Nat /\ doomed' \in Nat BY <1>a, <3>1
        <4>2. live' \subseteq Disk BY <1>0, <3>1 DEF TypeOK
        <4>3. failure' \in BOOLEAN BY <3>1, Zenon
        <4> QED BY <1>0, <3>1, <4>1, <4>2, <4>3 DEF TypeOK
      <3> QED BY <1>0, <1>a, <3>1, <3>2 DEF Instances, Onward
    <2>2. CASE InstanceMoves
      <3>1. /\ phase \in {"Pending", "Running"} /\ phase' \in {"Running"} \cup Final
            /\ phase' = "Running" => ran' = ran \cup {vmi}
            /\ phase' # "Running" => ran' = ran
            /\ UNCHANGED <<vm, vmi, deleting, uids, request, live, volumes, claims, job, task>>
        BY <2>2 DEF InstanceMoves, Final
      <3>2. ran \subseteq ran' /\ ran' \subseteq Nat BY <1>0, <3>1 DEF TypeOK
      <3>3. TypeOK' BY <1>0, <3>1, <3>2 DEF TypeOK
      <3>4. Instances' BY <1>0, <3>1 DEF Instances, Final
      <3>5. Onward BY <1>a, <3>1, <3>2 DEF Onward, Final
      <3> QED BY <3>3, <3>4, <3>5
    <2>3. CASE InstanceRemoved
      <3>1. /\ vmi # 0 /\ vmi' = 0 /\ phase' = "None" /\ live' = {}
            /\ UNCHANGED <<vm, deleting, uids, request, ran, volumes, claims, job, task>>
        BY <2>3 DEF InstanceRemoved
      <3>2. TypeOK' BY <1>0, <3>1 DEF TypeOK
      <3> QED BY <1>0, <1>a, <3>1, <3>2 DEF Instances, Onward
    <2>4. CASE VmRemoved
      <3>1. /\ vm' = 0 /\ doomed' = 0 /\ volumes' = {}
            /\ UNCHANGED <<uids, instance, claims, job, task>>
        BY <2>4 DEF VmRemoved
      <3>2. deleting' \in BOOLEAN /\ want' \in BOOLEAN /\ failure' \in BOOLEAN
        BY <2>4, Zenon DEF VmRemoved
      <3>3. TypeOK' BY <1>0, <3>1, <3>2 DEF TypeOK
      <3> QED BY <1>0, <1>a, <3>1, <3>3 DEF Instances, Onward
    <2>5. CASE FailureReported
      <3>1. UNCHANGED <<vm, deleting, uids, want, doomed, instance, volumes, claims, job, task>>
        BY <2>5 DEF FailureReported
      <3>2. failure' \in BOOLEAN BY <2>5, Zenon DEF FailureReported
      <3>3. TypeOK' BY <1>0, <3>1, <3>2 DEF TypeOK
      <3> QED BY <1>0, <1>a, <3>1, <3>3 DEF Instances, Onward
    <2> QED BY <2>1, <2>2, <2>3, <2>4, <2>5 DEF KubeVirt
  <1>3. \A t \in Task : TaskInv(t)' BY <1>1, <1>2, OthersKeep
  <1> QED BY <1>2, <1>3 DEF Inv

\* Every step of a task or of KubeVirt keeps the invariant.
LEMMA VmTasksStep == Inv /\ [Next]_vars => Inv'
  <1> SUFFICES ASSUME Inv, [Next]_vars PROVE Inv'
    OBVIOUS
  <1>0. TypeOK BY DEF Inv
  <1>1. CASE KubeVirt BY <1>1, KubeVirtSteps
  <1>2. ASSUME NEW t \in Task, Power(t) \/ Delete(t) \/ Create(t) \/ Plug(t) \/ Chore(t)
        PROVE  Inv'
    BY <1>2, PowerSteps, DeleteSteps, CreateSteps, PlugSteps, ChoreSteps
  <1>3. ASSUME NEW t \in Task, GivesUp(t) \/ Aborted(t) PROVE Inv'
    <2>1. \E v \in {"error", "aborted"} : End(t, v) BY <1>3 DEF GivesUp, Aborted
    <2>2. UNCHANGED <<machine, kind, before, todo, read, job>> BY <1>3 DEF GivesUp, Aborted
    <2>3. RestOK' BY <1>0, <2>2, RestKept DEF machine, request, instance
    <2>4. {"error", "aborted"} \subseteq Verdict \ Claims BY DEF Verdict, Claims
    <2> QED BY <2>1, <2>2, <2>3, <2>4, EndQuietly DEF machine, instance
  <1>4. CASE UNCHANGED vars
    <2> USE <1>4 DEF vars, machine, request, instance
    <2>1. TypeOK' BY <1>0 DEF TypeOK
    <2>2. Instances' BY DEF Inv, Instances
    <2>3. ASSUME NEW t \in Task PROVE TaskInv(t)'
      <3>1. TaskInv(t) BY DEF Inv
      <3> QED BY <3>1 DEF TaskInv, OlderInv, PowerInv, DeleteInv, EndInv
    <2> QED BY <2>1, <2>2, <2>3 DEF Inv
  <1> QED BY <1>1, <1>2, <1>3, <1>4 DEF Next

-----------------------------------------------------------------------------
(* What holds of every behaviour.                                          *)

\* The inductive invariant that the theorems below read their claims from.
THEOREM VmTasksInvariant == Spec => []Inv
  BY VmTasksInit, VmTasksStep, PTL DEF Spec

\* The state of the tasks and of the machine has its type, whatever number of
\* uids is handed out.
THEOREM VmTasksTypeOK == Spec => []TypeOK
  <1>1. Inv => TypeOK BY DEF Inv
  <1> QED BY <1>1, VmTasksInvariant, PTL

\* A start that says the VM is running has seen an instance run that was not
\* there when it looked first, however many people start, stop and restart the
\* VM meanwhile (power, "start").
THEOREM StartsAreTrue == Spec => []StartIsTrue
  <1>1. Inv => StartIsTrue BY DEF Inv, TaskInv, PowerInv, StartIsTrue
  <1> QED BY <1>1, VmTasksInvariant, PTL

\* The instance that a stop found is gone when the stop says so, and never comes
\* back (power, "stop").
THEOREM StopsAreTrue == Spec => []StopIsTrue
  <1>1. Inv => StopIsTrue BY DEF Inv, TaskInv, PowerInv, StopIsTrue
  <1> QED BY <1>1, VmTasksInvariant, PTL

\* A restart never takes the instance it found for the one it waits for
\* (power, "restart").
THEOREM RestartsAreTrue == Spec => []RestartIsTrue
  <1>1. Inv => RestartIsTrue BY DEF Inv, TaskInv, PowerInv, RestartIsTrue
  <1> QED BY <1>1, VmTasksInvariant, PTL

\* A delete touches no claim while the VM it found exists (delete).
THEOREM DisksAreSafe == Spec => []DisksOutliveTheirVm
  <1>1. Inv => DisksOutliveTheirVm BY DEF Inv, TaskInv, DeleteInv, DisksOutliveTheirVm
  <1> QED BY <1>1, VmTasksInvariant, PTL

=============================================================================
