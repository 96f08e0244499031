------------------------------ MODULE VmTasks ------------------------------
(***************************************************************************)
(* The tasks of src/extensions/kubevirt.rs on one virtual machine: power   *)
(* actions, delete, create, a disk alone, hotplug and unplug, snapshot,    *)
(* restore and clone, run by any number of people at once, against the     *)
(* KubeVirt that carries them out.                                         *)
(*                                                                         *)
(* A task is a chain of requests with an await between each two of them:   *)
(* what it read before one request may be stale at the next. `wait_until`  *)
(* polls every two seconds; a poll that decides nothing changes nothing,   *)
(* so only the deciding ones are steps. Names are reused and uids are not: *)
(* `vm` and `vmi` are uids, drawn from one growing counter.                *)
(***************************************************************************)
EXTENDS Integers, FiniteSets

CONSTANTS Task,     \* the tasks started
          Kind,     \* the kinds of task among them
          Disk,     \* the claims the VM's volumes name
          MaxUid    \* bound: uids ever handed out

Kinds == {"start", "stop", "restart", "signal", "delete", "create",
          "disk", "hotplug", "unplug", "snapshot", "restore", "clone"}

ASSUME VmTasksAssumption == Kind \subseteq Kinds /\ MaxUid \in Nat

VARIABLES
    vm,         \* the uid of the VirtualMachine, or 0
    deleting,   \* it has a deletion timestamp
    want,       \* KubeVirt is to keep an instance of it running
    failure,    \* it has a Failure condition
    vmi,        \* the uid of its VirtualMachineInstance, or 0
    phase,      \* the phase of that
    doomed,     \* the instance KubeVirt has been asked to end, or 0
    uids,       \* uids handed out so far
    ran,        \* instances that have been Running
    volumes,    \* the volumes of the VM's definition, each a claim
    live,       \* the volumes of its instance
    claims,     \* claims (a DataVolume with its PVC) that exist
    kind,       \* kind[t]: what task t does
    pc,         \* pc[t]: the request t makes next
    before,     \* before[t]: the uid t found first, or 0
    todo,       \* todo[t]: what t has to create, delete, plug or unplug
    read,       \* read[t]: the volumes t will write to the definition
    job,        \* job[t]: the snapshot, restore or clone object of t
    said        \* said[t]: how t ended

request == <<want, failure, doomed>>
instance == <<vmi, phase, ran, live>>
machine == <<vm, deleting, uids, request, instance, volumes, claims>>
vars == <<machine, kind, pc, said, before, todo, read, job>>

Final == {"Succeeded", "Failed"}

First == [k \in Kinds |-> CASE k = "create" -> "dry" [] k = "disk" -> "grant" [] k \in {"snapshot", "clone"} -> "post"
                            [] k \in {"hotplug", "unplug"} -> "put"
                            [] OTHER -> "find"]
PC == {"find", "put", "wait", "look", "claims", "dry", "grant", "extras",
       "disks", "follow", "patch", "post", "tell", "done"}
JobState == {"none", "working", "ready", "partial", "failed", "gone"}
Verdict == {"going", "error", "aborted", "requested", "running", "stopped", "not running",
            "restarted", "destroyed", "created", "plugged", "complete", "all disks", "some disks"}

TypeOK ==
    /\ uids \in Nat
    /\ vm \in Nat /\ doomed \in Nat
    /\ deleting \in BOOLEAN /\ want \in BOOLEAN /\ failure \in BOOLEAN
    /\ vmi \in Nat /\ phase \in {"None", "Pending", "Running"} \cup Final
    /\ ran \subseteq Nat
    /\ volumes \subseteq Disk /\ live \subseteq Disk /\ claims \subseteq Disk
    /\ kind \in [Task -> Kind]
    /\ pc \in [Task -> PC]
    /\ before \in [Task -> Nat]
    /\ todo \in [Task -> SUBSET ({"DV", "PVC"} \X Disk)]
    /\ read \in [Task -> SUBSET Disk]
    /\ job \in [Task -> JobState]
    /\ said \in [Task -> Verdict]

\* No VM, a stopped one, or one that runs.
Init ==
    /\ uids = 2
    /\ vm \in {0, 1} /\ vmi \in {0, 2}
    /\ vm = 0 => vmi = 0
    /\ phase = (IF vmi = 0 THEN "None" ELSE "Running")
    /\ want = (vmi # 0) /\ deleting = FALSE /\ failure = FALSE /\ doomed = 0
    /\ ran = {vmi} \ {0}
    /\ volumes \in {{}, Disk} /\ live = (IF vmi = 0 THEN {} ELSE volumes)
    /\ vm = 0 => volumes = {}
    /\ claims = (IF vm = 0 THEN {} ELSE Disk)
    /\ kind \in [Task -> Kind]
    /\ pc = [t \in Task |-> First[kind[t]]]
    /\ before = [t \in Task |-> 0]
    /\ todo = [t \in Task |-> {}]
    /\ read = [t \in Task |-> {}]
    /\ job = [t \in Task |-> "none"]
    /\ said = [t \in Task |-> "going"]

-----------------------------------------------------------------------------
Goto(t, where) == pc' = [pc EXCEPT ![t] = where] /\ UNCHANGED said
End(t, verdict) == pc' = [pc EXCEPT ![t] = "done"] /\ said' = [said EXCEPT ![t] = verdict]

At(t, k, where) == kind[t] \in k /\ pc[t] = where

\* A request is refused or fails, a poll cannot read what it waits for, or
\* `wait_until` has waited long enough: `?` ends the task.
GivesUp(t) ==
    /\ pc[t] \notin {"claims", "grant", "follow", "done"}
    /\ ~At(t, {"unplug"}, "put")
    /\ End(t, "error")
    /\ UNCHANGED <<machine, kind, before, todo, read, job>>

\* tasks.stop, between any two requests.
Aborted(t) ==
    /\ pc[t] # "done"
    /\ End(t, "aborted")
    /\ UNCHANGED <<machine, kind, before, todo, read, job>>

-----------------------------------------------------------------------------
(* power                                                                   *)

\* Mutant: no instance is remembered as -1, an uid like any other.
FindMinusOne(t) ==
    /\ At(t, {"start", "stop", "restart", "signal"}, "find")
    /\ before' = [before EXCEPT ![t] = IF vmi = 0 THEN -1 ELSE vmi]
    /\ Goto(t, "put")
    /\ UNCHANGED <<machine, kind, todo, read, job>>

Find(t) ==
    /\ At(t, {"start", "stop", "restart", "signal"}, "find")
    /\ before' = [before EXCEPT ![t] = vmi]
    /\ Goto(t, "put")
    /\ UNCHANGED <<machine, kind, todo, read, job>>

\* After the PUT, `wait: false` returns at once.
Requested(t) == Goto(t, "wait") \/ End(t, "requested")

\* virt-api refuses a start of what runs, or is already asked to.
StartAccepted ==
    /\ vm # 0 /\ ~deleting
    /\ phase \in Final \cup {"None"}
    /\ vmi = 0 => ~want
    /\ want' = TRUE
    /\ doomed' = vmi
    /\ failure' = FALSE

\* Mutant: a start that is refused because the VM is starting is waited for.
StartPutOrWait(t) ==
    /\ At(t, {"start"}, "put")
    /\ \/ StartAccepted
       \/ UNCHANGED <<want, doomed, failure>>
    /\ Requested(t)
    /\ UNCHANGED <<vm, deleting, uids, instance, volumes, claims, kind, before, todo, read, job>>

StartPut(t) ==
    /\ At(t, {"start"}, "put")
    /\ StartAccepted
    /\ Requested(t)
    /\ UNCHANGED <<vm, deleting, uids, instance, volumes, claims, kind, before, todo, read, job>>

\* One poll reads the instance ...
StartPoll(t) ==
    /\ At(t, {"start"}, "wait")
    /\ \/ phase = "Running" /\ End(t, "running")
       \/ phase = "Failed" /\ End(t, "error")
       \/ vmi = 0 /\ Goto(t, "look")
    /\ UNCHANGED <<machine, kind, before, todo, read, job>>

\* ... and then the VM, whose Failure counts after twenty seconds.
StartLook(t) ==
    /\ At(t, {"start"}, "look")
    /\ (vm # 0 /\ failure /\ End(t, "error")) \/ Goto(t, "wait")
    /\ UNCHANGED <<machine, kind, before, todo, read, job>>

StopPut(t) ==
    /\ At(t, {"stop"}, "put")
    /\ vm # 0
    /\ want' = FALSE /\ failure' = FALSE
    /\ doomed' = vmi
    /\ IF before[t] = 0 THEN End(t, "not running") ELSE Requested(t)
    /\ UNCHANGED <<vm, deleting, uids, instance, volumes, claims, kind, before, todo, read, job>>

\* Mutant: an instance that no longer runs is taken for gone.
StopPollPhase(t) ==
    /\ At(t, {"stop"}, "wait")
    /\ phase # "Running"
    /\ End(t, "stopped")
    /\ UNCHANGED <<machine, kind, before, todo, read, job>>

StopPoll(t) ==
    /\ At(t, {"stop"}, "wait")
    /\ vmi # before[t]
    /\ End(t, "stopped")
    /\ UNCHANGED <<machine, kind, before, todo, read, job>>

\* virt-api restarts only what runs.
RestartPut(t) ==
    /\ At(t, {"restart"}, "put")
    /\ vm # 0 /\ ~deleting /\ phase \in {"Pending", "Running"}
    /\ want' = TRUE
    /\ doomed' = vmi
    /\ Requested(t)
    /\ UNCHANGED <<vm, deleting, uids, failure, instance, volumes, claims, kind, before, todo, read, job>>

\* Mutant: the old instance, still running, is taken for the new one.
RestartPollPhase(t) ==
    /\ At(t, {"restart"}, "wait")
    /\ phase = "Running"
    /\ End(t, "restarted")
    /\ UNCHANGED <<machine, kind, before, todo, read, job>>

RestartPoll(t) ==
    /\ At(t, {"restart"}, "wait")
    /\ vmi # before[t] /\ phase = "Running"
    /\ End(t, "restarted")
    /\ UNCHANGED <<machine, kind, before, todo, read, job>>

\* reboot, reset, pause, resume, freeze, unfreeze: one request to the instance.
SignalPut(t) ==
    /\ At(t, {"signal"}, "put")
    /\ vmi # 0
    /\ End(t, "requested")
    /\ UNCHANGED <<machine, kind, before, todo, read, job>>

-----------------------------------------------------------------------------
(* delete                                                                  *)

\* When the disks are to go too, what to delete is noted: a DataVolume and then
\* the PVC of its name, or a PVC alone.
DeleteFind(t) ==
    /\ At(t, {"delete"}, "find")
    /\ vm # 0
    /\ before' = [before EXCEPT ![t] = vm]
    /\ \E objects \in {{}, {"PVC"}, {"DV", "PVC"}} :
           todo' = [todo EXCEPT ![t] = objects \X volumes]
    /\ Goto(t, "put")
    /\ UNCHANGED <<machine, kind, read, job>>

DeletePut(t) ==
    /\ At(t, {"delete"}, "put")
    /\ vm # 0
    /\ deleting' = TRUE
    /\ Goto(t, "wait")
    /\ UNCHANGED <<vm, uids, request, instance, volumes, claims, kind, before, todo, read, job>>

\* Mutant: the wait's timeout is not an error.
DeletePollOrTimeout(t) ==
    /\ At(t, {"delete"}, "wait")
    /\ Goto(t, "claims")
    /\ UNCHANGED <<machine, kind, before, todo, read, job>>

DeletePoll(t) ==
    /\ At(t, {"delete"}, "wait")
    /\ vm = 0
    /\ Goto(t, "claims")
    /\ UNCHANGED <<machine, kind, before, todo, read, job>>

\* One object at a time, a PVC after its DataVolume; a refusal is only logged.
DeleteClaim(t) ==
    /\ At(t, {"delete"}, "claims")
    /\ \E c \in Disk, object \in {"DV", "PVC"} :
        /\ <<object, c>> \in todo[t]
        /\ object = "PVC" => <<"DV", c>> \notin todo[t]
        /\ claims' \in {claims, claims \ {c}}
        /\ todo' = [todo EXCEPT ![t] = @ \ {<<object, c>>}]
    /\ UNCHANGED <<vm, deleting, uids, request, instance, volumes, kind, pc, said, before,
                   read, job>>

DeleteDone(t) ==
    /\ At(t, {"delete"}, "claims")
    /\ todo[t] = {}
    /\ End(t, "destroyed")
    /\ UNCHANGED <<machine, kind, before, todo, read, job>>

-----------------------------------------------------------------------------
(* create                                                                  *)

\* The dry run refuses a name that is taken, and a definition that is not valid
\* (GivesUp, as for any request).
CreateDry(t) ==
    /\ At(t, {"create"}, "dry")
    /\ vm = 0
    /\ Goto(t, "grant")
    /\ UNCHANGED <<machine, kind, before, todo, read, job>>

\* A Role and a RoleBinding in every namespace the disks are cloned from; one
\* that exists will do, and a refusal is only logged.
CreateGrant(t) ==
    /\ At(t, {"create", "disk"}, "grant")
    /\ Goto(t, IF kind[t] = "create" THEN "extras" ELSE "post")
    /\ UNCHANGED <<machine, kind, before, todo, read, job>>

\* The extra objects in turn: secrets and the like, which nothing here reads.
CreateExtras(t) ==
    /\ At(t, {"create"}, "extras")
    /\ \E disks \in {{}, Disk} : todo' = [todo EXCEPT ![t] = {"DV"} \X disks]
    /\ Goto(t, "disks")
    /\ UNCHANGED <<machine, kind, before, read, job>>

\* Each DataVolume in turn; a name that is taken ends the task.
CreateDisk(t) ==
    /\ At(t, {"create"}, "disks")
    /\ \E c \in Disk \ claims :
        /\ <<"DV", c>> \in todo[t]
        /\ claims' = claims \cup {c}
        /\ todo' = [todo EXCEPT ![t] = @ \ {<<"DV", c>>}]
    /\ UNCHANGED <<vm, deleting, uids, request, instance, volumes, kind, pc, said, before,
                   read, job>>

\* The VM itself, with runStrategy Always when it is to start.
CreateVm(t) ==
    /\ At(t, {"create"}, "disks")
    /\ todo[t] = {} /\ vm = 0 /\ uids < MaxUid
    /\ uids' = uids + 1 /\ vm' = uids + 1
    /\ want' \in BOOLEAN /\ deleting' = FALSE /\ failure' = FALSE /\ doomed' = 0
    /\ volumes' = Disk
    /\ Goto(t, "follow")
    /\ UNCHANGED <<instance, claims, kind, before, todo, read, job>>

\* The disks are followed; how that ends is only logged.
CreateFollowed(t) ==
    /\ At(t, {"create"}, "follow")
    /\ End(t, "created")
    /\ UNCHANGED <<machine, kind, before, todo, read, job>>

\* datavolume_create: the claim alone; `follow` that fails ends the task.
DiskPost(t) ==
    /\ At(t, {"disk"}, "post")
    /\ \E c \in Disk \ claims : claims' = claims \cup {c}
    /\ Goto(t, "wait")
    /\ UNCHANGED <<vm, deleting, uids, request, instance, volumes, kind, before, todo, read, job>>

DiskFollowed(t) ==
    /\ At(t, {"disk"}, "wait")
    /\ End(t, "created")
    /\ UNCHANGED <<machine, kind, before, todo, read, job>>

-----------------------------------------------------------------------------
(* volume_add and volume_remove                                            *)

\* The instance first: an add that it refuses ends the task ...
HotplugPut(t) ==
    /\ At(t, {"hotplug"}, "put")
    /\ vmi # 0
    /\ \E d \in Disk :
        /\ todo' = [todo EXCEPT ![t] = {<<"PVC", d>>}]
        /\ live' = live \cup {d}
    /\ Goto(t, "find")
    /\ UNCHANGED <<vm, deleting, uids, request, vmi, phase, ran, volumes, claims,
                   kind, before, read, job>>

\* ... and a remove that it refuses is only logged.
UnplugPut(t) ==
    /\ At(t, {"unplug"}, "put")
    /\ \E d \in Disk :
        /\ todo' = [todo EXCEPT ![t] = {<<"PVC", d>>}]
        /\ live' \in {live, live \ {d}}
    /\ Goto(t, "find")
    /\ UNCHANGED <<vm, deleting, uids, request, vmi, phase, ran, volumes, claims,
                   kind, before, read, job>>

\* Then the definition is read; a VM that is gone, or has the volume, needs no
\* patch ...
HotplugRead(t) ==
    /\ At(t, {"hotplug"}, "find")
    /\ \E d \in Disk :
        /\ <<"PVC", d>> \in todo[t]
        /\ IF vm = 0 \/ d \in volumes
             THEN End(t, "plugged") /\ UNCHANGED read
             ELSE Goto(t, "patch") /\ read' = [read EXCEPT ![t] = volumes \cup {d}]
    /\ UNCHANGED <<machine, kind, before, todo, job>>

UnplugRead(t) ==
    /\ At(t, {"unplug"}, "find")
    /\ \E d \in Disk :
        /\ <<"PVC", d>> \in todo[t]
        /\ IF vm = 0
             THEN End(t, "plugged") /\ UNCHANGED read
             ELSE Goto(t, "patch") /\ read' = [read EXCEPT ![t] = volumes \ {d}]
    /\ UNCHANGED <<machine, kind, before, todo, job>>

\* ... and its whole list of volumes written, with no resourceVersion.
VolumesPatch(t) ==
    /\ At(t, {"hotplug", "unplug"}, "patch")
    /\ vm # 0
    /\ volumes' = read[t]
    /\ End(t, "plugged")
    /\ UNCHANGED <<vm, deleting, uids, request, instance, claims,
                   kind, before, todo, read, job>>

-----------------------------------------------------------------------------
(* snapshot, restore, clone                                                *)

\* A restore is refused while the instance is Running.
RestoreFind(t) ==
    /\ At(t, {"restore"}, "find")
    /\ phase # "Running"
    /\ Goto(t, "post")
    /\ UNCHANGED <<machine, kind, before, todo, read, job>>

\* The object that asks KubeVirt for it.
Post(t) ==
    /\ job' = [job EXCEPT ![t] = "working"]
    /\ Goto(t, "wait")
    /\ UNCHANGED <<machine, kind, before, todo, read>>

SnapshotPost(t) == At(t, {"snapshot"}, "post") /\ Post(t)
RestorePost(t) == At(t, {"restore"}, "post") /\ Post(t)
ClonePost(t) == At(t, {"clone"}, "post") /\ Post(t)

SnapshotPoll(t) ==
    /\ At(t, {"snapshot"}, "wait")
    /\ \/ job[t] \in {"gone", "failed"} /\ End(t, "error")
       \/ job[t] \in {"ready", "partial"} /\ Goto(t, "tell")
    /\ UNCHANGED <<machine, kind, before, todo, read, job>>

\* A failed restore is not noticed and runs into the hour's timeout.
RestorePoll(t) ==
    /\ At(t, {"restore"}, "wait")
    /\ \/ job[t] = "gone" /\ End(t, "error")
       \/ job[t] \in {"ready", "partial"} /\ End(t, "complete")
    /\ UNCHANGED <<machine, kind, before, todo, read, job>>

ClonePoll(t) ==
    /\ At(t, {"clone"}, "wait")
    /\ \/ job[t] \in {"gone", "failed"} /\ End(t, "error")
       \/ job[t] \in {"ready", "partial"} /\ End(t, "complete")
    /\ UNCHANGED <<machine, kind, before, todo, read, job>>

\* The snapshot is read again for what it left out; one that is gone by now
\* left out nothing.
SnapshotTell(t) ==
    /\ At(t, {"snapshot"}, "tell")
    /\ End(t, IF job[t] = "partial" THEN "some disks" ELSE "all disks")
    /\ UNCHANGED <<machine, kind, before, todo, read, job>>

-----------------------------------------------------------------------------
(* KubeVirt (external).                                                    *)

task == <<kind, pc, said, before, todo, read>>

JobMoves(t) ==
    /\ \/ job[t] = "working" /\ job' \in {[job EXCEPT ![t] = j] : j \in {"ready", "partial", "failed"}}
       \/ job[t] \notin {"none", "gone"} /\ job' = [job EXCEPT ![t] = "gone"]
    /\ UNCHANGED <<machine, task>>

InstanceCreated ==
    /\ vm # 0 /\ ~deleting /\ want /\ vmi = 0 /\ uids < MaxUid
    /\ uids' = uids + 1
    /\ vmi' = uids + 1 /\ phase' = "Pending" /\ live' = volumes
    /\ failure' = FALSE /\ doomed' = 0
    /\ UNCHANGED <<vm, deleting, want, ran, volumes, claims, job, task>>

InstanceMoves ==
    /\ \/ phase = "Pending" /\ phase' \in {"Running", "Failed"}
       \/ phase = "Running" /\ phase' \in Final
    /\ ran' = (IF phase' = "Running" THEN ran \cup {vmi} ELSE ran)
    /\ UNCHANGED <<vm, vmi, deleting, uids, request, live, volumes, claims, job, task>>

\* An instance goes when it was asked to, or has ended by itself.
InstanceRemoved ==
    /\ vmi # 0
    /\ deleting \/ vmi = doomed \/ phase \in Final
    /\ vmi' = 0 /\ phase' = "None" /\ live' = {}
    /\ UNCHANGED <<vm, deleting, uids, request, ran, volumes, claims, job, task>>

\* Foreground deletion: the VM is removed after its instance.
VmRemoved ==
    /\ vm # 0 /\ deleting /\ vmi = 0
    /\ vm' = 0 /\ deleting' = FALSE /\ want' = FALSE /\ failure' = FALSE /\ doomed' = 0
    /\ volumes' = {}
    /\ UNCHANGED <<uids, instance, claims, job, task>>

\* A VM that cannot be started says so.
FailureReported ==
    /\ vm # 0 /\ want /\ vmi = 0 /\ ~failure
    /\ failure' = TRUE
    /\ UNCHANGED <<vm, deleting, uids, want, doomed, instance, volumes, claims, job, task>>

KubeVirt ==
    \/ InstanceCreated \/ InstanceMoves \/ InstanceRemoved
    \/ VmRemoved \/ FailureReported

-----------------------------------------------------------------------------
Power(t) ==
    \/ Find(t) \/ SignalPut(t)
    \/ StartPut(t) \/ StartPoll(t) \/ StartLook(t)
    \/ StopPut(t) \/ StopPoll(t)
    \/ RestartPut(t) \/ RestartPoll(t)

Delete(t) ==
    \/ DeleteFind(t) \/ DeletePut(t) \/ DeletePoll(t)
    \/ DeleteClaim(t) \/ DeleteDone(t)

Create(t) ==
    \/ CreateDry(t) \/ CreateGrant(t) \/ CreateExtras(t) \/ CreateDisk(t)
    \/ CreateVm(t) \/ CreateFollowed(t) \/ DiskPost(t) \/ DiskFollowed(t)

Plug(t) ==
    \/ HotplugPut(t) \/ UnplugPut(t) \/ HotplugRead(t) \/ UnplugRead(t)
    \/ VolumesPatch(t)

Chore(t) ==
    \/ SnapshotPost(t) \/ SnapshotPoll(t) \/ SnapshotTell(t)
    \/ RestoreFind(t) \/ RestorePost(t) \/ RestorePoll(t)
    \/ ClonePost(t) \/ ClonePoll(t) \/ JobMoves(t)

Next ==
    \/ \E t \in Task : \/ Power(t) \/ Delete(t) \/ Create(t) \/ Plug(t) \/ Chore(t)
                       \/ GivesUp(t) \/ Aborted(t)
    \/ KubeVirt

Spec == Init /\ [][Next]_vars

-----------------------------------------------------------------------------
\* A start that says "VM is running" started an instance: it has seen one run
\* that did not exist when the task looked first (power, "start").
StartIsTrue ==
    \A t \in Task : said[t] = "running" => \E u \in ran : u > before[t]

\* A stop that says "VM is stopped" ended the instance it found, even when
\* somebody has started another one since (power, "stop").
StopIsTrue ==
    \A t \in Task : said[t] = "stopped" => vmi # before[t]

\* A restart that says so has seen a later instance run than the one it found,
\* so the old one, slow to go, is never taken for it (power, "restart").
RestartIsTrue ==
    \A t \in Task : said[t] = "restarted" => \E u \in ran : u > before[t]

\* A delete touches no claim while the VM it found exists, deleting or not: a
\* wait that ends otherwise leaves the disks alone (delete).
DisksOutliveTheirVm ==
    \A t \in Task : kind[t] = "delete" /\ pc[t] = "claims" => vm # before[t]
=============================================================================
