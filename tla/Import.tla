------------------------------- MODULE Import -------------------------------
(***************************************************************************)
(* The `proxmox.import` task of src/extensions/proxmox.rs: a stopped VM on *)
(* Proxmox is read disk by disk over SSH and streamed into CDI upload      *)
(* servers, into a VirtualMachine that is created halted and removed again *)
(* unless every disk arrives.                                              *)
(*                                                                         *)
(* The task is one chain of awaits and may be stopped at each; `Cleanup`   *)
(* is dropped with it. Bytes are counted in units; disks are copied one    *)
(* after the other, in an order that does not matter here.                 *)
(***************************************************************************)
EXTENDS Integers

CONSTANTS Disk,     \* the disks to copy
          Size,     \* what each of them holds
          Sized     \* those whose size the storage's listing gave

ASSUME ImportAssumption == Size \in Nat \ {0} /\ Sized \subseteq Disk

VARIABLES
    pc,        \* what the task does next
    vm,        \* the VirtualMachine of this name is there
    runs,      \* its runStrategy lets it run
    armed,     \* Cleanup.armed
    cleanup,   \* the delete that a dropped Cleanup spawns
    left,      \* disks not yet copied
    cur,       \* the disk being copied: a set of at most one
    raw,       \* what dd has said it has read
    exit,      \* how the export ended
    took,      \* took[d]: what the upload proxy has taken of disk d
    dv,        \* dv[d]: the phase of its DataVolume
    said,      \* how the task ended
    removed    \* somebody else has deleted the VM

disks == <<left, cur, raw, exit, took, dv>>
vars == <<pc, vm, runs, armed, cleanup, disks, said, removed>>

PC == {"fetch", "dry", "post", "posted", "watcher", "next", "dv", "open", "read",
       "finish", "written", "start", "done"}

TypeOK ==
    /\ pc \in PC
    /\ vm \in BOOLEAN /\ runs \in BOOLEAN /\ armed \in BOOLEAN /\ removed \in BOOLEAN
    /\ cleanup \in {"none", "spawned", "deleted", "refused"}
    /\ left \subseteq Disk /\ cur \subseteq left
    /\ raw \in 0 .. Size
    /\ exit \in {"open", "zero", "failed"}
    /\ took \in [Disk -> 0 .. Size]
    /\ dv \in [Disk -> {"none", "UploadReady", "Processing", "Succeeded", "Failed"}]
    /\ said \in {"", "imported", "error", "aborted"}

\* The request has been validated: every upload template has a disk to fill it
\* and every disk a template.
Init ==
    /\ pc = "fetch" /\ said = ""
    /\ vm = FALSE /\ runs = FALSE /\ removed = FALSE
    /\ armed = FALSE /\ cleanup = "none"
    /\ left = Disk /\ cur = {}
    /\ raw = 0 /\ exit = "open"
    /\ took = [d \in Disk |-> 0]
    /\ dv = [d \in Disk |-> "none"]

-----------------------------------------------------------------------------
Goto(where) == pc' = where /\ UNCHANGED said

\* Leaving the task drops `cleanup`, and an armed one spawns the delete.
Leave(verdict) ==
    /\ pc' = "done" /\ said' = verdict
    /\ cleanup' = (IF armed THEN "spawned" ELSE cleanup)

\* Mutant: the VM is removed where an error is returned, not when dropped.
AbortedUncleaned ==
    /\ pc # "done"
    /\ pc' = "done" /\ said' = "aborted"
    /\ UNCHANGED <<vm, runs, armed, cleanup, disks, removed>>

\* tasks.stop, at any await.
Aborted ==
    /\ pc # "done"
    /\ Leave("aborted")
    /\ UNCHANGED <<vm, runs, armed, disks, removed>>

\* Any request or command fails, its limit passes, the source is found changed,
\* locked or running, the export fails, or the proxy stops taking data.
Fails ==
    /\ pc \notin {"done", "next"}
    /\ Leave("error")
    /\ UNCHANGED <<vm, runs, armed, disks, removed>>

\* SSH, `fetch` and its checks; the jobs; the node that holds the disks.
Fetched ==
    /\ pc = "fetch"
    /\ Goto("dry")
    /\ UNCHANGED <<vm, runs, armed, cleanup, disks, removed>>

DryRun ==
    /\ pc = "dry" /\ ~vm
    /\ Goto("post")
    /\ UNCHANGED <<vm, runs, armed, cleanup, disks, removed>>

\* The API server creates the VM, halted ...
Post ==
    /\ pc = "post" /\ ~vm
    /\ vm' = TRUE
    /\ Goto("posted")
    /\ UNCHANGED <<runs, armed, cleanup, disks, removed>>

\* ... and only its answer makes the task responsible for removing it.
Posted ==
    /\ pc = "posted"
    /\ armed' = TRUE
    /\ Goto("watcher")
    /\ UNCHANGED <<vm, runs, cleanup, disks, removed>>

WatcherConnected ==
    /\ pc = "watcher"
    /\ Goto("next")
    /\ UNCHANGED <<vm, runs, armed, cleanup, disks, removed>>

-----------------------------------------------------------------------------
(* copy_disk and pump                                                      *)

NextDisk(d) ==
    /\ pc = "next" /\ d \in left
    /\ cur' = {d}
    /\ Goto("dv")
    /\ UNCHANGED <<vm, runs, armed, cleanup, left, raw, exit, took, dv, removed>>

\* KubeVirt has made the DataVolume and CDI its upload server.
UploadReady(d) ==
    /\ pc = "dv" /\ d \in cur
    /\ dv[d] = "UploadReady"
    /\ Goto("open")
    /\ UNCHANGED <<vm, runs, armed, cleanup, disks, removed>>

\* A token, the request to the proxy, and the export command.
Open ==
    /\ pc = "open"
    /\ raw' = 0 /\ exit' = "open"
    /\ Goto("read")
    /\ UNCHANGED <<vm, runs, armed, cleanup, left, cur, took, dv, removed>>

\* Data is handed on to the proxy as it comes ...
Chunk(d) ==
    /\ pc = "read" /\ d \in cur
    /\ exit = "open" /\ took[d] < Size
    /\ took' = [took EXCEPT ![d] = @ + 1]
    /\ UNCHANGED <<pc, vm, runs, armed, cleanup, left, cur, raw, exit, dv, said, removed>>

\* ... and what dd has read so far on stderr, ahead of the data or behind it.
Counted ==
    /\ pc = "read" /\ exit = "open"
    /\ raw < Size
    /\ raw' = raw + 1
    /\ UNCHANGED <<pc, vm, runs, armed, cleanup, left, cur, exit, took, dv, said, removed>>

\* The channel ends: the whole disk was read, or less, with or without a
\* status that says so. With pipefail a zero status means that all that dd has
\* counted came through the pipe and the channel.
ExportEnds ==
    /\ pc = "read" /\ exit = "open"
    /\ \/ exit' = "zero" /\ \A d \in cur : took[d] = raw
       \/ exit' = "failed"
    /\ UNCHANGED <<pc, vm, runs, armed, cleanup, left, cur, raw, took, dv, said, removed>>

\* Mutant: what dd counted is not compared with the disk's size.
CheckedStatus ==
    /\ pc = "read" /\ exit = "zero"
    /\ Goto("finish")
    /\ UNCHANGED <<vm, runs, armed, cleanup, disks, removed>>

\* After the loop: a zero status, and the size where it is known. Anything else
\* aborts the request to the proxy (Fails).
Checked ==
    /\ pc = "read" /\ exit = "zero"
    /\ cur \cap Sized # {} => raw = Size
    /\ Goto("finish")
    /\ UNCHANGED <<vm, runs, armed, cleanup, disks, removed>>

\* Upstream::finish: the body is ended and the proxy accepts it.
Finish(d) ==
    /\ pc = "finish" /\ d \in cur
    /\ dv[d] = "UploadReady"
    /\ dv' = [dv EXCEPT ![d] = "Processing"]
    /\ Goto("written")
    /\ UNCHANGED <<vm, runs, armed, cleanup, left, cur, raw, exit, took, removed>>

\* CDI has written the image (`follow`).
Written(d) ==
    /\ pc = "written" /\ d \in cur
    /\ dv[d] = "Succeeded"
    /\ left' = left \ {d} /\ cur' = {}
    /\ Goto("next")
    /\ UNCHANGED <<vm, runs, armed, cleanup, raw, exit, took, dv, removed>>

\* Mutant: the guard is still armed when the task returns.
CopiedArmed ==
    /\ pc = "next" /\ left = {}
    /\ Goto("start")
    /\ UNCHANGED <<vm, runs, armed, cleanup, disks, removed>>

\* The connections are closed and the guard is disarmed.
Copied ==
    /\ pc = "next" /\ left = {}
    /\ armed' = FALSE
    /\ Goto("start")
    /\ UNCHANGED <<vm, runs, cleanup, disks, removed>>

\* The VM is started when that was asked for.
Imported ==
    /\ pc = "start"
    /\ runs' \in {runs, TRUE} /\ (runs' # runs => vm)
    /\ Leave("imported")
    /\ UNCHANGED <<vm, armed, disks, removed>>

-----------------------------------------------------------------------------
(* The API server, KubeVirt and CDI (external).                            *)

\* The spawned delete: the VM of this name goes, or the refusal is logged.
CleanupDelete ==
    /\ cleanup = "spawned"
    /\ \/ cleanup' = "deleted" /\ vm' = FALSE
       \/ cleanup' = "refused" /\ UNCHANGED vm
    /\ UNCHANGED <<pc, runs, armed, disks, said, removed>>

SomebodyDeletes ==
    /\ vm /\ ~removed
    /\ vm' = FALSE /\ removed' = TRUE
    /\ UNCHANGED <<pc, runs, armed, cleanup, disks, said>>

Phases == [none |-> {"UploadReady", "Failed"}, UploadReady |-> {"Failed"},
           Processing |-> {"Succeeded", "Failed"}, Succeeded |-> {}, Failed |-> {}]

Cdi(d) ==
    /\ vm
    /\ \E phase \in Phases[dv[d]] : dv' = [dv EXCEPT ![d] = phase]
    /\ UNCHANGED <<pc, vm, runs, armed, cleanup, left, cur, raw, exit, took, said, removed>>

-----------------------------------------------------------------------------
Copy ==
    \/ \E d \in Disk : NextDisk(d) \/ UploadReady(d) \/ Chunk(d) \/ Finish(d) \/ Written(d)
    \/ Open \/ Counted \/ ExportEnds \/ Checked

TaskStep ==
    \/ Fetched \/ DryRun \/ Post \/ Posted \/ WatcherConnected
    \/ Copy \/ Copied \/ Imported

Next ==
    \/ TaskStep \/ Fails \/ Aborted
    \/ CleanupDelete \/ SomebodyDeletes
    \/ \E d \in Disk : Cdi(d)

Spec == Init /\ [][Next]_vars

\* A spawned request is made, and answered one way or the other.
FairSpec == Spec /\ WF_vars(CleanupDelete)

-----------------------------------------------------------------------------
\* An import that succeeds, and a VM it starts, has every disk of known size in
\* full, and every disk accepted by CDI: neither an export that broke off with
\* a zero status nor one disk of several is ever taken for it (pump, import).
ImportedIsWhole ==
    said = "imported" \/ runs =>
        \A d \in Disk : dv[d] = "Succeeded" /\ (d \in Sized => took[d] = Size)

\* A finished import is never removed by the guard of its own task (Cleanup).
ImportIsKept == said = "imported" => vm \/ removed

\* A VM the task is responsible for goes when the task does not succeed, by
\* error or by tasks.stop, unless its delete is refused (Cleanup::drop).
HalfImportsGo ==
    said \in {"error", "aborted"} /\ armed ~> ~vm \/ cleanup = "refused"
=============================================================================
