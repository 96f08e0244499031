------------------------------- MODULE Drain -------------------------------
(***************************************************************************)
(* Node maintenance: the `node.drain`, `node.cordon` and `node.uncordon`   *)
(* tasks of src/extensions/nodes.rs, with the `vm.migrate` tasks of        *)
(* src/extensions/kubevirt.rs that people run beside them.                 *)
(*                                                                         *)
(* One node is drained; every other one is "away". A migration object is   *)
(* named by who made it: a guest, for the one the drain makes for it, or a *)
(* vm.migrate task. A poll that finds a migration still moving changes     *)
(* nothing and is not a step.                                              *)
(***************************************************************************)
EXTENDS Integers, FiniteSets

CONSTANTS Guest,        \* virtual machine instances
          Migratable,   \* those whose LiveMigratable condition is True
          Migrator,     \* vm.migrate tasks
          Goal,         \* Goal[m]: the guest task m migrates
          Pod,          \* other pods of the node
          Exempt        \* daemon set, mirror and finished pods

ASSUME DrainAssumption ==
    /\ Migratable \subseteq Guest /\ Exempt \subseteq Pod
    /\ Guest \cap Migrator = {}
    /\ Goal \in [Migrator -> Guest]

VARIABLES
    unschedulable,   \* the node is cordoned
    place,           \* place[g]: where guest g is
    object,          \* object[o]: the phase of the migration o made
    pods,            \* the pods on the node
    pc,              \* what the drain does next
    listed,          \* guests of the list not yet dealt with
    pending,         \* guests whose migration is waited for
    stuck,           \* guests counted as not moved
    evicting,        \* pods still to be evicted
    said,            \* how the drain ended
    mpc,             \* mpc[m]: what vm.migrate task m does next
    late,            \* guests on their way to the node when the list was read
    uncordoned       \* somebody has uncordoned the node since the drain began

cluster == <<unschedulable, place, object, pods>>
drain == <<pc, listed, pending, stuck, evicting, said, late>>
vars == <<cluster, drain, mpc, uncordoned>>

Owner == Guest \cup Migrator
GuestOf(o) == IF o \in Migrator THEN Goal[o] ELSE o

TypeOK ==
    /\ unschedulable \in BOOLEAN /\ uncordoned \in BOOLEAN
    /\ place \in [Guest -> {"away", "coming", "here"}]
    /\ object \in [Owner -> {"none", "moving", "Succeeded", "Failed", "deleted"}]
    /\ pods \subseteq Pod /\ evicting \subseteq Pod
    /\ pc \in {"cordon", "list", "post", "wait", "pods", "evict", "verdict", "done"}
    /\ listed \subseteq Guest /\ pending \subseteq Guest /\ stuck \subseteq Guest
    /\ late \subseteq Guest
    /\ said \in {"", "drained", "stuck", "error", "aborted"}
    /\ mpc \in [Migrator -> {"find", "post", "wait", "finished", "cancelled", "error"}]

Init ==
    /\ unschedulable \in BOOLEAN /\ uncordoned = FALSE
    /\ place \in [Guest -> {"away", "coming", "here"}]
    /\ object = [o \in Owner |-> "none"]
    /\ pods = Pod /\ evicting = {}
    /\ pc = "cordon" /\ said = ""
    /\ listed = {} /\ pending = {} /\ stuck = {} /\ late = {}
    /\ mpc = [m \in Migrator |-> "find"]

-----------------------------------------------------------------------------
(* node.drain                                                              *)

DrainCordon ==
    /\ pc = "cordon"
    /\ unschedulable' = TRUE /\ uncordoned' = FALSE
    /\ pc' = "list"
    /\ UNCHANGED <<place, object, pods, listed, pending, stuck, evicting, said, late, mpc>>

\* Mutant: migration objects are listed with the guests.
DrainListAll ==
    /\ pc = "list"
    /\ listed' = {o \in Owner : place[GuestOf(o)] = "here"}
    /\ late' = {g \in Guest : place[g] = "coming"}
    /\ pc' = "post"
    /\ UNCHANGED <<cluster, pending, stuck, evicting, said, mpc, uncordoned>>

\* By the kubevirt.io/nodeName label, which a guest on its way does not have.
DrainList ==
    /\ pc = "list"
    /\ listed' = {g \in Guest : place[g] = "here"}
    /\ late' = {g \in Guest : place[g] = "coming"}
    /\ pc' = "post"
    /\ UNCHANGED <<cluster, pending, stuck, evicting, said, mpc, uncordoned>>

InFlight(g) == \E o \in Owner : GuestOf(o) = g /\ object[o] = "moving"

\* Mutant: a migration that cannot be created is logged and not counted.
DrainPostUncounted(g) ==
    /\ pc = "post" /\ g \in listed
    /\ listed' = listed \ {g}
    /\ \/ /\ g \in Migratable /\ ~InFlight(g)
          /\ object' = [object EXCEPT ![g] = "moving"]
          /\ pending' = pending \cup {g}
       \/ UNCHANGED <<object, pending>>
    /\ UNCHANGED <<unschedulable, place, pods, pc, stuck, evicting, said, late, mpc, uncordoned>>

\* One guest of the list: a migration for it, or one more that is stuck.
\* KubeVirt refuses a second migration of a guest; any POST may fail.
DrainPost(g) ==
    /\ pc = "post" /\ g \in listed
    /\ listed' = listed \ {g}
    /\ \/ /\ g \in Migratable /\ ~InFlight(g)
          /\ object' = [object EXCEPT ![g] = "moving"]
          /\ pending' = pending \cup {g}
          /\ UNCHANGED stuck
       \/ /\ stuck' = stuck \cup {g}
          /\ UNCHANGED <<object, pending>>
    /\ UNCHANGED <<unschedulable, place, pods, pc, evicting, said, late, mpc, uncordoned>>

DrainPosted ==
    /\ pc = "post" /\ listed = {}
    /\ pc' = "wait"
    /\ UNCHANGED <<cluster, listed, pending, stuck, evicting, said, late, mpc, uncordoned>>

\* Mutant: a migration that is gone is asked for again.
DrainPollAgain(g) ==
    /\ pc = "wait" /\ g \in pending
    /\ object[g] \in {"Succeeded", "Failed"}
    /\ pending' = pending \ {g}
    /\ stuck' = (IF object[g] = "Succeeded" THEN stuck ELSE stuck \cup {g})
    /\ UNCHANGED <<cluster, pc, listed, evicting, said, late, mpc, uncordoned>>

\* One migration of a round has ended; one that is gone counts as failed.
DrainPoll(g) ==
    /\ pc = "wait" /\ g \in pending
    /\ object[g] # "moving"
    /\ pending' = pending \ {g}
    /\ stuck' = (IF object[g] = "Succeeded" THEN stuck ELSE stuck \cup {g})
    /\ UNCHANGED <<cluster, pc, listed, evicting, said, late, mpc, uncordoned>>

\* It cannot be read just now: the guest counts as stuck and its migration is
\* forgotten, whether it goes on or not.
DrainUnread(g) ==
    /\ pc = "wait" /\ g \in pending
    /\ pending' = pending \ {g}
    /\ stuck' = stuck \cup {g}
    /\ UNCHANGED <<cluster, pc, listed, evicting, said, late, mpc, uncordoned>>

DrainPolled ==
    /\ pc = "wait" /\ pending = {}
    /\ pc' \in {"pods", "verdict"}
    /\ UNCHANGED <<cluster, listed, pending, stuck, evicting, said, late, mpc, uncordoned>>

DrainPods ==
    /\ pc = "pods"
    /\ evicting' = pods \ Exempt
    /\ pc' = "evict"
    /\ UNCHANGED <<cluster, listed, pending, stuck, said, late, mpc, uncordoned>>

\* A refused eviction is only logged.
DrainEvict(p) ==
    /\ pc = "evict" /\ p \in evicting
    /\ evicting' = evicting \ {p}
    /\ pods' \in {pods, pods \ {p}}
    /\ UNCHANGED <<unschedulable, place, object, pc, listed, pending, stuck, said, late, mpc, uncordoned>>

DrainEvicted ==
    /\ pc = "evict" /\ evicting = {}
    /\ pc' = "verdict"
    /\ UNCHANGED <<cluster, listed, pending, stuck, evicting, said, late, mpc, uncordoned>>

DrainVerdict ==
    /\ pc = "verdict"
    /\ pc' = "done"
    /\ said' = (IF stuck = {} THEN "drained" ELSE "stuck")
    /\ UNCHANGED <<cluster, listed, pending, stuck, evicting, late, mpc, uncordoned>>

\* The cordon, a list or a path fails, or three hours have passed.
DrainFails ==
    /\ pc \in {"cordon", "list", "wait", "pods"}
    /\ pc = "wait" => pending # {}
    /\ pc' = "done" /\ said' = "error"
    /\ UNCHANGED <<cluster, listed, pending, stuck, evicting, late, mpc, uncordoned>>

\* tasks.stop: the migrations already made go on.
DrainAborted ==
    /\ pc # "done"
    /\ pc' = "done" /\ said' = "aborted"
    /\ UNCHANGED <<cluster, listed, pending, stuck, evicting, late, mpc, uncordoned>>

-----------------------------------------------------------------------------
(* Other people: node.cordon, node.uncordon, vm.migrate, migrate_cancel.   *)

Cordon ==
    /\ unschedulable' \in BOOLEAN
    /\ uncordoned' = (uncordoned \/ ~unschedulable')
    /\ UNCHANGED <<place, object, pods, drain, mpc>>

\* The instance is found, its metrics are read once, and the figures set up.
MigrateFind(m) ==
    /\ mpc[m] = "find"
    /\ mpc' = [mpc EXCEPT ![m] = "post"]
    /\ UNCHANGED <<cluster, drain, uncordoned>>

MigratePost(m) ==
    /\ mpc[m] = "post" /\ ~InFlight(Goal[m])
    /\ object' = [object EXCEPT ![m] = "moving"]
    /\ mpc' = [mpc EXCEPT ![m] = "wait"]
    /\ UNCHANGED <<unschedulable, place, pods, drain, uncordoned>>

MigratePoll(m) ==
    /\ mpc[m] = "wait"
    /\ \/ object[m] = "Succeeded" /\ mpc' = [mpc EXCEPT ![m] = "finished"]
       \/ object[m] = "Failed" /\ mpc' = [mpc EXCEPT ![m] = "error"]
       \/ object[m] = "deleted" /\ mpc' = [mpc EXCEPT ![m] = "cancelled"]
    /\ UNCHANGED <<cluster, drain, uncordoned>>

\* A request fails, an hour has passed, or the task is stopped.
MigrateFails(m) ==
    /\ mpc[m] \in {"find", "post", "wait"}
    /\ mpc' = [mpc EXCEPT ![m] = "error"]
    /\ UNCHANGED <<cluster, drain, uncordoned>>

MigrateCancel(o) ==
    /\ object[o] # "none"
    /\ object' = [object EXCEPT ![o] = "deleted"]
    /\ UNCHANGED <<unschedulable, place, pods, drain, mpc, uncordoned>>

-----------------------------------------------------------------------------
(* KubeVirt and the scheduler (external).                                  *)

\* A guest that starts or migrates is given to a node that takes new pods ...
Scheduled(g) ==
    /\ place[g] = "away" /\ ~unschedulable
    /\ place' = [place EXCEPT ![g] = "coming"]
    /\ UNCHANGED <<unschedulable, object, pods, drain, mpc, uncordoned>>

\* ... and arrives there later, cordoned or not.
Arrives(g) ==
    /\ place[g] = "coming"
    /\ place' = [place EXCEPT ![g] = "here"]
    /\ UNCHANGED <<unschedulable, object, pods, drain, mpc, uncordoned>>

\* A migration ends: a guest of this node is elsewhere, or stays.
MigrationEnds(o) ==
    /\ object[o] = "moving"
    /\ \/ /\ object' = [object EXCEPT ![o] = "Succeeded"]
          /\ place' = [place EXCEPT ![GuestOf(o)] = IF @ = "here" THEN "away" ELSE @]
       \/ /\ object' = [object EXCEPT ![o] = "Failed"]
          /\ UNCHANGED place
    /\ UNCHANGED <<unschedulable, pods, drain, mpc, uncordoned>>

\* A guest is stopped, or evacuated by someone else.
Leaves(g) ==
    /\ place[g] # "away"
    /\ place' = [place EXCEPT ![g] = "away"]
    /\ UNCHANGED <<unschedulable, object, pods, drain, mpc, uncordoned>>

-----------------------------------------------------------------------------
DrainStep ==
    \/ DrainCordon \/ DrainList \/ DrainPosted \/ DrainPolled
    \/ DrainPods \/ DrainEvicted \/ DrainVerdict
    \/ \E g \in Guest : DrainPost(g) \/ DrainPoll(g)
    \/ \E p \in Pod : DrainEvict(p)

Migrate(m) == MigrateFind(m) \/ MigratePost(m) \/ MigratePoll(m) \/ MigrateFails(m)

Next ==
    \/ DrainStep \/ DrainFails \/ DrainAborted \/ Cordon
    \/ \E m \in Migrator : Migrate(m)
    \/ \E o \in Owner : MigrateCancel(o) \/ MigrationEnds(o)
    \/ \E g \in Guest : DrainUnread(g) \/ Scheduled(g) \/ Arrives(g) \/ Leaves(g)

Spec == Init /\ [][Next]_vars

\* The drain's own loop goes on, and KubeVirt ends every migration; nothing
\* makes a request fail or time pass.
Fairness ==
    /\ WF_vars(DrainStep)
    /\ \A o \in Owner : WF_vars(MigrationEnds(o))

FairSpec == Spec /\ Fairness

-----------------------------------------------------------------------------
\* A node that is reported drained, and that nobody has uncordoned since, holds
\* no guest but one that was already on its way when the list was read: the
\* cordon comes before the list, and whatever did not move was counted (drain).
DrainedIsEmpty ==
    said = "drained" /\ ~uncordoned => \A g \in Guest : place[g] = "here" => g \in late

\* A drain ends without its three-hour limit once every migration does, also
\* when somebody deletes a migration it waits for (drain).
DrainSettles == <>(pc = "done")
=============================================================================
