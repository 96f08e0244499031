---------------------------- MODULE DrainProofs ----------------------------
(***************************************************************************)
(* Drain is type correct, and for any number of guests, pods and people a  *)
(* node that is reported drained, and was left cordoned, holds no guest    *)
(* but those already on their way to it.                                   *)
(***************************************************************************)
EXTENDS Drain, TLAPS

\* From the list on, until the verdict and after a good one.
Counting == pc \in {"post", "wait", "pods", "evict", "verdict"} \/ said = "drained"

\* Each loop of the drain has emptied what it works through.
Phases ==
    /\ pc \in {"cordon", "list"} => pending = {}
    /\ pc \in {"wait", "pods", "evict", "verdict"} => listed = {}
    /\ pc \in {"pods", "evict", "verdict"} => pending = {}
    /\ pc # "done" => said = ""
    /\ said = "drained" => listed = {} /\ pending = {} /\ stuck = {}

\* The cordon holds, so nobody new comes; every guest that is there is counted
\* somewhere, and one whose migration succeeded is not there.
Accounted ==
    /\ pc = "list" /\ ~uncordoned => unschedulable
    /\ Counting /\ ~uncordoned =>
         /\ unschedulable
         /\ \A g \in Guest : place[g] = "coming" => g \in late
         /\ \A g \in Guest : place[g] = "here" => g \in late \cup listed \cup pending \cup stuck
         /\ \A g \in pending : object[g] = "Succeeded" /\ place[g] = "here" => g \in late

DrainInv == TypeOK /\ Phases /\ Accounted

\* The invariant holds when the task starts.
LEMMA DrainInit == Init => DrainInv
  <1> SUFFICES ASSUME Init PROVE DrainInv
    OBVIOUS
  <1>1. TypeOK BY Zenon DEF Init, TypeOK
  <1>2. Phases BY DEF Init, Phases
  <1>3. Accounted BY DEF Init, Accounted, Counting
  <1> QED BY <1>1, <1>2, <1>3 DEF DrainInv

\* Every migration object is for a guest.
LEMMA OwnersGuest == \A o \in Owner : GuestOf(o) \in Guest
  BY DrainAssumption DEF Owner, GuestOf

\* No step of the drain, of other people or of KubeVirt breaks it.
LEMMA DrainStepInv == DrainInv /\ [Next]_vars => DrainInv'
  <1> SUFFICES ASSUME DrainInv, [Next]_vars PROVE DrainInv'
    OBVIOUS
  <1>0. Guest \subseteq Owner /\ Migrator \subseteq Owner BY DEF Owner
  <1> USE <1>0 DEF DrainInv, TypeOK, Phases, Accounted, Counting, cluster, drain
  <1>1. CASE DrainCordon BY <1>1 DEF DrainCordon
  <1>2. CASE DrainList BY <1>2 DEF DrainList
  <1>3. ASSUME NEW g \in Guest, DrainPost(g) PROVE DrainInv'
    BY <1>3 DEF DrainPost
  <1>4. CASE DrainPosted BY <1>4 DEF DrainPosted
  <1>5. ASSUME NEW g \in Guest, DrainPoll(g) PROVE DrainInv'
    BY <1>5 DEF DrainPoll
  <1>6. ASSUME NEW g \in Guest, DrainUnread(g) PROVE DrainInv'
    BY <1>6 DEF DrainUnread
  <1>7. CASE DrainPolled BY <1>7 DEF DrainPolled
  <1>8. CASE DrainPods BY <1>8 DEF DrainPods
  <1>9. ASSUME NEW p \in Pod, DrainEvict(p) PROVE DrainInv'
    BY <1>9 DEF DrainEvict
  <1>10. CASE DrainEvicted BY <1>10 DEF DrainEvicted
  <1>11. CASE DrainVerdict BY <1>11 DEF DrainVerdict
  <1>12. CASE DrainFails BY <1>12 DEF DrainFails
  <1>13. CASE DrainAborted BY <1>13 DEF DrainAborted
  <1>14. CASE Cordon BY <1>14 DEF Cordon
  <1>15. ASSUME NEW m \in Migrator, Migrate(m) PROVE DrainInv'
    <2>1. CASE MigrateFind(m) BY <2>1 DEF MigrateFind
    <2>2. CASE MigratePost(m)
      <3>1. m \notin Guest BY DrainAssumption
      <3> QED BY <2>2, <3>1 DEF MigratePost
    <2>3. CASE MigratePoll(m) BY <2>3 DEF MigratePoll
    <2>4. CASE MigrateFails(m) BY <2>4 DEF MigrateFails
    <2> QED BY <1>15, <2>1, <2>2, <2>3, <2>4 DEF Migrate
  <1>16. ASSUME NEW o \in Owner, MigrateCancel(o) PROVE DrainInv'
    BY <1>16 DEF MigrateCancel
  <1>17. ASSUME NEW o \in Owner, MigrationEnds(o) PROVE DrainInv'
    <2>1. GuestOf(o) \in Guest BY OwnersGuest
    <2>2. o \in Guest => GuestOf(o) = o BY DrainAssumption DEF GuestOf
    <2>3. CASE object' = [object EXCEPT ![o] = "Failed"] /\ UNCHANGED place
      BY <1>17, <2>3 DEF MigrationEnds
    <2>4. CASE /\ object' = [object EXCEPT ![o] = "Succeeded"]
               /\ place' = [place EXCEPT ![GuestOf(o)] = IF @ = "here" THEN "away" ELSE @]
      <3>1. object[o] = "moving" /\ UNCHANGED <<unschedulable, pods, drain, mpc, uncordoned>>
        BY <1>17 DEF MigrationEnds
      <3>2. TypeOK' BY <2>1, <2>4, <3>1
      <3>3. Phases' BY <3>1
      <3>4. Accounted' BY <2>1, <2>2, <2>4, <3>1
      <3> QED BY <3>2, <3>3, <3>4
    <2> QED BY <1>17, <2>3, <2>4 DEF MigrationEnds
  <1>18. ASSUME NEW g \in Guest, Scheduled(g) PROVE DrainInv'
    BY <1>18 DEF Scheduled
  <1>19. ASSUME NEW g \in Guest, Arrives(g) PROVE DrainInv'
    BY <1>19 DEF Arrives
  <1>20. ASSUME NEW g \in Guest, Leaves(g) PROVE DrainInv'
    BY <1>20 DEF Leaves
  <1>21. CASE UNCHANGED vars BY <1>21 DEF vars
  <1> HIDE DEF DrainInv
  <1> QED
    BY <1>1, <1>2, <1>3, <1>4, <1>5, <1>6, <1>7, <1>8, <1>9, <1>10, <1>11, <1>12, <1>13,
       <1>14, <1>15, <1>16, <1>17, <1>18, <1>19, <1>20, <1>21 DEF Next, DrainStep

\* The inductive invariant of the drain and of the migrations beside it.
THEOREM DrainInvariant == Spec => []DrainInv
  BY DrainInit, DrainStepInv, PTL DEF Spec

\* The state of a drain and of the migrations beside it has its type.
THEOREM DrainTypeOK == Spec => []TypeOK
  <1>1. DrainInv => TypeOK BY DEF DrainInv
  <1> QED BY <1>1, DrainInvariant, PTL

\* A node reported drained and left cordoned holds only guests that were on
\* their way when the list was read (drain).
THEOREM DrainEmpties == Spec => []DrainedIsEmpty
  <1>1. DrainInv => DrainedIsEmpty
    BY DEF DrainInv, Phases, Accounted, Counting, DrainedIsEmpty
  <1> QED BY <1>1, DrainInvariant, PTL
=============================================================================
