---------------------------- MODULE ImportProofs ----------------------------
(***************************************************************************)
(* Import is type correct, and for any number of disks of any size an      *)
(* import that succeeds is whole and is kept.                              *)
(***************************************************************************)
EXTENDS Import, TLAPS

Copying == {"dv", "open", "read", "finish", "written"}

\* One disk is copied at a time, and nothing of the others has been sent.
OneAtATime ==
    /\ \A d, e \in cur : d = e
    /\ pc \notin Copying \cup {"done"} => cur = {}
    /\ \A d \in left \ cur : took[d] = 0
    /\ pc \in {"fetch", "dry", "post", "posted", "watcher", "next", "dv", "open"} =>
          \A d \in left : took[d] = 0
    /\ pc = "read" /\ exit = "zero" => \A d \in cur : took[d] = raw

\* What is ticked off is whole, and so is what waits for CDI.
WholeSoFar ==
    /\ \A d \in Disk \ left : dv[d] = "Succeeded" /\ (d \in Sized => took[d] = Size)
    /\ pc \in {"finish", "written"} => \A d \in cur \cap Sized : took[d] = Size
    /\ pc = "start" \/ said = "imported" \/ runs => left = {}
    /\ runs => pc = "done"

\* The guard is disarmed before the task returns, and not before it is armed.
Guarded ==
    /\ pc # "done" => cleanup = "none" /\ said = ""
    /\ pc \in {"posted", "watcher", "next", "start"} \cup Copying => vm \/ removed
    /\ pc = "start" => ~armed
    /\ said = "imported" => pc = "done" /\ cleanup = "none" /\ (vm \/ removed)

ImportInv == TypeOK /\ OneAtATime /\ WholeSoFar /\ Guarded

\* The invariant holds when the task starts.
LEMMA ImportInit == Init => ImportInv
  <1> SUFFICES ASSUME Init PROVE ImportInv
    OBVIOUS
  <1>1. TypeOK
    <2>1. 0 \in 0 .. Size BY ImportAssumption
    <2>2. took \in [Disk -> 0 .. Size] BY <2>1 DEF Init
    <2> QED BY <2>1, <2>2, Zenon DEF Init, TypeOK, PC
  <1>2. OneAtATime BY DEF Init, OneAtATime, Copying
  <1>3. WholeSoFar BY DEF Init, WholeSoFar
  <1>4. Guarded BY DEF Init, Guarded, Copying
  <1> QED BY <1>1, <1>2, <1>3, <1>4 DEF ImportInv

\* A count below the size may grow by one.
LEMMA OneMore == ASSUME NEW n \in 0 .. Size, n < Size PROVE n + 1 \in 0 .. Size
  <1>1. Size \in Nat BY ImportAssumption
  <1> QED BY <1>1

\* Neither a step of the task, nor its end, nor CDI breaks it.
LEMMA ImportStep == ImportInv /\ [Next]_vars => ImportInv'
  <1> SUFFICES ASSUME ImportInv, [Next]_vars PROVE ImportInv'
    OBVIOUS
  <1>0. Size \in Nat /\ Sized \subseteq Disk /\ 0 \in 0 .. Size BY ImportAssumption
  <1> USE <1>0 DEF ImportInv, TypeOK, PC, OneAtATime, WholeSoFar, Guarded, Copying,
          disks, Goto, Leave
  <1>1. CASE Fetched BY <1>1 DEF Fetched
  <1>2. CASE DryRun BY <1>2 DEF DryRun
  <1>3. CASE Post BY <1>3 DEF Post
  <1>4. CASE Posted BY <1>4 DEF Posted
  <1>5. CASE WatcherConnected BY <1>5 DEF WatcherConnected
  <1>6. ASSUME NEW d \in Disk, NextDisk(d) PROVE ImportInv'
    BY <1>6 DEF NextDisk
  <1>7. ASSUME NEW d \in Disk, UploadReady(d) PROVE ImportInv'
    BY <1>7 DEF UploadReady
  <1>8. CASE Open BY <1>8 DEF Open
  <1>9. ASSUME NEW d \in Disk, Chunk(d) PROVE ImportInv'
    <2>1. TypeOK'
      <3>1. took[d] \in 0 .. Size /\ took[d] < Size BY <1>9 DEF Chunk
      <3>2. took[d] + 1 \in 0 .. Size BY <3>1, OneMore
      <3> QED BY <1>9, <3>2 DEF Chunk
    <2>2. OneAtATime' BY <1>9 DEF Chunk
    <2>3. WholeSoFar' /\ Guarded' BY <1>9 DEF Chunk
    <2> QED BY <2>1, <2>2, <2>3
  <1>10. CASE ExportEnds BY <1>10 DEF ExportEnds
  <1>11. CASE Checked BY <1>11 DEF Checked
  <1>12. ASSUME NEW d \in Disk, Finish(d) PROVE ImportInv'
    BY <1>12 DEF Finish
  <1>13. ASSUME NEW d \in Disk, Written(d) PROVE ImportInv'
    BY <1>13 DEF Written
  <1>14. CASE Copied BY <1>14 DEF Copied
  <1>15. CASE Imported BY <1>15 DEF Imported
  <1>16. CASE Fails BY <1>16 DEF Fails
  <1>17. CASE Aborted BY <1>17 DEF Aborted
  <1>18. CASE CleanupDelete
    <2>1. /\ pc = "done" /\ said # "imported"
          /\ cleanup' \in {"deleted", "refused"} /\ vm' \in {vm, FALSE}
          /\ UNCHANGED <<pc, runs, armed, left, cur, raw, exit, took, dv, said, removed>>
      BY <1>18 DEF CleanupDelete
    <2>2. TypeOK /\ OneAtATime /\ WholeSoFar /\ Guarded OBVIOUS
    <2> HIDE <1>0 DEF ImportInv, TypeOK, PC, OneAtATime, WholeSoFar, Guarded
    <2>3. vm' \in BOOLEAN BY <2>1, <2>2, Zenon DEF TypeOK
    <2>4. TypeOK' BY <2>1, <2>2, <2>3 DEF TypeOK
    <2>5. OneAtATime' /\ WholeSoFar' BY <2>1, <2>2 DEF OneAtATime, WholeSoFar
    <2>6. Guarded' BY <2>1 DEF Guarded
    <2> QED BY <2>4, <2>5, <2>6 DEF ImportInv
  <1>19. CASE SomebodyDeletes
    <2>1. /\ vm' = FALSE /\ removed' = TRUE
          /\ UNCHANGED <<pc, runs, armed, cleanup, left, cur, raw, exit, took, dv, said>>
      BY <1>19 DEF SomebodyDeletes
    <2>2. TypeOK /\ OneAtATime /\ WholeSoFar /\ Guarded OBVIOUS
    <2> HIDE <1>0 DEF ImportInv, TypeOK, PC, OneAtATime, WholeSoFar, Guarded
    <2>3. vm' \in BOOLEAN /\ removed' \in BOOLEAN BY <2>1, Zenon
    <2>4. TypeOK' BY <2>1, <2>2, <2>3 DEF TypeOK
    <2>5. OneAtATime' /\ WholeSoFar' BY <2>1, <2>2 DEF OneAtATime, WholeSoFar
    <2>6. Guarded' BY <2>1, <2>2 DEF Guarded
    <2> QED BY <2>4, <2>5, <2>6 DEF ImportInv
  <1>20. ASSUME NEW d \in Disk, Cdi(d) PROVE ImportInv'
    <2>1. PICK phase \in Phases[dv[d]] : dv' = [dv EXCEPT ![d] = phase]
      BY <1>20 DEF Cdi
    <2>2. dv[d] # "Succeeded" /\ phase \in {"UploadReady", "Succeeded", "Failed"}
      <3>1. dv[d] \in {"none", "UploadReady", "Processing", "Succeeded", "Failed"} BY DEF TypeOK
      <3>2. Phases["none"] = {"UploadReady", "Failed"} /\ Phases["UploadReady"] = {"Failed"}
            /\ Phases["Processing"] = {"Succeeded", "Failed"} /\ Phases["Succeeded"] = {}
            /\ Phases["Failed"] = {}
        BY DEF Phases
      <3> QED BY <2>1, <3>1, <3>2
    <2>3. UNCHANGED <<pc, vm, runs, armed, cleanup, left, cur, raw, exit, took, said, removed>>
      BY <1>20 DEF Cdi
    <2>4. dv' \in [Disk -> {"none", "UploadReady", "Processing", "Succeeded", "Failed"}]
      BY <2>1, <2>2
    <2>5. \A e \in Disk : dv[e] = "Succeeded" => dv'[e] = "Succeeded"
      BY <2>1, <2>2
    <2>6. TypeOK /\ OneAtATime /\ WholeSoFar /\ Guarded OBVIOUS
    <2> HIDE <1>0 DEF ImportInv, TypeOK, PC, OneAtATime, WholeSoFar, Guarded
    <2>7. TypeOK' BY <2>3, <2>4, <2>6 DEF TypeOK
    <2>8. OneAtATime' BY <2>3, <2>6 DEF OneAtATime
    <2>9. WholeSoFar' BY <2>3, <2>5, <2>6 DEF WholeSoFar
    <2>10. Guarded' BY <2>3, <2>6 DEF Guarded
    <2> QED BY <2>7, <2>8, <2>9, <2>10 DEF ImportInv
  <1>21. CASE UNCHANGED vars
    <2>1. UNCHANGED <<pc, vm, runs, armed, cleanup, left, cur, raw, exit, took, dv, said, removed>>
      BY <1>21 DEF vars
    <2>2. TypeOK /\ OneAtATime /\ WholeSoFar /\ Guarded OBVIOUS
    <2> HIDE <1>0 DEF ImportInv, TypeOK, PC, OneAtATime, WholeSoFar, Guarded
    <2>3. TypeOK' BY <2>1, <2>2 DEF TypeOK
    <2>4. OneAtATime' BY <2>1, <2>2 DEF OneAtATime
    <2>5. WholeSoFar' /\ Guarded' BY <2>1, <2>2 DEF WholeSoFar, Guarded
    <2> QED BY <2>3, <2>4, <2>5 DEF ImportInv
  <1>22. CASE Counted
    <2>1. TypeOK'
      <3>1. raw \in 0 .. Size /\ raw < Size BY <1>22 DEF Counted
      <3>2. raw + 1 \in 0 .. Size BY <3>1, OneMore
      <3> QED BY <1>22, <3>2 DEF Counted
    <2>2. OneAtATime' BY <1>22 DEF Counted
    <2>3. WholeSoFar' /\ Guarded' BY <1>22 DEF Counted
    <2> QED BY <2>1, <2>2, <2>3
  <1> HIDE DEF ImportInv
  <1> QED
    BY <1>1, <1>2, <1>3, <1>4, <1>5, <1>6, <1>7, <1>8, <1>9, <1>10, <1>11, <1>12, <1>13,
       <1>14, <1>15, <1>16, <1>17, <1>18, <1>19, <1>20, <1>21, <1>22 DEF Next, TaskStep, Copy

\* The inductive invariant of the import task and its guard.
THEOREM ImportInvariant == Spec => []ImportInv
  BY ImportInit, ImportStep, PTL DEF Spec

\* The state of an import has its type, whatever fails and whenever it is
\* stopped.
THEOREM ImportTypeOK == Spec => []TypeOK
  <1>1. ImportInv => TypeOK BY DEF ImportInv
  <1> QED BY <1>1, ImportInvariant, PTL

\* An import that succeeds, and a VM that it starts, has every disk accepted by
\* CDI, and every disk whose size Proxmox gave in full; of a disk of unknown size
\* only the first is claimed (pump, import).
THEOREM ImportIsWhole == Spec => []ImportedIsWhole
  <1>1. ImportInv => ImportedIsWhole BY DEF ImportInv, TypeOK, WholeSoFar, ImportedIsWhole
  <1> QED BY <1>1, ImportInvariant, PTL

\* The VM of an import that succeeds is not removed by its own guard (Cleanup).
THEOREM ImportKept == Spec => []ImportIsKept
  <1>1. ImportInv => ImportIsKept BY DEF ImportInv, Guarded, ImportIsKept
  <1> QED BY <1>1, ImportInvariant, PTL
=============================================================================
