----------------------------- MODULE MCVmTasks -----------------------------
(***************************************************************************)
(* VmTasks for TLC: two tasks of any two kinds at once, on a VM with one   *)
(* disk.                                                                   *)
(***************************************************************************)
EXTENDS VmTasks, TLC

Perms == Permutations(Task)
=============================================================================
