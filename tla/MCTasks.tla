------------------------------ MODULE MCTasks ------------------------------
(* Constants for model-checking Tasks.                                      *)
EXTENDS Tasks

CONSTANTS t1, alice, bob

OneOwner == [t \in Task |-> alice]
=============================================================================
