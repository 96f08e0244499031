---------------------------- MODULE MCTaskStream ----------------------------
(* Constants for model-checking TaskStream.                                 *)
EXTENDS TaskStream

CONSTANTS t1, t2, b1, alice, bob

OneOwner == [t \in Task |-> alice]
TwoOwners == [t \in Task |-> IF t = t1 THEN alice ELSE bob]
AliceEverywhere == [b \in Browser |-> alice]
=============================================================================
