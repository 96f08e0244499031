------------------------------ MODULE MCWatch ------------------------------
(* Constants for model-checking Watch.                                      *)
EXTENDS Watch
=============================================================================
