----------------------------- MODULE MCGateway -----------------------------
(* Constants for model-checking Gateway. Tasks, calls and ids are only ever  *)
(* compared for equality, so permuting them changes no safety property.      *)
EXTENDS Gateway, TLC

Perms == Permutations(Sub) \cup Permutations(Call) \cup Permutations(Id)
=============================================================================
