------------------------------ MODULE MCDrain ------------------------------
(***************************************************************************)
(* Drain for TLC: two guests, one person who migrates the first of them,   *)
(* one pod to evict and one of a daemon set.                               *)
(***************************************************************************)
EXTENDS Drain

CONSTANTS g1, g2, m1

MigrateFirst == [m \in {m1} |-> g1]
=============================================================================
