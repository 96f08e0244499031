----------------------------- MODULE MCNetAgent -----------------------------
(***************************************************************************)
(* NetAgent for TLC: two nodes, two settings at a time, and a VM that      *)
(* may migrate to the other node or within its own.                        *)
(***************************************************************************)
EXTENDS NetAgent

CONSTANTS n1, n2, lan, dmz, c1, c2, c3, a1, a2, g1, g2, m1, m2

E(i, cs, g, m) ==
    [interface |-> i, clients |-> cs, guest |-> auto, snat |-> g, mac |-> m, enabled |-> TRUE]

\* Between the two a range is dropped and every address added, the gateway changes,
\* its MAC is given by hand, and a second interface has an entry switched off.
Settings == { {E(lan, {c1, c2}, g1, auto)},
              {E(lan, {c1, c3}, g2, m2), [E(dmz, {c2}, g1, auto) EXCEPT !.enabled = FALSE]} }

Places == {[old |-> n1, new |-> n2], [old |-> n1, new |-> n1]}
=============================================================================
