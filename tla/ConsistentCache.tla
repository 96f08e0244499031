-------------------------- MODULE ConsistentCache --------------------------
(***************************************************************************)
(* What a watch promises: a copy of a collection that is, at every moment, *)
(* the whole collection as it was at one version, and that only ever moves *)
(* to later versions.                                                      *)
(*                                                                         *)
(* The collection's history is the sequence of changes the API server made *)
(* to it; a version is a position in that sequence. A copy maps an object  *)
(* to the version it was last written at, and to Absent if there is none.  *)
(***************************************************************************)
EXTENDS Naturals, Sequences

CONSTANTS Object,      \* objects of the watched collection
          Other        \* stands for any object outside it

VARIABLES history,     \* every change, in the order the API server made them
          view,        \* the copy
          at           \* the version the copy is of

Absent == 0
Change == [object: Object \cup {Other}, deleted: BOOLEAN]

\* The changes up to version v that are about o, and the last of some changes.
Writes(o, v) == {n \in 1 .. v : history[n].object = o}
Last(S) == CHOOSE n \in S : \A m \in S : m <= n
Leaves(S) == \E n \in S : (\A m \in S : m <= n) /\ ~history[n].deleted

\* The collection at version v.
StateAt(v) ==
    [o \in Object |-> IF Leaves(Writes(o, v)) THEN Last(Writes(o, v)) ELSE Absent]

Init == history = <<>> /\ view = [o \in Object |-> Absent] /\ at = 0

Write(c) ==
    /\ history' = Append(history, c)
    /\ UNCHANGED <<view, at>>

\* The copy becomes that of some later version.
Advance ==
    /\ \E v \in at .. Len(history) : at' = v /\ view' = StateAt(v)
    /\ UNCHANGED history

Next == (\E c \in Change : Write(c)) \/ Advance

Spec == Init /\ [][Next]_<<history, view, at>>
=============================================================================
