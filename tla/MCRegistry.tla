----------------------------- MODULE MCRegistry -----------------------------
(* Small instances of NodeRegistry for TLC. *)
EXTENDS NodeRegistry, TLC

CONSTANTS n1, n2, c1, c2, l1

OneNode == {n1}
Nodes == {n1, n2}
OneCaller == {c1}
Callers == {c1, c2}
OneLister == {l1}
Empty == {}
Durations == {1}

NodeSymmetry == Permutations(Nodes)
=============================================================================
