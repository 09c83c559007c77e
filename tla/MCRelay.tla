------------------------------ MODULE MCRelay ------------------------------
(* Small instances of RelaySessions for TLC. *)
EXTENDS RelaySessions, TLC

CONSTANTS n1, n2, c1, s1, s2, k1, b1

Nodes == {n1, n2}
OneNode == {n1}
Channels == {c1}
TwoStreams == {s1, s2}
OneCall == {k1}
OneBan == {b1}
Empty == {}

\* Nodes are interchangeable, and so are streams.
Symmetry == Permutations(Nodes) \cup Permutations(TwoStreams)
StreamSymmetry == Permutations(TwoStreams)
============================================================================
