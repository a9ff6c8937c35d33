----------------------------- MODULE MCNanoRaft -----------------------------
(* The instances of NanoRaft that TLC checks.                              *)
EXTENDS NanoRaft, TLC

\* The nodes are interchangeable: no definition tells one from another.
NodeSymmetry == Permutations(Node)
=============================================================================
