--------------------------- MODULE MCNanoRaftPaced ---------------------------
(* The instance of NanoRaftPaced that TLC checks.                          *)
EXTENDS NanoRaftPaced, TLC

\* The nodes are interchangeable: no definition tells one from another.
NodeSymmetry == Permutations(Node)
=============================================================================
