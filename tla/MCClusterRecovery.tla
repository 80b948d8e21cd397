------------------------- MODULE MCClusterRecovery --------------------------
(* Small instances of ClusterRecovery for TLC.                             *)
EXTENDS ClusterRecovery, TLC

\* Nodes and broadcasts are interchangeable.
Symmetry == Permutations(Node) \cup Permutations(Bcast)
=============================================================================
