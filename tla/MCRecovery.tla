----------------------------- MODULE MCRecovery -----------------------------
(* Small instances of Recovery for TLC.                                    *)
EXTENDS Recovery, TLC

\* Broadcasts are interchangeable.
BcastSymmetry == Permutations(Bcast)
=============================================================================
