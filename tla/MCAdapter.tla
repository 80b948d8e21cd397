----------------------------- MODULE MCAdapter -----------------------------
(* Small instances of Adapter for TLC.                                     *)
EXTENDS Adapter, TLC

CONSTANTS i1, o1, o2, own1, lobby

\* A socket and the one that recovers its session.
IdOfSame == (o1 :> i1) @@ (o2 :> i1)

OwnRoomOne == i1 :> own1

\* Sockets of one id are alike.
ObjSymmetry == Permutations(Obj)
=============================================================================
