---------------------------- MODULE MCNamespace ----------------------------
(* Small instances of Namespace for TLC.                                   *)
EXTENDS Namespace, TLC

CONSTANTS i1, i2, o1, o2, o3, own1, own2

\* Two recovered successors of a socket.
IdOfOne == (o1 :> i1) @@ (o2 :> i1) @@ (o3 :> i1)

OwnRoomOne == i1 :> own1

\* A recovered successor of a socket, and a socket with an id of its own.
IdOfTwo == (o1 :> i1) @@ (o2 :> i1) @@ (o3 :> i2)

OwnRoomTwo == (i1 :> own1) @@ (i2 :> own2)

\* Connections are interchangeable.
ConnSymmetry == Permutations(Conn)
=============================================================================
