---------------------------- MODULE MCSocketAck ----------------------------
(* Small instances of SocketAck for TLC.                                   *)
EXTENDS SocketAck

\* Two calls with a timeout and one without.
TimeoutMixed == [c \in Call |-> CASE c = 1 -> 1 [] c = 2 -> 2 [] OTHER -> 0]
=============================================================================
