--------------------------- MODULE MCBroadcastAck ---------------------------
(* Small instances of BroadcastAck for TLC.                                *)
EXTENDS BroadcastAck, TLC

CONSTANTS n1, n2, s1, s2, b1, b2

\* One socket on the emitting node and one on its peer.
HomeOneOne == (s1 :> n1) @@ (s2 :> n2)

\* A single socket, on n1.
HomeOne == s1 :> n1

\* Both broadcasts start on n1; one on each of n1 and n2.
OriginSame == (b1 :> n1) @@ (b2 :> n1)
OriginBoth == (b1 :> n1) @@ (b2 :> n2)
=============================================================================
