------------------------------ MODULE MCFanout ------------------------------
(* Small instances of Fanout for TLC.                                      *)
EXTENDS Fanout

CONSTANTS p1, p2

\* Two peers, one of which is found later or lost; a lookup may fail.
Found == {<<>>, <<p1, p2>>, <<p2>>}

\* Two names that share a peer
FoundTwice == {<<p1, p2, p2>>}

TwoPeers == <<p1, p2>>
=============================================================================
