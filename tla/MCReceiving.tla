---------------------------- MODULE MCReceiving -----------------------------
(* Small instances of Receiving for TLC.                                   *)
EXTENDS Receiving

Send(n, k, a) == [nsp |-> n, kind |-> k, atts |-> a]

\* Two namespaces, binary packets one after the other and after a text packet
TwoNamespaces ==
  <<Send("/", "connect", 0), Send("/", "event", 2), Send("/chat", "connect", 0),
    Send("/chat", "event", 0), Send("/", "event", 1)>>
=============================================================================
