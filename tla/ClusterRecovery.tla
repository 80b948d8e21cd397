-------------------------- MODULE ClusterRecovery --------------------------
(***************************************************************************)
(* Connection state recovery across nodes: a client whose session is in the *)
(* recoveryStore of the node it was connected to comes back to any node.    *)
(* That node looks into its own store (recover) and then asks every peer    *)
(* (recoverCSR); a peer that has the session answers with a copy (snapshot, *)
(* encodeCSRResponse) and drops its own once the answer is written          *)
(* (deleteSession). Broadcasts reach every node, and each node logs them.   *)
(*                                                                         *)
(* The answer of a peer is complete for the asking node only when the       *)
(* handler has returned, thus after deleteSession. What a node does for a   *)
(* broadcast, and save and remove in onClose, are one step here; Recovery   *)
(* takes them apart.                                                       *)
(***************************************************************************)
EXTENDS Integers, Sequences, FiniteSets

CONSTANTS
  Node,         \* nodes
  Bcast,        \* broadcasts
  MaxAttempts,  \* bound: connections the client makes
  MaxSkew,      \* bound: how far the clock of a node is ahead
  Modes         \* the values mode may have

ASSUME ClusterRecoveryAssumption ==
  /\ MaxAttempts \in Nat \ {0}
  /\ MaxSkew \in Nat
  /\ Modes \subseteq SUBSET {"abandon", "split", "loss", "expire", "skew", "overlap"}

Attempt == 1..MaxAttempts

VARIABLES
  clock,    \* the time
  next,     \* [n]: recoveryStore.next
  log,      \* [n]: recoveryStore.packets
  store,    \* the nodes whose recoveryStore.sessions holds the session
  offset,   \* [b]: its offset
  emitted,  \* the broadcasts in the order of their emission
  relay,    \* [b]: the peers it is still posted to
  current,  \* the connection the client uses
  at,       \* [a]: the node
  stage,    \* [a]: idle, asking, found, up, lost, closed or fresh
  replay,   \* [a]: the packets to replay
  csr,      \* [a][p]: the request to p: idle, asked, copied, sent or none
  copied,   \* [a][p]: the packets in the answer
  last,     \* the offset the client has seen last, 0 if none
  got,      \* what the client has received
  skew,     \* [n]: how far its clock is ahead
  mode      \* what may go wrong in this behaviour

logVars == <<clock, next, log, offset, emitted, relay>>
clientVars == <<current, last, got>>
attemptVars == <<at, stage, replay>>
askVars == <<csr, copied>>
envVars == <<skew, mode>>
vars == <<logVars, store, clientVars, attemptVars, askVars, envVars>>

Init ==
  /\ clock = 1
  /\ next = [n \in Node |-> 0]
  /\ log = [n \in Node |-> <<>>]
  /\ store = {}
  /\ offset = [b \in Bcast |-> 0]
  /\ emitted = <<>>
  /\ relay = [b \in Bcast |-> {}]
  /\ current = 1
  /\ \E n \in Node : at = [a \in Attempt |-> n]
  /\ stage = [a \in Attempt |-> IF a = 1 THEN "up" ELSE "idle"]
  /\ replay = [a \in Attempt |-> <<>>]
  /\ csr = [a \in Attempt |-> [p \in Node |-> "idle"]]
  /\ copied = [a \in Attempt |-> [p \in Node |-> <<>>]]
  /\ last = 0
  /\ got = <<>>
  /\ mode \in Modes
  /\ skew \in [Node -> 0..MaxSkew]
  /\ "skew" \notin mode => skew = [n \in Node |-> 0]

\* Every broadcast has reached every node, unless broadcasts may overlap with
\* the coming and going of the client.
Settled == "overlap" \in mode \/ \A b \in Bcast : relay[b] = {}

\* A csr handler of p is between snapshot and deleteSession.
Copying(p) == \E a \in Attempt : csr[a][p] = "copied"

\* Nobody uses the store of p meanwhile, unless handlers are split.
Quiet(p) == "split" \in mode \/ ~Copying(p)

-----------------------------------------------------------------------------
\* nextOffset of n: the time, or one more than the offset before. The clock
\* counts nanoseconds: it never reads the same twice.
NextOffset(n) == IF clock + skew[n] > next[n] THEN clock + skew[n] ELSE next[n] + 1

\* apply on n: the client receives b if it is connected to n.
Apply(b, n, off) ==
  IF stage[current] = "up" /\ at[current] = n
    THEN /\ got' = Append(got, b)
         /\ last' = off
    ELSE UNCHANGED <<got, last>>

\* Emit on n: numbers, logs and applies b, and posts it to the peers.
Emit(b, n) ==
  /\ offset[b] = 0
  /\ Settled
  /\ "overlap" \in mode \/ stage[current] \notin {"asking", "found"}
  /\ next' = [next EXCEPT ![n] = NextOffset(n)]
  /\ offset' = [offset EXCEPT ![b] = NextOffset(n)]
  /\ clock' = clock + 1
  /\ log' = [log EXCEPT ![n] = Append(@, b)]
  /\ emitted' = Append(emitted, b)
  /\ relay' = [relay EXCEPT ![b] = Node \ {n}]
  /\ Apply(b, n, NextOffset(n))
  /\ UNCHANGED <<store, current, attemptVars, askVars, envVars>>

\* Mutant: the peer applies the broadcast and does not log it.
RelayUnlogged(b, p) ==
  /\ p \in relay[b]
  /\ relay' = [relay EXCEPT ![b] = @ \ {p}]
  /\ Apply(b, p, offset[b])
  /\ UNCHANGED <<clock, next, log, offset, emitted, store, current,
                 attemptVars, askVars, envVars>>

\* Handler of broadcast on p: logRemoteRecoveryPacket with the offset in the
\* packet, and apply
Relay(b, p) ==
  /\ p \in relay[b]
  /\ relay' = [relay EXCEPT ![b] = @ \ {p}]
  /\ log' = [log EXCEPT ![p] = Append(@, b)]
  /\ Apply(b, p, offset[b])
  /\ UNCHANGED <<clock, next, offset, emitted, store, current,
                 attemptVars, askVars, envVars>>

\* The post of b to p fails; nobody tries again.
RelayFails(b, p) ==
  /\ "loss" \in mode
  /\ p \in relay[b]
  /\ relay' = [relay EXCEPT ![b] = @ \ {p}]
  /\ UNCHANGED <<clock, next, log, offset, emitted, store, clientVars,
                 attemptVars, askVars, envVars>>

-----------------------------------------------------------------------------
\* The connection of the client breaks; its node does not know yet.
Lose ==
  /\ Settled
  /\ stage[current] = "up"
  /\ stage' = [stage EXCEPT ![current] = "lost"]
  /\ UNCHANGED <<logVars, store, clientVars, at, replay, askVars, envVars>>

\* onClose: save and remove
Close(a) ==
  /\ Settled
  /\ stage[a] = "lost"
  /\ Quiet(at[a])
  /\ store' = store \cup {at[a]}
  /\ stage' = [stage EXCEPT ![a] = "closed"]
  /\ UNCHANGED <<logVars, clientVars, at, replay, askVars, envVars>>

\* pruneLocked: the session of n is too old.
Expire(n) ==
  /\ "expire" \in mode
  /\ n \in store
  /\ Quiet(n)
  /\ store' = store \ {n}
  /\ UNCHANGED <<logVars, clientVars, attemptVars, askVars, envVars>>

\* The loop of recover over the log of n: what it keeps of the first k packets
Kept(n, off) ==
  LET kept[k \in 0 .. Len(log[n])] ==
        IF k = 0 THEN <<>>
        ELSE IF offset[log[n][k]] > off THEN Append(kept[k - 1], log[n][k]) ELSE kept[k - 1]
  IN kept

\* The packets in the log of n after an offset
After(n, off) == Kept(n, off)[Len(log[n])]

\* The client connects to n, after its node has noticed the end of the
\* connection before, or without waiting for that.
Connect(n) ==
  /\ Settled
  /\ \/ stage[current] = "closed"
     \/ "abandon" \in mode /\ stage[current] \in {"lost", "asking", "found"}
  /\ current < MaxAttempts
  /\ Quiet(n)
  /\ current' = current + 1
  /\ at' = [at EXCEPT ![current + 1] = n]

\* add, recover finds the session.
RecoverLocal(n) ==
  /\ Connect(n)
  /\ last # 0 /\ n \in store
  /\ store' = store \ {n}
  /\ replay' = [replay EXCEPT ![current + 1] = After(n, last)]
  /\ stage' = [stage EXCEPT ![current + 1] = "found"]
  /\ UNCHANGED <<logVars, last, got, askVars, envVars>>

\* add, recover finds none: recoverCSR posts to all peers.
AskPeers(n) ==
  /\ Connect(n)
  /\ last # 0 /\ n \notin store
  /\ stage' = [stage EXCEPT ![current + 1] = "asking"]
  /\ csr' = [csr EXCEPT ![current + 1] = [p \in Node |-> IF p = n THEN "none" ELSE "asked"]]
  /\ UNCHANGED <<logVars, store, last, got, replay, copied, envVars>>

\* add, the client has no offset: a fresh session
ConnectFresh(n) ==
  /\ Connect(n)
  /\ last = 0
  /\ stage' = [stage EXCEPT ![current + 1] = "fresh"]
  /\ UNCHANGED <<logVars, store, last, got, replay, askVars, envVars>>

\* Handler of csr on p, snapshot: a copy of the session and of the packets after
\* the client's offset. last is the offset it sent when it connected: it does not
\* change until then, and the replay on a connection it gave up reaches nobody.
Snapshot(a, p) ==
  /\ Settled
  /\ csr[a][p] = "asked"
  /\ Quiet(p)
  /\ IF p \notin store
       THEN /\ csr' = [csr EXCEPT ![a][p] = "none"]
            /\ UNCHANGED copied
       ELSE /\ csr' = [csr EXCEPT ![a][p] = "copied"]
            /\ copied' = [copied EXCEPT ![a][p] = After(p, last)]
  /\ UNCHANGED <<logVars, store, clientVars, attemptVars, envVars>>

\* Mutant: the session stays in the store.
DeleteKeeps(a, p) ==
  /\ csr[a][p] = "copied"
  /\ csr' = [csr EXCEPT ![a][p] = "sent"]
  /\ UNCHANGED <<logVars, store, clientVars, attemptVars, copied, envVars>>

\* Handler of csr on p: the answer is written, deleteSession drops what the
\* store holds now.
Delete(a, p) ==
  /\ csr[a][p] = "copied"
  /\ csr' = [csr EXCEPT ![a][p] = "sent"]
  /\ store' = store \ {p}
  /\ UNCHANGED <<logVars, clientVars, attemptVars, copied, envVars>>

\* Handler of csr on p: the answer cannot be written, the session stays.
WriteFails(a, p) ==
  /\ "loss" \in mode
  /\ csr[a][p] = "copied"
  /\ csr' = [csr EXCEPT ![a][p] = "none"]
  /\ UNCHANGED <<logVars, store, clientVars, attemptVars, copied, envVars>>

\* postToPeers returns the answers that arrived, in the order they did; where
\* requests may be lost, also without having heard of a peer.
Arrived(a, from) ==
  /\ stage[a] = "asking"
  /\ from \subseteq {p \in Node : csr[a][p] = "sent"}
  /\ "loss" \notin mode =>
       /\ from = {p \in Node : csr[a][p] = "sent"}
       /\ \A p \in Node : csr[a][p] \in {"sent", "none"}

\* releaseClusterResponses: the answers are dropped.
Release(a) ==
  /\ csr' = [csr EXCEPT ![a] = [p \in Node |-> IF @[p] = "sent" THEN "none" ELSE @[p]]]
  /\ copied' = [copied EXCEPT ![a] =
                  [p \in Node |-> IF csr[a][p] = "sent" THEN <<>> ELSE @[p]]]

\* recoverCSR takes the first answer that has the session.
TakeAnswer(a) ==
  \E from \in SUBSET Node : \E p \in from :
    /\ Arrived(a, from)
    /\ replay' = [replay EXCEPT ![a] = copied[a][p]]
    /\ stage' = [stage EXCEPT ![a] = "found"]
    /\ Release(a)
    /\ UNCHANGED <<logVars, store, clientVars, at, envVars>>

\* recoverCSR has no such answer: a fresh session
NoAnswer(a) ==
  /\ Arrived(a, {})
  /\ stage' = [stage EXCEPT ![a] = "fresh"]
  /\ Release(a)
  /\ UNCHANGED <<logVars, store, clientVars, at, replay, envVars>>

\* add registers the socket and sends the replay, to nobody if the client has
\* given up on this connection.
Register(a) ==
  /\ Settled
  /\ stage[a] = "found"
  /\ replay' = [replay EXCEPT ![a] = <<>>]
  /\ IF a = current
       THEN /\ stage' = [stage EXCEPT ![a] = "up"]
            /\ got' = got \o replay[a]
            /\ last' = IF replay[a] = <<>> THEN last ELSE offset[replay[a][Len(replay[a])]]
       ELSE /\ stage' = [stage EXCEPT ![a] = "lost"]
            /\ UNCHANGED <<got, last>>
  /\ UNCHANGED <<logVars, store, current, at, askVars, envVars>>

Broadcast ==
  \E b \in Bcast, n \in Node : Emit(b, n) \/ Relay(b, n) \/ RelayFails(b, n)

Arrive == \E n \in Node : RecoverLocal(n) \/ AskPeers(n) \/ ConnectFresh(n)

Csr ==
  \E a \in Attempt, p \in Node : Snapshot(a, p) \/ Delete(a, p) \/ WriteFails(a, p)

Next ==
  \/ Broadcast
  \/ Arrive
  \/ Csr
  \/ Lose
  \/ \E n \in Node : Expire(n)
  \/ \E a \in Attempt : Close(a) \/ TakeAnswer(a) \/ NoAnswer(a) \/ Register(a)

Spec == Init /\ [][Next]_vars

-----------------------------------------------------------------------------
\* Where the session is: in a store, with a socket, or in an answer that the
\* asking node still waits for.
HasSocket(a) == stage[a] \in {"found", "up", "lost"}
HasAnswer(a, p) == stage[a] = "asking" /\ csr[a][p] = "sent"
Holders ==
  {h \in {"store", "socket", "answer"} \X Attempt \X Node :
     \/ h[1] = "store" /\ h[2] = 1 /\ h[3] \in store
     \/ h[1] = "socket" /\ HasSocket(h[2]) /\ h[3] = at[h[2]]
     \/ h[1] = "answer" /\ HasAnswer(h[2], h[3])}

\* The session is at one place at most, and the client that is connected has
\* received every broadcast once and in the order of emission.
OneHolder == \A x, y \in Holders : x = y
AllInOrder ==
  stage[current] = "up" /\ (\A b \in Bcast : relay[b] = {}) => got = emitted

\* csr moves a session and does not copy it: whichever node the client comes
\* back to, however often it gives up waiting, and whatever is lost, no two
\* nodes have the session. This needs that nobody uses the store of a peer
\* between its snapshot and its deleteSession. Nor is the session ever gone,
\* unless it expires or an answer is lost.
SessionConserved ==
  /\ "split" \notin mode => OneHolder
  /\ mode \cap {"split", "loss", "expire"} = {} => Holders # {}

\* A connected client has received every broadcast once and in the order of
\* emission, from whichever node, and from whichever log the replay was taken.
\* This needs clocks that agree, posts that arrive, and broadcasts that do not
\* overlap with the coming and going of the client.
ReplayInOrder == mode \cap {"skew", "loss", "overlap"} = {} => AllInOrder
=============================================================================
