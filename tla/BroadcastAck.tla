---------------------------- MODULE BroadcastAck ----------------------------
(***************************************************************************)
(* Acknowledged broadcasts over a cluster: BroadcastOperator.emitWithAck on *)
(* the origin node, the "broadcast" and "ack" cluster operations on its     *)
(* peers, the acknowledgement packets of the clients, and the sweeper that  *)
(* expires trackers.                                                       *)
(*                                                                         *)
(* A step is one section of the code between two points where another      *)
(* goroutine or node can interfere: a section under ackMu, a section under  *)
(* the tracker's own mutex, the adapter's match, the send to one socket, or *)
(* an HTTP request or response.                                            *)
(***************************************************************************)
EXTENDS Integers, FiniteSets

CONSTANTS
  Node,       \* server processes
  Socket,     \* connected sockets, each on a connection of its own
  Bcast,      \* broadcasts with an acknowledgement callback
  Home,       \* Home[s]: the node that holds the connection of socket s
  Origin,     \* Origin[b]: the node that emits b
  Timed,      \* the broadcasts emitted with a timeout other than zero
  LocalOnly,  \* the broadcasts emitted with the Local flag
  Calm,       \* the values calm may have
  NoBcast     \* no broadcast

ASSUME BroadcastAckAssumption ==
  /\ IsFiniteSet(Socket)
  /\ Home \in [Socket -> Node]
  /\ Origin \in [Bcast -> Node]
  /\ Timed \subseteq Bcast
  /\ LocalOnly \subseteq Bcast
  /\ Calm \subseteq BOOLEAN
  /\ NoBcast \notin Bcast

VARIABLES
  ackSeq,         \* [node]: Server.ackSeq
  broadcasts,     \* Server.broadcasts of every node: the registered trackers
  id,             \* [b]: the tracker's id, 0 before it is created
  expected,       \* [b]: broadcastAckTracker.expected
  got,            \* [b]: broadcastAckTracker.got
  done,           \* [b]: broadcastAckTracker.done
  pc,             \* [b]: where the goroutine running emitWithAck is
  todo,           \* [b][n]: sockets matched by apply on n, not yet sent to
  count,          \* [b][n]: what apply returned on n
  req,            \* [b][n]: the "broadcast" request as the peer n sees it
  rep,            \* [b][n]: the same request as the origin sees it
  broadcastAcks,  \* [s]: engineConn.broadcastAcks of the connection of s
  inbox,          \* [s]: broadcasts the client holds and has not answered
  acks,           \* acknowledgements on their way to a tracker
  fin,            \* [b]: how far the goroutine that set done has come
  finByEmit,      \* [b]: that goroutine is the one running emitWithAck
  sweep,          \* [node]: the tracker sweepAcks is expiring (ackMu is held)
  resolved,       \* [b]: how often b added to sio_acks_resolved_total
  timedOut,       \* [b]: how often b added to sio_acks_timed_out_total
  outcome,        \* [b]: what the callback was told
  settles,        \* [b]: how often ackHandler.call or timeout was invoked
  credited,       \* [b]: <<socket, broadcast it answered>> counted in got[b]
  calm            \* in this behaviour no request and no forward fails, and every
                  \* client answers

emitVars    == <<pc, todo, count>>
trackerVars == <<expected, got, done, credited>>
requestVars == <<req, rep>>
clientVars  == <<broadcastAcks, inbox, acks>>
finVars     == <<fin, finByEmit>>
settleVars  == <<resolved, timedOut, outcome, settles>>
vars == <<ackSeq, broadcasts, id, emitVars, trackerVars, requestVars,
          clientVars, finVars, sweep, settleVars, calm>>

-----------------------------------------------------------------------------
SocketsOn(n) == {s \in Socket : Home[s] = n}

\* The peers postToPeers sends b to.
PeersOf(b) == IF b \in LocalOnly THEN {} ELSE Node \ {Origin[b]}

\* The acknowledgement addressed to tracker "to"; socket "from" sent it as its
\* answer to broadcast "ans". It is on the wire to another node ("post") or the
\* goroutine that received it is about to call tracker.accept ("accept").
Ack == [to : Bcast, from : Socket, ans : Bcast, at : {"post", "accept"}]

\* ackMu of node n is free: sweepAcks holds it while it expires a tracker.
AckMuFree(n) == sweep[n] = NoBcast

\* The goroutine running emitWithAck goes on only after it has finished the
\* tracker itself, where it was the one that set done.
EmitterAt(b, where) ==
  /\ pc[b] = where
  /\ ~(finByEmit[b] /\ fin[b] # "idle")

Goto(b, where) == pc' = [pc EXCEPT ![b] = where]

\* The completion test addExpected and accept share.
Complete(e, g) == e > 0 /\ g >= e

-----------------------------------------------------------------------------
Init ==
  /\ ackSeq = [n \in Node |-> 0]
  /\ broadcasts = {}
  /\ id = [b \in Bcast |-> 0]
  /\ expected = [b \in Bcast |-> 0]
  /\ got = [b \in Bcast |-> 0]
  /\ done = [b \in Bcast |-> FALSE]
  /\ credited = [b \in Bcast |-> {}]
  /\ pc = [b \in Bcast |-> "idle"]
  /\ todo = [b \in Bcast |-> [n \in Node |-> {}]]
  /\ count = [b \in Bcast |-> [n \in Node |-> 0]]
  /\ req = [b \in Bcast |-> [n \in Node |-> "none"]]
  /\ rep = [b \in Bcast |-> [n \in Node |-> "none"]]
  /\ broadcastAcks = [s \in Socket |-> {}]
  /\ inbox = [s \in Socket |-> {}]
  /\ acks = {}
  /\ fin = [b \in Bcast |-> "idle"]
  /\ finByEmit = [b \in Bcast |-> FALSE]
  /\ sweep = [n \in Node |-> NoBcast]
  /\ resolved = [b \in Bcast |-> 0]
  /\ timedOut = [b \in Bcast |-> 0]
  /\ outcome = [b \in Bcast |-> "none"]
  /\ settles = [b \in Bcast |-> 0]
  /\ calm \in Calm

-----------------------------------------------------------------------------
(* emitWithAck on the origin node                                          *)

\* Mutant: the sequence number is not stored back.
NewBroadcastAckSameId(b) ==
  /\ EmitterAt(b, "idle")
  /\ AckMuFree(Origin[b])
  /\ id' = [id EXCEPT ![b] = ackSeq[Origin[b]] + 1]
  /\ broadcasts' = broadcasts \cup {b}
  /\ Goto(b, "match")
  /\ UNCHANGED <<calm, ackSeq, todo, count, trackerVars, requestVars, clientVars,
                 finVars, sweep, settleVars>>

\* newBroadcastAck: the id is the node's own sequence number.
NewBroadcastAck(b) ==
  /\ EmitterAt(b, "idle")
  /\ AckMuFree(Origin[b])
  /\ ackSeq' = [ackSeq EXCEPT ![Origin[b]] = @ + 1]
  /\ id' = [id EXCEPT ![b] = ackSeq[Origin[b]] + 1]
  /\ broadcasts' = broadcasts \cup {b}
  /\ Goto(b, "match")
  /\ UNCHANGED <<calm, todo, count, trackerVars, requestVars, clientVars, finVars,
                 sweep, settleVars>>

\* adapter.apply takes its snapshot of the matching sockets: any set of
\* sockets of the node, whatever the rooms are at that moment.
MatchOn(b, n, targets) ==
  /\ todo' = [todo EXCEPT ![b][n] = targets]
  /\ count' = [count EXCEPT ![b][n] = Cardinality(targets)]

LocalMatch(b) ==
  /\ EmitterAt(b, "match")
  /\ \E targets \in SUBSET SocketsOn(Origin[b]) : MatchOn(b, Origin[b], targets)
  /\ Goto(b, "send")
  /\ UNCHANGED <<calm, ackSeq, broadcasts, id, trackerVars, requestVars, clientVars,
                 finVars, sweep, settleVars>>

\* apply's callback for one socket: registerBroadcastAck puts the tracker, or
\* on a peer the remoteAckForwarder, under its id on the connection, where it
\* replaces an entry with the same id; sendSocketPayload hands the client the
\* packet.
Send(b, n, s) ==
  /\ s \in todo[b][n]
  /\ todo' = [todo EXCEPT ![b][n] = @ \ {s}]
  /\ broadcastAcks' = [broadcastAcks EXCEPT
                         ![s] = {c \in @ : id[c] # id[b]} \cup {b}]
  /\ inbox' = [inbox EXCEPT ![s] = @ \cup {b}]
  /\ UNCHANGED <<calm, ackSeq, broadcasts, id, pc, count, trackerVars, requestVars,
                 acks, finVars, sweep, settleVars>>

\* The section of addExpected, accept and maybeFinish under the tracker's
\* mutex: the new counters, and whether this goroutine has to finish.
UpdateTracker(b, e, g, finish, byEmit) ==
  /\ expected' = [expected EXCEPT ![b] = e]
  /\ got' = [got EXCEPT ![b] = g]
  /\ done' = [done EXCEPT ![b] = @ \/ finish]
  /\ fin' = [fin EXCEPT ![b] = IF finish THEN "remove" ELSE @]
  /\ finByEmit' = [finByEmit EXCEPT ![b] = IF finish THEN byEmit ELSE @]

AddExpected(b, n) ==
  IF done[b]
    THEN UNCHANGED <<expected, got, done, finVars>>
    ELSE LET e == expected[b] + n
         IN UpdateTracker(b, e, got[b], Complete(e, got[b]), TRUE)

\* Mutant: a local broadcast returns without maybeFinish.
AddExpectedLocalReturns(b) ==
  /\ EmitterAt(b, "send")
  /\ todo[b][Origin[b]] = {}
  /\ AddExpected(b, count[b][Origin[b]])
  /\ Goto(b, IF PeersOf(b) = {} THEN "returned" ELSE "post")
  /\ UNCHANGED <<calm, ackSeq, broadcasts, id, todo, count, credited, requestVars,
                 clientVars, sweep, settleVars>>

AddExpectedLocal(b) ==
  /\ EmitterAt(b, "send")
  /\ todo[b][Origin[b]] = {}
  /\ AddExpected(b, count[b][Origin[b]])
  /\ Goto(b, IF PeersOf(b) = {} THEN "finish" ELSE "post")
  /\ UNCHANGED <<calm, ackSeq, broadcasts, id, todo, count, credited, requestVars,
                 clientVars, sweep, settleVars>>

\* postToPeers: a request to every peer.
PostToPeers(b) ==
  /\ EmitterAt(b, "post")
  /\ req' = [req EXCEPT ![b] = [n \in Node |-> IF n \in PeersOf(b) THEN "sent" ELSE @[n]]]
  /\ rep' = [rep EXCEPT ![b] = [n \in Node |-> IF n \in PeersOf(b) THEN "waiting" ELSE @[n]]]
  /\ Goto(b, "await")
  /\ UNCHANGED <<calm, ackSeq, broadcasts, id, todo, count, trackerVars, clientVars,
                 finVars, sweep, settleVars>>

\* broadcastWithAck, once every request was answered or has failed: the
\* responses only count when the tracker is still registered.
GetTracker(b) ==
  /\ EmitterAt(b, "await")
  /\ \A n \in PeersOf(b) : rep[b][n] # "waiting"
  /\ AckMuFree(Origin[b])
  /\ Goto(b, IF b \in broadcasts THEN "collect" ELSE "finish")
  /\ UNCHANGED <<calm, ackSeq, broadcasts, id, todo, count, trackerVars, requestVars,
                 clientVars, finVars, sweep, settleVars>>

\* addExpected with the X-Sio-Expected header of one response.
AddExpectedRemote(b, n) ==
  /\ EmitterAt(b, "collect")
  /\ rep[b][n] = "answered"
  /\ AddExpected(b, count[b][n])
  /\ rep' = [rep EXCEPT ![b][n] = "counted"]
  /\ UNCHANGED <<calm, ackSeq, broadcasts, id, emitVars, credited, req, clientVars,
                 sweep, settleVars>>

CollectEnd(b) ==
  /\ EmitterAt(b, "collect")
  /\ \A n \in PeersOf(b) : rep[b][n] # "answered"
  /\ Goto(b, "finish")
  /\ UNCHANGED <<calm, ackSeq, broadcasts, id, todo, count, trackerVars, requestVars,
                 clientVars, finVars, sweep, settleVars>>

\* Mutant: emitWithAck finishes whether or not anyone is expected to answer.
MaybeFinishAlways(b) ==
  /\ EmitterAt(b, "finish")
  /\ UpdateTracker(b, expected[b], got[b], ~done[b], TRUE)
  /\ Goto(b, "returned")
  /\ UNCHANGED <<calm, ackSeq, broadcasts, id, todo, count, credited, requestVars,
                 clientVars, sweep, settleVars>>

MaybeFinish(b) ==
  /\ EmitterAt(b, "finish")
  /\ UpdateTracker(b, expected[b], got[b], ~done[b] /\ expected[b] = 0, TRUE)
  /\ Goto(b, "returned")
  /\ UNCHANGED <<calm, ackSeq, broadcasts, id, todo, count, credited, requestVars,
                 clientVars, sweep, settleVars>>

-----------------------------------------------------------------------------
(* The "broadcast" operation on a peer                                     *)

PeerMatch(b, n) ==
  /\ req[b][n] = "sent"
  /\ \E targets \in SUBSET SocketsOn(n) : MatchOn(b, n, targets)
  /\ req' = [req EXCEPT ![b][n] = "applying"]
  /\ UNCHANGED <<calm, ackSeq, broadcasts, id, pc, trackerVars, rep, clientVars,
                 finVars, sweep, settleVars>>

\* The handler returns; its response counts unless the origin's HTTP client
\* has given up in the meantime.
PeerReply(b, n) ==
  /\ req[b][n] = "applying"
  /\ todo[b][n] = {}
  /\ req' = [req EXCEPT ![b][n] = "applied"]
  /\ rep' = [rep EXCEPT ![b][n] = IF @ = "waiting" THEN "answered" ELSE @]
  /\ UNCHANGED <<calm, ackSeq, broadcasts, id, emitVars, trackerVars, clientVars,
                 finVars, sweep, settleVars>>

\* The request fails for the origin: RequestTimeout, a refused connection, a
\* lost response, or a 404 from a node without the namespace. The peer may
\* still receive a request that is on the wire, or never see it.
RequestFails(b, n) ==
  /\ ~calm
  /\ rep[b][n] = "waiting"
  /\ rep' = [rep EXCEPT ![b][n] = "failed"]
  /\ \E r \in IF req[b][n] = "sent" THEN {"sent", "lost"} ELSE {req[b][n]} :
       req' = [req EXCEPT ![b][n] = r]
  /\ UNCHANGED <<calm, ackSeq, broadcasts, id, emitVars, trackerVars, clientVars,
                 finVars, sweep, settleVars>>

-----------------------------------------------------------------------------
(* Acknowledgements                                                        *)

\* The client of s answers b. handleParsedSocketPacket looks the id up on the
\* connection and finds the tracker (on the origin) or a forwarder.
ClientAck(s, b) ==
  /\ b \in inbox[s]
  /\ inbox' = [inbox EXCEPT ![s] = @ \ {b}]
  /\ \E t \in broadcastAcks[s] :
       /\ id[t] = id[b]
       /\ acks' = acks \cup {[to |-> t, from |-> s, ans |-> b,
                              at |-> IF Home[s] = Origin[t] THEN "accept" ELSE "post"]}
  /\ UNCHANGED <<calm, ackSeq, broadcasts, id, emitVars, trackerVars, requestVars,
                 broadcastAcks, finVars, sweep, settleVars>>

\* The "ack" operation on the origin: getBroadcastAck finds the tracker, or
\* the acknowledgement is dropped.
AckArrives(a) ==
  /\ a \in acks /\ a.at = "post"
  /\ AckMuFree(Origin[a.to])
  /\ acks' = (acks \ {a}) \cup
               (IF a.to \in broadcasts THEN {[a EXCEPT !.at = "accept"]} ELSE {})
  /\ UNCHANGED <<calm, ackSeq, broadcasts, id, emitVars, trackerVars, requestVars,
                 broadcastAcks, inbox, finVars, sweep, settleVars>>

\* remoteAckForwarder.accept ignores a failed request.
AckLost(a) ==
  /\ ~calm
  /\ a \in acks /\ a.at = "post"
  /\ acks' = acks \ {a}
  /\ UNCHANGED <<calm, ackSeq, broadcasts, id, emitVars, trackerVars, requestVars,
                 broadcastAcks, inbox, finVars, sweep, settleVars>>

\* broadcastAckTracker.accept
Accept(a) ==
  LET b == a.to
  IN /\ a \in acks /\ a.at = "accept"
     /\ acks' = acks \ {a}
     /\ IF done[b]
          THEN UNCHANGED <<trackerVars, finVars>>
          ELSE /\ UpdateTracker(b, expected[b], got[b] + 1,
                                Complete(expected[b], got[b] + 1), FALSE)
               /\ credited' = [credited EXCEPT ![b] = @ \cup {<<a.from, a.ans>>}]
     /\ UNCHANGED <<calm, ackSeq, broadcasts, id, emitVars, requestVars,
                    broadcastAcks, inbox, sweep, settleVars>>

-----------------------------------------------------------------------------
(* Finishing                                                               *)

\* Mutant: the tracker stays registered.
FinishRemoveKeeps(b) ==
  /\ fin[b] = "remove"
  /\ AckMuFree(Origin[b])
  /\ fin' = [fin EXCEPT ![b] = "call"]
  /\ UNCHANGED <<calm, ackSeq, broadcasts, id, emitVars, trackerVars, requestVars,
                 clientVars, finByEmit, sweep, settleVars>>

\* removeBroadcastAck, by the goroutine that set done
FinishRemove(b) ==
  /\ fin[b] = "remove"
  /\ AckMuFree(Origin[b])
  /\ broadcasts' = broadcasts \ {b}
  /\ fin' = [fin EXCEPT ![b] = "call"]
  /\ UNCHANGED <<calm, ackSeq, id, emitVars, trackerVars, requestVars, clientVars,
                 finByEmit, sweep, settleVars>>

\* ackHandler.call and ackHandler.timeout: sync.Once lets the first one
\* through.
Settle(b, result) ==
  /\ outcome' = [outcome EXCEPT ![b] = IF @ = "none" THEN result ELSE @]
  /\ settles' = [settles EXCEPT ![b] = @ + 1]

FinishCall(b) ==
  /\ fin[b] = "call"
  /\ fin' = [fin EXCEPT ![b] = "idle"]
  /\ resolved' = [resolved EXCEPT ![b] = @ + 1]
  /\ Settle(b, "ok")
  /\ UNCHANGED <<calm, ackSeq, broadcasts, id, emitVars, trackerVars, requestVars,
                 clientVars, finByEmit, sweep, timedOut>>

\* sweepAcks meets a tracker past its deadline: under ackMu it deletes the
\* tracker, counts it, and calls tracker.timeout.
SweepTake(b) ==
  /\ b \in broadcasts /\ b \in Timed
  /\ AckMuFree(Origin[b])
  /\ broadcasts' = broadcasts \ {b}
  /\ timedOut' = [timedOut EXCEPT ![b] = @ + 1]
  /\ sweep' = [sweep EXCEPT ![Origin[b]] = b]
  /\ UNCHANGED <<calm, ackSeq, id, emitVars, trackerVars, requestVars, clientVars,
                 finVars, resolved, outcome, settles>>

\* Mutant: timeout marks the tracker but does not call the handler.
SweepTimeoutSilent(b) ==
  /\ sweep[Origin[b]] = b
  /\ sweep' = [sweep EXCEPT ![Origin[b]] = NoBcast]
  /\ done' = [done EXCEPT ![b] = TRUE]
  /\ UNCHANGED <<calm, ackSeq, broadcasts, id, emitVars, expected, got, credited,
                 requestVars, clientVars, finVars, resolved, timedOut, outcome, settles>>

\* Mutant: timeout does not look at done.
SweepTimeoutAlways(b) ==
  /\ sweep[Origin[b]] = b
  /\ sweep' = [sweep EXCEPT ![Origin[b]] = NoBcast]
  /\ done' = [done EXCEPT ![b] = TRUE]
  /\ Settle(b, "timeout")
  /\ UNCHANGED <<calm, ackSeq, broadcasts, id, emitVars, expected, got, credited,
                 requestVars, clientVars, finVars, resolved, timedOut>>

\* tracker.timeout, still under ackMu
SweepTimeout(b) ==
  /\ sweep[Origin[b]] = b
  /\ sweep' = [sweep EXCEPT ![Origin[b]] = NoBcast]
  /\ done' = [done EXCEPT ![b] = TRUE]
  /\ IF done[b] THEN UNCHANGED <<outcome, settles>> ELSE Settle(b, "timeout")
  /\ UNCHANGED <<calm, ackSeq, broadcasts, id, emitVars, expected, got, credited,
                 requestVars, clientVars, finVars, resolved, timedOut>>

-----------------------------------------------------------------------------
Emitter(b) ==
  \/ NewBroadcastAck(b) \/ LocalMatch(b) \/ AddExpectedLocal(b)
  \/ PostToPeers(b) \/ GetTracker(b) \/ CollectEnd(b) \/ MaybeFinish(b)
  \/ \E n \in Node : AddExpectedRemote(b, n)

Peer(b) == \E n \in Node : PeerMatch(b, n) \/ PeerReply(b, n) \/ RequestFails(b, n)

Sending(b) == \E n \in Node, s \in Socket : Send(b, n, s)

Finishing(b) == FinishRemove(b) \/ FinishCall(b)

Sweeping(b) == SweepTake(b) \/ SweepTimeout(b)

Next ==
  \/ \E b \in Bcast : Emitter(b) \/ Peer(b) \/ Sending(b) \/ Finishing(b) \/ Sweeping(b)
  \/ \E s \in Socket, b \in Bcast : ClientAck(s, b)
  \/ \E a \in acks : AckArrives(a) \/ AckLost(a) \/ Accept(a)

Spec == Init /\ [][Next]_vars

\* What the code's scheduling justifies: goroutines run on, mutexes are
\* starvation free, a peer request ends at the latest after RequestTimeout, and
\* the sweeper's ticker fires every 100ms.
ServerFairness ==
  /\ \A b \in Bcast : WF_vars(Emitter(b)) /\ WF_vars(Peer(b)) /\ WF_vars(Sending(b))
  /\ \A b \in Bcast : WF_vars(Finishing(b)) /\ WF_vars(Sweeping(b))
  /\ \A b, c \in Bcast, s \in Socket, at \in {"post", "accept"} :
       LET a == [to |-> b, from |-> s, ans |-> c, at |-> at]
       IN WF_vars(a \in acks /\ (AckArrives(a) \/ AckLost(a) \/ Accept(a)))

\* In a calm behaviour every client answers every packet it receives; elsewhere
\* it need not.
ClientFairness == \A s \in Socket, b \in Bcast : WF_vars(calm /\ ClientAck(s, b))

FairSpec == Spec /\ ServerFairness /\ ClientFairness

-----------------------------------------------------------------------------
PC == {"idle", "match", "send", "post", "await", "collect", "finish", "returned"}

\* Type invariant of the trackers, the requests and the acknowledgements.
TypeOK ==
  /\ ackSeq \in [Node -> Nat]
  /\ broadcasts \in SUBSET Bcast
  /\ id \in [Bcast -> Nat]
  /\ expected \in [Bcast -> Nat]
  /\ got \in [Bcast -> Nat]
  /\ done \in [Bcast -> BOOLEAN]
  /\ credited \in [Bcast -> SUBSET (Socket \X Bcast)]
  /\ pc \in [Bcast -> PC]
  /\ todo \in [Bcast -> [Node -> SUBSET Socket]]
  /\ count \in [Bcast -> [Node -> Nat]]
  /\ req \in [Bcast -> [Node -> {"none", "sent", "applying", "applied", "lost"}]]
  /\ rep \in [Bcast -> [Node -> {"none", "waiting", "answered", "failed", "counted"}]]
  /\ broadcastAcks \in [Socket -> SUBSET Bcast]
  /\ inbox \in [Socket -> SUBSET Bcast]
  /\ acks \in SUBSET Ack
  /\ fin \in [Bcast -> {"idle", "remove", "call"}]
  /\ finByEmit \in [Bcast -> BOOLEAN]
  /\ sweep \in [Node -> Bcast \cup {NoBcast}]
  /\ resolved \in [Bcast -> Nat]
  /\ timedOut \in [Bcast -> Nat]
  /\ outcome \in [Bcast -> {"none", "ok", "timeout"}]
  /\ settles \in [Bcast -> Nat]
  /\ calm \in BOOLEAN

\* The done flag alone decides who settles a broadcast: of emitWithAck, the
\* acknowledgements and the sweeper, at most one ever invokes the callback's
\* handler, and it counts as resolved exactly when it succeeded.
SettledAtMostOnce ==
  \A b \in Bcast : /\ settles[b] <= 1
                   /\ resolved[b] = (IF outcome[b] = "ok" THEN 1 ELSE 0)

\* When the callback runs, the tracker has left Server.broadcasts, whoever
\* settled it (TestClusterBroadcastAckTimeoutCleansTracker looks at the
\* timeout case).
SettledTrackersAreGone ==
  \A b \in Bcast : outcome[b] # "none" => b \notin broadcasts

\* A broadcast never succeeds with fewer acknowledgements than it has
\* recipients on the origin node: addExpected(local) comes before everything
\* that may complete the tracker.
SuccessCoversLocal ==
  \A b \in Bcast : outcome[b] = "ok" => got[b] >= count[b][Origin[b]]

\* With every client answering and no fault, the callback of any broadcast
\* eventually runs and its tracker goes away.
AnsweredSettles ==
  \A b \in Bcast : calm /\ pc[b] # "idle" ~> outcome[b] # "none" /\ b \notin broadcasts

\* What the caller sees of b.
PhaseOf(b) == IF pc[b] = "idle" THEN "new"
              ELSE IF outcome[b] = "none" THEN "pending"
              ELSE outcome[b]

Phases == [b \in Bcast |-> PhaseOf(b)]

Promise == INSTANCE AckPromise WITH phase <- Phases

\* The broadcasts implement the safety part of the promise to the caller: the
\* callback runs once, with nil or (only with a timeout) with ErrAckTimeout,
\* and after the emit.
PromiseSafety == Promise!Safety

\* The broadcasts implement the whole promise: with a timeout the callback
\* does run.
PromiseKept == Promise!Spec

-----------------------------------------------------------------------------
(* The inductive invariant behind the safety properties, per broadcast.    *)

\* No peer request ever goes to the origin itself, so that count[b][Origin[b]]
\* is settled by LocalMatch.
OriginNotAsked(b) == req[b][Origin[b]] = "none"

\* Before emitWithAck has created the tracker nothing has happened to it.
FreshWhenIdle(b) ==
  pc[b] = "idle" => b \notin broadcasts /\ settles[b] = 0 /\ ~done[b]

\* The done flag and the goroutine that set it: the handler has been invoked
\* exactly when the flag is set and no goroutine is still finishing.
DoneDecides(b) ==
  /\ fin[b] # "idle" => done[b]
  /\ settles[b] = (IF done[b] /\ fin[b] = "idle" THEN 1 ELSE 0)
  /\ outcome[b] = "none" <=> settles[b] = 0
  /\ resolved[b] = (IF outcome[b] = "ok" THEN 1 ELSE 0)

\* Whoever is about to invoke the handler has unregistered the tracker.
UnregisteredFirst(b) ==
  /\ fin[b] = "call" => b \notin broadcasts
  /\ outcome[b] # "none" => b \notin broadcasts
  /\ sweep[Origin[b]] = b => b \notin broadcasts /\ b \in Timed /\ pc[b] # "idle"

\* Only a timeout can settle b before addExpected(local) has run, and from then
\* on expected covers the local recipients.
LocalExpectedFirst(b) ==
  /\ pc[b] \in {"idle", "match", "send"} =>
       expected[b] = 0 /\ fin[b] = "idle" /\ outcome[b] # "ok"
  /\ pc[b] \notin {"idle", "match", "send"} =>
       expected[b] >= count[b][Origin[b]] \/ outcome[b] = "timeout"
  /\ fin[b] # "idle" \/ outcome[b] = "ok" =>
       got[b] >= expected[b] /\ expected[b] >= count[b][Origin[b]]

TrackerInv(b) ==
  /\ OriginNotAsked(b)
  /\ FreshWhenIdle(b)
  /\ DoneDecides(b)
  /\ UnregisteredFirst(b)
  /\ LocalExpectedFirst(b)

IInv == \A b \in Bcast : TrackerInv(b)

-----------------------------------------------------------------------------
\* docs/prometheus.md: a callback counts as resolved or as timed out, never as
\* both.
CountedOnce == \A b \in Bcast : resolved[b] + timedOut[b] <= 1

\* Broadcast ACK aggregation: success means that every socket the packet was
\* sent to, on any node that answered the request, has acknowledged it.
AggregatesAllRecipients ==
  \A b \in Bcast : outcome[b] = "ok" =>
    \A n \in Node : rep[b][n] # "failed" =>
      Cardinality({c \in credited[b] : Home[c[1]] = n}) >= count[b][n]

\* The packet of b, its request, or an answer to it is still under way.
Unanswered(b) ==
  \/ pc[b] # "returned"
  \/ \E n \in Node : todo[b][n] # {} \/ req[b][n] \in {"sent", "applying"}
  \/ \E s \in Socket : b \in inbox[s]
  \/ \E a \in acks : a.ans = b

\* TestClusterBroadcastAck: where nothing fails, a broadcast does not time out
\* once every packet has been sent, every recipient has answered it, and every
\* answer was delivered.
ExpiresOnlyUnanswered ==
  [][calm => \A b \in Bcast : outcome[b] = "none" /\ outcome'[b] = "timeout" => Unanswered(b)]_vars
=============================================================================
