----------------------------- MODULE Transport -----------------------------
(***************************************************************************)
(* The outgoing side of engineConn: payloads that several goroutines send   *)
(* (sendSocketPayload), the choice between the poll queue and the channel   *)
(* of the websocket (enqueueFrame), the write loop, GET requests, the       *)
(* upgrade from polling to websocket and close. The poll queue is the one   *)
(* of PollQueue.                                                           *)
(*                                                                         *)
(* The reads of "closed" and of "ws" in enqueueFrame are one step: closed   *)
(* is never reset and only refuses frames, so that a close between the two  *)
(* reads looks like a close after both. The choice and the enqueueing are   *)
(* two steps.                                                              *)
(***************************************************************************)
EXTENDS Naturals, Sequences

CONSTANTS
  Sender,      \* goroutines that send to the connection
  Getter,      \* GET requests the client may have open
  Attachments, \* attachments of every payload
  MaxPayloads, \* bound: payloads a goroutine sends
  SendCap,     \* capacity of the channel send (256 in the code)
  Fresh,       \* transports the connection may be opened with
  CanUpgrade,  \* the client asks for an upgrade
  Faults       \* the connection may break, and the client vanish

ASSUME TransportAssumption ==
  /\ Attachments \in Nat /\ MaxPayloads \in Nat /\ SendCap \in Nat \ {0}
  /\ Fresh \subseteq {"polling", "websocket"}
  /\ CanUpgrade \in BOOLEAN /\ Faults \in BOOLEAN

VARIABLES
  frames, ready, adder, taker, added, out,  \* the poll queue, see PollQueue
  ws,       \* engineConn.ws is set
  upgrade,  \* no, probing (acceptUpgradeWebSocket), done or failed
  send,     \* engineConn.send
  writer,   \* the write loop: off, running or stopped
  got,      \* frames the client has received, in the order of time
  gone,     \* the client has vanished without a word
  closed,   \* engineConn.closed
  closing,  \* what close has yet to do: nothing, stop the loops, forget the connection
  sent,     \* [s]: payloads s has begun to send
  rest,     \* [s]: frames of the current payload that are not enqueued
  route     \* [s]: where enqueueFrame decided to put the first of them

queueVars == <<frames, ready, adder, taker, added, out>>
connVars == <<ws, upgrade, send, writer, closed, closing>>
senderVars == <<sent, rest, route>>
clientVars == <<got, gone>>
vars == <<queueVars, connVars, clientVars, senderVars>>

\* Frame k of payload n of sender s; frame 0 is the packet, the others are its
\* attachments.
Frame == Sender \X (1 .. MaxPayloads) \X (0 .. Attachments)

Queue == INSTANCE PollQueue WITH Adder <- Sender, Taker <- Getter

Init ==
  /\ Queue!Init
  /\ \E t \in Fresh : ws = (t = "websocket")
  /\ upgrade = "no"
  /\ send = <<>>
  /\ writer = IF ws THEN "running" ELSE "off"
  /\ got = <<>>
  /\ gone = FALSE
  /\ closed = FALSE
  /\ closing = "no"
  /\ sent = [s \in Sender |-> 0]
  /\ rest = [s \in Sender |-> <<>>]
  /\ route = [s \in Sender |-> "none"]

-----------------------------------------------------------------------------
\* close, up to the compare-and-swap that only the first caller passes; its
\* sockets are the matter of Namespace.
BeginClose ==
  /\ closed' = TRUE
  /\ closing' = IF closed THEN closing ELSE "stop"

\* The first frame of the payload of s is enqueued or dropped.
FrameDone(s) ==
  /\ rest' = [rest EXCEPT ![s] = Tail(@)]
  /\ route' = [route EXCEPT ![s] = "none"]

\* sendSocketPayload
SendPayload(s) ==
  /\ rest[s] = <<>>
  /\ sent[s] < MaxPayloads
  /\ sent' = [sent EXCEPT ![s] = @ + 1]
  /\ rest' = [rest EXCEPT ![s] = [k \in 1 .. Attachments + 1 |-> <<s, sent[s] + 1, k - 1>>]]
  /\ UNCHANGED <<queueVars, connVars, clientVars, route>>

\* enqueueFrame on a closed connection
EnqueueClosed(s) ==
  /\ rest[s] # <<>>
  /\ route[s] = "none"
  /\ closed
  /\ FrameDone(s)
  /\ UNCHANGED <<queueVars, connVars, clientVars, sent>>

\* enqueueFrame chooses the transport
EnqueueRoute(s) ==
  /\ rest[s] # <<>>
  /\ route[s] = "none"
  /\ ~closed
  /\ route' = [route EXCEPT ![s] = IF ws THEN "send" ELSE "poll"]
  /\ UNCHANGED <<queueVars, connVars, clientVars, sent, rest>>

\* enqueueFrame, pollQueue.add
EnqueuePoll(s) ==
  /\ route[s] = "poll"
  /\ Queue!AddAppend(s, Head(rest[s]))
  /\ UNCHANGED <<connVars, clientVars, senderVars>>

\* Mutant: the frame is appended, but nobody is told.
EnqueuePollSilent(s) ==
  /\ adder[s] = "signal"
  /\ adder' = [adder EXCEPT ![s] = "idle"]
  /\ FrameDone(s)
  /\ UNCHANGED <<frames, ready, taker, added, out, connVars, clientVars, sent>>

EnqueuePollSignal(s) ==
  /\ Queue!AddSignal(s)
  /\ FrameDone(s)
  /\ UNCHANGED <<connVars, clientVars, sent>>

\* enqueueFrame, there is room in the channel
EnqueueSend(s) ==
  /\ route[s] = "send"
  /\ Len(send) < SendCap
  /\ send' = Append(send, Head(rest[s]))
  /\ FrameDone(s)
  /\ UNCHANGED <<queueVars, ws, upgrade, writer, clientVars, closed, closing, sent>>

\* Mutant: a frame that finds the channel full is dropped, nothing else.
EnqueueOverflowDrops(s) ==
  /\ route[s] = "send"
  /\ Len(send) = SendCap
  /\ FrameDone(s)
  /\ UNCHANGED <<queueVars, connVars, clientVars, sent>>

\* enqueueFrame, the channel is full
EnqueueOverflow(s) ==
  /\ route[s] = "send"
  /\ Len(send) = SendCap
  /\ BeginClose
  /\ FrameDone(s)
  /\ UNCHANGED <<queueVars, ws, upgrade, send, writer, clientVars, sent>>

-----------------------------------------------------------------------------
\* Frames are written to the client, which receives them unless it is gone.
Deliver(fs) ==
  /\ got' = IF gone THEN got ELSE got \o fs
  /\ UNCHANGED gone

\* writeLoop writes a frame.
Write ==
  /\ writer = "running"
  /\ send # <<>>
  /\ send' = Tail(send)
  /\ Deliver(<<Head(send)>>)
  /\ UNCHANGED <<queueVars, ws, upgrade, writer, closed, closing, senderVars>>

\* writeLoop fails to write a frame, closes the connection and returns.
WriteFail ==
  /\ Faults
  /\ writer = "running"
  /\ send # <<>>
  /\ send' = Tail(send)
  /\ writer' = "stopped"
  /\ BeginClose
  /\ UNCHANGED <<queueVars, ws, upgrade, clientVars, senderVars>>

\* Mutant: the loop returns without closing the connection.
PingFailReturns ==
  /\ writer = "running"
  /\ gone
  /\ writer' = "stopped"
  /\ UNCHANGED <<queueVars, ws, upgrade, send, closed, closing, clientVars, senderVars>>

\* writeLoop writes a ping every PingInterval, which fails sooner or later when
\* nobody receives it.
PingFail ==
  /\ writer = "running"
  /\ gone
  /\ writer' = "stopped"
  /\ BeginClose
  /\ UNCHANGED <<queueVars, ws, upgrade, send, clientVars, senderVars>>

\* A packet "1", a read that fails, Disconnect or Server.Close
Close ==
  /\ Faults
  /\ ~closed
  /\ BeginClose
  /\ UNCHANGED <<queueVars, ws, upgrade, send, writer, clientVars, senderVars>>

\* close closes the websocket and cancels the loops.
CloseStop ==
  /\ closing = "stop"
  /\ writer' = IF writer = "running" THEN "stopped" ELSE writer
  /\ closing' = "forget"
  /\ UNCHANGED <<queueVars, ws, upgrade, send, clientVars, closed, senderVars>>

\* close, having waited for the loops at most a second, removes the connection
\* from Server.conns.
CloseForget ==
  /\ closing = "forget"
  /\ closing' = "done"
  /\ UNCHANGED <<queueVars, ws, upgrade, send, writer, clientVars, closed, senderVars>>

-----------------------------------------------------------------------------
\* External: the client keeps a GET open, but opens none between the answer to
\* its probe and the end of the upgrade, nor once it has upgraded.
ClientPolls == ~gone /\ ~ws /\ upgrade # "probing"

\* External: the client goes away, and nothing tells the server.
ClientVanishes ==
  /\ Faults
  /\ ~gone
  /\ gone' = TRUE
  /\ UNCHANGED <<queueVars, connVars, got, senderVars>>

\* servePolling, GET: the connection is looked up, and take called.
Get(t) ==
  /\ ClientPolls
  /\ closing # "done"
  /\ \/ Queue!TakeNow(t) /\ Deliver(frames)
     \/ Queue!TakeWait(t) /\ UNCHANGED clientVars
  /\ UNCHANGED <<connVars, senderVars>>

\* The rest of take and the response; a response that cannot be written is gone
GetWakes(t) == Queue!TakeReady(t) /\ UNCHANGED <<connVars, clientVars, senderVars>>
GetTimeout(t) == Queue!TakeTimeout(t) /\ UNCHANGED <<connVars, clientVars, senderVars>>
GetReturns(t) ==
  /\ Queue!TakeRest(t)
  /\ Deliver(frames)
  /\ UNCHANGED <<connVars, senderVars>>

\* serveWebSocket with the id of a connection, up to the answer to the probe
UpgradeProbe ==
  /\ CanUpgrade
  /\ ~ws /\ ~gone
  /\ upgrade = "no"
  /\ closing # "done"
  /\ upgrade' = "probing"
  /\ UNCHANGED <<queueVars, ws, send, writer, clientVars, closed, closing, senderVars>>

\* The probe fails or takes longer than two seconds; the client goes on polling.
UpgradeFail ==
  /\ upgrade = "probing"
  /\ upgrade' = "failed"
  /\ UNCHANGED <<queueVars, ws, send, writer, clientVars, closed, closing, senderVars>>

\* Mutant: the loops are started for a fresh websocket only.
UpgradeNoLoops ==
  /\ upgrade = "probing"
  /\ ~gone
  /\ \A t \in Getter : taker[t] = "idle"
  /\ upgrade' = "done"
  /\ ws' = TRUE
  /\ UNCHANGED <<queueVars, send, writer, clientVars, closed, closing, senderVars>>

\* The client, its last GET answered, sends "5": ws is set and the loops start.
\* They return at once when close has cancelled them before.
Upgrade ==
  /\ upgrade = "probing"
  /\ ~gone
  /\ \A t \in Getter : taker[t] = "idle"
  /\ upgrade' = "done"
  /\ ws' = TRUE
  /\ writer' = IF closing \in {"no", "stop"} THEN "running" ELSE "stopped"
  /\ UNCHANGED <<queueVars, send, clientVars, closed, closing, senderVars>>

Enqueue(s) ==
  \/ EnqueueClosed(s) \/ EnqueueRoute(s) \/ EnqueuePoll(s) \/ EnqueuePollSignal(s)
  \/ EnqueueSend(s) \/ EnqueueOverflow(s)

Next ==
  \/ \E s \in Sender : SendPayload(s) \/ Enqueue(s)
  \/ Write \/ WriteFail \/ PingFail \/ Close \/ CloseStop \/ CloseForget
  \/ \E t \in Getter : Get(t) \/ GetWakes(t) \/ GetTimeout(t) \/ GetReturns(t)
  \/ ClientVanishes \/ UpgradeProbe \/ UpgradeFail \/ Upgrade

Spec == Init /\ [][Next]_vars

\* Goroutines that can run do run, and the client keeps a GET open while it is
\* polling; the probe ends by its timeout of two seconds at the latest, and a
\* write to a client that is gone fails in the end. Poll timers, faults and the
\* upgrade need not happen.
FairSpec ==
  /\ Spec
  /\ \A s \in Sender : WF_vars(Enqueue(s))
  /\ WF_vars(Write) /\ WF_vars(CloseStop) /\ WF_vars(CloseForget)
  /\ WF_vars(UpgradeFail) /\ WF_vars(PingFail)
  /\ \A t \in Getter : WF_vars(Get(t)) /\ WF_vars(GetWakes(t)) /\ WF_vars(GetReturns(t))

-----------------------------------------------------------------------------
\* Type invariant of the connection.
TypeOK ==
  /\ Queue!TypeOK
  /\ ws \in BOOLEAN /\ closed \in BOOLEAN /\ gone \in BOOLEAN
  /\ upgrade \in {"no", "probing", "done", "failed"}
  /\ send \in Seq(Frame) /\ Len(send) <= SendCap
  /\ writer \in {"off", "running", "stopped"}
  /\ got \in Seq(Frame)
  /\ closing \in {"no", "stop", "forget", "done"}
  /\ sent \in [Sender -> 0 .. MaxPayloads]
  /\ rest \in [Sender -> Seq(Frame)]
  /\ route \in [Sender -> {"none", "poll", "send"}]

\* A goroutine sends frame f before frame g.
Sooner(f, g) == f[1] = g[1] /\ (f[2] < g[2] \/ (f[2] = g[2] /\ f[3] < g[3]))

\* The frames of each goroutine are in the order it sent them, and none is there
\* twice.
Ordered(q) ==
  \A k, l \in 1 .. Len(q) : l < k /\ q[l][1] = q[k][1] => Sooner(q[l], q[k])

\* Each frame comes after all that its goroutine sent before it.
Gapless(q) ==
  \A k \in 1 .. Len(q) : \A f \in Frame :
    Sooner(f, q[k]) => \E l \in 1 .. k - 1 : q[l] = f

\* What the client receives from a goroutine is a beginning of what it sent: no
\* frame is repeated or overtaken, whatever other goroutines send, and also when
\* the channel overflows, a write fails or the connection is closed in the
\* middle (enqueueFrame, writeLoop); none is skipped as long as the connection
\* is not upgraded.
ReceivedIsPrefix == Ordered(got) /\ (upgrade # "done" => Gapless(got))

NextFrame(f) == rest[f[1]] # <<>> /\ Head(rest[f[1]]) = f
Received(f) == \E k \in 1 .. Len(got) : got[k] = f

\* A frame that is given to enqueueFrame reaches the client, unless the
\* connection is closed or the client gone.
QueuedIsDelivered ==
  \A f \in Frame : NextFrame(f) ~> (Received(f) \/ closed \/ gone)

\* QueuedIsDelivered holds over the transport the connection was opened with if
\* there is no upgrade, and over the WebSocket if enqueueFrame has yet to choose
\* the transport when the upgrade is over.
SettledIsDelivered ==
  \A f \in Frame :
    /\ NextFrame(f) ~> (Received(f) \/ closed \/ gone \/ upgrade = "done")
    /\ (ws /\ NextFrame(f) /\ route[f[1]] = "none") ~> (Received(f) \/ closed \/ gone)

\* A connection whose client has vanished is closed and forgotten.
VanishedIsForgotten == gone ~> closing = "done"

\* VanishedIsForgotten holds for a connection with a WebSocket, where a ping is
\* written every PingInterval (writeLoop); nothing watches a polling client.
VanishedSocketIsForgotten == gone /\ ws ~> closing = "done"

\* The connection uses its poll queue as pollQueue.add and pollQueue.take do,
\* whatever senders, GET requests, the upgrade and close overlap: every step is
\* one of PollQueue or leaves the queue alone.
QueueSpec == Queue!Spec

\* So frames are handed to GET requests once each and in the order they were
\* queued, and no GET sleeps over a queued frame with nobody to wake it.
PollIntact == Queue!NothingLost /\ Queue!NoLostWakeup

\* The attachments of a binary event or acknowledgement directly follow their
\* packet, which is how the receiving side puts them together.
AttachmentsFollow ==
  \A k \in 1 .. Len(got) - 1 :
    got[k][3] < Attachments => got[k + 1] = [got[k] EXCEPT ![3] = @ + 1]
=============================================================================
