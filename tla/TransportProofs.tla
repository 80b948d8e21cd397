-------------------------- MODULE TransportProofs --------------------------
(***************************************************************************)
(* Machine-checked proofs about Transport, for every number of senders and  *)
(* GET requests, every payload size and every capacity of the channel. The  *)
(* first part is about the poll queue alone; the second shows that the      *)
(* connection uses it as PollQueue says, so that the first part holds for   *)
(* the queue of a connection; the third follows the frames of a goroutine    *)
(* to the client.                                                          *)
(***************************************************************************)
EXTENDS Transport, SequenceTheorems, TLAPS

-----------------------------------------------------------------------------
(* The poll queue                                                          *)

\* An empty queue is well typed.
LEMMA QueueInitType == Queue!Init => Queue!TypeOK
BY DEF Queue!Init, Queue!TypeOK

\* Every step of pollQueue.add and pollQueue.take keeps the types.
LEMMA QueueStepType == Queue!TypeOK /\ [Queue!Next]_(Queue!vars) => Queue!TypeOK'
<1> SUFFICES ASSUME Queue!TypeOK, [Queue!Next]_(Queue!vars)
             PROVE  Queue!TypeOK'
  OBVIOUS
<1> USE DEF Queue!TypeOK
<1>1. ASSUME NEW a \in Sender, Queue!AddSignal(a)
      PROVE  Queue!TypeOK'
  BY <1>1 DEF Queue!AddSignal
<1>2. ASSUME NEW a \in Sender, NEW f \in Frame, Queue!AddAppend(a, f)
      PROVE  Queue!TypeOK'
  <2>1. frames' \in Seq(Frame) /\ added' \in Seq(Frame)
    BY <1>2 DEF Queue!AddAppend
  <2> QED
    BY <1>2, <2>1 DEF Queue!AddAppend
<1>3. ASSUME Queue!Drain
      PROVE  out' \in Seq(Frame) /\ frames' \in Seq(Frame)
  BY <1>3 DEF Queue!Drain
<1>4. ASSUME NEW t \in Getter, Queue!Take(t)
      PROVE  Queue!TypeOK'
  <2>1. CASE Queue!TakeNow(t)
    BY <1>3, <2>1 DEF Queue!TakeNow
  <2>2. CASE Queue!TakeWait(t)
    BY <2>2 DEF Queue!TakeWait
  <2>3. CASE Queue!TakeReady(t)
    BY <2>3 DEF Queue!TakeReady
  <2>4. CASE Queue!TakeTimeout(t)
    BY <2>4 DEF Queue!TakeTimeout
  <2>5. CASE Queue!TakeRest(t)
    BY <1>3, <2>5 DEF Queue!TakeRest
  <2> QED
    BY <1>4, <2>1, <2>2, <2>3, <2>4, <2>5 DEF Queue!Take
<1>5. CASE UNCHANGED Queue!vars
  BY <1>5 DEF Queue!vars
<1> QED
  BY <1>1, <1>2, <1>4, <1>5 DEF Queue!Next, Queue!Add

\* The state of pollQueue and of the goroutines in it is well formed; in
\* particular the channel never holds more than its one token.
LEMMA QueueTypeCorrect == Queue!Spec => []Queue!TypeOK
BY QueueInitType, QueueStepType, PTL DEF Queue!Spec

-----------------------------------------------------------------------------
\* Adding to the queue and draining it keep the sequences in step.
LEMMA AppendMoves ==
  ASSUME NEW s \in Seq(Frame), NEW u \in Seq(Frame), NEW f \in Frame
  PROVE  Append(s \o u, f) = s \o Append(u, f)
<1>1. Append(s \o u, f) \in Seq(Frame) /\ s \o Append(u, f) \in Seq(Frame)
  OBVIOUS
<1>2. Len(Append(s \o u, f)) = Len(s \o Append(u, f))
  OBVIOUS
<1>3. ASSUME NEW i \in 1 .. Len(Append(s \o u, f))
      PROVE  Append(s \o u, f)[i] = (s \o Append(u, f))[i]
  OBVIOUS
<1> QED
  BY <1>1, <1>2, <1>3, SeqEqual, Zenon

\* take moves all frames of the queue to its caller, in their order.
LEMMA DrainMoves ==
  ASSUME NEW s \in Seq(Frame), NEW u \in Seq(Frame)
  PROVE  s \o u = (s \o u) \o <<>>
BY ConcatEmptySeq

\* The write loop takes frames from the channel in their order.
LEMMA ConcatMoves ==
  ASSUME NEW s \in Seq(Frame), NEW u \in Seq(Frame), NEW v \in Seq(Frame)
  PROVE  (s \o u) \o v = s \o (u \o v)
<1>1. (s \o u) \o v \in Seq(Frame) /\ s \o (u \o v) \in Seq(Frame)
  OBVIOUS
<1>2. Len((s \o u) \o v) = Len(s \o (u \o v))
  OBVIOUS
<1>3. ASSUME NEW i \in 1 .. Len((s \o u) \o v)
      PROVE  ((s \o u) \o v)[i] = (s \o (u \o v))[i]
  OBVIOUS
<1> QED
  BY <1>1, <1>2, <1>3, SeqEqual, Zenon

\* Every step of pollQueue.add and pollQueue.take keeps the frames and their order.
LEMMA QueueStepLost == Queue!TypeOK /\ Queue!NothingLost /\ [Queue!Next]_(Queue!vars) => Queue!NothingLost'
<1> SUFFICES ASSUME Queue!TypeOK, Queue!NothingLost, [Queue!Next]_(Queue!vars)
             PROVE  Queue!NothingLost'
  OBVIOUS
<1>0. frames \in Seq(Frame) /\ out \in Seq(Frame)
  BY DEF Queue!TypeOK
<1>1. ASSUME NEW a \in Sender, NEW f \in Frame, Queue!AddAppend(a, f)
      PROVE  Queue!NothingLost'
  BY <1>0, <1>1, AppendMoves, Zenon DEF Queue!AddAppend, Queue!NothingLost
<1>2. ASSUME Queue!Drain, UNCHANGED added
      PROVE  Queue!NothingLost'
  BY <1>0, <1>2, DrainMoves DEF Queue!Drain, Queue!NothingLost
<1>3. CASE UNCHANGED <<frames, added, out>>
  BY <1>3 DEF Queue!NothingLost
<1> QED
  BY <1>1, <1>2, <1>3
  DEF Queue!Next, Queue!Add, Queue!Take, Queue!AddSignal, Queue!TakeNow, Queue!TakeWait, Queue!TakeReady, Queue!TakeTimeout, Queue!TakeRest, Queue!vars

\* Frames are handed out once each and in the order they were queued, however
\* adds and takes overlap (NothingLost).
LEMMA Fifo == Queue!Spec => []Queue!NothingLost
<1>1. Queue!Init => Queue!NothingLost
  BY DEF Queue!Init, Queue!NothingLost
<1> QED
  BY <1>1, QueueStepLost, QueueTypeCorrect, PTL DEF Queue!Spec

-----------------------------------------------------------------------------
\* Every step of pollQueue.add and pollQueue.take keeps the wakeup.
LEMMA QueueStepWakeup == Queue!TypeOK /\ Queue!NoLostWakeup /\ [Queue!Next]_(Queue!vars) => Queue!NoLostWakeup'
<1> SUFFICES ASSUME Queue!TypeOK, Queue!NoLostWakeup, [Queue!Next]_(Queue!vars),
                    frames' # <<>>, NEW w \in Getter, taker'[w] = "wait"
             PROVE  \/ ready' = 1
                    \/ \E a \in Sender : adder'[a] = "signal"
                    \/ \E t \in Getter : taker'[t] = "woken"
  BY DEF Queue!NoLostWakeup
<1> USE DEF Queue!TypeOK
<1>1. ASSUME NEW a \in Sender, NEW f \in Frame, Queue!AddAppend(a, f)
      PROVE  adder'[a] = "signal"
  BY <1>1 DEF Queue!AddAppend
<1>2. ASSUME NEW a \in Sender, Queue!AddSignal(a)
      PROVE  ready' = 1
  BY <1>2 DEF Queue!AddSignal
<1>3. ASSUME Queue!Drain
      PROVE  FALSE
  BY <1>3 DEF Queue!Drain
<1>4. ASSUME NEW t \in Getter, Queue!TakeWait(t)
      PROVE  FALSE
  BY <1>4 DEF Queue!TakeWait
<1>5. ASSUME NEW t \in Getter, Queue!TakeReady(t) \/ Queue!TakeTimeout(t)
      PROVE  taker'[t] = "woken"
  BY <1>5 DEF Queue!TakeReady, Queue!TakeTimeout
<1>6. CASE UNCHANGED Queue!vars
  BY <1>6 DEF Queue!vars, Queue!NoLostWakeup
<1> QED
  BY <1>1, <1>2, <1>3, <1>4, <1>5, <1>6 DEF Queue!Next, Queue!Add, Queue!Take, Queue!TakeNow, Queue!TakeRest

\* No interleaving of add and take leaves a GET waiting for frames that are
\* already queued with nobody to wake it (NoLostWakeup).
LEMMA WakeupNotLost == Queue!Spec => []Queue!NoLostWakeup
<1>1. Queue!Init => Queue!NoLostWakeup
  BY DEF Queue!Init, Queue!NoLostWakeup
<1> QED
  BY <1>1, QueueStepWakeup, QueueTypeCorrect, PTL DEF Queue!Spec

-----------------------------------------------------------------------------
(* The connection                                                          *)

\* A goroutine that has chosen a transport, or is about to signal, has a frame
\* in hand.
SenderInv ==
  /\ sent \in [Sender -> 0 .. MaxPayloads]
  /\ rest \in [Sender -> Seq(Frame)]
  /\ route \in [Sender -> {"none", "poll", "send"}]
  /\ adder \in [Sender -> {"idle", "signal"}]
  /\ \A s \in Sender : route[s] # "none" => rest[s] # <<>>
  /\ \A s \in Sender : adder[s] = "signal" => route[s] = "poll"

\* A new connection has no goroutine in enqueueFrame.
LEMMA InitSender == Init => SenderInv
BY TransportAssumption DEF Init, Queue!Init, SenderInv

\* The frames of a payload are frames of its sender.
LEMMA PayloadFrames ==
  ASSUME NEW s \in Sender, NEW n \in 1 .. MaxPayloads
  PROVE  [k \in 1 .. Attachments + 1 |-> <<s, n, k - 1>>] \in Seq(Frame)
<1>1. \A k \in 1 .. Attachments + 1 : k - 1 \in 0 .. Attachments
  BY TransportAssumption
<1>2. \A k \in 1 .. Attachments + 1 : <<s, n, k - 1>> \in Frame
  BY <1>1 DEF Frame
<1>3. Attachments + 1 \in Nat
  BY TransportAssumption
<1> QED
  BY <1>2, <1>3

\* When the first frame of a payload is dealt with, the others remain.
LEMMA FrameDoneSender ==
  ASSUME SenderInv, NEW s \in Sender, rest[s] # <<>>, FrameDone(s),
         UNCHANGED sent, adder' = [adder EXCEPT ![s] = "idle"]
  PROVE  SenderInv'
<1>1. Tail(rest[s]) \in Seq(Frame)
  BY DEF SenderInv
<1>2. rest' \in [Sender -> Seq(Frame)]
  BY <1>1 DEF SenderInv, FrameDone
<1>3. /\ route' \in [Sender -> {"none", "poll", "send"}]
      /\ adder' \in [Sender -> {"idle", "signal"}]
      /\ route'[s] = "none" /\ adder'[s] = "idle"
      /\ \A u \in Sender \ {s} : route'[u] = route[u] /\ rest'[u] = rest[u] /\ adder'[u] = adder[u]
  BY DEF SenderInv, FrameDone
<1>4. \A u \in Sender : route'[u] # "none" => rest'[u] # <<>>
  BY <1>3 DEF SenderInv
<1>5. \A u \in Sender : adder'[u] = "signal" => route'[u] = "poll"
  BY <1>3 DEF SenderInv
<1> QED
  BY <1>2, <1>3, <1>4, <1>5 DEF SenderInv

\* The steps of a goroutine in sendSocketPayload and enqueueFrame keep this.
LEMMA EnqueueSender ==
  ASSUME SenderInv, NEW s \in Sender, SendPayload(s) \/ Enqueue(s)
  PROVE  SenderInv'
<1>1. CASE SendPayload(s)
  <2>1. sent[s] + 1 \in 1 .. MaxPayloads
    BY <1>1, TransportAssumption DEF SendPayload, SenderInv
  <2>2. [k \in 1 .. Attachments + 1 |-> <<s, sent[s] + 1, k - 1>>] \in Seq(Frame)
    BY <2>1, PayloadFrames
  <2>3. rest' \in [Sender -> Seq(Frame)] /\ sent' \in [Sender -> 0 .. MaxPayloads]
    BY <1>1, <2>1, <2>2 DEF SendPayload, SenderInv
  <2>4. UNCHANGED <<route, adder>> /\ \A u \in Sender \ {s} : rest'[u] = rest[u]
    BY <1>1 DEF SendPayload, SenderInv, queueVars
  <2>5. route[s] = "none"
    BY <1>1 DEF SendPayload, SenderInv
  <2> QED
    BY <2>3, <2>4, <2>5 DEF SenderInv
<1>2. ASSUME rest[s] # <<>>, FrameDone(s), UNCHANGED sent,
             adder' = [adder EXCEPT ![s] = "idle"]
      PROVE  SenderInv'
  BY <1>2, FrameDoneSender, Zenon
<1>3. CASE EnqueueClosed(s) \/ EnqueueSend(s) \/ EnqueueOverflow(s)
  <2>1. rest[s] # <<>> /\ FrameDone(s) /\ UNCHANGED <<sent, adder>>
    BY <1>3 DEF EnqueueClosed, EnqueueSend, EnqueueOverflow, SenderInv, queueVars
  <2>2. adder[s] = "idle"
    BY <1>3 DEF EnqueueClosed, EnqueueSend, EnqueueOverflow, SenderInv
  <2>3. adder' = [adder EXCEPT ![s] = "idle"]
    BY <2>1, <2>2 DEF SenderInv
  <2> QED
    BY <1>2, <2>1, <2>3, Zenon
<1>4. CASE EnqueuePollSignal(s)
  <2>1. rest[s] # <<>> /\ adder' = [adder EXCEPT ![s] = "idle"]
    BY <1>4 DEF EnqueuePollSignal, Queue!AddSignal, SenderInv
  <2> QED
    BY <1>2, <1>4, <2>1 DEF EnqueuePollSignal
<1>5. CASE EnqueueRoute(s)
  <2>1. UNCHANGED <<sent, rest, adder>> /\ rest[s] # <<>>
    BY <1>5 DEF EnqueueRoute, queueVars
  <2>2. /\ route' \in [Sender -> {"none", "poll", "send"}]
        /\ \A u \in Sender \ {s} : route'[u] = route[u]
    BY <1>5 DEF EnqueueRoute, SenderInv
  <2>3. adder[s] = "idle"
    BY <1>5 DEF EnqueueRoute, SenderInv
  <2> QED
    BY <2>1, <2>2, <2>3 DEF SenderInv
<1>6. CASE EnqueuePoll(s)
  <2>1. UNCHANGED <<sent, rest, route>> /\ route[s] = "poll"
    BY <1>6 DEF EnqueuePoll, senderVars
  <2>2. adder' = [adder EXCEPT ![s] = "signal"]
    BY <1>6 DEF EnqueuePoll, Queue!AddAppend
  <2> QED
    BY <2>1, <2>2 DEF SenderInv
<1> QED
  BY <1>1, <1>3, <1>4, <1>5, <1>6 DEF Enqueue

\* The steps of the other goroutines and of the client leave the senders alone.
LEMMA OthersSender ==
  ASSUME SenderInv, UNCHANGED <<adder, senderVars>>
  PROVE  SenderInv'
BY DEF SenderInv, senderVars

\* The steps that do not send.
Other ==
  \/ Write \/ WriteFail \/ PingFail \/ Close \/ CloseStop \/ CloseForget
  \/ ClientVanishes \/ UpgradeProbe \/ UpgradeFail \/ Upgrade

Getting == \E t \in Getter : Get(t) \/ GetWakes(t) \/ GetTimeout(t) \/ GetReturns(t)

\* What the two kinds of steps do to the poll queue.
LEMMA OtherQuiet == Other => UNCHANGED <<queueVars, senderVars>>
BY DEF Other, Write, WriteFail, PingFail, Close, CloseStop, CloseForget,
       ClientVanishes, UpgradeProbe, UpgradeFail, Upgrade

\* A GET takes from the queue, and nothing else of the senders changes.
LEMMA GettingTakes == Getting => UNCHANGED senderVars /\ \E t \in Getter : Queue!Take(t)
BY DEF Getting, Get, GetWakes, GetTimeout, GetReturns, Queue!Take

\* pollQueue.take leaves the goroutines in pollQueue.add alone.
LEMMA TakeAdder == ASSUME NEW t \in Getter, Queue!Take(t) PROVE UNCHANGED adder
BY DEF Queue!Take, Queue!TakeNow, Queue!TakeWait, Queue!TakeReady, Queue!TakeTimeout, Queue!TakeRest

\* Every step of the connection keeps the invariant of its senders.
LEMMA StepSender == SenderInv /\ [Next]_vars => SenderInv'
<1> SUFFICES ASSUME SenderInv, [Next]_vars
             PROVE  SenderInv'
  OBVIOUS
<1>1. CASE \E s \in Sender : SendPayload(s) \/ Enqueue(s)
  BY <1>1, EnqueueSender
<1>2. CASE Other
  BY <1>2, OtherQuiet, OthersSender DEF queueVars
<1>3. CASE Getting
  BY <1>3, GettingTakes, TakeAdder, OthersSender
<1>4. CASE UNCHANGED vars
  BY <1>4, OthersSender DEF vars, queueVars
<1> QED
  BY <1>1, <1>2, <1>3, <1>4 DEF Next, Other, Getting

\* Every step of the connection is a step of pollQueue.add or pollQueue.take, or
\* leaves the queue alone.
LEMMA StepQueue == SenderInv /\ [Next]_vars => [Queue!Next]_(Queue!vars)
<1> SUFFICES ASSUME SenderInv, [Next]_vars
             PROVE  Queue!Next \/ UNCHANGED queueVars
  BY DEF queueVars, Queue!vars
<1>1. ASSUME NEW s \in Sender, SendPayload(s) \/ Enqueue(s)
      PROVE  Queue!Next \/ UNCHANGED queueVars
  <2>1. CASE EnqueuePoll(s)
    <3>1. Head(rest[s]) \in Frame
      BY <2>1 DEF EnqueuePoll, SenderInv
    <3>2. Queue!AddAppend(s, Head(rest[s]))
      BY <2>1 DEF EnqueuePoll
    <3> QED
      BY <3>1, <3>2 DEF Queue!Next, Queue!Add
  <2>2. CASE EnqueuePollSignal(s)
    BY <2>2 DEF EnqueuePollSignal, Queue!Next, Queue!Add
  <2> QED
    BY <1>1, <2>1, <2>2
    DEF SendPayload, Enqueue, EnqueueClosed, EnqueueRoute, EnqueueSend, EnqueueOverflow
<1>2. CASE Other
  BY <1>2, OtherQuiet
<1>3. CASE Getting
  BY <1>3, GettingTakes DEF Queue!Next
<1>4. CASE UNCHANGED vars
  BY <1>4 DEF vars
<1> QED
  BY <1>1, <1>2, <1>3, <1>4 DEF Next, Other, Getting

\* The connection implements the poll queue (QueueSpec): enqueueFrame, GET
\* requests, the upgrade and close use pollQueue only through add and take.
THEOREM ImplementsQueue == Spec => QueueSpec
<1>1. Init => Queue!Init
  BY DEF Init
<1> QED
  BY <1>1, StepQueue, InitSender, StepSender, PTL DEF Spec, QueueSpec, Queue!Spec

\* In a connection, frames are handed to GET requests once each and in the order
\* they were queued, and no GET sleeps over a queued frame (PollIntact).
THEOREM PollCorrect == Spec => []PollIntact
<1>1. Queue!NothingLost /\ Queue!NoLostWakeup => PollIntact
  BY DEF PollIntact
<1> QED
  BY <1>1, Fifo, WakeupNotLost, ImplementsQueue, PTL DEF QueueSpec

-----------------------------------------------------------------------------
(* What the client receives. While the client can receive anything, what it  *)
(* has received and what is on its way form one line, to which senders add   *)
(* at the end; when it cannot, what it has received does not change.        *)

\* Polling or websocket: what goes with which.
TransportInv ==
  /\ send \in Seq(Frame) /\ got \in Seq(Frame) /\ frames \in Seq(Frame)
  /\ ws \in BOOLEAN /\ gone \in BOOLEAN
  /\ ws => \A t \in Getter : taker[t] = "idle"
  /\ ~ws => writer = "off" /\ send = <<>> /\ upgrade # "done"
  /\ ws => upgrade # "probing"
  /\ \A s \in Sender : route[s] = "send" => ws
  /\ \A s \in Sender : ws /\ route[s] = "poll" => upgrade = "done"

\* The frames in the hand of a goroutine are the last of its payload.
At(s) == Attachments + 1 - Len(rest[s])
RestInv ==
  \A s \in Sender :
    /\ Len(rest[s]) <= Attachments + 1
    /\ \A k \in 1 .. Len(rest[s]) : rest[s][k] = <<s, sent[s], At(s) + k - 1>>

\* The frame is enqueued or dropped.
Passed(f) ==
  LET s == f[1]
  IN \/ f[2] < sent[s]
     \/ f[2] = sent[s] /\ f[3] < At(s)
     \/ f[2] = sent[s] /\ f[3] = At(s) /\ adder[s] = "signal"

\* The client can receive frames.
Live == ~gone /\ (ws => writer = "running")

Line == got \o (IF ws THEN send ELSE frames)

\* Frames in the line are enqueued. Until an upgrade those of a goroutine that
\* goes on enqueueing are all there.
LineInv ==
  /\ Ordered(Line)
  /\ \A f \in Frame : (\E k \in 1 .. Len(Line) : Line[k] = f) => Passed(f)
  /\ upgrade # "done" =>
       /\ Gapless(Line)
       /\ \A f \in Frame :
            Passed(f) /\ (~closed \/ route[f[1]] # "none") => \E k \in 1 .. Len(Line) : Line[k] = f

ReceiveInv ==
  /\ TransportInv
  /\ RestInv
  /\ ReceivedIsPrefix
  /\ Live => LineInv

\* A frame at the end of a line, after all that are sooner.
LEMMA AppendLine ==
  ASSUME NEW q \in Seq(Frame), NEW h \in Frame
  PROVE  /\ Ordered(q) /\ (\A k \in 1 .. Len(q) : q[k][1] = h[1] => Sooner(q[k], h))
              => Ordered(Append(q, h))
         /\ Gapless(q) /\ (\A f \in Frame : Sooner(f, h) => \E l \in 1 .. Len(q) : q[l] = f)
              => Gapless(Append(q, h))
<1> DEFINE n == Len(q)
           r == Append(q, h)
<1>1. /\ n \in Nat /\ Len(r) = n + 1 /\ r[n + 1] = h
      /\ \A k \in 1 .. n : r[k] = q[k]
      /\ \A k \in 1 .. n + 1 : k \in 1 .. n \/ k = n + 1
      /\ \A k \in 1 .. n + 1 : \A l \in 1 .. n + 1 : l < k => l \in 1 .. n
  OBVIOUS
<1> HIDE DEF r, n
<1>2. ASSUME Ordered(q), \A k \in 1 .. n : q[k][1] = h[1] => Sooner(q[k], h)
      PROVE  Ordered(r)
  BY <1>1, <1>2 DEF Ordered, n
<1>3. ASSUME Gapless(q), \A f \in Frame : Sooner(f, h) => \E l \in 1 .. n : q[l] = f
      PROVE  Gapless(r)
  <2> SUFFICES ASSUME NEW k \in 1 .. n + 1, NEW f \in Frame, Sooner(f, r[k])
               PROVE  \E l \in 1 .. k - 1 : r[l] = f
    BY <1>1 DEF Gapless
  <2>1. CASE k \in 1 .. n
    <3>1. PICK l \in 1 .. k - 1 : q[l] = f
      BY <1>1, <1>3, <2>1 DEF Gapless, n
    <3> QED
      BY <1>1, <2>1, <3>1
  <2>2. CASE k = n + 1
    BY <1>1, <1>3, <2>2
  <2> QED
    BY <1>1, <2>1, <2>2
<1> QED
  BY <1>2, <1>3 DEF r, n

\* What has come of a line is in order when the line is.
LEMMA PrefixLine ==
  ASSUME NEW p \in Seq(Frame), NEW q \in Seq(Frame)
  PROVE  (Ordered(p \o q) => Ordered(p)) /\ (Gapless(p \o q) => Gapless(p))
<1> DEFINE r == p \o q
<1>1. /\ Len(p) \in Nat /\ Len(r) \in Nat /\ Len(p) <= Len(r)
      /\ \A k \in 1 .. Len(p) : r[k] = p[k] /\ k \in 1 .. Len(r)
      /\ \A k \in 1 .. Len(p) : \A l \in 1 .. k - 1 : l \in 1 .. Len(p)
  BY ConcatProperties
<1> HIDE DEF r
<1>2. Ordered(r) => Ordered(p)
  BY <1>1 DEF Ordered
<1>3. ASSUME Gapless(r)
      PROVE  Gapless(p)
  <2> SUFFICES ASSUME NEW k \in 1 .. Len(p), NEW f \in Frame, Sooner(f, p[k])
               PROVE  \E l \in 1 .. k - 1 : p[l] = f
    BY DEF Gapless
  <2>1. PICK l \in 1 .. k - 1 : r[l] = f
    BY <1>1, <1>3 DEF Gapless
  <2> QED
    BY <1>1, <2>1
<1> QED
  BY <1>2, <1>3 DEF r

\* The frame a goroutine has in hand; what it has passed are the frames before.
LEMMA HeadFrame ==
  ASSUME SenderInv, RestInv, NEW s \in Sender, rest[s] # <<>>
  PROVE  /\ At(s) \in 0 .. Attachments
         /\ Head(rest[s]) = <<s, sent[s], At(s)>> /\ Head(rest[s]) \in Frame
         /\ adder[s] = "idle" =>
              \A f \in Frame : f[1] = s => (Passed(f) <=> Sooner(f, Head(rest[s])))
<1>1. /\ rest[s] \in Seq(Frame) /\ Len(rest[s]) \in Nat /\ Len(rest[s]) >= 1
      /\ sent[s] \in Nat /\ Attachments \in Nat
  BY TransportAssumption DEF SenderInv
<1>2. At(s) \in 0 .. Attachments
  <2>1. Len(rest[s]) <= Attachments + 1
    BY DEF RestInv
  <2> QED
    BY <1>1, <2>1 DEF At
<1>3. Head(rest[s]) = rest[s][1] /\ Head(rest[s]) \in Frame
  BY <1>1
<1>4. rest[s][1] = <<s, sent[s], At(s) + 1 - 1>>
  BY <1>1 DEF RestInv
<1>5. Head(rest[s]) = <<s, sent[s], At(s)>>
  BY <1>2, <1>3, <1>4
<1>6. ASSUME adder[s] = "idle", NEW f \in Frame, f[1] = s
      PROVE  Passed(f) <=> Sooner(f, Head(rest[s]))
  <2>1. Sooner(f, Head(rest[s])) <=> (f[2] < sent[s] \/ (f[2] = sent[s] /\ f[3] < At(s)))
    BY <1>5, <1>6 DEF Sooner
  <2> QED
    BY <1>6, <2>1 DEF Passed
<1> QED
  BY <1>2, <1>3, <1>5, <1>6

\* When the frame in hand is dealt with, the next one is in hand.
LEMMA RestTail ==
  ASSUME SenderInv, RestInv, NEW s \in Sender, rest[s] # <<>>, FrameDone(s), UNCHANGED sent
  PROVE  /\ RestInv' /\ At(s) \in Int
         /\ At(s)' = At(s) + 1 /\ \A u \in Sender \ {s} : At(u)' = At(u)
<1>1. /\ rest[s] \in Seq(Frame) /\ Len(rest[s]) \in Nat /\ Len(rest[s]) >= 1
      /\ sent[s] \in Nat /\ Attachments \in Nat /\ rest \in [Sender -> Seq(Frame)]
  BY TransportAssumption DEF SenderInv
<1>2. /\ rest'[s] = Tail(rest[s]) /\ Len(rest'[s]) = Len(rest[s]) - 1
      /\ \A k \in 1 .. Len(rest'[s]) : rest'[s][k] = rest[s][k + 1]
      /\ \A u \in Sender \ {s} : rest'[u] = rest[u]
  <2>1. /\ Tail(rest[s]) \in Seq(Frame) /\ Len(Tail(rest[s])) = Len(rest[s]) - 1
        /\ \A k \in 1 .. Len(Tail(rest[s])) : Tail(rest[s])[k] = rest[s][k + 1]
    BY <1>1, HeadTailProperties
  <2>2. rest'[s] = Tail(rest[s]) /\ \A u \in Sender \ {s} : rest'[u] = rest[u]
    BY <1>1 DEF FrameDone
  <2> QED
    BY <2>1, <2>2
<1>3. At(s)' = At(s) + 1 /\ At(s) \in Int /\ \A u \in Sender \ {s} : At(u)' = At(u)
  <2>1. At(s) = Attachments + 1 - Len(rest[s]) /\ At(s)' = Attachments + 1 - Len(rest'[s])
    BY DEF At
  <2>2. \A u \in Sender \ {s} : At(u)' = At(u)
    BY <1>2 DEF At
  <2> QED
    BY <1>1, <1>2, <2>1, <2>2
<1>4. RestInv'
  <2> SUFFICES ASSUME NEW u \in Sender
               PROVE  /\ Len(rest'[u]) <= Attachments + 1
                      /\ \A k \in 1 .. Len(rest'[u]) : rest'[u][k] = <<u, sent[u], At(u)' + k - 1>>
    BY DEF RestInv
  <2>1. CASE u # s
    BY <1>2, <1>3, <2>1 DEF RestInv
  <2>2. CASE u = s
    <3>1. Len(rest'[s]) <= Attachments + 1
      BY <1>1, <1>2 DEF RestInv
    <3>2. ASSUME NEW k \in 1 .. Len(rest'[s])
          PROVE  rest'[s][k] = <<s, sent[s], At(s)' + k - 1>>
      <4>1. k + 1 \in 1 .. Len(rest[s])
        BY <1>1, <1>2
      <4>2. rest[s][k + 1] = <<s, sent[s], At(s) + (k + 1) - 1>>
        BY <4>1 DEF RestInv
      <4>3. At(s) + (k + 1) - 1 = At(s)' + k - 1
        BY <1>3
      <4> QED
        BY <1>2, <4>2, <4>3
    <3> QED
      BY <2>2, <3>1, <3>2
  <2> QED
    BY <2>1, <2>2
<1> QED
  BY <1>3, <1>4

\* Enqueued or dropped, the frame in hand is passed, and no other.
LEMMA PassHead ==
  ASSUME SenderInv, RestInv, NEW s \in Sender, rest[s] # <<>>, FrameDone(s), UNCHANGED <<sent, adder>>,
         adder[s] = "idle"
  PROVE  /\ RestInv'
         /\ \A f \in Frame : Passed(f)' <=> Passed(f) \/ f = Head(rest[s])
<1>1. At(s)' = At(s) + 1 /\ At(s) \in Int /\ \A u \in Sender \ {s} : At(u)' = At(u)
  BY RestTail
<1>2. RestInv' /\ sent[s] \in Nat
  BY RestTail DEF SenderInv
<1>3. ASSUME NEW f \in Frame
      PROVE  Passed(f)' <=> Passed(f) \/ f = Head(rest[s])
  <2>1. Head(rest[s]) = <<s, sent[s], At(s)>>
    BY HeadFrame
  <2>2. f = <<f[1], f[2], f[3]>> /\ f[1] \in Sender /\ f[2] \in Nat /\ f[3] \in Nat
    BY DEF Frame
  <2>3. CASE f[1] # s
    <3>1. f # Head(rest[s])
      BY <2>1, <2>3
    <3>2. Passed(f)' <=> Passed(f)
      BY <1>1, <2>2, <2>3 DEF Passed
    <3> QED
      BY <3>1, <3>2
  <2>4. CASE f[1] = s
    <3>1. f = Head(rest[s]) <=> (f[2] = sent[s] /\ f[3] = At(s))
      BY <2>1, <2>2, <2>4
    <3>2. Passed(f) <=> (f[2] < sent[s] \/ (f[2] = sent[s] /\ f[3] < At(s)))
      BY <2>4 DEF Passed
    <3>3. Passed(f)' <=> (f[2] < sent[s] \/ (f[2] = sent[s] /\ f[3] < At(s) + 1))
      BY <1>1, <2>4 DEF Passed
    <3> QED
      BY <1>1, <2>2, <3>1, <3>2, <3>3
  <2> QED
    BY <2>3, <2>4, Zenon
<1> QED
  BY <1>2, <1>3

\* A new payload passes no frame.
LEMMA PassPayload ==
  ASSUME SenderInv, RestInv, NEW s \in Sender, SendPayload(s)
  PROVE  RestInv' /\ \A f \in Frame : Passed(f)' <=> Passed(f)
<1>1. /\ Attachments \in Nat /\ rest[s] = <<>> /\ route[s] = "none" /\ adder[s] = "idle"
      /\ sent[s] \in Nat
  BY TransportAssumption DEF SendPayload, SenderInv
<1>2. /\ UNCHANGED adder
      /\ sent'[s] = sent[s] + 1
      /\ rest'[s] = [k \in 1 .. Attachments + 1 |-> <<s, sent[s] + 1, k - 1>>]
      /\ \A u \in Sender \ {s} : rest'[u] = rest[u] /\ sent'[u] = sent[u]
  BY DEF SendPayload, SenderInv, queueVars
<1>3. Len(rest'[s]) = Attachments + 1 /\ Len(rest[s]) = 0
  BY <1>1, <1>2
<1>4. At(s)' = 0 /\ At(s) = Attachments + 1 /\ \A u \in Sender \ {s} : At(u)' = At(u)
  <2>1. At(s) = Attachments + 1 - Len(rest[s]) /\ At(s)' = Attachments + 1 - Len(rest'[s])
    BY DEF At
  <2>2. \A u \in Sender \ {s} : At(u)' = At(u)
    BY <1>2 DEF At
  <2> QED
    BY <1>1, <1>3, <2>1, <2>2
<1>5. RestInv'
  <2> SUFFICES ASSUME NEW u \in Sender
               PROVE  /\ Len(rest'[u]) <= Attachments + 1
                      /\ \A k \in 1 .. Len(rest'[u]) : rest'[u][k] = <<u, sent'[u], At(u)' + k - 1>>
    BY DEF RestInv
  <2>1. CASE u # s
    BY <1>2, <1>4, <2>1 DEF RestInv
  <2>2. CASE u = s
    <3>1. ASSUME NEW k \in 1 .. Attachments + 1
          PROVE  rest'[s][k] = <<s, sent'[s], At(s)' + k - 1>>
      <4>1. At(s)' + k - 1 = k - 1
        BY <1>4
      <4> QED
        BY <1>2, <4>1
    <3> QED
      BY <1>1, <1>3, <2>2, <3>1
  <2> QED
    BY <2>1, <2>2
<1>6. ASSUME NEW f \in Frame
      PROVE  Passed(f)' <=> Passed(f)
  <2>1. f[1] \in Sender /\ f[2] \in Nat /\ f[3] \in 0 .. Attachments
    BY DEF Frame
  <2>2. CASE f[1] # s
    BY <1>2, <1>4, <2>1, <2>2 DEF Passed
  <2>3. CASE f[1] = s
    BY <1>1, <1>2, <1>4, <2>1, <2>3 DEF Passed
  <2> QED
    BY <2>2, <2>3
<1> QED
  BY <1>5, <1>6

\* pollQueue.add passes the frame in hand when it appends it.
LEMMA PassPoll ==
  ASSUME SenderInv, RestInv, NEW s \in Sender, EnqueuePoll(s)
  PROVE  RestInv' /\ \A f \in Frame : Passed(f)' <=> Passed(f) \/ f = Head(rest[s])
<1>1. UNCHANGED <<sent, rest>> /\ rest[s] # <<>> /\ adder[s] = "idle"
  BY DEF EnqueuePoll, senderVars, Queue!AddAppend, SenderInv
<1>2. adder'[s] = "signal" /\ \A u \in Sender \ {s} : adder'[u] = adder[u]
  BY DEF EnqueuePoll, Queue!AddAppend, SenderInv
<1>3. \A u \in Sender : At(u)' = At(u)
  BY <1>1 DEF At
<1>4. RestInv'
  BY <1>1, <1>3 DEF RestInv
<1>5. ASSUME NEW f \in Frame
      PROVE  Passed(f)' <=> Passed(f) \/ f = Head(rest[s])
  <2>1. Head(rest[s]) = <<s, sent[s], At(s)>>
    BY <1>1, HeadFrame
  <2>2. f = <<f[1], f[2], f[3]>> /\ f[1] \in Sender
    BY DEF Frame
  <2>3. CASE f[1] # s
    <3>1. f # Head(rest[s])
      BY <2>1, <2>3
    <3>2. Passed(f)' <=> Passed(f)
      BY <1>1, <1>2, <1>3, <2>2, <2>3 DEF Passed
    <3> QED
      BY <3>1, <3>2
  <2>4. CASE f[1] = s
    <3>1. f = Head(rest[s]) <=> (f[2] = sent[s] /\ f[3] = At(s))
      BY <2>1, <2>2, <2>4
    <3> QED
      BY <1>1, <1>2, <1>3, <2>4, <3>1 DEF Passed
  <2> QED
    BY <2>3, <2>4
<1> QED
  BY <1>4, <1>5

\* The end of pollQueue.add passes no frame.
LEMMA PassSignal ==
  ASSUME SenderInv, RestInv, NEW s \in Sender, EnqueuePollSignal(s)
  PROVE  RestInv' /\ \A f \in Frame : Passed(f)' <=> Passed(f)
<1>1. rest[s] # <<>> /\ adder[s] = "signal" /\ UNCHANGED sent
  BY DEF EnqueuePollSignal, Queue!AddSignal, SenderInv
<1>2. adder'[s] = "idle" /\ \A u \in Sender \ {s} : adder'[u] = adder[u]
  BY DEF EnqueuePollSignal, Queue!AddSignal, SenderInv
<1>3. At(s)' = At(s) + 1 /\ At(s) \in Int /\ \A u \in Sender \ {s} : At(u)' = At(u)
  BY <1>1, RestTail DEF EnqueuePollSignal
<1>4. RestInv'
  BY <1>1, RestTail DEF EnqueuePollSignal
<1>5. ASSUME NEW f \in Frame
      PROVE  Passed(f)' <=> Passed(f)
  <2>1. f[1] \in Sender /\ f[2] \in Nat /\ f[3] \in Nat
    BY DEF Frame
  <2>2. CASE f[1] # s
    BY <1>1, <1>2, <1>3, <2>1, <2>2 DEF Passed
  <2>3. CASE f[1] = s
    <3>1. Passed(f) <=> (f[2] < sent[s] \/ (f[2] = sent[s] /\ (f[3] < At(s) \/ f[3] = At(s))))
      BY <1>1, <2>3 DEF Passed
    <3>2. Passed(f)' <=> (f[2] < sent[s] \/ (f[2] = sent[s] /\ f[3] < At(s) + 1))
      BY <1>1, <1>2, <1>3, <2>3 DEF Passed
    <3> QED
      BY <1>3, <2>1, <3>1, <3>2
  <2> QED
    BY <2>2, <2>3
<1> QED
  BY <1>4, <1>5

\* Polling or websocket, from the start.
LEMMA InitTransport == Init => TransportInv
<1> SUFFICES ASSUME Init PROVE TransportInv
  OBVIOUS
<1>1. ws \in BOOLEAN
  BY DEF Init
<1>2. send \in Seq(Frame) /\ got \in Seq(Frame) /\ frames \in Seq(Frame)
  BY DEF Init, Queue!Init
<1>3. /\ send = <<>> /\ gone = FALSE /\ upgrade = "no" /\ (~ws => writer = "off")
      /\ \A t \in Getter : taker[t] = "idle"
      /\ \A s \in Sender : route[s] = "none"
  BY DEF Init, Queue!Init
<1> QED
  BY <1>1, <1>2, <1>3, Zenon DEF TransportInv

\* Frames written and taken are typed, and websocket and polling are kept apart.
LEMMA StepTransport == SenderInv /\ Queue!TypeOK' /\ TransportInv /\ [Next]_vars => TransportInv'
<1> SUFFICES ASSUME SenderInv, Queue!TypeOK', TransportInv, [Next]_vars
             PROVE  TransportInv'
  OBVIOUS
<1>0. frames' \in Seq(Frame)
  BY DEF Queue!TypeOK
<1>1. ASSUME NEW s \in Sender, SendPayload(s) \/ EnqueueClosed(s) \/ EnqueuePoll(s) \/ EnqueuePollSignal(s)
                                \/ EnqueueOverflow(s)
      PROVE  TransportInv'
  <2>1. /\ UNCHANGED <<ws, upgrade, send, writer, got, gone, taker>>
        /\ \A u \in Sender : route'[u] \in {route[u], "none"}
    BY <1>1, Zenon DEF SendPayload, EnqueueClosed, EnqueuePoll, EnqueuePollSignal, EnqueueOverflow, FrameDone,
                queueVars, connVars, clientVars, senderVars, Queue!AddAppend, Queue!AddSignal, SenderInv
  <2> QED
    BY <1>0, <2>1, Zenon DEF TransportInv
<1>2. ASSUME NEW s \in Sender, EnqueueSend(s)
      PROVE  TransportInv'
  <2>1. Head(rest[s]) \in Frame /\ route[s] = "send"
    BY <1>2 DEF EnqueueSend, SenderInv
  <2>2. send' \in Seq(Frame) /\ ws
    BY <1>2, <2>1 DEF EnqueueSend, TransportInv
  <2>3. /\ UNCHANGED <<ws, upgrade, writer, got, gone, taker>>
        /\ \A u \in Sender : route'[u] \in {route[u], "none"}
    BY <1>2 DEF EnqueueSend, FrameDone, queueVars, clientVars, SenderInv
  <2> QED
    BY <1>0, <2>2, <2>3 DEF TransportInv
<1>3. ASSUME NEW s \in Sender, EnqueueRoute(s)
      PROVE  TransportInv'
  <2>1. /\ UNCHANGED <<ws, upgrade, send, writer, got, gone, taker>>
        /\ route'[s] = (IF ws THEN "send" ELSE "poll")
        /\ \A u \in Sender \ {s} : route'[u] = route[u]
    BY <1>3 DEF EnqueueRoute, queueVars, connVars, clientVars, SenderInv
  <2> QED
    BY <1>0, <2>1, Zenon DEF TransportInv
<1>4. CASE Write
  <2>1. send' \in Seq(Frame) /\ got' \in Seq(Frame) /\ ws
    BY <1>4 DEF Write, Deliver, TransportInv
  <2>2. UNCHANGED <<ws, upgrade, writer, gone, taker, route>>
    BY <1>4 DEF Write, Deliver, queueVars, senderVars
  <2> QED
    BY <1>0, <2>1, <2>2 DEF TransportInv
<1>5. CASE WriteFail \/ PingFail
  <2>1. ws
    BY <1>5 DEF WriteFail, PingFail, TransportInv
  <2>2. send' \in Seq(Frame)
    <3>1. CASE WriteFail
      BY <3>1 DEF WriteFail, TransportInv
    <3>2. CASE PingFail
      BY <3>2 DEF PingFail, TransportInv
    <3> QED
      BY <1>5, <3>1, <3>2
  <2>3. UNCHANGED <<ws, upgrade, got, gone, taker, route>>
    BY <1>5 DEF WriteFail, PingFail, queueVars, senderVars, clientVars
  <2> QED
    BY <1>0, <2>1, <2>2, <2>3 DEF TransportInv
<1>6. CASE Close \/ CloseStop \/ CloseForget
  <2>1. UNCHANGED <<ws, upgrade, send, got, gone, taker, route>> /\ (writer = "off" => writer' = "off")
    BY <1>6 DEF Close, CloseStop, CloseForget, queueVars, senderVars, clientVars
  <2> QED
    BY <1>0, <2>1 DEF TransportInv
<1>7. CASE ClientVanishes \/ UNCHANGED vars
  <2>1. UNCHANGED <<ws, upgrade, send, got, taker, route, writer>> /\ gone' \in BOOLEAN
    BY <1>7, Zenon DEF ClientVanishes, vars, queueVars, senderVars, clientVars, connVars, TransportInv
  <2> QED
    BY <1>0, <2>1 DEF TransportInv
<1>8. CASE UpgradeProbe \/ UpgradeFail \/ Upgrade
  <2>1. UNCHANGED <<send, got, gone, taker, route>> /\ ~ws
    BY <1>8 DEF UpgradeProbe, UpgradeFail, Upgrade, queueVars, senderVars, clientVars, TransportInv
  <2>2. CASE UpgradeProbe \/ UpgradeFail
    <3>1. UNCHANGED <<ws, writer>> /\ upgrade' # "done"
      BY <2>2 DEF UpgradeProbe, UpgradeFail
    <3> QED
      BY <1>0, <2>1, <3>1 DEF TransportInv
  <2>3. CASE Upgrade
    <3>1. ws' = TRUE /\ upgrade' = "done" /\ \A t \in Getter : taker[t] = "idle"
      BY <2>3 DEF Upgrade
    <3> QED
      BY <1>0, <2>1, <3>1 DEF TransportInv
  <2> QED
    BY <1>8, <2>2, <2>3
<1>9. ASSUME NEW t \in Getter, Get(t) \/ GetWakes(t) \/ GetTimeout(t) \/ GetReturns(t)
      PROVE  TransportInv'
  <2>1. ~ws
    BY <1>9 DEF Get, ClientPolls, GetWakes, GetTimeout, GetReturns, Queue!TakeReady, Queue!TakeTimeout,
                Queue!TakeRest, TransportInv
  <2>2. UNCHANGED <<ws, upgrade, send, writer, gone, route>> /\ got' \in {got, got \o frames}
    BY <1>9 DEF Get, GetWakes, GetTimeout, GetReturns, Deliver, connVars, clientVars, senderVars
  <2>3. got' \in Seq(Frame)
    <3>1. got \in Seq(Frame) /\ got \o frames \in Seq(Frame)
      BY DEF TransportInv
    <3> QED
      BY <2>2, <3>1, Zenon
  <2> QED
    BY <1>0, <2>1, <2>2, <2>3 DEF TransportInv
<1> QED
  BY <1>1, <1>2, <1>3, <1>4, <1>5, <1>6, <1>7, <1>8, <1>9 DEF Next, Enqueue

\* A frame that is added to the line comes after those of its goroutine, which
\* are all there.
LEMMA LineGrows ==
  ASSUME LineInv, Line \in Seq(Frame), NEW h \in Frame, Line' = Append(Line, h), UNCHANGED <<upgrade, closed>>,
         route[h[1]] # "none", \A s \in Sender : s # h[1] => route'[s] = route[s],
         \A f \in Frame : f[1] = h[1] => (Passed(f) <=> Sooner(f, h)),
         \A f \in Frame : Passed(f)' <=> Passed(f) \/ f = h
  PROVE  LineInv'
<1>1. /\ Len(Line) \in Nat /\ Len(Line') = Len(Line) + 1 /\ Line'[Len(Line) + 1] = h
      /\ \A k \in 1 .. Len(Line) : Line'[k] = Line[k] /\ Line[k] \in Frame
      /\ \A k \in 1 .. Len(Line') : k \in 1 .. Len(Line) \/ k = Len(Line) + 1
  OBVIOUS
<1>2. \A k \in 1 .. Len(Line) : Line[k][1] = h[1] => Sooner(Line[k], h)
  <2> SUFFICES ASSUME NEW k \in 1 .. Len(Line), NEW f \in Frame, f = Line[k], f[1] = h[1]
               PROVE  Sooner(f, h)
    BY <1>1
  <2> QED
    BY Zenon DEF LineInv
<1>3. Ordered(Line)'
  <2>1. Ordered(Append(Line, h))
    BY <1>2, AppendLine, Zenon DEF LineInv
  <2> QED
    BY <2>1 DEF Ordered
<1>4. ASSUME NEW f \in Frame, NEW k \in 1 .. Len(Line'), Line'[k] = f
      PROVE  Passed(f)'
  BY <1>1, <1>4, Zenon DEF LineInv
<1>5. ASSUME upgrade' # "done"
      PROVE  /\ Gapless(Line)'
             /\ \A f \in Frame :
                  Passed(f)' /\ (~closed' \/ route'[f[1]] # "none") => \E k \in 1 .. Len(Line') : Line'[k] = f
  <2>1. /\ Gapless(Line)
        /\ \A f \in Frame :
             Passed(f) /\ (~closed \/ route[f[1]] # "none") => \E k \in 1 .. Len(Line) : Line[k] = f
    BY <1>5, Zenon DEF LineInv
  <2>2. ASSUME NEW f \in Frame, Sooner(f, h)
        PROVE  \E l \in 1 .. Len(Line) : Line[l] = f
    <3>1. f[1] = h[1]
      BY <2>2 DEF Sooner
    <3> QED
      BY <2>1, <2>2, <3>1
  <2>3. Gapless(Line)'
    <3>1. Gapless(Append(Line, h))
      BY <2>1, <2>2, AppendLine, Zenon
    <3> QED
      BY <3>1, Zenon DEF Gapless
  <2>4. ASSUME NEW f \in Frame, Passed(f)', ~closed' \/ route'[f[1]] # "none"
        PROVE  \E k \in 1 .. Len(Line') : Line'[k] = f
    <3>1. CASE f = h
      BY <1>1, <3>1
    <3>2. CASE f # h
      <4>1. Passed(f) /\ (~closed \/ route[f[1]] # "none")
        BY <2>4, <3>2, Zenon DEF Frame
      <4> QED
        BY <1>1, <2>1, <4>1
    <3> QED
      BY <3>1, <3>2, Zenon
  <2> QED
    BY <2>3, <2>4, Zenon
<1> QED
  BY <1>3, <1>4, <1>5, Zenon DEF LineInv

\* A step that leaves the line as it is.
LEMMA LineStays ==
  ASSUME LineInv, Line \in Seq(Frame), Line' = Line,
         \A f \in Frame : Passed(f) => Passed(f)',
         upgrade' # "done" =>
           /\ upgrade # "done"
           /\ \A f \in Frame : Passed(f)' /\ (~closed' \/ route'[f[1]] # "none")
                                 => Passed(f) /\ (~closed \/ route[f[1]] # "none")
  PROVE  LineInv'
<1>1. Ordered(Line)'
  BY DEF LineInv, Ordered
<1>2. ASSUME NEW f \in Frame, NEW k \in 1 .. Len(Line'), Line'[k] = f
      PROVE  Passed(f)'
  BY <1>2, Zenon DEF LineInv
<1>3. upgrade' # "done" => Gapless(Line)'
  BY DEF LineInv, Gapless
<1> QED
  BY <1>1, <1>2, <1>3, Zenon DEF LineInv

\* The steps of the goroutines that send keep the line, or add to it.
LEMMA SendLine ==
  ASSUME SenderInv, TransportInv, RestInv, Live => LineInv, Live', NEW s \in Sender, SendPayload(s) \/ Enqueue(s)
  PROVE  LineInv' /\ UNCHANGED got
<1>0. /\ Live /\ UNCHANGED <<got, gone, ws, writer, upgrade>>
      /\ Line \in Seq(Frame) /\ route \in [Sender -> {"none", "poll", "send"}]
  <2>1. UNCHANGED <<got, gone, ws, writer, upgrade>>
    BY DEF SendPayload, Enqueue, EnqueueClosed, EnqueueRoute, EnqueuePoll, EnqueuePollSignal, EnqueueSend,
           EnqueueOverflow, connVars, clientVars
  <2> QED
    BY <2>1 DEF Live, Line, TransportInv, SenderInv
<1>1. CASE SendPayload(s)
  <2>1. Line' = Line /\ UNCHANGED <<closed, upgrade, route>>
    BY <1>1 DEF SendPayload, Line, queueVars, connVars, clientVars
  <2>2. \A f \in Frame : Passed(f)' <=> Passed(f)
    BY <1>1, PassPayload, Zenon
  <2> QED
    BY <1>0, <2>1, <2>2, LineStays
<1>2. CASE EnqueueRoute(s)
  <2>1. Line' = Line /\ UNCHANGED <<closed, upgrade>> /\ ~closed
    BY <1>2 DEF EnqueueRoute, Line, queueVars, connVars, clientVars
  <2>2. \A f \in Frame : Passed(f)' <=> Passed(f)
    BY <1>2, Zenon DEF EnqueueRoute, queueVars, Passed, At
  <2> QED
    BY <1>0, <2>1, <2>2, LineStays
<1>3. CASE EnqueuePollSignal(s)
  <2>1. Line' = Line /\ UNCHANGED <<closed, upgrade>>
    BY <1>3 DEF EnqueuePollSignal, Queue!AddSignal, Line, connVars, clientVars
  <2>2. \A f \in Frame : Passed(f)' <=> Passed(f)
    BY <1>3, PassSignal
  <2>3. \A u \in Sender : route'[u] # "none" => route[u] # "none"
    BY <1>0, <1>3 DEF EnqueuePollSignal, FrameDone
  <2>4. \A f \in Frame : f[1] \in Sender
    BY Zenon DEF Frame
  <2> QED
    BY <1>0, <2>1, <2>2, <2>3, <2>4, LineStays
<1>4. CASE EnqueueClosed(s) \/ EnqueueOverflow(s)
  <2>1. Line' = Line /\ UNCHANGED upgrade /\ closed'
    BY <1>4 DEF EnqueueClosed, EnqueueOverflow, BeginClose, Line, queueVars, connVars, clientVars
  <2>2. rest[s] # <<>> /\ FrameDone(s) /\ UNCHANGED <<sent, adder>> /\ adder[s] = "idle"
    BY <1>4 DEF EnqueueClosed, EnqueueOverflow, queueVars, SenderInv
  <2>3. \A f \in Frame : Passed(f)' <=> Passed(f) \/ f = Head(rest[s])
    BY <2>2, PassHead, Zenon
  <2>4. Head(rest[s])[1] = s
    BY <2>2, HeadFrame
  <2>5. route'[s] = "none" /\ \A u \in Sender \ {s} : route'[u] = route[u]
    BY <1>0, <2>2, Zenon DEF FrameDone
  <2>6. ASSUME NEW f \in Frame, Passed(f)', route'[f[1]] # "none"
        PROVE  Passed(f) /\ route[f[1]] # "none"
    <3>1. f[1] \in Sender /\ f[1] # s
      BY <2>5, <2>6 DEF Frame
    <3> QED
      BY <2>3, <2>4, <2>5, <2>6, <3>1
  <2> QED
    BY <1>0, <2>1, <2>3, <2>6, LineStays, Zenon
<1>5. CASE EnqueuePoll(s)
  <2>1. /\ UNCHANGED <<closed, send, route>> /\ route[s] = "poll" /\ rest[s] # <<>>
        /\ frames' = Append(frames, Head(rest[s])) /\ adder[s] = "idle"
    BY <1>5 DEF EnqueuePoll, Queue!AddAppend, connVars, senderVars, SenderInv
  <2>2. \A f \in Frame : Passed(f)' <=> Passed(f) \/ f = Head(rest[s])
    BY <1>5, PassPoll, Zenon
  <2>3. CASE ws
    <3>1. Line' = Line /\ upgrade = "done"
      BY <1>0, <2>1, <2>3, Zenon DEF Line, TransportInv
    <3> QED
      BY <1>0, <2>2, <3>1, LineStays
  <2>4. CASE ~ws
    <3> DEFINE h == Head(rest[s])
    <3>1. h \in Frame /\ h[1] = s /\ \A f \in Frame : f[1] = s => (Passed(f) <=> Sooner(f, h))
      BY <2>1, HeadFrame
    <3>2. Line = got \o frames /\ Line' = got \o Append(frames, h)
      BY <1>0, <2>1, <2>4, Zenon DEF Line
    <3> HIDE DEF h
    <3>3. Line' = Append(Line, h)
      BY <3>1, <3>2, AppendMoves, Zenon DEF TransportInv
    <3> QED
      BY <1>0, <2>1, <2>2, <3>1, <3>3, LineGrows, Zenon DEF h
  <2> QED
    BY <1>0, <2>3, <2>4
<1>6. CASE EnqueueSend(s)
  <2> DEFINE h == Head(rest[s])
  <2>1. /\ UNCHANGED <<closed, sent, adder>> /\ route[s] = "send" /\ rest[s] # <<>> /\ FrameDone(s)
        /\ send' = Append(send, h) /\ adder[s] = "idle" /\ ws
    BY <1>6, Zenon DEF EnqueueSend, queueVars, SenderInv, TransportInv
  <2>2. \A f \in Frame : Passed(f)' <=> Passed(f) \/ f = h
    BY <2>1, PassHead, Zenon
  <2>3. h \in Frame /\ h[1] = s /\ \A f \in Frame : f[1] = s => (Passed(f) <=> Sooner(f, h))
    BY <2>1, HeadFrame
  <2>4. \A u \in Sender \ {s} : route'[u] = route[u]
    BY <1>0, <2>1 DEF FrameDone
  <2>5. Line = got \o send /\ Line' = got \o Append(send, h)
    BY <1>0, <2>1, Zenon DEF Line
  <2> HIDE DEF h
  <2>6. Line' = Append(Line, h)
    BY <2>3, <2>5, AppendMoves, Zenon DEF TransportInv
  <2> QED
    BY <1>0, <2>1, <2>2, <2>3, <2>4, <2>6, LineGrows
<1> QED
  BY <1>0, <1>1, <1>2, <1>3, <1>4, <1>5, <1>6 DEF Enqueue

\* The other steps keep the line, or move its beginning to the client.
LEMMA MoveLine ==
  ASSUME SenderInv, TransportInv, ReceivedIsPrefix, Live => LineInv, Live', [Other \/ Getting]_vars
  PROVE  LineInv'
<1>0. /\ got \in Seq(Frame) /\ send \in Seq(Frame) /\ frames \in Seq(Frame) /\ Line \in Seq(Frame)
      /\ got \o <<>> = got
  BY ConcatEmptySeq DEF TransportInv, Line
<1>1. UNCHANGED <<sent, rest, route, adder>>
  BY OtherQuiet, GettingTakes, TakeAdder DEF vars, queueVars, senderVars
<1>2. \A f \in Frame : Passed(f)' <=> Passed(f)
  BY <1>1, Zenon DEF Passed, At
<1>3. ASSUME Live, Line' = Line, closed => closed', upgrade' # "done" => upgrade # "done"
      PROVE  LineInv'
  <2>1. LineInv
    BY <1>3
  <2>2. \A f \in Frame : Passed(f)' /\ (~closed' \/ route'[f[1]] # "none")
                           => Passed(f) /\ (~closed \/ route[f[1]] # "none")
    BY <1>1, <1>2, <1>3
  <2> QED
    BY <1>0, <1>2, <1>3, <2>1, <2>2, LineStays
<1>4. CASE Write
  <2>1. /\ ws /\ UNCHANGED <<ws, gone, closed, upgrade, writer>> /\ ~gone
        /\ send # <<>> /\ send' = Tail(send) /\ got' = got \o <<Head(send)>>
    BY <1>4 DEF Write, Deliver, TransportInv, Live
  <2>2. (got \o <<Head(send)>>) \o Tail(send) = got \o send
    <3>1. <<Head(send)>> \in Seq(Frame) /\ Tail(send) \in Seq(Frame)
      BY <1>0, <2>1
    <3>2. <<Head(send)>> \o Tail(send) = send
      <4>1. <<Head(send)>> \o Tail(send) \in Seq(Frame) /\ Len(<<Head(send)>> \o Tail(send)) = Len(send)
        BY <1>0, <2>1, <3>1
      <4>2. \A k \in 1 .. Len(send) : (<<Head(send)>> \o Tail(send))[k] = send[k]
        BY <1>0, <2>1, <3>1
      <4> QED
        BY <1>0, <4>1, <4>2, SeqEqual
    <3>3. (got \o <<Head(send)>>) \o Tail(send) = got \o (<<Head(send)>> \o Tail(send))
      BY <1>0, <3>1, ConcatMoves, Zenon
    <3> QED
      BY <3>2, <3>3, Zenon
  <2> QED
    BY <1>3, <2>1, <2>2 DEF Line, Live
<1>5. CASE WriteFail \/ PingFail \/ ClientVanishes
  BY <1>5 DEF WriteFail, PingFail, ClientVanishes, Live, TransportInv, connVars
<1>6. CASE Close \/ CloseStop \/ CloseForget \/ UNCHANGED vars
  <2>1. /\ Line' = Line /\ UNCHANGED <<upgrade, ws, gone>> /\ (closed => closed')
        /\ (writer' = "running" => writer = "running")
    BY <1>6 DEF Close, CloseStop, CloseForget, vars, queueVars, connVars, clientVars, Line
  <2> QED
    BY <1>3, <2>1 DEF Live
<1>7. CASE UpgradeProbe \/ UpgradeFail
  <2>1. Line' = Line /\ UNCHANGED <<ws, gone, writer, closed>> /\ upgrade # "done"
    BY <1>7 DEF UpgradeProbe, UpgradeFail, queueVars, clientVars, Line
  <2> QED
    BY <1>3, <2>1 DEF Live
<1>8. CASE Upgrade
  <2>1. ~ws /\ ws' /\ upgrade' = "done" /\ UNCHANGED <<send, got, gone>> /\ ~gone /\ send = <<>>
    BY <1>8 DEF Upgrade, clientVars, TransportInv
  <2>2. Line' = got /\ Line = got \o frames
    BY <1>0, <2>1 DEF Line
  <2>3. LineInv
    BY <2>1 DEF Live
  <2>4. Ordered(Line)'
    <3>1. Ordered(got)
      BY Zenon DEF ReceivedIsPrefix
    <3> QED
      BY <2>2, <3>1 DEF Ordered
  <2>5. ASSUME NEW f \in Frame, NEW k \in 1 .. Len(got), got[k] = f
        PROVE  Passed(f)
    <3>1. k \in 1 .. Len(Line) /\ Line[k] = f
      BY <1>0, <2>2, <2>5, ConcatProperties
    <3> QED
      BY <2>3, <3>1 DEF LineInv
  <2> QED
    BY <1>2, <2>1, <2>2, <2>4, <2>5 DEF LineInv
<1>9. CASE Getting
  <2>1. PICK t \in Getter : Get(t) \/ GetWakes(t) \/ GetTimeout(t) \/ GetReturns(t)
    BY <1>9, Zenon DEF Getting
  <2>2. ~ws /\ UNCHANGED <<ws, gone, writer, closed, upgrade>> /\ ~gone
    BY <2>1, Zenon DEF Get, ClientPolls, GetWakes, GetTimeout, GetReturns, Queue!TakeReady, Queue!TakeTimeout,
                Queue!TakeRest, TransportInv, Deliver, connVars, clientVars, Live
  <2>3. \/ UNCHANGED <<frames, got>>
        \/ frames' = <<>> /\ got' = got \o frames
    BY <2>1, <2>2 DEF Get, GetWakes, GetTimeout, GetReturns, Queue!TakeNow, Queue!TakeWait, Queue!TakeReady,
                Queue!TakeTimeout, Queue!TakeRest, Queue!Drain, Deliver, clientVars
  <2>4. Line' = Line
    BY <1>0, <2>2, <2>3, DrainMoves DEF Line
  <2> QED
    BY <1>3, <2>2, <2>4 DEF Live
<1> QED
  BY <1>4, <1>5, <1>6, <1>7, <1>8, <1>9 DEF Other

\* Nothing is received at the start.
LEMMA InitReceive == Init => ReceiveInv
<1> SUFFICES ASSUME Init PROVE ReceiveInv
  OBVIOUS
<1>1. TransportInv
  BY InitTransport
<1>2. RestInv
  <2>1. \A s \in Sender : rest[s] = <<>>
    BY Zenon DEF Init
  <2>2. Len(<<>>) = 0 /\ 1 .. 0 = {} /\ 0 <= Attachments + 1
    BY TransportAssumption
  <2> QED
    BY <2>1, <2>2, Zenon DEF RestInv
<1>3. got = <<>> /\ Line = <<>>
  <2>1. got = <<>> /\ send = <<>> /\ frames = <<>>
    BY DEF Init, Queue!Init
  <2> QED
    BY <2>1 DEF Line
<1>4. ReceivedIsPrefix
  BY <1>3 DEF ReceivedIsPrefix, Ordered, Gapless
<1>5. \A f \in Frame : ~Passed(f)
  <2> SUFFICES ASSUME NEW f \in Frame PROVE ~Passed(f)
    OBVIOUS
  <2>1. f[1] \in Sender /\ f[2] \in Nat /\ f[2] >= 1
    BY TransportAssumption DEF Frame
  <2>2. sent[f[1]] = 0
    BY <2>1, Zenon DEF Init
  <2> QED
    BY <2>1, <2>2 DEF Passed
<1>6. LineInv
  BY <1>3, <1>5 DEF LineInv, Ordered, Gapless
<1> QED
  BY <1>1, <1>2, <1>4, <1>6 DEF ReceiveInv

\* Every step keeps the line, and what the client has received of it.
LEMMA StepReceive == SenderInv /\ Queue!TypeOK' /\ ReceiveInv /\ [Next]_vars => ReceiveInv'
<1> SUFFICES ASSUME SenderInv, Queue!TypeOK', ReceiveInv, [Next]_vars
             PROVE  ReceiveInv'
  OBVIOUS
<1>0. TransportInv /\ RestInv /\ ReceivedIsPrefix /\ (Live => LineInv)
  BY DEF ReceiveInv
<1>1. TransportInv'
  BY <1>0, StepTransport
<1>2. CASE \E s \in Sender : SendPayload(s) \/ Enqueue(s)
  <2>1. PICK s \in Sender : SendPayload(s) \/ Enqueue(s)
    BY <1>2
  <2>2. RestInv'
    <3>1. CASE EnqueueClosed(s) \/ EnqueueSend(s) \/ EnqueueOverflow(s)
      <4>1. rest[s] # <<>> /\ FrameDone(s) /\ UNCHANGED sent
        BY <3>1, Zenon DEF EnqueueClosed, EnqueueSend, EnqueueOverflow, SenderInv
      <4> QED
        BY <1>0, <4>1, RestTail
    <3>2. CASE EnqueueRoute(s)
      BY <1>0, <3>2, Zenon DEF EnqueueRoute, RestInv, At
    <3> QED
      BY <1>0, <2>1, <3>1, <3>2, PassPayload, PassPoll, PassSignal, Zenon DEF Enqueue
  <2>3. UNCHANGED <<got, upgrade>>
    BY <2>1 DEF SendPayload, Enqueue, EnqueueClosed, EnqueueRoute, EnqueuePoll, EnqueuePollSignal, EnqueueSend,
           EnqueueOverflow, connVars, clientVars
  <2>4. ReceivedIsPrefix'
    BY <1>0, <2>3, Zenon DEF ReceivedIsPrefix, Ordered, Gapless
  <2>5. Live' => LineInv'
    BY <1>0, <2>1, SendLine
  <2> QED
    BY <1>1, <2>2, <2>4, <2>5 DEF ReceiveInv
<1>3. CASE Other \/ Getting \/ UNCHANGED vars
  <2>1. UNCHANGED senderVars
    BY <1>3, OtherQuiet, GettingTakes DEF vars
  <2>2. RestInv'
    BY <1>0, <2>1 DEF RestInv, At, senderVars
  <2>3. Live' => LineInv'
    BY <1>0, <1>3, MoveLine, Zenon
  <2>4. ReceivedIsPrefix'
    <3>1. CASE UNCHANGED got /\ (upgrade' # "done" => upgrade # "done")
      BY <1>0, <3>1 DEF ReceivedIsPrefix, Ordered, Gapless
    <3>2. CASE Live' /\ UNCHANGED upgrade
      <4>1. LineInv' /\ TransportInv'
        BY <1>1, <2>3, <3>2
      <4>2. Ordered(Line)' /\ (upgrade' # "done" => Gapless(Line)')
        BY <4>1 DEF LineInv
      <4>3. PICK q \in Seq(Frame) : Line' = got' \o q
        BY <4>1, Zenon DEF Line, TransportInv
      <4>4. PICK p \in Seq(Frame) : p = got'
        BY <4>1 DEF TransportInv
      <4>5. Ordered(p \o q) /\ (upgrade' # "done" => Gapless(p \o q))
        BY <4>2, <4>3, <4>4, Zenon DEF Ordered, Gapless
      <4>6. Ordered(p) /\ (upgrade' # "done" => Gapless(p))
        BY <4>5, PrefixLine
      <4> QED
        BY <4>4, <4>6, Zenon DEF ReceivedIsPrefix, Ordered, Gapless
    <3>3. CASE Write \/ Getting
      <4>1. UNCHANGED <<upgrade, gone, ws, writer>>
        BY <3>3 DEF Write, Getting, Get, GetWakes, GetTimeout, GetReturns, Deliver, connVars, clientVars
      <4>2. got' # got => ~gone
        BY <3>3, Zenon DEF Write, Getting, Get, GetWakes, GetTimeout, GetReturns, Deliver, clientVars
      <4>3. got' # got => Live
        BY <1>0, <3>3, <4>2 DEF Write, Getting, Get, ClientPolls, GetWakes, GetTimeout, GetReturns, Queue!TakeRest,
                                Live, TransportInv, clientVars
      <4> QED
        BY <3>1, <3>2, <4>1, <4>3 DEF Live
    <3> QED
      BY <1>3, <3>1, <3>3, Zenon
         DEF Other, WriteFail, PingFail, Close, CloseStop, CloseForget, ClientVanishes, UpgradeProbe, UpgradeFail,
             Upgrade, vars, clientVars, connVars
  <2> QED
    BY <1>1, <2>2, <2>3, <2>4 DEF ReceiveInv
<1> QED
  BY <1>2, <1>3 DEF Next, Other, Getting

\* The frames a client receives of a goroutine are in the order they were sent, each
\* once, and none is missing in between until the connection is upgraded, whatever
\* overflows, fails or closes in the middle (ReceivedIsPrefix).
THEOREM ReceivedInOrder == Spec => []ReceivedIsPrefix
<1>1. ReceiveInv => ReceivedIsPrefix
  BY DEF ReceiveInv
<1> QED
  BY <1>1, InitSender, StepSender, InitReceive, StepReceive, ImplementsQueue, QueueTypeCorrect, PTL
     DEF Spec, QueueSpec

-----------------------------------------------------------------------------
\* The rest of the type invariant.
ConnType ==
  /\ closed \in BOOLEAN
  /\ upgrade \in {"no", "probing", "done", "failed"}
  /\ Len(send) <= SendCap
  /\ writer \in {"off", "running", "stopped"}
  /\ closing \in {"no", "stop", "forget", "done"}

\* No step makes the channel longer than its capacity.
LEMMA StepConn == TransportInv /\ ConnType /\ [Next]_vars => ConnType'
<1> SUFFICES ASSUME TransportInv, ConnType, [Next]_vars
             PROVE  ConnType'
  OBVIOUS
<1>0. Len(send) \in Nat /\ SendCap \in Nat /\ send \in Seq(Frame)
  BY TransportAssumption DEF TransportInv
<1>1. \/ send' = send
      \/ send # <<>> /\ send' = Tail(send)
      \/ Len(send) < SendCap /\ \E h : send' = Append(send, h)
  BY DEF Next, SendPayload, Enqueue, EnqueueClosed, EnqueueRoute, EnqueuePoll, EnqueuePollSignal, EnqueueSend,
         EnqueueOverflow, Write, WriteFail, PingFail, Close, CloseStop, CloseForget, ClientVanishes, UpgradeProbe,
         UpgradeFail, Upgrade, Get, GetWakes, GetTimeout, GetReturns, connVars, vars
<1>2. Len(send') <= SendCap
  <2>1. ASSUME send # <<>> PROVE Len(Tail(send)) = Len(send) - 1
    BY <1>0, <2>1
  <2>2. \A h : Len(Append(send, h)) = Len(send) + 1
    BY <1>0
  <2>3. Len(send) <= SendCap
    BY DEF ConnType
  <2>4. CASE send # <<>> /\ send' = Tail(send)
    BY <1>0, <2>1, <2>3, <2>4
  <2>5. CASE Len(send) < SendCap /\ \E h : send' = Append(send, h)
    BY <1>0, <2>2, <2>5
  <2> QED
    BY <1>1, <2>3, <2>4, <2>5
<1>3. closed' \in BOOLEAN /\ closing' \in {"no", "stop", "forget", "done"}
  BY Zenon DEF ConnType, BeginClose, Next, SendPayload, Enqueue, EnqueueClosed, EnqueueRoute, EnqueuePoll,
         EnqueuePollSignal, EnqueueSend, EnqueueOverflow, Write, WriteFail, PingFail, Close, CloseStop, CloseForget,
         ClientVanishes, UpgradeProbe, UpgradeFail, Upgrade, Get, GetWakes, GetTimeout, GetReturns, connVars, vars
<1>4. writer' \in {"off", "running", "stopped"} /\ upgrade' \in {"no", "probing", "done", "failed"}
  BY DEF ConnType, Next, SendPayload, Enqueue, EnqueueClosed, EnqueueRoute, EnqueuePoll,
         EnqueuePollSignal, EnqueueSend, EnqueueOverflow, Write, WriteFail, PingFail, Close, CloseStop, CloseForget,
         ClientVanishes, UpgradeProbe, UpgradeFail, Upgrade, Get, GetWakes, GetTimeout, GetReturns, connVars, vars
<1> QED
  BY <1>2, <1>3, <1>4 DEF ConnType

\* The type invariant of the model; the channel send never holds more than its
\* capacity.
THEOREM TransportTyped == Spec => []TypeOK
<1>1. ASSUME Init PROVE ConnType
  <2>1. send = <<>> /\ upgrade = "no" /\ closed = FALSE /\ closing = "no" /\ writer \in {"running", "off"}
    BY <1>1, Zenon DEF Init
  <2>2. Len(send) <= SendCap
    BY <2>1, TransportAssumption
  <2> QED
    BY <2>1, <2>2, Zenon DEF ConnType
<1>2. Queue!TypeOK /\ SenderInv /\ TransportInv /\ ConnType => TypeOK
  BY DEF SenderInv, TransportInv, ConnType, TypeOK
<1> QED
  BY <1>1, <1>2, InitSender, StepSender, InitTransport, StepTransport, StepConn, ImplementsQueue, QueueTypeCorrect,
     PTL DEF Spec, QueueSpec
=============================================================================
