------------------------- MODULE BroadcastAckProofs -------------------------
(***************************************************************************)
(* Machine-checked proofs about BroadcastAck, for every set of nodes,       *)
(* sockets and broadcasts: type correctness, the safety invariants, and     *)
(* that the broadcasts implement the safety part of AckPromise.             *)
(***************************************************************************)
EXTENDS BroadcastAck, FiniteSetTheorems, TLAPS

\* What apply returns is a natural number.
LEMMA CountIsNat ==
  ASSUME NEW n \in Node, NEW targets \in SUBSET SocketsOn(n)
  PROVE  Cardinality(targets) \in Nat /\ targets \in SUBSET Socket
<1>1. targets \subseteq Socket
  BY DEF SocketsOn
<1>2. IsFiniteSet(targets)
  BY <1>1, BroadcastAckAssumption, FS_Subset
<1> QED
  BY <1>1, <1>2, FS_CardinalityType

\* The section under the tracker's mutex keeps the tracker well typed.
LEMMA UpdateTrackerType ==
  ASSUME TypeOK, NEW b \in Bcast, NEW e \in Nat, NEW g \in Nat,
         NEW finish \in BOOLEAN, NEW byEmit \in BOOLEAN,
         UpdateTracker(b, e, g, finish, byEmit)
  PROVE  /\ expected' \in [Bcast -> Nat]
         /\ got' \in [Bcast -> Nat]
         /\ done' \in [Bcast -> BOOLEAN]
         /\ fin' \in [Bcast -> {"idle", "remove", "call"}]
         /\ finByEmit' \in [Bcast -> BOOLEAN]
BY DEF TypeOK, UpdateTracker

\* addExpected keeps the types of the tracker.
LEMMA AddExpectedType ==
  ASSUME TypeOK, NEW b \in Bcast, NEW n \in Nat, AddExpected(b, n)
  PROVE  /\ expected' \in [Bcast -> Nat]
         /\ got' \in [Bcast -> Nat]
         /\ done' \in [Bcast -> BOOLEAN]
         /\ fin' \in [Bcast -> {"idle", "remove", "call"}]
         /\ finByEmit' \in [Bcast -> BOOLEAN]
<1>1. expected[b] + n \in Nat /\ got[b] \in Nat
  BY DEF TypeOK
<1>2. Complete(expected[b] + n, got[b]) \in BOOLEAN
  BY DEF Complete
<1>3. CASE done[b]
  BY <1>3 DEF AddExpected, TypeOK, finVars
<1>4. CASE ~done[b]
  BY <1>1, <1>2, <1>4, UpdateTrackerType, Zenon DEF AddExpected
<1> QED
  BY <1>3, <1>4

\* A server without trackers is well typed.
LEMMA InitType == Init => TypeOK
BY BroadcastAckAssumption DEF Init, TypeOK, PC

\* The steps of emitWithAck preserve the types.
LEMMA EmitterType ==
  ASSUME TypeOK, NEW b \in Bcast, Emitter(b)
  PROVE  TypeOK'
<1> USE BroadcastAckAssumption DEF TypeOK, PC, Goto, EmitterAt, emitVars,
      trackerVars, requestVars, clientVars, finVars, settleVars
<1>1. CASE NewBroadcastAck(b)
  BY <1>1 DEF NewBroadcastAck
<1>2. CASE LocalMatch(b)
  <2>1. PICK targets \in SUBSET SocketsOn(Origin[b]) : MatchOn(b, Origin[b], targets)
    BY <1>2 DEF LocalMatch
  <2>2. Cardinality(targets) \in Nat /\ targets \in SUBSET Socket
    BY CountIsNat, ZenonT(60)
  <2> QED
    BY <1>2, <2>1, <2>2 DEF LocalMatch, MatchOn
<1>3. CASE AddExpectedLocal(b)
  <2>1. count[b][Origin[b]] \in Nat
    OBVIOUS
  <2> QED
    BY <1>3, <2>1, AddExpectedType, Zenon DEF AddExpectedLocal
<1>4. CASE PostToPeers(b)
  BY <1>4 DEF PostToPeers
<1>5. CASE GetTracker(b)
  BY <1>5 DEF GetTracker
<1>6. CASE CollectEnd(b)
  BY <1>6, Zenon DEF CollectEnd
<1>7. CASE MaybeFinish(b)
  BY <1>7, ZenonT(60) DEF MaybeFinish, UpdateTracker
<1>8. ASSUME NEW n \in Node, AddExpectedRemote(b, n)
      PROVE  TypeOK'
  <2>1. count[b][n] \in Nat
    OBVIOUS
  <2> QED
    BY <1>8, <2>1, AddExpectedType DEF AddExpectedRemote
<1> QED
  BY <1>1, <1>2, <1>3, <1>4, <1>5, <1>6, <1>7, <1>8, Zenon DEF Emitter

\* The steps of the peers, of the senders, of the goroutine that finishes and
\* of the sweeper preserve the types.
LEMMA ServerType ==
  ASSUME TypeOK, NEW b \in Bcast,
         Peer(b) \/ Sending(b) \/ Finishing(b) \/ Sweeping(b)
  PROVE  TypeOK'
<1> USE BroadcastAckAssumption DEF TypeOK, PC, emitVars,
      trackerVars, requestVars, clientVars, finVars, settleVars
<1>1. ASSUME NEW n \in Node, PeerMatch(b, n)
      PROVE  TypeOK'
  <2>1. PICK targets \in SUBSET SocketsOn(n) : MatchOn(b, n, targets)
    BY <1>1 DEF PeerMatch
  <2>2. Cardinality(targets) \in Nat /\ targets \in SUBSET Socket
    BY CountIsNat, ZenonT(60)
  <2> QED
    BY <1>1, <2>1, <2>2 DEF PeerMatch, MatchOn
<1>2. ASSUME NEW n \in Node, PeerReply(b, n)
      PROVE  TypeOK'
  BY <1>2 DEF PeerReply
<1>3. ASSUME NEW n \in Node, RequestFails(b, n)
      PROVE  TypeOK'
  <2>1. PICK r \in {"none", "sent", "applying", "applied", "lost"} :
          req' = [req EXCEPT ![b][n] = r]
    <3>1. req[b][n] \in {"none", "sent", "applying", "applied", "lost"}
      OBVIOUS
    <3> QED
      BY <1>3, <3>1, ZenonT(60) DEF RequestFails
  <2> QED
    BY <1>3, <2>1 DEF RequestFails
<1>4. ASSUME NEW n \in Node, NEW s \in Socket, Send(b, n, s)
      PROVE  TypeOK'
  BY <1>4 DEF Send
<1>5. CASE FinishRemove(b)
  BY <1>5 DEF FinishRemove
<1>6. CASE FinishCall(b)
  BY <1>6 DEF FinishCall, Settle
<1>7. CASE SweepTake(b)
  BY <1>7 DEF SweepTake
<1>8. CASE SweepTimeout(b)
  <2>1. /\ outcome' \in [Bcast -> {"none", "ok", "timeout"}]
        /\ settles' \in [Bcast -> Nat]
    <3>1. CASE done[b]
      BY <1>8, <3>1 DEF SweepTimeout
    <3>2. CASE ~done[b]
      <4>1. Settle(b, "timeout")
        BY <1>8, <3>2, Zenon DEF SweepTimeout
      <4> QED
        BY <4>1 DEF Settle
    <3> QED
      BY <3>1, <3>2
  <2> QED
    BY <1>8, <2>1, ZenonT(60) DEF SweepTimeout
<1> QED
  BY <1>1, <1>2, <1>3, <1>4, <1>5, <1>6, <1>7, <1>8, Zenon
  DEF Peer, Sending, Finishing, Sweeping

\* The steps of an acknowledgement preserve the types.
LEMMA AckType ==
  ASSUME TypeOK,
         \/ \E s \in Socket, b \in Bcast : ClientAck(s, b)
         \/ \E a \in acks : AckArrives(a) \/ AckLost(a) \/ Accept(a)
  PROVE  TypeOK'
<1> USE BroadcastAckAssumption DEF TypeOK, PC, Ack, emitVars,
      trackerVars, requestVars, clientVars, finVars, settleVars
<1>1. ASSUME NEW s \in Socket, NEW b \in Bcast, ClientAck(s, b)
      PROVE  TypeOK'
  BY <1>1 DEF ClientAck
<1>2. ASSUME NEW a \in acks, AckArrives(a)
      PROVE  TypeOK'
  BY <1>2, ZenonT(60) DEF AckArrives
<1>3. ASSUME NEW a \in acks, AckLost(a)
      PROVE  TypeOK'
  BY <1>3, Zenon DEF AckLost
<1>4. ASSUME NEW a \in acks, Accept(a)
      PROVE  TypeOK'
  <2>1. a.to \in Bcast /\ got[a.to] + 1 \in Nat /\ expected[a.to] \in Nat
    OBVIOUS
  <2>2. Complete(expected[a.to], got[a.to] + 1) \in BOOLEAN
    BY DEF Complete
  <2>3. CASE done[a.to]
    BY <1>4, <2>3 DEF Accept
  <2>4. CASE ~done[a.to]
    <3>1. /\ UpdateTracker(a.to, expected[a.to], got[a.to] + 1,
                           Complete(expected[a.to], got[a.to] + 1), FALSE)
          /\ credited' = [credited EXCEPT ![a.to] = @ \cup {<<a.from, a.ans>>}]
      BY <1>4, <2>4, Zenon DEF Accept
    <3>2. credited' \in [Bcast -> SUBSET (Socket \X Bcast)]
      BY <2>1, <3>1
    <3>3. /\ expected' \in [Bcast -> Nat]
          /\ got' \in [Bcast -> Nat]
          /\ done' \in [Bcast -> BOOLEAN]
          /\ fin' \in [Bcast -> {"idle", "remove", "call"}]
          /\ finByEmit' \in [Bcast -> BOOLEAN]
      BY <2>1, <2>2, <3>1, ZenonT(60) DEF UpdateTracker
    <3> QED
      BY <1>4, <3>2, <3>3 DEF Accept
  <2> QED
    BY <2>3, <2>4, Zenon
<1> QED
  BY <1>1, <1>2, <1>3, <1>4, Zenon

\* Every reachable state of the acknowledged broadcasts is well typed.
THEOREM TypeCorrect == Spec => []TypeOK
<1>1. TypeOK /\ [Next]_vars => TypeOK'
  <2> SUFFICES ASSUME TypeOK, [Next]_vars PROVE TypeOK'
    BY Zenon
  <2>1. CASE UNCHANGED vars
    BY <2>1, Zenon DEF vars, TypeOK, emitVars, trackerVars, requestVars, clientVars,
       finVars, settleVars
  <2> QED
    BY <2>1, EmitterType, ServerType, AckType DEF Next
<1> QED
  BY <1>1, InitType, PTL DEF Spec

-----------------------------------------------------------------------------
\* A server without trackers satisfies the inductive invariant.
LEMMA InitInv == Init => IInv
BY BroadcastAckAssumption
DEF Init, IInv, TrackerInv, OriginNotAsked, FreshWhenIdle, DoneDecides,
    UnregisteredFirst, LocalExpectedFirst

\* Steps that change neither the tracker, nor the local count, nor what is
\* registered, and leave idle broadcasts idle, preserve the invariant.
LEMMA QuietInv ==
  ASSUME TypeOK, IInv,
         UNCHANGED <<broadcasts, expected, got, done, fin, sweep, settleVars>>,
         \A c \in Bcast :
           /\ pc'[c] = pc[c] \/ (pc[c] \notin {"idle", "match", "send"}
                                  /\ pc'[c] \notin {"idle", "match", "send"})
           /\ req'[c][Origin[c]] = req[c][Origin[c]]
           /\ count'[c][Origin[c]] = count[c][Origin[c]]
  PROVE  IInv'
<1> SUFFICES ASSUME NEW c \in Bcast PROVE TrackerInv(c)'
  BY Zenon DEF IInv
<1>1. TrackerInv(c)
  BY DEF IInv
<1> QED
  BY <1>1, BroadcastAckAssumption, Zenon
  DEF TrackerInv, OriginNotAsked, FreshWhenIdle, DoneDecides,
      UnregisteredFirst, LocalExpectedFirst, settleVars

\* The number of sockets apply matched on the origin is a natural number.
LEMMA LocalCountIsNat ==
  ASSUME TypeOK, NEW b \in Bcast
  PROVE  count[b][Origin[b]] \in Nat
BY BroadcastAckAssumption DEF TypeOK

\* A step of addExpected, accept or maybeFinish on a tracker that is not done:
\* it may finish only with got >= expected, and unless emitWithAck has yet to
\* add the local recipients, expected covers them afterwards.
LEMMA TrackerStepInv ==
  ASSUME TypeOK, IInv, NEW b \in Bcast, NEW e \in Nat, NEW g \in Nat, ~done[b],
         expected' = [expected EXCEPT ![b] = e],
         got' = [got EXCEPT ![b] = g],
         \/ UNCHANGED <<done, fin>>
         \/ /\ done' = [done EXCEPT ![b] = TRUE]
            /\ fin' = [fin EXCEPT ![b] = "remove"]
            /\ g >= e
            /\ pc'[b] \notin {"idle", "match", "send"},
         \/ pc'[b] = pc[b] /\ pc[b] \in {"idle", "match", "send"} /\ e = 0
         \/ pc'[b] \notin {"idle", "match", "send"} /\ e >= count[b][Origin[b]],
         \A c \in Bcast : c # b => pc'[c] = pc[c],
         UNCHANGED <<broadcasts, count, req, sweep, settleVars>>
  PROVE  IInv'
<1> SUFFICES ASSUME NEW c \in Bcast PROVE TrackerInv(c)'
  BY DEF IInv
<1>1. TrackerInv(c) /\ TrackerInv(b)
  BY DEF IInv
<1>2. count[b][Origin[b]] \in Nat
  BY LocalCountIsNat, Zenon
<1>3. CASE c # b
  BY <1>1, <1>3 DEF TypeOK, settleVars, TrackerInv, OriginNotAsked, FreshWhenIdle,
        DoneDecides, UnregisteredFirst, LocalExpectedFirst
<1>4. CASE c = b /\ UNCHANGED <<done, fin>>
  <2>1. fin[b] = "idle" /\ settles[b] = 0 /\ outcome[b] = "none"
    BY <1>1 DEF TypeOK, TrackerInv, DoneDecides
  <2>2. expected'[b] = e
    BY Zenon DEF TypeOK
  <2>3. (OriginNotAsked(b) /\ FreshWhenIdle(b) /\ DoneDecides(b) /\ UnregisteredFirst(b))'
    BY <1>1, <1>4, Zenon DEF settleVars, TrackerInv, OriginNotAsked, FreshWhenIdle,
        DoneDecides, UnregisteredFirst
  <2>4. LocalExpectedFirst(b)'
    BY <1>4, <2>1, <2>2, Zenon DEF settleVars, LocalExpectedFirst
  <2> QED
    BY <1>4, <2>3, <2>4, Zenon DEF TrackerInv
<1>5. CASE /\ c = b
           /\ done' = [done EXCEPT ![b] = TRUE]
           /\ fin' = [fin EXCEPT ![b] = "remove"]
           /\ g >= e
           /\ pc'[b] \notin {"idle", "match", "send"}
  BY <1>1, <1>2, <1>5, Zenon DEF TypeOK, settleVars, TrackerInv, OriginNotAsked, FreshWhenIdle,
        DoneDecides, UnregisteredFirst, LocalExpectedFirst
<1> QED
  BY <1>3, <1>4, <1>5

\* The same for the section of the code that updates the tracker.
LEMMA UpdateStepInv ==
  ASSUME TypeOK, IInv, NEW b \in Bcast, NEW e \in Nat, NEW g \in Nat, ~done[b],
         \/ UpdateTracker(b, e, g, Complete(e, g), TRUE)
         \/ UpdateTracker(b, e, g, Complete(e, g), FALSE),
         \/ pc'[b] = pc[b] /\ pc[b] \in {"idle", "match", "send"} /\ e = 0
         \/ pc'[b] \notin {"idle", "match", "send"} /\ e >= count[b][Origin[b]],
         \A c \in Bcast : c # b => pc'[c] = pc[c],
         UNCHANGED <<broadcasts, count, req, sweep, settleVars>>
  PROVE  IInv'
<1>1. /\ expected' = [expected EXCEPT ![b] = e]
      /\ got' = [got EXCEPT ![b] = g]
  BY Zenon DEF UpdateTracker
<1>2. CASE Complete(e, g)
  <2>1. /\ done' = [done EXCEPT ![b] = TRUE]
        /\ fin' = [fin EXCEPT ![b] = "remove"]
    BY <1>2, Zenon DEF UpdateTracker
  <2>2. e > 0 /\ g >= e
    BY <1>2 DEF Complete
  <2>3. pc'[b] \notin {"idle", "match", "send"}
    BY <2>2
  <2> QED
    BY <1>1, <2>1, <2>2, <2>3, TrackerStepInv, ZenonT(60)
<1>3. CASE ~Complete(e, g)
  <2>1. UNCHANGED <<done, fin>>
    BY <1>3 DEF UpdateTracker, TypeOK
  <2> QED
    BY <1>1, <2>1, TrackerStepInv, ZenonT(60)
<1> QED
  BY <1>2, <1>3

\* The steps of emitWithAck preserve the invariant.
LEMMA EmitterInv ==
  ASSUME TypeOK, IInv, NEW b \in Bcast, Emitter(b)
  PROVE  IInv'
<1> USE BroadcastAckAssumption DEF Goto, EmitterAt, emitVars, trackerVars,
      requestVars, clientVars, finVars, settleVars
<1>1. CASE NewBroadcastAck(b)
  <2> SUFFICES ASSUME NEW c \in Bcast PROVE TrackerInv(c)'
    BY DEF IInv
  <2>1. TrackerInv(c)
    BY DEF IInv
  <2> QED
    BY <1>1, <2>1
    DEF NewBroadcastAck, AckMuFree, TypeOK, TrackerInv, OriginNotAsked, FreshWhenIdle,
        DoneDecides, UnregisteredFirst, LocalExpectedFirst
<1>2. CASE LocalMatch(b)
  <2> SUFFICES ASSUME NEW c \in Bcast PROVE TrackerInv(c)'
    BY DEF IInv
  <2>1. TrackerInv(c)
    BY DEF IInv
  <2>2. c # b => count'[c] = count[c]
    BY <1>2 DEF LocalMatch, MatchOn, TypeOK
  <2> QED
    BY <1>2, <2>1, <2>2, Zenon
    DEF LocalMatch, TypeOK, TrackerInv, OriginNotAsked, FreshWhenIdle,
        DoneDecides, UnregisteredFirst, LocalExpectedFirst
<1>3. CASE AddExpectedLocal(b)
  <2> SUFFICES ASSUME NEW c \in Bcast PROVE TrackerInv(c)'
    BY DEF IInv
  <2>1. TrackerInv(c) /\ TrackerInv(b)
    BY Zenon DEF IInv
  <2>2. count[b][Origin[b]] \in Nat
    BY DEF TypeOK
  <2>3. CASE done[b]
    BY <1>3, <2>1, <2>2, <2>3
    DEF AddExpectedLocal, AddExpected, TypeOK, TrackerInv, OriginNotAsked,
        FreshWhenIdle, DoneDecides, UnregisteredFirst, LocalExpectedFirst
  <2>4. CASE ~done[b]
    <3> DEFINE e == expected[b] + count[b][Origin[b]]
    <3>1. e \in Nat /\ got[b] \in Nat /\ e >= count[b][Origin[b]]
      BY <2>2 DEF TypeOK
    <3>2. UpdateTracker(b, e, got[b], Complete(e, got[b]), TRUE)
      BY <1>3, <2>4, ZenonT(60) DEF AddExpectedLocal, AddExpected
    <3>3. pc'[b] \notin {"idle", "match", "send"} /\ \A d \in Bcast : d # b => pc'[d] = pc[d]
      BY <1>3 DEF AddExpectedLocal, TypeOK
    <3>4. UNCHANGED <<broadcasts, count, req, sweep, settleVars>>
      BY <1>3, Zenon DEF AddExpectedLocal
    <3> HIDE DEF e
    <3>5. IInv'
      BY <2>4, <3>1, <3>2, <3>3, <3>4, UpdateStepInv, Zenon
    <3> QED
      BY <3>5, Zenon DEF IInv
  <2> QED
    BY <2>3, <2>4
<1>4. CASE PostToPeers(b)
  <2>1. \A c \in Bcast : req'[c][Origin[c]] = req[c][Origin[c]]
    BY <1>4, Zenon DEF PostToPeers, PeersOf, TypeOK
  <2> QED
    BY <1>4, <2>1, QuietInv, ZenonT(60) DEF PostToPeers, TypeOK
<1>5. CASE GetTracker(b)
  BY <1>5, QuietInv, Zenon DEF GetTracker, TypeOK
<1>6. CASE CollectEnd(b)
  BY <1>6, QuietInv, Zenon DEF CollectEnd, TypeOK
<1>7. CASE MaybeFinish(b)
  <2> SUFFICES ASSUME NEW c \in Bcast PROVE TrackerInv(c)'
    BY DEF IInv
  <2>1. TrackerInv(c) /\ TrackerInv(b)
    BY DEF IInv
  <2>2. count[b][Origin[b]] \in Nat
    BY DEF TypeOK
  <2>3. /\ pc[b] = "finish" /\ pc'[b] = "returned"
        /\ \A d \in Bcast : d # b => pc'[d] = pc[d]
        /\ UNCHANGED <<broadcasts, count, req, sweep, settleVars>>
    BY <1>7, Zenon DEF MaybeFinish, TypeOK
  <2>4. expected[b] \in Nat /\ got[b] \in Nat
    BY DEF TypeOK
  <2>5. /\ expected' = [expected EXCEPT ![b] = expected[b]]
        /\ got' = [got EXCEPT ![b] = got[b]]
    BY <1>7 DEF MaybeFinish, UpdateTracker
  <2>6. CASE ~done[b] /\ expected[b] = 0
    <3>1. /\ done' = [done EXCEPT ![b] = TRUE]
          /\ fin' = [fin EXCEPT ![b] = "remove"]
      BY <1>7, <2>6, Zenon DEF MaybeFinish, UpdateTracker
    <3>2. outcome[b] = "none"
      BY <2>1, <2>6 DEF TypeOK, TrackerInv, DoneDecides
    <3>3. expected[b] >= count[b][Origin[b]]
      BY <2>1, <2>3, <3>2, Zenon DEF TrackerInv, LocalExpectedFirst
    <3>4. got[b] >= expected[b] /\ pc'[b] \notin {"idle", "match", "send"}
      BY <2>3, <2>4, <2>6
    <3>5. IInv'
      BY <2>3, <2>4, <2>5, <2>6, <3>1, <3>3, <3>4, TrackerStepInv, ZenonT(60)
    <3> QED
      BY <3>5 DEF IInv
  <2>7. CASE ~(~done[b] /\ expected[b] = 0)
    <3>1. UNCHANGED <<done, fin>>
      <4> DEFINE finish == ~done[b] /\ expected[b] = 0
      <4>1. /\ done' = [done EXCEPT ![b] = done[b] \/ finish]
            /\ fin' = [fin EXCEPT ![b] = IF finish THEN "remove" ELSE fin[b]]
        BY <1>7, Zenon DEF MaybeFinish, UpdateTracker
      <4>2. ~finish
        BY <2>7, Zenon
      <4> HIDE DEF finish
      <4> QED
        BY <4>1, <4>2 DEF TypeOK
    <3>2. UNCHANGED <<expected, got>>
      BY <2>5, Zenon DEF TypeOK
    <3>3. IInv'
      BY <2>3, <3>1, <3>2, QuietInv DEF TypeOK
    <3> QED
      BY <3>3 DEF IInv
  <2> QED
    BY <2>6, <2>7, Zenon
<1>8. ASSUME NEW n \in Node, AddExpectedRemote(b, n)
      PROVE  IInv'
  <2> SUFFICES ASSUME NEW c \in Bcast PROVE TrackerInv(c)'
    BY DEF IInv
  <2>1. TrackerInv(c) /\ TrackerInv(b)
    BY Zenon DEF IInv
  <2>2. count[b][Origin[b]] \in Nat /\ count[b][n] \in Nat
    BY DEF TypeOK
  <2>3. CASE done[b]
    BY <1>8, <2>1, <2>2, <2>3
    DEF AddExpectedRemote, AddExpected, TypeOK, TrackerInv, OriginNotAsked,
        FreshWhenIdle, DoneDecides, UnregisteredFirst, LocalExpectedFirst
  <2>4. CASE ~done[b]
    <3> DEFINE e == expected[b] + count[b][n]
    <3>1. outcome[b] = "none"
      BY <2>1, <2>4 DEF TypeOK, TrackerInv, DoneDecides
    <3>2. pc[b] = "collect" /\ pc' = pc
      BY <1>8, Zenon DEF AddExpectedRemote
    <3>3. e \in Nat /\ got[b] \in Nat /\ e >= count[b][Origin[b]]
      BY <2>1, <2>2, <3>1, <3>2 DEF TypeOK, TrackerInv, LocalExpectedFirst
    <3>4. UpdateTracker(b, e, got[b], Complete(e, got[b]), TRUE)
      BY <1>8, <2>4, Zenon DEF AddExpectedRemote, AddExpected
    <3>5. UNCHANGED <<broadcasts, count, req, sweep, settleVars>>
      BY <1>8 DEF AddExpectedRemote
    <3> HIDE DEF e
    <3>6. IInv'
      BY <2>4, <3>2, <3>3, <3>4, <3>5, UpdateStepInv, Zenon
    <3> QED
      BY <3>6, Zenon DEF IInv
  <2> QED
    BY <2>3, <2>4
<1> QED
  BY <1>1, <1>2, <1>3, <1>4, <1>5, <1>6, <1>7, <1>8, Zenon DEF Emitter

\* Nothing of the tracker of c moves, except that it may leave the map and that
\* a sweeper may drop it.
SameTracker(c) ==
  /\ fin'[c] = fin[c]
  /\ done'[c] <=> done[c]
  /\ settles'[c] = settles[c]
  /\ outcome'[c] = outcome[c]
  /\ resolved'[c] = resolved[c]
  /\ c \in broadcasts' => c \in broadcasts
  /\ sweep'[Origin[c]] = c => sweep[Origin[c]] = c

\* A tracker that stays as it is keeps its invariant while its emitter rests.
LEMMA SameTrackerInv ==
  ASSUME NEW c \in Bcast, TrackerInv(c), SameTracker(c),
         UNCHANGED <<pc, count, req, expected, got>>
  PROVE  TrackerInv(c)'
<1>1. OriginNotAsked(c)' /\ FreshWhenIdle(c)'
  BY DEF TrackerInv, SameTracker, OriginNotAsked, FreshWhenIdle
<1>2. DoneDecides(c)'
  BY Zenon DEF TrackerInv, SameTracker, DoneDecides
<1>3. UnregisteredFirst(c)'
  BY Zenon DEF TrackerInv, SameTracker, UnregisteredFirst
<1>4. LocalExpectedFirst(c)'
  BY DEF TrackerInv, SameTracker, LocalExpectedFirst
<1> QED
  BY <1>1, <1>2, <1>3, <1>4, Zenon DEF TrackerInv

\* The steps of the peers, of the senders, of the goroutine that finishes and
\* of the sweeper preserve the invariant.
LEMMA ServerInv ==
  ASSUME TypeOK, IInv, NEW b \in Bcast,
         Peer(b) \/ Sending(b) \/ Finishing(b) \/ Sweeping(b)
  PROVE  IInv'
<1> USE BroadcastAckAssumption DEF emitVars, trackerVars,
      requestVars, clientVars, finVars, settleVars
<1>1. ASSUME NEW n \in Node, PeerMatch(b, n)
      PROVE  IInv'
  <2>1. n # Origin[b]
    BY <1>1, Zenon DEF PeerMatch, IInv, TrackerInv, OriginNotAsked
  <2>2. \A c \in Bcast : /\ count'[c][Origin[c]] = count[c][Origin[c]]
                         /\ req'[c][Origin[c]] = req[c][Origin[c]]
    BY <1>1, <2>1 DEF PeerMatch, MatchOn, TypeOK
  <2> QED
    BY <1>1, <2>2, QuietInv DEF PeerMatch
<1>2. ASSUME NEW n \in Node, PeerReply(b, n)
      PROVE  IInv'
  <2>1. n # Origin[b]
    BY <1>2, Zenon DEF PeerReply, IInv, TrackerInv, OriginNotAsked
  <2>2. \A c \in Bcast : req'[c][Origin[c]] = req[c][Origin[c]]
    BY <1>2, <2>1, Zenon DEF PeerReply, TypeOK
  <2> QED
    BY <1>2, <2>2, QuietInv, Zenon DEF PeerReply
<1>3. ASSUME NEW n \in Node, RequestFails(b, n)
      PROVE  IInv'
  <2>1. \A c \in Bcast : req'[c][Origin[c]] = req[c][Origin[c]]
    <3>1. n = Origin[b] => req[b][n] = "none"
      BY DEF IInv, TrackerInv, OriginNotAsked
    <3>2. PICK r : /\ req' = [req EXCEPT ![b][n] = r]
                   /\ req[b][n] # "sent" => r = req[b][n]
      BY <1>3, ZenonT(60) DEF RequestFails
    <3> QED
      BY <3>1, <3>2, Zenon DEF TypeOK
  <2> QED
    BY <1>3, <2>1, QuietInv DEF RequestFails
<1>4. ASSUME NEW n \in Node, NEW s \in Socket, Send(b, n, s)
      PROVE  IInv'
  BY <1>4, QuietInv DEF Send
<1>5. CASE FinishRemove(b) \/ FinishCall(b) \/ SweepTake(b) \/ SweepTimeout(b)
  <2> SUFFICES ASSUME NEW c \in Bcast PROVE TrackerInv(c)'
    BY DEF IInv
  <2>1. TrackerInv(c) /\ TrackerInv(b)
    BY Zenon DEF IInv
  <2>2. UNCHANGED <<pc, count, req, expected, got>>
    BY <1>5 DEF FinishRemove, FinishCall, SweepTake, SweepTimeout
  <2>3. ASSUME SameTracker(c) PROVE TrackerInv(c)'
    BY <2>1, <2>2, <2>3, SameTrackerInv
  <2>4. CASE FinishRemove(b)
    <3>1. UNCHANGED <<done, sweep, settles, outcome, resolved>>
      BY <2>4, Zenon DEF FinishRemove
    <3>2. fin[b] = "remove" /\ fin'[b] = "call" /\ broadcasts' = broadcasts \ {b}
      BY <2>4 DEF FinishRemove, TypeOK
    <3>3. CASE c = b
      <4>1. DoneDecides(b)' /\ FreshWhenIdle(b)' /\ OriginNotAsked(b)'
        BY <2>1, <2>2, <3>1, <3>2, Zenon
        DEF TrackerInv, DoneDecides, FreshWhenIdle, OriginNotAsked
      <4>2. UnregisteredFirst(b)'
        BY <2>1, <2>2, <3>1, <3>2, Zenon DEF TrackerInv, UnregisteredFirst
      <4>3. LocalExpectedFirst(b)'
        BY <2>1, <2>2, <3>1, <3>2, Zenon DEF TrackerInv, LocalExpectedFirst
      <4> QED
        BY <3>3, <4>1, <4>2, <4>3 DEF TrackerInv
    <3>4. CASE c # b
      <4>1. fin'[c] = fin[c]
        BY <2>4, <3>4 DEF FinishRemove, TypeOK
      <4> QED
        BY <2>3, <3>1, <3>2, <4>1, Zenon DEF SameTracker
    <3> QED
      BY <3>3, <3>4
  <2>5. CASE FinishCall(b)
    <3>1. fin[b] = "call" /\ UNCHANGED <<done, sweep, broadcasts>>
      BY <2>5, Zenon DEF FinishCall
    <3>2. fin'[b] = "idle"
      BY <2>5 DEF FinishCall, TypeOK
    <3>3. CASE c = b
      <4>1. done[b] /\ settles[b] = 0 /\ outcome[b] = "none" /\ resolved[b] = 0
        BY <2>1, <3>1, Zenon DEF TrackerInv, DoneDecides
      <4>2. outcome'[b] = "ok"
        BY <2>5, <4>1, Zenon DEF FinishCall, Settle, TypeOK
      <4>3. settles'[b] = 1 /\ resolved'[b] = 1
        BY <2>5, <4>1 DEF FinishCall, Settle, TypeOK
      <4>4. DoneDecides(b)'
        <5>1. done'[b] /\ fin'[b] = "idle"
          BY <3>1, <3>2, <4>1, Zenon
        <5>2. settles'[b] = (IF done'[b] /\ fin'[b] = "idle" THEN 1 ELSE 0)
          BY <4>3, <5>1
        <5>3. resolved'[b] = (IF outcome'[b] = "ok" THEN 1 ELSE 0)
          BY <4>2, <4>3, Zenon
        <5>4. outcome'[b] # "none" /\ settles'[b] # 0
          BY <4>2, <4>3
        <5> QED
          BY <5>1, <5>2, <5>3, <5>4, Zenon DEF DoneDecides
      <4>5. OriginNotAsked(b)' /\ FreshWhenIdle(b)'
        BY <2>1, <2>2, <3>1, <4>1 DEF TrackerInv, OriginNotAsked, FreshWhenIdle
      <4>6. UnregisteredFirst(b)'
        BY <2>1, <2>2, <3>1, <3>2, Zenon DEF TrackerInv, UnregisteredFirst
      <4>7. LocalExpectedFirst(b)'
        BY <2>1, <2>2, <3>1, <3>2, Zenon DEF TrackerInv, LocalExpectedFirst
      <4> QED
        BY <3>3, <4>4, <4>5, <4>6, <4>7 DEF TrackerInv
    <3>4. CASE c # b
      <4>1. /\ fin'[c] = fin[c] /\ settles'[c] = settles[c]
            /\ resolved'[c] = resolved[c] /\ outcome'[c] = outcome[c]
        BY <2>5, <3>4 DEF FinishCall, Settle, TypeOK
      <4> QED
        BY <2>3, <3>1, <4>1, Zenon DEF SameTracker
    <3> QED
      BY <3>3, <3>4
  <2>6. CASE SweepTake(b)
    <3>1. UNCHANGED <<done, fin, settles, outcome, resolved>>
      BY <2>6, Zenon DEF SweepTake
    <3>2. b \in broadcasts /\ b \in Timed /\ broadcasts' = broadcasts \ {b}
      BY <2>6 DEF SweepTake
    <3>3. CASE c = b
      <4>1. DoneDecides(b)' /\ FreshWhenIdle(b)' /\ OriginNotAsked(b)'
        BY <2>1, <2>2, <3>1, <3>2, Zenon
        DEF TrackerInv, DoneDecides, FreshWhenIdle, OriginNotAsked
      <4>2. pc[b] # "idle"
        BY <2>1, <3>2, Zenon DEF TrackerInv, FreshWhenIdle
      <4>3. UnregisteredFirst(b)'
        BY <2>2, <3>2, <4>2, Zenon DEF UnregisteredFirst
      <4>4. LocalExpectedFirst(b)'
        BY <2>1, <2>2, <3>1, Zenon DEF TrackerInv, LocalExpectedFirst
      <4> QED
        BY <3>3, <4>1, <4>3, <4>4 DEF TrackerInv
    <3>4. CASE c # b
      <4>1. sweep'[Origin[c]] = c => sweep[Origin[c]] = c
        BY <2>6, <3>4 DEF SweepTake, TypeOK
      <4> QED
        BY <2>3, <3>1, <3>2, <4>1, Zenon DEF SameTracker
    <3> QED
      BY <3>3, <3>4
  <2>7. CASE SweepTimeout(b)
    <3>1. sweep[Origin[b]] = b /\ UNCHANGED <<fin, resolved, broadcasts>>
      BY <2>7, Zenon DEF SweepTimeout
    <3>2. sweep'[Origin[c]] = c => sweep[Origin[c]] = c
      BY <2>7 DEF SweepTimeout, TypeOK
    <3>3. CASE done[b] \/ c # b
      <4>1. done'[c] <=> done[c]
        BY <2>7, <3>3, Zenon DEF SweepTimeout, TypeOK
      <4>2. settles'[c] = settles[c] /\ outcome'[c] = outcome[c]
        BY <2>7, <3>3 DEF SweepTimeout, Settle, TypeOK
      <4> QED
        BY <2>3, <3>1, <3>2, <4>1, <4>2, Zenon DEF SameTracker
    <3>4. CASE ~done[b] /\ c = b
      <4>1. fin[b] = "idle" /\ settles[b] = 0 /\ outcome[b] = "none" /\ resolved[b] = 0
        BY <2>1, <3>4, Zenon DEF TrackerInv, DoneDecides
      <4>2. b \notin broadcasts /\ b \in Timed /\ pc[b] # "idle"
        BY <2>1, <3>1, Zenon DEF TrackerInv, UnregisteredFirst
      <4>3. done'[b]
        BY <2>7, Zenon DEF SweepTimeout, TypeOK
      <4>4. settles'[b] = 1 /\ outcome'[b] = "timeout"
        BY <2>7, <3>4, <4>1 DEF SweepTimeout, Settle, TypeOK
      <4>5. DoneDecides(b)'
        <5>1. done'[b] /\ fin'[b] = "idle"
          BY <3>1, <4>1, <4>3, Zenon
        <5>2. settles'[b] = (IF done'[b] /\ fin'[b] = "idle" THEN 1 ELSE 0)
          BY <4>4, <5>1, Zenon
        <5>3. resolved'[b] = (IF outcome'[b] = "ok" THEN 1 ELSE 0)
          BY <3>1, <4>1, <4>4, Zenon
        <5>4. outcome'[b] # "none" /\ settles'[b] # 0
          BY <4>4
        <5> QED
          BY <5>1, <5>2, <5>3, <5>4, Zenon DEF DoneDecides
      <4>6. OriginNotAsked(b)' /\ FreshWhenIdle(b)'
        BY <2>1, <2>2, <4>2, Zenon DEF TrackerInv, OriginNotAsked, FreshWhenIdle
      <4>7. UnregisteredFirst(b)'
        BY <2>2, <3>1, <4>2, Zenon DEF UnregisteredFirst
      <4>8. LocalExpectedFirst(b)'
        BY <2>1, <2>2, <3>1, <4>1, <4>4, Zenon DEF TrackerInv, LocalExpectedFirst
      <4> QED
        BY <3>4, <4>5, <4>6, <4>7, <4>8 DEF TrackerInv
    <3> QED
      BY <3>3, <3>4
  <2> QED
    BY <1>5, <2>4, <2>5, <2>6, <2>7
<1> QED
  BY <1>1, <1>2, <1>3, <1>4, <1>5, Zenon
  DEF Peer, Sending, Finishing, Sweeping

\* The steps of an acknowledgement preserve the invariant.
LEMMA AckInv ==
  ASSUME TypeOK, IInv,
         \/ \E s \in Socket, b \in Bcast : ClientAck(s, b)
         \/ \E a \in acks : AckArrives(a) \/ AckLost(a) \/ Accept(a)
  PROVE  IInv'
<1> USE BroadcastAckAssumption DEF emitVars, trackerVars,
      requestVars, clientVars, finVars, settleVars
<1>1. ASSUME NEW s \in Socket, NEW b \in Bcast, ClientAck(s, b)
      PROVE  IInv'
  BY <1>1, QuietInv, Zenon DEF ClientAck
<1>2. ASSUME NEW a \in acks, AckArrives(a) \/ AckLost(a)
      PROVE  IInv'
  BY <1>2, QuietInv, Zenon DEF AckArrives, AckLost
<1>3. ASSUME NEW a \in acks, Accept(a)
      PROVE  IInv'
  <2> SUFFICES ASSUME NEW c \in Bcast PROVE TrackerInv(c)'
    BY Zenon DEF IInv
  <2> DEFINE b == a.to
  <2>1. b \in Bcast
    BY Zenon DEF TypeOK, Ack
  <2>2. TrackerInv(c) /\ TrackerInv(b)
    BY <2>1, Zenon DEF IInv
  <2>3. count[b][Origin[b]] \in Nat
    BY <2>1 DEF TypeOK
  <2>4. CASE done[b]
    BY <1>3, <2>4, QuietInv, Zenon DEF Accept, IInv
  <2>5. CASE ~done[b]
    <3>1. UpdateTracker(b, expected[b], got[b] + 1, Complete(expected[b], got[b] + 1), FALSE)
      BY <1>3, <2>5, Zenon DEF Accept
    <3>2. UNCHANGED <<broadcasts, pc, count, req, sweep, settleVars>>
      BY <1>3, Zenon DEF Accept
    <3> HIDE DEF b
    <3>a. expected \in [Bcast -> Nat] /\ got \in [Bcast -> Nat]
      BY DEF TypeOK
    <3>3. expected[b] \in Nat /\ got[b] + 1 \in Nat
      BY <2>1, <3>a
    <3>4. outcome[b] = "none"
      BY <2>1, <2>2, <2>5 DEF TypeOK, TrackerInv, DoneDecides
    <3>5. \/ pc[b] \in {"idle", "match", "send"} /\ expected[b] = 0
          \/ pc[b] \notin {"idle", "match", "send"} /\ expected[b] >= count[b][Origin[b]]
      BY <2>2, <3>4, Zenon DEF TrackerInv, LocalExpectedFirst
    <3>6. IInv'
      BY <2>1, <2>5, <3>1, <3>2, <3>3, <3>5, UpdateStepInv, Zenon
    <3> QED
      BY <3>6 DEF IInv
  <2> QED
    BY <2>4, <2>5
<1> QED
  BY <1>1, <1>2, <1>3

\* Every step of the servers keeps the inductive invariant.
LEMMA NextInv ==
  ASSUME TypeOK, IInv, [Next]_vars
  PROVE  IInv'
<1>1. CASE UNCHANGED vars
  BY <1>1, QuietInv, Zenon
  DEF vars, emitVars, trackerVars, requestVars, clientVars, finVars, settleVars
<1> QED
  BY <1>1, EmitterInv, ServerInv, AckInv, Zenon DEF Next

\* The inductive invariant holds in every reachable state.
THEOREM InvCorrect == Spec => []IInv
BY InitInv, NextInv, TypeCorrect, PTL DEF Spec

\* The callback's handler is invoked at most once, by whoever set done first
\* among emitWithAck, the acknowledgements and the sweeper, and a success is
\* counted in sio_acks_resolved_total exactly once.
THEOREM SettledOnce == Spec => []SettledAtMostOnce
<1>1. IInv => SettledAtMostOnce
  <2> SUFFICES ASSUME IInv, NEW b \in Bcast
               PROVE  /\ settles[b] <= 1
                      /\ resolved[b] = (IF outcome[b] = "ok" THEN 1 ELSE 0)
    BY DEF SettledAtMostOnce
  <2>1. DoneDecides(b)
    BY DEF IInv, TrackerInv
  <2>2. settles[b] \in {0, 1}
    BY <2>1 DEF DoneDecides
  <2> QED
    BY <2>1, <2>2 DEF DoneDecides
<1> QED
  BY <1>1, InvCorrect, PTL

\* A tracker whose callback has run is no longer registered on its node.
THEOREM TrackersGo == Spec => []SettledTrackersAreGone
<1>1. IInv => SettledTrackersAreGone
  BY DEF IInv, TrackerInv, UnregisteredFirst, SettledTrackersAreGone
<1> QED
  BY <1>1, InvCorrect, PTL

\* A broadcast succeeds only with as many acknowledgements as it has recipients
\* on the origin node.
THEOREM LocalCovered == Spec => []SuccessCoversLocal
<1>1. TypeOK /\ IInv => SuccessCoversLocal
  <2> SUFFICES ASSUME TypeOK, IInv, NEW b \in Bcast, outcome[b] = "ok"
               PROVE  got[b] >= count[b][Origin[b]]
    BY Zenon DEF SuccessCoversLocal
  <2>1. got[b] >= expected[b] /\ expected[b] >= count[b][Origin[b]]
    BY Zenon DEF IInv, TrackerInv, LocalExpectedFirst
  <2>2. count[b][Origin[b]] \in Nat
    BY LocalCountIsNat
  <2> QED
    BY <2>1, <2>2 DEF TypeOK
<1> QED
  BY <1>1, TypeCorrect, InvCorrect, PTL
-----------------------------------------------------------------------------
(* Refinement of the promise made to the caller.                           *)

\* A step that neither creates a tracker nor settles one is a stutter.
LEMMA QuietPhase ==
  ASSUME TypeOK, UNCHANGED outcome,
         \A c \in Bcast : pc[c] = "idle" <=> pc'[c] = "idle"
  PROVE  UNCHANGED Phases
BY DEF PhaseOf, Phases

\* A step that changes the phase of one broadcast only.
LEMMA OnePhase ==
  ASSUME NEW b \in Bcast, NEW p,
         \A c \in Bcast : PhaseOf(c)' = IF c = b THEN p ELSE PhaseOf(c)
  PROVE  Phases' = [Phases EXCEPT ![b] = p]
BY ZenonT(60) DEF Phases

\* newBroadcastAck begins the promise; every other step of emitWithAck is
\* invisible to the caller.
LEMMA EmitterPhase ==
  ASSUME TypeOK, IInv, NEW b \in Bcast, Emitter(b)
  PROVE  Promise!Emit(b) \/ UNCHANGED Phases
<1> USE DEF Goto, EmitterAt, settleVars
<1>1. CASE NewBroadcastAck(b)
  <2>1. PhaseOf(b) = "new"
    BY <1>1, Zenon DEF NewBroadcastAck, PhaseOf
  <2>2. outcome[b] = "none" /\ UNCHANGED outcome
    BY <1>1, Zenon DEF NewBroadcastAck, IInv, TrackerInv, FreshWhenIdle, DoneDecides
  <2>3. \A c \in Bcast : PhaseOf(c)' = IF c = b THEN "pending" ELSE PhaseOf(c)
    BY <1>1, <2>2, Zenon DEF NewBroadcastAck, PhaseOf, TypeOK
  <2> QED
    BY <2>1, <2>3, OnePhase, Zenon DEF Promise!Emit, Phases
<1>2. CASE LocalMatch(b)
  BY <1>2, QuietPhase, Zenon DEF LocalMatch, TypeOK
<1>3. CASE AddExpectedLocal(b)
  BY <1>3, QuietPhase, Zenon DEF AddExpectedLocal, TypeOK
<1>4. CASE PostToPeers(b)
  BY <1>4, QuietPhase, Zenon DEF PostToPeers, TypeOK
<1>5. CASE GetTracker(b)
  BY <1>5, QuietPhase, Zenon DEF GetTracker, TypeOK
<1>6. CASE CollectEnd(b)
  BY <1>6, QuietPhase, Zenon DEF CollectEnd, TypeOK
<1>7. CASE MaybeFinish(b)
  BY <1>7, QuietPhase DEF MaybeFinish, TypeOK
<1>8. ASSUME NEW n \in Node, AddExpectedRemote(b, n)
      PROVE  UNCHANGED Phases
  BY <1>8, QuietPhase DEF AddExpectedRemote, emitVars
<1> QED
  BY <1>1, <1>2, <1>3, <1>4, <1>5, <1>6, <1>7, <1>8 DEF Emitter

\* The goroutine that set done resolves the promise, the sweeper expires it
\* when it was the one to set done.
LEMMA ServerPhase ==
  ASSUME TypeOK, IInv, NEW b \in Bcast,
         Peer(b) \/ Sending(b) \/ Finishing(b) \/ Sweeping(b)
  PROVE  \/ Promise!Resolve(b) \/ Promise!Expire(b)
         \/ UNCHANGED Phases
<1> USE DEF emitVars, settleVars
<1>1. CASE Peer(b) \/ Sending(b) \/ FinishRemove(b) \/ SweepTake(b)
  BY <1>1, QuietPhase, Zenon
  DEF Peer, PeerMatch, PeerReply, RequestFails, Sending, Send, FinishRemove, SweepTake
<1>2. CASE FinishCall(b)
  <2>1. pc[b] # "idle" /\ outcome[b] = "none"
    BY <1>2 DEF FinishCall, TypeOK, IInv, TrackerInv, LocalExpectedFirst, DoneDecides
  <2>2. UNCHANGED pc /\ outcome' = [outcome EXCEPT ![b] = "ok"]
    BY <1>2, <2>1, Zenon DEF FinishCall, Settle
  <2>3. \A c \in Bcast : PhaseOf(c)' = IF c = b THEN "ok" ELSE PhaseOf(c)
    BY <2>1, <2>2, Zenon DEF PhaseOf, TypeOK
  <2>4. PhaseOf(b) = "pending"
    BY <2>1 DEF PhaseOf
  <2> QED
    BY <2>3, <2>4, OnePhase, Zenon DEF Promise!Resolve, Phases
<1>3. CASE SweepTimeout(b)
  <2>1. CASE done[b]
    BY <1>3, <2>1, QuietPhase, Zenon DEF SweepTimeout
  <2>2. CASE ~done[b]
    <3>1. pc[b] # "idle" /\ outcome[b] = "none" /\ b \in Timed
      BY <1>3, <2>2, Zenon
      DEF SweepTimeout, TypeOK, IInv, TrackerInv, UnregisteredFirst, DoneDecides
    <3>2. Settle(b, "timeout") /\ UNCHANGED pc
      BY <1>3, <2>2, Zenon DEF SweepTimeout
    <3>3. \A c \in Bcast : PhaseOf(c)' = IF c = b THEN "timeout" ELSE PhaseOf(c)
      BY <3>1, <3>2, Zenon DEF Settle, PhaseOf, TypeOK
    <3>4. PhaseOf(b) = "pending"
      BY <3>1 DEF PhaseOf
    <3> QED
      BY <3>1, <3>3, <3>4, OnePhase DEF Promise!Expire, Phases
  <2> QED
    BY <2>1, <2>2, Zenon
<1> QED
  BY <1>1, <1>2, <1>3 DEF Finishing, Sweeping

\* The acknowledged broadcasts implement the safety part of AckPromise: every
\* step of the goroutines of the cluster is a step of the promise or invisible
\* to the caller.
THEOREM PromiseImplemented == Spec => PromiseSafety
<1>1. Init => Promise!Init
  BY DEF Init, Promise!Init, PhaseOf, Phases
<1>2. TypeOK /\ IInv /\ [Next]_vars => [Promise!Next]_Phases
  <2> SUFFICES ASSUME TypeOK, IInv, [Next]_vars
               PROVE  Promise!Next \/ UNCHANGED Phases
    OBVIOUS
  <2>1. CASE UNCHANGED vars
    BY <2>1, QuietPhase DEF vars, emitVars, settleVars
  <2>2. ASSUME NEW b \in Bcast,
               Emitter(b) \/ Peer(b) \/ Sending(b) \/ Finishing(b) \/ Sweeping(b)
        PROVE  Promise!Next \/ UNCHANGED Phases
    BY <2>2, EmitterPhase, ServerPhase, Zenon DEF Promise!Next
  <2>3. ASSUME NEW s \in Socket, NEW b \in Bcast, ClientAck(s, b)
        PROVE  UNCHANGED Phases
    BY <2>3, QuietPhase DEF ClientAck, emitVars, settleVars
  <2>4. ASSUME NEW a \in acks, AckArrives(a) \/ AckLost(a) \/ Accept(a)
        PROVE  UNCHANGED Phases
    BY <2>4, QuietPhase, Zenon DEF AckArrives, AckLost, Accept, emitVars, settleVars
  <2> QED
    BY <2>1, <2>2, <2>3, <2>4 DEF Next
<1> QED
  BY <1>1, <1>2, TypeCorrect, InvCorrect, PTL DEF Spec, PromiseSafety, Promise!Safety
=============================================================================
