-------------------------- MODULE ReceivingProofs --------------------------
(***************************************************************************)
(* Machine-checked proofs about what the client sends, for every stream of  *)
(* packets and set of calls.                                               *)
(*                                                                         *)
(* Receiving: the messages are handled in their order, a packet waits for   *)
(* the next of them or for none (ConnReads). So nothing of a client that    *)
(* keeps to the protocol is refused, the attachments of a packet are freed  *)
(* once, and events are dispatched in order, each once and with its bytes.  *)
(*                                                                         *)
(* SocketAck, the ack store that an answer is taken from: a handler is never *)
(* with the store, the sweeper and an answer at once, the metrics add up,   *)
(* and no callback is told of a timeout before it has passed or once its    *)
(* answer has been taken.                                                  *)
(***************************************************************************)
EXTENDS Receiving, SocketAck, FiniteSetTheorems, TLAPS

\* The places in the stream, and the attachments 1 to n of packet i
Place == Message \cup {Over}
Parts(i, n) == [k \in 1 .. n |-> <<i, k>>]

\* A place is a message or the end of the stream.
LEMMA PlaceIs ==
  ASSUME NEW m \in Place
  PROVE  /\ m = <<m[1], m[2]>> /\ m[1] \in Nat /\ m[2] \in Nat
         /\ \/ m[1] \in Packet /\ m[2] \in 0 .. Stream[m[1]].atts
            \/ m[1] = Len(Stream) + 1 /\ m[2] = 0
BY DEF Place, Message, Over, Packet

\* The messages of a packet are places.
LEMMA IsPlace ==
  ASSUME NEW i \in Packet, NEW k \in 0 .. Stream[i].atts
  PROVE  <<i, k>> \in Place
BY DEF Place, Message

\* So is the end of the stream.
LEMMA EndIsPlace == <<Len(Stream) + 1, 0>> \in Place
BY DEF Place, Over

\* What follows a place that precedes another is not behind that one.
LEMMA AfterPlace ==
  ASSUME NEW m \in Place, NEW n \in Place, Precedes(m, n)
  PROVE  /\ m[1] \in Packet /\ m[2] \in 0 .. Stream[m[1]].atts
         /\ After(m) \in Place
         /\ After(m) = n \/ Precedes(After(m), n)
<1>1. m = <<m[1], m[2]>> /\ n = <<n[1], n[2]>> /\ m[1] \in Nat /\ m[2] \in Nat /\ n[1] \in Nat /\ n[2] \in Nat
  BY PlaceIs
<1>2. m[1] \in Packet /\ m[2] \in 0 .. Stream[m[1]].atts
  BY PlaceIs DEF Precedes, Packet
<1>3. CASE m[2] < Stream[m[1]].atts
  <2>1. After(m) = <<m[1], m[2] + 1>>
    BY <1>3 DEF After
  <2>2. m[2] + 1 \in 0 .. Stream[m[1]].atts
    BY <1>2, <1>3, ReceivingAssumption
  <2> QED
    BY <1>1, <1>2, <2>1, <2>2, IsPlace DEF Precedes
<1>4. CASE ~(m[2] < Stream[m[1]].atts)
  <2>1. After(m) = <<m[1] + 1, 0>>
    BY <1>4 DEF After
  <2>2. m[1] < n[1]
    BY <1>1, <1>2, <1>4, PlaceIs, ReceivingAssumption DEF Precedes, Packet
  <2>3. <<m[1] + 1, 0>> \in Place
    <3>1. m[1] + 1 \in Packet \/ m[1] + 1 = Len(Stream) + 1
      BY <1>2 DEF Packet
    <3>2. m[1] + 1 \in Packet => 0 \in 0 .. Stream[m[1] + 1].atts
      BY ReceivingAssumption
    <3> QED
      BY <3>1, <3>2, IsPlace, EndIsPlace
  <2> QED
    BY <1>1, <1>2, <2>1, <2>2, <2>3 DEF Precedes
<1> QED
  BY <1>2, <1>3, <1>4

\* There are n of the first n attachments.
LEMMA PartsLength ==
  ASSUME NEW i, NEW n \in Nat
  PROVE  Len(Parts(i, n)) = n /\ Parts(i, 0) = <<>>
BY DEF Parts

\* A packet is never taken for no packet.
LEMMA SomePacket ==
  ASSUME NEW i \in Packet, NEW n \in 0 .. Stream[i].atts
  PROVE  [packet |-> i, parts |-> Parts(i, n)] # None
<1>1. \A k \in 1 .. n : <<i, k>> \in Message
  BY ReceivingAssumption DEF Message
<1>2. Parts(i, n) \in Seq(Message)
  BY <1>1 DEF Parts
<1> QED
  BY <1>2, ReceivingAssumption

\* Nothing is handled before it is sent.
ConnTypes ==
  /\ sent \in Place /\ handled \in Place
  /\ handled = sent \/ Precedes(handled, sent)

\* A pending packet has the attachments before the message that comes next, a
\* packet that is dispatched has all of them; and the message that comes next is
\* an attachment only if a packet waits for it, or the connection is closed, or
\* it was given up.
ConnWaiting ==
  /\ pending # None =>
       /\ handled[2] # 0 /\ current = None
       /\ pending = [packet |-> handled[1], parts |-> Parts(handled[1], handled[2] - 1)]
  /\ current # None =>
       /\ handled # sent /\ pending = None
       /\ handled[2] = Stream[handled[1]].atts
       /\ current = [packet |-> handled[1], parts |-> Parts(handled[1], handled[2])]
  /\ pending = None /\ current = None /\ handled[2] # 0 =>
       Closed \/ (stopped /\ handled = sent)

ConnReads == ConnTypes /\ ConnWaiting

\* Nothing is sent or pending.
LEMMA InitReads ==
  Init => ConnReads
<1>1. <<1, 0>> \in Place
  <2>1. 1 \in Packet \/ 1 = Len(Stream) + 1
    BY DEF Packet
  <2>2. 1 \in Packet => 0 \in 0 .. Stream[1].atts
    BY ReceivingAssumption
  <2> QED
    BY <2>1, <2>2, IsPlace, EndIsPlace
<1> QED
  BY <1>1 DEF Init, ConnReads, ConnTypes, ConnWaiting

\* The handler or the read loop has a message.
LEMMA HandlingIs ==
  ASSUME ConnReads, handled # sent
  PROVE  /\ handled[1] \in Packet /\ handled[2] \in 0 .. Stream[handled[1]].atts
         /\ handled = <<handled[1], handled[2]>>
         /\ After(handled) \in Place
         /\ After(handled) = sent \/ Precedes(After(handled), sent)
BY AfterPlace, PlaceIs DEF ConnReads, ConnTypes

\* Precedes is transitive on places.
LEMMA PrecedesTransitive ==
  ASSUME NEW l \in Place, NEW m \in Place, NEW n \in Place,
         Precedes(l, m), Precedes(m, n)
  PROVE  Precedes(l, n)
<1>1. /\ l[1] \in Nat /\ l[2] \in Nat /\ m[1] \in Nat /\ m[2] \in Nat
      /\ n[1] \in Nat /\ n[2] \in Nat
  BY PlaceIs
<1> QED
  BY <1>1 DEF Precedes

\* A message is followed by a later place.
LEMMA AfterIsLater ==
  ASSUME NEW m \in Place, m # Over
  PROVE  After(m) \in Place /\ Precedes(m, After(m))
<1>1. m = <<m[1], m[2]>> /\ m[1] \in Nat /\ m[2] \in Nat
  BY PlaceIs
<1>2. Precedes(m, Over)
  BY <1>1, PlaceIs DEF Over, Precedes, Packet
<1>3. After(m) \in Place
  BY <1>2, AfterPlace DEF Place
<1>4. Precedes(m, After(m))
  BY <1>1 DEF Precedes, After
<1> QED
  BY <1>3, <1>4

\* The client's steps: what is sent is behind what was sent.
LEMMA ClientReads ==
  ASSUME ConnReads, Client
  PROVE  ConnReads' /\ UNCHANGED handled
<1> USE DEF ConnReads
<1>1. ASSUME sent' \in Place, Precedes(sent, sent'), ~stopped,
             UNCHANGED <<handled, stopped, pending, current, closing>>
      PROVE  ConnReads'
  <2>1. Precedes(handled, sent') /\ ConnTypes'
    BY <1>1, PrecedesTransitive DEF ConnTypes
  <2>2. handled # sent'
    BY <1>1, <2>1, PlaceIs DEF Precedes, ConnTypes
  <2> QED
    BY <1>1, <2>1, <2>2 DEF ConnWaiting, Closed
<1>2. ASSUME NEW m \in Place, Post(m)
      PROVE  ConnReads' /\ UNCHANGED handled
  BY <1>1, <1>2 DEF Post
<1>3. CASE SendMessage
  <2>1. After(sent) \in Place /\ Precedes(sent, After(sent))
    BY <1>3, AfterIsLater DEF SendMessage, ConnTypes
  <2> QED
    BY <1>1, <1>3, <2>1 DEF SendMessage, readVars
<1>4. CASE PostUnknown \/ Upgrade
  BY <1>4 DEF PostUnknown, Upgrade, readVars, ConnTypes, ConnWaiting, Closed
<1> QED
  BY <1>2, <1>3, <1>4 DEF Client, Place

\* The text of a packet is handled.
LEMMA TextReads ==
  ASSUME ConnReads, NEW i \in Packet,
         HandleText(i) \/ HandleHeader(i)
  PROVE  ConnReads'
<1> USE DEF ConnReads
<1>1. /\ handled # sent /\ current = None /\ handled = <<i, 0>>
      /\ UNCHANGED <<sent, stopped, closing>>
  BY DEF HandleText, HandleHeader, Handling, clientVars
<1>2. /\ After(handled) \in Place
      /\ After(handled) = sent \/ Precedes(After(handled), sent)
  BY <1>1, HandlingIs
<1>3. pending = None
  BY <1>1 DEF ConnWaiting
<1>4. CASE HandleText(i)
  <2>1. /\ Stream[i].atts = 0 /\ UNCHANGED <<handled, pending>>
        /\ current' = [packet |-> i, parts |-> Parts(i, 0)]
    BY <1>4, PartsLength DEF HandleText
  <2> QED
    BY <1>1, <1>3, <2>1 DEF ConnTypes, ConnWaiting
<1>5. CASE HandleHeader(i)
  <2>1. /\ Stream[i].atts > 0 /\ handled' = After(handled) /\ current' = None
        /\ pending' = [packet |-> i, parts |-> Parts(i, 0)]
    BY <1>1, <1>5, PartsLength DEF HandleHeader
  <2>2. handled' = <<i, 1>>
    BY <1>1, <2>1 DEF After
  <2>3. pending' # None
    BY <2>1, ReceivingAssumption, SomePacket
  <2> QED
    BY <1>1, <1>2, <2>1, <2>2, <2>3 DEF ConnTypes, ConnWaiting
<1> QED
  BY <1>4, <1>5

\* An attachment is handled.
LEMMA AttachmentReads ==
  ASSUME ConnReads, NEW i \in Packet,
         NEW n \in 0 .. Stream[i].atts, HandleAttachment(i, n)
  PROVE  ConnReads'
<1> USE DEF ConnReads
<1>1. /\ handled # sent /\ current = None /\ handled = <<i, n>> /\ n > 0 /\ pending # None
      /\ UNCHANGED <<sent, stopped, closing>>
  BY DEF HandleAttachment, Handling, clientVars
<1>2. /\ After(handled) \in Place
      /\ After(handled) = sent \/ Precedes(After(handled), sent)
  BY <1>1, HandlingIs
<1>3. pending = [packet |-> i, parts |-> Parts(i, n - 1)]
  BY <1>1 DEF ConnWaiting
<1>4. n - 1 \in Nat /\ n = (n - 1) + 1
  BY <1>1
<1>5. Append(pending.parts, <<i, n>>) = Parts(i, n) /\ Len(Parts(i, n)) = n
  <2>1. ASSUME NEW m \in Nat, n = m + 1
        PROVE  Append(Parts(i, m), <<i, n>>) = Parts(i, n) /\ Len(Parts(i, n)) = n
    <3>1. Append(Parts(i, m), <<i, m + 1>>) = Parts(i, m + 1)
      BY DEF Parts
    <3>2. n \in Nat => Len(Parts(i, n)) = n
      BY PartsLength
    <3> QED
      BY <2>1, <3>1, <3>2
  <2>2. pending.parts = Parts(i, n - 1)
    BY <1>3
  <2> QED
    BY <1>4, <2>1, <2>2
<1>6. [pending EXCEPT !.parts = Parts(i, n)] = [packet |-> i, parts |-> Parts(i, n)]
  BY <1>3
<1>7. [packet |-> i, parts |-> Parts(i, n)] # None
  BY SomePacket
<1>8. CASE n = Stream[i].atts
  <2>1. /\ pending' = None /\ handled' = handled
        /\ current' = [packet |-> i, parts |-> Parts(i, n)]
    BY <1>3, <1>5, <1>6, <1>8, Zenon DEF HandleAttachment
  <2> QED
    BY <1>1, <1>7, <1>8, <2>1, Zenon DEF ConnTypes, ConnWaiting
<1>9. CASE n # Stream[i].atts
  <2>1. /\ pending' = [packet |-> i, parts |-> Parts(i, n)] /\ current' = None
        /\ handled' = After(handled)
    BY <1>3, <1>5, <1>6, <1>9, Zenon DEF HandleAttachment
  <2>2. handled' = <<i, n + 1>>
    BY <1>1, <1>9, <2>1, ReceivingAssumption DEF After
  <2>3. n + 1 # 0 /\ n + 1 - 1 = n
    OBVIOUS
  <2> QED
    BY <1>1, <1>2, <1>7, <2>1, <2>2, <2>3 DEF ConnTypes, ConnWaiting
<1> QED
  BY <1>8, <1>9

\* Attachments of the pending packet leave the place within it.
LEMMA AttachmentPacket ==
  ASSUME ConnReads, NEW i \in Packet,
         NEW n \in 0 .. Stream[i].atts, HandleAttachment(i, n)
  PROVE  handled'[1] = handled[1]
<1>1. handled = <<i, n>> /\ pending # None
  BY DEF HandleAttachment, Handling
<1>2. pending.packet = i /\ pending.parts = Parts(i, n - 1) /\ n # 0
  BY <1>1 DEF ConnReads, ConnWaiting
<1>3. Len(Append(pending.parts, <<i, n>>)) = n
  BY <1>2 DEF Parts
<1>4. handled' = handled \/ (handled' = After(handled) /\ n # Stream[i].atts)
  BY <1>2, <1>3, Zenon DEF HandleAttachment
<1> QED
  BY <1>1, <1>4, ReceivingAssumption DEF After

\* A packet is dispatched, and the message that completed it is handled.
LEMMA DispatchReads ==
  ASSUME ConnReads, DispatchConnect \/ DispatchEvent
  PROVE  ConnReads'
<1> USE DEF ConnReads
<1>1. /\ current # None /\ current' = None /\ handled' = After(handled)
      /\ UNCHANGED <<sent, stopped, closing, pending>>
  BY Zenon DEF DispatchConnect, DispatchEvent, clientVars
<1>2. /\ handled # sent /\ pending = None /\ handled[2] = Stream[handled[1]].atts
  BY <1>1 DEF ConnWaiting
<1>3. /\ After(handled) \in Place /\ handled[2] \in Nat
      /\ After(handled) = sent \/ Precedes(After(handled), sent)
  BY <1>2, HandlingIs
<1>4. handled'[2] = 0
  BY <1>1, <1>2, <1>3 DEF After
<1> QED
  BY <1>1, <1>2, <1>3, <1>4, Zenon DEF ConnTypes, ConnWaiting

\* A message is refused: what was sent is given up.
LEMMA RefuseReads ==
  ASSUME ConnReads,
         (\E i \in Packet : \E n \in 0 .. Stream[i].atts : HandleMisplaced(i, n))
           \/ DispatchRefused
  PROVE  ConnReads' /\ pending = None /\ UNCHANGED <<sent, pending>> /\ current' = None
<1> USE DEF ConnReads
<1>1. handled' = sent /\ stopped' = TRUE /\ UNCHANGED <<sent, pending>> /\ current' = None
  BY DEF HandleMisplaced, DispatchRefused, Refuse, Handling
<1>2. pending = None
  BY DEF HandleMisplaced, DispatchRefused, Handling, ConnWaiting
<1> QED
  BY <1>1, <1>2 DEF ConnTypes, ConnWaiting

\* Every step keeps to the order of the messages.
LEMMA StepReads ==
  ASSUME ConnReads, [Next]_vars
  PROVE  ConnReads'
<1>1. CASE \/ PostDone \/ Reuse \/ CloseBegin \/ CloseSockets
           \/ CloseForget \/ UNCHANGED vars
           \/ \E i \in Packet : Kick(Stream[i].nsp)
  BY <1>1, Zenon DEF PostDone, Reuse, CloseBegin, CloseSockets, CloseForget,
     Kick, vars, clientVars, readVars, Closed, ConnReads, ConnTypes,
     ConnWaiting
<1>2. CASE ClosePending
  BY <1>2 DEF ClosePending, clientVars, Closed, ConnReads, ConnTypes, ConnWaiting
<1> QED
  BY <1>1, <1>2, ClientReads, TextReads, AttachmentReads, DispatchReads, RefuseReads
  DEF Next, HandleMessage, Close

-----------------------------------------------------------------------------
\* The packets that are still to be released: those to come, and the one that is
\* pending or dispatched
Unreleased(i) ==
  \/ i > handled[1]
  \/ i = handled[1] /\ (handled[2] = 0 \/ pending # None \/ current # None)

ConnFreed ==
  /\ freed \in [Packet -> 0 .. 1]
  /\ \A i \in Packet : Unreleased(i) => freed[i] = 0

\* Nothing is released at first.
LEMMA InitFreed == Init => ConnFreed
BY DEF Init, ConnFreed

\* A dispatched packet is released once.
LEMMA ReleasedOnce ==
  ASSUME ConnReads, ConnFreed, current # None
  PROVE  /\ handled[1] \in Packet /\ handled[1] = current.packet
         /\ Released \in [Packet -> 0 .. 1]
         /\ \A i \in Packet : i # handled[1] => Released[i] = freed[i]
<1>1. handled # sent /\ current.packet = handled[1]
  BY DEF ConnReads, ConnWaiting
<1>2. handled[1] \in Packet
  BY <1>1, HandlingIs
<1>3. freed[handled[1]] = 0
  BY <1>2 DEF ConnFreed, Unreleased
<1> QED
  BY <1>1, <1>2, <1>3 DEF ConnFreed, Released

\* What was sent and is given up is not released again.
LEMMA RefuseFreed ==
  ASSUME ConnReads, ConnFreed, handled # sent, handled' = sent,
         pending' = None, current' = None, freed' \in [Packet -> 0 .. 1],
         \A i \in Packet : i # handled[1] => freed'[i] = freed[i]
  PROVE  ConnFreed'
<1>1. handled[1] < sent[1] \/ (handled[1] = sent[1] /\ sent[2] # 0)
  BY PlaceIs DEF ConnReads, ConnTypes, Precedes
<1>2. handled[1] \in Nat /\ sent[1] \in Nat
  BY PlaceIs DEF ConnReads, ConnTypes
<1>3. ASSUME NEW i \in Packet, Unreleased(i)'
      PROVE  i > handled[1]
  BY <1>1, <1>2, <1>3 DEF Unreleased, Packet
<1> QED
  BY <1>2, <1>3 DEF ConnFreed, Unreleased, Packet

\* Every step releases what is pending or dispatched, and then forgets it.
LEMMA StepFreed ==
  ASSUME ConnReads, ConnFreed, [Next]_vars
  PROVE  ConnFreed'
<1>1. CASE UNCHANGED <<freed, handled, pending, current>>
  BY <1>1 DEF ConnFreed, Unreleased
<1>2. ASSUME NEW i \in Packet, HandleText(i) \/ HandleHeader(i)
      PROVE  ConnFreed'
  <2>1. handled = <<i, 0>> /\ UNCHANGED freed /\ handled'[1] = i
    BY <1>2 DEF HandleText, HandleHeader, Handling, After
  <2> QED
    BY <2>1 DEF ConnFreed, Unreleased
<1>3. ASSUME NEW i \in Packet, NEW n \in 0 .. Stream[i].atts, HandleAttachment(i, n)
      PROVE  ConnFreed'
  <2>1. UNCHANGED freed /\ pending # None
    BY <1>3 DEF HandleAttachment
  <2> QED
    BY <1>3, <2>1, AttachmentPacket DEF ConnFreed, Unreleased
<1>4. CASE DispatchConnect \/ DispatchEvent
  <2>1. /\ current # None /\ handled' = After(handled) /\ freed' = Released
    BY <1>4, Zenon DEF DispatchConnect, DispatchEvent
  <2>2. handled # sent /\ handled[2] = Stream[handled[1]].atts
    BY <2>1 DEF ConnReads, ConnWaiting
  <2>3. handled[1] \in Nat /\ handled[2] \in Nat
    BY PlaceIs DEF ConnReads, ConnTypes
  <2>4. handled' = <<handled[1] + 1, 0>>
    BY <2>1, <2>2, <2>3 DEF After
  <2>5. \A i \in Packet : Unreleased(i)' => i > handled[1]
    BY <2>3, <2>4 DEF Unreleased, Packet
  <2> QED
    BY <2>1, <2>3, <2>5, ReleasedOnce DEF ConnFreed, Unreleased, Packet
<1>5. ASSUME NEW i \in Packet, NEW n \in 0 .. Stream[i].atts, HandleMisplaced(i, n)
      PROVE  ConnFreed'
  <2>1. handled # sent /\ handled' = sent /\ UNCHANGED freed
    BY <1>5, Zenon DEF HandleMisplaced, Handling, Refuse
  <2> QED
    BY <1>5, <2>1, RefuseReads, RefuseFreed DEF ConnFreed
<1>6. CASE DispatchRefused
  <2>1. handled' = sent /\ current # None /\ freed' = Released
    BY <1>6 DEF DispatchRefused, Refuse
  <2>2. handled # sent
    BY <2>1 DEF ConnReads, ConnWaiting
  <2> QED
    BY <1>6, <2>1, <2>2, RefuseReads, RefuseFreed, ReleasedOnce, Zenon
<1>7. CASE ClosePending
  <2>1. pending' = None /\ UNCHANGED <<handled, current>>
    BY <1>7 DEF ClosePending
  <2>2. CASE pending = None
    BY <1>7, <2>1, <2>2 DEF ClosePending, ConnFreed, Unreleased
  <2>3. CASE pending # None
    <3>1. handled[2] # 0 /\ current = None /\ pending.packet = handled[1]
      BY <2>3 DEF ConnReads, ConnWaiting
    <3>2. handled[1] \in Packet
      BY <3>1, PlaceIs DEF ConnReads, ConnTypes
    <3>3. freed[handled[1]] = 0
      BY <2>3, <3>2 DEF ConnFreed, Unreleased
    <3>4. freed' = [freed EXCEPT ![handled[1]] = freed[handled[1]] + 1]
      BY <1>7, <2>3, <3>1 DEF ClosePending
    <3> QED
      BY <2>1, <3>1, <3>2, <3>3, <3>4 DEF ConnFreed, Unreleased, Packet
  <2> QED
    BY <2>2, <2>3
<1>8. CASE \/ PostDone \/ Reuse \/ CloseBegin \/ CloseSockets
           \/ CloseForget \/ UNCHANGED vars \/ Client
           \/ \E i \in Packet : Kick(Stream[i].nsp)
  <2>1. UNCHANGED <<freed, handled, pending, current>>
    BY <1>8 DEF PostDone, Reuse, CloseBegin, CloseSockets, CloseForget,
       Kick, Client, Post, PostUnknown, Upgrade, SendMessage,
       vars, readVars
  <2> QED
    BY <1>1, <2>1, Zenon
<1> QED
  BY <1>2, <1>3, <1>4, <1>5, <1>6, <1>7, <1>8 DEF Next, HandleMessage, Close

\* The memory of the attachments of a packet is released once at most
\* (FreedOnce), by handleBinaryAttachment or by close.
THEOREM AttachmentsFreedOnce ==
  Spec => []FreedOnce
<1>1. Init => ConnReads /\ ConnFreed
  BY InitReads, InitFreed
<1>2. ConnReads /\ ConnFreed /\ [Next]_vars => ConnReads' /\ ConnFreed'
  BY StepReads, StepFreed
<1>3. ConnReads /\ ConnFreed => FreedOnce
  BY DEF ConnFreed, FreedOnce
<1> QED
  BY <1>1, <1>2, <1>3, PTL DEF Spec

-----------------------------------------------------------------------------
\* While the connection is open and the application disconnects nobody, the
\* client is in every namespace whose CONNECT was handled.
ConnJoined ==
  \/ Closed \/ "kick" \in mode \/ (stopped /\ handled = sent)
  \/ \A p \in Packet :
       p < handled[1] /\ Stream[p].kind = "connect" => Stream[p].nsp \in joined

\* Behind a packet that is dispatched comes the text of the next one.
LEMMA EventPlace ==
  ASSUME ConnReads, DispatchConnect \/ DispatchEvent
  PROVE  handled[1] \in Packet /\ handled' = <<handled[1] + 1, 0>>
<1>1. current # None /\ handled' = After(handled)
  BY Zenon DEF DispatchConnect, DispatchEvent
<1>2. handled # sent /\ handled[2] = Stream[handled[1]].atts
  BY <1>1 DEF ConnReads, ConnWaiting
<1>3. handled[1] \in Packet /\ handled[2] \in Nat
  BY <1>2, HandlingIs
<1> QED
  BY <1>1, <1>2, <1>3 DEF After

\* What is handled next does not go back behind a packet, and goes beyond one
\* when it is dispatched or given up.
LEMMA StepHandled ==
  ASSUME ConnReads, [Next]_vars
  PROVE  \/ handled'[1] = handled[1]
         \/ /\ DispatchConnect \/ DispatchEvent
            /\ handled[1] \in Packet /\ handled' = <<handled[1] + 1, 0>>
         \/ stopped' /\ handled' = sent /\ sent' = sent
<1>1. ASSUME NEW i \in Packet, HandleText(i) \/ HandleHeader(i)
      PROVE  handled'[1] = handled[1]
  BY <1>1 DEF HandleText, HandleHeader, Handling, After
<1>2. ASSUME \/ \E i \in Packet : \E n \in 0 .. Stream[i].atts : HandleMisplaced(i, n)
             \/ DispatchRefused
      PROVE  stopped' /\ handled' = sent /\ sent' = sent
  BY <1>2, Zenon DEF HandleMisplaced, DispatchRefused, Refuse
<1>3. ASSUME \/ PostDone \/ Reuse \/ Close \/ UNCHANGED vars \/ Client
             \/ \E i \in Packet : Kick(Stream[i].nsp)
      PROVE  handled'[1] = handled[1]
  BY <1>3 DEF PostDone, Reuse, Close, CloseBegin, CloseSockets,
     ClosePending, CloseForget, Kick, Client, Post, PostUnknown,
     Upgrade, SendMessage, vars, readVars
<1> QED
  BY <1>1, <1>2, <1>3, AttachmentPacket, EventPlace DEF Next, HandleMessage

\* Once the read loop or a POST has given up, nothing more is sent or handled.
LEMMA StepGivenUp ==
  ASSUME ConnReads, [Next]_vars, stopped, handled = sent
  PROVE  stopped' /\ handled' = sent'
<1>1. current = None
  BY Zenon DEF ConnReads, ConnWaiting
<1>2. CASE Client
  BY <1>2, Zenon DEF Client, Post, PostUnknown, Upgrade, SendMessage
<1>3. CASE HandleMessage
  BY <1>1, <1>3 DEF HandleMessage, HandleText, HandleHeader, HandleAttachment,
     HandleMisplaced, Handling, DispatchConnect, DispatchEvent,
     DispatchRefused, PostDone, clientVars
<1>4. CASE \/ Reuse \/ Close \/ UNCHANGED vars
           \/ \E i \in Packet : Kick(Stream[i].nsp)
  BY <1>4, Zenon DEF Reuse, Close, CloseBegin, CloseSockets, ClosePending,
     CloseForget, Kick, vars, clientVars, readVars
<1> QED
  BY <1>2, <1>3, <1>4, Zenon DEF Next

\* The mode of a behaviour is fixed, and a closed connection stays closed.
LEMMA StepMode ==
  ASSUME [Next]_vars
  PROVE  mode' = mode /\ (Closed => Closed')
BY Zenon DEF Next, Client, Post, PostUnknown, Upgrade, SendMessage,
   HandleMessage, HandleText, HandleHeader, HandleAttachment,
   HandleMisplaced, Refuse, DispatchConnect, DispatchEvent,
   DispatchRefused, PostDone, Reuse, Close, CloseBegin,
   CloseSockets, ClosePending, CloseForget, Kick, vars, Closed

\* Every step keeps the namespaces, unless the connection is closed.
LEMMA StepJoined ==
  ASSUME ConnReads, ConnJoined, [Next]_vars
  PROVE  ConnJoined'
<1>1. mode' = mode /\ (Closed => Closed')
  BY StepMode, Zenon
<1>2. \/ joined \subseteq joined' \/ Closed' \/ "kick" \in mode
  BY DEF Next, Client, Post, PostUnknown, Upgrade, SendMessage,
     HandleMessage, HandleText, HandleHeader, HandleAttachment,
     HandleMisplaced, DispatchConnect, DispatchEvent,
     DispatchRefused, PostDone, Reuse, Close, CloseBegin,
     CloseSockets, ClosePending, CloseForget, Kick, vars, Closed
<1>3. SUFFICES ASSUME joined \subseteq joined', ~(stopped /\ handled = sent),
                      ~(stopped' /\ handled' = sent'), ~Closed', "kick" \notin mode,
                      NEW p \in Packet, p < handled'[1], Stream[p].kind = "connect"
               PROVE  Stream[p].nsp \in joined'
  BY <1>1, <1>2, StepGivenUp DEF ConnJoined
<1>4. p < handled[1] => Stream[p].nsp \in joined'
  BY <1>1, <1>3, Zenon DEF ConnJoined
<1>5. CASE /\ DispatchConnect \/ DispatchEvent
           /\ handled[1] \in Packet /\ handled' = <<handled[1] + 1, 0>> /\ p = handled[1]
  <2>1. current # None /\ current.packet = p
    BY <1>5 DEF DispatchConnect, DispatchEvent, ConnReads, ConnWaiting
  <2> QED
    BY <1>3, <1>5, <2>1, Zenon DEF DispatchConnect, DispatchEvent
<1>6. p < handled[1] + 1 /\ handled[1] \in Packet => p < handled[1] \/ p = handled[1]
  BY DEF Packet
<1> QED
  BY <1>3, <1>4, <1>5, <1>6, StepHandled

\* On an open connection a message is refused only after a disconnect by the
\* application.
LEMMA StepNoneRefused ==
  ASSUME ConnReads, ConnJoined, NoneRefused,
         [Next]_vars
  PROVE  NoneRefused'
<1>1. ASSUME NEW i \in Packet, NEW n \in 0 .. Stream[i].atts, HandleMisplaced(i, n)
      PROVE  refused' => refused
  <2>1. /\ handled = <<i, n>> /\ handled # sent /\ current = None
        /\ IF n = 0 THEN pending # None ELSE pending = None
    BY <1>1, Zenon DEF HandleMisplaced, Handling
  <2>2. Closed
    BY <2>1 DEF ConnReads, ConnWaiting
  <2> QED
    BY <1>1, <2>2, Zenon DEF HandleMisplaced, Refuse
<1>2. ASSUME DispatchRefused, "kick" \notin mode
      PROVE  refused' => refused
  <2>1. /\ current # None /\ Stream[current.packet].kind = "event"
        /\ Stream[current.packet].nsp \notin joined
    BY <1>2, Zenon DEF DispatchRefused
  <2>2. handled # sent /\ current.packet = handled[1]
    BY <2>1 DEF ConnReads, ConnWaiting
  <2>3. handled[1] \in Packet
    BY <2>2, HandlingIs, Zenon
  <2>4. PICK c \in 1 .. handled[1] - 1 :
          Stream[c].kind = "connect" /\ Stream[c].nsp = Stream[handled[1]].nsp
    BY <2>1, <2>2, <2>3, ReceivingAssumption
  <2>5. c \in Packet /\ c < handled[1]
    BY <2>3 DEF Packet
  <2>6. Closed
    BY <1>2, <2>1, <2>2, <2>4, <2>5, Zenon DEF ConnJoined
  <2> QED
    BY <1>2, <2>6, Zenon DEF DispatchRefused, Refuse
<1>3. \/ UNCHANGED refused
      \/ \E i \in Packet : \E n \in 0 .. Stream[i].atts : HandleMisplaced(i, n)
      \/ DispatchRefused
  BY DEF Next, Client, Post, PostUnknown, Upgrade, SendMessage,
     HandleMessage, HandleText, HandleHeader, HandleAttachment,
     DispatchConnect, DispatchEvent, PostDone, Reuse, Close,
     CloseBegin, CloseSockets, ClosePending, CloseForget, Kick,
     vars, readVars
<1> QED
  BY <1>1, <1>2, <1>3, StepMode DEF NoneRefused, NothingRefused

\* No message of a client that keeps to the protocol is refused while the
\* connection is open, unless the application disconnects a namespace
\* (NoneRefused).
THEOREM ProtocolNotRefused ==
  Spec => []NoneRefused
<1> DEFINE Inv == ConnReads /\ ConnJoined /\ NoneRefused
<1>1. Init => Inv
  <2>1. Init => handled[1] = 1 /\ ~refused
    BY DEF Init
  <2>2. \A p \in Packet : ~(p < 1)
    BY DEF Packet
  <2> QED
    BY <2>1, <2>2, InitReads DEF ConnJoined, NoneRefused, NothingRefused
<1>2. Inv /\ [Next]_vars => Inv'
  BY StepReads, StepJoined, StepNoneRefused
<1>3. Inv => NoneRefused
  OBVIOUS
<1> HIDE DEF Inv
<1> QED
  BY <1>1, <1>2, <1>3, PTL DEF Spec

-----------------------------------------------------------------------------
\* The text of packet i is in memory of its own or in a body that is held.
TextHeld(i) == text[i] # None => text[i] \in Place /\ body[text[i]] = "held"

\* Unless packets are spread over POSTs, a POST ends with a packet, and what is
\* pending or dispatched is in a body that is held.
ConnBodies ==
  /\ DOMAIN body = Place /\ DOMAIN text = Packet
  /\ \/ "split" \in mode
     \/ /\ transport = "polling" => sent[2] = 0
        /\ Posting => transport = "polling"
        /\ pending # None \/ current # None => TextHeld(handled[1])

\* No POST has been read.
LEMMA InitBodies == Init => ConnBodies
BY DEF Init, ConnBodies, Posting, Place

\* The body that is read from is held.
LEMMA SourceHeld ==
  /\ Posting => Source \in DOMAIN body /\ body[Source] = "held"
  /\ ~Posting => Source = None
BY Zenon DEF Posting, Source

\* Bodies are released when nothing in them is pending or dispatched.
LEMMA StepBodies ==
  ASSUME ConnReads, ConnBodies, [Next]_vars
  PROVE  ConnBodies'
<1> DEFINE Whole == /\ transport = "polling" => sent[2] = 0
                    /\ Posting => transport = "polling"
           Safe == pending # None \/ current # None => TextHeld(handled[1])
<1>0. mode' = mode
  BY StepMode
<1>1. DOMAIN body' = Place /\ DOMAIN text' = Packet
  <2>1. \/ body' = body \/ Reuse
        \/ \E m \in Place : body' = [body EXCEPT ![m] = "held"]
        \/ body' = [body EXCEPT ![Source] = "released"]
    BY Zenon DEF Next, Client, Post, PostUnknown, Upgrade, SendMessage,
       HandleMessage, HandleText, HandleHeader, HandleAttachment,
       HandleMisplaced, Refuse, DispatchConnect, DispatchEvent,
       DispatchRefused, PostDone, Close, CloseBegin,
       CloseSockets, ClosePending, CloseForget, Kick, vars,
       readVars, Place
  <2>2. text' = text \/ \E i : text' = [text EXCEPT ![i] = Source]
    BY DEF Next, Client, Post, PostUnknown, Upgrade, SendMessage,
       HandleMessage, HandleText, HandleHeader, HandleAttachment,
       HandleMisplaced, DispatchConnect, DispatchEvent,
       DispatchRefused, PostDone, Reuse, Close, CloseBegin,
       CloseSockets, ClosePending, CloseForget, Kick, vars,
       readVars
  <2> QED
    BY <2>1, <2>2, Zenon DEF ConnBodies, Reuse
<1>2. SUFFICES ASSUME "split" \notin mode, Whole, Safe
               PROVE  Whole' /\ Safe'
  BY <1>0, <1>1, Zenon DEF ConnBodies
<1>3. ASSUME NEW m \in Place, Post(m)
      PROVE  Whole' /\ Safe'
  <2>1. /\ transport = "polling" /\ transport' = transport /\ sent'[2] = 0
        /\ body' = [body EXCEPT ![m] = "held"]
        /\ UNCHANGED <<pending, current, handled, text>>
    BY <1>2, <1>3 DEF Post
  <2>2. \A t \in Place : body[t] = "held" => body'[t] = "held"
    BY <2>1, Zenon DEF ConnBodies
  <2> QED
    BY <1>2, <2>1, <2>2 DEF TextHeld
<1>4. CASE Upgrade
  <2>1. /\ transport' = "websocket" /\ ~Posting
        /\ UNCHANGED <<body, pending, current, handled, text>>
    BY <1>4, Zenon DEF Upgrade, readVars
  <2> QED
    BY <1>2, <2>1 DEF TextHeld, Posting
<1>5. CASE SendMessage
  <2>1. /\ transport' = "websocket"
        /\ UNCHANGED <<transport, body, pending, current, handled, text>>
    BY <1>5, Zenon DEF SendMessage, readVars
  <2> QED
    BY <1>2, <2>1 DEF TextHeld, Posting
<1>6. ASSUME NEW i \in Packet, HandleText(i) \/ HandleHeader(i)
      PROVE  Whole' /\ Safe'
  <2>1. /\ text' = [text EXCEPT ![i] = Source] /\ handled'[1] = i
        /\ UNCHANGED <<sent, transport, body>>
    BY <1>6 DEF HandleText, HandleHeader, Handling, After, clientVars
  <2>2. text'[i] = Source
    BY <2>1, Zenon DEF ConnBodies
  <2> QED
    BY <1>2, <2>1, <2>2, SourceHeld, Zenon DEF TextHeld, Posting, ConnBodies
<1>7. ASSUME NEW i \in Packet, NEW n \in 0 .. Stream[i].atts, HandleAttachment(i, n)
      PROVE  Whole' /\ Safe'
  <2>1. UNCHANGED <<sent, transport, body, text>> /\ pending # None
    BY <1>7 DEF HandleAttachment, clientVars
  <2>2. handled'[1] = handled[1]
    BY <1>7, AttachmentPacket
  <2> QED
    BY <1>2, <2>1, <2>2 DEF TextHeld, Posting
<1>8. CASE DispatchConnect \/ DispatchEvent
  <2>1. /\ UNCHANGED <<sent, transport, body, pending>> /\ current # None /\ current' = None
    BY <1>8, Zenon DEF DispatchConnect, DispatchEvent, clientVars
  <2>2. pending = None
    BY <2>1 DEF ConnReads, ConnWaiting
  <2> QED
    BY <1>2, <2>1, <2>2 DEF Posting
<1>9. ASSUME \/ \E i \in Packet : \E n \in 0 .. Stream[i].atts : HandleMisplaced(i, n)
             \/ DispatchRefused
      PROVE  Whole' /\ Safe'
  <2>1. /\ UNCHANGED <<sent, transport>>
        /\ body' = body \/ body' = [body EXCEPT ![Source] = "released"]
    BY <1>9 DEF HandleMisplaced, DispatchRefused, Refuse
  <2>2. Posting' => Posting
    BY <2>1 DEF Posting
  <2> QED
    BY <1>2, <1>9, <2>1, <2>2, RefuseReads, Zenon
<1>10. CASE PostDone
  <2>1. /\ UNCHANGED <<sent, transport, pending, current>>
        /\ Posting /\ handled = sent
        /\ body' = [body EXCEPT ![Source] = "released"]
    BY <1>10 DEF PostDone, clientVars
  <2>2. pending = None /\ current = None
    BY <1>2, <2>1, Zenon DEF ConnReads, ConnWaiting
  <2> QED
    BY <1>2, <2>1, <2>2
<1>11. CASE Reuse
  <2>1. /\ UNCHANGED <<sent, transport, pending, current, handled, text>>
        /\ \A m \in DOMAIN body : body[m] = "held" => body'[m] = "held"
        /\ Posting' => Posting
    BY <1>11, Zenon DEF Reuse, clientVars, Posting
  <2> QED
    BY <1>2, <2>1 DEF TextHeld, ConnBodies
<1>12. CASE \/ PostUnknown \/ Close \/ UNCHANGED vars
            \/ \E i \in Packet : Kick(Stream[i].nsp)
  <2>1. /\ UNCHANGED <<sent, transport, body, current, handled, text>>
        /\ pending' = pending \/ pending' = None
    BY <1>12 DEF PostUnknown, Close, CloseBegin, CloseSockets,
       ClosePending, CloseForget, Kick, vars, clientVars, readVars
  <2> QED
    BY <1>2, <2>1, Zenon DEF TextHeld, Posting
<1> HIDE DEF Whole, Safe
<1> QED
  BY <1>3, <1>4, <1>5, <1>6, <1>7, <1>8, <1>9, <1>10, <1>11, <1>12
  DEF Next, Client, HandleMessage, Place

\* What was dispatched lies before what is handled next, and nothing that does
\* was left out.
ConnServed ==
  /\ dispatched \in Seq([packet : Packet, parts : Seq(Place), intact : BOOLEAN])
  /\ \A j \in DOMAIN dispatched : dispatched[j].packet < handled[1]
  /\ \/ stopped /\ handled = sent
     \/ \A p \in Packet :
          p < handled[1] /\ Stream[p].kind = "event" =>
            \E j \in DOMAIN dispatched : dispatched[j].packet = p

\* The place does not go back.
LEMMA HandledGrows ==
  ASSUME ConnReads, [Next]_vars
  PROVE  handled[1] \in Nat /\ handled'[1] \in Nat /\ handled'[1] >= handled[1]
<1>1. handled[1] \in Nat /\ handled'[1] \in Nat
  BY PlaceIs, StepReads DEF ConnReads, ConnTypes
<1>2. handled' = sent => handled'[1] >= handled[1]
  BY <1>1, PlaceIs DEF ConnReads, ConnTypes, Precedes
<1> QED
  BY <1>1, <1>2, StepHandled

\* The j-th of the dispatched events q is the next event, complete and intact.
EventServed(q, j) ==
  /\ Stream[q[j].packet].kind = "event"
  /\ \A i \in 1 .. j - 1 : q[i].packet < q[j].packet
  /\ \A p \in 1 .. q[j].packet - 1 :
       Stream[p].kind = "event" => \E i \in 1 .. j - 1 : q[i].packet = p
  /\ q[j].parts = Parts(q[j].packet, Stream[q[j].packet].atts)
  /\ q[j].intact \/ "split" \in mode

\* The property of the runs says so of every dispatched event.
LEMMA ReceivedIs ==
  ReceivedIntact <=> \A j \in DOMAIN dispatched : EventServed(dispatched, j)
BY Zenon DEF ReceivedIntact, EventServed, Parts

\* The invariant behind the order and the bytes of events
ConnInv == ConnReads /\ ConnFreed /\ ConnBodies /\ ConnServed /\ ReceivedIntact

\* An event that is dispatched is the next one, with its attachments and bytes.
LEMMA EventDispatched ==
  ASSUME ConnInv, DispatchEvent
  PROVE  LET d == [packet |-> handled[1], intact |-> Intact,
                   parts |-> Parts(handled[1], Stream[handled[1]].atts)]
         IN  /\ dispatched' = Append(dispatched, d)
             /\ d \in [packet : Packet, parts : Seq(Place), intact : BOOLEAN]
             /\ Stream[d.packet].kind = "event" /\ handled # sent
             /\ d.intact \/ "split" \in mode
<1> USE DEF ConnInv
<1>1. /\ current # None /\ Stream[current.packet].kind = "event"
      /\ dispatched' = Append(dispatched,
           [packet |-> current.packet, parts |-> current.parts, intact |-> Intact])
  BY Zenon DEF DispatchEvent
<1>2. /\ handled # sent
      /\ current = [packet |-> handled[1], parts |-> Parts(handled[1], Stream[handled[1]].atts)]
  BY <1>1 DEF ConnReads, ConnWaiting
<1>3. handled[1] \in Packet
  BY <1>2, HandlingIs
<1>4. Parts(handled[1], Stream[handled[1]].atts) \in Seq(Place)
  <2>1. Stream[handled[1]].atts \in Nat
    BY <1>3, ReceivingAssumption, Zenon
  <2>2. \A k \in 1 .. Stream[handled[1]].atts : <<handled[1], k>> \in Place
    BY <1>3, <2>1, IsPlace
  <2> QED
    BY <2>1, <2>2 DEF Parts
<1>5. Intact \in BOOLEAN
  BY Zenon DEF Intact
<1>6. Intact \/ "split" \in mode
  <2>1. freed[handled[1]] = 0
    BY <1>1, <1>3, Zenon DEF ConnFreed, Unreleased
  <2>2. "split" \in mode \/ (text[handled[1]] # None => body[text[handled[1]]] # "reused")
    BY <1>1 DEF ConnBodies, TextHeld
  <2> QED
    BY <1>2, <2>1, <2>2, Zenon DEF Intact
<1> QED
  BY <1>1, <1>2, <1>3, <1>4, <1>5, <1>6, Zenon

\* An event is dispatched behind all events before it.
LEMMA EventInOrder ==
  ASSUME ConnInv, DispatchEvent,
         handled[1] \in Packet, handled' = <<handled[1] + 1, 0>>
  PROVE  ConnServed' /\ ReceivedIntact'
<1> USE DEF ConnInv
<1> DEFINE d == [packet |-> handled[1], intact |-> Intact,
                 parts |-> Parts(handled[1], Stream[handled[1]].atts)]
           R == [packet : Packet, parts : Seq(Place), intact : BOOLEAN]
           l == Len(dispatched)
<1>1. /\ dispatched' = Append(dispatched, d) /\ d \in R
      /\ Stream[d.packet].kind = "event" /\ handled # sent
      /\ d.intact \/ "split" \in mode
  BY EventDispatched, Zenon
<1>2. /\ d.packet = handled[1] /\ handled[1] \in Nat
      /\ d.parts = Parts(d.packet, Stream[d.packet].atts)
  BY DEF Packet
<1>3. dispatched \in Seq(R) /\ l \in Nat
  BY DEF ConnServed
<1> HIDE DEF d, R
<1>4. /\ dispatched' \in Seq(R) /\ DOMAIN dispatched' = 1 .. l + 1 /\ DOMAIN dispatched = 1 .. l
      /\ dispatched'[l + 1] = d /\ \A j \in 1 .. l : dispatched'[j] = dispatched[j]
  BY <1>1, <1>3
<1> HIDE DEF l
<1>5. \A j \in 1 .. l : dispatched[j].packet \in Nat /\ dispatched[j].packet < handled[1]
  <2>1. \A j \in 1 .. l : dispatched[j] \in R
    BY <1>3, <1>4
  <2>2. \A r \in R : r.packet \in Nat
    BY DEF R, Packet
  <2> QED
    BY <1>4, <2>1, <2>2 DEF ConnServed
<1>6. \A p \in Packet : p < handled[1] /\ Stream[p].kind = "event" =>
        \E j \in 1 .. l : dispatched[j].packet = p
  BY <1>1, <1>4 DEF ConnServed
<1>7. ConnServed'
  <2>1. \A j \in 1 .. l + 1 : dispatched'[j].packet < handled[1] + 1
    BY <1>2, <1>3, <1>4, <1>5
  <2>2. ASSUME NEW p \in Packet, p < handled[1] + 1, Stream[p].kind = "event"
        PROVE  \E j \in 1 .. l + 1 : dispatched'[j].packet = p
    <3>1. p < handled[1] \/ p = handled[1]
      BY <1>2, <2>2 DEF Packet
    <3>2. p < handled[1] => \E j \in 1 .. l : dispatched'[j].packet = p
      BY <1>4, <1>6, <2>2
    <3>3. l + 1 \in 1 .. l + 1 /\ 1 .. l \subseteq 1 .. l + 1
      BY <1>3
    <3> QED
      BY <1>2, <1>4, <3>1, <3>2, <3>3, Zenon
  <2> QED
    BY <1>4, <2>1, <2>2, Zenon DEF ConnServed, R
<1>8. ReceivedIntact'
  <2>1. mode' = mode
    BY Zenon DEF DispatchEvent
  <2>2. ASSUME NEW p \in 1 .. handled[1] - 1, Stream[p].kind = "event"
        PROVE  \E j \in 1 .. l : dispatched[j].packet = p
    <3>1. p \in Packet /\ p < handled[1]
      BY <1>2 DEF Packet
    <3> QED
      BY <1>6, <2>2, <3>1
  <2>3. EventServed(dispatched', l + 1)
    <3> DEFINE e == dispatched'[l + 1]
    <3>1. 1 .. (l + 1) - 1 = 1 .. l /\ e = d
      BY <1>3, <1>4
    <3> HIDE DEF e
    <3>2. \A i \in 1 .. l : dispatched'[i].packet < e.packet
      BY <1>2, <1>4, <1>5, <3>1, Zenon
    <3>3. \A p \in 1 .. e.packet - 1 :
            Stream[p].kind = "event" => \E i \in 1 .. l : dispatched'[i].packet = p
      BY <1>2, <1>4, <2>2, <3>1, Zenon
    <3>4. /\ Stream[e.packet].kind = "event" /\ (e.intact \/ "split" \in mode)
          /\ e.parts = Parts(e.packet, Stream[e.packet].atts)
      BY <1>1, <1>2, <3>1
    <3> QED
      BY <3>1, <3>2, <3>3, <3>4, Zenon DEF EventServed, e
  <2>4. ASSUME NEW j \in 1 .. l
        PROVE  EventServed(dispatched', j)
    <3>1. EventServed(dispatched, j)
      BY <1>4, ReceivedIs
    <3>2. dispatched'[j] = dispatched[j] /\ \A i \in 1 .. j - 1 : dispatched'[i] = dispatched[i]
      BY <1>3, <1>4
    <3> QED
      BY <3>1, <3>2, Zenon DEF EventServed
  <2>5. \A j \in 1 .. l + 1 : j \in 1 .. l \/ j = l + 1
    BY <1>3
  <2>6. \A j \in DOMAIN dispatched' : EventServed(dispatched', j)
    BY <1>4, <2>3, <2>4, <2>5
  <2> QED
    BY <2>1, <2>6, Zenon DEF ReceivedIntact, EventServed, Parts
<1> QED
  BY <1>7, <1>8, Zenon

\* Nothing has been dispatched.
LEMMA InitConn ==
  Init => ConnInv
<1> SUFFICES ASSUME Init PROVE ConnInv
  OBVIOUS
<1>1. dispatched = <<>> /\ handled[1] = 1
  BY DEF Init
<1>2. \A p \in Packet : ~(p < 1)
  BY DEF Packet
<1>3. ConnServed
  BY <1>1, <1>2 DEF ConnServed
<1>4. ReceivedIntact
  BY <1>1 DEF ReceivedIntact
<1> QED
  BY <1>3, <1>4, InitReads, InitFreed, InitBodies DEF ConnInv

\* Every step leaves the order of events and their bytes as they are.
LEMMA StepConn ==
  ASSUME ConnInv, [Next]_vars
  PROVE  ConnInv'
<1> USE DEF ConnInv
<1>1. ConnReads' /\ ConnFreed' /\ ConnBodies'
  BY StepReads, StepFreed, StepBodies
<1>2. CASE DispatchEvent
  <2>1. handled[1] \in Packet /\ handled' = <<handled[1] + 1, 0>>
    BY <1>2, EventPlace
  <2> QED
    BY <1>1, <1>2, <2>1, EventInOrder
<1>3. CASE ~DispatchEvent
  <2>1. UNCHANGED dispatched
    BY <1>3 DEF Next, Client, Post, PostUnknown, Upgrade,
       SendMessage, HandleMessage, HandleText, HandleHeader,
       HandleAttachment, HandleMisplaced, DispatchConnect, DispatchRefused,
       PostDone, Reuse, Close, CloseBegin, CloseSockets,
       ClosePending, CloseForget, Kick, vars, readVars
  <2>2. ReceivedIntact'
    BY <2>1, StepMode DEF ReceivedIntact
  <2>3. \A j \in DOMAIN dispatched : dispatched[j].packet < handled'[1]
    <3>1. \A j \in DOMAIN dispatched : dispatched[j].packet \in Nat
      <4> DEFINE R == [packet : Packet, parts : Seq(Place), intact : BOOLEAN]
      <4>1. dispatched \in Seq(R) /\ \A r \in R : r.packet \in Nat
        BY DEF ConnServed, Packet
      <4> HIDE DEF R, ConnInv
      <4> QED
        BY <4>1
    <3> QED
      BY <3>1, HandledGrows DEF ConnServed
  <2>4. \/ stopped' /\ handled' = sent'
        \/ \A p \in Packet :
             p < handled'[1] /\ Stream[p].kind = "event" =>
               \E j \in DOMAIN dispatched : dispatched[j].packet = p
    <3>1. SUFFICES ASSUME ~(stopped' /\ handled' = sent'),
                          NEW p \in Packet, p < handled'[1], Stream[p].kind = "event"
                   PROVE  \E j \in DOMAIN dispatched : dispatched[j].packet = p
      BY Zenon
    <3>2. ~(stopped /\ handled = sent)
      BY <3>1, StepGivenUp, Zenon
    <3>3. p < handled[1] => \E j \in DOMAIN dispatched : dispatched[j].packet = p
      BY <3>1, <3>2, Zenon DEF ConnServed
    <3>4. CASE DispatchConnect /\ handled' = <<handled[1] + 1, 0>>
      <4>1. current # None /\ Stream[current.packet].kind = "connect"
        BY <3>4, Zenon DEF DispatchConnect
      <4>2. current.packet = handled[1]
        BY <4>1 DEF ConnReads, ConnWaiting
      <4>3. p # handled[1]
        BY <3>1, <4>1, <4>2
      <4> QED
        BY <3>1, <3>3, <3>4, <4>3, HandledGrows DEF Packet
    <3> QED
      BY <1>3, <3>1, <3>3, <3>4, StepHandled, Zenon
  <2> QED
    BY <1>1, <2>1, <2>2, <2>3, <2>4, Zenon DEF ConnServed
<1> QED
  BY <1>2, <1>3

\* Events reach the sockets in order, each once and none left out, with their own
\* attachments and, unless packets are spread over POSTs, with the bytes they were
\* sent with (ReceivedIntact), over both transports and while close runs.
THEOREM EventsReceivedIntact ==
  Spec => []ReceivedIntact
<1>1. Init => ConnInv
  BY InitConn
<1>2. ConnInv /\ [Next]_vars => ConnInv'
  BY StepConn
<1>3. ConnInv => ReceivedIntact
  BY Zenon DEF ConnInv
<1> QED
  BY <1>1, <1>2, <1>3, PTL DEF Spec

-----------------------------------------------------------------------------
(* The acknowledgements of a socket                                        *)

\* Where handlers are, and that none is anywhere before it was added.
AckPlaces ==
  /\ items \subseteq Call /\ taken \subseteq Call /\ expired \subseteq Call
  /\ stage \in [Call -> {"new", "checked", "added", "sent", "failed"}]
  /\ items \cap taken = {} /\ items \cap expired = {} /\ taken \cap expired = {}
  /\ \A c \in items \cup taken \cup expired : stage[c] \notin {"new", "checked"}
  /\ sweep # NoTime => expired = {}

AckCounts == counted \in [registered : Nat, resolved : Nat, timedOut : Nat]

\* The inductive invariant behind the metrics.
AckInv == AckPlaces /\ AckCounts /\ Accounted

\* An empty ack store satisfies the invariant.
LEMMA InitAck == AckInit => AckInv
<1> SUFFICES ASSUME AckInit PROVE AckInv
  OBVIOUS
<1>1. Cardinality({}) = 0
  BY FS_EmptySet
<1> QED
  BY <1>1 DEF AckInit, AckInv, AckPlaces, AckCounts, Accounted

\* Sets of handlers are finite.
LEMMA FiniteHandlers ==
  ASSUME AckPlaces
  PROVE  /\ IsFiniteSet(items) /\ Cardinality(items) \in Nat
         /\ IsFiniteSet(expired) /\ Cardinality(expired) \in Nat
<1>1. IsFiniteSet(items) /\ IsFiniteSet(expired)
  BY FS_Subset, SocketAckAssumption DEF AckPlaces
<1> QED
  BY <1>1, FS_CardinalityType, Zenon

\* Every step keeps the places apart.
LEMMA StepAckPlaces == AckPlaces /\ [AckNext]_ackVars => AckPlaces'
<1> SUFFICES ASSUME AckPlaces, [AckNext]_ackVars
             PROVE  AckPlaces'
  OBVIOUS
<1>1. ASSUME NEW c \in Call, Emit(c)
      PROVE  AckPlaces'
  BY <1>1 DEF Emit, EmitCheck, EmitAdd, EmitSend, AckPlaces
<1>2. ASSUME NEW c \in Call, Ack(c)
      PROVE  AckPlaces'
  BY <1>2 DEF Ack, ClientAnswers, Take, CallTaken, AckPlaces
<1>3. CASE SweepBegin
  BY <1>3, Zenon DEF SweepBegin, AckPlaces
<1>4. CASE SweepStore
  BY <1>4 DEF SweepStore, Expired, AckPlaces
<1>5. ASSUME NEW c \in Call, SweepCall(c)
      PROVE  AckPlaces'
  BY <1>5, Zenon DEF SweepCall, AckPlaces
<1>6. CASE OnClose \/ Tick \/ UNCHANGED ackVars
  BY <1>6 DEF OnClose, Tick, ackVars, AckPlaces
<1> QED
  BY <1>1, <1>2, <1>3, <1>4, <1>5, <1>6 DEF AckNext, Sweep

\* Every step that moves a handler counts it.
LEMMA StepAck == AckInv /\ [AckNext]_ackVars => AckInv'
<1> SUFFICES ASSUME AckInv, [AckNext]_ackVars
             PROVE  AckCounts' /\ Accounted'
  BY StepAckPlaces DEF AckInv
<1> USE DEF AckInv
<1>0. /\ IsFiniteSet(items) /\ Cardinality(items) \in Nat
      /\ IsFiniteSet(expired) /\ Cardinality(expired) \in Nat
      /\ counted.registered \in Nat /\ counted.resolved \in Nat /\ counted.timedOut \in Nat
  BY FiniteHandlers DEF AckCounts
<1>a. counted.registered =
        counted.resolved + counted.timedOut + Cardinality(items) + Cardinality(expired)
  BY DEF Accounted
<1>1. CASE UNCHANGED <<items, expired, counted>>
  BY <1>1, Zenon DEF AckCounts, Accounted
<1>2. ASSUME NEW c \in Call, EmitAdd(c)
      PROVE  AckCounts' /\ Accounted'
  <2>1. c \notin items
    BY <1>2 DEF EmitAdd, AckPlaces
  <2>2. Cardinality(items') = Cardinality(items) + 1
    BY <1>0, <1>2, <2>1, FS_AddElement, Zenon DEF EmitAdd
  <2>3. /\ counted'.registered = counted.registered + 1
        /\ counted'.resolved = counted.resolved /\ counted'.timedOut = counted.timedOut
        /\ AckCounts' /\ expired' = expired
    BY <1>2 DEF EmitAdd, AckCounts
  <2> QED
    BY <1>0, <1>a, <2>2, <2>3 DEF Accounted
<1>3. ASSUME NEW c \in Call, Take(c), c \in items
      PROVE  AckCounts' /\ Accounted'
  <2>1. Cardinality(items') = Cardinality(items) - 1
    BY <1>0, <1>3, FS_RemoveElement DEF Take
  <2>2. /\ counted'.resolved = counted.resolved + 1
        /\ counted'.registered = counted.registered /\ counted'.timedOut = counted.timedOut
        /\ AckCounts' /\ expired' = expired
    BY <1>3 DEF Take, AckCounts
  <2>3. counted'.registered =
          counted'.resolved + counted'.timedOut + Cardinality(items') + Cardinality(expired')
    <3> HIDE DEF AckInv
    <3> QED
      BY <1>0, <1>a, <2>1, <2>2
  <2> QED
    BY <2>2, <2>3 DEF Accounted
<1>4. CASE SweepStore
  <2>1. /\ expired' \subseteq items /\ items' = items \ expired' /\ expired = {}
        /\ counted' = counted
    BY <1>4 DEF SweepStore, Expired, AckPlaces
  <2>2. IsFiniteSet(expired') /\ IsFiniteSet(items')
    BY <1>0, <2>1, FS_Subset
  <2>3. items' \cup expired' = items /\ items' \cap expired' = {}
    BY <2>1
  <2>4. Cardinality(items) = Cardinality(items') + Cardinality(expired')
    <3>1. Cardinality(items' \cup expired') =
            Cardinality(items') + Cardinality(expired') - Cardinality(items' \cap expired')
      BY <2>2, FS_Union
    <3>2. Cardinality(items' \cap expired') = 0
      BY <2>3, FS_EmptySet
    <3>3. Cardinality(items') \in Nat /\ Cardinality(expired') \in Nat
      BY <2>2, FS_CardinalityType
    <3>4. Cardinality(items) = Cardinality(items' \cup expired')
      BY <2>3
    <3> HIDE DEF AckInv
    <3> QED
      BY <3>1, <3>2, <3>3, <3>4
  <2>5. Cardinality(expired) = 0 /\ Cardinality(items') \in Nat /\ Cardinality(expired') \in Nat
    BY <2>1, <2>2, FS_EmptySet, FS_CardinalityType
  <2>6. AckCounts'
    BY <2>1 DEF AckCounts
  <2> QED
    BY <1>0, <1>a, <2>1, <2>4, <2>5, <2>6 DEF Accounted
<1>5. ASSUME NEW c \in Call, SweepCall(c)
      PROVE  AckCounts' /\ Accounted'
  <2>1. Cardinality(expired') = Cardinality(expired) - 1
    BY <1>0, <1>5, FS_RemoveElement, Zenon DEF SweepCall
  <2>2. /\ counted'.timedOut = counted.timedOut + 1
        /\ counted'.registered = counted.registered /\ counted'.resolved = counted.resolved
        /\ AckCounts' /\ items' = items
    BY <1>5 DEF SweepCall, AckCounts
  <2>3. counted'.registered =
          counted'.resolved + counted'.timedOut + Cardinality(items') + Cardinality(expired')
    <3> HIDE DEF AckInv
    <3> QED
      BY <1>0, <1>a, <2>1, <2>2
  <2> QED
    BY <2>2, <2>3 DEF Accounted
<1> QED
  BY <1>1, <1>2, <1>3, <1>4, <1>5
  DEF AckNext, Emit, EmitCheck, EmitSend, Ack, ClientAnswers, Take, CallTaken, Sweep, SweepBegin,
      OnClose, Tick, ackVars

\* Every registered callback is counted exactly once, as resolved, as timed out
\* or as pending (Accounted), however answers and sweeps race.
THEOREM MetricsAddUp == AckSpec => []Accounted
<1>1. AckInv => Accounted
  BY DEF AckInv
<1> QED
  BY <1>1, InitAck, StepAck, PTL DEF AckSpec

-----------------------------------------------------------------------------
\* Times: the sweeper's time is a time that has been, and what it has taken from
\* the store had reached its deadline by then.
AckTimes ==
  /\ clock \in Nat
  /\ deadline \in [Call -> Nat]
  /\ sweep \in Nat \cup {NoTime}
  /\ sweep # NoTime => sweep <= clock
  /\ \A c \in expired : deadline[c] \in 1..clock

\* No time has passed and nothing is being swept.
LEMMA InitAckTimes == AckInit => AckTimes
BY DEF AckInit, AckTimes

\* Every step keeps the sweeper behind the clock; a deadline is set once, before
\* the entry can be swept.
LEMMA StepAckTimes == AckPlaces /\ AckTimes /\ [AckNext]_ackVars => AckTimes'
<1> SUFFICES ASSUME AckPlaces, AckTimes, [AckNext]_ackVars
             PROVE  AckTimes'
  OBVIOUS
<1>1. CASE UNCHANGED <<clock, deadline, sweep, expired>>
  BY <1>1 DEF AckTimes
<1>2. ASSUME NEW c \in Call, EmitAdd(c)
      PROVE  AckTimes'
  <2>1. c \notin expired
    BY <1>2 DEF EmitAdd, AckPlaces
  <2>2. clock + Timeout[c] \in Nat
    BY SocketAckAssumption DEF AckTimes
  <2>3. deadline' \in [Call -> Nat] /\ \A d \in expired : deadline'[d] = deadline[d]
    BY <1>2, <2>1, <2>2 DEF EmitAdd, AckTimes, AckPlaces
  <2> QED
    BY <1>2, <2>3 DEF EmitAdd, AckTimes
<1>3. CASE SweepBegin
  BY <1>3 DEF SweepBegin, AckTimes
<1>4. CASE SweepStore
  <2>1. sweep \in Nat /\ sweep <= clock
    BY <1>4 DEF SweepStore, AckTimes
  <2>2. ASSUME NEW c \in expired'
        PROVE  deadline[c] \in 1..clock
    <3>1. c \in Call /\ deadline[c] # 0 /\ sweep >= deadline[c]
      BY <1>4, <2>2 DEF SweepStore, Expired, AckPlaces
    <3> QED
      BY <2>1, <3>1 DEF AckTimes
  <2> QED
    BY <1>4, <2>2 DEF SweepStore, AckTimes
<1>5. ASSUME NEW c \in Call, SweepCall(c)
      PROVE  AckTimes'
  BY <1>5 DEF SweepCall, AckTimes
<1>6. CASE Tick
  <2>1. clock' = clock + 1 /\ UNCHANGED <<deadline, sweep, expired>>
    BY <1>6 DEF Tick
  <2>2. \A c \in expired : deadline[c] \in 1..clock'
    BY <2>1 DEF AckTimes
  <2> QED
    BY <2>1, <2>2 DEF AckTimes
<1> QED
  BY <1>1, <1>2, <1>3, <1>4, <1>5, <1>6
  DEF AckNext, Emit, EmitCheck, EmitSend, Ack, ClientAnswers, Take, CallTaken, Sweep, OnClose, ackVars

\* The steps that tell a callback of a timeout are the sweeper's.
LEMMA TimeoutStep ==
  ASSUME AckPlaces, AckTimes, [AckNext]_ackVars, NEW c \in Call,
         outcome'[c] = "timeout", outcome[c] # "timeout"
  PROVE  outcome[c] = "none" /\ deadline[c] \in 1..clock /\ c \notin taken
<1>1. outcome' # outcome
  OBVIOUS
<1>2. ASSUME NEW d \in Call, SweepCall(d)
      PROVE  outcome[c] = "none" /\ deadline[c] \in 1..clock /\ c \notin taken
  <2>1. d = c /\ outcome[c] = "none"
    BY <1>2 DEF SweepCall, Settle
  <2> QED
    BY <1>2, <2>1 DEF SweepCall, AckPlaces, AckTimes
<1>3. ASSUME NEW d \in Call, CallTaken(d)
      PROVE  FALSE
  BY <1>3 DEF CallTaken, Settle
<1> QED
  BY <1>1, <1>2, <1>3
  DEF AckNext, Emit, EmitCheck, EmitAdd, EmitSend, Ack, ClientAnswers, Take, Sweep, SweepBegin,
      SweepStore, OnClose, Tick, ackVars

\* ackHandler.timeout comes only for a callback that has a timeout, that has
\* passed, and whose answer was never taken (NoEarlyTimeout).
THEOREM TimeoutsNotEarly == AckSpec => NoEarlyTimeout
<1>1. AckSpec => [](AckPlaces /\ AckTimes)
  <2>1. AckInit => AckPlaces
    BY InitAck, Zenon DEF AckInv
  <2> QED
    BY <2>1, InitAckTimes, StepAckPlaces, StepAckTimes, PTL DEF AckSpec
<1>2. AckPlaces /\ AckTimes /\ [AckNext]_ackVars =>
        [\A c \in Call : outcome'[c] = "timeout" /\ outcome[c] # "timeout" =>
           outcome[c] = "none" /\ deadline[c] \in 1..clock /\ c \notin taken]_ackVars
  BY TimeoutStep
<1> QED
  BY <1>1, <1>2, PTL DEF AckSpec, NoEarlyTimeout
=============================================================================
