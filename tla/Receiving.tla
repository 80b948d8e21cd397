----------------------------- MODULE Receiving -----------------------------
(***************************************************************************)
(* The incoming side of engineConn: POST requests (servePolling,            *)
(* handlePayload) and the read loop of the websocket, binary packets whose  *)
(* attachments follow as messages of their own (pendingBinary), the         *)
(* dispatch to the socket of the namespace, and close at any time.          *)
(*                                                                         *)
(* The client keeps to the protocol: it sends the messages of Stream in     *)
(* order, waits for the answer to a POST before the next one and before it  *)
(* sends over the websocket. It may spread a packet over several POSTs, as  *)
(* it must for what is larger than maxPayload.                             *)
(*                                                                         *)
(* A packet is parsed as a view of the bytes it came in. The body of a POST *)
(* is pooled: once it is released, another request may write over it.       *)
(***************************************************************************)
EXTENDS Naturals, Sequences

CONSTANTS
  Stream,   \* the packets the client sends: [nsp, kind, atts]
  Hazards,  \* what may happen, see mode
  None      \* no packet

Packet == 1 .. Len(Stream)

\* The messages: message k of packet i, 0 being its text
Message == UNION {{i} \X (0 .. Stream[i].atts) : i \in Packet}

\* The place behind the last message
Over == <<Len(Stream) + 1, 0>>

\* The message that follows m in the stream
After(m) ==
  IF m[2] < Stream[m[1]].atts THEN <<m[1], m[2] + 1>> ELSE <<m[1] + 1, 0>>

\* m is sent before n.
Precedes(m, n) == m[1] < n[1] \/ (m[1] = n[1] /\ m[2] < n[2])

\* The client connects to a namespace before it emits to it.
ASSUME ReceivingAssumption ==
  /\ Hazards \subseteq {"close", "kick", "split"}
  /\ Len(Stream) \in Nat
  /\ \A i \in Packet :
       /\ Stream[i].kind \in {"connect", "event"}
       /\ Stream[i].atts \in Nat
       /\ Stream[i].kind = "event" =>
            \E c \in 1 .. i - 1 : Stream[c].kind = "connect" /\ Stream[c].nsp = Stream[i].nsp
  /\ None \notin Message \cup {Over}
  /\ None \notin [packet : Packet, parts : Seq(Message)]

VARIABLES
  sent,        \* the client has sent the messages before this one
  transport,   \* polling or websocket
  body,        \* [m]: the body of the POST that ends before m: none, held, released, reused
  handled,     \* the messages before this one are handled
  text,        \* [i]: the POST whose body the text of i is in, None: memory of its own
  pending,     \* engineConn.pendingBinary: [packet, parts] or None
  current,     \* the packet that is dispatched: [packet, parts] or None
  freed,       \* [i]: how often the attachments of i were released
  joined,      \* engineConn.socketsByNsp
  dispatched,  \* events the sockets got: [packet, parts, intact]
  closing,     \* close: no, sockets, pending, forget or done
  stopped,     \* a POST was answered with an error, or the read loop has ended
  refused,     \* a message was refused on a connection that was not closed
  mode         \* what happens in this behaviour

clientVars == <<sent, transport, stopped>>
readVars == <<body, handled, text, pending, current, freed, dispatched, refused>>
vars == <<clientVars, readVars, joined, closing, mode>>

Init ==
  /\ sent = <<1, 0>>
  /\ transport = "polling"
  /\ body = [m \in Message \cup {Over} |-> "none"]
  /\ handled = <<1, 0>>
  /\ text = [i \in Packet |-> None]
  /\ pending = None
  /\ current = None
  /\ freed = [i \in Packet |-> 0]
  /\ joined = {}
  /\ dispatched = <<>>
  /\ closing = "no"
  /\ stopped = FALSE
  /\ refused = FALSE
  /\ mode \in SUBSET Hazards

Closed == closing # "no"

\* A POST is being handled.
Posting == \E m \in DOMAIN body : body[m] = "held"

\* The body of the POST that the handler reads from, None for the websocket.
Source == IF Posting THEN CHOOSE m \in DOMAIN body : body[m] = "held" ELSE None

-----------------------------------------------------------------------------
\* servePolling, the body of a POST with the messages before last is read. A
\* client that does not split sends packets as a whole.
Post(last) ==
  /\ transport = "polling" /\ ~stopped /\ ~Posting
  /\ closing # "done"
  /\ Precedes(sent, last)
  /\ "split" \notin mode => last[2] = 0
  /\ sent' = last
  /\ body' = [body EXCEPT ![last] = "held"]
  /\ UNCHANGED <<transport, stopped, handled, text, pending, current, freed, dispatched, refused,
                 joined, closing, mode>>

\* servePolling, the session is unknown.
PostUnknown ==
  /\ transport = "polling" /\ ~stopped /\ ~Posting
  /\ closing = "done"
  /\ stopped' = TRUE
  /\ UNCHANGED <<sent, transport, readVars, joined, closing, mode>>

\* acceptUpgradeWebSocket, after the client has its answers
Upgrade ==
  /\ transport = "polling" /\ ~stopped /\ ~Posting
  /\ ~Closed
  /\ transport' = "websocket"
  /\ UNCHANGED <<sent, stopped, readVars, joined, closing, mode>>

\* The client sends a message over the websocket.
SendMessage ==
  /\ transport = "websocket" /\ ~stopped
  /\ sent # Over
  /\ sent' = After(sent)
  /\ UNCHANGED <<transport, stopped, readVars, joined, closing, mode>>

\* The handler of the POST, or the read loop until it is stopped, has a message.
Handling(i, k) ==
  /\ handled # sent /\ handled = <<i, k>>
  /\ current = None
  /\ Posting \/ (~stopped /\ closing \notin {"forget", "done"})

\* The message is refused: servePolling releases the body and answers with an
\* error, readLoop closes the connection.
Refuse ==
  /\ refused' = (refused \/ ~Closed)
  /\ handled' = sent
  /\ stopped' = TRUE
  /\ IF Posting
       THEN /\ body' = [body EXCEPT ![Source] = "released"]
            /\ UNCHANGED closing
       ELSE /\ closing' = IF Closed THEN closing ELSE "sockets"
            /\ UNCHANGED body

\* handleSocketPacket, a packet without attachments
HandleText(i) ==
  /\ Handling(i, 0)
  /\ Stream[i].atts = 0
  /\ text' = [text EXCEPT ![i] = Source]
  /\ current' = [packet |-> i, parts |-> <<>>]
  /\ UNCHANGED <<clientVars, body, handled, pending, freed, dispatched, refused, joined,
                 closing, mode>>

\* handleSocketPacket, a packet whose attachments are to follow
HandleHeader(i) ==
  /\ Handling(i, 0)
  /\ Stream[i].atts > 0
  /\ pending = None
  /\ text' = [text EXCEPT ![i] = Source]
  /\ pending' = [packet |-> i, parts |-> <<>>]
  /\ handled' = After(handled)
  /\ UNCHANGED <<clientVars, body, current, freed, dispatched, refused, joined, closing, mode>>

\* Mutant: a packet is complete one attachment early.
HandleAttachmentFew(i, k) ==
  /\ Handling(i, k)
  /\ k > 0 /\ pending # None
  /\ LET parts == Append(pending.parts, <<i, k>>)
         complete == Len(parts) + 1 >= Stream[pending.packet].atts
     IN  /\ pending' = IF complete THEN None ELSE [pending EXCEPT !.parts = parts]
         /\ current' = IF complete THEN [pending EXCEPT !.parts = parts] ELSE None
         /\ handled' = IF complete THEN handled ELSE After(handled)
  /\ UNCHANGED <<clientVars, body, text, freed, dispatched, refused, joined, closing, mode>>

\* Mutant: the complete packet stays pending.
HandleAttachmentKeeps(i, k) ==
  /\ Handling(i, k)
  /\ k > 0 /\ pending # None
  /\ LET parts == Append(pending.parts, <<i, k>>)
         complete == Len(parts) = Stream[pending.packet].atts
     IN  /\ pending' = [pending EXCEPT !.parts = parts]
         /\ current' = IF complete THEN pending' ELSE None
         /\ handled' = IF complete THEN handled ELSE After(handled)
  /\ UNCHANGED <<clientVars, body, text, freed, dispatched, refused, joined, closing, mode>>

\* handleBinaryAttachment: the last attachment completes the packet.
HandleAttachment(i, k) ==
  /\ Handling(i, k)
  /\ k > 0 /\ pending # None
  /\ LET parts == Append(pending.parts, <<i, k>>)
         complete == Len(parts) = Stream[pending.packet].atts
     IN  /\ pending' = IF complete THEN None ELSE [pending EXCEPT !.parts = parts]
         /\ current' = IF complete THEN [pending EXCEPT !.parts = parts] ELSE None
         /\ handled' = IF complete THEN handled ELSE After(handled)
  /\ UNCHANGED <<clientVars, body, text, freed, dispatched, refused, joined, closing, mode>>

\* handleSocketPacket, attachments of another packet are missing, or
\* handleBinaryAttachment, no packet waits for attachments
HandleMisplaced(i, k) ==
  /\ Handling(i, k)
  /\ IF k = 0 THEN Stream[i].atts > 0 /\ pending # None ELSE pending = None
  /\ Refuse
  /\ UNCHANGED <<sent, transport, text, pending, current, freed, dispatched, joined, mode>>

\* handleBinaryAttachment releases the attachments of the packet it dispatched.
Released ==
  [freed EXCEPT ![current.packet] = IF current.parts = <<>> THEN @ ELSE @ + 1]

\* The bytes of the packet that is dispatched are those that were received.
Intact ==
  /\ freed[current.packet] = 0
  /\ text[current.packet] # None => body[text[current.packet]] # "reused"

\* handleParsedSocketPacket, CONNECT: Namespace.add
DispatchConnect ==
  /\ current # None
  /\ Stream[current.packet].kind = "connect"
  /\ joined' = joined \cup {Stream[current.packet].nsp}
  /\ freed' = Released
  /\ current' = None
  /\ handled' = After(handled)
  /\ UNCHANGED <<clientVars, body, text, pending, dispatched, refused, closing, mode>>

\* handleParsedSocketPacket, an event for a connected namespace: onPacket
DispatchEvent ==
  /\ current # None
  /\ Stream[current.packet].kind = "event"
  /\ Stream[current.packet].nsp \in joined
  /\ dispatched' = Append(dispatched,
                     [packet |-> current.packet, parts |-> current.parts, intact |-> Intact])
  /\ freed' = Released
  /\ current' = None
  /\ handled' = After(handled)
  /\ UNCHANGED <<clientVars, body, text, pending, refused, joined, closing, mode>>

\* handleParsedSocketPacket, the namespace is not connected.
DispatchRefused ==
  /\ current # None
  /\ Stream[current.packet].kind = "event"
  /\ Stream[current.packet].nsp \notin joined
  /\ Refuse
  /\ freed' = Released
  /\ current' = None
  /\ UNCHANGED <<sent, transport, text, pending, dispatched, joined, mode>>

\* Mutant: the body is released as soon as its last message is taken.
PostDoneEarly ==
  /\ Posting /\ (handled = sent \/ After(handled) = sent)
  /\ body' = [body EXCEPT ![Source] = "released"]
  /\ UNCHANGED <<clientVars, handled, text, pending, current, freed, dispatched, refused,
                 joined, closing, mode>>

\* servePolling releases the body and answers.
PostDone ==
  /\ Posting /\ handled = sent
  /\ body' = [body EXCEPT ![Source] = "released"]
  /\ UNCHANGED <<clientVars, handled, text, pending, current, freed, dispatched, refused,
                 joined, closing, mode>>

\* Other requests get the memory of released bodies from the pool.
Reuse ==
  /\ \E m \in DOMAIN body : body[m] = "released"
  /\ body' = [m \in DOMAIN body |-> IF body[m] = "released" THEN "reused" ELSE body[m]]
  /\ UNCHANGED <<clientVars, handled, text, pending, current, freed, dispatched, refused,
                 joined, closing, mode>>

-----------------------------------------------------------------------------
\* The application disconnects the socket of a namespace.
Kick(nsp) ==
  /\ "kick" \in mode
  /\ nsp \in joined
  /\ joined' = joined \ {nsp}
  /\ UNCHANGED <<clientVars, readVars, closing, mode>>

\* close, for a CLOSE packet, a write that fails, by Server.Close or by the
\* application
CloseBegin ==
  /\ "close" \in mode
  /\ ~Closed
  /\ closing' = "sockets"
  /\ UNCHANGED <<clientVars, readVars, joined, mode>>

\* close, onClose of every socket
CloseSockets ==
  /\ closing = "sockets"
  /\ joined' = {}
  /\ closing' = "pending"
  /\ UNCHANGED <<clientVars, readVars, mode>>

\* close, the attachments of an incomplete packet are released.
ClosePending ==
  /\ closing = "pending"
  /\ freed' = IF pending = None THEN freed ELSE [freed EXCEPT ![pending.packet] = @ + 1]
  /\ pending' = None
  /\ closing' = "forget"
  /\ UNCHANGED <<clientVars, body, handled, text, current, dispatched, refused, joined, mode>>

\* close, the loops are stopped and the connection forgotten.
CloseForget ==
  /\ closing = "forget"
  /\ closing' = "done"
  /\ UNCHANGED <<clientVars, readVars, joined, mode>>

Client == (\E m \in Message \cup {Over} : Post(m)) \/ PostUnknown \/ Upgrade \/ SendMessage

HandleMessage ==
  \/ \E i \in Packet : HandleText(i) \/ HandleHeader(i)
  \/ \E i \in Packet : \E k \in 0 .. Stream[i].atts :
       HandleAttachment(i, k) \/ HandleMisplaced(i, k)
  \/ DispatchConnect \/ DispatchEvent \/ DispatchRefused \/ PostDone

Close == CloseBegin \/ CloseSockets \/ ClosePending \/ CloseForget

Next ==
  \/ Client
  \/ HandleMessage
  \/ Reuse
  \/ \E i \in Packet : Kick(Stream[i].nsp)
  \/ Close

Spec == Init /\ [][Next]_vars

-----------------------------------------------------------------------------
\* Every dispatched event has the bytes it was sent with.
BytesIntact == \A j \in DOMAIN dispatched : dispatched[j].intact

\* No message of a client that keeps to the protocol is refused.
NothingRefused == ~refused

\* Events reach the sockets in the order the client sent them, each once, each
\* with its own attachments, and with the bytes it was sent with, over both
\* transports and the upgrade between them. The bytes are another's if a packet
\* is spread over several POSTs.
ReceivedIntact ==
  \A j \in DOMAIN dispatched :
    LET d == dispatched[j]
    IN  /\ Stream[d.packet].kind = "event"
        /\ \A i \in 1 .. j - 1 : dispatched[i].packet < d.packet
        /\ \A p \in 1 .. d.packet - 1 :
             Stream[p].kind = "event" => \E i \in 1 .. j - 1 : dispatched[i].packet = p
        /\ d.parts = [k \in 1 .. Stream[d.packet].atts |-> <<d.packet, k>>]
        /\ d.intact \/ "split" \in mode

\* No message of a client that keeps to the protocol is refused while the
\* connection is open, wherever POSTs end and the upgrade happens: what is
\* refused ends the connection with all its namespaces. This needs that the
\* application disconnects no namespace by itself while the client may emit.
NoneRefused == "kick" \in mode \/ NothingRefused

\* The memory of the attachments of a packet goes back to the pool once at
\* most, whoever finds the packet pending: the handler of its last attachment,
\* or close, which runs at any time.
FreedOnce == \A i \in Packet : freed[i] <= 1
=============================================================================
