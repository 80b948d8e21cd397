----------------------------- MODULE PacketView -----------------------------
(***************************************************************************)
(* Packets on the wire: the encoders and the parser of packet_view.go, the *)
(* argument encoders of socket.go and handler.go, and the bodies nodes     *)
(* send each other (cluster.go).  Text is a sequence of one-character      *)
(* strings; the literals true, false and null, the two keys of a           *)
(* placeholder and the magic words are one character each.  A byte of an   *)
(* attachment is any value, and a length or count of a cluster body is one *)
(* number cell (its varint).                                               *)
(***************************************************************************)
EXTENDS Integers, Sequences, SequencesExt, TLC

CONSTANTS MaxDepth,   \* size of scanJSONComposite's stack (64)
          IdSpace,    \* number of packet ids (2^64): ids wrap modulo it
          Namespace, EventName, Arg, MaxArgs, Offset, Session  \* inputs checked

Q == "\""
Esc == "\\"
Default == <<"/">>
Event == 2
Ack == 3
BinaryEvent == 5
BinaryAck == 6
Binary == {BinaryEvent, BinaryAck}

Fail == [ok |-> FALSE]

Char == <<"0", "1", "2", "3", "4", "5", "6", "7", "8", "9">>
Value == [c \in ToSet(Char) |-> (CHOOSE i \in DOMAIN Char : Char[i] = c) - 1]

isDigit(c) == c \in DOMAIN Value
isJSONSpace(c) == c \in {" ", "\n", "\r", "\t"}

\* strconv.AppendUint.
RECURSIVE Decimal(_)
Decimal(n) == IF n < 10 THEN <<Char[n + 1]>> ELSE Append(Decimal(n \div 10), Char[(n % 10) + 1])

\* The first position from pos on, or the end of the text, whose character is
\* not in the class.
Skip(data, pos, Class(_)) ==
    CHOOSE p \in pos..Len(data) + 1 :
        /\ p = Len(data) + 1 \/ ~Class(data[p])
        /\ \A q \in pos..p - 1 : Class(data[q])

\* The value of a run of digits, modulo the width of the variable it goes to.
Number(digits, space) == FoldLeft(LAMBDA n, c : (n * 10 + Value[c]) % space, 0, digits)

Drop(s, n) == SubSeq(s, n + 1, Len(s))
At(data, pos, c) == pos <= Len(data) /\ data[pos] = c

-----------------------------------------------------------------------------
(* Encoding.                                                                 *)

\* appendPacketHeader and appendPacketHeaderString.
AppendPacketHeader(type, attachments, namespace, id) ==
    Decimal(type)
    \o (IF type \in Binary THEN Append(Decimal(attachments), "-") ELSE <<>>)
    \o (IF namespace \in {<<>>, Default} THEN <<>> ELSE Append(namespace, ","))
    \o (IF id = <<>> THEN <<>> ELSE Decimal(id[1]))

Separated(parts) ==
    FoldLeft(LAMBDA out, part : IF out = <<>> THEN part ELSE out \o <<",">> \o part, <<>>, parts)

\* strconv.AppendQuote, for the characters a name may need escaped.
AppendQuote(s) ==
    <<Q>> \o FlattenSeq([i \in DOMAIN s |-> IF s[i] \in {Q, Esc} THEN <<Esc, s[i]>> ELSE <<s[i]>>])
          \o <<Q>>

\* appendEventPacket; an id is <<>> or <<n>>.
AppendEventPacket(type, attachments, namespace, id, event, args) ==
    AppendPacketHeader(type, attachments, namespace, id)
    \o <<"[">> \o Separated(<<AppendQuote(event)>> \o args) \o <<"]">>

AppendAckPacket(type, attachments, namespace, id, args) ==
    AppendPacketHeader(type, attachments, namespace, id)
    \o <<"[">> \o Separated(args) \o <<"]">>

\* An argument is [kind, data]: kind "json" is a value whose JSON text is data,
\* "raw" a []byte that is valid JSON, "bytes" a Binary or any other []byte, and
\* "bad" a value json.Marshal refuses.
Placeholder(n) == <<"{", Q, "_placeholder", Q, ":", "true", ",", Q, "num", Q, ":">> \o Decimal(n) \o <<"}">>

Attachments(args) ==
    LET binary == SelectSeq(args, LAMBDA a : a.kind = "bytes")
    IN [i \in DOMAIN binary |-> binary[i].data]

\* encodeAnyArgs: the JSON views; the binary views are Attachments(args).
EncodeAnyArgs(args) ==
    [i \in DOMAIN args |->
        IF args[i].kind = "bytes" THEN Placeholder(Len(Attachments(SubSeq(args, 1, i - 1))))
        ELSE args[i].data]

\* encodeAnyArgs fails, and its callers send nothing, if there is a bad one.
Encodable(args) == \A i \in DOMAIN args : args[i].kind # "bad"

\* encodeReflectArgs sends what json.Marshal makes of an argument of an answer:
\* base64 of a []byte, which letters is left out; and null where it fails.
Marshalled(arg) ==
    CASE arg.kind = "raw" -> [kind |-> "json", data |-> <<Q>> \o [i \in DOMAIN arg.data |-> "A"] \o <<Q>>]
      [] arg.kind = "bad" -> [kind |-> "json", data |-> <<"null">>]
      [] OTHER -> arg

EncodeReflectArgs(args) == EncodeAnyArgs([i \in DOMAIN args |-> Marshalled(args[i])])

AppendEventEncoded(namespace, id, event, args) ==
    LET count == Len(Attachments(args))
    IN AppendEventPacket(IF count # 0 THEN BinaryEvent ELSE Event, count, namespace, id,
                         event, EncodeAnyArgs(args))

AppendAckEncoded(namespace, id, args) ==
    LET count == Len(Attachments(args))
    IN AppendAckPacket(IF count # 0 THEN BinaryAck ELSE Ack, count, namespace, id,
                       EncodeReflectArgs(args))

-----------------------------------------------------------------------------
(* Scanning. A scanner returns the position after the value, 0 on an error.  *)

RECURSIVE StringEnd(_, _)
StringEnd(data, i) ==
    IF i > Len(data) THEN 0
    ELSE CASE data[i] = Esc -> StringEnd(data, i + 2)
           [] data[i] = Q   -> i + 1
           [] OTHER         -> StringEnd(data, i + 1)

\* A slip: the character after a backslash is looked at like any other.
ScanJSONStringPlain(data, pos) ==
    LET ends == {i \in pos + 1..Len(data) : data[i] = Q}
    IN IF ends = {} THEN 0 ELSE (CHOOSE i \in ends : \A j \in ends : i <= j) + 1

ScanJSONString(data, pos) == StringEnd(data, pos + 1)

Closing == [c \in {"{", "["} |-> IF c = "{" THEN "}" ELSE "]"]

RECURSIVE CompositeEnd(_, _, _)
CompositeEnd(data, i, stack) ==
    IF i > Len(data) THEN 0
    ELSE CASE data[i] = Q ->
                LET end == ScanJSONString(data, i)
                IN IF end = 0 THEN 0 ELSE CompositeEnd(data, end, stack)
           [] data[i] \in DOMAIN Closing ->
                IF Len(stack) = MaxDepth THEN 0
                ELSE CompositeEnd(data, i + 1, Append(stack, Closing[data[i]]))
           [] data[i] \in {"}", "]"} ->
                IF data[i] # Last(stack) THEN 0
                ELSE IF Len(stack) = 1 THEN i + 1
                ELSE CompositeEnd(data, i + 1, Front(stack))
           [] OTHER -> CompositeEnd(data, i + 1, stack)

ScanJSONComposite(data, pos) == CompositeEnd(data, pos + 1, <<Closing[data[pos]]>>)

\* One or more digits from pos on.
DigitsEnd(data, pos) ==
    IF pos <= Len(data) /\ isDigit(data[pos]) THEN Skip(data, pos, isDigit) ELSE 0

Fraction(data, pos) == IF pos # 0 /\ At(data, pos, ".") THEN DigitsEnd(data, pos + 1) ELSE pos

Exponent(data, pos) ==
    IF pos # 0 /\ (At(data, pos, "e") \/ At(data, pos, "E"))
    THEN DigitsEnd(data, IF At(data, pos + 1, "+") \/ At(data, pos + 1, "-") THEN pos + 2 ELSE pos + 1)
    ELSE pos

ScanJSONNumber(data, pos) ==
    Exponent(data, Fraction(data, DigitsEnd(data, IF data[pos] = "-" THEN pos + 1 ELSE pos)))

ScanJSONValue(data, pos) ==
    CASE data[pos] = Q -> ScanJSONString(data, pos)
      [] data[pos] \in DOMAIN Closing -> ScanJSONComposite(data, pos)
      [] data[pos] \in {"true", "false", "null"} -> pos + 1
      [] data[pos] = "-" \/ isDigit(data[pos]) -> ScanJSONNumber(data, pos)
      [] OTHER -> 0

-----------------------------------------------------------------------------
(* Parsing. A parser's result has ok FALSE where the code returns an error.  *)

\* if err != nil { return err }: what comes after a call that may fail.
Then(result, Rest(_)) == IF result.ok THEN Rest(result) ELSE Fail

\* The element from start to end, with what follows it at the delimiter.
Delimited(data, start, end, delimiter) ==
    IF delimiter > Len(data) THEN Fail
    ELSE IF data[delimiter] \notin {",", "]"} THEN Fail
    ELSE [ok |-> TRUE, done |-> FALSE, raw |-> SubSeq(data, start, end - 1),
          pos |-> IF data[delimiter] = "," THEN delimiter + 1 ELSE delimiter]

ElementTo(data, start, end) ==
    IF end = 0 THEN Fail ELSE Delimited(data, start, end, Skip(data, end, isJSONSpace))

ElementFrom(data, start) ==
    CASE start > Len(data) -> Fail
      [] At(data, start, "]") -> [ok |-> TRUE, done |-> TRUE]
      [] OTHER -> ElementTo(data, start, ScanJSONValue(data, start))

\* JSONArrayView.Next: an element and the position after it, or "done" at the
\* closing bracket.
ArrayNext(data, pos) == ElementFrom(data, Skip(data, pos, isJSONSpace))

\* The loop of the callers of Next: all elements from pos on.
RECURSIVE Elements(_, _)
Elements(data, pos) ==
    Then(ArrayNext(data, pos), LAMBDA next :
        IF next.done THEN [ok |-> TRUE, list |-> <<>>]
        ELSE Then(Elements(data, next.pos), LAMBDA rest :
                  [ok |-> TRUE, list |-> <<next.raw>> \o rest.list]))

NewJSONArrayView(data) == Len(data) >= 2 /\ data[1] = "["

\* A string without escapes, quotes removed.
UnquoteJSONStringView(data) ==
    IF \/ Len(data) < 2 \/ data[1] # Q \/ Last(data) # Q
       \/ Esc \in ToSet(Front(Tail(data)))
    THEN Fail ELSE [ok |-> TRUE, text |-> Front(Tail(data))]

\* splitEventPayload: the event's name and where its arguments start.
SplitEventPayload(data) ==
    IF ~NewJSONArrayView(data) THEN Fail
    ELSE Then(ArrayNext(data, 2), LAMBDA first :
              IF first.done THEN Fail
              ELSE Then(UnquoteJSONStringView(first.raw), LAMBDA name :
                        IF name.text = <<>> THEN Fail
                        ELSE [ok |-> TRUE, event |-> name.text, args |-> first.pos]))

\* The three optional parts of a header: [ok, value, rest].
ParseAttachments(type, data) ==
    IF type \notin Binary THEN [ok |-> TRUE, value |-> 0, rest |-> data]
    ELSE LET end == Skip(data, 1, isDigit)
             count == Number(SubSeq(data, 1, end - 1), IdSpace)
         IN IF end = 1 \/ ~At(data, end, "-") \/ count = 0 THEN Fail
            ELSE [ok |-> TRUE, value |-> count, rest |-> Drop(data, end)]

ParseNamespace(data) ==
    IF ~At(data, 1, "/") THEN [value |-> Default, rest |-> data]
    ELSE LET comma == Skip(data, 1, LAMBDA c : c # ",")
         IN [value |-> SubSeq(data, 1, comma - 1), rest |-> Drop(data, comma)]

ParseId(data) ==
    LET end == Skip(data, 1, isDigit)
    IN [value |-> IF end = 1 THEN <<>> ELSE <<Number(SubSeq(data, 1, end - 1), IdSpace)>>,
        rest |-> Drop(data, end - 1)]

\* The rest of the packet once its header is read; args is the position in
\* payload of the first argument (0: none).
ParsePayload(type, count, nsp, id) ==
    LET packet == [ok |-> TRUE, type |-> type, attachments |-> count.value,
                   namespace |-> nsp.value, id |-> id.value, payload |-> id.rest]
    IN CASE type \in {Event, BinaryEvent} ->
              Then(SplitEventPayload(id.rest), LAMBDA split :
                   packet @@ [event |-> split.event, args |-> split.args])
         [] type \in {Ack, BinaryAck} /\ id.rest # <<>> ->
              IF ~NewJSONArrayView(id.rest) THEN Fail ELSE packet @@ [event |-> <<>>, args |-> 2]
         [] OTHER -> packet @@ [event |-> <<>>, args |-> 0]

\* The id follows the namespace.
ParseRoute(type, count, nsp) == ParsePayload(type, count, nsp, ParseId(nsp.rest))

ParsePacketView(data) ==
    IF data = <<>> \/ data[1] \notin {Char[i] : i \in 1..7} THEN Fail
    ELSE Then(ParseAttachments(Value[data[1]], Tail(data)), LAMBDA count :
              ParseRoute(Value[data[1]], count, ParseNamespace(count.rest)))

\* The arguments a caller that reads all of them gets.
ArgsOf(packet) ==
    IF packet.args = 0 THEN [ok |-> TRUE, list |-> <<>>] ELSE Elements(packet.payload, packet.args)

\* decodeValueWithBinary: a placeholder stands for its attachment.
DecodeValue(raw, attachments) ==
    LET num == {i \in DOMAIN raw : raw[i] = "num"}
        start == Skip(raw, (CHOOSE i \in num : \A j \in num : i <= j) + 2,
                      LAMBDA c : c = ":" \/ isJSONSpace(c))
        index == Number(SubSeq(raw, start, Skip(raw, start, isDigit) - 1), IdSpace)
    IN IF ~({"_placeholder", "true", "num"} \subseteq ToSet(raw)) THEN [ok |-> TRUE, value |-> raw]
       ELSE IF ~(start <= Len(raw) /\ isDigit(raw[start])) THEN [ok |-> TRUE, value |-> raw]
       ELSE IF index >= Len(attachments) THEN Fail
       ELSE [ok |-> TRUE, value |-> attachments[index + 1]]

-----------------------------------------------------------------------------
(* Bodies between nodes. A reader's result is [ok, value, pos].              *)

\* appendBinaryBytes and appendBinaryString.
Field(value) == <<Len(value)>> \o value
Fields(values) == <<Len(values)>> \o FlattenSeq([i \in DOMAIN values |-> Field(values[i])])

\* readBinaryBytes.
ReadField(body, pos) ==
    IF pos > Len(body) THEN Fail
    ELSE IF body[pos] > Len(body) - pos THEN Fail
    ELSE [ok |-> TRUE, value |-> SubSeq(body, pos + 1, pos + body[pos]), pos |-> pos + body[pos] + 1]

\* The loops that read `count` items one after the other.
RECURSIVE ReadItems(_, _, _, _)
ReadItems(Read(_, _), body, pos, count) ==
    IF count = 0 THEN [ok |-> TRUE, value |-> <<>>, pos |-> pos]
    ELSE Then(Read(body, pos), LAMBDA first :
              Then(ReadItems(Read, body, first.pos, count - 1), LAMBDA rest :
                   [rest EXCEPT !.value = <<first.value>> \o @]))

ReadList(Read(_, _), body, pos) ==
    IF pos > Len(body) THEN Fail ELSE ReadItems(Read, body, pos + 1, body[pos])

EncodeClusterPacket(packet, attachments) ==
    IF attachments = <<>> THEN packet
    ELSE <<"SIOB">> \o Field(packet) \o Fields(attachments)

\* readClusterPacket: a body without the magic word is the packet itself.
ReadClusterPacket(body) ==
    IF body = <<>> \/ body[1] # "SIOB" THEN [ok |-> TRUE, packet |-> body, attachments |-> <<>>]
    ELSE Then(ReadField(body, 2), LAMBDA packet :
              Then(ReadList(ReadField, body, packet.pos), LAMBDA attachments :
                   [ok |-> TRUE, packet |-> packet.value, attachments |-> attachments.value]))

\* packetRecoveryOffset: the last argument, when it is a string; <<>> is "".
LastString(args) ==
    IF ~args.ok THEN <<>>
    ELSE IF args.list = <<>> THEN <<>>
    ELSE LET offset == UnquoteJSONStringView(Last(args.list))
         IN IF offset.ok THEN offset.text ELSE <<>>

RecoveryOffset(p) ==
    IF ~p.ok THEN <<>>
    ELSE IF p.type \notin {Event, BinaryEvent} \/ p.id # <<>> THEN <<>>
    ELSE LastString(ArgsOf(p))

PacketRecoveryOffset(packet) == RecoveryOffset(ParsePacketView(packet))

EncodeCSRResponse(session, replay) ==
    <<"SIOCSR">> \o Field(session.sid) \o Field(session.pid) \o Fields(session.rooms)
    \o <<Len(replay)>>
    \o FlattenSeq([i \in DOMAIN replay |-> Field(replay[i].packet) \o Fields(replay[i].attachments)])

ReadReplayPacket(body, pos) ==
    Then(ReadField(body, pos), LAMBDA packet :
         Then(ReadList(ReadField, body, packet.pos), LAMBDA attachments :
              [attachments EXCEPT !.value = [packet |-> packet.value, attachments |-> @]]))

DecodeCSRResponse(body) ==
    IF body = <<>> \/ body[1] # "SIOCSR" THEN Fail
    ELSE Then(ReadField(body, 2), LAMBDA sid :
         Then(ReadField(body, sid.pos), LAMBDA pid :
         Then(ReadList(ReadField, body, pid.pos), LAMBDA rooms :
         Then(ReadList(ReadReplayPacket, body, rooms.pos), LAMBDA replay :
              [ok |-> TRUE, session |-> [sid |-> sid.value, pid |-> pid.value, rooms |-> rooms.value],
               replay |-> replay.value]))))

-----------------------------------------------------------------------------
(* One message in flight: what was sent, and its bytes.                      *)

VARIABLES sent, wire

wireVars == <<sent, wire>>

Nothing == [op |-> "none"]

WireInit == sent = Nothing /\ wire = <<>>

ArgLists == UNION {[1..n -> Arg] : n \in 0..MaxArgs}

\* BroadcastOperator.Emit: recovery appends the offset as a last string argument.
WithOffset(args) == Append(args, [kind |-> "json", data |-> <<Q>> \o Offset \o <<Q>>])

BroadcastPacket(namespace, event, args) ==
    AppendEventEncoded(namespace, <<>>, event, WithOffset(args))

Send(message, bytes) ==
    /\ sent = Nothing
    /\ sent' = message
    /\ wire' = bytes

SendBroadcast(namespace, event, args) ==
    /\ Encodable(args)
    /\ Send([op |-> "broadcast", namespace |-> namespace, event |-> event, id |-> <<>>,
             args |-> WithOffset(args)],
            EncodeClusterPacket(BroadcastPacket(namespace, event, args), Attachments(args)))

\* serverSideEmit
SendServerSide(namespace, event, args) ==
    /\ Encodable(args)
    /\ Send([op |-> "sse", namespace |-> namespace, event |-> event, id |-> <<>>, args |-> args],
            EncodeClusterPacket(AppendEventEncoded(namespace, <<>>, event, args), Attachments(args)))

SendEvent(namespace, event, id, args) ==
    /\ Encodable(args)
    /\ Send([op |-> "event", namespace |-> namespace, event |-> event, id |-> id, args |-> args],
            AppendEventEncoded(namespace, id, event, args))

SendAck(namespace, id, args) ==
    Send([op |-> "ack", namespace |-> namespace, event |-> <<>>, id |-> id,
          args |-> [i \in DOMAIN args |-> Marshalled(args[i])]],
         AppendAckEncoded(namespace, id, args))

\* The answer to a csr request: a session, and as often as `count` says a packet.
SendSession(session, count, event, args) ==
    LET replay == [i \in 1..count |-> [packet |-> BroadcastPacket(Default, event, args),
                                       attachments |-> Attachments(args)]]
    IN /\ Encodable(args)
       /\ Send([op |-> "csr", session |-> session, replay |-> replay],
               EncodeCSRResponse(session, replay))

Receive ==
    /\ sent # Nothing
    /\ sent' = Nothing
    /\ wire' = <<>>

WireNext ==
    \/ \E args \in ArgLists :
        \/ \E namespace \in Namespace, event \in EventName :
            \/ SendBroadcast(namespace, event, args)
            \/ SendServerSide(namespace, event, args)
            \/ \E id \in {<<>>} \cup [1..1 -> 0..IdSpace - 1] : SendEvent(namespace, event, id, args)
        \/ \E namespace \in Namespace, id \in [1..1 -> 0..IdSpace - 1] : SendAck(namespace, id, args)
        \/ \E session \in Session, count \in 0..2, event \in EventName : SendSession(session, count, event, args)
    \/ Receive

-----------------------------------------------------------------------------
(* Properties.                                                               *)

\* The packet, its arguments and attachments are the message that was sent.
IsSent(p, args, attachments) ==
    /\ p.namespace = sent.namespace
    /\ p.event = sent.event
    /\ p.id = sent.id
    /\ p.attachments = Len(attachments)
    /\ args.ok
    /\ Len(args.list) = Len(sent.args)
    /\ \A i \in DOMAIN sent.args :
         DecodeValue(args.list[i], attachments) = [ok |-> TRUE, value |-> sent.args[i].data]

Understood(p, attachments) == p.ok /\ IsSent(p, ArgsOf(p), attachments)

\* What a peer, or the client, makes of the packet.
ReadAsSent(body) ==
    /\ body.ok
    /\ body.attachments = Attachments(sent.args)
    /\ Understood(ParsePacketView(body.packet), body.attachments)
    /\ sent.op = "broadcast" => PacketRecoveryOffset(body.packet) = Offset

Carried ==
    CASE sent.op \in {"broadcast", "sse"} -> ReadAsSent(ReadClusterPacket(wire))
      [] sent.op \in {"event", "ack"} ->
            ReadAsSent([ok |-> TRUE, packet |-> wire, attachments |-> Attachments(sent.args)])
      [] sent.op = "csr" ->
            DecodeCSRResponse(wire) = [ok |-> TRUE, session |-> sent.session, replay |-> sent.replay]
      [] OTHER -> TRUE

\* The parser does not unescape event names: the ones it can read.
Plain(event) == ToSet(event) \cap {Q, Esc} = {}

\* What the encoders write, the parsers read back: a broadcast or a server-side
\* event posted to a peer has there the same namespace, event, arguments,
\* attachments and offset; an event and an answer keep their id and arguments; a
\* session that moves to the node that asked for it arrives with its rooms and
\* the packets to replay.
CarriedIntact == (sent.op \in {"broadcast", "sse", "event"} => Plain(sent.event)) => Carried

\* The same of every event name. An event whose name needs an escape is not
\* understood by the parser, and a peer finds no offset in a broadcast of it.
EveryNameCarried == Carried
=============================================================================
