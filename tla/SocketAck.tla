----------------------------- MODULE SocketAck -----------------------------
(***************************************************************************)
(* Acknowledgements of events sent to one socket: emitWithOptions enters an *)
(* entry into the socket's ackStore and sends the event, the client answers *)
(* (perhaps twice), and the sweeper takes out what has expired. The sweeper *)
(* reaches the socket through the adapter, which the socket leaves when it  *)
(* is closed. A call of Emit is named by the id that acks.next gave it.     *)
(***************************************************************************)
EXTENDS Integers, FiniteSets

CONSTANTS
  Call,        \* calls of Emit with a callback
  Timeout,     \* [call]: its timeout, 0 if it has none
  MaxClock,    \* bound: clock ticks
  MaxAnswers,  \* bound: ACK packets the client sends for one event
  MayClose,    \* the socket may be closed
  NoTime       \* no sweep under way

ASSUME SocketAckAssumption ==
  /\ IsFiniteSet(Call)
  /\ Timeout \in [Call -> Nat]
  /\ MaxClock \in Nat /\ MaxAnswers \in Nat
  /\ MayClose \in BOOLEAN
  /\ NoTime \notin Nat

VARIABLES
  clock,      \* the time
  connected,  \* serverSocket.connected, and the socket is in the adapter
  stage,      \* [call]: new, checked, added, sent or failed
  items,      \* ackStore.items: the calls that have an entry
  deadline,   \* [call]: ackEntry.deadline, 0 if none
  answers,    \* [call]: ACK packets sent by the client
  arriving,   \* [call]: ACK packets handed to the socket, not yet handled
  taken,      \* calls whose handler onPacket has taken and will call
  sweep,      \* the time the sweeper is sweeping with
  expired,    \* calls whose handler the sweeper has taken and will call
  outcome,    \* [call]: how its callback was called: none, answer or timeout
  counted     \* the metrics acksRegistered, acksResolved and acksTimedOut

ackVars == <<clock, connected, stage, items, deadline, answers, arriving, taken, sweep,
          expired, outcome, counted>>

AckInit ==
  /\ clock = 1
  /\ connected = TRUE
  /\ stage = [c \in Call |-> "new"]
  /\ items = {}
  /\ deadline = [c \in Call |-> 0]
  /\ answers = [c \in Call |-> 0]
  /\ arriving = [c \in Call |-> 0]
  /\ taken = {}
  /\ sweep = NoTime
  /\ expired = {}
  /\ outcome = [c \in Call |-> "none"]
  /\ counted = [registered |-> 0, resolved |-> 0, timedOut |-> 0]

-----------------------------------------------------------------------------
\* emitWithOptions finds the socket connected.
EmitCheck(c) ==
  /\ stage[c] = "new"
  /\ connected
  /\ stage' = [stage EXCEPT ![c] = "checked"]
  /\ UNCHANGED <<clock, connected, items, deadline, answers, arriving, taken, sweep,
                 expired, outcome, counted>>

\* acks.next and acks.add
EmitAdd(c) ==
  /\ stage[c] = "checked"
  /\ stage' = [stage EXCEPT ![c] = "added"]
  /\ items' = items \cup {c}
  /\ deadline' = [deadline EXCEPT ![c] = IF Timeout[c] > 0 THEN clock + Timeout[c] ELSE 0]
  /\ counted' = [counted EXCEPT !.registered = @ + 1]
  /\ UNCHANGED <<clock, connected, answers, arriving, taken, sweep, expired, outcome>>

\* Mutant: the entry is taken back, but not its registration.
EmitSendForgets(c) ==
  /\ stage[c] = "added"
  /\ \E s \in {"sent", "failed"} :
       /\ stage' = [stage EXCEPT ![c] = s]
       /\ items' = IF s = "sent" THEN items ELSE items \ {c}
  /\ UNCHANGED <<clock, connected, deadline, answers, arriving, taken, sweep, expired,
                 outcome, counted>>

\* The event is sent, or its arguments cannot be encoded and the entry stays.
EmitSend(c) ==
  /\ stage[c] = "added"
  /\ \E s \in {"sent", "failed"} : stage' = [stage EXCEPT ![c] = s]
  /\ UNCHANGED <<clock, connected, items, deadline, answers, arriving, taken, sweep,
                 expired, outcome, counted>>

\* The client answers an event it received, and the connection finds the socket
\* for the packet.
ClientAnswers(c) ==
  /\ stage[c] = "sent" /\ connected
  /\ answers[c] < MaxAnswers
  /\ answers' = [answers EXCEPT ![c] = @ + 1]
  /\ arriving' = [arriving EXCEPT ![c] = @ + 1]
  /\ UNCHANGED <<clock, connected, stage, items, deadline, taken, sweep, expired, outcome,
                 counted>>

\* onPacket, acks.take: a packet without an entry is ignored.
Take(c) ==
  /\ arriving[c] > 0
  /\ arriving' = [arriving EXCEPT ![c] = @ - 1]
  /\ IF c \in items
       THEN /\ items' = items \ {c}
            /\ taken' = taken \cup {c}
            /\ counted' = [counted EXCEPT !.resolved = @ + 1]
       ELSE UNCHANGED <<items, taken, counted>>
  /\ UNCHANGED <<clock, connected, stage, deadline, answers, sweep, expired, outcome>>

\* ackHandler.call and ackHandler.timeout: sync.Once lets the first through, and
\* a handler without an error argument is not told of the timeout.
Settle(c, how) ==
  outcome' = [outcome EXCEPT ![c] =
                IF @ = "none" /\ (how = "answer" \/ Timeout[c] > 0) THEN how ELSE @]

\* onPacket, h.call
CallTaken(c) ==
  /\ c \in taken
  /\ taken' = taken \ {c}
  /\ Settle(c, "answer")
  /\ UNCHANGED <<clock, connected, stage, items, deadline, answers, arriving, sweep,
                 expired, counted>>

-----------------------------------------------------------------------------
\* ackSweepLoop, sweepAcks: a tick of the ticker; apply finds the socket unless
\* it has been closed.
SweepBegin ==
  /\ sweep = NoTime /\ expired = {}
  /\ connected
  /\ sweep' = clock
  /\ UNCHANGED <<clock, connected, stage, items, deadline, answers, arriving, taken, expired,
                 outcome, counted>>

\* Mutant: only entries without a deadline expire.
ExpiredUntimed(now) == {c \in items : deadline[c] = 0 /\ now >= deadline[c]}

\* ackStore.sweep: the entries whose deadline has come
Expired(now) == {c \in items : deadline[c] # 0 /\ now >= deadline[c]}

\* ackStore.sweep
SweepStore ==
  /\ sweep # NoTime
  /\ expired' = Expired(sweep)
  /\ items' = items \ expired'
  /\ sweep' = NoTime
  /\ UNCHANGED <<clock, connected, stage, deadline, answers, arriving, taken, outcome, counted>>

\* serverSocket.sweepAcks: the handlers in turn
SweepCall(c) ==
  /\ c \in expired
  /\ expired' = expired \ {c}
  /\ counted' = [counted EXCEPT !.timedOut = @ + 1]
  /\ Settle(c, "timeout")
  /\ UNCHANGED <<clock, connected, stage, items, deadline, answers, arriving, taken, sweep>>

-----------------------------------------------------------------------------
\* onClose and Namespace.remove: the socket leaves the adapter; the entries of
\* its store stay.
OnClose ==
  /\ MayClose /\ connected
  /\ connected' = FALSE
  /\ UNCHANGED <<clock, stage, items, deadline, answers, arriving, taken, sweep, expired,
                 outcome, counted>>

Tick ==
  /\ clock < MaxClock
  /\ clock' = clock + 1
  /\ UNCHANGED <<connected, stage, items, deadline, answers, arriving, taken, sweep, expired,
                 outcome, counted>>

Emit(c) == EmitCheck(c) \/ EmitAdd(c) \/ EmitSend(c)

Ack(c) == ClientAnswers(c) \/ Take(c) \/ CallTaken(c)

Sweep == SweepBegin \/ SweepStore \/ \E c \in Call : SweepCall(c)

AckNext == (\E c \in Call : Emit(c) \/ Ack(c)) \/ Sweep \/ OnClose \/ Tick

AckSpec == AckInit /\ [][AckNext]_ackVars

\* A goroutine that has begun goes on, the ticker ticks and the clock advances;
\* neither the client nor the application has to do anything.
FairSpec ==
  /\ AckSpec
  /\ WF_ackVars(Tick)
  /\ WF_ackVars(SweepBegin) /\ WF_ackVars(SweepStore)
  /\ \A c \in Call : /\ WF_ackVars(SweepCall(c))
                     /\ WF_ackVars(EmitAdd(c)) /\ WF_ackVars(EmitSend(c))
                     /\ WF_ackVars(Take(c)) /\ WF_ackVars(CallTaken(c))

-----------------------------------------------------------------------------
\* Type invariant of the store and its callers; a handler is in one place.
TypeOK ==
  /\ clock \in 1..MaxClock
  /\ connected \in BOOLEAN
  /\ stage \in [Call -> {"new", "checked", "added", "sent", "failed"}]
  /\ items \subseteq Call
  /\ deadline \in [Call -> Nat]
  /\ answers \in [Call -> 0..MaxAnswers]
  /\ arriving \in [Call -> 0..MaxAnswers]
  /\ taken \subseteq Call
  /\ sweep \in {NoTime} \cup 1..MaxClock
  /\ expired \subseteq Call
  /\ items \cap taken = {} /\ items \cap expired = {} /\ taken \cap expired = {}
  /\ outcome \in [Call -> {"none", "answer", "timeout"}]
  /\ counted \in [registered : Nat, resolved : Nat, timedOut : Nat]

\* The metrics add up: every callback that was registered is resolved, timed
\* out, or still pending in the store or with the sweeper; none is counted both
\* ways, although answers, repeated answers and sweeps race for it.
Accounted ==
  counted.registered =
    counted.resolved + counted.timedOut + Cardinality(items) + Cardinality(expired)

\* A callback with a timeout is called in the end, with the answer or with the
\* error (if its deadline is within the bound of the clock).
TimeoutSettles ==
  \A c \in Call : deadline[c] \in 1..MaxClock ~> outcome[c] # "none"

\* No callback is told of a timeout unless it has one and it has passed, and none
\* whose answer has been taken or called: a sweep only reports what it took from
\* the store, with a time that is never ahead of the clock.
NoEarlyTimeout ==
  [][\A c \in Call :
       outcome'[c] = "timeout" /\ outcome[c] # "timeout" =>
         outcome[c] = "none" /\ deadline[c] \in 1..clock /\ c \notin taken]_ackVars

\* No callback is told of a timeout too early (NoEarlyTimeout); and as long as
\* the socket stays open, a callback with a timeout is called in the end: neither
\* an answer that comes late or twice nor a sweep that began before the entry was
\* added loses it.
TimeoutsAreExact ==
  /\ NoEarlyTimeout
  /\ \A c \in Call : deadline[c] \in 1..MaxClock ~> (outcome[c] # "none" \/ ~connected)
=============================================================================
