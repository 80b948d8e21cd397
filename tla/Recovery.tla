------------------------------ MODULE Recovery ------------------------------
(***************************************************************************)
(* Connection state recovery on one node: recoveryStore with its clock, the *)
(* broadcasts that are numbered (nextOffset), logged and applied in three   *)
(* steps, and a client whose connection breaks, whose session is saved and  *)
(* removed by onClose, and which comes back with the offset of the last     *)
(* broadcast it has received. Every broadcast is meant for the client; that *)
(* the log finds the audience of a broadcast is shown in Adapter.          *)
(*                                                                         *)
(* log, save, recover and the sweep are given a time that was read before   *)
(* they got the lock of the store: it may be up to Delay old. nextOffset    *)
(* reads the clock under the lock. In a behaviour where broadcasts overlap  *)
(* with nothing (overlap), no call has to wait for the lock.               *)
(***************************************************************************)
EXTENDS Integers

CONSTANTS
  Bcast,     \* broadcasts
  MaxAge,    \* recoveryStore.maxAge
  MaxClock,  \* bound: clock ticks
  NoSession, \* no session
  Delay,     \* how long a call may wait for the store after reading the clock
  Overlap    \* what broadcasts may overlap with: each other ("emit"), the coming and
             \* going of the client ("client")

ASSUME RecoveryAssumption ==
  /\ MaxAge \in Nat \ {0}
  /\ MaxClock \in Nat
  /\ NoSession \notin Nat
  /\ Delay \in 0..MaxAge
  /\ Overlap \subseteq {"emit", "client"}

VARIABLES
  clock,     \* the time
  next,      \* recoveryStore.next
  packets,   \* recoveryStore.packets: the broadcasts in the log
  session,   \* when the session in the store was saved
  stage,     \* [b]: new, numbered, failed, logged or done
  offset,    \* [b]: its offset
  created,   \* [b]: when it was logged
  appended,  \* packets appended to the log so far
  position,  \* [b]: which of them it is
  link,      \* the client: up, lost, saved, away, taken, registered or fresh
  last,      \* the offset the client has seen last, 0 if none
  replay,    \* broadcasts recover found for the client
  got,       \* [b]: how often the client received it
  returned,  \* when the client's session was last recovered, 0 if never
  overlap    \* what broadcasts do overlap with in this behaviour

storeVars == <<next, packets, session>>
bcastVars == <<stage, offset, created, appended, position>>
clientVars == <<link, last, replay, got, returned>>
vars == <<clock, storeVars, bcastVars, clientVars, overlap>>

Init ==
  /\ clock = 1
  /\ next = 0
  /\ packets = {}
  /\ session = NoSession
  /\ stage = [b \in Bcast |-> "new"]
  /\ offset = [b \in Bcast |-> 0]
  /\ created = [b \in Bcast |-> 0]
  /\ appended = 0
  /\ position = [b \in Bcast |-> 0]
  /\ link = "up"
  /\ last = 0
  /\ replay = {}
  /\ got = [b \in Bcast |-> 0]
  /\ returned = 0
  /\ overlap \in SUBSET Overlap

\* Broadcasts that are under way.
Emitting == {b \in Bcast : stage[b] \in {"numbered", "logged"}}

\* Times a call may have read that now gets the store.
Times == {t \in 0..clock : t = clock \/ (overlap # {} /\ t + Delay >= clock)}

-----------------------------------------------------------------------------
\* Mutant: packets are dropped a moment early.
KeptEarly(held, at, now) == {b \in held : at[b] + MaxAge > now + 1}

\* pruneLocked: a packet is kept while it is younger than maxAge, a session
\* until its maxAge has passed.
Kept(held, at, now) == {b \in held : at[b] + MaxAge > now}
Alive(s, now) == IF s # NoSession /\ now > s + MaxAge THEN NoSession ELSE s

\* nextOffset: the time, or one more than the offset before
NextOffset == IF clock > next THEN clock ELSE next + 1

\* Emit takes an offset.
Number(b) ==
  /\ stage[b] = "new"
  /\ "emit" \in overlap \/ Emitting = {}
  /\ "client" \in overlap \/ link \notin {"taken", "registered"}
  /\ next' = NextOffset
  /\ offset' = [offset EXCEPT ![b] = next']
  /\ stage' = [stage EXCEPT ![b] = "numbered"]
  /\ UNCHANGED <<clock, packets, session, created, appended, position, clientVars>>

\* Emit cannot encode the arguments: the offset is used up.
EncodeFails(b) ==
  /\ stage[b] = "numbered"
  /\ stage' = [stage EXCEPT ![b] = "failed"]
  /\ UNCHANGED <<clock, storeVars, offset, created, appended, position, clientVars>>

\* Emit logs the packet.
Log(b, now) ==
  /\ stage[b] = "numbered"
  /\ created' = [created EXCEPT ![b] = now]
  /\ appended' = appended + 1
  /\ position' = [position EXCEPT ![b] = appended']
  /\ packets' = Kept(packets \cup {b}, created', now)
  /\ session' = Alive(session, now)
  /\ stage' = [stage EXCEPT ![b] = "logged"]
  /\ UNCHANGED <<clock, next, offset, clientVars>>

\* Emit sends to the sockets of the adapter: the client gets the packet if its
\* socket is registered and its connection works.
Apply(b) ==
  /\ stage[b] = "logged"
  /\ stage' = [stage EXCEPT ![b] = "done"]
  /\ IF link \in {"up", "registered"}
       THEN /\ got' = [got EXCEPT ![b] = @ + 1]
            /\ last' = offset[b]
       ELSE UNCHANGED <<got, last>>
  /\ UNCHANGED <<clock, storeVars, offset, created, appended, position, link, replay, returned>>

-----------------------------------------------------------------------------
\* Steps of the client and of onClose and add on its behalf.
Client(from, to) ==
  /\ "client" \in overlap \/ Emitting = {}
  /\ link = from
  /\ link' = to

\* The connection breaks; the server does not know yet.
Lose ==
  /\ Client("up", "lost")
  /\ UNCHANGED <<clock, storeVars, bcastVars, last, replay, got, returned>>

\* onClose, recovery.save
Save(now) ==
  /\ Client("lost", "saved")
  /\ session' = now
  /\ packets' = Kept(packets, created, now)
  /\ UNCHANGED <<clock, next, bcastVars, last, replay, got, returned>>

\* onClose, Namespace.remove
Remove ==
  /\ Client("saved", "away")
  /\ UNCHANGED <<clock, storeVars, bcastVars, last, replay, got, returned>>

\* Mutant: the packet with the client's own offset is replayed again.
TakeAgain(now) ==
  /\ Client("away", "taken")
  /\ last # 0
  /\ Alive(session, now) # NoSession
  /\ session' = NoSession
  /\ packets' = Kept(packets, created, now)
  /\ replay' = {b \in packets' : offset[b] >= last}
  /\ returned' = now
  /\ UNCHANGED <<clock, next, bcastVars, last, got>>

\* add, recover: the session is consumed, and the packets after the client's
\* offset copied.
Take(now) ==
  /\ Client("away", "taken")
  /\ last # 0
  /\ Alive(session, now) # NoSession
  /\ session' = NoSession
  /\ packets' = Kept(packets, created, now)
  /\ replay' = {b \in packets' : offset[b] > last}
  /\ returned' = now
  /\ UNCHANGED <<clock, next, bcastVars, last, got>>

\* add, there is no session or the client has no offset: a fresh socket
Fallback(now) ==
  /\ Client("away", "fresh")
  /\ last = 0 \/ Alive(session, now) = NoSession
  /\ session' = IF last = 0 THEN session ELSE NoSession
  /\ packets' = IF last = 0 THEN packets ELSE Kept(packets, created, now)
  /\ UNCHANGED <<clock, next, bcastVars, last, replay, got, returned>>

\* add, adapter.addSocket
Register ==
  /\ Client("taken", "registered")
  /\ UNCHANGED <<clock, storeVars, bcastVars, last, replay, got, returned>>

\* add, the replay in the order of the log
Replay ==
  /\ Client("registered", "up")
  /\ got' = [b \in Bcast |-> got[b] + (IF b \in replay THEN 1 ELSE 0)]
  /\ last' = IF replay = {} THEN last
             ELSE offset[CHOOSE b \in replay : \A p \in replay : position[p] <= position[b]]
  /\ replay' = {}
  /\ UNCHANGED <<clock, storeVars, bcastVars, returned>>

-----------------------------------------------------------------------------
\* recoverySweepLoop
Sweep(now) ==
  /\ packets' = Kept(packets, created, now)
  /\ session' = Alive(session, now)
  /\ UNCHANGED <<clock, next, bcastVars, clientVars>>

Tick ==
  /\ clock < MaxClock
  /\ clock' = clock + 1
  /\ UNCHANGED <<storeVars, bcastVars, clientVars>>

Emit(b) == Number(b) \/ EncodeFails(b) \/ (\E now \in Times : Log(b, now)) \/ Apply(b)

Store(now) == Save(now) \/ Take(now) \/ Fallback(now) \/ Sweep(now)

Next ==
  /\ UNCHANGED overlap
  /\ \/ \E b \in Bcast : Emit(b)
     \/ \E now \in Times : Store(now)
     \/ Lose \/ Remove \/ Register \/ Replay
     \/ Tick

Spec == Init /\ [][Next]_vars

-----------------------------------------------------------------------------
\* Type invariant of the store, the broadcasts and the client.
TypeOK ==
  /\ clock \in Nat
  /\ next \in Nat
  /\ packets \subseteq Bcast
  /\ session \in Nat \cup {NoSession}
  /\ stage \in [Bcast -> {"new", "numbered", "logged", "done", "failed"}]
  /\ offset \in [Bcast -> Nat]
  /\ created \in [Bcast -> Nat]
  /\ appended \in Nat
  /\ position \in [Bcast -> Nat]
  /\ link \in {"up", "lost", "saved", "away", "taken", "registered", "fresh"}
  /\ last \in Nat
  /\ replay \subseteq Bcast
  /\ got \in [Bcast -> Nat]
  /\ returned \in Nat
  /\ overlap \subseteq Overlap

Logged(b) == stage[b] \in {"logged", "done"}

\* While a session is in the store, every broadcast that was logged after it
\* was saved is in the log, whoever prunes meanwhile and with whatever old
\* time: the two deadlines of pruneLocked fit.
PacketsRetained ==
  session # NoSession =>
    \A b \in Bcast : Logged(b) /\ created[b] > session => b \in packets

\* No two broadcasts have the same offset, although many may be emitted within
\* one tick of the clock.
OffsetsDistinct ==
  \A b, p \in Bcast : b # p /\ offset[b] = offset[p] => offset[b] = 0

\* When its session has been recovered and the replay is sent, the client has
\* received every broadcast, except those that were older than maxAge then
\* (README.md: the server "replays missed broadcasts").
ReplaysMissed ==
  link = "up" /\ returned > 0 /\ Emitting = {} =>
    \A b \in Bcast : stage[b] = "done" => got[b] > 0 \/ created[b] + MaxAge <= returned

\* The same without the exception: README.md promises missed broadcasts to a
\* client whose session the server restores.
ReplaysAllMissed ==
  link = "up" /\ returned > 0 /\ Emitting = {} =>
    \A b \in Bcast : stage[b] = "done" => got[b] > 0

\* Only missed broadcasts are replayed: the client gets nothing twice.
ReplaysOnlyMissed == \A b \in Bcast : got[b] <= 1

\* Both hold where a broadcast overlaps neither with another one nor with the
\* steps of onClose and add: each broadcast that recover finds was missed, and
\* each that was missed is found while it is younger than maxAge, however
\* broadcasts, sweeps and reconnects follow each other.
SerialReplayIsExact == overlap = {} => ReplaysMissed /\ ReplaysOnlyMissed
=============================================================================
