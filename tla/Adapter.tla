------------------------------ MODULE Adapter ------------------------------
(***************************************************************************)
(* localAdapter: the room tables of a namespace as the code keeps them. A   *)
(* room is an entry with its members; rooms maps a name to its entry, sids  *)
(* maps a socket id to the entries it is in, and removeSocket and delete    *)
(* follow these pointers. An entry is dropped when its last member leaves   *)
(* and a later join makes a new one, so that a pointer may refer to an      *)
(* earlier entry of the same room: entries of a room are numbered in the    *)
(* order they are made.                                                    *)
(*                                                                         *)
(* Every action but ApplyMatch's callbacks is one section under the         *)
(* adapter's mutex.                                                        *)
(***************************************************************************)
EXTENDS Integers, Sequences, FiniteSets

CONSTANTS
  Sid,         \* socket ids
  Obj,         \* sockets (serverSocket objects)
  IdOf,        \* IdOf[o]: the id of o; a recovered socket has its predecessor's
  Room,        \* room names
  OwnRoom,     \* OwnRoom[i]: the room named like the socket id i
  NoObj,       \* no socket
  Call,        \* concurrent calls of apply
  Ops,         \* what the callbacks of apply may do to a socket
  MaxEntries,  \* bound: entries made per room
  MaxEpoch,    \* bound: calls of apply
  MaxTo        \* bound: rooms named by one broadcast

ASSUME AdapterAssumption ==
  /\ IdOf \in [Obj -> Sid]
  /\ OwnRoom \in [Sid -> Room]
  /\ NoObj \notin Obj
  /\ Ops \subseteq {"send", "join", "leave", "disconnect"}
  /\ MaxEntries \in Nat /\ MaxEpoch \in Nat /\ MaxTo \in Nat

VARIABLES
  rooms,        \* [room]: number of its entry in localAdapter.rooms, 0 if none
  made,         \* [room]: entries made so far
  members,      \* [room][sid]: roomEntry.members of that entry
  sids,         \* [sid][room]: number of the entry localAdapter.sids points to
  socketByID,   \* [sid]: localAdapter.socketByID
  epoch,        \* localAdapter.epoch
  matchSeen,    \* [o]: serverSocket.matchSeen
  matchExcept,  \* [o]: serverSocket.matchExcept
  phase,        \* [o]: new, half (in socketByID only), live, gone
  todo,         \* [call][o]: calls of fn for o that apply has yet to make
  args          \* [call]: its options, its token and what its fn does

indexVars == <<rooms, made, members, sids, socketByID>>
matchVars == <<epoch, matchSeen, matchExcept, todo, args>>
vars == <<indexVars, matchVars, phase>>

Nobody == [i \in Sid |-> NoObj]
Idle == [o \in Obj |-> 0]

\* Rooms a broadcast names, and rooms it excepts.
To == UNION {[1 .. k -> Room] : k \in 0 .. MaxTo}
Except == {{}} \cup {{r} : r \in Room}

\* What fn does to a socket: send a packet, SocketsJoin, SocketsLeave or
\* DisconnectSockets.
Fn == {f \in [op : Ops, target : Except] : f.op \in {"join", "leave"} <=> f.target # {}}

NoArgs == [to |-> <<>>, except |-> {}, token |-> 0, op |-> "send", target |-> {}]

Init ==
  /\ rooms = [r \in Room |-> 0]
  /\ made = [r \in Room |-> 0]
  /\ members = [r \in Room |-> Nobody]
  /\ sids = [i \in Sid |-> [r \in Room |-> 0]]
  /\ socketByID = Nobody
  /\ epoch = 0
  /\ matchSeen = Idle
  /\ matchExcept = Idle
  /\ phase = [o \in Obj |-> "new"]
  /\ todo = [c \in Call |-> Idle]
  /\ args = [c \in Call |-> NoArgs]

-----------------------------------------------------------------------------
\* addAllWithRoomOwnership: enter o under its id into the rooms rs, making the
\* entries that are missing.
AddAll(o, rs) ==
  LET i == IdOf[o]
      entry(r) == IF rooms[r] = 0 THEN made[r] + 1 ELSE rooms[r]
      others(r) == IF rooms[r] = 0 THEN Nobody ELSE members[r]
  IN /\ \A r \in rs : rooms[r] = 0 => made[r] < MaxEntries
     /\ rooms' = [r \in Room |-> IF r \in rs THEN entry(r) ELSE rooms[r]]
     /\ made' = [r \in Room |-> IF r \in rs /\ rooms[r] = 0 THEN made[r] + 1 ELSE made[r]]
     /\ members' = [r \in Room |->
                      IF r \in rs THEN [others(r) EXCEPT ![i] = o] ELSE members[r]]
     /\ sids' = [sids EXCEPT ![i] = [r \in Room |-> IF r \in rs THEN entry(r) ELSE @[r]]]
     /\ UNCHANGED socketByID

\* Mutant: the pointer of sids is left behind.
DeleteKeepsPointer(i, room) ==
  /\ IF rooms[room] = 0
       THEN UNCHANGED <<rooms, members>>
       ELSE /\ members' = [members EXCEPT ![room][i] = NoObj]
            /\ rooms' = [rooms EXCEPT ![room] = IF members'[room] = Nobody THEN 0 ELSE @]
  /\ UNCHANGED <<made, sids, socketByID>>

\* delete: take the id i out of a room, and drop the entry with its last member.
Delete(i, room) ==
  /\ IF rooms[room] = 0
       THEN UNCHANGED <<rooms, members, sids>>
       ELSE /\ sids' = [sids EXCEPT ![i][room] = 0]
            /\ members' = [members EXCEPT ![room][i] = NoObj]
            /\ rooms' = [rooms EXCEPT ![room] = IF members'[room] = Nobody THEN 0 ELSE @]
  /\ UNCHANGED <<made, socketByID>>

\* Mutant: the socket stays in socketByID.
RemoveSocketKeepsId(i) ==
  LET held == {r \in Room : sids[i][r] # 0 /\ sids[i][r] = rooms[r]}
  IN /\ members' = [r \in Room |->
                      IF r \in held THEN [members[r] EXCEPT ![i] = NoObj] ELSE members[r]]
     /\ rooms' = [r \in Room |->
                    IF r \in held /\ members'[r] = Nobody THEN 0 ELSE rooms[r]]
     /\ sids' = [sids EXCEPT ![i] = [r \in Room |-> 0]]
     /\ UNCHANGED <<made, socketByID>>

\* removeSocket: follow the pointers of sids. A pointer to an entry that was
\* dropped before would find it without members and without a name.
RemoveSocket(i) ==
  LET held == {r \in Room : sids[i][r] # 0 /\ sids[i][r] = rooms[r]}
  IN /\ members' = [r \in Room |->
                      IF r \in held THEN [members[r] EXCEPT ![i] = NoObj] ELSE members[r]]
     /\ rooms' = [r \in Room |->
                    IF r \in held /\ members'[r] = Nobody THEN 0 ELSE rooms[r]]
     /\ sids' = [sids EXCEPT ![i] = [r \in Room |-> 0]]
     /\ socketByID' = [socketByID EXCEPT ![i] = NoObj]
     /\ UNCHANGED made

-----------------------------------------------------------------------------
\* addSocket, first section
AddSocket(o) ==
  /\ phase[o] = "new"
  /\ socketByID' = [socketByID EXCEPT ![IdOf[o]] = o]
  /\ phase' = [phase EXCEPT ![o] = "half"]
  /\ UNCHANGED <<rooms, made, members, sids, matchVars>>

\* addSocket, second section: the room named like the socket
AddOwnRoom(o) ==
  /\ phase[o] = "half"
  /\ AddAll(o, {OwnRoom[IdOf[o]]})
  /\ phase' = [phase EXCEPT ![o] = "live"]
  /\ UNCHANGED matchVars

\* Socket.Join, by a handler or another goroutine of the application, which may
\* outlive the connection
Join(o) ==
  /\ phase[o] \in {"live", "gone"}
  /\ \E rs \in SUBSET Room : Cardinality(rs) <= MaxTo /\ AddAll(o, rs)
  /\ UNCHANGED <<matchVars, phase>>

\* Socket.Leave
Leave(o) ==
  /\ phase[o] \in {"live", "gone"}
  /\ \E room \in Room : Delete(IdOf[o], room)
  /\ UNCHANGED <<matchVars, phase>>

\* Namespace.remove, once per socket
Remove(o) ==
  /\ phase[o] = "live"
  /\ RemoveSocket(IdOf[o])
  /\ phase' = [phase EXCEPT ![o] = "gone"]
  /\ UNCHANGED matchVars

-----------------------------------------------------------------------------
ObjectsIn(table) == {table[i] : i \in Sid} \ {NoObj}

\* Mutant: the epoch is not advanced.
NextTokenSame == epoch

\* The token of a call of apply
NextToken == epoch + 1

\* markExcept for every room of except that has an entry
MarkExcept(except, token) ==
  [o \in Obj |-> IF \E r \in except : rooms[r] # 0 /\ o \in ObjectsIn(members[r])
                   THEN token ELSE matchExcept[o]]

\* appendMatches for one room, if it has an entry: how often each socket has been
\* appended, and its matchSeen.
AppendMatches(acc, room, token, marked) ==
  LET hit(o) == /\ rooms[room] # 0
                /\ o \in ObjectsIn(members[room])
                /\ acc.seen[o] # token
                /\ marked[o] # token
  IN [out  |-> [o \in Obj |-> acc.out[o] + (IF hit(o) THEN 1 ELSE 0)],
      seen |-> [o \in Obj |-> IF hit(o) THEN token ELSE acc.seen[o]]]

\* The loop of apply: the matches after the first k rooms of the sequence "to".
MatchRooms(to, token, marked) ==
  LET step[k \in 0 .. Len(to)] ==
        IF k = 0 THEN [out |-> Idle, seen |-> matchSeen]
        ELSE AppendMatches(step[k - 1], to[k], token, marked)
  IN step

\* Without rooms every registered socket is matched, and matchSeen not used.
AllMatches(token, marked) ==
  [out  |-> [o \in Obj |-> IF o \in ObjectsIn(socketByID) /\ marked[o] # token THEN 1 ELSE 0],
   seen |-> matchSeen]

\* apply up to the unlock: the sockets fn will be called for, whatever fn is
ApplyMatch(c, to, except) ==
  LET token == NextToken
      marked == MarkExcept(except, token)
      matches == IF to = <<>> THEN AllMatches(token, marked)
                 ELSE MatchRooms(to, token, marked)[Len(to)]
  IN /\ todo[c] = Idle
     /\ epoch < MaxEpoch
     /\ epoch' = token
     /\ matchExcept' = marked
     /\ matchSeen' = matches.seen
     /\ todo' = [todo EXCEPT ![c] = matches.out]
     /\ UNCHANGED <<indexVars, phase>>
     /\ \E f \in Fn :
          args' = [args EXCEPT ![c] = [to |-> to, except |-> except, token |-> token,
                                       op |-> f.op, target |-> f.target]]

\* apply calls fn for one of its matches, and returns after the last one.
\* Disconnect does nothing unless the socket is connected.
ApplyCall(c, o) ==
  LET op == args[c].op
      target == args[c].target
  IN /\ todo[c][o] > 0
     /\ todo' = [todo EXCEPT ![c][o] = @ - 1]
     /\ \/ op = "send" /\ UNCHANGED <<indexVars, phase>>
        \/ /\ op = "join"
           /\ AddAll(o, target)
           /\ UNCHANGED phase
        \/ /\ op = "leave"
           /\ \E room \in target : Delete(IdOf[o], room)
           /\ UNCHANGED phase
        \/ /\ op = "disconnect"
           /\ IF phase[o] = "live"
                THEN /\ RemoveSocket(IdOf[o])
                     /\ phase' = [phase EXCEPT ![o] = "gone"]
                ELSE UNCHANGED <<indexVars, phase>>
     /\ args' = IF todo'[c] = Idle THEN [args EXCEPT ![c] = NoArgs] ELSE args
     /\ UNCHANGED <<epoch, matchSeen, matchExcept>>

-----------------------------------------------------------------------------
\* socketRooms: what onClose saves with the session
SocketRooms(i) == {r \in Room : sids[i][r] # 0}

\* Mutant: a broadcast without rooms is for nobody.
RecoveryPacketMatchesNone(to, except, held) ==
  except \cap held = {} /\ to \cap held # {}

\* recoveryPacketMatches: is a packet of the recovery log meant for a session
\* with these rooms?
RecoveryPacketMatches(to, except, held) ==
  except \cap held = {} /\ (to = {} \/ to \cap held # {})

-----------------------------------------------------------------------------
Socket(o) == AddSocket(o) \/ AddOwnRoom(o) \/ Join(o) \/ Leave(o) \/ Remove(o)

Apply(c) ==
  \/ \E to \in To, except \in Except : ApplyMatch(c, to, except)
  \/ \E o \in Obj : ApplyCall(c, o)

Next == (\E o \in Obj : Socket(o)) \/ (\E c \in Call : Apply(c))

Spec == Init /\ [][Next]_vars

-----------------------------------------------------------------------------
Phase == {"new", "half", "live", "gone"}
Slot == [Sid -> Obj \cup {NoObj}]

\* The part of the type invariant that concerns the tables and the options of
\* the calls.
IndexTypeOK ==
  /\ rooms \in [Room -> Nat]
  /\ made \in [Room -> Nat]
  /\ members \in [Room -> Slot]
  /\ sids \in [Sid -> [Room -> Nat]]
  /\ socketByID \in Slot
  /\ phase \in [Obj -> Phase]
  /\ args \in [Call -> [to : Seq(Room), except : SUBSET Room, token : Nat,
                        op : {"send", "join", "leave", "disconnect"}, target : SUBSET Room]]
  /\ epoch \in Nat

\* Type invariant of the room tables and of the calls of apply.
TypeOK ==
  /\ IndexTypeOK
  /\ matchSeen \in [Obj -> Nat]
  /\ matchExcept \in [Obj -> Nat]
  /\ todo \in [Call -> [Obj -> Nat]]

\* The two tables agree, whatever joins, leaves, removals and callbacks are
\* interleaved: sids points from an id to exactly the current entries that have
\* it as a member, never to a dropped one, and an entry exists exactly while it
\* has members.
IndexConsistent ==
  \A r \in Room :
    /\ rooms[r] = 0 <=> members[r] = Nobody
    /\ \A i \in Sid : IF members[r][i] = NoObj THEN sids[i][r] = 0
                      ELSE sids[i][r] = rooms[r]

\* The adapter implements the plain table of rooms: dropping and making entries
\* does not show.
Index == INSTANCE RoomIndex WITH registered <- socketByID, joined <- members
IndexSpec == Index!Spec

\* apply calls fn exactly once for every socket the broadcast is meant for, and
\* for no other: the union of the rooms, each member once although it may be in
\* several of them, without the members of the rooms in except.
ApplyIsExact ==
  [][\A c \in Call :
       args'[c] \notin {args[c], NoArgs} =>
         LET to == {args'[c].to[k] : k \in DOMAIN args'[c].to}
         IN \A o \in Obj :
              todo'[c][o] = IF o \in Index!Matches(to, args'[c].except) THEN 1 ELSE 0]_vars

\* The recovery log replays to a session exactly the broadcasts that would have
\* reached its socket: for a registered socket whose memberships are all its
\* own, the rooms that onClose saves select the same packets as apply.
ReplayAudience ==
  \A i \in Sid :
    LET o == socketByID[i]
    IN o # NoObj /\ (\A r \in Room : members[r][i] \in {o, NoObj}) =>
         \A to, except \in SUBSET Room :
           o \in Index!Matches(to, except)
             <=> RecoveryPacketMatches(to, except, SocketRooms(i))

\* docs/prometheus.md describes sio_namespace_room_memberships as the current
\* memberships: every member of a room is a socket of the namespace.
MembersAreSockets ==
  \A r \in Room, i \in Sid : members[r][i] # NoObj => socketByID[i] # NoObj
=============================================================================
