---------------------------- MODULE AdapterProofs ----------------------------
(***************************************************************************)
(* Machine-checked proofs about Adapter, for every set of sockets, ids and  *)
(* rooms and every number of concurrent calls: the tables of the adapter    *)
(* agree, they implement RoomIndex, and apply calls fn exactly once for     *)
(* every socket a broadcast is meant for.                                  *)
(***************************************************************************)
EXTENDS Adapter, WellFoundedInduction, NaturalsInduction, TLAPS

\* The empty index of newLocalAdapter is consistent.
LEMMA InitIndex == Init => IndexTypeOK /\ IndexConsistent
BY AdapterAssumption
DEF Init, IndexTypeOK, IndexConsistent, Slot, Phase, Nobody, NoArgs

\* The three operations on the tables keep them well typed and consistent.
LEMMA AddAllIndex ==
  ASSUME IndexTypeOK, IndexConsistent, NEW o \in Obj, NEW rs, AddAll(o, rs)
  PROVE  /\ rooms' \in [Room -> Nat] /\ made' \in [Room -> Nat]
         /\ members' \in [Room -> Slot] /\ sids' \in [Sid -> [Room -> Nat]]
         /\ socketByID' \in Slot
         /\ IndexConsistent'
<1> DEFINE i == IdOf[o]
<1>1. i \in Sid /\ o # NoObj
  BY AdapterAssumption
<1>2. /\ rooms' \in [Room -> Nat] /\ made' \in [Room -> Nat]
      /\ members' \in [Room -> Slot] /\ sids' \in [Sid -> [Room -> Nat]]
      /\ socketByID' \in Slot
  BY <1>1 DEF AddAll, IndexTypeOK, Slot, Nobody
<1>3. IndexConsistent'
  <2> SUFFICES ASSUME NEW r \in Room
               PROVE  /\ rooms'[r] = 0 <=> members'[r] = Nobody
                      /\ \A j \in Sid : IF members'[r][j] = NoObj THEN sids'[j][r] = 0
                                        ELSE sids'[j][r] = rooms'[r]
    BY DEF IndexConsistent, Nobody
  <2>1. CASE r \in rs
    <3>1. /\ rooms'[r] = (IF rooms[r] = 0 THEN made[r] + 1 ELSE rooms[r])
          /\ members'[r] = [(IF rooms[r] = 0 THEN Nobody ELSE members[r]) EXCEPT ![i] = o]
          /\ sids'[i][r] = rooms'[r]
          /\ \A j \in Sid : j # i => sids'[j][r] = sids[j][r]
      BY <1>1, <2>1 DEF AddAll, IndexTypeOK
    <3>2. rooms'[r] # 0
      BY <3>1 DEF IndexTypeOK
    <3>3. /\ members'[r][i] = o
          /\ \A j \in Sid : j # i => members'[r][j] = members[r][j]
      BY <1>1, <3>1 DEF IndexTypeOK, IndexConsistent, Slot, Nobody
    <3>4. \A j \in Sid : j # i => sids[j][r] = 0 \/ rooms[r] # 0
      BY DEF IndexConsistent, IndexTypeOK, Nobody
    <3> QED
      BY <1>1, <3>1, <3>2, <3>3, <3>4 DEF IndexConsistent, Nobody
  <2>2. CASE r \notin rs
    <3>1. /\ rooms'[r] = rooms[r] /\ members'[r] = members[r]
          /\ \A j \in Sid : sids'[j][r] = sids[j][r]
      BY <1>1, <2>2 DEF AddAll, IndexTypeOK
    <3> QED
      BY <3>1 DEF IndexConsistent
  <2> QED
    BY <2>1, <2>2
<1> QED
  BY <1>2, <1>3

\* localAdapter.delete keeps the index consistent.
LEMMA DeleteIndex ==
  ASSUME IndexTypeOK, IndexConsistent, NEW i \in Sid, NEW room \in Room, Delete(i, room)
  PROVE  /\ rooms' \in [Room -> Nat] /\ made' \in [Room -> Nat]
         /\ members' \in [Room -> Slot] /\ sids' \in [Sid -> [Room -> Nat]]
         /\ socketByID' \in Slot
         /\ IndexConsistent'
<1>1. CASE rooms[room] = 0
  BY <1>1 DEF Delete, IndexTypeOK, IndexConsistent, Nobody
<1>2. CASE rooms[room] # 0
  <2>1. /\ sids' = [sids EXCEPT ![i][room] = 0]
        /\ members' = [members EXCEPT ![room][i] = NoObj]
        /\ rooms' = [rooms EXCEPT ![room] = IF members'[room] = Nobody THEN 0 ELSE @]
        /\ UNCHANGED <<made, socketByID>>
    BY <1>2 DEF Delete
  <2>2. /\ rooms' \in [Room -> Nat] /\ made' \in [Room -> Nat]
        /\ members' \in [Room -> Slot] /\ sids' \in [Sid -> [Room -> Nat]]
        /\ socketByID' \in Slot
    BY <2>1 DEF IndexTypeOK, Slot
  <2>3. ASSUME NEW r \in Room
        PROVE  /\ rooms'[r] = 0 <=> members'[r] = Nobody
               /\ \A j \in Sid : IF members'[r][j] = NoObj THEN sids'[j][r] = 0
                                 ELSE sids'[j][r] = rooms'[r]
    <3>1. CASE r # room
      BY <2>1, <3>1 DEF IndexConsistent, IndexTypeOK, Slot
    <3>2. CASE r = room
      <4>1. /\ members'[r][i] = NoObj /\ sids'[i][r] = 0
            /\ \A j \in Sid : j # i => members'[r][j] = members[r][j] /\ sids'[j][r] = sids[j][r]
            /\ rooms'[r] = IF members'[r] = Nobody THEN 0 ELSE rooms[r]
        BY <2>1, <3>2 DEF IndexTypeOK, Slot
      <4>2. rooms[r] # 0
        BY <1>2, <3>2
      <4>3. \A j \in Sid : members'[r][j] # NoObj => members'[r] # Nobody
        BY DEF Nobody
      <4> QED
        BY <4>1, <4>2, <4>3 DEF IndexConsistent
    <3> QED
      BY <3>1, <3>2
  <2> QED
    BY <2>2, <2>3 DEF IndexConsistent, Nobody
<1> QED
  BY <1>1, <1>2

\* localAdapter.removeSocket keeps the index consistent.
LEMMA RemoveIndex ==
  ASSUME IndexTypeOK, IndexConsistent, NEW i \in Sid, RemoveSocket(i)
  PROVE  /\ rooms' \in [Room -> Nat] /\ made' \in [Room -> Nat]
         /\ members' \in [Room -> Slot] /\ sids' \in [Sid -> [Room -> Nat]]
         /\ socketByID' \in Slot
         /\ IndexConsistent'
<1> DEFINE held == {r \in Room : sids[i][r] # 0 /\ sids[i][r] = rooms[r]}
<1>1. /\ members' = [r \in Room |->
                       IF r \in held THEN [members[r] EXCEPT ![i] = NoObj] ELSE members[r]]
      /\ rooms' = [r \in Room |->
                     IF r \in held /\ members'[r] = Nobody THEN 0 ELSE rooms[r]]
      /\ sids' = [sids EXCEPT ![i] = [r \in Room |-> 0]]
      /\ socketByID' = [socketByID EXCEPT ![i] = NoObj]
      /\ UNCHANGED made
  BY DEF RemoveSocket
<1>2. /\ rooms' \in [Room -> Nat] /\ made' \in [Room -> Nat]
      /\ members' \in [Room -> Slot] /\ sids' \in [Sid -> [Room -> Nat]]
      /\ socketByID' \in Slot
  BY <1>1 DEF IndexTypeOK, Slot
<1>3. ASSUME NEW r \in Room
      PROVE  /\ rooms'[r] = 0 <=> members'[r] = Nobody
             /\ \A j \in Sid : IF members'[r][j] = NoObj THEN sids'[j][r] = 0
                               ELSE sids'[j][r] = rooms'[r]
  <2>1. sids'[i][r] = 0 /\ \A j \in Sid : j # i => sids'[j][r] = sids[j][r]
    BY <1>1 DEF IndexTypeOK
  <2>2. members'[r][i] = NoObj /\ \A j \in Sid : j # i => members'[r][j] = members[r][j]
    <3>1. members[r][i] # NoObj => r \in held
      BY DEF IndexConsistent, Nobody
    <3> QED
      BY <1>1, <3>1 DEF IndexTypeOK, Slot
  <2>3. \A j \in Sid : members'[r][j] # NoObj => members'[r] # Nobody
    BY DEF Nobody
  <2>4. CASE r \in held
    BY <1>1, <2>1, <2>2, <2>3, <2>4 DEF IndexConsistent
  <2>5. CASE r \notin held
    BY <1>1, <2>1, <2>2, <2>3, <2>5 DEF IndexConsistent
  <2> QED
    BY <2>4, <2>5
<1> QED
  BY <1>2, <1>3 DEF IndexConsistent, Nobody

-----------------------------------------------------------------------------
\* The calls of apply keep their options; only ApplyMatch sets them.
LEMMA ArgsStep ==
  ASSUME IndexTypeOK, NEW c \in Call, NEW to \in To, NEW except \in Except,
         ApplyMatch(c, to, except)
  PROVE  IndexTypeOK' /\ UNCHANGED indexVars
<1>1. to \in Seq(Room)
  <2>1. PICK k \in 0 .. MaxTo : to \in [1 .. k -> Room]
    BY DEF To
  <2> QED
    BY <2>1, AdapterAssumption
<1>2. /\ except \subseteq Room
      /\ \A f \in Fn : f.target \subseteq Room
                      /\ f.op \in {"send", "join", "leave", "disconnect"}
  <2>1. \A f \in Fn : f.op \in Ops /\ f.target \in Except
    BY DEF Fn
  <2>2. \A e \in Except : e \subseteq Room
    BY DEF Except
  <2> QED
    BY <2>1, <2>2, AdapterAssumption, Zenon
<1>3. epoch' \in Nat /\ NextToken \in Nat
  BY DEF ApplyMatch, NextToken, IndexTypeOK
<1>4. args' \in [Call -> [to : Seq(Room), except : SUBSET Room, token : Nat,
                          op : {"send", "join", "leave", "disconnect"}, target : SUBSET Room]]
  <2>1. PICK f \in Fn :
          args' = [args EXCEPT ![c] = [to |-> to, except |-> except, token |-> NextToken,
                                       op |-> f.op, target |-> f.target]]
    BY Zenon DEF ApplyMatch
  <2> QED
    BY <1>1, <1>2, <1>3, <2>1 DEF IndexTypeOK
<1> QED
  BY <1>3, <1>4 DEF ApplyMatch, IndexTypeOK, indexVars

\* One step of any socket or call keeps the tables consistent.
LEMMA StepIndex == IndexTypeOK /\ IndexConsistent /\ [Next]_vars => IndexTypeOK' /\ IndexConsistent'
<1> SUFFICES ASSUME IndexTypeOK, IndexConsistent, [Next]_vars
             PROVE  IndexTypeOK' /\ IndexConsistent'
  OBVIOUS
<1>1. ASSUME UNCHANGED indexVars
      PROVE  IndexConsistent'
  BY <1>1 DEF IndexConsistent, indexVars, Nobody
<1>2. ASSUME NEW o \in Obj, Socket(o)
      PROVE  IndexTypeOK' /\ IndexConsistent'
  <2>0. IdOf[o] \in Sid /\ UNCHANGED <<args, epoch>>
    BY <1>2, AdapterAssumption
    DEF Socket, AddSocket, AddOwnRoom, Join, Leave, Remove, matchVars
  <2>1. CASE AddSocket(o)
    <3>1. IndexTypeOK'
      BY <2>0, <2>1 DEF AddSocket, IndexTypeOK, Slot, Phase
    <3>2. IndexConsistent'
      BY <2>1 DEF AddSocket, IndexConsistent, Nobody
    <3> QED
      BY <3>1, <3>2
  <2>2. CASE AddOwnRoom(o)
    <3>1. AddAll(o, {OwnRoom[IdOf[o]]}) /\ phase' \in [Obj -> Phase]
      BY <2>2 DEF AddOwnRoom, IndexTypeOK, Phase
    <3> QED
      BY <2>0, <3>1, AddAllIndex DEF IndexTypeOK
  <2>3. CASE Join(o)
    <3>1. PICK rs \in SUBSET Room : AddAll(o, rs)
      BY <2>3 DEF Join
    <3>2. UNCHANGED phase
      BY <2>3 DEF Join
    <3> QED
      BY <2>0, <3>1, <3>2, AddAllIndex DEF IndexTypeOK
  <2>4. CASE Leave(o)
    <3>1. PICK room \in Room : Delete(IdOf[o], room)
      BY <2>4 DEF Leave
    <3>2. UNCHANGED phase
      BY <2>4 DEF Leave
    <3> QED
      BY <2>0, <3>1, <3>2, DeleteIndex DEF IndexTypeOK
  <2>5. CASE Remove(o)
    <3>1. RemoveSocket(IdOf[o]) /\ phase' \in [Obj -> Phase]
      BY <2>5 DEF Remove, IndexTypeOK, Phase
    <3> QED
      BY <2>0, <3>1, RemoveIndex DEF IndexTypeOK
  <2> QED
    BY <1>2, <2>1, <2>2, <2>3, <2>4, <2>5 DEF Socket
<1>3. ASSUME NEW c \in Call, NEW o \in Obj, ApplyCall(c, o)
      PROVE  IndexTypeOK' /\ IndexConsistent'
  <2>a. args' \in [Call -> [to : Seq(Room), except : SUBSET Room, token : Nat,
                           op : {"send", "join", "leave", "disconnect"}, target : SUBSET Room]]
    BY <1>3 DEF ApplyCall, IndexTypeOK, NoArgs
  <2>0. IdOf[o] \in Sid /\ UNCHANGED epoch /\ args[c].target \subseteq Room
    BY <1>3, AdapterAssumption DEF ApplyCall, IndexTypeOK
  <2>1. CASE UNCHANGED <<indexVars, phase>>
    BY <1>1, <2>a, <2>0, <2>1 DEF IndexTypeOK, indexVars
  <2>2. CASE AddAll(o, args[c].target) /\ UNCHANGED phase
    BY <2>a, <2>0, <2>2, AddAllIndex DEF IndexTypeOK
  <2>3. CASE (\E room \in args[c].target : Delete(IdOf[o], room)) /\ UNCHANGED phase
    BY <2>a, <2>0, <2>3, DeleteIndex, Zenon DEF IndexTypeOK
  <2>4. CASE RemoveSocket(IdOf[o]) /\ phase' = [phase EXCEPT ![o] = "gone"]
    <3>1. phase' \in [Obj -> Phase]
      BY <2>4 DEF IndexTypeOK, Phase
    <3> QED
      BY <2>a, <2>0, <2>4, <3>1, RemoveIndex DEF IndexTypeOK
  <2> QED
    BY <1>3, <2>1, <2>2, <2>3, <2>4 DEF ApplyCall
<1>4. ASSUME NEW c \in Call, NEW to \in To, NEW except \in Except,
             ApplyMatch(c, to, except)
      PROVE  IndexTypeOK' /\ IndexConsistent'
  BY <1>1, <1>4, ArgsStep
<1>5. CASE UNCHANGED vars
  BY <1>1, <1>5 DEF vars, indexVars, matchVars, IndexTypeOK
<1> QED
  BY <1>2, <1>3, <1>4, <1>5 DEF Next, Apply

\* The tables of the adapter agree after every step of every socket, callback
\* and call (IndexConsistent): removeSocket and delete never follow a pointer
\* to a dropped entry, and no entry is kept without members.
THEOREM TablesAgree == Spec => []IndexConsistent
<1>1. Spec => [](IndexTypeOK /\ IndexConsistent)
  BY InitIndex, StepIndex, PTL DEF Spec
<1> QED
  BY <1>1, PTL

-----------------------------------------------------------------------------
\* addAllWithRoomOwnership is JoinAll of the abstract index.
LEMMA AddAllRefines ==
  ASSUME IndexTypeOK, IndexConsistent, NEW o \in Obj, NEW rs \in SUBSET Room, AddAll(o, rs)
  PROVE  Index!Next
<1>1. ASSUME NEW r \in Room, rooms[r] = 0
      PROVE  members[r] = Nobody
  BY <1>1 DEF IndexConsistent
<1>2. members' = [r \in Room |->
                    IF r \in rs THEN [members[r] EXCEPT ![IdOf[o]] = o] ELSE members[r]]
  BY <1>1 DEF AddAll
<1>3. Index!JoinAll(o, rs)
  BY <1>2 DEF AddAll, Index!JoinAll
<1> QED
  BY <1>3 DEF Index!Next

\* localAdapter.delete is Leave of the abstract index.
LEMMA DeleteRefines ==
  ASSUME IndexTypeOK, NEW i \in Sid, NEW room \in Room, Delete(i, room)
  PROVE  [Index!Next]_(Index!vars)
<1>1. CASE rooms[room] = 0
  BY <1>1 DEF Delete, Index!vars
<1>2. CASE rooms[room] # 0
  <2>1. Index!Leave(i, room)
    BY <1>2 DEF Delete, Index!Leave
  <2> QED
    BY <2>1 DEF Index!Next
<1> QED
  BY <1>1, <1>2

\* localAdapter.removeSocket is Remove of the abstract index.
LEMMA RemoveRefines ==
  ASSUME IndexTypeOK, IndexConsistent, NEW i \in Sid, RemoveSocket(i)
  PROVE  Index!Next
<1> DEFINE held == {r \in Room : sids[i][r] # 0 /\ sids[i][r] = rooms[r]}
<1>1. ASSUME NEW r \in Room, r \notin held
      PROVE  members[r] = [members[r] EXCEPT ![i] = NoObj]
  <2>1. members[r][i] = NoObj
    BY <1>1 DEF IndexConsistent, Nobody
  <2> QED
    BY <2>1 DEF IndexTypeOK, Slot
<1>2. members' = [r \in Room |-> [members[r] EXCEPT ![i] = NoObj]]
  BY <1>1 DEF RemoveSocket
<1>3. Index!Remove(i)
  BY <1>2 DEF RemoveSocket, Index!Remove
<1> QED
  BY <1>3 DEF Index!Next

\* Every step of the adapter is a step of the plain table, or leaves it alone.
LEMMA StepRefines ==
  ASSUME IndexTypeOK, IndexConsistent, [Next]_vars
  PROVE  [Index!Next]_(Index!vars)
<1>1. ASSUME NEW o \in Obj, Socket(o)
      PROVE  [Index!Next]_(Index!vars)
  <2>0. IdOf[o] \in Sid /\ OwnRoom[IdOf[o]] \in Room
    BY AdapterAssumption
  <2>1. CASE AddSocket(o)
    <3>1. Index!Register(o)
      BY <2>1 DEF AddSocket, Index!Register
    <3> QED
      BY <3>1 DEF Index!Next
  <2>2. CASE AddOwnRoom(o)
    BY <2>0, <2>2, AddAllRefines DEF AddOwnRoom
  <2>3. CASE Join(o)
    BY <2>3, AddAllRefines DEF Join
  <2>4. CASE Leave(o)
    BY <2>0, <2>4, DeleteRefines DEF Leave
  <2>5. CASE Remove(o)
    BY <2>0, <2>5, RemoveRefines DEF Remove
  <2> QED
    BY <1>1, <2>1, <2>2, <2>3, <2>4, <2>5 DEF Socket
<1>2. ASSUME NEW c \in Call, NEW o \in Obj, ApplyCall(c, o)
      PROVE  [Index!Next]_(Index!vars)
  <2>0. IdOf[o] \in Sid /\ args[c].target \in SUBSET Room
    BY AdapterAssumption DEF IndexTypeOK
  <2>1. CASE UNCHANGED indexVars
    BY <2>1 DEF indexVars, Index!vars
  <2>2. CASE AddAll(o, args[c].target)
    BY <2>0, <2>2, AddAllRefines
  <2>3. CASE \E room \in args[c].target : Delete(IdOf[o], room)
    BY <2>0, <2>3, DeleteRefines
  <2>4. CASE RemoveSocket(IdOf[o])
    BY <2>0, <2>4, RemoveRefines
  <2> QED
    BY <1>2, <2>1, <2>2, <2>3, <2>4 DEF ApplyCall, indexVars
<1>3. CASE UNCHANGED indexVars
  BY <1>3 DEF indexVars, Index!vars
<1> QED
  BY <1>1, <1>2, <1>3 DEF Next, Apply, ApplyMatch, vars

\* The adapter implements the plain table of rooms (IndexSpec): numbering,
\* dropping and making entries anew does not show to its callers.
THEOREM IndexImplemented == Spec => IndexSpec
<1>1. Init => Index!Init
  BY DEF Init, Index!Init, Nobody, Index!Nobody
<1>2. Spec => [](IndexTypeOK /\ IndexConsistent)
  BY InitIndex, StepIndex, PTL DEF Spec
<1> QED
  BY <1>1, <1>2, StepRefines, PTL DEF Spec, IndexSpec, Index!Spec

-----------------------------------------------------------------------------
\* A socket is entered only under its own id.
Keyed ==
  /\ \A i \in Sid : socketByID[i] # NoObj => IdOf[socketByID[i]] = i
  /\ \A r \in Room, i \in Sid : members[r][i] # NoObj => IdOf[members[r][i]] = i

\* Every step keeps each socket under its own id in the tables.
LEMMA StepKeyed ==
  ASSUME IndexTypeOK, Keyed, [Index!Next]_(Index!vars)
  PROVE  Keyed'
<1>1. ASSUME NEW o \in Obj, Index!Register(o)
      PROVE  Keyed'
  BY <1>1, AdapterAssumption DEF Index!Register, Keyed, IndexTypeOK, Slot
<1>2. ASSUME NEW o \in Obj, NEW rs \in SUBSET Room, Index!JoinAll(o, rs)
      PROVE  Keyed'
  BY <1>2, AdapterAssumption DEF Index!JoinAll, Keyed, IndexTypeOK, Slot
<1>3. ASSUME NEW i \in Sid, Index!Remove(i)
      PROVE  Keyed'
  BY <1>3, AdapterAssumption DEF Index!Remove, Keyed, IndexTypeOK, Slot
<1>4. ASSUME NEW i \in Sid, NEW room \in Room, Index!Leave(i, room)
      PROVE  Keyed'
  BY <1>4, AdapterAssumption, Zenon DEF Index!Leave, Keyed, IndexTypeOK, Slot
<1>5. CASE UNCHANGED Index!vars
  BY <1>5 DEF Index!vars, Keyed
<1> QED
  BY <1>1, <1>2, <1>3, <1>4, <1>5 DEF Index!Next

\* In consistent tables the rooms that socketRooms reports select the same
\* broadcasts as the members that apply looks up.
LEMMA SameAudience ==
  ASSUME IndexTypeOK, IndexConsistent, Keyed
  PROVE  ReplayAudience
<1> SUFFICES ASSUME NEW i \in Sid, socketByID[i] # NoObj,
                    \A r \in Room : members[r][i] \in {socketByID[i], NoObj},
                    NEW to \in SUBSET Room, NEW except \in SUBSET Room
             PROVE  socketByID[i] \in Index!Matches(to, except)
                      <=> RecoveryPacketMatches(to, except, SocketRooms(i))
  BY DEF ReplayAudience
<1> DEFINE o == socketByID[i]
<1>1. o \in Index!ObjectsIn(socketByID)
  BY DEF Index!ObjectsIn
<1>2. ASSUME NEW r \in Room
      PROVE  o \in Index!ObjectsIn(members[r]) <=> r \in SocketRooms(i)
  <2>1. rooms[r] # 0 \/ members[r][i] = NoObj
    BY DEF IndexConsistent, Nobody
  <2>2. r \in SocketRooms(i) <=> members[r][i] = o
    BY <2>1 DEF SocketRooms, IndexConsistent
  <2>3. \A j \in Sid : members[r][j] = o => j = i
    BY DEF Keyed
  <2> QED
    BY <2>2, <2>3 DEF Index!ObjectsIn
<1>3. o \in UNION {Index!ObjectsIn(members[r]) : r \in except}
        <=> except \cap SocketRooms(i) # {}
  BY <1>2
<1>4. o \in UNION {Index!ObjectsIn(members[r]) : r \in to} <=> to \cap SocketRooms(i) # {}
  BY <1>2
<1> QED
  BY <1>1, <1>3, <1>4 DEF Index!Matches, RecoveryPacketMatches

\* What onClose saves and recoveryPacketMatches compares is right
\* (ReplayAudience): a packet is replayed to a session exactly when apply would
\* have sent it to the socket.
THEOREM AudienceKept == Spec => []ReplayAudience
<1>1. Init => Keyed
  BY DEF Init, Keyed, Nobody
<1>2. IndexTypeOK /\ IndexConsistent /\ Keyed /\ [Next]_vars => Keyed'
  BY StepRefines, StepKeyed
<1>3. Spec => [](IndexTypeOK /\ IndexConsistent)
  BY InitIndex, StepIndex, PTL DEF Spec
<1> QED
  BY <1>1, <1>2, <1>3, SameAudience, PTL DEF Spec

-----------------------------------------------------------------------------
\* A set of natural numbers that is not empty has a least element.
LEMMA NatMin ==
  ASSUME NEW T \in SUBSET Nat, T # {}
  PROVE  \E x \in T : \A y \in T : x <= y
<1>1. IsWellFoundedOn(OpToRel(<, Nat), Nat)
  BY NatLessThanWellFounded, Zenon
<1>2. PICK x \in T : \A y \in T : ~(<<y, x>> \in OpToRel(<, Nat))
  BY <1>1, WFMin, Zenon
<1>3. \A y \in T : ~(y < x)
  BY <1>2, Zenon DEF OpToRel
<1> QED
  BY <1>3

\* The loop of apply over the rooms is a function of the number of rooms it has
\* looked at.
LEMMA MatchRoomsUnfolds ==
  ASSUME NEW to \in Seq(Room), NEW token, NEW marked
  PROVE  MatchRooms(to, token, marked) =
           [k \in 0 .. Len(to) |->
              IF k = 0 THEN [out |-> Idle, seen |-> matchSeen]
              ELSE AppendMatches(MatchRooms(to, token, marked)[k - 1], to[k], token, marked)]
<1> DEFINE Loop(g, n) ==
             g = [k \in 0 .. n |->
                    IF k = 0 THEN [out |-> Idle, seen |-> matchSeen]
                    ELSE AppendMatches(g[k - 1], to[k], token, marked)]
           Bad == {n \in Nat : ~\E g : Loop(g, n)}
<1>1. Bad = {}
  <2> SUFFICES ASSUME Bad # {} PROVE FALSE
    OBVIOUS
  <2>1. PICK n \in Bad : \A m \in Bad : n <= m
    BY NatMin, Zenon
  <2>2. CASE n = 0
    <3> DEFINE g == [k \in 0 .. 0 |-> [out |-> Idle, seen |-> matchSeen]]
    <3>1. Loop(g, 0)
      OBVIOUS
    <3> QED
      BY <2>2, <3>1, Zenon
  <2>3. CASE n # 0
    <3>0. n \in Nat
      OBVIOUS
    <3>1. n - 1 \in Nat /\ n - 1 \notin Bad
      <4> HIDE DEF Bad
      <4> QED
        BY <2>1, <2>3, <3>0
    <3>2. PICK h : Loop(h, n - 1)
      BY <3>1
    <3> DEFINE last == AppendMatches(h[n - 1], to[n], token, marked)
               g == [k \in 0 .. n |-> IF k = n THEN last ELSE h[k]]
    <3>3. \A k \in 0 .. n - 1 : h[k] = IF k = 0 THEN [out |-> Idle, seen |-> matchSeen]
                                       ELSE AppendMatches(h[k - 1], to[k], token, marked)
      BY <3>2
    <3> HIDE DEF last
    <3>4. \A k \in 0 .. n : k # n => k \in 0 .. n - 1 /\ g[k] = h[k]
      BY <3>1
    <3>5. g[n] = last /\ g[n - 1] = h[n - 1]
      BY <3>1
    <3>6. ASSUME NEW k \in 0 .. n
          PROVE  g[k] = IF k = 0 THEN [out |-> Idle, seen |-> matchSeen]
                        ELSE AppendMatches(g[k - 1], to[k], token, marked)
      <4>1. CASE k = n
        BY <2>3, <3>5, <4>1 DEF last
      <4>2. CASE k # n /\ k # 0
        <5>1. k - 1 \in 0 .. n /\ k - 1 # n /\ k \in 0 .. n - 1
          BY <3>1, <4>2
        <5>2. g[k] = h[k] /\ g[k - 1] = h[k - 1]
          BY <3>4, <4>2, <5>1
        <5> QED
          BY <3>3, <4>2, <5>1, <5>2
      <4>3. CASE k # n /\ k = 0
        BY <3>3, <3>4, <4>3
      <4> QED
        BY <4>1, <4>2, <4>3
    <3> HIDE DEF g
    <3>7. g = [k \in 0 .. n |-> g[k]]
      BY DEF g
    <3>8. Loop(g, n)
      BY <3>6, <3>7, Zenon
    <3> QED
      BY <3>8, Zenon
  <2> QED
    BY <2>2, <2>3
<1>2. \E g : Loop(g, Len(to))
  BY <1>1
<1> QED
  BY <1>2, Zenon DEF MatchRooms

-----------------------------------------------------------------------------
\* The sockets appendMatches finds in a room.
In(o, r) == rooms[r] # 0 /\ o \in ObjectsIn(members[r])

\* What apply has found for o after the first k rooms.
Found(o, to, k, token, marked) == marked[o] # token /\ \E j \in 1 .. k : In(o, to[j])

\* The matches after the first k rooms: each socket that is in one of them, once.
MatchedOnce(m, to, k, token, marked) ==
  /\ m \in [out : [Obj -> Nat], seen : [Obj -> Nat]]
  /\ \A o \in Obj :
       /\ m.out[o] = IF Found(o, to, k, token, marked) THEN 1 ELSE 0
       /\ m.seen[o] = IF Found(o, to, k, token, marked) THEN token ELSE matchSeen[o]

\* With a token that no socket carries yet, appendMatches takes a socket once,
\* in the first room that has it.
LEMMA RoomsMatched ==
  ASSUME NEW to \in Seq(Room), NEW token \in Nat, NEW marked,
         matchSeen \in [Obj -> Nat], \A o \in Obj : matchSeen[o] # token
  PROVE  \A k \in 0 .. Len(to) :
           MatchedOnce(MatchRooms(to, token, marked)[k], to, k, token, marked)
<1> DEFINE M == MatchRooms(to, token, marked)
           Good(k) ==
             /\ M[k] \in [out : [Obj -> Nat], seen : [Obj -> Nat]]
             /\ \A o \in Obj :
                  /\ M[k].out[o] = IF Found(o, to, k, token, marked) THEN 1 ELSE 0
                  /\ M[k].seen[o] = IF Found(o, to, k, token, marked) THEN token
                                    ELSE matchSeen[o]
           Bad == {k \in 0 .. Len(to) : ~Good(k)}
<1>1. ASSUME NEW k \in 0 .. Len(to)
      PROVE  M[k] = IF k = 0 THEN [out |-> Idle, seen |-> matchSeen]
                    ELSE AppendMatches(M[k - 1], to[k], token, marked)
  BY MatchRoomsUnfolds
<1> HIDE DEF M
<1>2. Good(0)
  <2>1. M[0] = [out |-> Idle, seen |-> matchSeen]
    BY <1>1
  <2>2. \A o \in Obj : ~Found(o, to, 0, token, marked)
    BY DEF Found
  <2> QED
    BY <2>1, <2>2 DEF Idle
<1>3. ASSUME NEW k \in 1 .. Len(to), Good(k - 1)
      PROVE  Good(k)
  <2> DEFINE a == M[k - 1]
             hit(o) == In(o, to[k]) /\ a.seen[o] # token /\ marked[o] # token
  <2>1. /\ M[k].out = [o \in Obj |-> a.out[o] + (IF hit(o) THEN 1 ELSE 0)]
        /\ M[k].seen = [o \in Obj |-> IF hit(o) THEN token ELSE a.seen[o]]
        /\ M[k] = [out |-> M[k].out, seen |-> M[k].seen]
    <3>1. M[k] = AppendMatches(a, to[k], token, marked)
      BY <1>1
    <3> QED
      BY <3>1 DEF AppendMatches, In
  <2>2. a.out \in [Obj -> Nat] /\ a.seen \in [Obj -> Nat]
    BY <1>3
  <2>3. M[k] \in [out : [Obj -> Nat], seen : [Obj -> Nat]]
    <3> HIDE DEF hit, a
    <3>1. M[k].out \in [Obj -> Nat] /\ M[k].seen \in [Obj -> Nat]
      BY <2>1, <2>2
    <3> QED
      BY <2>1, <3>1, Zenon
  <2>4. ASSUME NEW o \in Obj
        PROVE  /\ M[k].out[o] = IF Found(o, to, k, token, marked) THEN 1 ELSE 0
               /\ M[k].seen[o] = IF Found(o, to, k, token, marked) THEN token
                                 ELSE matchSeen[o]
    <3>1. /\ a.out[o] = IF Found(o, to, k - 1, token, marked) THEN 1 ELSE 0
          /\ a.seen[o] = IF Found(o, to, k - 1, token, marked) THEN token ELSE matchSeen[o]
      BY <1>3
    <3>2. /\ M[k].out[o] = a.out[o] + (IF hit(o) THEN 1 ELSE 0)
          /\ M[k].seen[o] = IF hit(o) THEN token ELSE a.seen[o]
      BY <2>1
    <3>3. Found(o, to, k, token, marked)
            <=> Found(o, to, k - 1, token, marked) \/ (In(o, to[k]) /\ marked[o] # token)
      <4>1. \A j \in 1 .. k : j = k \/ j \in 1 .. k - 1
        OBVIOUS
      <4>2. \A j \in 1 .. k - 1 : j \in 1 .. k
        OBVIOUS
      <4> QED
        BY <4>1, <4>2 DEF Found
    <3>4. hit(o) <=> In(o, to[k]) /\ marked[o] # token /\ ~Found(o, to, k - 1, token, marked)
      BY <3>1
    <3> HIDE DEF hit, a
    <3> QED
      BY <3>1, <3>2, <3>3, <3>4
  <2> QED
    BY <2>3, <2>4
<1> HIDE DEF Good
<1>4. Bad = {}
  <2> SUFFICES ASSUME Bad # {} PROVE FALSE
    OBVIOUS
  <2>1. Bad \subseteq Nat /\ \A k \in Bad : k \in 0 .. Len(to) /\ ~Good(k)
    OBVIOUS
  <2>2. PICK k \in Bad : \A m \in Bad : k <= m
    BY <2>1, NatMin, Zenon
  <2>3. k # 0 /\ k \in 1 .. Len(to) /\ ~Good(k)
    BY <1>2, <2>1
  <2>4. k - 1 \in 0 .. Len(to) /\ k - 1 \notin Bad
    <3> HIDE DEF Bad
    <3> QED
      BY <2>1, <2>2, <2>3
  <2>5. Good(k - 1)
    BY <2>4
  <2> QED
    BY <1>3, <2>3, <2>5
<1>5. \A k \in 0 .. Len(to) : Good(k)
  BY <1>4
<1> QED
  BY <1>5 DEF Good, M, MatchedOnce

\* The marks of the sockets are tokens of calls there have been, so that the
\* next token is fresh.
MarksInv ==
  /\ matchSeen \in [Obj -> Nat] /\ matchExcept \in [Obj -> Nat]
  /\ \A o \in Obj : matchSeen[o] <= epoch /\ matchExcept[o] <= epoch
  /\ todo \in [Call -> [Obj -> Nat]]

\* What apply has found when it unlocks: with its own token it calls fn once for
\* every socket the broadcast is meant for.
LEMMA MatchStep ==
  ASSUME IndexTypeOK, IndexConsistent, MarksInv,
         NEW c \in Call, NEW to \in To, NEW except \in Except,
         ApplyMatch(c, to, except)
  PROVE  /\ MarksInv'
         /\ \A o \in Obj :
              todo'[c][o] =
                IF o \in Index!Matches({to[k] : k \in DOMAIN to}, except) THEN 1 ELSE 0
<1> DEFINE token == NextToken
           marked == MarkExcept(except, token)
           matches == IF to = <<>> THEN AllMatches(token, marked)
                      ELSE MatchRooms(to, token, marked)[Len(to)]
<1>1. to \in Seq(Room) /\ except \subseteq Room
  <2>1. PICK k \in 0 .. MaxTo : to \in [1 .. k -> Room]
    BY DEF To
  <2>2. to \in Seq(Room)
    BY <2>1, AdapterAssumption
  <2> QED
    BY <2>2 DEF Except
<1>2. /\ epoch' = token /\ matchExcept' = marked /\ matchSeen' = matches.seen
      /\ todo' = [todo EXCEPT ![c] = matches.out]
  BY DEF ApplyMatch
<1>3. token \in Nat /\ epoch < token /\ epoch \in Nat
  BY DEF NextToken, IndexTypeOK
<1>4. \A o \in Obj : matchSeen[o] # token /\ matchExcept[o] # token /\ matchSeen[o] <= token
  BY <1>3 DEF MarksInv
<1> HIDE DEF token
<1>5. ASSUME NEW o \in Obj, NEW r \in Room
      PROVE  In(o, r) <=> o \in Index!ObjectsIn(members[r])
  <2>1. rooms[r] = 0 => ~(o \in Index!ObjectsIn(members[r]))
    BY DEF IndexConsistent, Nobody, Index!ObjectsIn
  <2> QED
    BY <2>1 DEF In, ObjectsIn, Index!ObjectsIn
<1>6. /\ marked \in [Obj -> Nat]
      /\ \A o \in Obj : marked[o] <= token
      /\ \A o \in Obj : marked[o] = token
                          <=> o \in UNION {Index!ObjectsIn(members[r]) : r \in except}
  <2>1. \A o \in Obj : marked[o] = IF \E r \in except : In(o, r) THEN token ELSE matchExcept[o]
    BY DEF MarkExcept, In
  <2>2. marked \in [Obj -> Nat]
    BY <1>3 DEF MarkExcept, MarksInv
  <2>3. \A o \in Obj : marked[o] <= token
    BY <1>3, <2>1 DEF MarksInv
  <2>4. \A o \in Obj : marked[o] = token <=> \E r \in except : In(o, r)
    BY <1>4, <2>1, Zenon
  <2> QED
    BY <1>1, <1>5, <2>2, <2>3, <2>4
<1> HIDE DEF marked
<1> DEFINE Rooms == {to[k] : k \in DOMAIN to}
<1>7. /\ matches.out \in [Obj -> Nat] /\ matches.seen \in [Obj -> Nat]
      /\ \A o \in Obj : matches.seen[o] <= token
      /\ \A o \in Obj :
           matches.out[o] = IF o \in Index!Matches(Rooms, except) THEN 1 ELSE 0
  <2>1. CASE to = <<>>
    <3>1. Rooms = {}
      BY <2>1
    <3>2. matches = AllMatches(token, marked)
      BY <2>1
    <3>3. \A o \in Obj : matches.out[o] = IF o \in ObjectsIn(socketByID) /\ marked[o] # token
                                            THEN 1 ELSE 0
      BY <3>2 DEF AllMatches
    <3>4. matches.out \in [Obj -> Nat] /\ matches.seen = matchSeen
      BY <3>2 DEF AllMatches
    <3>5. \A o \in Obj : o \in Index!Matches(Rooms, except)
                           <=> o \in ObjectsIn(socketByID) /\ marked[o] # token
      BY <1>6, <3>1, Zenon DEF Index!Matches, ObjectsIn, Index!ObjectsIn
    <3> HIDE DEF matches, Rooms
    <3> QED
      BY <1>4, <3>3, <3>4, <3>5 DEF MarksInv
  <2>2. CASE to # <<>>
    <3>1. matches = MatchRooms(to, token, marked)[Len(to)] /\ Len(to) \in 0 .. Len(to)
      BY <1>1, <2>2
    <3>2. Rooms # {} /\ Rooms \subseteq Room
      <4>1. Len(to) \in Nat /\ Len(to) # 0 /\ DOMAIN to = 1 .. Len(to)
        BY <1>1, <2>2
      <4>2. 1 \in DOMAIN to
        BY <4>1
      <4>3. \A k \in DOMAIN to : to[k] \in Room
        BY <1>1, <4>1
      <4> QED
        BY <4>2, <4>3
    <3>3. /\ matches \in [out : [Obj -> Nat], seen : [Obj -> Nat]]
          /\ \A o \in Obj :
               /\ matches.out[o] = IF Found(o, to, Len(to), token, marked) THEN 1 ELSE 0
               /\ matches.seen[o] = IF Found(o, to, Len(to), token, marked) THEN token
                                    ELSE matchSeen[o]
      <4>1. matchSeen \in [Obj -> Nat] /\ \A o \in Obj : matchSeen[o] # token
        BY <1>4 DEF MarksInv
      <4>2. \A k \in 0 .. Len(to) :
              MatchedOnce(MatchRooms(to, token, marked)[k], to, k, token, marked)
        BY <1>1, <1>3, <4>1, RoomsMatched, Zenon
      <4> HIDE DEF matches
      <4> QED
        BY <3>1, <4>2, Zenon DEF MatchedOnce
    <3>4. ASSUME NEW o \in Obj
          PROVE  o \in Index!Matches(Rooms, except) <=> Found(o, to, Len(to), token, marked)
      <4>1. o \in UNION {Index!ObjectsIn(members[r]) : r \in Rooms}
              <=> \E j \in 1 .. Len(to) : In(o, to[j])
        <5>1. \A j \in 1 .. Len(to) : to[j] \in Room /\ j \in DOMAIN to
          BY <1>1
        <5>2. \A j \in DOMAIN to : j \in 1 .. Len(to)
          BY <1>1
        <5> QED
          BY <1>5, <3>2, <5>1, <5>2
      <4> HIDE DEF Rooms
      <4> QED
        BY <1>6, <3>2, <4>1 DEF Index!Matches, Found
    <3> HIDE DEF matches, Rooms
    <3> QED
      BY <1>3, <1>4, <3>3, <3>4
  <2> QED
    BY <2>1, <2>2
<1> HIDE DEF matches
<1>8. todo' \in [Call -> [Obj -> Nat]] /\ todo'[c] = matches.out
  BY <1>2, <1>7, Zenon DEF MarksInv
<1>9. MarksInv'
  BY <1>2, <1>6, <1>7, <1>8 DEF MarksInv
<1> QED
  BY <1>7, <1>8, <1>9

\* At the start no socket carries a mark.
LEMMA InitMarks == Init => MarksInv
BY DEF Init, MarksInv, Idle

\* Every step keeps the marks behind the epoch.
LEMMA StepMarks ==
  IndexTypeOK /\ IndexConsistent /\ MarksInv /\ [Next]_vars => MarksInv'
<1> SUFFICES ASSUME IndexTypeOK, IndexConsistent, MarksInv, [Next]_vars
             PROVE  MarksInv'
  OBVIOUS
<1>1. CASE UNCHANGED matchVars
  BY <1>1 DEF MarksInv, matchVars
<1>2. ASSUME NEW c \in Call, NEW o \in Obj, ApplyCall(c, o)
      PROVE  MarksInv'
  <2>1. /\ UNCHANGED <<epoch, matchSeen, matchExcept>>
        /\ todo[c][o] > 0 /\ todo' = [todo EXCEPT ![c][o] = @ - 1]
    BY <1>2 DEF ApplyCall
  <2>2. todo' \in [Call -> [Obj -> Nat]]
    BY <2>1 DEF MarksInv
  <2> QED
    BY <2>1, <2>2 DEF MarksInv
<1> QED
  BY <1>1, <1>2, MatchStep, Zenon
  DEF Next, Socket, AddSocket, AddOwnRoom, Join, Leave, Remove, Apply, vars

\* The type invariant of the model.
THEOREM AdapterTyped == Spec => []TypeOK
<1>1. IndexTypeOK /\ MarksInv => TypeOK
  BY DEF MarksInv, TypeOK
<1> QED
  BY <1>1, InitIndex, StepIndex, InitMarks, StepMarks, PTL DEF Spec

\* The step of apply's callers: the options of a call are set by ApplyMatch only,
\* and its matches are those of the abstract index.
LEMMA ExactStep ==
  ASSUME IndexTypeOK, IndexConsistent, MarksInv, [Next]_vars,
         NEW c \in Call, args'[c] \notin {args[c], NoArgs}, NEW o \in Obj
  PROVE  LET to == {args'[c].to[k] : k \in DOMAIN args'[c].to}
         IN  todo'[c][o] = IF o \in Index!Matches(to, args'[c].except) THEN 1 ELSE 0
<1>1. args' # args
  OBVIOUS
<1>2. ASSUME NEW d \in Call, NEW p \in Obj, ApplyCall(d, p)
      PROVE  FALSE
  BY <1>2 DEF ApplyCall, IndexTypeOK
<1>3. PICK d \in Call, to \in To, except \in Except : ApplyMatch(d, to, except)
  BY <1>1, <1>2, Zenon
  DEF Next, Socket, AddSocket, AddOwnRoom, Join, Leave, Remove, Apply, vars, matchVars
<1>4. d = c
  BY <1>3 DEF ApplyMatch, IndexTypeOK
<1>5. args'[c].to = to /\ args'[c].except = except
  BY <1>3, <1>4 DEF ApplyMatch, IndexTypeOK
<1> QED
  BY <1>3, <1>4, <1>5, MatchStep

\* apply calls fn exactly once for every socket of the union of the rooms that is
\* in no room of except, whatever other calls left in the marks of the sockets
\* (ApplyIsExact).
THEOREM ApplyExact == Spec => ApplyIsExact
<1>1. Spec => [](IndexTypeOK /\ IndexConsistent /\ MarksInv)
  BY InitIndex, StepIndex, InitMarks, StepMarks, PTL DEF Spec
<1>2. IndexTypeOK /\ IndexConsistent /\ MarksInv /\ [Next]_vars =>
        [\A c \in Call :
           args'[c] \notin {args[c], NoArgs} =>
             LET to == {args'[c].to[k] : k \in DOMAIN args'[c].to}
             IN \A o \in Obj :
                  todo'[c][o] = IF o \in Index!Matches(to, args'[c].except) THEN 1 ELSE 0]_vars
  BY ExactStep, Zenon
<1> QED
  BY <1>1, <1>2, PTL DEF Spec, ApplyIsExact
=============================================================================
