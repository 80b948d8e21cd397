-------------------------- MODULE NamespaceProofs --------------------------
(***************************************************************************)
(* Machine-checked proofs about Namespace, for every number of connections, *)
(* sockets and rooms and every combination of its configuration constants.  *)
(***************************************************************************)
EXTENDS Namespace, FiniteSetTheorems, TLAPS

\* The types the two invariants need.
StageType ==
  /\ stage \in [Obj -> Stage]
  /\ session \in [Sid -> {NoSession} \cup SUBSET Room]
  /\ entry \in [Conn -> Obj \cup {NoObj}]
  /\ snap \in [Conn -> Obj \cup {NoObj}]

\* A session belongs to a socket that has been made.
SessionHasOwner ==
  \A i \in Sid : session[i] # NoSession => \E o \in Obj : IdOf[o] = i /\ stage[o] # "new"

SessionInv == StageType /\ SessionHasOwner /\ OneSocketPerSession

\* A server without sockets and sessions satisfies the session invariant.
LEMMA InitSession == Init => SessionInv
BY NamespaceAssumption
DEF Init, SessionInv, StageType, SessionHasOwner, OneSocketPerSession, Stage, Holding

\* Steps that leave the sessions alone and move one socket forward: it holds its
\* id afterwards only if it did before.
LEMMA MoveSession ==
  ASSUME SessionInv, NEW o \in Obj, NEW s \in Stage,
         stage' = [stage EXCEPT ![o] = s],
         s # "new", s \in Holding => stage[o] \in Holding,
         UNCHANGED session, StageType'
  PROVE  SessionInv'
<1>1. \A p \in Obj : stage'[p] \in Holding => stage[p] \in Holding
  BY DEF SessionInv, StageType
<1>2. OneSocketPerSession'
  BY <1>1 DEF SessionInv, OneSocketPerSession
<1>3. SessionHasOwner'
  BY DEF SessionInv, SessionHasOwner, StageType
<1> QED
  BY <1>2, <1>3 DEF SessionInv

\* Every step of add, onClose and close keeps the session invariant.
LEMMA StepSession == SessionInv /\ [Next]_vars => SessionInv'
<1> SUFFICES ASSUME SessionInv, [Next]_vars
             PROVE  SessionInv'
  OBVIOUS
<1> USE DEF StageType, Stage, Holding
<1>0. StageType /\ \A o \in Obj : IdOf[o] \in Sid
  BY NamespaceAssumption DEF SessionInv
<1>1. ASSUME UNCHANGED <<stage, session>>, StageType'
      PROVE  SessionInv'
  BY <1>1 DEF SessionInv, SessionHasOwner, OneSocketPerSession
<1>2. ASSUME NEW c \in Conn, NEW o \in Obj, AddFresh(c, o)
      PROVE  SessionInv'
  <2>1. StageType' /\ UNCHANGED session
    BY <1>0, <1>2 DEF AddFresh, BeginAdd
  <2>2. /\ \A p \in Obj : IdOf[p] = IdOf[o] => stage[p] = "new"
        /\ stage'[o] = "found"
        /\ \A p \in Obj : p # o => stage'[p] = stage[p]
    BY <1>0, <1>2 DEF AddFresh, BeginAdd
  <2>3. session[IdOf[o]] = NoSession
    BY <1>0, <2>2 DEF SessionInv, SessionHasOwner
  <2>4. OneSocketPerSession'
    BY <2>1, <2>2, <2>3 DEF SessionInv, OneSocketPerSession
  <2>5. SessionHasOwner'
    BY <2>1, <2>2 DEF SessionInv, SessionHasOwner
  <2> QED
    BY <2>1, <2>4, <2>5 DEF SessionInv
<1>3. ASSUME NEW c \in Conn, NEW o \in Obj, AddRecovered(c, o)
      PROVE  SessionInv'
  <2>1. /\ StageType'
        /\ session' = [session EXCEPT ![IdOf[o]] = NoSession]
        /\ session[IdOf[o]] # NoSession
        /\ stage'[o] = "found"
        /\ \A p \in Obj : p # o => stage'[p] = stage[p]
    BY <1>0, <1>3 DEF AddRecovered, BeginAdd, MayRecover
  <2>2. \A p \in Obj : IdOf[p] = IdOf[o] => stage[p] \notin Holding
    BY <1>0, <2>1 DEF SessionInv, OneSocketPerSession
  <2>3. OneSocketPerSession'
    BY <1>0, <2>1, <2>2 DEF SessionInv, OneSocketPerSession
  <2>4. SessionHasOwner'
    BY <1>0, <2>1 DEF SessionInv, SessionHasOwner
  <2> QED
    BY <2>1, <2>3, <2>4 DEF SessionInv
<1>4. ASSUME NEW o \in Obj, Adding(o)
      PROVE  SessionInv'
  <2>1. CASE AddReject(o)
    <3>1. StageType'
      BY <1>0, <2>1 DEF AddReject, AddStep
    <3> QED
      BY <2>1, <3>1, MoveSession, Zenon DEF AddReject, AddStep
  <2>2. CASE AddRegister(o)
    <3>1. StageType'
      BY <1>0, <2>2 DEF AddRegister, AddStep, connVars
    <3> QED
      BY <2>2, <3>1, MoveSession, Zenon DEF AddRegister, AddStep
  <2>3. CASE AddRestore(o)
    <3>1. StageType'
      BY <1>0, <2>3 DEF AddRestore, AddStep, connVars
    <3> QED
      BY <2>3, <3>1, MoveSession, Zenon DEF AddRestore, AddStep
  <2>4. CASE AddAttach(o)
    <3>1. StageType'
      BY <1>0, <2>4, Zenon DEF AddAttach, AddStep
    <3> QED
      BY <2>4, <3>1, MoveSession, Zenon DEF AddAttach, AddStep
  <2>5. CASE AddConnected(o)
    <3>1. StageType'
      BY <1>0, <2>5 DEF AddConnected, AddStep
    <3> QED
      BY <2>5, <3>1, MoveSession, Zenon DEF AddConnected, AddStep
  <2> QED
    BY <1>4, <2>1, <2>2, <2>3, <2>4, <2>5 DEF Adding
<1>5. ASSUME NEW o \in Obj, LeaveSave(o)
      PROVE  SessionInv'
  <2>1. /\ StageType'
        /\ session' = [session EXCEPT ![IdOf[o]] = RoomsOf(IdOf[o])]
        /\ stage'[o] = "remove"
        /\ \A p \in Obj : p # o => stage'[p] = stage[p]
    BY <1>0, <1>5 DEF LeaveSave, RoomsOf, connVars
  <2>2. \A p \in Obj : IdOf[p] = IdOf[o] => stage'[p] \notin Holding
    BY <1>0, <1>5, <2>1 DEF SessionInv, OneSocketPerSession, LeaveSave
  <2>3. OneSocketPerSession'
    BY <1>0, <2>1, <2>2 DEF SessionInv, OneSocketPerSession
  <2>4. SessionHasOwner'
    BY <1>0, <2>1 DEF SessionInv, SessionHasOwner
  <2> QED
    BY <2>1, <2>3, <2>4 DEF SessionInv
<1>6. ASSUME NEW o \in Obj, LeaveRemove(o) \/ LeaveDetach(o) \/ DisconnectClose(o)
      PROVE  SessionInv'
  <2>1. StageType'
    BY <1>0, <1>6 DEF LeaveRemove, LeaveDetach, DisconnectClose, AfterSwap, connVars
  <2>2. CASE LeaveRemove(o)
    BY <2>1, <2>2, MoveSession, Zenon DEF LeaveRemove
  <2>3. CASE LeaveDetach(o)
    BY <2>1, <2>3, MoveSession, Zenon DEF LeaveDetach
  <2>4. CASE DisconnectClose(o)
    BY <2>1, <2>4, MoveSession, Zenon DEF DisconnectClose, AfterSwap
  <2> QED
    BY <1>6, <2>2, <2>3, <2>4
<1>7. ASSUME NEW c \in Conn, ClientDisconnect(c)
      PROVE  SessionInv'
  <2>1. entry[c] \in Obj
    BY <1>0, <1>7 DEF ClientDisconnect
  <2>2. StageType' /\ UNCHANGED session
    BY <1>0, <1>7, <2>1 DEF ClientDisconnect, AfterSwap
  <2>3. CASE stage[entry[c]] = "connected"
    BY <1>7, <2>1, <2>2, <2>3, MoveSession, Zenon DEF ClientDisconnect, AfterSwap
  <2>4. CASE stage[entry[c]] # "connected"
    <3>1. UNCHANGED stage
      BY <1>0, <1>7, <2>1, <2>4 DEF ClientDisconnect, AfterSwap
    <3> QED
      BY <1>1, <2>2, <3>1
  <2> QED
    BY <2>3, <2>4
<1>8. ASSUME NEW c \in Conn, CloseSocket(c)
      PROVE  SessionInv'
  <2>1. StageType' /\ UNCHANGED session
    BY <1>0, <1>8 DEF CloseSocket, AfterSwap
  <2>2. CASE snap[c] # NoObj /\ stage[snap[c]] = "connected"
    <3>1. snap[c] \in Obj
      BY <1>0, <2>2
    <3> QED
      BY <1>8, <2>1, <2>2, <3>1, MoveSession DEF CloseSocket, AfterSwap
  <2>3. CASE ~(snap[c] # NoObj /\ stage[snap[c]] = "connected")
    BY <1>1, <1>8, <2>1, <2>3 DEF CloseSocket
  <2> QED
    BY <2>2, <2>3
<1>9. ASSUME NEW i \in Sid, Expire(i)
      PROVE  SessionInv'
  BY <1>0, <1>9 DEF Expire, SessionInv, SessionHasOwner, OneSocketPerSession, connVars
<1>10. ASSUME NEW o \in Obj, DisconnectSend(o) \/ JoinRoom(o)
       PROVE  SessionInv'
  BY <1>0, <1>1, <1>10 DEF DisconnectSend, JoinRoom, connVars
<1>11. ASSUME NEW c \in Conn, CloseBegin(c) \/ CloseSnapshot(c) \/ CloseEnd(c)
       PROVE  SessionInv'
  <2>1. StageType' /\ UNCHANGED <<stage, session>>
    BY <1>0, <1>11 DEF CloseBegin, CloseSnapshot, CloseEnd
  <2> QED
    BY <1>1, <2>1
<1>12. CASE UNCHANGED vars
  BY <1>0, <1>1, <1>12 DEF vars, connVars
<1> QED
  BY <1>2, <1>3, <1>4, <1>5, <1>6, <1>7, <1>8, <1>9, <1>10, <1>11, <1>12
  DEF Next, Leaving, Closing

\* A session of the recovery store and an id belong to one socket at a time
\* (OneSocketPerSession), however connections are closed and recovered.
THEOREM SessionsExclusive == Spec => []OneSocketPerSession
<1>1. Spec => []SessionInv
  BY InitSession, StepSession, PTL DEF Spec
<1>2. SessionInv => OneSocketPerSession
  BY DEF SessionInv
<1> QED
  BY <1>1, <1>2, PTL

-----------------------------------------------------------------------------
Counted == {o \in Obj : stage[o] \in {"connected", "save", "remove"}}

\* Finitely many sockets are counted in sio_sockets_active.
LEMMA CountedFinite == IsFiniteSet(Counted)
BY NamespaceAssumption, FS_Subset DEF Counted

\* A socket moves between stages that are counted alike.
LEMMA MoveCounted ==
  ASSUME StageType, NEW o \in Obj, NEW s \in Stage,
         stage' = [stage EXCEPT ![o] = s],
         s \in {"connected", "save", "remove"} <=> stage[o] \in {"connected", "save", "remove"}
  PROVE  Counted' = Counted
BY Zenon DEF Counted, StageType

\* Every step of add, onClose and close keeps the gauge exact.
LEMMA StepGauge == StageType /\ GaugeExact /\ [Next]_vars => GaugeExact'
<1> SUFFICES ASSUME StageType, GaugeExact, [Next]_vars
             PROVE  GaugeExact'
  OBVIOUS
<1> USE DEF Stage
<1>0. active = Cardinality(Counted) /\ Cardinality(Counted) \in Nat
  BY CountedFinite, FS_CardinalityType DEF GaugeExact, Counted
<1>1. ASSUME Counted' = Counted, UNCHANGED active
      PROVE  GaugeExact'
  BY <1>0, <1>1 DEF GaugeExact, Counted
<1>2. ASSUME UNCHANGED stage
      PROVE  Counted' = Counted
  BY <1>2 DEF Counted
<1>3. ASSUME NEW c \in Conn, NEW o \in Obj, AddFresh(c, o) \/ AddRecovered(c, o)
      PROVE  GaugeExact'
  <2>1. stage[o] = "new" /\ stage' = [stage EXCEPT ![o] = "found"] /\ UNCHANGED active
    BY <1>3 DEF AddFresh, AddRecovered, BeginAdd, MayRecover
  <2> QED
    BY <1>1, <2>1, MoveCounted, Zenon
<1>4. ASSUME NEW o \in Obj, AddReject(o) \/ AddRegister(o) \/ AddRestore(o) \/ AddAttach(o)
      PROVE  GaugeExact'
  <2>1. /\ UNCHANGED active
        /\ \E from \in {"found", "registered", "restored"},
              to \in {"gone", "registered", "restored", "attached"} : AddStep(o, from, to)
    BY <1>4 DEF AddReject, AddRegister, AddRestore, AddAttach
  <2> QED
    BY <1>1, <2>1, MoveCounted, Zenon DEF AddStep
<1>5. ASSUME NEW o \in Obj, AddConnected(o)
      PROVE  GaugeExact'
  <2>1. o \notin Counted /\ Counted' = Counted \cup {o} /\ active' = active + 1
    BY <1>5 DEF AddConnected, AddStep, Counted, StageType
  <2>2. Cardinality(Counted \cup {o}) = Cardinality(Counted) + 1
    BY <2>1, CountedFinite, FS_AddElement
  <2>3. Cardinality(Counted') = active'
    BY <1>0, <2>1, <2>2
  <2> QED
    BY <2>3 DEF GaugeExact, Counted
<1>6. ASSUME NEW o \in Obj, LeaveRemove(o)
      PROVE  GaugeExact'
  <2>1. o \in Counted /\ Counted' = Counted \ {o} /\ active' = active - 1
    BY <1>6 DEF LeaveRemove, Counted, StageType
  <2>2. Cardinality(Counted \ {o}) = Cardinality(Counted) - 1
    BY <2>1, CountedFinite, FS_RemoveElement, ZenonT(60)
  <2>3. Cardinality(Counted') = active'
    BY <1>0, <2>1, <2>2
  <2> QED
    BY <2>3 DEF GaugeExact, Counted
<1>7. ASSUME NEW o \in Obj, LeaveSave(o) \/ LeaveDetach(o)
      PROVE  GaugeExact'
  BY <1>1, <1>7, MoveCounted DEF LeaveSave, LeaveDetach
<1>8. ASSUME NEW o \in Obj, NEW b \in BOOLEAN, UNCHANGED active,
             stage' = [stage EXCEPT ![o] = AfterSwap(o, b)]
      PROVE  GaugeExact'
  <2>1. CASE stage[o] = "connected"
    BY <1>1, <1>8, <2>1, MoveCounted, Zenon DEF AfterSwap
  <2>2. CASE stage[o] # "connected"
    <3>1. UNCHANGED stage
      BY <1>8, <2>2 DEF AfterSwap, StageType
    <3> QED
      BY <1>1, <1>2, <1>8, <3>1
  <2> QED
    BY <2>1, <2>2
<1>9. ASSUME NEW o \in Obj, DisconnectClose(o)
      PROVE  GaugeExact'
  BY <1>8, <1>9, Zenon DEF DisconnectClose
<1>10. ASSUME NEW c \in Conn, ClientDisconnect(c)
       PROVE  GaugeExact'
  BY <1>8, <1>10, Zenon DEF ClientDisconnect, StageType
<1>11. ASSUME NEW c \in Conn, CloseSocket(c)
       PROVE  GaugeExact'
  <2>1. CASE snap[c] # NoObj /\ stage[snap[c]] = "connected"
    <3>1. snap[c] \in Obj /\ stage' = [stage EXCEPT ![snap[c]] = AfterSwap(snap[c], lost[c])]
      BY <1>11, <2>1 DEF CloseSocket, StageType
    <3>2. AfterSwap(snap[c], lost[c]) \in {"save", "remove"}
      BY <2>1, Zenon DEF AfterSwap
    <3> QED
      BY <1>1, <1>11, <2>1, <3>1, <3>2, MoveCounted, Zenon DEF CloseSocket
  <2>2. CASE ~(snap[c] # NoObj /\ stage[snap[c]] = "connected")
    BY <1>1, <1>2, <1>11, <2>2 DEF CloseSocket
  <2> QED
    BY <2>1, <2>2
<1>12. CASE UNCHANGED <<stage, active>>
  BY <1>1, <1>2, <1>12
<1> QED
  BY <1>3, <1>4, <1>5, <1>6, <1>7, <1>9, <1>10, <1>11, <1>12
  DEF Next, Adding, Leaving, Closing, DisconnectSend, JoinRoom, CloseBegin, CloseSnapshot,
      CloseEnd, Expire, vars

\* sio_sockets_active is exact (GaugeExact): however many goroutines end a
\* socket at once, it is subtracted once, and every connected socket counts.
THEOREM GaugeCorrect == Spec => []GaugeExact
<1>1. Init => GaugeExact
  <2> SUFFICES ASSUME Init
               PROVE  GaugeExact
    OBVIOUS
  <2>1. {o \in Obj : stage[o] \in {"connected", "save", "remove"}} = {}
    BY DEF Init
  <2> QED
    BY <2>1, FS_EmptySet DEF Init, GaugeExact
<1>2. Spec => []SessionInv
  BY InitSession, StepSession, PTL DEF Spec
<1>3. SessionInv => StageType
  BY DEF SessionInv
<1> QED
  BY <1>1, <1>2, <1>3, StepGauge, PTL DEF Spec

-----------------------------------------------------------------------------
(***************************************************************************)
(* The rooms of a connected socket. When no client recovers a session before *)
(* onClose is through, at most one object of an id is alive, so that what   *)
(* onClose removes by the id is its own.                                   *)
(***************************************************************************)

\* A socket is done with, or has not been made.
Away(o) == stage[o] \in {"new", "gone"}

RoomType ==
  /\ registered \in [Sid -> Obj \cup {NoObj}]
  /\ joined \in [Room -> [Sid -> Obj \cup {NoObj}]]
  /\ keep \in [Obj -> {NoSession} \cup SUBSET Room]

\* One living object for each id.
OneAlive == \A o, p \in Obj : o # p /\ IdOf[o] = IdOf[p] /\ ~Away(o) => Away(p)

\* From addSocket to remove, a socket is registered.
Enrolled ==
  \A o \in Obj :
    stage[o] \in {"registered", "restored", "attached", "connected", "save", "remove"} =>
      registered[IdOf[o]] = o

\* From addAllOwned on, a socket is in the rooms of its session.
RoomsBack ==
  \A o \in Obj : stage[o] \in {"restored", "attached", "connected"} /\ keep[o] # NoSession =>
    \A r \in keep[o] : joined[r][IdOf[o]] = o

\* Only a socket with a session has rooms to be restored.
Recovering == \A o \in Obj : stage[o] = "registered" => keep[o] # NoSession

RoomInv ==
  /\ RoomType /\ Recovering
  /\ "recover" \notin races => OneAlive /\ Enrolled /\ RoomsBack

\* A server without sockets satisfies the invariant of the rooms.
LEMMA InitRooms == Init => RoomInv
BY NamespaceAssumption
DEF Init, RoomInv, RoomType, Recovering, OneAlive, Enrolled, RoomsBack, Away,
    Rooms!Init, Rooms!Nobody

\* Steps that leave the rooms alone and move one socket forward.
LEMMA MoveRooms ==
  ASSUME StageType, RoomInv, NEW o \in Obj, NEW s \in Stage,
         stage' = [stage EXCEPT ![o] = s],
         s # "registered", s \notin {"new", "gone"} => ~Away(o),
         s \in {"restored", "attached", "connected", "save", "remove"} =>
           stage[o] \in {"registered", "restored", "attached", "connected", "save", "remove"},
         s \in {"restored", "attached", "connected"} =>
           stage[o] \in {"restored", "attached", "connected"},
         UNCHANGED <<registered, joined, keep, races>>
  PROVE  RoomInv'
<1> USE DEF StageType, Away
<1>1. RoomType' /\ Recovering'
  BY DEF RoomInv, RoomType, Recovering
<1>2. CASE "recover" \in races
  BY <1>1, <1>2 DEF RoomInv
<1>3. CASE "recover" \notin races
  <2>1. OneAlive'
    BY <1>3 DEF RoomInv, OneAlive
  <2>2. Enrolled'
    BY <1>3 DEF RoomInv, Enrolled
  <2>3. RoomsBack'
    BY <1>3 DEF RoomInv, RoomsBack
  <2> QED
    BY <1>1, <2>1, <2>2, <2>3 DEF RoomInv
<1> QED
  BY <1>2, <1>3

\* A socket that joins rooms is in them, and nobody with another id leaves one.
LEMMA JoinAllRooms ==
  ASSUME RoomType, NEW o \in Obj, NEW rooms \in SUBSET Room, Rooms!JoinAll(o, rooms)
  PROVE  /\ joined' \in [Room -> [Sid -> Obj \cup {NoObj}]]
         /\ UNCHANGED registered
         /\ \A r \in rooms : joined'[r][IdOf[o]] = o
         /\ \A r \in Room : joined[r][IdOf[o]] = o => joined'[r][IdOf[o]] = o
         /\ \A r \in Room, p \in Obj :
              IdOf[p] # IdOf[o] => joined'[r][IdOf[p]] = joined[r][IdOf[p]]
BY NamespaceAssumption, Zenon DEF RoomType, Rooms!JoinAll

\* Every step of add, onClose and close keeps what is said of the rooms.
LEMMA StepRooms == StageType /\ RoomInv /\ [Next]_vars => RoomInv'
<1> SUFFICES ASSUME StageType, RoomInv, [Next]_vars
             PROVE  RoomInv'
  OBVIOUS
<1> USE DEF StageType, Stage
<1>0. RoomType /\ \A o \in Obj : IdOf[o] \in Sid /\ OwnRoom[IdOf[o]] \in Room
  BY NamespaceAssumption DEF RoomInv
<1>1. ASSUME UNCHANGED <<registered, joined, keep, stage, races>>
      PROVE  RoomInv'
  BY <1>1 DEF RoomInv, RoomType, Recovering, OneAlive, Enrolled, RoomsBack, Away
<1>2. ASSUME NEW c \in Conn, NEW o \in Obj, AddFresh(c, o) \/ AddRecovered(c, o)
      PROVE  RoomInv'
  <2>1. /\ stage' = [stage EXCEPT ![o] = "found"]
        /\ UNCHANGED <<registered, joined, races>>
        /\ \E rooms \in {NoSession} \cup SUBSET Room : keep' = [keep EXCEPT ![o] = rooms]
    BY <1>0, <1>2, Zenon DEF AddFresh, AddRecovered, BeginAdd
  <2>2. "recover" \notin races => \A p \in Obj : IdOf[p] = IdOf[o] => Away(p)
    BY <1>2, Zenon DEF AddFresh, AddRecovered, MayRecover, Away
  <2>3. RoomType' /\ Recovering'
    BY <1>0, <2>1 DEF RoomInv, RoomType, Recovering
  <2>4. CASE "recover" \notin races
    <3>1. OneAlive'
      BY <2>1, <2>2, <2>4, Zenon DEF RoomInv, OneAlive, Away
    <3>2. Enrolled' /\ RoomsBack'
      BY <1>0, <2>1, <2>4 DEF RoomInv, RoomType, Enrolled, RoomsBack
    <3> QED
      BY <2>3, <3>1, <3>2 DEF RoomInv
  <2> QED
    BY <2>1, <2>3, <2>4 DEF RoomInv
<1>3. ASSUME NEW o \in Obj, AddRegister(o)
      PROVE  RoomInv'
  <2>1. /\ stage' = [stage EXCEPT ![o] = IF keep[o] = NoSession THEN "restored" ELSE "registered"]
        /\ stage[o] = "found"
        /\ registered' = [registered EXCEPT ![IdOf[o]] = o]
        /\ joined' = [joined EXCEPT ![OwnRoom[IdOf[o]]][IdOf[o]] = o]
        /\ UNCHANGED <<keep, races>>
    BY <1>3, Zenon DEF AddRegister, AddStep
  <2>2. RoomType' /\ Recovering'
    BY <1>0, <2>1 DEF RoomInv, RoomType, Recovering
  <2>3. CASE "recover" \notin races
    <3>1. \A p \in Obj : p # o /\ IdOf[p] = IdOf[o] => Away(p)
      BY <2>1, <2>3 DEF RoomInv, OneAlive, Away
    <3>2. OneAlive'
      BY <2>1, <2>3, <3>1, Zenon DEF RoomInv, OneAlive, Away
    <3>3. Enrolled'
      BY <1>0, <2>1, <2>3, <3>1, Zenon DEF RoomInv, RoomType, Enrolled, Away
    <3>4. \A r \in Room, p \in Obj : IdOf[p] # IdOf[o] => joined'[r][IdOf[p]] = joined[r][IdOf[p]]
      BY <1>0, <2>1, Zenon DEF RoomType
    <3>5. RoomsBack'
      BY <1>0, <2>1, <2>3, <3>1, <3>4, Zenon DEF RoomInv, RoomType, RoomsBack, Away
    <3> QED
      BY <2>2, <3>2, <3>3, <3>5 DEF RoomInv
  <2> QED
    BY <2>1, <2>2, <2>3 DEF RoomInv
<1>4. ASSUME NEW o \in Obj, NEW rooms \in SUBSET Room, Rooms!JoinAll(o, rooms),
             UNCHANGED <<keep, races>>,
             \/ UNCHANGED stage /\ stage[o] = "connected"
             \/ stage' = [stage EXCEPT ![o] = "restored"] /\ stage[o] = "registered" /\ keep[o] = rooms
      PROVE  RoomInv'
  <2>1. /\ RoomType' /\ UNCHANGED registered
        /\ \A r \in rooms : joined'[r][IdOf[o]] = o
        /\ \A r \in Room : joined[r][IdOf[o]] = o => joined'[r][IdOf[o]] = o
        /\ \A r \in Room, p \in Obj :
             IdOf[p] # IdOf[o] => joined'[r][IdOf[p]] = joined[r][IdOf[p]]
    BY <1>0, <1>4, JoinAllRooms DEF RoomType
  <2>2. Recovering'
    BY <1>4, Zenon DEF RoomInv, Recovering
  <2>3. CASE "recover" \notin races
    <3>1. \A p \in Obj : p # o /\ IdOf[p] = IdOf[o] => Away(p)
      BY <1>4, <2>3, Zenon DEF RoomInv, OneAlive, Away
    <3>2. OneAlive' /\ Enrolled'
      BY <1>4, <2>1, <2>3, <3>1, Zenon DEF RoomInv, OneAlive, Enrolled, Away
    <3>3. ASSUME NEW p \in Obj, stage'[p] \in {"restored", "attached", "connected"},
                 keep[p] # NoSession, NEW r \in keep[p]
          PROVE  joined'[r][IdOf[p]] = p
      <4>1. r \in Room
        BY <1>0, <3>3, Zenon DEF RoomType
      <4>2. CASE p = o
        BY <1>4, <2>1, <2>3, <3>3, <4>1, <4>2 DEF RoomInv, RoomsBack
      <4>3. CASE p # o
        BY <1>4, <2>1, <2>3, <3>1, <3>3, <4>1, <4>3, Zenon DEF RoomInv, RoomsBack, Away
      <4> QED
        BY <4>2, <4>3
    <3>4. RoomsBack'
      BY <1>4, <3>3, Zenon DEF RoomsBack
    <3> QED
      BY <2>1, <2>2, <3>2, <3>4 DEF RoomInv
  <2> QED
    BY <1>4, <2>1, <2>2, <2>3, Zenon DEF RoomInv
<1>5. ASSUME NEW o \in Obj, AddRestore(o)
      PROVE  RoomInv'
  <2>1. stage[o] = "registered" /\ keep[o] \in SUBSET Room
    BY <1>0, <1>5, Zenon DEF AddRestore, AddStep, RoomInv, RoomType, Recovering
  <2> QED
    BY <1>4, <1>5, <2>1, Zenon DEF AddRestore, AddStep
<1>6. ASSUME NEW o \in Obj, JoinRoom(o)
      PROVE  RoomInv'
  BY <1>4, <1>6, Zenon DEF JoinRoom
<1>7. ASSUME NEW o \in Obj, LeaveRemove(o)
      PROVE  RoomInv'
  <2>1. /\ stage' = [stage EXCEPT ![o] = "detach"]
        /\ stage[o] = "remove"
        /\ UNCHANGED <<keep, races>>
        /\ registered' = [registered EXCEPT ![IdOf[o]] = NoObj]
        /\ joined' = [r \in Room |-> [joined[r] EXCEPT ![IdOf[o]] = NoObj]]
    BY <1>7, Zenon DEF LeaveRemove, Rooms!Remove
  <2>2. RoomType' /\ Recovering'
    BY <1>0, <2>1 DEF RoomInv, RoomType, Recovering
  <2>3. CASE "recover" \notin races
    <3>1. \A p \in Obj : p # o /\ IdOf[p] = IdOf[o] => Away(p)
      BY <2>1, <2>3 DEF RoomInv, OneAlive, Away
    <3>2. OneAlive'
      BY <2>1, <2>3, <3>1 DEF RoomInv, OneAlive, Away
    <3>3. Enrolled'
      BY <1>0, <2>1, <2>3, <3>1, Zenon DEF RoomInv, RoomType, Enrolled, Away
    <3>4. RoomsBack'
      BY <1>0, <2>1, <2>3, <3>1, Zenon DEF RoomInv, RoomType, RoomsBack, Away
    <3> QED
      BY <2>2, <3>2, <3>3, <3>4 DEF RoomInv
  <2> QED
    BY <2>1, <2>2, <2>3 DEF RoomInv
<1>8. ASSUME NEW o \in Obj,
             AddReject(o) \/ AddAttach(o) \/ AddConnected(o) \/ LeaveSave(o) \/ LeaveDetach(o)
      PROVE  RoomInv'
  BY <1>8, MoveRooms, Zenon
  DEF AddReject, AddAttach, AddConnected, AddStep, LeaveSave, LeaveDetach, Away
<1>9. ASSUME NEW o \in Obj, NEW b, UNCHANGED <<registered, joined, keep, races>>,
             stage' = [stage EXCEPT ![o] = AfterSwap(o, b)]
      PROVE  RoomInv'
  <2>1. CASE stage[o] = "connected"
    BY <1>9, <2>1, MoveRooms, Zenon DEF AfterSwap, Away
  <2>2. CASE stage[o] # "connected"
    <3>1. UNCHANGED stage
      BY <1>9, <2>2 DEF AfterSwap
    <3> QED
      BY <1>1, <1>9, <3>1
  <2> QED
    BY <2>1, <2>2
<1>10. ASSUME NEW o \in Obj, DisconnectClose(o)
       PROVE  RoomInv'
  BY <1>9, <1>10, Zenon DEF DisconnectClose
<1>11. ASSUME NEW c \in Conn, ClientDisconnect(c)
       PROVE  RoomInv'
  BY <1>9, <1>11, Zenon DEF ClientDisconnect
<1>12. ASSUME NEW c \in Conn, CloseSocket(c)
       PROVE  RoomInv'
  BY <1>1, <1>9, <1>12, Zenon DEF CloseSocket
<1>13. CASE UNCHANGED <<registered, joined, keep, stage, races>>
  BY <1>1, <1>13
<1> QED
  BY <1>2, <1>3, <1>5, <1>6, <1>7, <1>8, <1>10, <1>11, <1>12, <1>13
  DEF Next, Adding, Leaving, Closing, DisconnectSend, CloseBegin, CloseSnapshot,
      CloseEnd, Expire, vars

\* A connected socket is registered and is in every room of the session it
\* recovered (ConnectedKeepsRooms), unless clients come back too early.
THEOREM RoomsRestored == Spec => []ConnectedKeepsRooms
<1>1. Spec => []SessionInv
  BY InitSession, StepSession, PTL DEF Spec
<1>2. SessionInv => StageType
  BY DEF SessionInv
<1>3. RoomInv => ConnectedKeepsRooms
  BY Zenon DEF RoomInv, ConnectedKeepsRooms, RoomsKept, Enrolled, RoomsBack
<1> QED
  BY <1>1, <1>2, <1>3, InitRooms, StepRooms, PTL DEF Spec

-----------------------------------------------------------------------------
(***************************************************************************)
(* The sockets of a connection that only its reader ends and closes.        *)
(***************************************************************************)
LinkType ==
  /\ registered \in [Sid -> Obj \cup {NoObj}]
  /\ connOf \in [Obj -> Conn \cup {NoConn}]
  /\ told \in [Obj -> BOOLEAN]
  /\ reader \in [Conn -> Obj \cup {NoObj, "exit"}]
  /\ closing \in [Conn -> {"no", "begun", "sockets", "wait", "done"}]

\* A socket that has been made has a connection, whose reader works for it while
\* it is being added; the connection and close find sockets of the connection.
Linked ==
  /\ \A o \in Obj : connOf[o] = NoConn <=> stage[o] = "new"
  /\ \A o \in Obj : stage[o] \in {"found", "registered", "restored", "attached"} =>
       reader[connOf[o]] = o
  /\ \A c \in Conn : entry[c] # NoObj => connOf[entry[c]] = c
  /\ \A c \in Conn : snap[c] # NoObj => connOf[snap[c]] = c

\* What is registered has been added and not yet removed.
EnrolledOnly ==
  \A i \in Sid : registered[i] # NoObj =>
    /\ IdOf[registered[i]] = i
    /\ stage[registered[i]] \in
         {"registered", "restored", "attached", "connected", "save", "remove"}

\* A connection has one living socket; it is entered from conn.addSocket to
\* conn.removeSocket, nothing else is.
OneEach ==
  /\ \A o, p \in Obj : o # p /\ connOf[o] = connOf[p] /\ ~Away(o) => Away(p)
  /\ \A o \in Obj : stage[o] \in {"attached", "connected", "save", "remove", "detach"} =>
       entry[connOf[o]] = o
  /\ \A c \in Conn : entry[c] # NoObj =>
       stage[entry[c]] \in {"attached", "connected", "save", "remove", "detach"}

\* The reader is what ends a socket: it works for it, or has left for close.
ReaderEnds ==
  /\ \A o \in Obj : stage[o] \in {"save", "remove", "detach"} => reader[connOf[o]] \in {o, "exit"}
  /\ \A o \in Obj : told[o] /\ stage[o] # "gone" =>
       stage[o] \in {"save", "remove", "detach"} /\ reader[connOf[o]] = o

\* close is called by the reader, finds the connected socket and ends it.
CloseFinds ==
  /\ \A c \in Conn : closing[c] # "no" => reader[c] = "exit"
  /\ \A o \in Obj : stage[o] = "connected" =>
       /\ closing[connOf[o]] \in {"no", "begun", "sockets"}
       /\ closing[connOf[o]] = "sockets" => snap[connOf[o]] = o

LinkBase == LinkType /\ Linked /\ EnrolledOnly

QuietInv == races \cap {"close", "disconnect"} = {} => OneEach /\ ReaderEnds /\ CloseFinds

\* A server without connections satisfies both.
LEMMA InitLinks == Init => LinkBase /\ QuietInv
BY NamespaceAssumption
DEF Init, LinkBase, LinkType, Linked, EnrolledOnly, QuietInv, OneEach, ReaderEnds, CloseFinds,
    Away, Rooms!Init, Rooms!Nobody

\* A socket that has been made has a connection.
LEMMA HasConn ==
  ASSUME LinkBase, NEW o \in Obj, stage[o] # "new"
  PROVE  connOf[o] \in Conn
BY DEF LinkBase, LinkType, Linked

\* Steps that change the stage of a socket that is not being added, and nothing
\* that links it to its connection.
LEMMA MoveLinks ==
  ASSUME StageType, LinkBase, NEW o \in Obj, NEW s \in Stage,
         stage' = [stage EXCEPT ![o] = s],
         stage[o] \in {"connected", "save"}, s \in {"save", "remove"},
         UNCHANGED <<registered, connOf, entry, snap>>,
         LinkType',
         \A c \in Conn : reader[c] # NoObj => reader'[c] = reader[c]
  PROVE  LinkBase'
<1>1. \A p \in Obj : stage'[p] = IF p = o THEN s ELSE stage[p]
  BY DEF StageType
<1>2. \A p \in Obj : stage[p] # "new" => connOf[p] \in Conn
  BY HasConn
<1>3. Linked'
  <2>1. \A p \in Obj : stage'[p] \in {"found", "registered", "restored", "attached"} =>
          reader'[connOf'[p]] = p
    BY <1>1, <1>2, NamespaceAssumption DEF LinkBase, Linked
  <2> QED
    BY <1>1, <2>1 DEF LinkBase, Linked
<1>4. EnrolledOnly'
  BY <1>1 DEF LinkBase, LinkType, EnrolledOnly
<1> QED
  BY <1>3, <1>4 DEF LinkBase

\* Every step of add, onClose and close keeps the links between sockets and
\* connections.
LEMMA StepLinks == StageType /\ LinkBase /\ [Next]_vars => LinkBase'
<1> SUFFICES ASSUME StageType, LinkBase, [Next]_vars
             PROVE  LinkBase'
  OBVIOUS
<1> USE DEF Stage
<1>0. /\ LinkType /\ Linked /\ EnrolledOnly
      /\ \A o \in Obj : IdOf[o] \in Sid
      /\ \A o \in Obj : stage[o] # "new" => connOf[o] \in Conn
  BY NamespaceAssumption, HasConn, Zenon DEF LinkBase
<1>1. ASSUME UNCHANGED <<registered, connOf, entry, snap, stage>>,
             LinkType', \A c \in Conn : reader[c] # NoObj => reader'[c] = reader[c]
      PROVE  LinkBase'
  <2>1. \A o \in Obj : stage[o] \in {"found", "registered", "restored", "attached"} =>
          reader'[connOf[o]] = o
    BY <1>0, <1>1, NamespaceAssumption DEF Linked
  <2> QED
    BY <1>0, <1>1, <2>1, Zenon DEF LinkBase, Linked, EnrolledOnly
<1>2. ASSUME NEW c \in Conn, NEW o \in Obj, AddFresh(c, o) \/ AddRecovered(c, o)
      PROVE  LinkBase'
  <2>1. /\ stage' = [stage EXCEPT ![o] = "found"] /\ stage[o] = "new"
        /\ connOf' = [connOf EXCEPT ![o] = c]
        /\ reader' = [reader EXCEPT ![c] = o] /\ reader[c] = NoObj
        /\ UNCHANGED <<registered, told, entry, closing, snap>>
    BY <1>2 DEF AddFresh, AddRecovered, BeginAdd, MayConnect, MayRecover
  <2>2. LinkType'
    BY <1>0, <2>1 DEF LinkType
  <2>3. \A p \in Obj : /\ stage'[p] = IF p = o THEN "found" ELSE stage[p]
                       /\ connOf'[p] = IF p = o THEN c ELSE connOf[p]
    BY <1>0, <2>1 DEF LinkType, StageType
  <2>4. \A d \in Conn : reader'[d] = IF d = c THEN o ELSE reader[d]
    BY <1>0, <2>1, Zenon DEF LinkType
  <2>5. \A p \in Obj : stage[p] \in {"found", "registered", "restored", "attached"} =>
          connOf[p] # c
    BY <1>0, <2>1, NamespaceAssumption DEF Linked
  <2>6. Linked'
    <3>1. \A p \in Obj : stage'[p] \in {"found", "registered", "restored", "attached"} =>
            reader'[connOf'[p]] = p
      BY <1>0, <2>3, <2>4, <2>5 DEF Linked
    <3>2. \A d \in Conn : entry[d] # o /\ snap[d] # o
      BY <1>0, <2>1, NamespaceAssumption DEF Linked
    <3>3. \A d \in Conn : /\ entry[d] # NoObj => entry[d] \in Obj /\ connOf'[entry[d]] = d
                          /\ snap[d] # NoObj => snap[d] \in Obj /\ connOf'[snap[d]] = d
      BY <1>0, <2>3, <3>2 DEF Linked, StageType
    <3> QED
      BY <1>0, <2>1, <2>3, <3>1, <3>3, NamespaceAssumption DEF Linked
  <2>7. EnrolledOnly'
    BY <1>0, <2>1, <2>3 DEF EnrolledOnly, LinkType
  <2> QED
    BY <2>2, <2>6, <2>7, Zenon DEF LinkBase
<1>3. ASSUME NEW o \in Obj, AddReject(o)
      PROVE  LinkBase'
  <2>1. /\ stage' = [stage EXCEPT ![o] = "gone"] /\ stage[o] = "found"
        /\ reader' = [reader EXCEPT ![connOf[o]] = NoObj] /\ reader[connOf[o]] = o
        /\ told' = [told EXCEPT ![o] = TRUE]
        /\ UNCHANGED <<registered, connOf, entry, closing, snap>>
    BY <1>3 DEF AddReject, AddStep
  <2>2. LinkType'
    BY <1>0, <2>1 DEF LinkType
  <2>3. \A p \in Obj : stage'[p] = IF p = o THEN "gone" ELSE stage[p]
    BY <2>1, Zenon DEF StageType
  <2>4. \A p \in Obj : stage'[p] \in {"found", "registered", "restored", "attached"} =>
          reader'[connOf[p]] = p
    BY <1>0, <2>1, <2>3 DEF Linked, LinkType
  <2>5. Linked'
    BY <1>0, <2>1, <2>3, <2>4 DEF Linked
  <2>6. EnrolledOnly'
    BY <1>0, <2>1, <2>3 DEF EnrolledOnly, LinkType
  <2> QED
    BY <2>2, <2>5, <2>6, Zenon DEF LinkBase
<1>4. ASSUME NEW o \in Obj, AddRegister(o)
      PROVE  LinkBase'
  <2>1. /\ \E s \in {"registered", "restored"} : stage' = [stage EXCEPT ![o] = s]
        /\ stage[o] = "found" /\ reader[connOf[o]] = o
        /\ registered' = [registered EXCEPT ![IdOf[o]] = o]
        /\ UNCHANGED <<connOf, told, entry, reader, closing, snap>>
    BY <1>4, Zenon DEF AddRegister, AddStep, connVars
  <2>2. LinkType'
    BY <1>0, <2>1 DEF LinkType
  <2>3. Linked'
    BY <1>0, <2>1, Zenon DEF Linked, StageType
  <2>4. \A i \in Sid : registered'[i] = IF i = IdOf[o] THEN o ELSE registered[i]
    BY <1>0, <2>1, Zenon DEF LinkType
  <2>5. EnrolledOnly'
    BY <1>0, <2>1, <2>4 DEF EnrolledOnly, LinkType, StageType
  <2> QED
    BY <2>2, <2>3, <2>5 DEF LinkBase
<1>5. ASSUME NEW o \in Obj, AddRestore(o) \/ AddAttach(o)
      PROVE  LinkBase'
  <2>1. /\ \E s \in {"restored", "attached"} : stage' = [stage EXCEPT ![o] = s]
        /\ stage[o] \in {"registered", "restored"} /\ reader[connOf[o]] = o
        /\ entry' = entry \/ entry' = [entry EXCEPT ![connOf[o]] = o]
        /\ UNCHANGED <<registered, connOf, told, reader, closing, snap>>
    BY <1>5 DEF AddRestore, AddAttach, AddStep, connVars, Rooms!JoinAll
  <2>2. LinkType'
    BY <1>0, <2>1, Zenon DEF LinkType
  <2>3. \A c \in Conn : entry'[c] # NoObj => connOf[entry'[c]] = c
    BY <1>0, <2>1 DEF Linked, StageType
  <2>4. Linked'
    BY <1>0, <2>1, <2>3 DEF Linked, StageType
  <2>5. EnrolledOnly'
    BY <1>0, <2>1 DEF EnrolledOnly, LinkType, StageType
  <2> QED
    BY <2>2, <2>4, <2>5 DEF LinkBase
<1>6. ASSUME NEW o \in Obj, AddConnected(o)
      PROVE  LinkBase'
  <2>1. /\ stage' = [stage EXCEPT ![o] = "connected"] /\ stage[o] = "attached"
        /\ reader' = [reader EXCEPT ![connOf[o]] = NoObj] /\ reader[connOf[o]] = o
        /\ UNCHANGED <<registered, connOf, told, entry, closing, snap>>
    BY <1>6 DEF AddConnected, AddStep
  <2>2. LinkType'
    BY <1>0, <2>1 DEF LinkType
  <2>3. \A p \in Obj : stage'[p] = IF p = o THEN "connected" ELSE stage[p]
    BY <2>1, Zenon DEF StageType
  <2>4. \A p \in Obj : stage'[p] \in {"found", "registered", "restored", "attached"} =>
          reader'[connOf[p]] = p
    BY <1>0, <2>1, <2>3 DEF Linked, LinkType
  <2>5. Linked'
    BY <1>0, <2>1, <2>3, <2>4 DEF Linked
  <2>6. EnrolledOnly'
    BY <1>0, <2>1, <2>3 DEF EnrolledOnly, LinkType
  <2> QED
    BY <2>2, <2>5, <2>6 DEF LinkBase
<1>7. ASSUME NEW o \in Obj, LeaveSave(o)
      PROVE  LinkBase'
  <2>1. /\ stage' = [stage EXCEPT ![o] = "remove"] /\ stage[o] = "save"
        /\ UNCHANGED <<registered, connOf, told, entry, reader, closing, snap>>
    BY <1>7, Zenon DEF LeaveSave, connVars
  <2>2. LinkType'
    BY <1>0, <2>1 DEF LinkType
  <2> QED
    BY <2>1, <2>2, MoveLinks, Zenon
<1>8. ASSUME NEW o \in Obj, LeaveRemove(o)
      PROVE  LinkBase'
  <2>1. /\ stage' = [stage EXCEPT ![o] = "detach"] /\ stage[o] = "remove"
        /\ registered' = [registered EXCEPT ![IdOf[o]] = NoObj]
        /\ UNCHANGED <<connOf, told, entry, reader, closing, snap>>
    BY <1>8 DEF LeaveRemove, connVars, Rooms!Remove
  <2>2. LinkType'
    BY <1>0, <2>1, Zenon DEF LinkType
  <2>3. Linked'
    BY <1>0, <2>1 DEF Linked, StageType
  <2>4. \A i \in Sid : registered'[i] = IF i = IdOf[o] THEN NoObj ELSE registered[i]
    BY <1>0, <2>1, Zenon DEF LinkType
  <2>5. EnrolledOnly'
    BY <1>0, <2>1, <2>4 DEF EnrolledOnly, LinkType, StageType
  <2> QED
    BY <2>2, <2>3, <2>5 DEF LinkBase
<1>9. ASSUME NEW o \in Obj, LeaveDetach(o)
      PROVE  LinkBase'
  <2>1. /\ stage' = [stage EXCEPT ![o] = "gone"] /\ stage[o] = "detach"
        /\ entry' = [entry EXCEPT ![connOf[o]] = NoObj]
        /\ reader' = [reader EXCEPT ![connOf[o]] = IF @ = o THEN NoObj ELSE @]
        /\ UNCHANGED <<registered, connOf, told, closing, snap>>
    BY <1>9 DEF LeaveDetach
  <2>2. LinkType'
    BY <1>0, <2>1, Zenon DEF LinkType
  <2>3. \A p \in Obj : stage'[p] = IF p = o THEN "gone" ELSE stage[p]
    BY <2>1, Zenon DEF StageType
  <2>4. \A c \in Conn : /\ reader[c] # o => reader'[c] = reader[c]
                        /\ entry'[c] # NoObj => entry'[c] = entry[c]
    BY <1>0, <2>1, Zenon DEF LinkType, StageType
  <2>5. \A p \in Obj : stage'[p] \in {"found", "registered", "restored", "attached"} =>
          reader'[connOf[p]] = p
    BY <1>0, <2>1, <2>3, <2>4 DEF Linked
  <2>6. Linked'
    BY <1>0, <2>1, <2>3, <2>4, <2>5 DEF Linked
  <2>7. EnrolledOnly'
    BY <1>0, <2>1, <2>3 DEF EnrolledOnly, LinkType
  <2> QED
    BY <2>2, <2>6, <2>7 DEF LinkBase
<1>10. ASSUME NEW o \in Obj, DisconnectClose(o)
       PROVE  LinkBase'
  <2>1. /\ \E s \in {"save", "remove"} : stage' = [stage EXCEPT ![o] = s]
        /\ stage[o] = "connected"
        /\ UNCHANGED <<registered, connOf, told, entry, reader, closing, snap>>
    BY <1>10 DEF DisconnectClose, AfterSwap, connVars
  <2>2. LinkType'
    BY <1>0, <2>1 DEF LinkType
  <2> QED
    BY <2>1, <2>2, MoveLinks, Zenon
<1>11. ASSUME NEW c \in Conn, ClientDisconnect(c)
       PROVE  LinkBase'
  <2>1. /\ entry[c] \in Obj /\ reader[c] = NoObj
        /\ reader' = [reader EXCEPT ![c] = IF stage[entry[c]] = "connected" THEN entry[c] ELSE NoObj]
        /\ told' = [told EXCEPT ![entry[c]] = TRUE]
        /\ stage' = [stage EXCEPT ![entry[c]] = AfterSwap(entry[c], FALSE)]
        /\ UNCHANGED <<registered, connOf, entry, closing, snap>>
    BY <1>11, Zenon DEF ClientDisconnect, StageType
  <2>2. LinkType' /\ \A d \in Conn : reader[d] # NoObj => reader'[d] = reader[d]
    BY <1>0, <2>1 DEF LinkType
  <2>3. CASE stage[entry[c]] = "connected"
    <3>1. \E s \in {"save", "remove"} : stage' = [stage EXCEPT ![entry[c]] = s]
      BY <2>1, <2>3 DEF AfterSwap
    <3> QED
      BY <2>1, <2>2, <2>3, <3>1, MoveLinks, Zenon
  <2>4. CASE stage[entry[c]] # "connected"
    <3>1. UNCHANGED stage
      BY <2>1, <2>4, Zenon DEF AfterSwap, StageType
    <3> QED
      BY <1>1, <2>1, <2>2, <3>1, Zenon
  <2> QED
    BY <2>3, <2>4, Zenon
<1>12. ASSUME NEW c \in Conn, CloseSocket(c)
       PROVE  LinkBase'
  <2>1. /\ LinkType' /\ UNCHANGED <<registered, connOf, entry, reader, snap>>
        /\ \/ UNCHANGED stage
           \/ /\ snap[c] \in Obj /\ stage[snap[c]] = "connected"
              /\ \E s \in {"save", "remove"} : stage' = [stage EXCEPT ![snap[c]] = s]
    BY <1>0, <1>12, Zenon DEF CloseSocket, AfterSwap, LinkType, StageType
  <2> QED
    BY <1>1, <2>1, MoveLinks, Zenon
<1>13. ASSUME NEW c \in Conn, CloseBegin(c) \/ CloseEnd(c)
       PROVE  LinkBase'
  <2>1. LinkType' /\ \A d \in Conn : reader[d] # NoObj => reader'[d] = reader[d]
    BY <1>0, <1>13 DEF LinkType, CloseBegin, CloseEnd
  <2> QED
    BY <1>1, <1>13, <2>1, Zenon DEF CloseBegin, CloseEnd
<1>14. ASSUME NEW c \in Conn, CloseSnapshot(c)
       PROVE  LinkBase'
  <2>1. /\ snap' = [snap EXCEPT ![c] = entry[c]]
        /\ closing' = [closing EXCEPT ![c] = "sockets"]
        /\ UNCHANGED <<registered, connOf, told, entry, reader, stage>>
    BY <1>14, Zenon DEF CloseSnapshot
  <2>2. LinkType' /\ EnrolledOnly'
    BY <1>0, <2>1, Zenon DEF LinkType, EnrolledOnly
  <2>3. Linked'
    BY <1>0, <2>1 DEF Linked, StageType
  <2> QED
    BY <2>2, <2>3, Zenon DEF LinkBase
<1>15. ASSUME NEW o \in Obj, DisconnectSend(o) \/ JoinRoom(o)
       PROVE  LinkBase'
  BY <1>0, <1>1, <1>15, Zenon DEF LinkType, DisconnectSend, JoinRoom, Rooms!JoinAll, connVars
<1>16. ASSUME NEW i \in Sid, Expire(i)
       PROVE  LinkBase'
  BY <1>0, <1>1, <1>16, Zenon DEF LinkType, Expire, connVars
<1>17. CASE UNCHANGED vars
  BY <1>0, <1>1, <1>17 DEF LinkType, vars, connVars
<1> QED
  BY <1>2, <1>3, <1>4, <1>5, <1>6, <1>7, <1>8, <1>9, <1>10, <1>11, <1>12, <1>13, <1>14,
     <1>15, <1>16, <1>17
  DEF Next, Adding, Leaving, Closing

\* The parts of QuietInv, where they are demanded.
QuietParts == OneEach /\ ReaderEnds /\ CloseFinds

\* Steps of a socket that leave its connection alone and keep it in a group of
\* stages that the links treat alike.
LEMMA MoveQuiet ==
  ASSUME StageType, LinkBase, QuietParts, NEW o \in Obj, NEW s \in Stage,
         stage' = [stage EXCEPT ![o] = s],
         \/ /\ stage[o] \in {"found", "registered", "restored"}
            /\ s \in {"registered", "restored"}
         \/ stage[o] \in {"save", "remove"} /\ s \in {"remove", "detach"},
         UNCHANGED <<connOf, told, entry, reader, closing, snap>>
  PROVE  QuietParts'
<1>1. \A p \in Obj : stage'[p] = IF p = o THEN s ELSE stage[p]
  BY Zenon DEF StageType
<1>2. OneEach'
  <2>1. \A p, q \in Obj : p # q /\ connOf[p] = connOf[q] /\ ~Away(p)' => Away(q)'
    BY <1>1 DEF QuietParts, OneEach, Away
  <2>2. \A p \in Obj : stage'[p] \in {"attached", "connected", "save", "remove", "detach"} =>
          entry[connOf[p]] = p
    BY <1>1 DEF QuietParts, OneEach
  <2>3. \A c \in Conn : entry[c] # NoObj =>
          stage'[entry[c]] \in {"attached", "connected", "save", "remove", "detach"}
    BY <1>1, Zenon DEF QuietParts, OneEach, StageType
  <2> QED
    BY <2>1, <2>2, <2>3, Zenon DEF OneEach
<1>3. ReaderEnds' /\ CloseFinds'
  BY <1>1 DEF QuietParts, ReaderEnds, CloseFinds
<1> QED
  BY <1>2, <1>3 DEF QuietParts

\* Every step keeps them when nobody but the reader ends sockets and closes.
LEMMA StepQuietParts ==
  ASSUME StageType, LinkBase, QuietParts, [Next]_vars,
         "close" \notin races, "disconnect" \notin races
  PROVE  QuietParts'
<1> USE DEF Stage
<1>0. /\ LinkType /\ Linked /\ OneEach /\ ReaderEnds /\ CloseFinds
      /\ \A o \in Obj : stage[o] # "new" => connOf[o] \in Conn
      /\ NoObj \notin Obj /\ "exit" \notin Obj /\ NoObj # "exit"
  BY NamespaceAssumption, HasConn, Zenon DEF LinkBase, QuietParts
<1>1. ASSUME NEW o \in Obj, ~Away(o)
      PROVE  \A p \in Obj : p # o /\ connOf[p] = connOf[o] => Away(p)
  BY <1>0, <1>1 DEF OneEach
<1>2. ASSUME NEW c \in Conn, reader[c] # "exit"
      PROVE  closing[c] = "no"
  BY <1>0, <1>2, Zenon DEF CloseFinds
<1>3. ASSUME UNCHANGED <<stage, connOf, told, entry, reader, closing, snap>>
      PROVE  QuietParts'
  BY <1>0, <1>3 DEF QuietParts, OneEach, ReaderEnds, CloseFinds, Away
<1>4. ASSUME NEW c \in Conn, NEW o \in Obj, AddFresh(c, o) \/ AddRecovered(c, o)
      PROVE  QuietParts'
  <2>1. /\ stage' = [stage EXCEPT ![o] = "found"] /\ stage[o] = "new"
        /\ connOf' = [connOf EXCEPT ![o] = c]
        /\ reader' = [reader EXCEPT ![c] = o] /\ reader[c] = NoObj
        /\ \A p \in Obj : connOf[p] = c => told[p]
        /\ UNCHANGED <<told, entry, closing, snap>>
    BY <1>4, Zenon DEF AddFresh, AddRecovered, BeginAdd, MayConnect, MayRecover
  <2>2. \A p \in Obj : /\ stage'[p] = IF p = o THEN "found" ELSE stage[p]
                       /\ connOf'[p] = IF p = o THEN c ELSE connOf[p]
    BY <1>0, <2>1, Zenon DEF LinkType, StageType
  <2>3. \A d \in Conn : reader'[d] = IF d = c THEN o ELSE reader[d]
    BY <1>0, <2>1, Zenon DEF LinkType
  <2>4. \A p \in Obj : connOf[p] = c => stage[p] = "gone"
    BY <1>0, <2>1 DEF ReaderEnds
  <2>5. OneEach'
    <3>1. \A p, q \in Obj : p # q /\ connOf'[p] = connOf'[q] /\ ~Away(p)' => Away(q)'
      BY <1>0, <2>2, <2>4 DEF OneEach, Away
    <3>2. \A p \in Obj : stage'[p] \in {"attached", "connected", "save", "remove", "detach"} =>
            entry[connOf'[p]] = p
      BY <1>0, <2>2, Zenon DEF OneEach
    <3>3. \A d \in Conn : entry[d] # NoObj =>
            stage'[entry[d]] \in {"attached", "connected", "save", "remove", "detach"}
      BY <1>0, <2>1, <2>2 DEF OneEach, StageType
    <3> QED
      BY <2>1, <3>1, <3>2, <3>3, Zenon DEF OneEach
  <2>6. ReaderEnds'
    BY <1>0, <2>1, <2>2, <2>3, <2>4 DEF ReaderEnds
  <2>7. CloseFinds'
    BY <1>0, <2>1, <2>2, <2>3, <2>4 DEF CloseFinds
  <2> QED
    BY <2>5, <2>6, <2>7, Zenon DEF QuietParts
<1>5. ASSUME NEW o \in Obj, AddReject(o)
      PROVE  QuietParts'
  <2>1. /\ stage' = [stage EXCEPT ![o] = "gone"] /\ stage[o] = "found"
        /\ reader' = [reader EXCEPT ![connOf[o]] = NoObj] /\ reader[connOf[o]] = o
        /\ told' = [told EXCEPT ![o] = TRUE]
        /\ UNCHANGED <<connOf, entry, closing, snap>>
    BY <1>5 DEF AddReject, AddStep
  <2>2. \A p \in Obj : /\ stage'[p] = IF p = o THEN "gone" ELSE stage[p]
                       /\ p # o => told'[p] = told[p]
    BY <1>0, <2>1, Zenon DEF LinkType, StageType
  <2>3. \A d \in Conn : reader'[d] = IF d = connOf[o] THEN NoObj ELSE reader[d]
    BY <1>0, <2>1, Zenon DEF LinkType
  <2>4. \A p \in Obj : p # o /\ connOf[p] = connOf[o] => Away(p)
    BY <1>1, <2>1, Zenon DEF Away
  <2>5. OneEach'
    BY <1>0, <2>1, <2>2 DEF OneEach, Away, StageType
  <2>6. \A p \in Obj : stage[p] \in {"save", "remove", "detach"} => reader'[connOf[p]] = reader[connOf[p]]
    BY <1>0, <2>1, <2>3, <2>4, Zenon DEF Away
  <2>7. ReaderEnds'
    <3>1. UNCHANGED connOf
      BY <2>1, Zenon
    <3> QED
      BY <1>0, <2>2, <2>6, <3>1 DEF ReaderEnds
  <2>8. CloseFinds'
    BY <1>0, <1>2, <2>1, <2>2, <2>3 DEF CloseFinds
  <2> QED
    BY <2>5, <2>7, <2>8, Zenon DEF QuietParts
<1>6. ASSUME NEW o \in Obj, AddRegister(o) \/ AddRestore(o)
      PROVE  QuietParts'
  <2>1. /\ \E s \in {"registered", "restored"} : stage' = [stage EXCEPT ![o] = s]
        /\ stage[o] \in {"found", "registered", "restored"}
        /\ UNCHANGED <<connOf, told, entry, reader, closing, snap>>
    BY <1>6 DEF AddRegister, AddRestore, AddStep, connVars
  <2> QED
    BY <2>1, MoveQuiet, Zenon
<1>7. ASSUME NEW o \in Obj, AddAttach(o)
      PROVE  QuietParts'
  <2>1. /\ stage' = [stage EXCEPT ![o] = "attached"] /\ stage[o] = "restored"
        /\ entry' = [entry EXCEPT ![connOf[o]] = o]
        /\ UNCHANGED <<connOf, told, reader, closing, snap>>
    BY <1>7 DEF AddAttach, AddStep
  <2>2. \A p \in Obj : stage'[p] = IF p = o THEN "attached" ELSE stage[p]
    BY <2>1 DEF StageType
  <2>3. \A d \in Conn : entry'[d] = IF d = connOf[o] THEN o ELSE entry[d]
    BY <2>1 DEF StageType
  <2>4. \A p \in Obj : p # o /\ connOf[p] = connOf[o] => Away(p)
    BY <1>1, <2>1, Zenon DEF Away
  <2>5. OneEach'
    <3>1. \A p, q \in Obj : p # q /\ connOf[p] = connOf[q] /\ ~Away(p)' => Away(q)'
      BY <1>0, <2>1, <2>2, <2>4 DEF OneEach, Away
    <3>2. \A p \in Obj : stage'[p] \in {"attached", "connected", "save", "remove", "detach"} =>
            entry'[connOf[p]] = p
      BY <1>0, <2>1, <2>2, <2>3, <2>4 DEF OneEach, Away
    <3>3. \A d \in Conn : entry'[d] # NoObj =>
            stage'[entry'[d]] \in {"attached", "connected", "save", "remove", "detach"}
      BY <1>0, <2>1, <2>2, <2>3, Zenon DEF OneEach, StageType
    <3> QED
      BY <2>1, <3>1, <3>2, <3>3, Zenon DEF OneEach
  <2>6. ReaderEnds' /\ CloseFinds'
    BY <1>0, <2>1, <2>2 DEF ReaderEnds, CloseFinds
  <2> QED
    BY <2>5, <2>6, Zenon DEF QuietParts
<1>8. ASSUME NEW o \in Obj, AddConnected(o)
      PROVE  QuietParts'
  <2>1. /\ stage' = [stage EXCEPT ![o] = "connected"] /\ stage[o] = "attached"
        /\ reader' = [reader EXCEPT ![connOf[o]] = NoObj] /\ reader[connOf[o]] = o
        /\ UNCHANGED <<connOf, told, entry, closing, snap>>
    BY <1>8 DEF AddConnected, AddStep
  <2>2. \A p \in Obj : stage'[p] = IF p = o THEN "connected" ELSE stage[p]
    BY <2>1, Zenon DEF StageType
  <2>3. \A d \in Conn : reader'[d] = IF d = connOf[o] THEN NoObj ELSE reader[d]
    BY <1>0, <2>1 DEF LinkType
  <2>4. \A p \in Obj : p # o /\ connOf[p] = connOf[o] => Away(p)
    BY <1>1, <2>1 DEF Away
  <2>5. closing[connOf[o]] = "no"
    BY <1>0, <1>2, <2>1, Zenon
  <2>6. OneEach'
    BY <1>0, <2>1, <2>2 DEF OneEach, Away, StageType
  <2>7. ReaderEnds'
    BY <1>0, <2>1, <2>2, <2>3, <2>4 DEF ReaderEnds, Away
  <2>8. CloseFinds'
    BY <1>0, <2>1, <2>2, <2>3, <2>5 DEF CloseFinds
  <2> QED
    BY <2>6, <2>7, <2>8, Zenon DEF QuietParts
<1>9. ASSUME NEW o \in Obj, LeaveSave(o) \/ LeaveRemove(o)
      PROVE  QuietParts'
  <2>1. /\ \E s \in {"remove", "detach"} : stage' = [stage EXCEPT ![o] = s]
        /\ stage[o] \in {"save", "remove"}
        /\ UNCHANGED <<connOf, told, entry, reader, closing, snap>>
    BY <1>9, Zenon DEF LeaveSave, LeaveRemove, connVars
  <2> QED
    BY <2>1, MoveQuiet, Zenon
<1>10. ASSUME NEW o \in Obj, LeaveDetach(o)
       PROVE  QuietParts'
  <2>1. /\ stage' = [stage EXCEPT ![o] = "gone"] /\ stage[o] = "detach"
        /\ entry' = [entry EXCEPT ![connOf[o]] = NoObj]
        /\ reader' = [reader EXCEPT ![connOf[o]] = IF @ = o THEN NoObj ELSE @]
        /\ UNCHANGED <<connOf, told, closing, snap>>
    BY <1>10, Zenon DEF LeaveDetach
  <2>2. \A p \in Obj : stage'[p] = IF p = o THEN "gone" ELSE stage[p]
    BY <2>1, Zenon DEF StageType
  <2>3. \A d \in Conn : /\ entry'[d] = IF d = connOf[o] THEN NoObj ELSE entry[d]
                        /\ reader[d] # o => reader'[d] = reader[d]
    BY <1>0, <2>1 DEF LinkType, StageType
  <2>4. \A p \in Obj : p # o /\ connOf[p] = connOf[o] => Away(p)
    BY <1>1, <2>1, Zenon DEF Away
  <2>5. OneEach'
    <3>1. \A p, q \in Obj : p # q /\ connOf[p] = connOf[q] /\ ~Away(p)' => Away(q)'
      BY <1>0, <2>1, <2>2, <2>4 DEF OneEach, Away
    <3>2. \A p \in Obj : stage'[p] \in {"attached", "connected", "save", "remove", "detach"} =>
            entry'[connOf[p]] = p
      BY <1>0, <2>1, <2>2, <2>3, <2>4 DEF OneEach, Away
    <3>3. \A d \in Conn : entry'[d] # NoObj =>
            stage'[entry'[d]] \in {"attached", "connected", "save", "remove", "detach"}
      BY <1>0, <2>1, <2>2, <2>3 DEF OneEach, Linked, StageType
    <3> QED
      BY <2>1, <3>1, <3>2, <3>3, Zenon DEF OneEach
  <2>6. ReaderEnds'
    BY <1>0, <2>1, <2>2, <2>3 DEF ReaderEnds
  <2>7. CloseFinds'
    BY <1>0, <2>1, <2>2, <2>3 DEF CloseFinds
  <2> QED
    BY <2>5, <2>6, <2>7 DEF QuietParts
<1>11. ASSUME NEW c \in Conn, NEW o \in Obj, NEW s \in {"save", "remove"},
              stage[o] = "connected", connOf[o] = c,
              stage' = [stage EXCEPT ![o] = s],
              \/ /\ reader' = [reader EXCEPT ![c] = o] /\ reader[c] = NoObj
                 /\ told' = [told EXCEPT ![o] = TRUE] /\ UNCHANGED closing
              \/ /\ closing' = [closing EXCEPT ![c] = "wait"] /\ closing[c] = "sockets"
                 /\ UNCHANGED <<reader, told>>,
              UNCHANGED <<connOf, entry, snap>>
       PROVE  QuietParts'
  <2>1. \A p \in Obj : /\ stage'[p] = IF p = o THEN s ELSE stage[p]
                       /\ p # o => told'[p] = told[p]
    BY <1>0, <1>11 DEF LinkType, StageType
  <2>2. \A d \in Conn : d # c => reader'[d] = reader[d] /\ closing'[d] = closing[d]
    BY <1>0, <1>11 DEF LinkType
  <2>3. \A p \in Obj : p # o /\ connOf[p] = c => Away(p)
    BY <1>1, <1>11, Zenon DEF Away
  <2>4. OneEach'
    BY <1>0, <1>11, <2>1 DEF OneEach, Away, StageType
  <2>5. reader'[c] \in {o, "exit"} /\ (told'[o] => reader'[c] = o)
    BY <1>0, <1>11 DEF LinkType, ReaderEnds, CloseFinds
  <2>6. closing'[c] # "no" => reader'[c] = "exit"
    BY <1>0, <1>2, <1>11, Zenon DEF LinkType, CloseFinds
  <2>7. ReaderEnds'
    BY <1>0, <1>11, <2>1, <2>2, <2>3, <2>5 DEF ReaderEnds, Away
  <2>8. CloseFinds'
    BY <1>0, <1>11, <2>1, <2>2, <2>3, <2>6 DEF CloseFinds, Away
  <2> QED
    BY <2>4, <2>7, <2>8, Zenon DEF QuietParts
<1>12. ASSUME NEW o \in Obj, DisconnectClose(o)
       PROVE  QuietParts'
  BY <1>0, <1>12, Zenon DEF DisconnectClose, ReaderEnds
<1>13. ASSUME NEW c \in Conn, ClientDisconnect(c)
       PROVE  QuietParts'
  <2>1. entry[c] \in Obj /\ reader[c] = NoObj /\ connOf[entry[c]] = c
    BY <1>0, <1>13, Zenon DEF ClientDisconnect, StageType, Linked
  <2>2. stage[entry[c]] = "connected"
    BY <1>0, <2>1 DEF OneEach, ReaderEnds, Linked
  <2>3. /\ \E s \in {"save", "remove"} : stage' = [stage EXCEPT ![entry[c]] = s]
        /\ reader' = [reader EXCEPT ![c] = entry[c]]
        /\ told' = [told EXCEPT ![entry[c]] = TRUE]
        /\ UNCHANGED <<connOf, entry, closing, snap>>
    BY <1>13, <2>2 DEF ClientDisconnect, AfterSwap
  <2> QED
    BY <1>11, <2>1, <2>2, <2>3, Zenon
<1>14. ASSUME NEW c \in Conn, CloseBegin(c)
       PROVE  QuietParts'
  <2>1. /\ reader' = [reader EXCEPT ![c] = "exit"] /\ reader[c] = NoObj
        /\ closing' = [closing EXCEPT ![c] = "begun"]
        /\ UNCHANGED <<stage, connOf, told, entry, snap>>
    BY <1>14 DEF CloseBegin
  <2>2. \A d \in Conn : /\ reader'[d] = IF d = c THEN "exit" ELSE reader[d]
                        /\ closing'[d] = IF d = c THEN "begun" ELSE closing[d]
    BY <1>0, <2>1, Zenon DEF LinkType
  <2>3. OneEach'
    BY <1>0, <2>1, Zenon DEF OneEach, Away
  <2>4. ReaderEnds'
    BY <1>0, <2>1, <2>2 DEF ReaderEnds
  <2>5. CloseFinds'
    BY <1>0, <2>1, <2>2 DEF CloseFinds
  <2> QED
    BY <2>3, <2>4, <2>5 DEF QuietParts
<1>15. ASSUME NEW c \in Conn, CloseSnapshot(c)
       PROVE  QuietParts'
  <2>1. /\ snap' = [snap EXCEPT ![c] = entry[c]]
        /\ closing' = [closing EXCEPT ![c] = "sockets"] /\ closing[c] = "begun"
        /\ UNCHANGED <<stage, connOf, told, entry, reader>>
    BY <1>15 DEF CloseSnapshot
  <2>2. \A d \in Conn : /\ snap'[d] = IF d = c THEN entry[c] ELSE snap[d]
                        /\ closing'[d] = IF d = c THEN "sockets" ELSE closing[d]
    BY <1>0, <2>1, Zenon DEF LinkType, StageType
  <2>3. OneEach' /\ ReaderEnds'
    BY <1>0, <2>1, Zenon DEF OneEach, ReaderEnds, Away
  <2>4. CloseFinds'
    BY <1>0, <2>1, <2>2 DEF CloseFinds, OneEach
  <2> QED
    BY <2>3, <2>4, Zenon DEF QuietParts
<1>16. ASSUME NEW c \in Conn, closing' = [closing EXCEPT ![c] = "done"],
              closing[c] \in {"sockets", "wait"},
              \A o \in Obj : stage[o] = "connected" => connOf[o] # c,
              UNCHANGED <<stage, connOf, told, entry, reader, snap>>
       PROVE  QuietParts'
  <2>1. \A d \in Conn : closing'[d] = IF d = c THEN "done" ELSE closing[d]
    BY <1>0, <1>16, Zenon DEF LinkType
  <2>2. OneEach' /\ ReaderEnds'
    BY <1>0, <1>16, Zenon DEF OneEach, ReaderEnds, Away
  <2>3. CloseFinds'
    BY <1>0, <1>16, <2>1 DEF CloseFinds
  <2> QED
    BY <2>2, <2>3 DEF QuietParts
<1>17. ASSUME NEW c \in Conn, CloseSocket(c)
       PROVE  QuietParts'
  <2>1. CASE snap[c] # NoObj /\ stage[snap[c]] = "connected"
    <3>1. snap[c] \in Obj /\ connOf[snap[c]] = c
      BY <1>0, <2>1, Zenon DEF Linked, StageType
    <3>2. /\ \E s \in {"save", "remove"} : stage' = [stage EXCEPT ![snap[c]] = s]
          /\ closing' = [closing EXCEPT ![c] = "wait"] /\ closing[c] = "sockets"
          /\ UNCHANGED <<connOf, told, entry, reader, snap>>
      BY <1>17, <2>1 DEF CloseSocket, AfterSwap
    <3> QED
      BY <1>11, <2>1, <3>1, <3>2, Zenon
  <2>2. CASE ~(snap[c] # NoObj /\ stage[snap[c]] = "connected")
    <3>1. /\ closing' = [closing EXCEPT ![c] = "done"] /\ closing[c] = "sockets"
          /\ UNCHANGED <<stage, connOf, told, entry, reader, snap>>
      BY <1>17, <2>2, Zenon DEF CloseSocket
    <3>2. \A o \in Obj : stage[o] = "connected" => connOf[o] # c
      BY <1>0, <2>2, <3>1 DEF CloseFinds
    <3> QED
      BY <1>16, <3>1, <3>2, Zenon
  <2> QED
    BY <2>1, <2>2
<1>18. ASSUME NEW c \in Conn, CloseEnd(c)
       PROVE  QuietParts'
  <2>1. \A o \in Obj : stage[o] = "connected" => connOf[o] # c
    BY <1>0, <1>18 DEF CloseEnd, CloseFinds
  <2> QED
    BY <1>16, <1>18, <2>1, Zenon DEF CloseEnd
<1>19. CASE UNCHANGED <<stage, connOf, told, entry, reader, closing, snap>>
  BY <1>3, <1>19
<1> QED
  BY <1>4, <1>5, <1>6, <1>7, <1>8, <1>9, <1>10, <1>12, <1>13, <1>14, <1>15, <1>17, <1>18, <1>19
  DEF Next, Adding, Leaving, Closing, DisconnectSend, JoinRoom, Expire, vars, connVars

\* The races of a behaviour are chosen at its start.
LEMMA StepQuiet == StageType /\ LinkBase /\ QuietInv /\ [Next]_vars => QuietInv'
<1> SUFFICES ASSUME StageType, LinkBase, QuietInv, [Next]_vars
             PROVE  QuietInv'
  OBVIOUS
<1>1. UNCHANGED races
  BY Zenon DEF Next, vars, AddFresh, AddRecovered, BeginAdd, Adding, AddReject, AddRegister,
         AddRestore, AddAttach, AddConnected, Leaving, LeaveSave, LeaveRemove, LeaveDetach,
         DisconnectSend, DisconnectClose, JoinRoom, ClientDisconnect, CloseBegin, Closing,
         CloseSnapshot, CloseSocket, CloseEnd, Expire
<1>2. CASE races \cap {"close", "disconnect"} = {}
  <2>1. QuietParts /\ "close" \notin races /\ "disconnect" \notin races
    BY <1>2 DEF QuietInv, QuietParts
  <2>2. QuietParts'
    BY <2>1, StepQuietParts
  <2> QED
    BY <1>1, <2>2 DEF QuietInv, QuietParts
<1> QED
  BY <1>1, <1>2 DEF QuietInv

\* In every reachable state both invariants hold.
LEMMA LinksHold == Spec => [](LinkBase /\ QuietInv)
<1>1. Spec => []SessionInv
  BY InitSession, StepSession, PTL DEF Spec
<1>2. SessionInv => StageType
  BY DEF SessionInv
<1> QED
  BY <1>1, <1>2, InitLinks, StepLinks, StepQuiet, PTL DEF Spec

\* A connection that its reader has closed leaves no socket connected, and none
\* registered that is not about to be removed (ClosedLeavesNothing).
THEOREM ClosedIsEmpty == Spec => []ClosedLeavesNothing
<1>1. LinkBase /\ QuietInv => ClosedLeavesNothing
  <2> SUFFICES ASSUME LinkBase, QuietInv, races \cap {"close", "disconnect"} = {},
                      NEW o \in Obj, connOf[o] # NoConn, closing[connOf[o]] = "done",
                      reader[connOf[o]] \in {NoObj, "exit"}
               PROVE  /\ stage[o] # "connected"
                      /\ registered[IdOf[o]] = o => stage[o] \in {"save", "remove"}
    BY DEF ClosedLeavesNothing, NothingLeft
  <2>1. stage[o] # "connected"
    BY Zenon DEF QuietInv, CloseFinds
  <2>2. stage[o] \notin {"registered", "restored", "attached"}
    BY NamespaceAssumption DEF LinkBase, Linked
  <2>3. registered[IdOf[o]] = o =>
          stage[o] \in {"registered", "restored", "attached", "connected", "save", "remove"}
    BY NamespaceAssumption DEF LinkBase, EnrolledOnly
  <2> QED
    BY <2>1, <2>2, <2>3, Zenon
<1> QED
  BY <1>1, LinksHold, PTL

\* The packets of a connected socket find its entry (NoEntryMeansNotConnected).
THEOREM EntriesFound == Spec => []NoEntryMeansNotConnected
<1>1. LinkBase /\ QuietInv => NoEntryMeansNotConnected
  BY NamespaceAssumption
  DEF QuietInv, NoEntryMeansNotConnected, NoEntryNoSocket, OneEach
<1> QED
  BY <1>1, LinksHold, PTL

\* The remaining variables keep their types.
RestType == lost \in [Conn -> BOOLEAN] /\ races \in Races

\* Only close writes lost, and nothing writes races.
LEMMA StepRest == RestType /\ [Next]_vars => RestType'
BY Zenon DEF RestType, Next, vars, connVars, AddFresh, AddRecovered, BeginAdd, Adding, AddReject,
       AddRegister, AddRestore, AddAttach, AddConnected, Leaving, LeaveSave, LeaveRemove,
       LeaveDetach, DisconnectSend, DisconnectClose, JoinRoom, ClientDisconnect, CloseBegin,
       Closing, CloseSnapshot, CloseSocket, CloseEnd, Expire

\* The variables of the model have the types of TypeOK; that the gauge is never
\* negative follows from its being exact.
THEOREM NamespaceTyped == Spec => []TypeOK
<1>1. Init => RestType
  BY DEF Init, RestType
<1>2. Spec => []RestType
  BY <1>1, StepRest, PTL DEF Spec
<1>3. Spec => []SessionInv
  BY InitSession, StepSession, PTL DEF Spec
<1>4. SessionInv => StageType
  BY DEF SessionInv
<1>5. Spec => []RoomInv
  BY <1>3, <1>4, InitRooms, StepRooms, PTL DEF Spec
<1>6. StageType /\ RoomInv /\ LinkBase /\ RestType /\ GaugeExact => TypeOK
  <2>1. GaugeExact => active \in Nat
    BY CountedFinite, FS_CardinalityType DEF GaugeExact, Counted
  <2> QED
    BY <2>1 DEF TypeOK, StageType, RoomInv, RoomType, LinkBase, LinkType, RestType
<1> QED
  BY <1>2, <1>3, <1>4, <1>5, <1>6, LinksHold, GaugeCorrect, PTL
=============================================================================
