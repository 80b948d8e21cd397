----------------------------- MODULE Namespace -----------------------------
(***************************************************************************)
(* The life of the sockets of a namespace: Namespace.add, run by the reader *)
(* of a connection, engineConn.close, run by the reader or any other        *)
(* goroutine, Disconnect, and serverSocket.onClose, which all of them end   *)
(* in. Each of them is a sequence of steps under different locks. The rooms *)
(* are those of RoomIndex, which Adapter implements; what is replayed to a  *)
(* recovered socket is the matter of Recovery.                             *)
(*                                                                         *)
(* A socket is connected (serverSocket.connected) exactly in the stage      *)
(* "connected"; only the caller of onClose that takes it out of this stage  *)
(* goes on.                                                                *)
(***************************************************************************)
EXTENDS Integers, FiniteSets

CONSTANTS
  Conn,      \* connections
  Sid,       \* socket ids
  Obj,       \* sockets (serverSocket objects)
  IdOf,      \* IdOf[o]: the id of o; a recovered socket has its predecessor's
  Room,      \* room names
  OwnRoom,   \* OwnRoom[i]: the room named like the socket id i
  NoObj,     \* no socket
  NoConn,    \* no connection
  NoSession, \* no session
  Recovery,         \* connection state recovery is enabled
  UseMiddlewares,   \* the middlewares are run for recovered sockets too
  Races             \* the values races may have

ASSUME NamespaceAssumption ==
  /\ IdOf \in [Obj -> Sid]
  /\ OwnRoom \in [Sid -> Room]
  /\ IsFiniteSet(Obj)
  /\ NoObj \notin Obj /\ NoConn \notin Conn
  /\ \A rooms \in SUBSET Room : NoSession # rooms
  /\ "exit" \notin Obj \cup {NoObj}
  /\ {Recovery, UseMiddlewares} \subseteq BOOLEAN
  /\ Races \subseteq SUBSET {"close", "disconnect", "recover"}

VARIABLES
  registered, joined, \* the rooms of the namespace, see RoomIndex
  session,   \* [i]: rooms of the session saved for the socket id i
  stage,     \* [o]: how far o is in add or in onClose
  connOf,    \* [o]: serverSocket.conn
  keep,      \* [o]: rooms of the session o recovers, NoSession if it is fresh
  told,      \* [o]: the client knows that o is, or is about to be, disconnected
  entry,     \* [c]: engineConn.socketsByNsp for this namespace
  reader,    \* [c]: socket the reader is working for, NoObj, or "exit"
  closing,   \* [c]: how far engineConn.close is
  snap,      \* [c]: the socket close found
  lost,      \* [c]: the reason of the close is one a client may recover from
  active,    \* the gauge socketsActive
  races      \* the races of this behaviour: "close", goroutines
             \* other than the reader close the connection; "disconnect", the
             \* application calls Disconnect; "recover", clients ask for a
             \* session before onClose is through

connVars == <<entry, reader, closing, snap, lost>>
vars == <<registered, joined, session, stage, connOf, keep, told, connVars, active, races>>

Rooms == INSTANCE RoomIndex

Init ==
  /\ Rooms!Init
  /\ session = [i \in Sid |-> NoSession]
  /\ stage = [o \in Obj |-> "new"]
  /\ connOf = [o \in Obj |-> NoConn]
  /\ keep = [o \in Obj |-> NoSession]
  /\ told = [o \in Obj |-> FALSE]
  /\ entry = [c \in Conn |-> NoObj]
  /\ reader = [c \in Conn |-> NoObj]
  /\ closing = [c \in Conn |-> "no"]
  /\ snap = [c \in Conn |-> NoObj]
  /\ lost = [c \in Conn |-> FALSE]
  /\ active = 0
  /\ races \in Races

RoomsOf(i) == {r \in Room : joined[r][i] # NoObj}

-----------------------------------------------------------------------------
\* The reader handles packets until the websocket is closed. The client, which
\* is external, connects to a namespace where it has no socket, as far as it
\* knows; it asks for a session that was saved.
MayConnect(c) ==
  /\ reader[c] = NoObj
  /\ closing[c] # "done"
  /\ \A o \in Obj : connOf[o] = c => told[o]

MayRecover(o) ==
  /\ stage[o] = "new"
  /\ session[IdOf[o]] # NoSession
  /\ "recover" \in races \/ \A p \in Obj : IdOf[p] = IdOf[o] => stage[p] \in {"new", "gone"}

BeginAdd(c, o, rooms) ==
  /\ stage' = [stage EXCEPT ![o] = "found"]
  /\ connOf' = [connOf EXCEPT ![o] = c]
  /\ keep' = [keep EXCEPT ![o] = rooms]
  /\ reader' = [reader EXCEPT ![c] = o]
  /\ UNCHANGED <<races, registered, joined, told, entry, closing, snap, lost, active>>

\* add for a client without a session: a new id
AddFresh(c, o) ==
  /\ MayConnect(c)
  /\ \A p \in Obj : IdOf[p] = IdOf[o] => stage[p] = "new"
  /\ BeginAdd(c, o, NoSession)
  /\ UNCHANGED session

\* Mutant: the session stays in the store.
AddRecoveredKeeps(c, o) ==
  /\ MayConnect(c)
  /\ MayRecover(o)
  /\ BeginAdd(c, o, session[IdOf[o]])
  /\ UNCHANGED session

\* add for a client with a session, which is taken out of the store
AddRecovered(c, o) ==
  /\ MayConnect(c)
  /\ MayRecover(o)
  /\ BeginAdd(c, o, session[IdOf[o]])
  /\ session' = [session EXCEPT ![IdOf[o]] = NoSession]

\* The reader of the connection of o does the next step of add.
AddStep(o, from, to) ==
  /\ stage[o] = from
  /\ reader[connOf[o]] = o
  /\ stage' = [stage EXCEPT ![o] = to]

\* add, a middleware rejects the client, which is told; a session is lost.
AddReject(o) ==
  /\ keep[o] = NoSession \/ UseMiddlewares
  /\ AddStep(o, "found", "gone")
  /\ told' = [told EXCEPT ![o] = TRUE]
  /\ reader' = [reader EXCEPT ![connOf[o]] = NoObj]
  /\ UNCHANGED <<races, registered, joined, session, connOf, keep, entry, closing, snap, lost, active>>

\* add, adapter.addSocket
AddRegister(o) ==
  /\ AddStep(o, "found", IF keep[o] = NoSession THEN "restored" ELSE "registered")
  /\ registered' = [registered EXCEPT ![IdOf[o]] = o]
  /\ joined' = [joined EXCEPT ![OwnRoom[IdOf[o]]][IdOf[o]] = o]
  /\ UNCHANGED <<races, session, connOf, keep, told, connVars, active>>

\* Mutant: the rooms of the session are not joined.
AddRestoreForgets(o) ==
  /\ AddStep(o, "registered", "restored")
  /\ UNCHANGED <<races, registered, joined, session, connOf, keep, told, connVars, active>>

\* add, adapter.addAllOwned for a recovered socket
AddRestore(o) ==
  /\ AddStep(o, "registered", "restored")
  /\ Rooms!JoinAll(o, keep[o])
  /\ UNCHANGED <<races, session, connOf, keep, told, connVars, active>>

\* Mutant: the socket is not entered into the connection.
AddAttachForgets(o) ==
  /\ AddStep(o, "restored", "attached")
  /\ UNCHANGED <<races, registered, joined, session, connOf, keep, told, connVars, active>>

\* add, conn.addSocket
AddAttach(o) ==
  /\ AddStep(o, "restored", "attached")
  /\ entry' = [entry EXCEPT ![connOf[o]] = o]
  /\ UNCHANGED <<races, registered, joined, session, connOf, keep, told,
                 reader, closing, snap, lost, active>>

\* add, connected.Store(true) and the rest
AddConnected(o) ==
  /\ AddStep(o, "attached", "connected")
  /\ reader' = [reader EXCEPT ![connOf[o]] = NoObj]
  /\ active' = active + 1
  /\ UNCHANGED <<races, registered, joined, session, connOf, keep, told, entry, closing, snap, lost>>

-----------------------------------------------------------------------------
\* onClose up to the swap: the stage of o after a call with this reason.
\* Sessions are saved only for a connection that was lost.
AfterSwap(o, recoverable) ==
  IF stage[o] # "connected" THEN stage[o]
  ELSE IF recoverable /\ Recovery THEN "save" ELSE "remove"

\* onClose, recovery.save
LeaveSave(o) ==
  /\ stage[o] = "save"
  /\ session' = [session EXCEPT ![IdOf[o]] = RoomsOf(IdOf[o])]
  /\ stage' = [stage EXCEPT ![o] = "remove"]
  /\ UNCHANGED <<races, registered, joined, connOf, keep, told, connVars, active>>

\* onClose, Namespace.remove
LeaveRemove(o) ==
  /\ stage[o] = "remove"
  /\ Rooms!Remove(IdOf[o])
  /\ active' = active - 1
  /\ stage' = [stage EXCEPT ![o] = "detach"]
  /\ UNCHANGED <<races, session, connOf, keep, told, connVars>>

\* onClose, conn.removeSocket, by the name of the namespace, and the rest
LeaveDetach(o) ==
  /\ stage[o] = "detach"
  /\ entry' = [entry EXCEPT ![connOf[o]] = NoObj]
  /\ stage' = [stage EXCEPT ![o] = "gone"]
  /\ reader' = [reader EXCEPT ![connOf[o]] = IF @ = o THEN NoObj ELSE @]
  /\ UNCHANGED <<races, registered, joined, session, connOf, keep, told, closing, snap, lost, active>>

\* Disconnect sends the packet, and then calls onClose.
DisconnectSend(o) ==
  /\ "disconnect" \in races
  /\ stage[o] = "connected"
  /\ told' = [told EXCEPT ![o] = TRUE]
  /\ UNCHANGED <<races, registered, joined, session, stage, connOf, keep, connVars, active>>

DisconnectClose(o) ==
  /\ told[o]
  /\ stage[o] = "connected"
  /\ stage' = [stage EXCEPT ![o] = AfterSwap(o, FALSE)]
  /\ UNCHANGED <<races, registered, joined, session, connOf, keep, told, connVars, active>>

\* onPacket, the client disconnects from the namespace.
ClientDisconnect(c) ==
  LET o == entry[c]
  IN /\ reader[c] = NoObj
     /\ closing[c] # "done"
     /\ o # NoObj
     /\ told' = [told EXCEPT ![o] = TRUE]
     /\ stage' = [stage EXCEPT ![o] = AfterSwap(o, FALSE)]
     /\ reader' = [reader EXCEPT ![c] = IF stage[o] = "connected" THEN o ELSE NoObj]
     /\ UNCHANGED <<races, registered, joined, session, connOf, keep, entry, closing, snap, lost, active>>

-----------------------------------------------------------------------------
\* close, past the compare-and-swap: called by the reader between two packets,
\* or by the write loop, a sender that finds the channel full, or Server.Close.
CloseBegin(c) ==
  /\ closing[c] = "no"
  /\ \/ /\ reader[c] = NoObj
        /\ reader' = [reader EXCEPT ![c] = "exit"]
     \/ /\ "close" \in races
        /\ UNCHANGED reader
  /\ \E recoverable \in BOOLEAN : lost' = [lost EXCEPT ![c] = recoverable]
  /\ closing' = [closing EXCEPT ![c] = "begun"]
  /\ UNCHANGED <<races, registered, joined, session, stage, connOf, keep, told, entry, snap, active>>

\* Mutant: close first waits for the reader, which may be its caller.
CloseSnapshotWaits(c) ==
  /\ closing[c] = "begun"
  /\ reader[c] = NoObj
  /\ snap' = [snap EXCEPT ![c] = entry[c]]
  /\ closing' = [closing EXCEPT ![c] = "sockets"]
  /\ UNCHANGED <<races, registered, joined, session, stage, connOf, keep, told,
                 entry, reader, lost, active>>

\* close looks for the sockets of the connection.
CloseSnapshot(c) ==
  /\ closing[c] = "begun"
  /\ snap' = [snap EXCEPT ![c] = entry[c]]
  /\ closing' = [closing EXCEPT ![c] = "sockets"]
  /\ UNCHANGED <<races, registered, joined, session, stage, connOf, keep, told,
                 entry, reader, lost, active>>

\* Mutants: the sockets are not told; onClose is carried out whether or not the
\* socket is connected.
CloseSocketForgets(c) ==
  /\ closing[c] = "sockets"
  /\ closing' = [closing EXCEPT ![c] = "done"]
  /\ UNCHANGED <<races, registered, joined, session, stage, connOf, keep, told,
                 entry, reader, snap, lost, active>>
CloseSocketAgain(c) ==
  LET o == snap[c]
  IN /\ closing[c] = "sockets"
     /\ closing' = [closing EXCEPT ![c] = IF o = NoObj THEN "done" ELSE "wait"]
     /\ stage' = IF o = NoObj THEN stage
                 ELSE [stage EXCEPT ![o] = IF lost[c] /\ Recovery THEN "save" ELSE "remove"]
     /\ UNCHANGED <<races, registered, joined, session, connOf, keep, told,
                    entry, reader, snap, lost, active>>

\* close calls onClose, and waits for it when it is its own.
CloseSocket(c) ==
  LET o == snap[c]
  IN /\ closing[c] = "sockets"
     /\ IF o # NoObj /\ stage[o] = "connected"
          THEN /\ stage' = [stage EXCEPT ![o] = AfterSwap(o, lost[c])]
               /\ closing' = [closing EXCEPT ![c] = "wait"]
          ELSE /\ closing' = [closing EXCEPT ![c] = "done"]
               /\ UNCHANGED stage
     /\ UNCHANGED <<races, registered, joined, session, connOf, keep, told,
                    entry, reader, snap, lost, active>>

\* close closes the websocket, stops the loops and forgets the connection.
CloseEnd(c) ==
  /\ closing[c] = "wait"
  /\ stage[snap[c]] = "gone"
  /\ closing' = [closing EXCEPT ![c] = "done"]
  /\ UNCHANGED <<races, registered, joined, session, stage, connOf, keep, told,
                 entry, reader, snap, lost, active>>

-----------------------------------------------------------------------------
\* Socket.Join by a handler of a connected socket; see Adapter for the others
JoinRoom(o) ==
  /\ stage[o] = "connected"
  /\ \E r \in Room : Rooms!JoinAll(o, {r})
  /\ UNCHANGED <<races, session, stage, connOf, keep, told, connVars, active>>

\* pruneLocked drops a session that has expired.
Expire(i) ==
  /\ session[i] # NoSession
  /\ session' = [session EXCEPT ![i] = NoSession]
  /\ UNCHANGED <<races, registered, joined, stage, connOf, keep, told, connVars, active>>

Adding(o) ==
  \/ AddReject(o) \/ AddRegister(o) \/ AddRestore(o) \/ AddAttach(o) \/ AddConnected(o)

Leaving(o) == LeaveSave(o) \/ LeaveRemove(o) \/ LeaveDetach(o)

Closing(c) == CloseSnapshot(c) \/ CloseSocket(c) \/ CloseEnd(c)

Next ==
  \/ \E c \in Conn, o \in Obj : AddFresh(c, o) \/ AddRecovered(c, o)
  \/ \E o \in Obj : Adding(o) \/ Leaving(o)
  \/ \E o \in Obj : DisconnectSend(o) \/ DisconnectClose(o) \/ JoinRoom(o)
  \/ \E c \in Conn : ClientDisconnect(c) \/ CloseBegin(c) \/ Closing(c)
  \/ \E i \in Sid : Expire(i)

Spec == Init /\ [][Next]_vars

\* Goroutines that can run do run; clients and the application need not.
FairSpec ==
  /\ Spec
  /\ \A o \in Obj : WF_vars(Adding(o)) /\ WF_vars(Leaving(o)) /\ WF_vars(DisconnectClose(o))
  /\ \A c \in Conn : WF_vars(Closing(c))

-----------------------------------------------------------------------------
Stage == {"new", "found", "registered", "restored", "attached", "connected",
          "save", "remove", "detach", "gone"}

\* Type invariant of the sockets and connections of a namespace.
TypeOK ==
  /\ registered \in [Sid -> Obj \cup {NoObj}]
  /\ joined \in [Room -> [Sid -> Obj \cup {NoObj}]]
  /\ session \in [Sid -> {NoSession} \cup SUBSET Room]
  /\ stage \in [Obj -> Stage]
  /\ connOf \in [Obj -> Conn \cup {NoConn}]
  /\ keep \in [Obj -> {NoSession} \cup SUBSET Room]
  /\ told \in [Obj -> BOOLEAN]
  /\ entry \in [Conn -> Obj \cup {NoObj}]
  /\ reader \in [Conn -> Obj \cup {NoObj, "exit"}]
  /\ closing \in [Conn -> {"no", "begun", "sockets", "wait", "done"}]
  /\ snap \in [Conn -> Obj \cup {NoObj}]
  /\ lost \in [Conn -> BOOLEAN]
  /\ active \in Nat
  /\ races \in Races

\* The stages in which a socket holds its id.
Holding == {"found", "registered", "restored", "attached", "connected", "save"}

\* A session is taken by one socket at a time: while a socket holds an id, from
\* the moment add found its session until onClose saves it, neither another
\* socket nor a session in the store has this id, however many connections ask
\* for it and whoever closes the old one.
OneSocketPerSession ==
  \A o \in Obj : stage[o] \in Holding =>
    /\ session[IdOf[o]] = NoSession
    /\ \A p \in Obj : p # o /\ IdOf[p] = IdOf[o] => stage[p] \notin Holding

\* The gauge counts every socket once from the end of add until Namespace.remove,
\* although Disconnect, the client and several calls of close may end it at once.
GaugeExact ==
  active = Cardinality({o \in Obj : stage[o] \in {"connected", "save", "remove"}})

\* A socket that is connected is registered, and in the rooms it recovered.
RoomsKept ==
  \A o \in Obj : stage[o] = "connected" =>
    /\ registered[IdOf[o]] = o
    /\ keep[o] # NoSession => \A r \in keep[o] : joined[r][IdOf[o]] = o

\* RoomsKept holds when clients recover a session only after onClose is through
\* with the old socket, which removes by id what add has registered.
ConnectedKeepsRooms == "recover" \notin races => RoomsKept

\* When a connection has been closed and its reader has come to rest, none of
\* its sockets is connected, and one that is still registered is being removed.
NothingLeft ==
  \A o \in Obj :
    LET c == connOf[o]
    IN c # NoConn /\ closing[c] = "done" /\ reader[c] \in {NoObj, "exit"} =>
         /\ stage[o] # "connected"
         /\ registered[IdOf[o]] = o => stage[o] \in {"save", "remove"}

\* NothingLeft holds as long as only the reader ends its sockets and closes the
\* connection, between two packets: another goroutine's close can look for the
\* sockets before add has attached its own, and after a Disconnect a client may
\* have two sockets in the namespace, of which close finds the last.
ClosedLeavesNothing == races \cap {"close", "disconnect"} = {} => NothingLeft

\* handleParsedSocketPacket answers a packet for a namespace without an entry in
\* socketsByNsp with the error "namespace is not connected": no socket of the
\* connection is connected then.
NoEntryNoSocket ==
  \A c \in Conn : reader[c] = NoObj /\ entry[c] = NoObj =>
    \A o \in Obj : connOf[o] = c => stage[o] # "connected"

\* NoEntryNoSocket holds as long as only the reader ends its sockets: the
\* removeSocket of another goroutine, in Disconnect or in close, can come after
\* the client has connected to the namespace again.
NoEntryMeansNotConnected == races \cap {"close", "disconnect"} = {} => NoEntryNoSocket

\* Under the same condition, a connection that is being closed gets rid of its
\* sockets, and the call of close returns.
ClosingEndsSockets ==
  \A c \in Conn :
    races \cap {"close", "disconnect"} = {} /\ closing[c] # "no" ~>
      closing[c] = "done" /\ \A o \in Obj : connOf[o] = c => stage[o] = "gone"
=============================================================================
