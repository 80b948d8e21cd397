----------------------------- MODULE RoomIndex -----------------------------
(***************************************************************************)
(* What the rooms of a namespace promise: a table of the sockets that are   *)
(* registered and, for every room, of the sockets that are in it. A socket  *)
(* is entered under its id, so that a socket with the same id takes its     *)
(* place.                                                                  *)
(***************************************************************************)
CONSTANTS
  Sid,    \* socket ids
  Obj,    \* sockets (serverSocket objects)
  IdOf,   \* IdOf[o]: the id of socket o
  Room,   \* room names
  NoObj   \* no socket

VARIABLES
  registered,   \* [sid]: the registered socket with that id
  joined        \* [room][sid]: the member of the room with that id

vars == <<registered, joined>>

Nobody == [i \in Sid |-> NoObj]

Init ==
  /\ registered = Nobody
  /\ joined = [r \in Room |-> Nobody]

Register(o) ==
  /\ registered' = [registered EXCEPT ![IdOf[o]] = o]
  /\ UNCHANGED joined

JoinAll(o, rs) ==
  /\ joined' = [r \in Room |->
                  IF r \in rs THEN [joined[r] EXCEPT ![IdOf[o]] = o] ELSE joined[r]]
  /\ UNCHANGED registered

Leave(i, room) ==
  /\ joined' = [joined EXCEPT ![room][i] = NoObj]
  /\ UNCHANGED registered

Remove(i) ==
  /\ registered' = [registered EXCEPT ![i] = NoObj]
  /\ joined' = [r \in Room |-> [joined[r] EXCEPT ![i] = NoObj]]

Next ==
  \/ \E o \in Obj : Register(o) \/ \E rs \in SUBSET Room : JoinAll(o, rs)
  \/ \E i \in Sid : Remove(i) \/ \E room \in Room : Leave(i, room)

Spec == Init /\ [][Next]_vars

-----------------------------------------------------------------------------
\* The sockets of a table.
ObjectsIn(table) == {table[i] : i \in Sid} \ {NoObj}

\* The sockets a broadcast reaches: the members of the union of the rooms "to",
\* or every registered socket when no room is named, without those in a room of
\* "except".
Matches(to, except) ==
  (IF to = {} THEN ObjectsIn(registered) ELSE UNION {ObjectsIn(joined[r]) : r \in to})
    \ UNION {ObjectsIn(joined[r]) : r \in except}
=============================================================================
