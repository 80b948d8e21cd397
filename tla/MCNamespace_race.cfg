\* A socket, two clients that recover it, and the largest sets of races that a
\* property is about.
CONSTANTS
  i1 = i1
  i2 = i2
  o1 = o1
  o2 = o2
  o3 = o3
  own1 = own1
  own2 = own2
  NoObj = NoObj
  NoConn = NoConn
  NoSession = NoSession
  Conn = {c1, c2}
  Sid = {i1}
  Obj = {o1, o2, o3}
  IdOf <- IdOfOne
  Room = {own1, own2}
  OwnRoom <- OwnRoomOne
  Recovery = TRUE
  UseMiddlewares = TRUE
  Races = {{"recover"}, {"close", "disconnect"}, {"close", "disconnect", "recover"}}
SPECIFICATION FairSpec
INVARIANTS GaugeExact OneSocketPerSession ConnectedKeepsRooms ClosedLeavesNothing NoEntryMeansNotConnected
PROPERTIES ClosingEndsSockets
CHECK_DEADLOCK FALSE
