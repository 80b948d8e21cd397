\* A socket and the one that recovers its session, entries made anew, two calls of apply.
CONSTANTS
  i1 = i1
  o1 = o1
  o2 = o2
  own1 = own1
  lobby = lobby
  NoObj = NoObj
  Sid = {i1}
  Obj = {o1, o2}
  IdOf <- IdOfSame
  Room = {own1, lobby}
  OwnRoom <- OwnRoomOne
  Call = {1}
  Ops = {"send", "join", "leave", "disconnect"}
  MaxEntries = 2
  MaxEpoch = 2
  MaxTo = 2
SPECIFICATION Spec
INVARIANTS IndexConsistent ReplayAudience
PROPERTIES IndexSpec ApplyIsExact
SYMMETRY ObjSymmetry
CHECK_DEADLOCK FALSE
