\* A server that is started and closed while clients connect.
CONSTANTS
  Request = {r1, r2}
  Websocket = {r1}
  Hazards = {"calls", "rerun"}
SPECIFICATION FairSpec
PROPERTIES ShutdownEnds LockServed
CHECK_DEADLOCK FALSE
