\* Requests may fail, be late or be lost, peers come and go, and the server is started and closed.
CONSTANTS
  p1 = p1
  p2 = p2
  Caller = {c1}
  Peer = {p1, p2}
  Static <- TwoPeers
  Lookups <- Found
  Worker = {w1, w2}
  JobCap = 1
  MaxCalls = 2
  Faults = TRUE
  MayStop = TRUE
  NoJob = NoJob
SPECIFICATION FairSpec
INVARIANTS BodyHeld AppliedOnceInOrder
PROPERTIES CallsReturn WorkersStop
CHECK_DEADLOCK FALSE
