\* All interleavings of broadcasts and a client that reconnects, and those where they do not overlap.
CONSTANTS
  Bcast = {b1, b2, b3}
  MaxAge = 2
  MaxClock = 4
  Delay = 1
  NoSession = NoSession
  Overlap = {"emit", "client"}
SPECIFICATION Spec
SYMMETRY BcastSymmetry
INVARIANTS PacketsRetained SerialReplayIsExact
CHECK_DEADLOCK FALSE
