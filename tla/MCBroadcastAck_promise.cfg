\* Two broadcasts from one node, one of them timed; calm behaviours and every fault.
CONSTANTS
  n1 = n1
  n2 = n2
  s1 = s1
  s2 = s2
  b1 = b1
  b2 = b2
  NoBcast = NoBcast
  Node = {n1, n2}
  Socket = {s1, s2}
  Bcast = {b1, b2}
  Home <- HomeOneOne
  Origin <- OriginSame
  Timed = {b1}
  LocalOnly = {b2}
  Calm = {TRUE, FALSE}
SPECIFICATION FairSpec
INVARIANTS SettledAtMostOnce SettledTrackersAreGone SuccessCoversLocal
PROPERTIES PromiseKept AnsweredSettles ExpiresOnlyUnanswered
CHECK_DEADLOCK FALSE
