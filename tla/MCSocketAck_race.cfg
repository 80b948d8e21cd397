\* Answers, repeated answers, the sweeper and the end of the socket race.
CONSTANTS
  Call = {1, 2, 3}
  Timeout <- TimeoutMixed
  MaxClock = 3
  MaxAnswers = 2
  MayClose = TRUE
  NoTime = NoTime
SPECIFICATION FairSpec
INVARIANTS Accounted
 
CHECK_DEADLOCK FALSE
