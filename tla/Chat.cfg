SPECIFICATION FairSpec
CONSTANTS
  q1 = q1
  q2 = q2
  k1 = k1
  nokey = nokey
  Request <- MCRequest
  Key <- MCKey
  NoKey = nokey
  MaxLimit = 2
  MaxRestarts = 1
VIEW MCView
INVARIANTS
  TypeOK
  SlotsAccounted
  KeyHoldsAnOutcome
  CommittedTurnStands
  CaughtRunsAreRecorded
PROPERTY ShutdownCompletes
CHECK_DEADLOCK FALSE
