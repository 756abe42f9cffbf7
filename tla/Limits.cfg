SPECIFICATION LimitsSpec
CONSTANTS
  Contents <- MCContents
  Usages <- MCUsages
  Limits <- MCLimits
  MaxEvents = 4
INVARIANTS
  StopMeansWhole
  AnswerIsLargestPrefix
CHECK_DEADLOCK FALSE
