CONSTANTS
  a1 = a1
  a2 = a2
  r1 = r1
  d1 = d1
  d2 = d2
  c1 = c1
  Approval  = {a1, a2}
  Replica   = {r1}
  Decider   = {d1, d2}
  Canceller = {}
  Backend   = "postgres"
  OnTimeout = "deny"
  MaxGeneration = 1
  MaxRestarts   = 1
  MaxExecutions = 1
SPECIFICATION FairSpec
VIEW LiveView
ACTION_CONSTRAINT LiveEnvironment
PROPERTIES
  ExpiredIsDecided
  ApprovedIsTakenUp
  RejectedRunFinishes
  DecisionsAreAnswered
