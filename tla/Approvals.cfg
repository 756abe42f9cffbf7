CONSTANTS
  a1 = a1
  a2 = a2
  r1 = r1
  d1 = d1
  d2 = d2
  c1 = c1
  Approval  = {a1}
  Replica   = {r1}
  Decider   = {d1, d2}
  Canceller = {c1}
  Backend   = "postgres"
  OnTimeout = "allow"
  MaxGeneration = 2
  MaxRestarts   = 0
  MaxExecutions = 2
SPECIFICATION Spec
VIEW MCView
SYMMETRY MCSymmetry
INVARIANTS
  TypeOK
  ToolNeedsApproval
  OneDeciderResumes
  ReplyIsBacked
  TimeoutResumesOnce
  ResumeFollowsTool
PROPERTIES
  LedgerRefined
