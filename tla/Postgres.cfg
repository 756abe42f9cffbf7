SPECIFICATION Spec
CONSTANTS
  Sessions = {s1}
  Runs = {r1, r2}
  Keys = {k1}
  Callers = {c1, c2}
  Ttl = 1
  MaxRuns = 1
  MaxKeys = 1
  MaxSessions = 1
  MaxRevision = 2
  SessionOf <- MCSessionOf
  MaxCalls = 5
  MaxDrops = 1
  Nothing = Nothing
SYMMETRY Symmetry
CHECK_DEADLOCK FALSE
INVARIANT CapacityWithoutDrops
PROPERTY AdmittedTogether
