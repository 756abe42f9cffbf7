SPECIFICATION Spec
CONSTANTS
  c1 = c1
  c2 = c2
  c3 = c3
  p1 = p1
  p2 = p2
  Callers = {c1, c2, c3}
  Processes = {p1, p2}
  ProcessOf <- MCProcessOf
  Nobody = Nobody
  LeaseTtl = 2
  SessionTtl = 3
  MaxLeft = 4
  MaxAcquires = 3
INVARIANTS OneOwner
PROPERTY OnlyTheLastActs
