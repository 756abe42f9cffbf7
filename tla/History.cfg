SPECIFICATION HistorySpec
CONSTANTS
  r1 = r1
  r2 = r2
  r3 = r3
  s1 = s1
  s2 = s2
  Runs = {r1, r2, r3}
  Services = {s1, s2}
  ServiceOf <- MCServiceOf
  MaxEvents = 2
VIEW MCView
SYMMETRY MCSymmetry
PROPERTY HistoryContinues
CHECK_DEADLOCK FALSE
