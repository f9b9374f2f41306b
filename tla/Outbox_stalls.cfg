SPECIFICATION Spec
CONSTANTS
  r1 = r1
  r2 = r2
  w1 = w1
  w2 = w2
  o1 = o1
  o2 = o2
  None = None
  Rows = {r1, r2}
  Workers = {w1, w2}
  Operators = {o1, o2}
  MaxAttempts = 2
  Limit = 2
  Deployments = {{w1, w2}, {w1}, {w2}}
  Serialized = FALSE
SYMMETRY Interchangeable
INVARIANTS
  MeteredOnce
  OpenRowsHaveAttempts
PROPERTIES
  SettledStays
CHECK_DEADLOCK FALSE
