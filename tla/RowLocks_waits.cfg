SPECIFICATION FairSpec
CONSTANTS
  a1 = a1
  a2 = a2
  v1 = v1
  o1 = o1
  o2 = o2
  None = None
  Attempts = {a1}
  Recoverers = {v1}
  Operators = {o1, o2}
  Funds = 3
  Cost = 2
INVARIANTS
  VerdictsAgree
  DeadlocksArePairs
PROPERTIES
  CommitsAreAtomic
  WaitsEnd
CHECK_DEADLOCK FALSE
