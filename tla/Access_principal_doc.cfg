SPECIFICATION Spec
CONSTANTS
  k0 = k0
  k1 = k1
  k2 = k2
  k3 = k3
  a1 = a1
  a2 = a2
  p1 = p1
  p2 = p2
  x1 = x1
  x2 = x2
  q1 = q1
  q2 = q2
  None = None
  Keys = {k0, k1, k2}
  Ids = {a1, a2}
  People = {p1, p2}
  Agents = {x1, x2}
  Requests = {q1, q2}
  Root = k0
  Home = a1
  Offers <- Asked
  Serialized = FALSE
SYMMETRY Interchangeable
INVARIANTS
  OnePrincipalPerAccount
CHECK_DEADLOCK FALSE
