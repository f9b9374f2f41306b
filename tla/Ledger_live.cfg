SPECIFICATION OperatedSpec
CONSTANTS
  c1 = c1
  c2 = c2
  c3 = c3
  m1 = m1
  m2 = m2
  p1 = p1
  p2 = p2
  k1 = k1
  n1 = n1
  search = search
  crawl = crawl
  None = None
  Calls = {c1, c2}
  Mandates = {m1}
  Principals = {p1}
  Tools = {search, crawl}
  Keys = {k1}
  Nonces = {n1}
  Owner <- OneOwner
  Price <- CheapAndDear
  Budget <- AllTwo
  MaxCalls <- AllOne
  Expiring = {}
  Billed = {p1}
  Requests <- RetryRequests
  Serialized = TRUE
  LateEvidence = FALSE
PROPERTIES
  CallsAreAnswered
  UncertaintyEnds
CHECK_DEADLOCK FALSE
