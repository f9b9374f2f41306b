SPECIFICATION Spec
CONSTANTS
  c1 = c1
  c2 = c2
  c3 = c3
  m1 = m1
  m2 = m2
  p1 = p1
  p2 = p2
  k1 = k1
  n1 = n1
  search = search
  crawl = crawl
  None = None
  Calls = {c1, c2}
  Mandates = {m1, m2}
  Principals = {p1, p2}
  Tools = {search, crawl}
  Keys = {k1}
  Nonces = {n1}
  Owner <- TwoOwners
  Price <- CheapAndDear
  Budget <- AllTwo
  MaxCalls <- AllTwo
  Expiring = {m1}
  Billed = {p2}
  Requests <- MixedRequests
  Serialized = FALSE
  LateEvidence = TRUE
SYMMETRY Symmetric
INVARIANTS
  TypeOK
  RowsAgree
  OneAttemptPerNonce
  AnswersAreCharged
  RefusalsAreFree
PROPERTIES
  TerminalIsFinal
CHECK_DEADLOCK FALSE
