SPECIFICATION Spec
CONSTANTS
  a1 = a1
  a2 = a2
  a3 = a3
  m1 = m1
  m2 = m2
  m3 = m3
  q1 = q1
  q2 = q2
  search = search
  crawl = crawl
  None = None
  Agents = {a1, a2, a3}
  Mandates = {m1, m2}
  Tools = {search, crawl}
  Price <- CheapAndDear
  Offers <- ListOffers
  Requests = {q1}
  MaxTime = 1
  Serialized = TRUE
SYMMETRY Interchangeable
INVARIANTS
  ChildrenAreAttenuated
  NoLiveAgentUnderRevoked
PROPERTIES
  RevokedSubtreesDoNotSpend
CHECK_DEADLOCK FALSE
