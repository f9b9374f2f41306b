SPECIFICATION Spec
CONSTANTS
  a1 = a1
  a2 = a2
  c1 = c1
  c2 = c2
  h1 = h1
  h2 = h2
  k1 = k1
  k2 = k2
  None = None
  Ids = {a1, a2}
  Customers = {c1, c2}
  Webhooks = {h1, h2}
  Calls = {k1, k2}
  AccountOf <- Same
  Fee = 4
  Configured = TRUE
  MaxEvents = 2
SYMMETRY Interchangeable
INVARIANTS
  LatestEventWins
  RowsNameTheirCustomer
  FeesMatchRows
PROPERTIES
  StatusFollowsEvents
  UnpaidCustomersAreRefused
CHECK_DEADLOCK FALSE
