SPECIFICATION FairSpec
CONSTANTS
  a1 = a1
  c1 = c1
  c2 = c2
  h1 = h1
  h2 = h2
  r1 = r1
  w1 = w1
  w2 = w2
  o1 = o1
  None = None
  Ids = {a1}
  Customers = {c1}
  Webhooks = {h1, h2}
  AccountOf <- Sole
  Fee = 4
  ApiConfigured = FALSE
  MaxEvents = 1
  Rows = {r1}
  Workers = {w1, w2}
  Operators = {o1}
  MaxAttempts = 2
  Limit = 2
  Deployments = {{w1}}
  Serialized = FALSE
INVARIANTS
  MeteredToItsCustomer
PROPERTIES
  BillsByMetering
  RowsSettle
  EventsAreRecorded
CHECK_DEADLOCK FALSE
