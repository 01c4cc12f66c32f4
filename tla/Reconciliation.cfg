\* One payment whose tenant keeps asking, with webhooks, stale answers and restarts.
SPECIFICATION FairSpec
CONSTANTS
  Requests = {q1, q2}
  PaymentIds = {p1}
  Clients = {ann}
  Granters = {}
  MaxPeriods = 3
  None = none
  ann = ann
  bob = bob
  p1 = p1
  p2 = p2
  q1 = q1
  q2 = q2
PROPERTY AskedIsApplied
CHECK_DEADLOCK FALSE
