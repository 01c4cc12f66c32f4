\* Two payments of one tenant, two requests, a super admin that grants plans.
SPECIFICATION Spec
CONSTANTS
  Requests = {q1, q2}
  PaymentIds = {p1, p2}
  Clients = {ann}
  Granters = {ann}
  MaxPeriods = 3
  None = none
  ann = ann
  bob = bob
  p1 = p1
  p2 = p2
  q1 = q1
  q2 = q2
INVARIANTS TypeOK ConfirmedOnly NoLostActivation
PROPERTY PaidUntilEnd
SYMMETRY AlikePayments
CHECK_DEADLOCK FALSE
