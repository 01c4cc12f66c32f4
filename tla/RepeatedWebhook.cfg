\* A second webhook about a payment that is confirmed.
SPECIFICATION Spec
CONSTANTS
  Requests = {q1}
  PaymentIds = {p1}
  Clients = {ann}
  Granters = {}
  MaxPeriods = 3
  None = none
  ann = ann
  bob = bob
  p1 = p1
  p2 = p2
  q1 = q1
  q2 = q2
PROPERTY OnePeriodPerPayment
CHECK_DEADLOCK FALSE
