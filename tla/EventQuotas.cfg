\* Two creations of events at a time against every other writer of the subscription.
SPECIFICATION Spec
CONSTANTS
  Requests = {q1, q2}
  Ops = {"event"}
  EventIds = {e1, e2, e3}
  Clients = {ann}
  EventOwner <- OfAnn
  BuildingLimit <- Quota
  EventLimit <- Quota
  TableLimit <- Quota
  Unlimited = unlimited
  TableCounts = {0, 1}
  MaxPeriods = 2
  MaxPlaced = 1
  None = none
  ann = ann
  e1 = e1
  e2 = e2
  e3 = e3
  q1 = q1
  q2 = q2
INVARIANT NoFalseRefusal
PROPERTY EventQuota
SYMMETRY Alike
CHECK_DEADLOCK FALSE
