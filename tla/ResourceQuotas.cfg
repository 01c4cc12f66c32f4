\* Buildings, events and tables of a tenant with one paid period, deletions, and the
\* tables of a super admin.
SPECIFICATION FairSpec
CONSTANTS
  Requests = {q1, q2}
  Ops = {"building", "event", "table"}
  EventIds = {e1}
  Clients = {ann}
  EventOwner <- OfAnn
  BuildingLimit <- Quota
  EventLimit <- Quota
  TableLimit <- Quota
  Unlimited = unlimited
  TableCounts = {0, 2}
  MaxPeriods = 1
  MaxPlaced = 2
  None = none
  ann = ann
  e1 = e1
  e2 = e2
  e3 = e3
  q1 = q1
  q2 = q2
INVARIANT TypeOK
PROPERTIES ResourceQuota EveryRequestAnswered
CHECK_DEADLOCK FALSE
