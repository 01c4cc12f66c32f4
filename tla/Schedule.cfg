\* Two requests and a booking at a time, two rooms of one tenant, drafts of another.
SPECIFICATION Spec
CONSTANTS
  Editors = {q1, q2}
  Bookers = {b1}
  EventIds = {e1, e2}
  Rooms = {hall, loft}
  Clients = {ann, bob}
  RoomOwner <- OneTenant
  Wishes <- HallOrBoth
  Layouts <- NoTables
  SuperAdmin = super
  Callers = {ann, bob}
  None = none
  ann = ann
  bob = bob
  hall = hall
  loft = loft
INVARIANT TypeOK
PROPERTIES OverlapNeedsRace LostTicketNeedsRace MoveNeedsRace TenantIsolation
SYMMETRY Alike
CHECK_DEADLOCK FALSE
