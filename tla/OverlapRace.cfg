\* Two concurrent requests for one room: the availability check does not exclude both.
SPECIFICATION Spec
CONSTANTS
  Editors = {q1, q2}
  Bookers = {}
  EventIds = {e1, e2}
  Rooms = {hall}
  Clients = {ann}
  RoomOwner <- OneRoom
  Wishes <- HallOnly
  Layouts <- NoTables
  SuperAdmin = super
  Callers = {ann}
  None = none
  ann = ann
  bob = bob
  hall = hall
  loft = loft
INVARIANT NoOverlap
CHECK_DEADLOCK FALSE
