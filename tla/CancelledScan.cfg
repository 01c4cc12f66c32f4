SPECIFICATION Spec
CONSTANTS
  e1 = e1  e2 = e2  r1 = r1  r2 = r2  ta = ta  tb = tb
  a1 = a1  a2 = a2  c1 = c1
  gate = gate  book1 = book1  book2 = book2  del1 = del1
  SuperAdmin = SuperAdmin  None = None
  Bookers = {book1}
  Cancellers = {del1}
  Scanners = {gate}
  Staff = {gate}
  Assigned <- GateAtE1
  Events = {e1}  Rooms = {r1}  Tables = {ta}  Chairs = {a1}  Clients = {c1}
  EventRooms <- OneRoom
  PrimaryRoom <- InRoom1
  Owner <- OwnedByC1
  TableRoom <- TablesInRoom1
  TableOf <- AllAtA
PROPERTIES NoCancelledAdmission
