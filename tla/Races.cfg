\* Two bookings, a cancellation and a scan of two events, each in a room of its own.
SPECIFICATION FairSpec
CONSTANTS
  e1 = e1  e2 = e2  r1 = r1  r2 = r2  ta = ta  tb = tb
  a1 = a1  a2 = a2  c1 = c1
  gate = gate  book1 = book1  book2 = book2  del1 = del1
  SuperAdmin = SuperAdmin  None = None
  Bookers = {book1, book2}
  Cancellers = {del1}
  Scanners = {gate}
  Staff = {gate}
  Assigned <- GateAtE1
  Events = {e1, e2}  Rooms = {r1, r2}  Tables = {ta, tb}  Chairs = {a1, a2}  Clients = {c1}
  EventRooms <- RoomEach
  PrimaryRoom <- PrimaryApart
  Owner <- OwnedByC1
  TableRoom <- TablesApart
  TableOf <- AllAtA
INVARIANTS TypeOK NoDoubleBooking CoupleTogether TicketFollowsReservation PartnerInEventRoom
PROPERTIES LedgerSpec EveryRequestAnswered
