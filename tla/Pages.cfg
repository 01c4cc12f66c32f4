SPECIFICATION PagesSpec
CONSTANTS
  MaxCalls = 2
  None = None
  Rooms = {r1, r2}
  Tables = {ta, tb}
  Chairs = {a1, a2}
  TableRoom <- TablesApart
  TableOf <- AllAtA
  Neighbour <- NextAtA
  Clients = {ann, bob}
  Accounts = {gus, hal}
  Events = {e1, e2}
  ClientOf <- OfBoth
  BuiltIn = {classic, boarding}
  Custom = {t1, t2}
  Classic = classic
  MaxCheckouts = 2
  MaxPolls = 2
  MaxUnanswered = 2
  MaxTables = 1
  MaxChairs = 2
  MaxSessions = 1
  MaxVenueCalls = 3
  r1 = r1
  r2 = r2
  ta = ta
  tb = tb
  a1 = a1
  a2 = a2
  ann = ann
  bob = bob
  gus = gus
  hal = hal
  e1 = e1
  e2 = e2
  classic = classic
  boarding = boarding
  t1 = t1
  t2 = t2
INVARIANTS
  NeverStuck
  LeftQuietly
  SpinnersEnd
  SidebarIsCurrent
  LayoutFollowsRooms
  OneTheme
PROPERTY OpensForItsUser
CHECK_DEADLOCK FALSE
