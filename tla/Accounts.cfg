SPECIFICATION Spec
CONSTANTS
  Super = Super
  Requests = {p1, p2}
  MaxCount = 2
  None = None
  Clients = {ann, bob}
  Events = {e1, e2}
  Tables = {t1}
  InitialStaff <- GusOfAnn
  InitialBuildings <- B1OfAnn
  InitialRooms <- R1InB1
  InitialEvents <- OneEach
  InitialTables <- T1InR1
  ann = ann
  bob = bob
  gus = gus
  b1 = b1
  r1 = r1
  e1 = e1
  e2 = e2
  t1 = t1
  p1 = p1
  p2 = p2
INVARIANTS
  TypeOK
  NothingOrphaned
  SuccessMeansComplete
  ChairsContiguous
PROPERTY TouchesOwnCrewAndVenues
CHECK_DEADLOCK FALSE
