\* Two requests at a time of one client, one guard and the super admin, from one address.
SPECIFICATION Spec
CONSTANTS
  q1 = q1
  q2 = q2
  ip1 = ip1
  c1 = c1
  g1 = g1
  login = login
  verify = verify
  verifySlash = verifySlash
  Requests = {q1, q2}
  Callers = {ip1}
  LoginPaths = {login}
  VerifyPaths = {verify, verifySlash}
  SuperAdmin = root
  Clients = {c1}
  Others = {g1}
  Lifetime = 1
  MaxAttempts = 1
  Window = 1
  MaxPerWindow <- PerRoute
  MaxCodes = 2
  MaxTime = 2
  None = None
INVARIANTS TypeOK OneLoginPerCode GuessesBounded RateBound TurnedAwayRightly
PROPERTY AcceptedInTime
SYMMETRY Alike
CHECK_DEADLOCK FALSE
