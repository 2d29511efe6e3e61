SPECIFICATION Spec
CONSTANTS
  Users = {u1}
  NoUser = NoUser
  Ports = {p1, p2}
  NoPort = NoPort
  MaxJob = 2
  EndStates = {"COMPLETED"}
  Faults = {}
  Names = {n1}
  NoName = NoName
  MaxRow = 1
  Threads = {t1, t2}
  Ticker = Ticker
  Ops = {"apply", "stop", "restart", "reconcile", "expire"}
  AutoSave = FALSE
SYMMETRY Symmetry
CHECK_DEADLOCK FALSE
PROPERTY ExpiryStopsDueOnly
