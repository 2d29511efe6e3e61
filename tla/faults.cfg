SPECIFICATION Spec
CONSTANTS
  Users = {u1}
  NoUser = NoUser
  Ports = {p1, p2}
  NoPort = NoPort
  MaxJob = 2
  EndStates = {"COMPLETED"}
  Faults = {"crash", "exception", "scan", "lost_reply", "scancel", "configuring"}
  Names = {n1}
  NoName = NoName
  MaxRow = 1
  Threads = {t1, t2}
  Ticker = Ticker
  Ops = {"apply", "restart", "stop", "reconcile", "expire"}
  AutoSave = TRUE
SYMMETRY Symmetry
CHECK_DEADLOCK FALSE
INVARIANTS OneExpiryPerJob
