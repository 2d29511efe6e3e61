SPECIFICATION Spec
CONSTANTS
  Users = {u1}
  NoUser = NoUser
  Ports = {p1, p2}
  NoPort = NoPort
  MaxJob = 3
  EndStates = {"COMPLETED"}
  Faults = {"query", "requeue"}
  Names = {n1, n2}
  NoName = NoName
  MaxRow = 2
  Threads = {t1}
  Ticker = Ticker
  Ops = {"apply", "restart", "stop", "delete", "reconcile", "save", "register", "release"}
  AutoSave = TRUE
SYMMETRY Symmetry
CHECK_DEADLOCK FALSE
INVARIANTS NoOrphan ActivePortLeased
PROPERTY ForgetsOnlyEndedJobs
