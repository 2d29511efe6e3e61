SPECIFICATION Spec
CONSTANTS
  Users = {u1}
  NoUser = NoUser
  Ports = {p1, p2, p3}
  NoPort = NoPort
  MaxJob = 3
  EndStates = {"COMPLETED"}
  Faults = {}
  Names = {n1}
  NoName = NoName
  MaxRow = 1
  Threads = {t1, t2}
  Ticker = Ticker
  Ops = {"apply", "stop", "restart"}
  AutoSave = FALSE
SYMMETRY Symmetry
CHECK_DEADLOCK FALSE
PROPERTY ForgetsOnlyEndedJobs
