SPECIFICATION Spec
CONSTANTS
  Users = {u1}
  NoUser = NoUser
  Ports = {p1, p2}
  NoPort = NoPort
  MaxJob = 1
  EndStates = {"COMPLETED"}
  Faults = {"squeue"}
  Names = {n1}
  NoName = NoName
  MaxRow = 1
  Threads = {t1, t2}
  Ticker = Ticker
  Ops = {"apply", "stop", "reconcile"}
  AutoSave = FALSE
SYMMETRY Symmetry
CHECK_DEADLOCK FALSE
PROPERTY StaysCancelled
