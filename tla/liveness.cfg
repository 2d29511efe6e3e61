SPECIFICATION FairSpec
CONSTANTS
  Users = {u1}
  NoUser = NoUser
  Ports = {p1, p2}
  NoPort = NoPort
  MaxJob = 2
  EndStates = {"COMPLETED"}
  Faults = {"exception", "scancel"}
  Names = {n1}
  NoName = NoName
  MaxRow = 1
  Threads = {t1}
  Ticker = Ticker
  Ops = {"apply", "stop", "restart", "delete", "reconcile", "save", "expire"}
  AutoSave = FALSE
CHECK_DEADLOCK FALSE
PROPERTIES DueStops SavingEnds
