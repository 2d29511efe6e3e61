SPECIFICATION Spec
CONSTANTS
  Users = {u1}
  NoUser = NoUser
  Ports = {p1, p2}
  NoPort = NoPort
  MaxJob = 3
  EndStates = {"COMPLETED"}
  Faults = {"query"}
  Names = {n1, n2}
  NoName = NoName
  MaxRow = 2
  Threads = {t1, t2}
  Ticker = Ticker
  Ops = {"apply", "stop", "delete", "reconcile"}
  AutoSave = FALSE
SYMMETRY Symmetry
CHECK_DEADLOCK FALSE
INVARIANTS TypeOK NoOrphan UpPortsDistinct
PROPERTY NoResurrection
