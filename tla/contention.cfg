SPECIFICATION Spec
CONSTANTS
  Users = {u1, u2}
  NoUser = NoUser
  Ports = {p1}
  NoPort = NoPort
  MaxJob = 3
  EndStates = {"COMPLETED"}
  Faults = {}
  Names = {n1}
  NoName = NoName
  MaxRow = 2
  Threads = {t1, t2}
  Ticker = Ticker
  Ops = {"apply", "restart", "stop", "delete", "release"}
  AutoSave = FALSE
SYMMETRY Symmetry
CHECK_DEADLOCK FALSE
INVARIANTS OneHome NoForeignJob OwnRowOnly
PROPERTY LeaseTakenByHolder
