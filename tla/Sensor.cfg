SPECIFICATION Spec
CONSTANTS
  Conns = {c1, c2}
  Endpoints = {e1}
  Management = mgmt
  Maintenance = maint
  Main = main_task
  Server = server_task
  NoConn = noconn
  max_sessions = 1
  Sinks = {"file"}
  buffer_size = 1
  MaxFaults = 1
SYMMETRY ConnSymmetry
INVARIANTS SessionBound NoSessionOutlivesServer CleanExitLosesNothing ExitStatus ReadyzTruthful
PROPERTIES ImplementsLogger
