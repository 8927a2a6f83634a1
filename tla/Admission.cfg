SPECIFICATION AdmissionSpec
CONSTANTS
  Endpoints = {e1,e2}
  Maintenance = maint
  NoPeer = nopeer
  Peers <- MCPeers
  limit = 1
  max_ips = 1
  WINDOW = 2
  MaxSkew = 1
  MaxClock = 2
  ignore_source_ips <- MCIgnored
  max_sessions = 1
  MaxAccepts = 2
CHECK_DEADLOCK FALSE
INVARIANTS IgnoredNeverAdmitted EveryConnectionCounted SlotPerAttempt
PROPERTIES IdleBucketReclaimed
