CONSTANTS
  p1 = p1
  p2 = p2
  Nobody = nobody
  Procs <- MCProcs
  Deployments <- MCDeployments
  Hosts <- MCHosts
  Ephemeral <- MCEphemeral
  MaxStops = 2
  MaxFaults = 2
SPECIFICATION Spec
CHECK_DEADLOCK FALSE
INVARIANTS
  AllOrNothing
  OneWriterPerLog
  ConflictIsOverlap
  SomeoneRuns
  WithinBudgets
PROPERTIES FailuresJustified
