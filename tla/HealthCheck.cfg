SPECIFICATION HealthSpec
CONSTANTS
  Clients = {c1, c2, c3, c4}
  Probes = {c1}
  max_connections = 2
INVARIANTS TypeOK CapHolds EndsAsPromised
PROPERTIES HealthTruthful SlotsComeBack
