SPECIFICATION Spec
CONSTANTS
  Endpoints = {e1, e2}
  Maintenance = maint
  NoPeer = nopeer
  Peers <- MCPeers
  limit = 2
  max_ips = 1
  WINDOW = 2
  MaxSkew = 1
  MaxClock = 4
SYMMETRY EndpointSymmetry
INVARIANTS TypeOK MemoryBound RateBound
PROPERTIES ImplementsSlidingWindow
