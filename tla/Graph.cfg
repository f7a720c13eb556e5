CONSTANTS
  Traces = {a, b, c}
  Plugins = {p}
  MaxScans = 2
  MaxEdges = 5
  MaxBatch = 2
SPECIFICATION Spec
INVARIANTS
  TypeOK
  ReplayIsNoOp
  ReachableIsDistance
  GraphIsReachable
  PathReachesSeed
  SeedFirstUnlessCyclic
PROPERTIES
  EveryDiscoveryStored
CHECK_DEADLOCK FALSE
