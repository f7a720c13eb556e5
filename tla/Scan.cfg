CONSTANTS
  a = a
  b = b
  c = c
  p = p
  q = q
  x = x
  y = y
  NoTrace = NoTrace
  Traces = {a, b, c}
  Plugins = {p, q}
  Values = {x, y}
  ValueOf <- Shared
  Handles <- TwoSources
  Finds <- Cycle
  MaxConcurrency = 2
  MaxScans = 2
  Seeds = {a, c, NoTrace}
SPECIFICATION FairSpec
INVARIANTS
  TypeOK
  TraceBack
  EveryParentKept
  GrownOut
PROPERTIES
  ProcessedOnce
  ImplementsExploration
  ScanEnds
