CONSTANTS
  c1 = c1
  c2 = c2
  p1 = p1
  p2 = p2
  w1 = w1
  w2 = w2
  x = x
  y = y
  NoPlugin = NoPlugin
  NoTask = NoTask
  Calls = {c1, c2}
  Plugins = {p1, p2}
  Workers = {w1, w2}
  Values = {x}
  ValueOf <- Shared
  Candidates <- AllPlugins
  Wanted <- Matched
  QueueSize = 1
  MemorySize = 1
  Threshold = 1
  Dedup = TRUE
SYMMETRY WorkerSymmetry
SPECIFICATION Spec
INVARIANTS
  Accounting
  ReplyNeverBlocks
PROPERTIES
  StoppedIsQuiet
  ImplementsTraceCalls
