CONSTANTS
  c1 = c1
  c2 = c2
  p1 = p1
  p2 = p2
  w1 = w1
  w2 = w2
  x = x
  y = y
  NoPlugin = NoPlugin
  NoTask = NoTask
  Calls = {c1, c2}
  Plugins = {p1}
  Workers = {w1, w2}
  Values = {x}
  ValueOf <- Shared
  Candidates <- OnePlugin
  Wanted <- OnePlugin
  QueueSize = 2
  MemorySize = 4
  Threshold = 2
  Dedup = TRUE
SPECIFICATION Spec
INVARIANT CollapseIntoOne
