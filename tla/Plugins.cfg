CONSTANTS
  k1 = k1
  k2 = k2
  k3 = k3
  Missing = Missing
  MaxContributors = 3
  Submitters = {s1, s2}
  Keys = {k1, k2, k3}
  KeysOf <- OneKeyButGitHub
  MemorySize = 2
  EnableCache = TRUE
  PersistentCache = TRUE
  CacheTTL = 1
  Commits <- History
  Owner <- OwnerSig
SPECIFICATION Spec
INVARIANTS
  TypeOK
  RecentlyUsedStays
  StrangersUnnamed
