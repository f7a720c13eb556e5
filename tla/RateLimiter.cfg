CONSTANTS
  host = host
  w1 = w1
  w2 = w2
  Waiters = {w1, w2}
  Admins = {a1}
  Observers = {o1}
  Values <- OneHost
  Hosts = {host}
  WellFormed = {host}
  Default = Default
  Configs <- Slow
  DefaultConfig <- Plain
  MaxLimiters = 1
  MaxFailures = 2
  NoDeadline = NoDeadline
  Life <- OneDeadline
  NoOne = NoOne
SPECIFICATION FairSpec
INVARIANTS
  TypeOK
  OneTracker
  Paced
  BackoffHonoured
PROPERTIES
  WaitReturns
