SPECIFICATION FairSpec
CONSTANTS
  r0 = r0
  h1 = h1
  h2 = h2
  ReplicaHosts = {r0}
  ClientHosts <- MCClientHosts
  MaxMissed = 1
  MaxTaskPanic = 1
INVARIANT CompletedIsClean
PROPERTY RunEnds
CHECK_DEADLOCK FALSE
