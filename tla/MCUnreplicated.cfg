SPECIFICATION FairSpec
CONSTANTS
  c1 = c1
  c2 = c2
  Clients = {c1, c2}
  Nodes = {c1, c2}
  EventLimit = 3
  MakeBlocks = {TRUE, FALSE}
  MaxBatchSize = 2
  MaxRequestNum = 3
  MaxFaults = 1
  OnTimer = {"panic", "return"}
INVARIANT NoFalseAlarm
INVARIANT BlockIsDue
PROPERTY Linearizable
PROPERTY AnsweredOrEnded
CHECK_DEADLOCK FALSE
