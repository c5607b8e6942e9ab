\* Two agents, two servers, a key list that does not wrap, SSP bound 2.
CONSTANTS
  a1 = a1
  a2 = a2
  Agents = {a1, a2}
  Clients = {a1, a2}
  ServerNum = 2
  Bound = 2
  BackupSize = 0
  Blocks <- MCBlocks
  Chunks <- InOrder
  MaxIter = 4
SPECIFICATION FairPSSpec
CHECK_DEADLOCK FALSE
INVARIANTS PSTypeOK ClockGap PullComplete
PROPERTIES PushAlwaysInserted Termination
