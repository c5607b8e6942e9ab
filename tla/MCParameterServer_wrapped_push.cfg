\* The list of all keys: the last server has two chunks, BSP.
CONSTANTS
  a1 = a1
  a2 = a2
  Agents = {a1, a2}
  Clients = {a1, a2}
  ServerNum = 2
  Bound = 1
  BackupSize = 0
  Blocks <- MCBlocks
  Chunks <- Wrapped
  MaxIter = 3
SPECIFICATION PSSpec
CHECK_DEADLOCK FALSE
PROPERTY PushAlwaysInserted
