\* Three servers that keep two backups each; the middle one owns no key.
CONSTANTS
  a1 = a1
  Agents = {a1}
  Clients = {a1}
  ServerNum = 3
  Bound = 1
  BackupSize = 2
  Blocks <- MCBlocks
  Chunks <- EmptySegment
  MaxIter = 3
SPECIFICATION PSSpec
CHECK_DEADLOCK FALSE
INVARIANTS BackupOwner BackupLag
PROPERTY BackupMonotonic
