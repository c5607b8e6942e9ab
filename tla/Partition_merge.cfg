\* The index with which a server merges an update.
CONSTANTS
  KeyRange = 5
  ServerNum = 2
  MaxKeys = 2
  Outside = 0
SPECIFICATION Spec
INVARIANT MergeInBounds
