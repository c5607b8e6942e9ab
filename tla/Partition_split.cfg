\* Every partition of six keys among three servers, every list of up to five keys,
\* repeated ones and ones just outside the range too.
CONSTANTS
  KeyRange = 6
  ServerNum = 3
  MaxKeys = 5
  Outside = 1
SPECIFICATION Spec
INVARIANTS SplitIsExact RoutedToOwner SegmentsDisjoint ChunkShape
