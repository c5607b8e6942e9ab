\* Two changes of the configuration: servers die, agents leave, join or are
\* replaced.
CONSTANTS
  Servers = {2, 3, 4, 5}
  Local = 2
  Agents = {11, 12, 13}
  FirstConfigs <- MCConfigs
  KeyRange = 6
  BackupSize = 2
  Bound = 2
  Stray = {0}
  MaxConfigs = 3
  MaxRounds = 1
SPECIFICATION Spec
INVARIANTS TypeOK TakeoverExact CountersExact DefinedBehaviour AllBlockedOnlyAfterDeparture
CHECK_DEADLOCK FALSE
