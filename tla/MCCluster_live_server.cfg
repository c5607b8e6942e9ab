\* No crash at all, and a timeout of two rounds of heartbeats.
SPECIFICATION Spec
CONSTANTS
  s1 = s1
  s2 = s2
  Servers <- MCServers
  Agents = {a1}
  Timeout = 2
  Overdue = 4
  MaxCrashes = 0
  NoConfig = NoConfig
INVARIANT LiveServersKept
CHECK_DEADLOCK FALSE
