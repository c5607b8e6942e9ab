\* Two servers, one agent, one crash; two rounds of heartbeats fit into the
\* timeout.
SPECIFICATION MCSpec
CONSTANTS
  s1 = s1
  s2 = s2
  Servers <- MCServers
  Agents = {a1}
  Timeout = 2
  Overdue = 4
  MaxCrashes = 1
  NoConfig = NoConfig
INVARIANTS TypeOK StartKeysKept LiveAgentsKept
PROPERTIES CrashIsAnnounced MasterEnds
CHECK_DEADLOCK FALSE
