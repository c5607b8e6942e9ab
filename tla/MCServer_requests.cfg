\* Two agents and a client that is not configured, one server, SSP bound 2.
CONSTANTS
  a1 = a1
  a2 = a2
  x  = x
  b1 = b1
  b2 = b2
  Agents = {a1, a2}
  Clients = {a1, a2, x}
  Blocks = {b1, b2}
  ServerNum = 1
  Bound = 2
  BackupSize = 0
  MaxPushes = 3
  MaxInFlight = 1
  MaxPulls = 2
SPECIFICATION MCSpec
SYMMETRY Symmetry
INVARIANTS TypeOK FinishCountExact NoReadyRound BlockedOnlyWhileFull RoundIntegrity
PROPERTY StalenessBound
