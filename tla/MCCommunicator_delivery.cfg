\* A sender whose table changes, and a process that listens on two ports.
CONSTANTS
  p1 = p1
  c1 = c1
  Null = Null
  Garbage = Garbage
  None = None
  Producers = {p1}
  Consumers = {c1}
  RingSize = 2
  Ids = {1, 2}
  Addresses = {"requests", "heartbeats"}
  FirstTable <- MCTable
  Entries <- MCEntries
  Messages <- MCMessages
  MaxSends = 3
  MaxChanges = 2
SPECIFICATION CommSpec
INVARIANTS CommTypeOK FetchFindsMessage DeliveredInOrder LossExplained
PROPERTIES RefinesFifo Delivery
CHECK_DEADLOCK FALSE
