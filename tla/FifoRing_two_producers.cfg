\* The sender of an agent or a server: its main and heartbeat threads both add.
CONSTANTS
  p1 = p1
  p2 = p2
  c1 = c1
  m1 = m1
  m2 = m2
  Null = Null
  Garbage = Garbage
  Producers = {p1, p2}
  Consumers = {c1}
  Messages = {m1, m2}
  RingSize = 2
SPECIFICATION Spec
INVARIANT FetchFindsMessage
