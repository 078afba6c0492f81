CONSTANTS
  Conn = {c1, c2}
  Room = {r1}
  Capacity = 2
  Inbound = {}
SPECIFICATION Spec
PROPERTY CleanupRemovesOnlyItself
