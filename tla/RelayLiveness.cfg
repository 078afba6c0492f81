CONSTANTS
  Conn = {c1, c2}
  Room = {r1}
  Capacity = 2
  Inbound = {"ping", "pong", "text", "binary"}
SPECIFICATION FairSpec
PROPERTY DeadWriterLeaves
