CONSTANTS
  Char = {a, b}
  Cleared = cleared
  Size = {1, 2}
  WidgetSize = 1
  CliSize = 2
  ChunkMax = 2
  MaxSession = 2
  MaxAct = 3
SPECIFICATION FairSpec
INVARIANTS TypeOK EchoNeverEats BufferedInputFlushed InputConserved RecoveryEnds SizeOnItsWay
PROPERTY SizeArrives
CHECK_DEADLOCK FALSE
