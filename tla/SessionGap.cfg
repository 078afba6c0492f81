CONSTANTS
  MaxConn = 3
  MaxRun = 1
  MaxOut = 2
  MaxKey = 0
  Slots = 64
SPECIFICATION Spec
INVARIANT
  ReconnectRestoresOutput
