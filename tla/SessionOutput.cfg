CONSTANTS
  MaxConn = 2
  MaxRun = 2
  MaxOut = 3
  MaxKey = 0
  Slots = 1
SPECIFICATION Spec
INVARIANTS
  TypeOK
  PacketsGenuine
  HolesAreDrops
