CONSTANTS
  MaxConn = 2
  MaxRun = 1
  MaxOut = 0
  MaxKey = 0
  Slots = 64
SPECIFICATION Spec
INVARIANT
  NewcomerIsServed
