CONSTANTS
  MaxConn = 2
  MaxRun = 2
  MaxOut = 0
  MaxKey = 2
  Slots = 1
SPECIFICATION FairSpec
INVARIANTS KeysAgree InputInOrder
PROPERTY
  LostClientNoticed
