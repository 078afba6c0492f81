CONSTANTS
  MaxBytes = 7
  Sizes = {2, 3, 7}
  MaxSeq = 5
SPECIFICATION Spec
INVARIANTS
  TypeOK
  Accounting
  EvictsOnlyWhenFull
  KeepsNewest
  ReplyExact
PROPERTY ImplementsReplayLog
