SPECIFICATION FairSpec
CONSTANTS
  MaxOps = 4
  MaxRecords = 4
  RecordSize = 2
  Flight = 2
  ReadChunk = 5
  Deframer = 3
  Overlap = FALSE
  None = None
CHECK_DEADLOCK FALSE
INVARIANTS
  TypeOK
  BytesIntact
  CallbackHeld
PROPERTIES
  EveryCallEnds
