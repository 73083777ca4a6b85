SPECIFICATION Spec
CONSTANTS
  Setups <- MCSetups
  BufferRecords = 2
INVARIANTS
  PairedOnce
  SlotsCountedOnce
  RawHasNoHole
  RawComplete
  PingReadingClose
CHECK_DEADLOCK FALSE
