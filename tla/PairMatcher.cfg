SPECIFICATION Spec
CONSTANTS
  Key <- MCKey
  SlotOf <- MCSlotOf
  Time <- MCTime
  Window = 1
  EvictEvery = 3
  BufferFlush = 2
  MaxObs = 3
INVARIANTS
  OneSidePerKey
  Conservation
  NoMissedPair
  BoundedStale
  ReportExact
PROPERTIES
  InWindowLeavesByMatch
  ImplementsPairing
CHECK_DEADLOCK FALSE
