SPECIFICATION Spec
CONSTANTS
  Sub <- PairSub
  Rings <- PairRings
  SlotSub <- PairSlotSub
  Capacity = 1
  DrainBudget = 1
  RawRecords = TRUE
  HasSlots = TRUE
  StopSlots = 1
  HasDuration = FALSE
  MaxSent <- PairMaxSent
INVARIANTS
  TypeOK
  EventLedger
  LossOnlyAtTheEnd
  CleanReportComplete
  KeptMeansFinal
PROPERTIES
  DrainedOnSecondLook
