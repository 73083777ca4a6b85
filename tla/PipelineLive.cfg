SPECIFICATION Spec
CONSTANTS
  Sub <- SoloSub
  Rings <- SoloRings
  SlotSub <- SoloSlotSub
  MaxSent <- QuietMaxSent
  Capacity = 1
  DrainBudget = 1
  RawRecords = FALSE
  HasSlots = TRUE
  StopSlots = 1
  HasDuration = TRUE
PROPERTIES
  StopsWithResult
  StopsWithoutReceivers
  DispatchersReturn
