SPECIFICATION CoordSpec
CONSTANTS
  Sub <- SoloSub
  Rings <- SoloRings
  SlotSub <- SoloSlotSub
  MaxSent <- SoloMaxSent
  Capacity = 1
  DrainBudget = 1
  RawRecords = TRUE
  HasSlots = TRUE
  StopSlots = 1
  HasDuration = FALSE
PROPERTIES
  StopsWithResult
