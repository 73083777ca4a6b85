SPECIFICATION Spec
CONSTANTS
  Configs <- EntriesConfigs
  Heavy = {}
  Slot = {1, 2}
  StallThreshold = 1
  RingBaseline = 24
  MaxUsize = 100
  Key <- MCKey
  KeySlot <- MCKeySlot
  CrossWindow = 2
  DrainBudget = 1
  MaxTime = 2
  MaxEvents = 3
INVARIANTS
  StallsAreSilences
CHECK_DEADLOCK FALSE
