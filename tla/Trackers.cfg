SPECIFICATION Spec
CONSTANTS
  Configs <- MCConfigs
  Heavy = {}
  Slot = {1, 2}
  StallThreshold = 1
  RingBaseline = 8
  MaxUsize = 100
  Key <- MCKey
  KeySlot <- MCKeySlot
  CrossWindow = 2
  DrainBudget = 1
  MaxTime = 2
  MaxEvents = 3
INVARIANTS
  StallsExact
  SilencesCovered
  FirstArrivalHeld
  CrossPaired
  CrossBounded
CHECK_DEADLOCK FALSE
