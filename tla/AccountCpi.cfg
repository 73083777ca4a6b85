SPECIFICATION Spec
CONSTANTS
  Write <- MCWrite
  Version = {1, 2}
  Owner <- MCOwner
  SlotOf <- MCSlotOf
  OwnerOf <- MCOwnerOf
  NameOf <- MCNameOf
  Strict = FALSE
  Window = 1
  EvictEvery = 2
  MaxObs = 3
INVARIANTS
  OneMatchPerIdentity
CHECK_DEADLOCK FALSE
