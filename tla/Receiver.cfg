SPECIFICATION Spec
CONSTANTS
  Error = {"refused", "reset"}
  MaxSame = 5
  MaxCount = 3
INVARIANTS
  GivesUpExactly
PROPERTIES
  ImplementsLife
  FinishesUnlessHung
