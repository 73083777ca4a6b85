SPECIFICATION Spec
CONSTANTS
  CommandLines <- MCCommandLines
  Reports <- MCReports
  Heavy <- MCHeavy
  ProgramIds <- MCProgramIds
  Harness <- MCHarness
  Minimum <- MCMinimum
  DefaultRingCapacity = 64
  MaxUsize = 1023
INVARIANTS
  RefusedForCause
  AnswerOnRecord
  EveryProgramOnce
  StreamBudget
  CoresApart
  CanStop
  OverlayOnlyFillsIn
  RealtimeHonest
CHECK_DEADLOCK FALSE
