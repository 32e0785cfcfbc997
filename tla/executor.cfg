SPECIFICATION Spec
CONSTANTS
  Jobs = {j1, j2, j3}
  MaxConcurrent = 1
  MaxQueue = 1
  MaxEvents = 0
  SpawnMayFail = TRUE
  DrainBeforeExit = TRUE
  MaxChan = 1
INVARIANTS
  TypeOK
  SlotAccounting
  QueueAccounting
  WorkConserving
  SuccessNeedsExit
  NoOrphan
PROPERTIES
  FinalOutcome
  CompletedRunSucceeds
  ImplementsJobService
SYMMETRY Symmetry
CHECK_DEADLOCK FALSE
