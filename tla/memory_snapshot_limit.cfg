SPECIFICATION Spec
CONSTANTS
  AllocationMb = {2}
  LimitMb = {3}
  DefaultConfig <- StepDefault
  RetainedLimitMb = 3
  SnapshotMaxRetainedMb = 1
  DeadlineAction = "stop"
  Inputs = {2}
  Rss = {"below"}
  SpawnMayFail = FALSE
  DrainBeforeExit = TRUE
  MaxRuns = 1
  MaxSnapshots = 1
  MaxInbox = 3
  MaxOutbox = 1
INVARIANTS
  SnapshotWithinLimit
CHECK_DEADLOCK FALSE
