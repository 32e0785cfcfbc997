SPECIFICATION Spec
CONSTANTS
  AllocationMb = {2}
  LimitMb = {3}
  DefaultConfig <- StepDefault
  RetainedLimitMb = 3
  SnapshotMaxRetainedMb = 1
  DeadlineAction = "stop"
  Inputs = {2}
  Rss = {"below"}
  SpawnMayFail = TRUE
  DrainBeforeExit = TRUE
  MaxRuns = 1
  MaxSnapshots = 1
  MaxInbox = 2
  MaxOutbox = 1
INVARIANTS
  RefusedOnlyWhileRunning
CHECK_DEADLOCK FALSE
