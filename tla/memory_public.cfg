SPECIFICATION Spec
CONSTANTS
  AllocationMb = {2}
  LimitMb = {3}
  DefaultConfig <- StepDefault
  RetainedLimitMb = 3
  SnapshotMaxRetainedMb = 2
  DeadlineAction = "stop"
  Inputs = {9}
  Rss = {"below", "above"}
  SpawnMayFail = TRUE
  DrainBeforeExit = TRUE
  MaxRuns = 2
  MaxSnapshots = 2
  MaxInbox = 3
  MaxOutbox = 1
INVARIANTS
  TypeOK
  RetainedWithinLimits
  SnapshotExclusive
  ClientsSeeCurrentState
  SupervisorCatchesUp
CHECK_DEADLOCK FALSE
