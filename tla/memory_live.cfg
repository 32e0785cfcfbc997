SPECIFICATION LiveSpec
CONSTANTS
  AllocationMb = {3}
  LimitMb = {3}
  DefaultConfig <- BlockDefault
  RetainedLimitMb = 3
  SnapshotMaxRetainedMb = 1
  DeadlineAction = "stop"
  Inputs = {3}
  Rss = {"below"}
  SpawnMayFail = FALSE
  DrainBeforeExit = TRUE
  MaxRuns = 1
  MaxSnapshots = 1
  MaxInbox = 2
  MaxOutbox = 2
PROPERTIES
  StopEndsProcess
  DeadlineEndsProcess
CHECK_DEADLOCK FALSE
