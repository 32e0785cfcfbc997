SPECIFICATION Spec
CONSTANTS
  AllocationMb = {2}
  LimitMb = {3}
  DefaultConfig <- StepDefault
  RetainedLimitMb = 3
  SnapshotMaxRetainedMb = 1
  DeadlineAction = "pause"
  Inputs = {3}
  Rss = {"below"}
  SpawnMayFail = FALSE
  DrainBeforeExit = FALSE
  MaxRuns = 2
  MaxSnapshots = 2
  MaxInbox = 2
  MaxOutbox = 1
INVARIANTS
  TimerIffRunning
  StopTimerOwnRun
  OneExperiment
  OfferedSnapshotOnDisk
CHECK_DEADLOCK FALSE
