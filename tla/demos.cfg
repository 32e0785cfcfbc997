SPECIFICATION FairSpec
CONSTANTS
  Catalogue = {"load", "cache", "messages", "python", "database", "bullmq", "event-loop"}
  Jobs = {j1, j2, j3}
  Size = 2
  Burst = 3
  Candidates = 2
  TraceLines = 2
  MaxPipe = 2
  DbScenarios = {"sql", "acid", "indexes", "locks", "joins"}
  LoopDemos = {"order", "demultiplexer", "queue", "pool", "promises", "models"}
INVARIANTS
  TypeOK
  NoIdleWorker
  CleanupComplete
  ReportsTrue
  PythonTrace
  LoopReports
  EndsOnce
PROPERTIES
  PoolImplementsJobService
  PermitComesBack
CHECK_DEADLOCK FALSE
