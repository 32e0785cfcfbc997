SPECIFICATION Spec
CONSTANTS
  Catalogue = {"database"}
  Jobs = {j1, j2, j3}
  Size = 2
  Burst = 3
  Candidates = 2
  TraceLines = 2
  MaxPipe = 2
  DbScenarios = {"sql", "acid", "indexes", "locks", "joins"}
  LoopDemos = {"order", "demultiplexer", "queue", "pool", "promises", "models"}
INVARIANTS
  CleanupReleasesClients
CHECK_DEADLOCK FALSE
