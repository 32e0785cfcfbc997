SPECIFICATION Spec
CONSTANTS
  r1 = r1
  k1 = k1
  k2 = k2
  Jobs = {r1, r2}
  Isolated = {r2}
  Keys = {k1, k2}
  Key <- TwoClients
  MaxConcurrentDemos = 2
  MaxConcurrentDemosPerIp = 1
  MaxConcurrent = 1
  MaxQueue = 1
  MaxEvents = 0
  SpawnMayFail = FALSE
  DrainBeforeExit = TRUE
  MaxChan = 1
INVARIANTS
  GaugeCountsExecuting
CHECK_DEADLOCK FALSE
