SPECIFICATION Spec
CONSTANTS
  r1 = r1
  k1 = k1
  k2 = k2
  Jobs = {r1, r2, r3, r4}
  Isolated = {r2, r3, r4}
  Keys = {k1, k2}
  Key <- TwoClients
  MaxConcurrentDemos = 2
  MaxConcurrentDemosPerIp = 2
  MaxConcurrent = 1
  MaxQueue = 1
  MaxEvents = 0
  SpawnMayFail = TRUE
  DrainBeforeExit = TRUE
  MaxChan = 0
INVARIANTS
  TypeOK
  ReturnedExactlyOnce
  AdmittedNeverRefused
  CancelledRunGone
SYMMETRY AlikeRequests
CHECK_DEADLOCK FALSE
