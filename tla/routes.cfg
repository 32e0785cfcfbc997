SPECIFICATION RoutesSpec
CONSTANTS
  Parts = {"limiter", "memory", "run"}
  Keys = {k1, k2}
  Max = 2
  Window = 3
  Second = 2
  ManyBuckets = 1
  MaxTime = 7
  MaxCount = 4
  Streams = {s1, s2}
  MaxSseClients = 1
  MaxVersion = 2
  Runs = {r1, r2, r3}
INVARIANTS
  RoutesTypeOK
  AnyWindowBounded
  ViewUpToDate
  TraceOfOneRun
PROPERTIES
  RetryAfterSuffices
  RunButtonComesBack
CHECK_DEADLOCK FALSE
