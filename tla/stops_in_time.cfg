\* The unit's and the configuration's own numbers: POSTs time out after 10
\* seconds, the last flush posts up to 50 entries.
SPECIFICATION Spec
CONSTANTS
  MetricInterval = 30
  HeartbeatInterval = 10
  InventoryInterval = 300
  LogInterval = 10
  RetryInterval = 30
  CollectTime = 1
  PostTimeout = 10
  BatchSize = 50
  MaxBackoff = 300
  Failing = {}
  StaleAfter = 300
  StopTimeout = 20
  Start = 600
  Null = Null
  MaxCycles = 1
  MaxFailures = 9
INVARIANT StopsInTime
CHECK_DEADLOCK FALSE
