\* Three cycles, each of which may raise, with POSTs and flushes that take their
\* time or none, a backoff longer than the interval, and a signal at any step.
\* The endpoint's limit is half of what a cycle may take, as the code's 300
\* seconds are of a cycle with a flush of 50 timeouts.
SPECIFICATION FairSpec
CONSTANTS
  MetricInterval = 1
  HeartbeatInterval = 3
  InventoryInterval = 2
  LogInterval = 2
  RetryInterval = 1
  CollectTime = 1
  PostTimeout = 1
  BatchSize = 1
  MaxBackoff = 2
  Failing = {"collect", "evaluate", "metrics", "inventory"}
  StaleAfter = 4
  StopTimeout = 2
  Start = 10
  Null = Null
  MaxCycles = 3
  MaxFailures = 1
INVARIANTS TypeOK Cadence HealthIsPace StopsWithin
PROPERTY Stops
CHECK_DEADLOCK FALSE
