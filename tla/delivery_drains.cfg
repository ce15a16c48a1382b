\* One start, so neither a stop nor a crash: every payload ends somewhere once
\* POSTs succeed, and at every moment a crash would cost only what threads hold.
CONSTANTS
  main = main
  daemon = daemon
  Nobody = Nobody
  metrics = metrics
  alerts = alerts
  nan = nan
  odd = odd
  Threads = {main, daemon}
  Main = main
  NoPayload = NoPayload
  Payloads = {metrics, alerts, nan, odd}
  MaxSize = 3
  RetryLimit = 2
  BatchSize = 2
  Unsendable = {nan}
  Unencodable = {odd}
  Persist = TRUE
  DiskFaults = FALSE
  MayStop = TRUE
  MaxStarts = 1

SPECIFICATION FairSpec

INVARIANT CrashLosesOnlyHands
PROPERTY Drains
