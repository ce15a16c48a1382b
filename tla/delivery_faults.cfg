\* A disk that refuses opens and writes, two restarts, a payload that JSON lacks.
CONSTANTS
  main = main
  daemon = daemon
  Nobody = Nobody
  metrics = metrics
  alerts = alerts
  nan = nan
  odd = odd
  Threads = {main, daemon}
  Main = main
  NoPayload = NoPayload
  Payloads = {metrics, alerts, odd}
  MaxSize = 2
  RetryLimit = 2
  BatchSize = 2
  Unsendable = {}
  Unencodable = {odd}
  Persist = TRUE
  DiskFaults = TRUE
  MayStop = TRUE
  MaxStarts = 3

SPECIFICATION Spec

INVARIANT TypeOK
INVARIANT QueueWithinSlack
INVARIANT Inductive
INVARIANT Conserved
PROPERTY KeepsPromise
