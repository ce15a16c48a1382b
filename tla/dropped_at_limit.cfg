\* An entry is dropped at its limit while a fresh copy of it is in the queue.
CONSTANTS
  main = main
  daemon = daemon
  Nobody = Nobody
  metrics = metrics
  alerts = alerts
  nan = nan
  odd = odd
  Threads = {main, daemon}
  Main = main
  NoPayload = NoPayload
  Payloads = {metrics, alerts}
  MaxSize = 2
  RetryLimit = 2
  BatchSize = 2
  Unsendable = {}
  Unencodable = {}
  Persist = TRUE
  DiskFaults = FALSE
  MayStop = TRUE
  MaxStarts = 2

SPECIFICATION Spec

PROPERTY DroppedAtLimit
