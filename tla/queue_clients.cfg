\* Two consumers and a limit that lets an entry be retried once, a crash at
\* any step.
CONSTANTS
  t1 = t1
  t2 = t2
  Nobody = Nobody
  p = p
  Threads = {t1, t2}
  Consumers = {t1, t2}
  Payloads = {p}
  MaxSize = 2
  RetryLimit = 2
  BatchSize = 2
  MaxClock = 7
  Persist = TRUE
  DiskFaults = FALSE

SPECIFICATION ClientSpec
SYMMETRY ConsumerSymmetry

INVARIANT ClientTypeOK
INVARIANT EntryOnce
INVARIANT RetriedFirst
INVARIANT FileInSync
