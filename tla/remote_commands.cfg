\* Three commands of every kind, in batches of up to two, under a limit of two.
SPECIFICATION FairSpec
CONSTANTS
  Commands <- Mixed
  Window = 3
  MaxPerWindow = 2
  LogCap = 2
  MaxBatch = 2
  MaxFetched = 3
  MaxTime = 4
INVARIANTS TypeOK RateBound Accounted
PROPERTY PollsAgain
CHECK_DEADLOCK FALSE
