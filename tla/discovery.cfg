\* Every configuration of MCDiscovery; a job takes up to a second.
SPECIFICATION FairSpec
CONSTANTS
  Configs <- All
  MaxHosts = 3
  MaxWorkers = 2
  PortWorkers = 2
  JobTime = 1
INVARIANTS TypeOK ExitsWithin
PROPERTIES ReportsComplete GoesOn
CHECK_DEADLOCK FALSE
