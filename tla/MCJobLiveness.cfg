CONSTANTS
  j1 = j1
  j2 = j2
  w1 = w1
  Jobs = {j1, j2}
  Workers = {w1}
  Requests <- GoodAndBadRequests
  ForeignKeys = TRUE
  MaxFaults = 1
  MaxEntries = 5
CHECK_DEADLOCK FALSE
SPECIFICATION FairSpec
PROPERTIES
  WorkerFreed
  JobSettles
