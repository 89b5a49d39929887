CONSTANTS
  j1 = j1
  w1 = w1
  Jobs = {j1}
  Workers = {w1}
  Requests <- GoodRequests
  ForeignKeys = TRUE
  MaxFaults = 0
  MaxEntries = 5
CHECK_DEADLOCK FALSE
SPECIFICATION Spec
INVARIANT LogVerifies
