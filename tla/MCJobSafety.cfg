CONSTANTS
  j1 = j1
  j2 = j2
  w1 = w1
  w2 = w2
  Jobs = {j1, j2}
  Workers = {w1, w2}
  Requests <- MixedRequests
  ForeignKeys = FALSE
  MaxFaults = 2
  MaxEntries = 5
CHECK_DEADLOCK FALSE
SYMMETRY Symmetry
SPECIFICATION Spec
INVARIANTS
  TruthfulLog
  RunsAreLogged
  AcceptedIsRunnable
  StrandedIsFiled
PROPERTIES
  StatusOrder
  ImplementsDelivery
