CONSTANTS
  p1 = p1
  p2 = p2
  Procs = {p1, p2}
  Window = 2
  Limits = {0, 1, 2}
  MaxTime = 3
  MaxAttempts = 3
  MaxFaults = 2
CHECK_DEADLOCK FALSE
SYMMETRY Symmetry
SPECIFICATION Spec
INVARIANTS
  BucketLimit
  RefusedAfterLimit
