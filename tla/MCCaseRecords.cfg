CONSTANTS
  r1 = r1
  r2 = r2
  r3 = r3
  r4 = r4
  a = a
  b = b
  Reqs = {r1, r2, r3, r4}
  Values = {a, b}
  Requests <- SomeRequests
  MaxFaults = 1
  MaxEntries = 4
CHECK_DEADLOCK FALSE
SYMMETRY Symmetry
SPECIFICATION Spec
INVARIANTS
  AnsweredIsCreated
  CreateIsFirst
  ScanIsComplete
  SerialIsUnique
