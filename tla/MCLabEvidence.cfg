CONSTANTS
  p1 = p1
  p2 = p2
  p3 = p3
  l1 = l1
  s1 = s1
  c2 = c2
  c1 = c1
  Procs = {p1, p2, p3}
  Labels = {l1}
  Sources = {s1}
  Contents = {c1, c2}
  Requests <- ImportsAndVerify
  MaxFaults = 1
  MaxEntries = 3
CHECK_DEADLOCK FALSE
SYMMETRY Symmetry
SPECIFICATION Spec
INVARIANTS
  SoleClaimIsIntact
  SoleClaimVerifies
  LogAgrees
