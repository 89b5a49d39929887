CONSTANTS
  p1 = p1
  p2 = p2
  p3 = p3
  l1 = l1
  s1 = s1
  s2 = s2
  c1 = c1
  Procs = {p1, p2, p3}
  Labels = {l1}
  Sources = {s1, s2}
  Contents = {c1}
  Requests <- CopiesAndVerify
  MaxFaults = 0
  MaxEntries = 3
CHECK_DEADLOCK FALSE
SPECIFICATION Spec
INVARIANT FailedIsChanged
