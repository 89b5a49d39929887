CONSTANTS
  p1 = p1
  p2 = p2
  p3 = p3
  Writers = {p1, p2, p3}
  Bodies = {p1, p2, p3}
  MaxEntries = 3
  Requests <- SomeRequests
  MaxFaults = 2
CHECK_DEADLOCK FALSE
SYMMETRY Symmetry
SPECIFICATION CaseSpec
INVARIANTS
  EntriesExtendVerified
  LoggedIsBacked
  RecordedIsLogged
  InitIsFirst
PROPERTIES
  CreatedOnce
  ImplementsBook
