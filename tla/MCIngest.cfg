CONSTANTS
  i1 = i1
  i2 = i2
  f1 = f1
  c1 = c1
  c2 = c2
  Ingests = {i1, i2}
  Files = {f1}
  Contents = {c1, c2}
  Requests <- MixedRequests
  Engines = {"sqlite", "postgres"}
  MaxFaults = 1
  MaxEntries = 3
CHECK_DEADLOCK FALSE
SPECIFICATION FairSpec
INVARIANTS
  CommittedIsIntact
  CommittedIsLogged
  LoggedIsCommitted
  NoLeftovers
  ChainIsLinear
PROPERTIES
  RequestsEnd
  ImplementsRegister
