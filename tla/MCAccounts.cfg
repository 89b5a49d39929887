CONSTANTS
  r1 = r1
  r2 = r2
  r3 = r3
  ann = ann
  bob = bob
  v1 = v1
  v2 = v2
  Reqs = {r1, r2, r3}
  Names = {ann, bob}
  Values = {v1, v2}
  Requests <- SomeRequests
  Tables <- SomeTables
  MaxFaults = 1
CHECK_DEADLOCK FALSE
SYMMETRY Symmetry
SPECIFICATION Spec
INVARIANTS
  OneFounder
  AuditTells
PROPERTIES
  LockoutIsPermanent
  NothingBeforeAck
