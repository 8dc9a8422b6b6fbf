SPECIFICATION Spec
CONSTANTS
  Process = {p1, p2}
  Type = {full, partial}
  Symbol = {s1, s2}
  TicksPerSecond = 2
  MaxTime = 3
  MaxCalls = 3
INVARIANTS
  StoreTypeOK
  DeltasNameSnapshots
  LatestWithinASecond
PROPERTY QuarantineLeftByReleaseOrOverlap
CHECK_DEADLOCK FALSE
