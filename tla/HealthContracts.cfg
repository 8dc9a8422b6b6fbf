SPECIFICATION Spec
CONSTANTS
  Plain = {"feeder"}
  FeederThreshold = 0
  AresThreshold = 1
  Old = 2
  MaxCalls = 5
INVARIANTS
  OkGoesBackToFeeder
PROPERTY SerialUpdatesKeepRecords
