SPECIFICATION FairSpec
CONSTANT MaxRetries = 5
INVARIANTS
  FeederTypeOK
  OneHealthTask
  GivesUpOnlyAfterOutage
  StoppedWindsDown
PROPERTIES
  StopEnds
  ReconnectsOrGivesUp
