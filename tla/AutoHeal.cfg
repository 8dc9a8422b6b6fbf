SPECIFICATION HealSpec
CONSTANTS
  Service = {feeder, trader}
  Feeder = feeder
  MaxRestartAttempts = 2
  QuarantineTicks = 1
INVARIANT HealTypeOK
PROPERTIES
  FailedServiceHandled
  GivenUpForGood
  BreakerBlocksOrders
