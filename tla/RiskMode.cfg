SPECIFICATION RiskSpec
CONSTANTS
  p1 = p1
  p2 = p2
  Process = {p1, p2}
  Settings <- OneOfEach
  Equity = {97}
  LossTrigger = 2
  Drawdown = 2
  HardCutoff = 3
  Recovery = 0
  MaxEvents = 3
  MaxMissed = 1
SYMMETRY ProcessSymmetry
INVARIANTS
  RiskTypeOK
  StreakExact
  SomeProfileFollows
PROPERTIES
  SafeLeavesForAReason
  HandledLossesMeanSafe
CHECK_DEADLOCK FALSE
