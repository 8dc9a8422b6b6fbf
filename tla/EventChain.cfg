SPECIFICATION EventsSpec
CONSTANTS
  Writer = {w1, w2}
  MaxEvents = 4
INVARIANTS
  UntornLogReadable
  DamageBounded
CHECK_DEADLOCK FALSE
