SPECIFICATION TraderSpec
CONSTANTS
  Sym = {s1}
  Cash = USDT
  AresThreshold = 0
  TraderThreshold = 0
  Old = 1
  Size = 20
  Deposit <- MCDeposit
  Payouts <- MCPayouts
  Price = {20, 21, 22}
  BalanceCheck = 0
  MaxOrders = 2
INVARIANTS
  TraderTypeOK
  LoggedOrdersExecuted
PROPERTIES
  QuarantineHolds
  
