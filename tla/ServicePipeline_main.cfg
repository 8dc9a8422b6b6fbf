SPECIFICATION PipelineSpec
CONSTANTS
  Sym = {s1}
  Cash = USDT
  AresThreshold = 0
  TraderThreshold = 1
  Old = 2
  OnWindows = TRUE
  Size = 1
  Deposit <- MCDeposit
  Payouts <- MCPayouts
  Price = {1}
  BalanceCheck = 1
  MaxOrders = 0
INVARIANTS
  AresTypeOK
  GreenMeansRecentSignals
  LoadedSignalsRecent
