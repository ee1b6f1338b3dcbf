CONSTANTS
  MaxPrice = 3
  MaxTicks = 4
  Length = 4
  Unit = 6
  Models <- MCModels
  Atrs = {0, 1}
  SlMult = 2
  TpMult = 1
  MaxSl = 1
  Maker = 1
  Taker = 3
  Slip = 2
  Fees <- MCFees
SPECIFICATION Spec
CHECK_DEADLOCK FALSE
INVARIANTS
  NeverOptimistic
  MarketMatchesSim
  AccountsExplained
  StopsLose
  BookedMatchesBalance
