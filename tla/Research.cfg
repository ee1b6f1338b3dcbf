CONSTANTS
  base = base
  wide = wide
  btc = btc
  eth = eth
  None = None
  Torn = Torn
  Symbols = {btc, eth}
  Candidates = {base, wide}
  Baseline = base
  Rank <- MCRank
  N = 20
  Window = 2
  InitFund = 22
  Notional = 11
  PerUnit = 24
  BaseRate = 1
  StressRate = 2
  Ladder <- MCLadder
  Viable = 4
  Maker = 1
  Taker = 2
  Thresholds <- MCThresholds
  Data <- MCData
  Lock <- MCLock
  LockEdits <- MCLockEdits
  Sources = {"h0", "h1"}
  MaxRuns = 2
  MaxFaults = 1
  MaxEdits = 2
SPECIFICATION Spec
CHECK_DEADLOCK FALSE
INVARIANTS
  ScreeningBlind
  RecommendsOnWhole
  VerdictMatchesLadder
  DecidesByThePinned
