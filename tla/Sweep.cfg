CONSTANTS
  d1 = d1
  d2 = d2
  e2 = e2
  t1 = t1
  t2 = t2
  u1 = u1
  w1 = w1
  w2 = w2
  None = None
  Deposits = {d1, d2, e2}
  Wallets = {u1}
  Workers = {w1, w2}
  FaultKinds = {"db", "transfer", "crash", "lookup"}
  MaxFaults = 2
  TxOf <- MCTxOf
  WalletOf <- MCWalletOf
  KcAmount <- MCKcAmount
  TxAmount <- MCTxAmount
SPECIFICATION FairSpec
INVARIANTS
  BalanceMatchesDeposits
  StrandedHasFault
PROPERTIES
  PromiseSpec
  EventuallyCredited
  EventuallyMoved
