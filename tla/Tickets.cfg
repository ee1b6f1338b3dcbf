CONSTANTS
  d1 = d1
  d2 = d2
  t1 = t1
  u1 = u1
  r1 = r1
  r2 = r2
  r3 = r3
  r4 = r4
  NoCall = NoCall
  Deposits = {d1, d2}
  Wallets = {u1}
  TxOf <- MCTxOf
  WalletOf <- MCWalletOf
  KcAmount <- MCKcAmount
  Calls = {r1, r2, r3, r4}
  HashOf <- MCHashOf
  QueueCap = 2
  Permits = 1
SPECIFICATION TicketsFairSpec
INVARIANTS
  OneTicketPerText
PROPERTIES
  EveryCallAnswered
CHECK_DEADLOCK FALSE
