CONSTANTS
  r1 = r1
  r2 = r2
  wa = wa
  wb = wb
  x1 = x1
  None = None
  Requests = {r1, r2}
  Wallets = {wa, wb}
  Amounts = {1}
  Txs = {x1}
  TxFrom <- MCTxFrom
  TxAmount <- MCTxAmount
  TxAccepted = {x1}
  MaxChallenges = 1
  MaxNonces = 2
  MaxTokens = 1
  MaxFaults = 1
SPECIFICATION Spec
CHECK_DEADLOCK FALSE
INVARIANTS
  FundsAccounted
  OneContractPerNonce
PROPERTIES
  RequestsEnd
