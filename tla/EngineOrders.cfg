CONSTANTS
  c1 = c1
  e1 = e1
  e2 = e2
  e3 = e3
  x1 = x1
  x2 = x2
  x3 = x3
  g1 = g1
  g2 = g2
  None = None
  Contracts = {c1}
  Entries = {e1, e2}
  Exits = {x1}
  EntryOf <- MCEntryOf
  Engines = {g1}
  FaultKinds = {"crash", "db", "dropped", "transport", "lookup", "poll"}
  MaxFaults = 1
  MaxAge = 2
  InitFund <- MCInitFund
  ContractOf <- MCContractOf
  Fund <- MCFund
  RawPnl <- MCRawLoss
SPECIFICATION FairSpec
INVARIANTS
  FundsMatchRows
  RowsMatchExchange
  FailedEntryReleased
PROPERTIES
  PendingResolved
  FillsSettled
