CONSTANTS
  c1 = c1
  e1 = e1
  e2 = e2
  e3 = e3
  x1 = x1
  x2 = x2
  x3 = x3
  g1 = g1
  g2 = g2
  None = None
  Contracts = {c1}
  Entries = {e1, e2}
  Exits = {}
  EntryOf <- NoEntryOf
  Engines = {g1}
  FaultKinds = {"dropped"}
  MaxFaults = 0
  MaxAge = 1
  InitFund <- MCInitFund
  ContractOf <- MCContractOf
  Fund <- MCFund
  RawPnl <- MCRawPnl
SPECIFICATION Spec
INVARIANTS
  ReleasedAtMostOnce
