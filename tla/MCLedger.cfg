CONSTANTS
  c1 = c1
  c2 = c2
  e1 = e1
  e2 = e2
  e3 = e3
  x1 = x1
  x2 = x2
  Contracts <- MCContracts
  Entries <- MCEntries
  Exits <- MCExits
  InitFund <- MCInitFund
  ContractOf <- MCContractOf
  EntryOf <- MCEntryOf
  Fund <- MCFund
  RawPnl <- MCRawPnl
SPECIFICATION LedgerSpec
INVARIANTS
  NoOverdraft
  FundsConserved
  CreditedAtMostOnce
PROPERTY NeverRevived
