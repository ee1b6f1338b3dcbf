CONSTANTS
  p1 = p1
  p2 = p2
  Loaders = {p1, p2}
  TF = 2
  Settle = 1
  PageSize = 2
  Window = 0
  Requests <- MCRequests
  Histories <- MCHistories
  FirstClock = 11
  MaxClock = 12
  MaxCrashes = 1
  MaxErrors = 1
  None = None
  Torn = Torn
SPECIFICATION Spec
INVARIANTS
  ServedComplete
  FailsForCause
  CsvWhole
PROPERTIES
  LoadsEnd
