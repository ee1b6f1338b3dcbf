CONSTANTS
  btc = btc
  bull = bull
  bear = bear
  None = None
  Symbols = {btc}
  Fallback = {}
  Kinds <- MCKinds
  Shows <- MCShows
  Listings <- MCListings
  TF = 2
  Settle = 1
  Latency = 2
  WindowLen = 3
  MaxAge = 2
  WarmExtra = 2
  PollExtra = 2
  QueueCap = 1
  Backoff = 1
  Calls = {1, 2}
  FirstClock = 13
  MaxClock = 18
  MaxFaults = 0
  MaxChanges = 0
SPECIFICATION Spec
INVARIANTS
  WindowIsClosed
