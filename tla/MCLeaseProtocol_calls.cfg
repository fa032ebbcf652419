CONSTANTS
  None = None
  Tokens = {t1}
  Children = {h1}
  Callers = {}
  MaxActive = 1
  Exponential = FALSE
  MaxAttempts = 1
  ManualBound = 0
  TombstoneLimit = 1
  Clients = {p1, p2}
  Guarded = FALSE
SPECIFICATION FairProtocolSpec
PROPERTIES CallsReturn TransferredReturned
CHECK_DEADLOCK FALSE
