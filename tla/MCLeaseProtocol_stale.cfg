CONSTANTS
  None = None
  Tokens = {t1}
  Children = {h1}
  Callers = {}
  MaxActive = 1
  Exponential = FALSE
  MaxAttempts = 1
  ManualBound = 0
  TombstoneLimit = 1
  Clients = {p1}
  Guarded = TRUE
SPECIFICATION ProtocolSpec
INVARIANTS NoStaleReply
CHECK_DEADLOCK FALSE
