CONSTANTS
  None = None
  Tokens = {t1}
  Children = {h1}
  Callers = {}
  MaxActive = 1
  Exponential = FALSE
  MaxAttempts = 1
  ManualBound = 0
  TombstoneLimit = 1
  Clients = {p1, p2}
  Guarded = TRUE
SPECIFICATION ProtocolSpec
SYMMETRY Symmetry
INVARIANTS LeasesBacked OwnershipSettled HoldersAccountedFor
CHECK_DEADLOCK FALSE
