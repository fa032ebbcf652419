CONSTANTS
  None = None
  Tokens = {t1}
  Children = {h1}
  Callers = {c1}
  MaxActive = 1
  Exponential = TRUE
  MaxAttempts = 2
  ManualBound = 0
  TombstoneLimit = 1
  Clients = {p1}
  Guarded = TRUE
SPECIFICATION FairProtocolSpec
INVARIANTS DrainMeansDone
PROPERTIES AbandonedReturned
CHECK_DEADLOCK FALSE
