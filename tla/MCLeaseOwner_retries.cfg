CONSTANTS
  None = None
  Tokens = {t1, t2}
  Children = {}
  Callers = {c1}
  MaxActive = 2
  Exponential = TRUE
  MaxAttempts = 2
  ManualBound = 2
  TombstoneLimit = 1
SPECIFICATION FairSpec
INVARIANTS SingleFlight WorkTracked DrainSettled
PROPERTIES ReleasesEnd DrainsEnd FailuresRetried
CHECK_DEADLOCK FALSE
