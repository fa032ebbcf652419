CONSTANTS
  None = None
  Tokens = {t1, t2}
  Children = {h1, h2}
  Callers = {c1}
  MaxActive = 1
  Exponential = FALSE
  MaxAttempts = 1
  ManualBound = 1
  TombstoneLimit = 2
SPECIFICATION Spec
SYMMETRY Symmetry
INVARIANTS CapacityBound TypeOK HolderAccounting NoUseAfterRelease HandshakesMonitored TombstonesSound
PROPERTY ImplementsContract
CHECK_DEADLOCK FALSE
