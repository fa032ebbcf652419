CONSTANTS
  None = None
  Frames = {f1, f2, f3, f4}
  Staged = {f1, f2}
  Timed = TRUE
SPECIFICATION FairSpec
INVARIANTS RetireSafe LaneIdle LayoutKnown
PROPERTIES ReleaseObserved
CHECK_DEADLOCK FALSE
