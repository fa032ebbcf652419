CONSTANTS
  None = None
  Offers <- SomeOffers
  Timeouts = {0, 15, 16, 18, 62, 63, 64, 200}
  U32 = 8
  I32Max = 7
  Forever = 63
  NanosPerMilli = 2
SPECIFICATION Spec
INVARIANTS ResourcesAccounted ReadyMeansSignaled
PROPERTIES WaitsEnd
CHECK_DEADLOCK FALSE
