CONSTANTS
  None = None
  Linear = Linear
  U32 = 32
  U64 = 1024
  Scenarios <- SomeScenarios
  Requests <- SomeRequests
SPECIFICATION Spec
INVARIANTS ReadsExact IssuedUsable
CHECK_DEADLOCK FALSE
