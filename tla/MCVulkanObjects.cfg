CONSTANTS
  None = None
  Devices <- SomeDevices
  Sources = {s1, s2}
  Slots = {o1, o2}
  Images = {m1, m2}
  Keys = {k1, k2}
  MaxEntries = 1
  MaxSlots = 2
SPECIFICATION Spec
SYMMETRY Symmetry
INVARIANTS ChildrenFirst ExactTeardown FrameResourcesLive
CHECK_DEADLOCK FALSE
