CONSTANTS
  None = None
  Imports = {i1, i2, i3}
  Streams = {s1}
  Buffers = {b1, b2, b3}
  Topologies <- SomeTopologies
  MaxEntries = 2
  MaxSlots = 1
SPECIFICATION Spec
SYMMETRY Symmetry
INVARIANTS ClaimExact CacheSound SlotsExclusive
PROPERTY EvictionHonest
