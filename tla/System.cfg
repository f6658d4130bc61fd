SPECIFICATION ShimSpec
CONSTANTS
  Gpu = {g1, g2}
  UnknownGpu = g0
  VramTotal = 15
  UsizeModulus = 16
  Kinds <- MCKinds
  MaxAllocs = 2
  CapSets <- MCCapSets
  OpSeqs <- MCNoStreams
  AdminCalls = {}
  MaxDevices = 2
  MaxShaders = 0
  MaxPipelines = 0
  MaxTimelines = 0
  MaxValue = 0
  Connector = {c1, c2}
  MaxFramebuffers = 2
INVARIANTS ShimTypeOK ResourcesBacked ResourcesHaveTheirBytes
  ScreensShowLastPresent CursorsNeverShowBuffers ExportsNeverRebind
SYMMETRY Alike
