SPECIFICATION Spec
CONSTANTS
  Gpu = {g1}
  UnknownGpu = g0
  VramTotal = 1
  UsizeModulus = 2
  Kinds <- MCKinds
  MaxAllocs = 1
  CapSets <- MCCapSets
  OpSeqs <- MCNoOps
  AdminCalls = {}
  MaxDevices = 1
  MaxShaders = 0
  MaxPipelines = 0
  MaxTimelines = 0
  MaxValue = 0
INVARIANT AllocationsAreOwned
