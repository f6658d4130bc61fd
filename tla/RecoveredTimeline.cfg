SPECIFICATION Spec
CONSTANTS
  Gpu = {g1, g2}
  UnknownGpu = g0
  VramTotal = 1
  UsizeModulus = 2
  Kinds <- MCKinds
  MaxAllocs = 0
  CapSets <- MCCapSets
  OpSeqs <- MCNoOps
  AdminCalls = {}
  MaxDevices = 2
  MaxShaders = 0
  MaxPipelines = 0
  MaxTimelines = 1
  MaxValue = 1
PROPERTY RecoveredTimelinesStop
