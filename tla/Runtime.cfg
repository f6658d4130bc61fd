SPECIFICATION Spec
CONSTANTS
  Gpu = {g1, g2}
  UnknownGpu = g0
  VramTotal = 1
  UsizeModulus = 2
  Kinds <- MCKinds
  MaxAllocs = 1
  CapSets <- MCCapSets
  OpSeqs <- MCOpSeqs
  AdminCalls = {"inject_fault", "clear_fault", "free_vram"}
  MaxDevices = 2
  MaxShaders = 1
  MaxPipelines = 1
  MaxTimelines = 1
  MaxValue = 2
INVARIANTS TypeOK ObjectsHaveDevices
PROPERTIES RecoveryIsolates TimelinesMoveByExecution ExecutionsAreSignalled
  FaultsHaveCause HandlesGoWithMemory
SYMMETRY Gpus
