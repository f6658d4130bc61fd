SPECIFICATION FallbackFairSpec
CONSTANTS
  Gpu = {g1, g2}
  SoftwareGpu = s1
  VramTotal = 2
  Sizes = {1, 2}
  MaxAllocs = 3
INVARIANTS FallbackTypeOK InstancesFollowDriver
  NothingRunsUnattended LostContextIsRecorded LiveAllocationsDisjoint
PROPERTIES FallbackImplementsContract ImplementsVulkanDriver ImplementsContract
  DeadThreadServesNothing BlockedCallsReturn OpenReturns
CHECK_DEADLOCK FALSE
