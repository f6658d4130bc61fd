SPECIFICATION Spec
CONSTANTS
  Device = {d1, d2}
  PipelineId = {p1, p2}
  ResourceId = {r1, r2}
  MaxOps = 3
INVARIANTS ValidationIsExact TranslationKeepsOrder
CHECK_DEADLOCK FALSE
