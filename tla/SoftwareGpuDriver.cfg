SPECIFICATION Spec
CONSTANTS
  Gpu = {g1, g2}
  VramTotal = 3
  Sizes = {0, 1, 2, 3}
  MaxAllocs = 3
INVARIANTS TypeOK MappingInsidePool
PROPERTY ImplementsContract
