SPECIFICATION Spec
CONSTANTS
  HEAP_START = 32
  HEAP_SIZE = 96
  WORD = 1024
  Requests = {0, 8, 20}
  Counts = {2}
INVARIANTS TypeOK HeapTiled OwnersHold NoFragments Accounted CopyInBounds
PROPERTIES FirstFit CallsReturn ImplementsAllocator
