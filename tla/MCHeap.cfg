SPECIFICATION Spec
CONSTANTS
  Start = 3
  HeapTop = 19
  Requests = {16, 20, 48}
INVARIANTS
  OneList
  HeldInBlocks
  FreedHeapIsWhole
PROPERTIES
  ImplementsAllocator
