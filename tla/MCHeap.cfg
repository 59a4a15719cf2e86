\* A page of seven units is split two or three ways. Three pages may be mapped
\* and three frames are left, so growth is refused for both reasons and fails
\* half way; Word wraps for products of kcalloc, and 60 bytes fit no heap.
CONSTANTS
  UnitBytes = 2
  CanaryBytes = 1
  HeaderUnits = 2
  PageUnits = 7
  MaxPages = 3
  Word = 16
  PoolFrames = 3
  Sizes = {0, 1, 5, 60}
  Counts = {0, 2, 5}
SPECIFICATION Spec
INVARIANTS
  HeapInv
  BytesAddUp
  FreeSpaceIsFound
