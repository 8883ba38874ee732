SPECIFICATION Spec
CONSTANTS
  HDR = 2
  NODESIZE_MAX = 3
  PAGE = 8
  MEMSTART = 16
  MAXSIZE = 24
  REQUESTS = {1, 4, 6, 9}
INVARIANTS Tiling FreeSorted
PROPERTIES AlignedWhenAsked ImplementsAllocator
