SPECIFICATION Spec
CONSTANTS
  p1 = p1
  p2 = p2
  f1 = f1
  f2 = f2
  Procs = {p1, p2}
  Files <- MCFiles
  Images <- MCImages
  BLOCK = 3
  POINTERS = 5
  DIRECT = 1
  INODE = 1
  GROUP = 5
  Tables <- MCTables
  Strays <- MCStrays
  Disks <- MCDisks
  Heap <- MCHeap
  Inode <- MCInode
  SECTOR = 3
  MaxSpoilt = 1
  Seeks = {6, 15}
  Amounts = {1, 4}
  Aligned = TRUE
  UINT = 256
  MaxCalls = 2
INVARIANTS AllFound ReadFresh WriteLands InPlace SizeAgrees
SYMMETRY Symmetry
CHECK_DEADLOCK FALSE
