SPECIFICATION DiskFairSpec
CONSTANTS
  Procs = {p1, p2}
  Drives = {d1}
  d1 = d1
  NSectors = 2
  SECTOR = 3
  LBA_LOW = 4
  SECCOUNT = 4
  RETRIES = 3
  Faults = {"abrt", "err"}
  MaxFaults = 2
  NoDrive = none
  UINT = 65536
  Requests <- MCRequests
  MaxRequests = 1
INVARIANTS MutualExclusion ReadFresh WriteLands BytesInPlace
PROPERTIES RequestsReturn
CHECK_DEADLOCK FALSE
