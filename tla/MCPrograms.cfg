SPECIFICATION Spec
CONSTANTS
  Tasks = {1, 2}
  Main = 1
  NFRAMES = 16
  WORD = 4
  KERNEL = 1
  PAGE = 2
  SHEAP = 2
  PROGRAMS = 7
  LAST = 10
  STACK = 1
  Images <- MCImages
  Addresses = {8, 15, 20}
  Increments <- MCIncrements
  MaxKernel = 1
  MaxOps = 3
  MaxExecs = 2
  MaxBreak = 21
INVARIANTS SharedOnlyByRace ExecLoads NotKilled
PROPERTIES SeparateSpaces ForkCopies
CHECK_DEADLOCK FALSE
