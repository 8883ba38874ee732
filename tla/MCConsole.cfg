SPECIFICATION Spec
CONSTANTS
  Tasks = {t1, t2}
  Readers = {t1}
  Irq = irq
  COLS = 3
  ROWS = 2
  Keys <- MCKeys
  Texts <- MCTexts
  ReadSizes = {2}
  MaxEvents = 5
INVARIANTS  TextKept 
CHECK_DEADLOCK FALSE
