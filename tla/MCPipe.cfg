SPECIFICATION Spec
CONSTANTS
  SHORT = 4
  LONG = 8
  Readers = {r1}
  ReadSizes = {1, 2, 3}
  WriteSizes = {1, 2, 3}
  Cap = 4
  Uses = {{"block", "nbwrite"}, {"nonblock", "nbwrite"}}
INVARIANTS CursizeRight 
PROPERTIES LineDelivered
CHECK_DEADLOCK FALSE
