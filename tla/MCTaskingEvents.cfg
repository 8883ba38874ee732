SPECIFICATION Spec
CONSTANTS
  Pids = {1, 2, 3, 4}
  MaxLocks = 4
  MaxHits = 3
  Events = {"kill", "segv", "ctrlc"}
INVARIANTS ExitAtomic
CHECK_DEADLOCK FALSE
