SPECIFICATION FairSpec
CONSTANTS
  Pids = {1, 2, 3, 4, 5}
  MaxLocks = 9
  MaxHits = 0
  Events = {"nofile"}
INVARIANTS ListsSound CursorOnList LockAccounting ExitNeverReturns
 
CHECK_DEADLOCK FALSE
