SPECIFICATION Spec
CONSTANTS
  s1 = s1
  c1 = c1
  c2 = c2
  Servers <- MCServers
  Clients <- MCClients
  Tasks <- MCTasks
  Path <- MCPath
  Rest <- MCRest
  CAPACITY = 2
  Budgets <- MCBudgets
INVARIANTS Paired AcceptGets WaitersQueued BoundToPath
CHECK_DEADLOCK FALSE
