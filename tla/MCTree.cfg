SPECIFICATION Spec
CONSTANTS
  t1 = t1
  t2 = t2
  Tasks <- MCTasks
  Rest <- MCRest
  Home <- MCHome
  Dirs <- MCDirs
  Paths <- MCPaths
  Counts = {1, 3}
  Strays = {FALSE, TRUE}
  MaxCalls = 3
INVARIANTS LinksKept FindsFiles DirectoriesWhole Listed
SYMMETRY Symmetry
CHECK_DEADLOCK FALSE
