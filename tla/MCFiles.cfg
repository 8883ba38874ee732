SPECIFICATION Spec
CONSTANTS
  Tasks = {t1, t2}
  first = t1
  Nodes = {n1, n2}
  NULL = NULL
  FLAGS = {0, 1}
  WORDS = {0, 1}
  BEGIN = 2
  STD = 1
  Targets = {0, 1, 3}
  MaxSize = 4
  MaxUse = 5
PROPERTIES ImplementsFdTable
