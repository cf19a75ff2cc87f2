SPECIFICATION SharedSpec
CONSTANTS
  n1 = n1
  n2 = n2
  n3 = n3
  n4 = n4
  t1 = t1
  t2 = t2
  NULL = NULL
  Nodes <- MCNodes
  Threads <- MCTwoThreads
  Names <- MCNames
  Stored <- MCKeep
  Size <- MCSize
  First <- MCFirst
  Paths <- MCPaths
  MAX_CHILDREN = 3
  BUFFER = 8
SYMMETRY MCSymmetry
PROPERTIES
  OnlyEmptyRemoved
CHECK_DEADLOCK FALSE
