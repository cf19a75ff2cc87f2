SPECIFICATION Spec
CONSTANTS
  n1 = n1
  n2 = n2
  n3 = n3
  n4 = n4
  n5 = n5
  NULL = NULL
  Nodes <- MCNodes
  Names <- MCNames
  Stored <- MCStored
  Size <- MCSize
  First <- MCFirst
  Paths <- MCPaths
  MAX_CHILDREN = 3
  BUFFER = 8
SYMMETRY MCSymmetry
INVARIANTS
  TypeOK
  LinksAgree
  PwdRoundTrip
PROPERTIES
  ImplementsPathTree
CHECK_DEADLOCK FALSE
