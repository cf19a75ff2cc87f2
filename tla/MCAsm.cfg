SPECIFICATION Spec
CONSTANTS
  worker = worker
  filler = filler
  Threads <- MCThreads
  Duty <- MCDuty
  Bytes = {0, 1}
  Sizes = {1, 2}
  ALIGN = 2
  END = 1
  TOP = 7
INVARIANTS HeapBlocksDisjoint CallsAtOnce
CHECK_DEADLOCK FALSE
