SPECIFICATION Spec
CONSTANTS
  c1 = c1
  c2 = c2
  c3 = c3
  w1 = w1
  w2 = w2
  j1 = j1
  j2 = j2
  j3 = j3
  Clients <- MCClients
  Workers <- MCWorkers
  Jobs <- MCJobs
  MAX_JOBS = 3
  NULL = NULL
SYMMETRY MCSymmetry
INVARIANTS
  TypeOK
  NoUseAfterFree
  NoDoubleDispatch
  QueuedJobHasWorker
  DoneClientAwake
  ReturnMeansDone
PROPERTIES
  ImplementsServiceSafety
  OverflowStrandsCaller
