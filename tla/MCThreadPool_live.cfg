SPECIFICATION FairSpec
CONSTANTS
  c1 = c1
  c2 = c2
  c3 = c3
  w1 = w1
  w2 = w2
  j1 = j1
  j2 = j2
  j3 = j3
  Clients <- MCTwoClients
  Workers <- MCWorkers
  Jobs <- MCTwoJobs
  MAX_JOBS = 2
  NULL = NULL
PROPERTIES
  ImplementsService
  QueuedJobReturns
