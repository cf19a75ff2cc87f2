----------------------------- MODULE MCThreadPool -----------------------------
EXTENDS ThreadPoolService, TLC

CONSTANTS c1, c2, c3, w1, w2, j1, j2, j3

MCClients == {c1, c2, c3}
MCTwoClients == {c1, c2}
MCWorkers == {w1, w2}
MCJobs    == {j1, j2, j3}
MCTwoJobs == {j1, j2}

\* Clients, workers and job addresses are interchangeable, for the service too.
MCSymmetry == Permutations(MCClients) \union Permutations(MCWorkers) \union Permutations(MCJobs)
=============================================================================
