---------------------------- MODULE MCTaskManager ----------------------------
EXTENDS TaskManager, TLC
CONSTANTS main, worker, h1, h2

MCOneShell  == {main}
MCTwoShells == {main, worker}
MCTwoHandles == {h1, h2}

\* Thread handles are interchangeable.
MCHandleSymmetry == Permutations(MCTwoHandles)
=============================================================================
