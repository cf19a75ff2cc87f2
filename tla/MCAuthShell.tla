------------------------------ MODULE MCAuthShell ------------------------------
EXTENDS AuthShell

CONSTANTS p1, p2, f1, f2

MCProcs == {p1, p2}
MCFiles == {f1, f2}

\* Processes are interchangeable, and so are the files that have been users.db.
MCSymmetry == Permutations(MCProcs) \union Permutations(MCFiles)
=============================================================================
