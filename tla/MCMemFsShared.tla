----------------------------- MODULE MCMemFsShared -----------------------------
EXTENDS MemFsShared
CONSTANTS n1, n2, n3, n4, t1, t2

MCNodes == {n1, n2, n3, n4}
MCTwoThreads == {t1, t2}
MCNames == {"a", "b"}
MCKeep(n) == n
MCSize(c) == Len(c)
MCFirst(c, k) == SubSeq(c, 1, k)
MCPaths == [absolute : {FALSE}, comps : {<<"a">>, <<"b">>, <<"..">>}]

\* Addresses and threads are interchangeable.
MCSymmetry == Permutations(MCNodes) \union Permutations(Threads)
=============================================================================
