-------------------------------- MODULE MCMemFs --------------------------------
EXTENDS MemFs
CONSTANTS n1, n2, n3, n4, n5

MCNodes == {n1, n2, n3, n4, n5}

\* A name field keeps two bytes, so that "abc" and "abd" become "ab"; "a" is what a
\* buffer may leave of "ab", and "." of "..".
MCNames == {"a", "ab", "abc", "abd", ".."}
MCStored(n) == IF n \in {"abc", "abd"} THEN "ab" ELSE n
MCSize(c) == Len(c)
MCFirst(c, k) == SubSeq(c, 1, k)

Relative(names, len) == [absolute : {FALSE}, comps : UNION {[1 .. k -> names] : k \in 0 .. len}]
Absolute(names, len) == [absolute : {TRUE}, comps : UNION {[1 .. k -> names] : k \in 0 .. len}]

MCPaths ==
  Relative(MCNames \union {"."}, 1) \union Relative({"a", "ab", ".."}, 2)
    \union Absolute({"a", "ab"}, 3) \union Absolute({"a"}, 4)

\* Addresses are interchangeable.
MCSymmetry == Permutations(Nodes)
=============================================================================
