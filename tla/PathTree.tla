------------------------------- MODULE PathTree -------------------------------
(***************************************************************************)
(* What the in-memory directory tree promises a user of cd, -D, -R and     *)
(* pwd: a set of directories, each known by its path from the root, and    *)
(* the path of the current one.  No nodes, no pointers.                    *)
(***************************************************************************)
EXTENDS SequencesExt

CONSTANTS DirNames,     \* what a directory can be called
          DirPaths,     \* arguments of cd: [absolute |-> a, comps |-> c]
          MaxSiblings, MaxDirs

VARIABLES dirs,   \* the paths that exist
          here,   \* the current directory
          result  \* what the last operation returned

tvars == <<dirs, here, result>>

TreeInit == dirs = {<<>>} /\ here = <<>> /\ result = 0

Subdirs(p) == {q \in dirs : Len(q) = Len(p) + 1 /\ IsPrefix(p, q)}

\* The path after one more component: "." stays, ".." goes up, the root is its own parent.
Follow(p, comp) ==
  CASE comp = "."  -> p
    [] comp = ".." -> IF p = <<>> THEN p ELSE Front(p)
    [] OTHER       -> Append(p, comp)

\* Every directory passed on the way must exist.
Walk(start, comps) ==
  LET way[k \in 0 .. Len(comps)] == IF k = 0 THEN start ELSE Follow(way[k - 1], comps[k])
  IN way

Cd(path) ==
  LET way == Walk(IF path.absolute THEN <<>> ELSE here, path.comps) IN
  /\ IF \A k \in DOMAIN way : way[k] \in dirs
     THEN here' = way[Len(path.comps)] /\ result' = 0
     ELSE result' = -1 /\ UNCHANGED here
  /\ UNCHANGED dirs

Mkdir(n) ==
  LET new == Append(here, n) IN
  /\ IF new \notin dirs /\ Cardinality(Subdirs(here)) < MaxSiblings /\ Cardinality(dirs) < MaxDirs
     THEN dirs' = dirs \union {new} /\ result' = 0
     ELSE result' = -1 /\ UNCHANGED dirs
  /\ UNCHANGED here

Rmdir(n) ==
  LET old == Append(here, n) IN
  /\ IF old \in dirs /\ Subdirs(old) = {}
     THEN dirs' = dirs \ {old} /\ result' = 0
     ELSE result' = -1 /\ UNCHANGED dirs
  /\ UNCHANGED here

TreeNext ==
  \/ \E path \in DirPaths : Cd(path)
  \/ \E n \in DirNames : Mkdir(n) \/ Rmdir(n)

TreeSpec == TreeInit /\ [][TreeNext]_tvars
=============================================================================
