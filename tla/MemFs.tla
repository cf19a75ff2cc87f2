--------------------------------- MODULE MemFs ---------------------------------
(***************************************************************************)
(* The in-memory directory tree of flinstone_profiles_tasks_v9/fs.cpp as   *)
(* one shell drives it: nodes linked by parent pointers and by arrays of   *)
(* children, a root and a current directory.                               *)
(*                                                                         *)
(* The program makes directories only, so node types are left out.  A path *)
(* is the sequence of its components; of their bytes only the number is    *)
(* kept, and what is left of a component that a buffer cuts.               *)
(***************************************************************************)
EXTENDS SequencesExt

CONSTANTS Nodes,         \* addresses malloc can return
          Names,         \* arguments of fs_mkdir and fs_rmdir
          Stored(_),     \* what is left of a name in the name field of a node
          Paths,         \* arguments of change_directory, split at "/"
          MAX_CHILDREN,  \* entries of a children array, and of a split path
          BUFFER,        \* bytes of a path that the buffers of cd and pwd hold
          Size(_),       \* bytes of a component
          First(_, _),   \* what a component looks like that is cut to some bytes
          NULL

Components == Names \union {"/", ".", ".."}

ASSUME FsAssumption ==
  /\ NULL \notin Nodes /\ Nodes # {} /\ IsFiniteSet(Nodes)
  /\ MAX_CHILDREN \in Nat \ {0}
  /\ \A n \in Names : Stored(n) \in Names /\ Stored(Stored(n)) = Stored(n)
  /\ \A path \in Paths : path.absolute \in BOOLEAN /\ path.comps \in Seq(Names \union {".", ".."})
  /\ BUFFER \in Nat
  /\ \A c \in Components :
       /\ Size(c) \in Nat
       /\ \A k \in 1 .. Size(c) - 1 : First(c, k) # c /\ Size(First(c, k)) = k

VARIABLES node,       \* the nodes that are allocated
          root, cwd,
          result      \* what the last operation returned

vars == <<node, root, cwd, result>>

live == DOMAIN node

\* No pointer dangles.
Node == [name : Names \union {"/"}, parent : live \union {NULL}, children : Seq(live)]

TypeOK ==
  /\ live \subseteq Nodes /\ \A n \in live : node[n] \in Node
  /\ root \in live \union {NULL} /\ cwd \in live \union {NULL}
  /\ result \in {0, -1}

\* f with value y at x, whether or not x is in its domain.
With(f, x, y) == [z \in DOMAIN f \union {x} |-> IF z = x THEN y ELSE f[z]]

\* node_create, with the parent the caller then gives it.
NewNode(name, parent) == [name |-> name, parent |-> parent, children |-> <<>>]

\* fs_init, which main calls before the first command.
Init ==
  /\ root \in Nodes
  /\ node = [n \in {root} |-> NewNode("/", NULL)]
  /\ cwd = root
  /\ result = 0

-----------------------------------------------------------------------------
(* Looking names up.                                                       *)

\* Where the first child of d called n is, 0 if there is none.
Named(d, n) == SelectInSeq(node[d].children, LAMBDA c : node[c].name = n)

\* Faulty: nothing is above the root.
ParentOrNothing(d) == node[d].parent

\* "..": the root is its own parent.
Parent(d) == IF node[d].parent # NULL THEN node[d].parent ELSE d

\* One component of find_node's walk; once NULL, always NULL.
Step(cur, comp) ==
  IF cur = NULL \/ comp = "." THEN cur
  ELSE IF comp = ".." THEN Parent(cur)
  ELSE IF Named(cur, comp) # 0 THEN node[cur].children[Named(cur, comp)]
  ELSE NULL

FindNode(start, comps) ==
  LET way[k \in 0 .. Len(comps)] == IF k = 0 THEN start ELSE Step(way[k - 1], comps[k])
  IN way[Len(comps)]

-----------------------------------------------------------------------------
(* Paths in buffers of a fixed size.                                       *)

\* How many bytes of "/c1/c2/..." there are up to the end of each component.
Ends(comps) ==
  LET end[k \in 0 .. Len(comps)] == IF k = 0 THEN 0 ELSE end[k - 1] + 1 + Size(comps[k])
  IN end

\* How many components are not cut when only so many bytes are copied.
Whole(comps, bytes) == Max({k \in 0 .. Len(comps) : Ends(comps)[k] <= bytes})

\* The components of what is copied: the last one may be cut.
Copied(comps, bytes) ==
  LET k == Whole(comps, bytes)
      left == bytes - Ends(comps)[k] - 1
  IN IF k < Len(comps) /\ left > 0
     THEN Append(SubSeq(comps, 1, k), First(comps[k + 1], left))
     ELSE SubSeq(comps, 1, k)

\* split_path keeps as many components as a directory may have children.
Kept(comps) == IF Len(comps) <= MAX_CHILDREN THEN Len(comps) ELSE MAX_CHILDREN

\* The path that cd follows: the first bytes of the one typed, and of that the first
\* components.  A relative path has no first slash.
Cut(path) ==
  LET copy == Copied(path.comps, IF path.absolute THEN BUFFER ELSE BUFFER + 1)
  IN [absolute |-> path.absolute, comps |-> SubSeq(copy, 1, Kept(copy))]

\* What is left of a path could have been typed as well.
ASSUME PathsAssumption == \A path \in Paths : Cut(path) \in Paths

\* The names on the way from the root down to d.
PathOf(d) ==
  LET path[n \in live] ==
        IF n = root THEN <<>> ELSE Append(path[node[n].parent], node[n].name)
  IN path[d]

\* What print_working_directory prints of them.  It goes up from d, puts each name in
\* front of what it has, and keeps the first bytes of that: the end gets lost.
Printed(d) == [absolute |-> TRUE, comps |-> Copied(PathOf(d), BUFFER)]

-----------------------------------------------------------------------------
(* The operations.                                                         *)

Start(path) == IF path.absolute THEN root ELSE cwd

Target(path) == FindNode(Start(path), Cut(path).comps)

ChangeDirectory(path) ==
  /\ root # NULL
  /\ IF Target(path) # NULL
     THEN cwd' = Target(path) /\ result' = 0
     ELSE result' = -1 /\ UNCHANGED cwd
  /\ UNCHANGED <<node, root>>

\* Faulty: the new directory is hung below the root.
ParentIsRoot == root

\* dir->parent = cwd
NewParent == cwd

Duplicate(n) == Named(cwd, n) # 0

Mkdir(n) ==
  /\ root # NULL
  /\ \/ /\ Len(node[cwd].children) < MAX_CHILDREN /\ ~ Duplicate(n)
        /\ \E new \in Nodes \ live :
             node' = With([node EXCEPT ![cwd].children = Append(@, new)],
                          new, NewNode(Stored(n), NewParent))
        /\ result' = 0
     \/ /\ \/ Len(node[cwd].children) >= MAX_CHILDREN
           \/ Duplicate(n)
           \/ live = Nodes
        /\ result' = -1
        /\ UNCHANGED node
  /\ UNCHANGED <<root, cwd>>

\* Faulty: a directory is removed with what is in it.
RemovableAnyway(d) == TRUE

\* "only remove if empty"
Removable(d) == node[d].children = <<>>

Rmdir(n) ==
  LET i == Named(cwd, n) IN
  /\ root # NULL
  /\ IF i # 0 /\ Removable(node[cwd].children[i])
     THEN /\ node' = [d \in live \ {node[cwd].children[i]} |->
                        IF d = cwd THEN [node[d] EXCEPT !.children = RemoveAt(@, i)] ELSE node[d]]
          /\ result' = 0
     ELSE result' = -1 /\ UNCHANGED node
  /\ UNCHANGED <<root, cwd>>

\* The nodes node_free visits when it starts at the root: with a node it visits all its
\* children, and no others.
Visited ==
  {n \in live : \A S \in SUBSET live :
     root \in S /\ (\A m \in S : ToSet(node[m].children) \subseteq S) => n \in S}

\* fs_cleanup, when main is done.
Cleanup ==
  /\ root # NULL
  /\ node' = [n \in live \ Visited |-> node[n]]
  /\ root' = NULL /\ cwd' = NULL
  /\ UNCHANGED result

-----------------------------------------------------------------------------
Next ==
  \/ \E path \in Paths : ChangeDirectory(path)
  \/ \E n \in Names : Mkdir(n) \/ Rmdir(n)
  \/ Cleanup

Spec == Init /\ [][Next]_vars

-----------------------------------------------------------------------------
\* The arrays of children and the parent pointers describe the same tree: a node is
\* an entry of its parent, of nobody else, and of that one only once.
LinksAgree ==
  root # NULL =>
    \A d \in live, n \in Nodes :
      Cardinality({i \in DOMAIN node[d].children : node[d].children[i] = n})
        = IF n \in live /\ node[n].parent = d THEN 1 ELSE 0

\* What pwd prints leads back to the current directory, also between siblings with
\* the same stored name, exactly as long as all bytes of its path fit the buffers and
\* all components the array of split_path: from further down it leads to an ancestor,
\* to some other directory or nowhere.
PwdRoundTrip ==
  root # NULL =>
    (Target(Printed(cwd)) = cwd <=>
       /\ Ends(PathOf(cwd))[Len(PathOf(cwd))] <= BUFFER
       /\ Len(PathOf(cwd)) <= MAX_CHILDREN)

\* No two entries of a directory have the same name.  The duplicate check of fs_mkdir
\* does not ensure it: it compares names in full that are stored cut.
NoDuplicates ==
  \A d \in live : \A i, k \in DOMAIN node[d].children :
    node[node[d].children[i]].name = node[node[d].children[k]].name => i = k

-----------------------------------------------------------------------------
\* The tree of paths that the nodes stand for; after fs_cleanup it is what it was.
Tree == INSTANCE PathTree WITH
          DirNames <- Names, DirPaths <- Paths,
          MaxSiblings <- MAX_CHILDREN, MaxDirs <- Cardinality(Nodes),
          dirs <- {PathOf(n) : n \in live},
          here <- PathOf(cwd)

\* A step is that operation of the tree of paths which the caller asked for.
AsAsked ==
  /\ \A path \in Paths : Cut(path) = path /\ ChangeDirectory(path) => Tree!Cd(path)
  /\ \A n \in Names : Mkdir(n) => Tree!Mkdir(Stored(n))
  /\ \A n \in Names : Rmdir(n) => Tree!Rmdir(n)

\* Callers see a set of paths: each operation of fs.cpp changes it, moves in it and
\* reports exactly as its argument says, until the tree is given up and as long as no
\* two siblings have got the same name by being cut.  A path of cd that is cut leads
\* where what is left of it leads.
ImplementsPathTree ==
  Tree!TreeInit /\
  [][NoDuplicates /\ NoDuplicates' /\ root' # NULL => Tree!TreeNext /\ AsAsked]_vars
=============================================================================
