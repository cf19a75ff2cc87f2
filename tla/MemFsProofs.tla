------------------------------ MODULE MemFsProofs ------------------------------
(***************************************************************************)
(* Proofs about MemFs, for every set of nodes, names and paths.            *)
(*                                                                         *)
(* The three invariants that TLC checks are consequences of FsInv: arrays  *)
(* and parent pointers agree, every node has a level one more than its     *)
(* parent's (so that the links make a tree below the root), and the        *)
(* current directory is at the end of a way from the root on which cd can  *)
(* take every step.  The levels are what keeps rmdir from removing a node  *)
(* of that way, and what makes pwd end.                                    *)
(*                                                                         *)
(* The refinement of PathTree follows from FsInv too.  Each operation, and *)
(* each component of a path that cd follows, does to the paths of nodes    *)
(* what PathTree says, because different nodes have different paths as     *)
(* long as no two siblings have one name.                                  *)
(***************************************************************************)
EXTENDS MemFs, Integers, FiniteSetTheorems, SequenceTheorems, WellFoundedInduction, TLAPS

\* A set of naturals that is not empty has a least element.
LEMMA LeastNat ==
  ASSUME NEW T \in SUBSET Nat, T # {}
  PROVE  \E m \in T : \A k \in T : m <= k
<1>1. IsWellFoundedOn({ss \in Nat \X Nat : ss[1] < ss[2]}, Nat)
  BY NatLessThanWellFounded DEF OpToRel
<1>2. PICK m \in T : \A k \in T : <<k, m>> \notin {ss \in Nat \X Nat : ss[1] < ss[2]}
  BY <1>1, WFMin
<1>3. \A k \in T : ~ (k < m)
  BY <1>2
<1> QED BY <1>3

\* Induction over the naturals, for a set: the set of those n for which a formula holds
\* needs no operator as a parameter.
LEMMA NatInductionOnSet ==
  ASSUME NEW T, 0 \in T, \A n \in Nat : n \in T => n + 1 \in T
  PROVE  Nat \subseteq T
<1> SUFFICES ASSUME Nat \ T # {} PROVE FALSE
  OBVIOUS
<1>1. PICK m \in Nat \ T : \A k \in Nat \ T : m <= k
  BY LeastNat
<1>2. m # 0
  OBVIOUS
<1>3. m - 1 \in Nat /\ m - 1 \in T
  BY <1>1, <1>2
<1> QED BY <1>3

Name(n) == node[n].name
Up(n) == node[n].parent
Below(d) == node[d].children

-----------------------------------------------------------------------------
(* The inductive invariant.                                                *)

\* Every entry of an array has the owner of the array as its parent, once.
EntriesAreChildren ==
  \A d \in live :
    /\ \A i \in DOMAIN Below(d) : Up(Below(d)[i]) = d
    /\ \A i, k \in DOMAIN Below(d) : Below(d)[i] = Below(d)[k] => i = k

\* Only the root has no parent; all other nodes are entries of theirs.
ChildrenAreEntries ==
  /\ Up(root) = NULL
  /\ \A n \in live \ {root} :
       Up(n) \in live /\ \E i \in DOMAIN Below(Up(n)) : Below(Up(n))[i] = n

\* How far each node is from the root.
Levels(level) ==
  /\ level[root] = 0
  /\ \A n \in live \ {root} : level[n] = level[Up(n)] + 1

HasLevels == \E h \in Nat : \E level \in [live -> 0 .. h] : Levels(level)

\* n is the first entry of d with its name, and cd reads that name as one.
FirstOfItsName(d, n) ==
  /\ Name(n) \notin {".", ".."}
  /\ \E i \in DOMAIN Below(d) :
       /\ Below(d)[i] = n
       /\ \A k \in 1 .. i - 1 : Name(Below(d)[k]) # Name(n)

\* The nodes from the root down to d.
Way(w, k, d) ==
  /\ w[0] = root /\ w[k] = d
  /\ \A i \in 1 .. k : Up(w[i]) = w[i - 1] /\ FirstOfItsName(w[i - 1], w[i])

Reached(d) == \E k \in Nat : \E w \in [0 .. k -> live] : Way(w, k, d)

TreeInv ==
  /\ root # NULL /\ cwd # NULL
  /\ EntriesAreChildren
  /\ ChildrenAreEntries
  /\ HasLevels
  /\ Reached(cwd)

FsInv == TypeOK /\ (root # NULL => TreeInv)

-----------------------------------------------------------------------------
(* What the types say.                                                     *)

LEMMA NodeTypes ==
  ASSUME TypeOK, NEW n \in live
  PROVE  /\ n \in Nodes /\ n # NULL
         /\ Name(n) \in Names \union {"/"}
         /\ Up(n) \in live \union {NULL}
         /\ Below(n) \in Seq(live)
         /\ Len(Below(n)) \in Nat
         /\ DOMAIN Below(n) = 1 .. Len(Below(n))
         /\ \A i \in DOMAIN Below(n) : Below(n)[i] \in live
         /\ node[n] = [name |-> Name(n), parent |-> Up(n), children |-> Below(n)]
<1>1. n \in Nodes /\ node[n] \in Node /\ n # NULL
  BY FsAssumption DEF TypeOK
<1>2. Name(n) \in Names \union {"/"} /\ Up(n) \in live \union {NULL} /\ Below(n) \in Seq(live)
      /\ node[n] = [name |-> Name(n), parent |-> Up(n), children |-> Below(n)]
  BY <1>1 DEF Node, Name, Up, Below
<1>3. \A s \in Seq(live) :
        Len(s) \in Nat /\ DOMAIN s = 1 .. Len(s) /\ \A i \in DOMAIN s : s[i] \in live
  BY LenProperties, ElementOfSeq
<1> QED BY <1>1, <1>2, <1>3

-----------------------------------------------------------------------------
(* Looking names up.                                                       *)

\* Named finds the first entry of that name, if there is one.
LEMMA NamedIsFirst ==
  ASSUME TypeOK, NEW d \in live, NEW x
  PROVE  \/ /\ Named(d, x) = 0
            /\ \A i \in DOMAIN Below(d) : Name(Below(d)[i]) # x
         \/ /\ Named(d, x) \in DOMAIN Below(d)
            /\ Name(Below(d)[Named(d, x)]) = x
            /\ \A k \in 1 .. Named(d, x) - 1 : Name(Below(d)[k]) # x
<1> DEFINE s == Below(d)
           I == {i \in 1 .. Len(s) : Name(s[i]) = x}
<1>1. Named(d, x) = IF I # {} THEN Min(I) ELSE 0
  BY DEF Named, SelectInSeq, Below, Name
<1>2. Len(s) \in Nat /\ DOMAIN s = 1 .. Len(s)
  BY NodeTypes
<1>3. CASE I = {}
  BY <1>1, <1>2, <1>3
<1>4. CASE I # {}
  <2>1. \E m \in I : \A k \in I : m <= k
    <3>1. I \in SUBSET Nat
      BY <1>2
    <3> HIDE DEF I
    <3> QED BY <1>4, <3>1, LeastNat
  <2>2. Min(I) \in I /\ \A k \in I : Min(I) <= k
    BY <2>1 DEF Min
  <2>3. Named(d, x) = Min(I)
    BY <1>1, <1>4
  <2> DEFINE m == Named(d, x)
  <2>4. m \in I /\ \A k \in I : m <= k
    BY <2>2, <2>3
  <2> HIDE DEF m, s
  <2>5. m \in 1 .. Len(s) /\ Name(s[m]) = x
    BY <2>4
  <2>6. \A k \in 1 .. m - 1 : k \in 1 .. Len(s) /\ ~ (m <= k)
    BY <1>2, <2>5
  <2>7. \A k \in 1 .. m - 1 : Name(s[k]) # x
    BY <2>4, <2>6
  <2> QED BY <1>2, <2>5, <2>7 DEF m, s
<1> QED BY <1>3, <1>4

\* cd takes a step down exactly to the first entry of a name.
LEMMA StepDown ==
  ASSUME TypeOK, NEW d \in live, NEW x, x \notin {".", ".."}
  PROVE  /\ Step(d, x) # NULL => /\ Step(d, x) \in live /\ Name(Step(d, x)) = x
                                 /\ FirstOfItsName(d, Step(d, x))
                                 /\ \E i \in DOMAIN Below(d) : Below(d)[i] = Step(d, x)
         /\ \A n : FirstOfItsName(d, n) /\ Name(n) = x => Step(d, x) = n
<1> DEFINE m == Named(d, x)
           s == Below(d)
<1>0. d # NULL /\ Len(s) \in Nat /\ DOMAIN s = 1 .. Len(s) /\ \A i \in DOMAIN s : s[i] \in live
  BY NodeTypes
<1>1. Step(d, x) = IF m # 0 THEN s[m] ELSE NULL
  BY <1>0 DEF Step, Below
<1>2. \/ m = 0 /\ \A i \in DOMAIN s : Name(s[i]) # x
      \/ m \in DOMAIN s /\ Name(s[m]) = x /\ \A k \in 1 .. m - 1 : Name(s[k]) # x
  BY NamedIsFirst
<1>3. m # 0 => m \in DOMAIN s /\ Name(s[m]) = x /\ s[m] \in live
  BY <1>0, <1>2
<1> HIDE DEF m, s
<1>4. ASSUME Step(d, x) # NULL
      PROVE  /\ Step(d, x) \in live /\ Name(Step(d, x)) = x /\ FirstOfItsName(d, Step(d, x))
             /\ \E i \in DOMAIN Below(d) : Below(d)[i] = Step(d, x)
  <2>1. m # 0 /\ Step(d, x) = s[m]
    BY <1>1, <1>4
  <2> QED BY <2>1, <1>2, <1>3 DEF FirstOfItsName, s
<1>5. ASSUME NEW n, FirstOfItsName(d, n), Name(n) = x PROVE Step(d, x) = n
  <2>1. PICK i \in DOMAIN s : s[i] = n /\ \A k \in 1 .. i - 1 : Name(s[k]) # x
    BY <1>5 DEF FirstOfItsName, s
  <2>2. m \in DOMAIN s /\ Name(s[m]) = x /\ \A k \in 1 .. m - 1 : Name(s[k]) # x
    BY <1>2, <1>5, <2>1
  <2>3. m = i
    <3>1. ~ (i < m) /\ ~ (m < i)
      BY <1>0, <1>5, <2>1, <2>2
    <3> QED BY <1>0, <2>1, <2>2, <3>1
  <2>4. m # 0
    BY <1>0, <2>2
  <2> QED BY <1>1, <2>1, <2>3, <2>4
<1> QED BY <1>4, <1>5

\* find_node takes one step for each component.
LEMMA FindNodeWalks ==
  ASSUME NEW start, NEW comps, Len(comps) \in Nat
  PROVE  \E f : /\ f[0] = start
                /\ \A k \in 1 .. Len(comps) : f[k] = Step(f[k - 1], comps[k])
                /\ FindNode(start, comps) = f[Len(comps)]
<1> DEFINE K == Len(comps)
           next(f, k) == IF k = 0 THEN start ELSE Step(f[k - 1], comps[k])
           good(f, m) == f = [k \in 0 .. m |-> next(f, k)]
           T == {m \in Nat : m <= K => \E f : good(f, m)}
<1>0. K \in Nat
  OBVIOUS
<1>1. \A f, m : good(f, m) => \A k \in 0 .. m : f[k] = next(f, k)
  OBVIOUS
<1> HIDE DEF K
<1>2. Nat \subseteq T
  <2>1. 0 \in T
    <3> DEFINE f0 == [k \in 0 .. 0 |-> start]
    <3>1. good(f0, 0)
      OBVIOUS
    <3> HIDE DEF good, f0
    <3> QED BY <3>1
  <2>2. ASSUME NEW m \in Nat, m \in T PROVE m + 1 \in T
    <3> SUFFICES ASSUME m + 1 <= K PROVE \E g : good(g, m + 1)
      <4> HIDE DEF good
      <4> QED OBVIOUS
    <3>1. PICK f : good(f, m)
      <4> HIDE DEF good
      <4> QED BY <1>0, <2>2
    <3> DEFINE g == [k \in 0 .. m + 1 |-> IF k <= m THEN f[k] ELSE next(f, m + 1)]
    <3>3. \A k \in 0 .. m : f[k] = next(f, k)
      BY <1>1, <3>1
    <3>4. ASSUME NEW k \in 0 .. m + 1 PROVE g[k] = next(g, k)
      <4>1. CASE k = 0
        BY <3>3, <4>1
      <4>2. CASE k # 0
        <5>1. k - 1 \in 0 .. m
          BY <4>2
        <5>2. g[k - 1] = f[k - 1]
          BY <5>1
        <5>3. g[k] = next(f, k)
          BY <3>3
        <5> HIDE DEF g
        <5> QED BY <5>2, <5>3, <4>2
      <4> QED BY <4>1, <4>2
    <3>5. good(g, m + 1)
      <4>1. g = [k \in 0 .. m + 1 |-> g[k]]
        OBVIOUS
      <4> HIDE DEF g, next
      <4> QED BY <3>4, <4>1
    <3> QED BY <3>5
  <2> HIDE DEF T
  <2> QED BY <2>1, <2>2, NatInductionOnSet
<1>3. PICK f : f = CHOOSE g : good(g, K)
  OBVIOUS
<1>4. good(f, K)
  <2>1. \E g : good(g, K)
    BY <1>0, <1>2
  <2> HIDE DEF good
  <2> QED BY <1>3, <2>1
<1>5. FindNode(start, comps) = f[K]
  BY <1>3 DEF FindNode, K
<1>6. \A k \in 0 .. K : f[k] = next(f, k)
  BY <1>1, <1>4
<1>7. f[0] = start /\ \A k \in 1 .. K : f[k] = Step(f[k - 1], comps[k])
  <2>1. \A k \in 1 .. K : k \in 0 .. K /\ k # 0
    BY <1>0
  <2> QED BY <1>0, <1>6, <2>1
<1> QED BY <1>5, <1>7 DEF K

-----------------------------------------------------------------------------
(* Ways from the root.                                                     *)

\* The i-th node of a way is on level i.
LEMMA WayLevels ==
  ASSUME TypeOK, ChildrenAreEntries, NEW level, Levels(level),
         NEW k \in Nat, NEW w \in [0 .. k -> live], NEW d, Way(w, k, d)
  PROVE  \A i \in 0 .. k : level[w[i]] = i
<1> DEFINE T == {i \in Nat : i <= k => level[w[i]] = i}
<1>1. 0 \in T
  BY DEF Levels, Way
<1>2. ASSUME NEW i \in Nat, i \in T PROVE i + 1 \in T
  <2> SUFFICES ASSUME i + 1 <= k PROVE level[w[i + 1]] = i + 1
    OBVIOUS
  <2>1. i + 1 \in 1 .. k /\ i \in 0 .. k /\ (i + 1) - 1 = i
    OBVIOUS
  <2>2. Up(w[i + 1]) = w[i] /\ w[i] \in live /\ w[i + 1] \in live
    BY <2>1 DEF Way
  <2>3. w[i + 1] # root
    BY <2>2, NodeTypes DEF ChildrenAreEntries
  <2>4. level[w[i]] = i
    BY <1>2, <2>1
  <2> QED BY <2>2, <2>3, <2>4 DEF Levels
<1>3. Nat \subseteq T
  <2> HIDE DEF T
  <2> QED BY <1>1, <1>2, NatInductionOnSet
<1> QED BY <1>3

\* A step of cd from a node that can be reached leads to one, or nowhere.
LEMMA StepReaches ==
  ASSUME TypeOK, EntriesAreChildren, ChildrenAreEntries,
         NEW d \in live, Reached(d), NEW x, Step(d, x) # NULL
  PROVE  Step(d, x) \in live /\ Reached(Step(d, x))
<1>0. PICK k \in Nat : \E w \in [0 .. k -> live] : Way(w, k, d)
  BY DEF Reached
<1>1. PICK w \in [0 .. k -> live] : Way(w, k, d)
  BY <1>0
<1>2. d # NULL
  BY NodeTypes
<1>3. CASE x = "."
  BY <1>2, <1>3 DEF Step
<1>4. CASE x = ".."
  <2>1. Step(d, x) = Parent(d)
    BY <1>2, <1>4 DEF Step
  <2>2. CASE Up(d) = NULL
    BY <2>1, <2>2 DEF Parent, Up
  <2>3. CASE Up(d) # NULL
    <3>1. Step(d, x) = Up(d) /\ Up(d) \in live
      BY <2>1, <2>3, NodeTypes DEF Parent, Up
    <3>2. d # root
      BY <2>3 DEF ChildrenAreEntries
    <3>3. k # 0
      BY <1>1, <3>2 DEF Way
    <3> DEFINE v == [i \in 0 .. k - 1 |-> w[i]]
    <3>4. k - 1 \in Nat /\ v \in [0 .. k - 1 -> live]
      BY <3>3
    <3>5. Way(v, k - 1, Up(d))
      <4>1. v[0] = root /\ v[k - 1] = Up(d)
        BY <1>1, <3>3 DEF Way
      <4>2. ASSUME NEW i \in 1 .. k - 1
            PROVE  Up(v[i]) = v[i - 1] /\ FirstOfItsName(v[i - 1], v[i])
        <5>1. i \in 0 .. k - 1 /\ i - 1 \in 0 .. k - 1 /\ i \in 1 .. k
          OBVIOUS
        <5>2. v[i] = w[i] /\ v[i - 1] = w[i - 1]
          BY <5>1
        <5> HIDE DEF v
        <5> QED BY <1>1, <5>1, <5>2 DEF Way
      <4> HIDE DEF v
      <4> QED BY <4>1, <4>2 DEF Way
    <3> HIDE DEF v
    <3> QED BY <3>1, <3>4, <3>5 DEF Reached
  <2> QED BY <2>2, <2>3
<1>5. CASE x \notin {".", ".."}
  <2> DEFINE e == Step(d, x)
             v == [i \in 0 .. k + 1 |-> IF i <= k THEN w[i] ELSE e]
  <2>1. e \in live /\ FirstOfItsName(d, e) /\ \E i \in DOMAIN Below(d) : Below(d)[i] = e
    BY <1>5, StepDown
  <2>2. Up(e) = d
    BY <2>1 DEF EntriesAreChildren
  <2> HIDE DEF e
  <2>3. v \in [0 .. k + 1 -> live]
    BY <2>1
  <2>4. Way(v, k + 1, e)
    <3>1. v[0] = root /\ v[k + 1] = e /\ v[k] = d
      BY <1>1 DEF Way
    <3>2. ASSUME NEW i \in 1 .. k + 1
          PROVE  Up(v[i]) = v[i - 1] /\ FirstOfItsName(v[i - 1], v[i])
      <4>1. CASE i = k + 1
        <5>1. v[i] = e /\ v[i - 1] = d
          BY <3>1, <4>1
        <5> HIDE DEF v
        <5> QED BY <5>1, <2>1, <2>2
      <4>2. CASE i # k + 1
        <5>1. i \in 0 .. k + 1 /\ i - 1 \in 0 .. k + 1 /\ i \in 1 .. k /\ i <= k /\ i - 1 <= k
          BY <4>2
        <5>2. v[i] = w[i] /\ v[i - 1] = w[i - 1]
          BY <5>1
        <5> HIDE DEF v
        <5> QED BY <1>1, <5>1, <5>2 DEF Way
      <4> QED BY <4>1, <4>2
    <3> HIDE DEF v
    <3> QED BY <3>1, <3>2 DEF Way
  <2>5. Reached(e)
    <3> HIDE DEF v
    <3> QED BY <2>3, <2>4 DEF Reached
  <2> QED BY <2>1, <2>5 DEF e
<1> QED BY <1>3, <1>4, <1>5

\* So does the whole walk of find_node.
LEMMA FindNodeReaches ==
  ASSUME TypeOK, EntriesAreChildren, ChildrenAreEntries,
         NEW d \in live, Reached(d), NEW comps, Len(comps) \in Nat,
         FindNode(d, comps) # NULL
  PROVE  FindNode(d, comps) \in live /\ Reached(FindNode(d, comps))
<1>1. PICK f : /\ f[0] = d
               /\ \A k \in 1 .. Len(comps) : f[k] = Step(f[k - 1], comps[k])
               /\ FindNode(d, comps) = f[Len(comps)]
  BY FindNodeWalks
<1> DEFINE K == Len(comps)
           T == {k \in Nat : k <= K /\ f[k] # NULL => f[k] \in live /\ Reached(f[k])}
<1>2. K \in Nat
  OBVIOUS
<1>3. 0 \in T
  BY <1>1
<1>4. ASSUME NEW k \in Nat, k \in T PROVE k + 1 \in T
  <2> SUFFICES ASSUME k + 1 <= K, f[k + 1] # NULL
               PROVE  f[k + 1] \in live /\ Reached(f[k + 1])
    OBVIOUS
  <2>1. k + 1 \in 1 .. K /\ k <= K /\ (k + 1) - 1 = k
    BY <1>2
  <2>2. f[k + 1] = Step(f[k], comps[k + 1])
    BY <1>1, <2>1
  <2>3. f[k] # NULL
    BY <2>2 DEF Step
  <2>4. f[k] \in live /\ Reached(f[k])
    BY <1>4, <2>1, <2>3
  <2> QED BY <2>2, <2>4, StepReaches
<1>5. Nat \subseteq T
  <2> HIDE DEF T
  <2> QED BY <1>3, <1>4, NatInductionOnSet
<1> QED BY <1>1, <1>2, <1>5

-----------------------------------------------------------------------------
(* pwd.                                                                    *)

\* The recursion of print_working_directory ends, because levels fall.
LEMMA PathOfEquation ==
  ASSUME TypeOK, ChildrenAreEntries, HasLevels
  PROVE  \A n \in live :
           PathOf(n) = IF n = root THEN <<>> ELSE Append(PathOf(Up(n)), Name(n))
<1> DEFINE next(f, n) == IF n = root THEN <<>> ELSE Append(f[Up(n)], Name(n))
           good(f) == f = [n \in live |-> next(f, n)]
<1>1. PICK h \in Nat : \E level \in [live -> 0 .. h] : Levels(level)
  BY DEF HasLevels
<1>2. PICK level \in [live -> 0 .. h] : Levels(level)
  BY <1>1
<1>3. \A n \in live : level[n] \in Nat /\ level[n] <= h
  BY <1>2
<1> DEFINE upTo(f, m) == \A n \in live : level[n] <= m => f[n] = next(f, n)
           T == {m \in Nat : \E f : f = [n \in live |-> f[n]] /\ upTo(f, m)}
<1>4. Nat \subseteq T
  <2>1. 0 \in T
    <3> DEFINE f0 == [n \in live |-> <<>>]
    <3>1. ASSUME NEW n \in live, level[n] <= 0 PROVE n = root
      <4> SUFFICES ASSUME n # root PROVE FALSE
        OBVIOUS
      <4>1. Up(n) \in live /\ level[n] = level[Up(n)] + 1
        BY <1>2 DEF Levels, ChildrenAreEntries
      <4> QED BY <1>3, <3>1, <4>1
    <3>2. upTo(f0, 0) /\ f0 = [n \in live |-> f0[n]]
      BY <3>1
    <3> HIDE DEF upTo, f0
    <3> QED BY <3>2
  <2>2. ASSUME NEW m \in Nat, m \in T PROVE m + 1 \in T
    <3>1. PICK f : f = [n \in live |-> f[n]] /\ upTo(f, m)
      <4> HIDE DEF upTo
      <4> QED BY <2>2
    <3> DEFINE g == [n \in live |-> IF level[n] <= m THEN f[n] ELSE next(f, n)]
    <3>2. ASSUME NEW n \in live, level[n] <= m + 1 PROVE g[n] = next(g, n)
      <4>1. g[n] = next(f, n)
        BY <3>1
      <4>2. CASE n = root
        BY <4>1, <4>2
      <4>3. CASE n # root
        <5>1. Up(n) \in live /\ level[n] = level[Up(n)] + 1
          BY <1>2, <4>3 DEF Levels, ChildrenAreEntries
        <5>2. level[Up(n)] <= m
          BY <1>3, <3>2, <5>1
        <5>3. g[Up(n)] = f[Up(n)]
          BY <5>1, <5>2
        <5> HIDE DEF g
        <5> QED BY <4>1, <4>3, <5>3
      <4> QED BY <4>2, <4>3
    <3>3. g = [n \in live |-> g[n]]
      OBVIOUS
    <3>4. upTo(g, m + 1)
      <4> HIDE DEF g, next
      <4> QED BY <3>2
    <3> HIDE DEF g, upTo
    <3> QED BY <3>3, <3>4
  <2> HIDE DEF T
  <2> QED BY <2>1, <2>2, NatInductionOnSet
<1>5. \E f : good(f)
  <2>1. PICK f : f = [n \in live |-> f[n]] /\ upTo(f, h)
    <3> HIDE DEF upTo
    <3> QED BY <1>4
  <2>2. \A n \in live : f[n] = next(f, n)
    BY <1>3, <2>1
  <2>3. good(f)
    <3> HIDE DEF next
    <3> QED BY <2>1, <2>2
  <2> HIDE DEF good
  <2> QED BY <2>3
<1>6. PICK f : f = CHOOSE g : good(g)
  OBVIOUS
<1>7. good(f)
  <2> HIDE DEF good
  <2> QED BY <1>5, <1>6
<1>8. \A n : PathOf(n) = f[n]
  BY <1>6 DEF PathOf, Up, Name
<1>9. \A n \in live : f[n] = next(f, n)
  BY <1>7
<1> QED BY <1>8, <1>9

\* pwd prints the names along the way.
LEMMA PathOfWay ==
  ASSUME TypeOK, ChildrenAreEntries, HasLevels,
         NEW k \in Nat, NEW w \in [0 .. k -> live], NEW d, Way(w, k, d)
  PROVE  /\ PathOf(d) \in Seq(Names \union {"/"})
         /\ Len(PathOf(d)) = k
         /\ \A j \in 1 .. k : PathOf(d)[j] = Name(w[j])
<1> DEFINE N == Names \union {"/"}
           names(i) == /\ PathOf(w[i]) \in Seq(N) /\ Len(PathOf(w[i])) = i
                       /\ \A j \in 1 .. i : PathOf(w[i])[j] = Name(w[j])
           T == {i \in Nat : i <= k => names(i)}
<1>1. 0 \in T
  <2>1. w[0] = root /\ w[0] \in live
    BY DEF Way
  <2>2. PathOf(w[0]) = <<>>
    BY <2>1, PathOfEquation
  <2> DEFINE p == PathOf(w[0])
  <2>3. p \in Seq(N) /\ Len(p) = 0
    BY <2>2, EmptySeq
  <2> HIDE DEF p, N
  <2>4. \A j \in 1 .. 0 : p[j] = Name(w[j])
    OBVIOUS
  <2> QED BY <2>3, <2>4 DEF p
<1>2. ASSUME NEW i \in Nat, i \in T, i + 1 <= k PROVE names(i + 1)
  <2>1. i + 1 \in 1 .. k /\ (i + 1) - 1 = i
    BY <1>2
  <2>2. Up(w[i + 1]) = w[i] /\ w[i] \in live /\ w[i + 1] \in live
    BY <2>1 DEF Way
  <2>3. w[i + 1] # root
    BY <2>2, NodeTypes DEF ChildrenAreEntries
  <2> DEFINE p == PathOf(w[i])
             x == Name(w[i + 1])
  <2>4. PathOf(w[i + 1]) = Append(p, x)
    BY <2>2, <2>3, PathOfEquation
  <2>5. x \in N
    BY <2>2, NodeTypes
  <2>6. names(i)
    BY <1>2
  <2>7. p \in Seq(N) /\ Len(p) = i /\ \A j \in 1 .. i : p[j] = Name(w[j])
    BY <2>6
  <2> HIDE DEF p, N
  <2> DEFINE q == Append(p, x)
  <2>8. q \in Seq(N) /\ Len(q) = i + 1 /\ q[i + 1] = x /\ \A j \in 1 .. i : q[j] = p[j]
    BY <2>5, <2>7, AppendProperties
  <2>9. PathOf(w[i + 1]) = q
    BY <2>4
  <2> HIDE DEF q
  <2>10. \A j \in 1 .. i + 1 : q[j] = Name(w[j])
    <3>1. \A j \in 1 .. i + 1 : j \in 1 .. i \/ j = i + 1
      OBVIOUS
    <3> QED BY <2>7, <2>8, <3>1
  <2> QED BY <2>8, <2>9, <2>10
<1>3. Nat \subseteq T
  <2>1. \A i \in Nat : i \in T => i + 1 \in T
    <3> HIDE DEF names
    <3> QED BY <1>2
  <2> HIDE DEF T
  <2> QED BY <1>1, <2>1, NatInductionOnSet
<1>4. names(k)
  <2> HIDE DEF names
  <2> QED BY <1>3
<1>5. w[k] = d
  BY DEF Way
<1> QED BY <1>4, <1>5

-----------------------------------------------------------------------------
(* What the buffers hold.                                                  *)

\* The recursion of Ends, component by component.
LEMMA EndsUnfolds ==
  ASSUME NEW comps, Len(comps) \in Nat
  PROVE  /\ Ends(comps)[0] = 0
         /\ \A k \in 1 .. Len(comps) : Ends(comps)[k] = Ends(comps)[k - 1] + 1 + Size(comps[k])
<1> DEFINE K == Len(comps)
           next(f, k) == IF k = 0 THEN 0 ELSE f[k - 1] + 1 + Size(comps[k])
           good(f, m) == f = [k \in 0 .. m |-> next(f, k)]
           T == {m \in Nat : m <= K => \E f : good(f, m)}
<1>1. \A f, m : good(f, m) => \A k \in 0 .. m : f[k] = next(f, k)
  OBVIOUS
<1> HIDE DEF K
<1>2. Nat \subseteq T
  <2>1. 0 \in T
    <3> DEFINE f0 == [k \in 0 .. 0 |-> 0]
    <3>1. good(f0, 0)
      OBVIOUS
    <3> HIDE DEF good, f0
    <3> QED BY <3>1
  <2>2. ASSUME NEW m \in Nat, m \in T PROVE m + 1 \in T
    <3> SUFFICES ASSUME m + 1 <= K PROVE \E g : good(g, m + 1)
      <4> HIDE DEF good
      <4> QED OBVIOUS
    <3>1. PICK f : good(f, m)
      <4> HIDE DEF good
      <4> QED BY <2>2 DEF K
    <3> DEFINE g == [k \in 0 .. m + 1 |-> IF k <= m THEN f[k] ELSE next(f, m + 1)]
    <3>3. \A k \in 0 .. m : f[k] = next(f, k)
      BY <1>1, <3>1
    <3>4. ASSUME NEW k \in 0 .. m + 1 PROVE g[k] = next(g, k)
      <4>1. CASE k = 0
        BY <3>3, <4>1
      <4>2. CASE k # 0
        <5>1. k - 1 \in 0 .. m
          BY <4>2
        <5>2. g[k - 1] = f[k - 1]
          BY <5>1
        <5>3. g[k] = next(f, k)
          BY <3>3
        <5> HIDE DEF g
        <5> QED BY <5>2, <5>3, <4>2
      <4> QED BY <4>1, <4>2
    <3>5. good(g, m + 1)
      <4>1. g = [k \in 0 .. m + 1 |-> g[k]]
        OBVIOUS
      <4> HIDE DEF g, next
      <4> QED BY <3>4, <4>1
    <3> QED BY <3>5
  <2> HIDE DEF T
  <2> QED BY <2>1, <2>2, NatInductionOnSet
<1>3. PICK f : f = CHOOSE g : good(g, K)
  OBVIOUS
<1>4. good(f, K)
  <2>1. \E g : good(g, K)
    BY <1>2 DEF K
  <2> HIDE DEF good
  <2> QED BY <1>3, <2>1
<1>5. Ends(comps) = f
  BY <1>3 DEF Ends, K
<1>6. \A k \in 0 .. K : f[k] = next(f, k)
  BY <1>1, <1>4
<1>7. f[0] = 0 /\ \A k \in 1 .. K : f[k] = f[k - 1] + 1 + Size(comps[k])
  <2>1. 0 \in 0 .. K /\ \A k \in 1 .. K : k \in 0 .. K /\ k # 0
    BY DEF K
  <2> QED BY <1>6, <2>1
<1> QED BY <1>5, <1>7 DEF K

\* The ends are numbers, where the sizes of the components are.
LEMMA EndsAreNats ==
  ASSUME NEW comps, Len(comps) \in Nat, \A k \in 1 .. Len(comps) : Size(comps[k]) \in Nat
  PROVE  \A k \in 0 .. Len(comps) : Ends(comps)[k] \in Nat
<1> DEFINE T == {k \in Nat : k <= Len(comps) => Ends(comps)[k] \in Nat}
<1>1. 0 \in T
  BY EndsUnfolds
<1>2. ASSUME NEW k \in Nat, k \in T, k + 1 <= Len(comps) PROVE Ends(comps)[k + 1] \in Nat
  <2>1. k + 1 \in 1 .. Len(comps) /\ (k + 1) - 1 = k /\ Ends(comps)[k] \in Nat
    BY <1>2
  <2>2. Ends(comps)[k + 1] = Ends(comps)[k] + 1 + Size(comps[k + 1]) /\ Size(comps[k + 1]) \in Nat
    BY <2>1, EndsUnfolds
  <2> QED BY <2>1, <2>2
<1>3. Nat \subseteq T
  <2>1. \A k \in Nat : k \in T => k + 1 \in T
    BY <1>2
  <2> HIDE DEF T
  <2> QED BY <1>1, <2>1, NatInductionOnSet
<1> QED BY <1>3

\* Paths that begin alike have the same ends there.
LEMMA EndsAgree ==
  ASSUME NEW p, Len(p) \in Nat, NEW q, Len(q) \in Nat,
         NEW m \in Nat, m <= Len(p), m <= Len(q), \A i \in 1 .. m : q[i] = p[i]
  PROVE  \A i \in 0 .. m : Ends(q)[i] = Ends(p)[i]
<1> DEFINE T == {i \in Nat : i <= m => Ends(q)[i] = Ends(p)[i]}
<1>1. 0 \in T
  BY EndsUnfolds
<1>2. ASSUME NEW i \in Nat, i \in T, i + 1 <= m PROVE Ends(q)[i + 1] = Ends(p)[i + 1]
  <2>1. /\ i + 1 \in 1 .. Len(p) /\ i + 1 \in 1 .. Len(q) /\ i + 1 \in 1 .. m
        /\ (i + 1) - 1 = i /\ Ends(q)[i] = Ends(p)[i]
    BY <1>2
  <2>2. Ends(p)[i + 1] = Ends(p)[i] + 1 + Size(p[i + 1])
    BY <2>1, EndsUnfolds
  <2>3. Ends(q)[i + 1] = Ends(q)[i] + 1 + Size(q[i + 1])
    BY <2>1, EndsUnfolds
  <2> QED BY <2>1, <2>2, <2>3
<1>3. Nat \subseteq T
  <2>1. \A i \in Nat : i \in T => i + 1 \in T
    BY <1>2
  <2> HIDE DEF T
  <2> QED BY <1>1, <2>1, NatInductionOnSet
<1> QED BY <1>3

\* Whole is the number of the last component that fits.
LEMMA WholeIsLast ==
  ASSUME NEW comps, Len(comps) \in Nat, NEW bytes \in Nat
  PROVE  /\ Whole(comps, bytes) \in 0 .. Len(comps)
         /\ Ends(comps)[Whole(comps, bytes)] <= bytes
         /\ \A i \in 0 .. Len(comps) : Ends(comps)[i] <= bytes => i <= Whole(comps, bytes)
<1> DEFINE L == Len(comps)
           S == {k \in 0 .. L : Ends(comps)[k] <= bytes}
           R == {j \in Nat : L - j \in S}
<1>1. 0 \in S
  BY EndsUnfolds
<1>2. L \in R
  BY <1>1
<1>3. PICK j \in R : \A i \in R : j <= i
  <2>1. R \in SUBSET Nat /\ R # {}
    BY <1>2
  <2> HIDE DEF R
  <2> QED BY <2>1, LeastNat
<1>4. \E x \in S : \A y \in S : x >= y
  <2>1. L - j \in S
    BY <1>3
  <2>2. ASSUME NEW y \in S PROVE L - j >= y
    <3>1. y \in 0 .. L /\ L - y \in Nat /\ L - (L - y) = y
      OBVIOUS
    <3>2. L - y \in R
      BY <3>1
    <3>3. j <= L - y /\ j \in Nat
      BY <1>3, <3>2
    <3> QED BY <3>1, <3>3
  <2> HIDE DEF S
  <2> QED BY <2>1, <2>2
<1>5. Whole(comps, bytes) \in S /\ \A y \in S : Whole(comps, bytes) >= y
  <2>1. Whole(comps, bytes) = Max(S)
    BY DEF Whole
  <2> HIDE DEF S
  <2> QED BY <1>4, <2>1 DEF Max
<1> QED BY <1>5

\* What is copied of a path: all of it exactly if it fits, and else the components that
\* fit and perhaps a last one that is not the one of the path.
LEMMA CopiedLooks ==
  ASSUME NEW comps \in Seq(Components), NEW bytes \in Nat,
         NEW k, k = Whole(comps, bytes), NEW copy, copy = Copied(comps, bytes)
  PROVE  /\ k \in 0 .. Len(comps) /\ \A i \in 1 .. k : copy[i] = comps[i]
         /\ k = Len(comps) <=> Ends(comps)[Len(comps)] <= bytes
         /\ \E S : copy \in Seq(S)
         /\ Ends(copy)[Len(copy)] <= bytes
         /\ \/ k = Len(comps) /\ copy = comps
            \/ k < Len(comps) /\ Len(copy) = k
            \/ k < Len(comps) /\ Len(copy) = k + 1 /\ copy[k + 1] # comps[k + 1]
<1> DEFINE L == Len(comps)
           left == bytes - Ends(comps)[k] - 1
           begin == SubSeq(comps, 1, k)
<1>1. L \in Nat /\ \A i \in 1 .. L : comps[i] \in Components /\ Size(comps[i]) \in Nat
  BY LenProperties, ElementOfSeq, FsAssumption
<1>2. \A i \in 0 .. L : Ends(comps)[i] \in Nat
  BY <1>1, EndsAreNats
<1>3. k \in 0 .. L /\ Ends(comps)[k] <= bytes /\ \A i \in 0 .. L : Ends(comps)[i] <= bytes => i <= k
  BY <1>1, WholeIsLast
<1>4. k = L <=> Ends(comps)[L] <= bytes
  <2>1. L \in 0 .. L
    BY <1>1
  <2> QED BY <1>1, <1>3, <2>1
<1>5. begin \in Seq(Components) /\ Len(begin) = k /\ \A i \in 1 .. k : begin[i] = comps[i]
  <2>1. k \in Int /\ 1 \in Int /\ \A i \in 1 .. k : comps[i] \in Components
    BY <1>1, <1>3
  <2>2. /\ begin \in Seq(Components)
        /\ Len(begin) = IF 1 <= k THEN k - 1 + 1 ELSE 0
        /\ \A i \in 1 .. k - 1 + 1 : begin[i] = comps[1 + i - 1]
    <3> HIDE DEF begin
    <3> QED BY <2>1, SubSeqProperties DEF begin
  <2> HIDE DEF begin
  <2> QED BY <1>3, <2>2
<1>6. CASE k < L /\ left > 0
  <2> DEFINE x == First(comps[k + 1], left)
  <2>1. copy = Append(begin, x)
    BY <1>6 DEF Copied
  <2>2. k + 1 \in 1 .. L /\ k + 1 \in 0 .. L /\ (k + 1) - 1 = k /\ ~ (k + 1 <= k)
    BY <1>1, <1>3, <1>6
  <2>3. Ends(comps)[k + 1] = Ends(comps)[k] + 1 + Size(comps[k + 1])
    BY <1>1, <2>2, EndsUnfolds
  <2>4. ~ (Ends(comps)[k + 1] <= bytes)
    BY <1>3, <2>2
  <2>5. left \in 1 .. Size(comps[k + 1]) - 1
    <3>1. Ends(comps)[k] \in Nat /\ Ends(comps)[k + 1] \in Nat /\ Size(comps[k + 1]) \in Nat
      BY <1>1, <1>2, <1>3, <2>2
    <3>2. left > 0
      BY <1>6
    <3> QED BY <2>3, <2>4, <3>1, <3>2
  <2>6. x # comps[k + 1] /\ Size(x) = left
    BY <1>1, <2>2, <2>5, FsAssumption
  <2> DEFINE S == Components \union {x}
  <2>7. begin \in Seq(S) /\ x \in S
    <3>1. DOMAIN begin = 1 .. Len(begin) /\ \A i \in DOMAIN begin : begin[i] \in S
      BY <1>5, LenProperties, ElementOfSeq
    <3>2. Len(begin) \in Nat /\ begin \in [1 .. Len(begin) -> Components]
      BY <1>5, LenProperties
    <3> HIDE DEF begin, S
    <3>3. begin \in [1 .. Len(begin) -> S]
      BY <3>1, <3>2
    <3>4. begin \in Seq(S)
      BY <3>2, <3>3, SeqDef
    <3> QED BY <3>4 DEF S
  <2> HIDE DEF begin, x, S
  <2>8. /\ copy \in Seq(S) /\ Len(copy) = k + 1 /\ copy[k + 1] = x
        /\ \A i \in 1 .. k : copy[i] = begin[i]
    BY <1>5, <2>1, <2>7, AppendProperties
  <2>9. Len(copy) \in Nat /\ \A i \in 1 .. k : copy[i] = comps[i]
    BY <1>3, <1>5, <2>8
  <2>10. Ends(copy)[k] = Ends(comps)[k]
    <3>1. k \in Nat /\ k <= L /\ k <= Len(copy) /\ k \in 0 .. k
      BY <1>3, <2>8
    <3> QED BY <1>1, <2>9, <3>1, EndsAgree
  <2>11. Ends(copy)[Len(copy)] <= bytes
    <3>1. k + 1 \in 1 .. Len(copy) /\ (k + 1) - 1 = k
      BY <1>3, <2>8
    <3>2. Ends(copy)[k + 1] = Ends(copy)[k] + 1 + Size(x)
      BY <2>8, <2>9, <3>1, EndsUnfolds
    <3>3. Ends(comps)[k] \in Nat
      BY <1>2, <1>3
    <3> HIDE DEF L
    <3> QED BY <2>6, <2>8, <2>10, <3>2, <3>3
  <2> QED BY <1>3, <1>4, <1>6, <2>6, <2>8, <2>9, <2>11
<1>7. CASE ~ (k < L /\ left > 0)
  <2>1. copy = begin
    BY <1>7 DEF Copied
  <2>2. k = L => copy = comps
    BY <2>1, SubSeqFull
  <2> HIDE DEF begin
  <2>3. Ends(copy)[k] = Ends(comps)[k]
    <3>1. k \in Nat /\ k <= L /\ k <= Len(copy) /\ k \in 0 .. k /\ Len(copy) \in Nat
      BY <1>3, <1>5, <2>1
    <3> QED BY <1>1, <1>5, <2>1, <3>1, EndsAgree
  <2> QED BY <1>1, <1>3, <1>4, <1>5, <2>1, <2>2, <2>3
<1> QED BY <1>6, <1>7

\* A path that has been copied fits a buffer of the same size.
LEMMA CopiedTwice ==
  ASSUME NEW comps \in Seq(Components), NEW bytes \in Nat
  PROVE  Copied(Copied(comps, bytes), bytes) = Copied(comps, bytes)
<1>1. PICK k : k = Whole(comps, bytes)
  OBVIOUS
<1>2. PICK q : q = Copied(comps, bytes)
  OBVIOUS
<1>3. Ends(q)[Len(q)] <= bytes /\ \E S : q \in Seq(S)
  BY <1>1, <1>2, CopiedLooks
<1>4. PICK S : q \in Seq(S)
  BY <1>3
<1>5. Len(q) \in Nat
  BY <1>4, LenProperties
<1>6. Whole(q, bytes) = Len(q)
  <2>1. Len(q) \in 0 .. Len(q)
    BY <1>5
  <2>2. Whole(q, bytes) \in 0 .. Len(q) /\ Len(q) <= Whole(q, bytes)
    BY <1>3, <1>5, <2>1, WholeIsLast
  <2> QED BY <1>5, <2>2
<1>7. Copied(q, bytes) = q
  <2>1. Copied(q, bytes) = SubSeq(q, 1, Len(q))
    BY <1>5, <1>6 DEF Copied
  <2> QED BY <1>4, <2>1, SubSeqFull
<1> QED BY <1>2, <1>7

\* The components that cd follows when it is given what pwd prints of a path: those of
\* the path if nothing is cut; else fewer, of which only the last can differ.
LEMMA PrintedLooks ==
  ASSUME NEW d, PathOf(d) \in Seq(Components)
  PROVE  LET p == PathOf(d)
             c == Cut(Printed(d)).comps
         IN /\ Len(p) \in Nat /\ Len(c) \in Nat
            /\ IF Ends(p)[Len(p)] <= BUFFER /\ Len(p) <= MAX_CHILDREN
               THEN c = p
               ELSE \E k \in Nat :
                      /\ k < Len(p) /\ \A i \in 1 .. k : c[i] = p[i]
                      /\ \/ Len(c) = k
                         \/ Len(c) = k + 1 /\ c[k + 1] # p[k + 1]
<1>1. PICK p \in Seq(Components) : p = PathOf(d)
  OBVIOUS
<1>2. PICK q : q = Copied(p, BUFFER)
  OBVIOUS
<1>3. PICK c : c = SubSeq(q, 1, Kept(q))
  OBVIOUS
<1>4. Cut(Printed(d)).comps = c
  <2>1. Copied(q, BUFFER) = q
    BY <1>2, CopiedTwice, FsAssumption
  <2>2. Printed(d).comps = q /\ Printed(d).absolute = TRUE
    BY <1>1, <1>2 DEF Printed
  <2> QED BY <1>3, <2>1, <2>2 DEF Cut
<1>5. PICK n : n = Whole(p, BUFFER)
  OBVIOUS
<1>6. /\ n \in 0 .. Len(p) /\ \A i \in 1 .. n : q[i] = p[i]
      /\ n = Len(p) <=> Ends(p)[Len(p)] <= BUFFER
      /\ \/ n = Len(p) /\ q = p
         \/ n < Len(p) /\ Len(q) = n
         \/ n < Len(p) /\ Len(q) = n + 1 /\ q[n + 1] # p[n + 1]
  <2>1. BUFFER \in Nat
    BY FsAssumption
  <2> QED BY <1>2, <1>5, <2>1, CopiedLooks
<1>7. PICK S : q \in Seq(S)
  BY <1>2, <1>5, CopiedLooks, FsAssumption
<1>8. Len(p) \in Nat /\ Len(q) \in Nat /\ n \in Nat
  BY <1>6, <1>7, LenProperties
<1>9. MAX_CHILDREN \in Nat /\ Kept(q) \in Nat /\ Kept(q) <= Len(q)
      /\ Kept(q) = IF Len(q) <= MAX_CHILDREN THEN Len(q) ELSE MAX_CHILDREN
  BY <1>8, FsAssumption DEF Kept
<1>10. Len(c) = Kept(q) /\ \A i \in 1 .. Kept(q) : c[i] = q[i]
  <2> DEFINE K == Kept(q)
  <2>1. K \in Int /\ 1 \in Int /\ \A i \in 1 .. K : q[i] \in S
    BY <1>7, <1>8, <1>9, ElementOfSeq
  <2> HIDE DEF K
  <2>2. /\ Len(SubSeq(q, 1, K)) = IF 1 <= K THEN K - 1 + 1 ELSE 0
        /\ \A i \in 1 .. K - 1 + 1 : SubSeq(q, 1, K)[i] = q[1 + i - 1]
    BY <2>1, SubSeqProperties
  <2>3. K \in Nat /\ c = SubSeq(q, 1, K)
    BY <1>3, <1>9 DEF K
  <2>4. Len(c) = K /\ \A i \in 1 .. K : c[i] = q[i]
    BY <2>2, <2>3
  <2> QED BY <2>4 DEF K
<1>11. CASE n = Len(p) /\ Len(p) <= MAX_CHILDREN
  <2>1. q = p /\ Kept(q) = Len(q)
    BY <1>6, <1>8, <1>9, <1>11
  <2>2. c = p
    BY <1>3, <2>1, SubSeqFull
  <2> QED BY <1>1, <1>4, <1>6, <1>8, <1>11, <2>2
<1>12. CASE ~ (n = Len(p) /\ Len(p) <= MAX_CHILDREN)
  <2>1. \E k \in Nat :
          /\ k < Len(p) /\ \A i \in 1 .. k : c[i] = p[i]
          /\ \/ Len(c) = k
             \/ Len(c) = k + 1 /\ c[k + 1] # p[k + 1]
    <3>1. CASE Kept(q) <= n
      <4>1. Kept(q) < Len(p)
        BY <1>6, <1>8, <1>9, <1>12, <3>1
      <4>2. \A i \in 1 .. Kept(q) : c[i] = p[i]
        BY <1>6, <1>8, <1>9, <1>10, <3>1
      <4> QED BY <1>9, <1>10, <4>1, <4>2
    <3>2. CASE ~ (Kept(q) <= n)
      <4>1. n < Len(p) /\ Len(q) = n + 1 /\ q[n + 1] # p[n + 1] /\ Kept(q) = n + 1
        BY <1>6, <1>8, <1>9, <3>2
      <4>2. \A i \in 1 .. n : c[i] = p[i]
        BY <1>6, <1>8, <1>10, <4>1
      <4>3. Len(c) = n + 1 /\ c[n + 1] # p[n + 1]
        BY <1>8, <1>10, <4>1
      <4> QED BY <1>8, <4>1, <4>2, <4>3
    <3> QED BY <3>1, <3>2
  <2> QED BY <1>1, <1>4, <1>6, <1>8, <1>9, <1>10, <1>12, <2>1
<1> QED BY <1>11, <1>12

\* A path that follows the way down k steps leads to the k-th node of the way.
LEMMA AlongTheWay ==
  ASSUME TypeOK, ChildrenAreEntries, HasLevels,
         NEW n \in Nat, NEW w \in [0 .. n -> live], Way(w, n, cwd),
         NEW comps, Len(comps) \in Nat, NEW f, f[0] = root,
         \A i \in 1 .. Len(comps) : f[i] = Step(f[i - 1], comps[i]),
         NEW k \in Nat, k <= n, k <= Len(comps), \A i \in 1 .. k : comps[i] = PathOf(cwd)[i]
  PROVE  f[k] = w[k]
<1>1. \A j \in 1 .. n : PathOf(cwd)[j] = Name(w[j])
  BY PathOfWay
<1> DEFINE T == {j \in Nat : j <= k => f[j] = w[j]}
<1>2. 0 \in T
  BY DEF Way
<1>3. ASSUME NEW j \in Nat, j \in T, j + 1 <= k PROVE f[j + 1] = w[j + 1]
  <2>1. j + 1 \in 1 .. k /\ j + 1 \in 1 .. n /\ j + 1 \in 1 .. Len(comps)
        /\ j \in 0 .. n /\ (j + 1) - 1 = j /\ f[j] = w[j]
    BY <1>3
  <2>2. f[j + 1] = Step(w[j], Name(w[j + 1]))
    <3>1. comps[j + 1] = Name(w[j + 1])
      BY <1>1, <2>1
    <3>2. f[j + 1] = Step(f[(j + 1) - 1], comps[j + 1])
      BY <2>1
    <3> QED BY <2>1, <3>1, <3>2
  <2>3. w[j] \in live /\ FirstOfItsName(w[j], w[j + 1])
    BY <2>1 DEF Way
  <2>4. Name(w[j + 1]) \notin {".", ".."}
    BY <2>3 DEF FirstOfItsName
  <2> QED BY <2>2, <2>3, <2>4, StepDown
<1>4. Nat \subseteq T
  <2>1. \A j \in Nat : j \in T => j + 1 \in T
    BY <1>3
  <2> HIDE DEF T
  <2> QED BY <1>2, <2>1, NatInductionOnSet
<1> QED BY <1>4

\* What pwd prints leads cd back along the way, as far as nothing is cut.
LEMMA RoundTrip ==
  ASSUME TypeOK, TreeInv
  PROVE  Target(Printed(cwd)) = cwd <=>
           /\ Ends(PathOf(cwd))[Len(PathOf(cwd))] <= BUFFER
           /\ Len(PathOf(cwd)) <= MAX_CHILDREN
<1>0. EntriesAreChildren /\ ChildrenAreEntries /\ HasLevels /\ Reached(cwd)
  BY DEF TreeInv
<1>1. PICK n \in Nat : \E w \in [0 .. n -> live] : Way(w, n, cwd)
  BY <1>0 DEF Reached
<1>2. PICK w \in [0 .. n -> live] : Way(w, n, cwd)
  BY <1>1
<1>3. PICK p : p = PathOf(cwd)
  OBVIOUS
<1>4. p \in Seq(Names \union {"/"}) /\ Len(p) = n /\ \A j \in 1 .. n : p[j] = Name(w[j])
  BY <1>0, <1>2, <1>3, PathOfWay
<1>5. PICK c : c = Cut(Printed(cwd)).comps
  OBVIOUS
<1>6. /\ Len(c) \in Nat
      /\ IF Ends(p)[n] <= BUFFER /\ n <= MAX_CHILDREN
         THEN c = p
         ELSE \E k \in Nat : /\ k < n /\ \A i \in 1 .. k : c[i] = p[i]
                             /\ \/ Len(c) = k
                                \/ Len(c) = k + 1 /\ c[k + 1] # p[k + 1]
  <2>1. p \in Seq(Components)
    <3>1. Len(p) \in Nat /\ p \in [1 .. Len(p) -> Names \union {"/"}]
      BY <1>4, LenProperties
    <3>2. p \in [1 .. Len(p) -> Components]
      BY <3>1 DEF Components
    <3> QED BY <3>1, <3>2, SeqDef
  <2> QED BY <1>3, <1>4, <1>5, <2>1, PrintedLooks
<1>7. PICK f : /\ f[0] = root
               /\ \A i \in 1 .. Len(c) : f[i] = Step(f[i - 1], c[i])
               /\ FindNode(root, c) = f[Len(c)]
  BY <1>6, FindNodeWalks
<1>8. Target(Printed(cwd)) = f[Len(c)]
  BY <1>5, <1>7 DEF Target, Start, Printed
<1>9. \A k \in Nat : k <= n /\ k <= Len(c) /\ (\A i \in 1 .. k : c[i] = p[i]) => f[k] = w[k]
  <2>1. ASSUME NEW k \in Nat, k <= n, k <= Len(c), \A i \in 1 .. k : c[i] = p[i] PROVE f[k] = w[k]
    <3>1. \A i \in 1 .. k : c[i] = PathOf(cwd)[i]
      BY <1>3, <2>1
    <3>2. Len(c) \in Nat /\ f[0] = root /\ \A i \in 1 .. Len(c) : f[i] = Step(f[i - 1], c[i])
      BY <1>6, <1>7
    <3>3. n \in Nat /\ w \in [0 .. n -> live] /\ Way(w, n, cwd)
      BY <1>1, <1>2
    <3>4. k \in Nat /\ k <= n /\ k <= Len(c)
      BY <2>1
    <3> QED BY <1>0, <3>1, <3>2, <3>3, <3>4, AlongTheWay
  <2> QED BY <2>1
<1>10. w[n] = cwd /\ cwd \in live
  BY <1>2 DEF Way
<1>11. CASE Ends(p)[n] <= BUFFER /\ n <= MAX_CHILDREN
  <2>1. f[n] = w[n] /\ Len(c) = n
    BY <1>4, <1>6, <1>9, <1>11
  <2> QED BY <1>3, <1>4, <1>8, <1>10, <1>11, <2>1
<1>12. CASE ~ (Ends(p)[n] <= BUFFER /\ n <= MAX_CHILDREN)
  <2>1. PICK k \in Nat : /\ k < n /\ \A i \in 1 .. k : c[i] = p[i]
                         /\ \/ Len(c) = k
                            \/ Len(c) = k + 1 /\ c[k + 1] # p[k + 1]
    BY <1>6, <1>12
  <2>2. k <= n /\ k <= Len(c) /\ k \in 0 .. n
    BY <1>6, <2>1
  <2>3. f[k] = w[k] /\ w[k] \in live
    BY <1>9, <2>1, <2>2
  <2>4. PICK h \in Nat : \E level \in [live -> 0 .. h] : Levels(level)
    BY <1>0 DEF HasLevels
  <2>5. PICK level \in [live -> 0 .. h] : Levels(level)
    BY <2>4
  <2>6. \A i \in 0 .. n : level[w[i]] = i
    BY <1>0, <1>2, <2>5, WayLevels
  <2>7. w[k] # cwd
    BY <1>10, <2>1, <2>2, <2>6
  <2>8. CASE Len(c) = k
    BY <1>3, <1>4, <1>8, <1>12, <2>3, <2>7, <2>8
  <2>9. CASE Len(c) = k + 1 /\ c[k + 1] # p[k + 1]
    <3> DEFINE x == c[k + 1]
               e == Step(w[k], x)
    <3>1. f[k + 1] = e
      <4>1. k + 1 \in 1 .. k + 1 /\ (k + 1) - 1 = k
        OBVIOUS
      <4>2. k + 1 \in 1 .. Len(c)
        BY <2>9, <4>1
      <4> QED BY <1>7, <2>3, <4>1, <4>2
    <3>2. cwd # NULL /\ w[k] # NULL
      BY <1>10, <2>3, NodeTypes
    <3>3. e # cwd
      <4>1. CASE x = "."
        BY <2>7, <3>2, <4>1 DEF Step
      <4>2. CASE x = ".."
        <5>1. e = Parent(w[k])
          BY <3>2, <4>2 DEF Step
        <5>2. CASE Up(w[k]) = NULL
          BY <2>7, <5>1, <5>2 DEF Parent, Up
        <5>3. CASE Up(w[k]) # NULL
          <6>1. e = Up(w[k]) /\ w[k] # root /\ Up(w[k]) \in live
            BY <1>0, <2>3, <5>1, <5>3 DEF Parent, Up, ChildrenAreEntries
          <6>2. level[w[k]] = level[e] + 1 /\ level[e] \in Nat
            BY <2>3, <2>5, <6>1 DEF Levels
          <6>3. level[w[k]] = k /\ level[cwd] = n
            <7>1. n \in 0 .. n
              OBVIOUS
            <7> QED BY <1>10, <2>2, <2>6, <7>1
          <6> HIDE DEF e
          <6> QED BY <2>1, <6>2, <6>3
        <5> QED BY <5>2, <5>3
      <4>3. CASE x \notin {".", ".."}
        <5> SUFFICES ASSUME e = cwd PROVE FALSE
          OBVIOUS
        <5>1. e \in live /\ Name(e) = x /\ \E i \in DOMAIN Below(w[k]) : Below(w[k])[i] = e
          BY <2>3, <3>2, <4>3, StepDown
        <5>2. Up(e) = w[k]
          BY <1>0, <2>3, <5>1 DEF EntriesAreChildren
        <5>3. e # root
          BY <1>0, <2>3, <3>2, <5>2 DEF ChildrenAreEntries
        <5>4. level[e] = level[w[k]] + 1
          BY <2>5, <5>1, <5>2, <5>3 DEF Levels
        <5>5. level[w[k]] = k /\ level[cwd] = n
          <6>1. n \in 0 .. n
            OBVIOUS
          <6> QED BY <1>10, <2>2, <2>6, <6>1
        <5>6. k + 1 = n
          BY <5>4, <5>5
        <5>7. p[k + 1] = Name(cwd)
          <6>1. n \in 1 .. n
            BY <2>1
          <6> QED BY <1>4, <1>10, <5>6, <6>1
        <5> QED BY <2>9, <5>1, <5>7
      <4> QED BY <4>1, <4>2, <4>3
    <3> HIDE DEF e
    <3> QED BY <1>3, <1>4, <1>8, <1>12, <2>9, <3>1, <3>3
  <2> QED BY <2>1, <2>8, <2>9
<1> QED BY <1>11, <1>12

-----------------------------------------------------------------------------
(* Sequences.                                                              *)

LEMMA SeqOver ==
  ASSUME NEW S, NEW s \in Seq(S), NEW T, \A i \in DOMAIN s : s[i] \in T
  PROVE  s \in Seq(T)
<1>1. Len(s) \in Nat /\ s \in [1 .. Len(s) -> S]
  BY LenProperties
<1>2. s \in [1 .. Len(s) -> T]
  BY <1>1
<1> QED BY <1>1, <1>2, SeqDef

LEMMA RemoveAtProperties ==
  ASSUME NEW S, NEW s \in Seq(S), NEW i \in DOMAIN s
  PROVE  /\ RemoveAt(s, i) \in Seq(S)
         /\ DOMAIN RemoveAt(s, i) = 1 .. Len(s) - 1
         /\ \A k \in 1 .. Len(s) - 1 : RemoveAt(s, i)[k] = IF k < i THEN s[k] ELSE s[k + 1]
<1>1. Len(s) \in Nat /\ DOMAIN s = 1 .. Len(s) /\ \A k \in DOMAIN s : s[k] \in S
  BY LenProperties, ElementOfSeq
<1> DEFINE a == SubSeq(s, 1, i - 1)
           b == SubSeq(s, i + 1, Len(s))
<1>2. i \in 1 .. Len(s) /\ i - 1 \in Int /\ i + 1 \in Int /\ Len(s) \in Int
  BY <1>1
<1>3. \A k \in 1 .. i - 1 : s[k] \in S
  BY <1>1, <1>2
<1>4. \A k \in i + 1 .. Len(s) : s[k] \in S
  BY <1>1, <1>2
<1>5. a \in Seq(S) /\ Len(a) = i - 1 /\ \A k \in 1 .. i - 1 : a[k] = s[k]
  <2>1. /\ SubSeq(s, 1, i - 1) \in Seq(S)
        /\ Len(SubSeq(s, 1, i - 1)) = IF 1 <= i - 1 THEN (i - 1) - 1 + 1 ELSE 0
        /\ \A k \in 1 .. (i - 1) - 1 + 1 : SubSeq(s, 1, i - 1)[k] = s[1 + k - 1]
    BY <1>2, <1>3, SubSeqProperties
  <2> HIDE DEF a
  <2>2. \A k \in 1 .. i - 1 : k \in 1 .. (i - 1) - 1 + 1 /\ 1 + k - 1 = k
    BY <1>2
  <2>3. (IF 1 <= i - 1 THEN (i - 1) - 1 + 1 ELSE 0) = i - 1
    BY <1>2
  <2> QED BY <2>1, <2>2, <2>3 DEF a
<1>6. /\ b \in Seq(S) /\ Len(b) = Len(s) - i
      /\ \A k \in 1 .. Len(s) - i : b[k] = s[i + k]
  <2>1. /\ SubSeq(s, i + 1, Len(s)) \in Seq(S)
        /\ Len(SubSeq(s, i + 1, Len(s))) = IF i + 1 <= Len(s) THEN Len(s) - (i + 1) + 1 ELSE 0
        /\ \A k \in 1 .. Len(s) - (i + 1) + 1 :
             SubSeq(s, i + 1, Len(s))[k] = s[(i + 1) + k - 1]
    BY <1>2, <1>4, SubSeqProperties
  <2> HIDE DEF b
  <2>2. ASSUME NEW k \in 1 .. Len(s) - i
        PROVE  k \in 1 .. Len(s) - (i + 1) + 1 /\ (i + 1) + k - 1 = i + k
    <3>1. i \in Int /\ Len(s) \in Int /\ k \in Int
      BY <1>2
    <3>2. Len(s) - (i + 1) + 1 = Len(s) - i /\ (i + 1) + k - 1 = i + k
      BY <3>1
    <3> QED BY <3>2
  <2>3. (IF i + 1 <= Len(s) THEN Len(s) - (i + 1) + 1 ELSE 0) = Len(s) - i
    BY <1>2
  <2> QED BY <2>1, <2>2, <2>3 DEF b
<1> HIDE DEF a, b
<1>7. /\ a \o b \in Seq(S) /\ Len(a \o b) = Len(a) + Len(b)
      /\ \A k \in 1 .. Len(a) + Len(b) : (a \o b)[k] = IF k <= Len(a) THEN a[k] ELSE b[k - Len(a)]
  BY <1>5, <1>6, ConcatProperties
<1>8. RemoveAt(s, i) = a \o b
  BY DEF RemoveAt, a, b
<1> DEFINE r == a \o b
<1>9. r \in Seq(S) /\ Len(r) = Len(s) - 1
  BY <1>2, <1>5, <1>6, <1>7
<1>10. DOMAIN r = 1 .. Len(s) - 1
  <2> HIDE DEF r
  <2> QED BY <1>9, LenProperties
<1>11. ASSUME NEW k \in 1 .. Len(s) - 1 PROVE r[k] = IF k < i THEN s[k] ELSE s[k + 1]
  <2>1. r[k] = IF k <= Len(a) THEN a[k] ELSE b[k - Len(a)]
    <3>1. Len(a) + Len(b) = Len(s) - 1
      BY <1>2, <1>5, <1>6
    <3>2. k \in 1 .. Len(a) + Len(b)
      BY <3>1
    <3> QED BY <1>7, <3>2
  <2> HIDE DEF r
  <2>2. CASE k < i
    BY <1>2, <1>5, <2>1, <2>2
  <2>3. CASE ~ (k < i)
    <3>1. k - (i - 1) \in 1 .. Len(s) - i /\ i + (k - (i - 1)) = k + 1 /\ ~ (k <= i - 1)
      BY <1>2, <2>3
    <3> QED BY <1>5, <1>6, <2>1, <2>3, <3>1
  <2> QED BY <2>2, <2>3
<1> HIDE DEF r
<1> QED BY <1>8, <1>9, <1>10, <1>11 DEF r

-----------------------------------------------------------------------------
(* The way to the current directory survives mkdir and rmdir.              *)

\* A node's array and the names in it only change at the current directory, and no node
\* goes that is not an entry of it: the way down to it is still there.
LEMMA WayStays ==
  ASSUME TypeOK, TreeInv, root' = root, cwd' = cwd,
         \A x \in live : x \in live' => Name(x)' = Name(x) /\ Up(x)' = Up(x),
         \A x \in live : x \in live' /\ x # cwd => Below(x)' = Below(x),
         \A x \in live : x \notin live' => Up(x) = cwd
  PROVE  Reached(cwd)'
<1>0. EntriesAreChildren /\ ChildrenAreEntries /\ HasLevels /\ Reached(cwd) /\ cwd # NULL
  BY DEF TreeInv
<1>1. PICK k \in Nat : \E w \in [0 .. k -> live] : Way(w, k, cwd)
  BY <1>0 DEF Reached
<1>2. PICK w \in [0 .. k -> live] : Way(w, k, cwd)
  BY <1>1
<1>3. PICK h \in Nat : \E level \in [live -> 0 .. h] : Levels(level)
  BY <1>0 DEF HasLevels
<1>4. PICK level \in [live -> 0 .. h] : Levels(level)
  BY <1>3
<1>5. \A i \in 0 .. k : level[w[i]] = i
  BY <1>0, <1>2, <1>4, WayLevels
<1>6. w[0] = root /\ w[k] = cwd /\ \A i \in 0 .. k : w[i] \in live
  BY <1>2 DEF Way
<1>7. ASSUME NEW i \in 0 .. k PROVE w[i] \in live'
  <2> SUFFICES ASSUME w[i] \notin live' PROVE FALSE
    OBVIOUS
  <2>1. Up(w[i]) = w[k]
    BY <1>6, <1>7
  <2>2. i # 0
    BY <1>0, <1>6, <2>1 DEF ChildrenAreEntries
  <2>3. i \in 1 .. k /\ i - 1 \in 0 .. k /\ k \in 0 .. k
    BY <2>2
  <2>4. Up(w[i]) = w[i - 1]
    BY <1>2, <2>3 DEF Way
  <2>5. level[w[k]] = k /\ level[w[i - 1]] = i - 1
    BY <1>5, <2>3
  <2>6. k = i - 1
    BY <2>1, <2>4, <2>5
  <2> QED BY <2>3, <2>6
<1>8. ASSUME NEW i \in 1 .. k
      PROVE  Up(w[i])' = w[i - 1] /\ FirstOfItsName(w[i - 1], w[i])'
  <2> DEFINE d == w[i - 1]
             n == w[i]
  <2>1. i \in 0 .. k /\ i - 1 \in 0 .. k /\ k \in 0 .. k
    OBVIOUS
  <2>2. d \in live /\ n \in live /\ d \in live' /\ n \in live' /\ d # cwd
    <3>1. level[d] # level[cwd]
      BY <1>5, <1>6, <2>1
    <3> QED BY <1>6, <1>7, <2>1, <3>1
  <2>3. Up(n) = d /\ FirstOfItsName(d, n)
    BY <1>2 DEF Way
  <2> HIDE DEF d, n
  <2>4. Up(n)' = d /\ Name(n)' = Name(n) /\ Below(d)' = Below(d)
    BY <2>2, <2>3
  <2>5. ASSUME NEW j \in DOMAIN Below(d)
        PROVE  Below(d)[j] \in live /\ Below(d)[j] \in live'
    <3>1. Below(d)[j] \in live /\ Up(Below(d)[j]) = d
      BY <1>0, <2>2, <2>5, NodeTypes DEF EntriesAreChildren
    <3> QED BY <2>2, <3>1
  <2>6. \A j \in DOMAIN Below(d) : Name(Below(d)[j])' = Name(Below(d)[j])
    <3>1. ASSUME NEW j \in DOMAIN Below(d), NEW e, e = Below(d)[j] PROVE Name(e)' = Name(e)
      BY <2>5, <3>1
    <3>2. ASSUME NEW j \in DOMAIN Below(d) PROVE Name(Below(d)[j])' = Name(Below(d)[j])
      <4>1. PICK e : e = Below(d)[j]
        OBVIOUS
      <4>2. Name(e)' = Name(e)
        BY <3>1, <4>1
      <4>3. Below(d)[j]' = e
        BY <2>4, <4>1
      <4> QED BY <4>1, <4>2, <4>3 DEF Name
    <3> QED BY <3>2
  <2>7. FirstOfItsName(d, n)'
    <3>1. PICK l \in DOMAIN Below(d) :
            Below(d)[l] = n /\ \A j \in 1 .. l - 1 : Name(Below(d)[j]) # Name(n)
      BY <2>3 DEF FirstOfItsName
    <3>2. Name(n)' \notin {".", ".."}
      BY <2>3, <2>4 DEF FirstOfItsName
    <3>3. \A j \in 1 .. l - 1 : j \in DOMAIN Below(d)
      <4>1. Len(Below(d)) \in Nat /\ DOMAIN Below(d) = 1 .. Len(Below(d))
        BY <2>2, NodeTypes
      <4> QED BY <3>1, <4>1
    <3>4. \A j \in 1 .. l - 1 : Name(Below(d)[j])' # Name(n)'
      BY <2>4, <2>6, <3>1, <3>3
    <3>5. l \in DOMAIN Below(d)' /\ Below(d)'[l] = n
      BY <2>4, <3>1
    <3> QED BY <3>2, <3>4, <3>5 DEF FirstOfItsName
  <2> QED BY <2>4, <2>7 DEF d, n
<1>9. Way(w, k, cwd)'
  BY <1>6, <1>8 DEF Way
<1>10. w \in [0 .. k -> live']
  BY <1>7
<1> QED BY <1>9, <1>10 DEF Reached

-----------------------------------------------------------------------------
(* The steps.                                                              *)

\* While the nodes stay as they are, so do the ways.
LEMMA ReachedStays ==
  ASSUME node' = node, root' = root, NEW d, Reached(d)
  PROVE  Reached(d)'
<1>0. PICK k \in Nat : \E w \in [0 .. k -> live] : Way(w, k, d)
  BY DEF Reached
<1>1. PICK w \in [0 .. k -> live] : Way(w, k, d)
  BY <1>0
<1>2. live' = live
  BY DEF live
<1>3. \A x, y : FirstOfItsName(x, y) => FirstOfItsName(x, y)'
  BY DEF FirstOfItsName, Below, Name
<1>4. \A x : Up(x)' = Up(x)
  BY DEF Up
<1>5. Way(w, k, d)'
  BY <1>1, <1>3, <1>4 DEF Way
<1> QED BY <1>2, <1>5 DEF Reached

LEMMA InitHolds == Init => FsInv
<1> SUFFICES ASSUME Init PROVE FsInv
  OBVIOUS
<1> DEFINE w == [i \in 0 .. 0 |-> root]
           level == [n \in live |-> 0]
<1>0. /\ root \in Nodes /\ cwd = root /\ root # NULL /\ result = 0
      /\ node = [n \in {root} |-> NewNode("/", NULL)]
  BY FsAssumption DEF Init
<1>1. /\ live = {root}
      /\ node[root] = [name |-> "/", parent |-> NULL, children |-> <<>>]
  BY <1>0 DEF live, NewNode
<1>2. Name(root) = "/" /\ Up(root) = NULL /\ Below(root) = <<>>
  BY <1>1 DEF Name, Up, Below
<1>3. Below(root) \in Seq(live) /\ DOMAIN Below(root) = {}
  <2>1. << >> \in Seq(live) /\ Len(<< >>) = 0
    BY EmptySeq
  <2>2. DOMAIN << >> = 1 .. 0
    BY <2>1, LenProperties
  <2> QED BY <1>2, <2>1, <2>2
<1>4. node[root] \in Node
  <2>1. node[root] = [name |-> "/", parent |-> NULL, children |-> Below(root)]
    BY <1>1, <1>2
  <2> QED BY <1>3, <2>1 DEF Node
<1>5. TypeOK
  BY <1>0, <1>1, <1>4 DEF TypeOK
<1>6. EntriesAreChildren /\ ChildrenAreEntries
  BY <1>1, <1>2, <1>3 DEF EntriesAreChildren, ChildrenAreEntries
<1>7. HasLevels
  <2>1. level \in [live -> 0 .. 0] /\ Levels(level)
    BY <1>1 DEF Levels
  <2> HIDE DEF level
  <2> QED BY <2>1 DEF HasLevels
<1>8. Reached(cwd)
  <2>1. w \in [0 .. 0 -> live] /\ Way(w, 0, cwd)
    BY <1>0, <1>1 DEF Way
  <2> HIDE DEF w
  <2> QED BY <2>1 DEF Reached
<1> QED BY <1>0, <1>5, <1>6, <1>7, <1>8 DEF FsInv, TreeInv

\* cd ends where find_node does, which can be reached.
LEMMA ChangeDirectoryStep ==
  ASSUME FsInv, NEW path \in Paths, ChangeDirectory(path)
  PROVE  FsInv'
<1>0. TypeOK /\ TreeInv /\ root # NULL
  BY DEF FsInv, ChangeDirectory
<1>1. EntriesAreChildren /\ ChildrenAreEntries /\ HasLevels /\ Reached(cwd) /\ cwd # NULL
  BY <1>0 DEF TreeInv
<1>2. root \in live /\ cwd \in live
  BY <1>0, <1>1 DEF TypeOK
<1>3. Reached(root)
  <2> DEFINE w == [i \in 0 .. 0 |-> root]
  <2>1. w \in [0 .. 0 -> live] /\ Way(w, 0, root)
    BY <1>2 DEF Way
  <2> HIDE DEF w
  <2> QED BY <2>1 DEF Reached
<1>4. Len(Cut(path).comps) \in Nat
  BY FsAssumption, PathsAssumption, LenProperties
<1> DEFINE target == Target(path)
<1>5. target # NULL => target \in live /\ Reached(target)
  <2>1. Start(path) \in live /\ Reached(Start(path))
    BY <1>1, <1>2, <1>3 DEF Start
  <2> QED BY <1>0, <1>1, <1>4, <2>1, FindNodeReaches DEF Target
<1>6. node' = node /\ root' = root
  BY DEF ChangeDirectory
<1>7. \/ target # NULL /\ cwd' = target /\ result' = 0
      \/ cwd' = cwd /\ result' = -1
  BY DEF ChangeDirectory
<1> HIDE DEF target
<1>8. PICK c \in live : cwd' = c /\ Reached(c)
  BY <1>1, <1>2, <1>5, <1>7
<1>9. TypeOK'
  <2>1. live' = live /\ Node' = Node
    BY <1>6 DEF live, Node
  <2> QED BY <1>0, <1>6, <1>7, <1>8, <2>1 DEF TypeOK
<1>10. (EntriesAreChildren /\ ChildrenAreEntries /\ HasLevels)'
  BY <1>1, <1>6 DEF EntriesAreChildren, ChildrenAreEntries, HasLevels, Levels, live, Below, Up
<1>11. Reached(c)'
  BY <1>6, <1>8, ReachedStays
<1>12. Reached(cwd)' /\ cwd' # NULL
  BY <1>2, <1>8, <1>11, <1>0, NodeTypes DEF Reached, Way
<1> QED BY <1>0, <1>6, <1>9, <1>10, <1>12 DEF FsInv, TreeInv

\* mkdir hangs a new node, a level further down, below the current directory.
LEMMA MkdirStep ==
  ASSUME FsInv, NEW n \in Names, Mkdir(n)
  PROVE  FsInv'
<1>0. TypeOK /\ TreeInv /\ root # NULL
  BY DEF FsInv, Mkdir
<1>1. EntriesAreChildren /\ ChildrenAreEntries /\ HasLevels /\ Reached(cwd) /\ cwd # NULL
  BY <1>0 DEF TreeInv
<1>2. root \in live /\ cwd \in live
  BY <1>0, <1>1 DEF TypeOK
<1>3. root' = root /\ cwd' = cwd
  BY DEF Mkdir
<1>4. CASE node' = node
  <2>1. result' \in {0, -1}
    BY DEF Mkdir
  <2>2. live' = live /\ Node' = Node
    BY <1>4 DEF live, Node
  <2>3. TypeOK'
    BY <1>0, <1>3, <1>4, <2>1, <2>2 DEF TypeOK
  <2>4. (EntriesAreChildren /\ ChildrenAreEntries /\ HasLevels)'
    BY <1>1, <1>3, <1>4
    DEF EntriesAreChildren, ChildrenAreEntries, HasLevels, Levels, live, Below, Up
  <2>5. Reached(cwd)'
    <3>1. PICK c \in live : c = cwd
      BY <1>2
    <3>2. Reached(c)'
      BY <1>1, <1>3, <1>4, <3>1, ReachedStays
    <3> QED BY <1>3, <3>1, <3>2 DEF Reached, Way
  <2> QED BY <1>0, <1>1, <1>3, <2>3, <2>4, <2>5 DEF FsInv, TreeInv
<1>5. ASSUME NEW new \in Nodes \ live, result' = 0,
             node' = With([node EXCEPT ![cwd].children = Append(@, new)],
                          new, NewNode(Stored(n), NewParent))
      PROVE  FsInv'
  <2> DEFINE s == Below(cwd)
             t == Append(s, new)
  <2>1. /\ live' = live \union {new} /\ new # cwd /\ new \notin live
        /\ node'[new] = [name |-> Stored(n), parent |-> cwd, children |-> <<>>]
        /\ \A x \in live \ {cwd} : node'[x] = node[x]
        /\ node'[cwd] = [name |-> Name(cwd), parent |-> Up(cwd), children |-> t]
    <3>1. live' = live \union {new} /\ new # cwd /\ new \notin live
      BY <1>2, <1>5 DEF With, live
    <3>2. node'[new] = [name |-> Stored(n), parent |-> cwd, children |-> <<>>]
      BY <1>5 DEF With, NewNode, NewParent
    <3>3. \A x \in live \ {cwd} : node'[x] = node[x]
      BY <1>5, <3>1 DEF With, live
    <3>4. node'[cwd] = [node[cwd] EXCEPT !.children = Append(@, new)]
      BY <1>2, <1>5, <3>1 DEF With, live
    <3>5. node[cwd] = [name |-> Name(cwd), parent |-> Up(cwd), children |-> s]
      BY <1>0, <1>2, NodeTypes
    <3>6. node'[cwd] = [name |-> Name(cwd), parent |-> Up(cwd), children |-> t]
      <4> HIDE DEF s
      <4> QED BY <3>4, <3>5
    <3> QED BY <3>1, <3>2, <3>3, <3>6
  <2>2. /\ Name(new)' = Stored(n) /\ Up(new)' = cwd /\ Below(new)' = <<>>
        /\ \A x \in live : Name(x)' = Name(x) /\ Up(x)' = Up(x)
        /\ \A x \in live \ {cwd} : Below(x)' = Below(x)
        /\ Below(cwd)' = t
    <3>1. Name(new)' = Stored(n) /\ Up(new)' = cwd /\ Below(new)' = <<>>
      BY <2>1 DEF Name, Up, Below
    <3>2. \A x \in live \ {cwd} : Name(x)' = Name(x) /\ Up(x)' = Up(x) /\ Below(x)' = Below(x)
      BY <2>1 DEF Name, Up, Below
    <3>3. /\ node'[cwd].name = Name(cwd) /\ node'[cwd].parent = Up(cwd)
          /\ node'[cwd].children = t
      <4> HIDE DEF t
      <4> QED BY <2>1
    <3> HIDE DEF t
    <3>4. /\ \A x \in live : x = cwd => Name(x)' = Name(x) /\ Up(x)' = Up(x)
          /\ Below(cwd)' = t
      BY <1>3, <3>3 DEF Name, Up, Below
    <3> QED BY <3>1, <3>2, <3>4
  <2>3. /\ s \in Seq(live) /\ Len(s) \in Nat /\ DOMAIN s = 1 .. Len(s)
        /\ \A i \in 1 .. Len(s) : s[i] \in live
    BY <1>0, <1>2, NodeTypes
  <2> HIDE DEF s
  <2>4. /\ t \in Seq(live') /\ DOMAIN t = 1 .. Len(s) + 1 /\ t[Len(s) + 1] = new
        /\ \A i \in 1 .. Len(s) : t[i] = s[i]
    <3>1. s \in Seq(live') /\ new \in live'
      BY <2>1, <2>3, SeqMonotonic
    <3>2. t \in Seq(live') /\ Len(t) = Len(s) + 1 /\ t[Len(s) + 1] = new
          /\ \A i \in 1 .. Len(s) : t[i] = s[i]
      BY <3>1, AppendProperties
    <3> HIDE DEF t
    <3> QED BY <3>2, LenProperties
  <2> HIDE DEF t
  <2>5. << >> \in Seq(live') /\ DOMAIN << >> = {}
    <3>1. << >> \in Seq(live') /\ Len(<< >>) = 0
      BY EmptySeq
    <3>2. DOMAIN << >> = 1 .. 0
      BY <3>1, LenProperties
    <3> QED BY <3>1, <3>2
  <2>6. TypeOK'
    <3>1. ASSUME NEW x \in live' PROVE node'[x] \in Node'
      <4> SUFFICES \E name \in Names \union {"/"}, parent \in live' \union {NULL},
                      children \in Seq(live') :
                     node'[x] = [name |-> name, parent |-> parent, children |-> children]
        BY DEF Node
      <4>1. CASE x = new
        <5>1. Stored(n) \in Names \union {"/"} /\ cwd \in live' \union {NULL}
          BY <1>2, <2>1, FsAssumption
        <5> QED BY <2>1, <2>5, <4>1, <5>1
      <4>2. CASE x = cwd
        <5>1. Name(cwd) \in Names \union {"/"} /\ Up(cwd) \in live' \union {NULL}
          BY <1>0, <1>2, <2>1, NodeTypes
        <5> QED BY <2>1, <2>4, <4>2, <5>1
      <4>3. CASE x \in live \ {cwd}
        <5>1. /\ Name(x) \in Names \union {"/"} /\ Up(x) \in live' \union {NULL}
              /\ Below(x) \in Seq(live)
              /\ node[x] = [name |-> Name(x), parent |-> Up(x), children |-> Below(x)]
          BY <1>0, <2>1, <4>3, NodeTypes
        <5>2. Below(x) \in Seq(live')
          BY <2>1, <5>1, SeqMonotonic
        <5>3. node'[x] = [name |-> Name(x), parent |-> Up(x), children |-> Below(x)]
          BY <2>1, <4>3, <5>1
        <5> QED BY <5>1, <5>2, <5>3
      <4> QED BY <2>1, <4>1, <4>2, <4>3
    <3>2. live' \subseteq Nodes
      BY <1>0, <2>1 DEF TypeOK
    <3> QED BY <1>2, <1>3, <1>5, <2>1, <3>1, <3>2 DEF TypeOK
  <2>7. EntriesAreChildren'
    <3>1. ASSUME NEW d \in live'
          PROVE  /\ \A i \in DOMAIN Below(d)' : node'[Below(d)'[i]].parent = d
                 /\ \A i, k \in DOMAIN Below(d)' : Below(d)'[i] = Below(d)'[k] => i = k
      <4>1. CASE d = new
        BY <2>2, <2>5, <4>1
      <4>2. CASE d = cwd
        <5>1. Up(new)' = cwd /\ \A x \in live : Up(x)' = Up(x)
          BY <2>2
        <5>2. \A i \in 1 .. Len(s) : Up(s[i]) = cwd
          BY <1>1, <1>2, <2>3 DEF EntriesAreChildren, s
        <5>3. \A x : (x = new => node'[x].parent = cwd)
                     /\ (x \in live /\ Up(x) = cwd => node'[x].parent = cwd)
          BY <5>1 DEF Up
        <5>4. \A i \in 1 .. Len(s) + 1 : i \in 1 .. Len(s) \/ i = Len(s) + 1
          BY <2>3
        <5>5. \A i \in DOMAIN t : node'[t[i]].parent = d
          BY <2>3, <2>4, <4>2, <5>2, <5>3, <5>4
        <5>6. \A i, k \in 1 .. Len(s) : s[i] = s[k] => i = k
          BY <1>1, <1>2, <2>3 DEF EntriesAreChildren, s
        <5>7. \A i, k \in DOMAIN t : t[i] = t[k] => i = k
          BY <2>1, <2>3, <2>4, <5>4, <5>6
        <5>8. Below(d)' = t
          BY <2>2, <4>2, <1>3
        <5> QED BY <5>5, <5>7, <5>8
      <4>3. CASE d \in live \ {cwd}
        <5>1. Below(d)' = Below(d)
          BY <2>2, <4>3
        <5>2. \A i \in DOMAIN Below(d) : Below(d)[i] \in live /\ Up(Below(d)[i]) = d
          BY <1>0, <1>1, <4>3, NodeTypes DEF EntriesAreChildren
        <5>3. \A x \in live : node'[x].parent = Up(x)
          BY <2>2 DEF Up
        <5>4. \A i, k \in DOMAIN Below(d) : Below(d)[i] = Below(d)[k] => i = k
          BY <1>1, <4>3 DEF EntriesAreChildren
        <5> QED BY <5>1, <5>2, <5>3, <5>4
      <4> QED BY <2>1, <4>1, <4>2, <4>3
    <3> QED BY <3>1 DEF EntriesAreChildren, Up
  <2>8. ChildrenAreEntries'
    <3>1. Up(root)' = NULL
      BY <1>1, <1>2, <1>3, <2>2 DEF ChildrenAreEntries, Up
    <3>2. ASSUME NEW x \in live' \ {root}
          PROVE  Up(x)' \in live' /\ \E i \in DOMAIN node'[Up(x)'].children : node'[Up(x)'].children[i] = x
      <4>1. CASE x = new
        <5>1. Up(x)' = cwd /\ node'[cwd].children = t
          BY <2>1, <2>2, <4>1
        <5>2. Len(s) + 1 \in DOMAIN t /\ t[Len(s) + 1] = x
          BY <2>3, <2>4, <4>1
        <5> QED BY <1>2, <2>1, <5>1, <5>2
      <4>2. CASE x \in live
        <5>1. PICK p \in live : p = Up(x) /\ \E i \in DOMAIN Below(p) : Below(p)[i] = x
          BY <1>1, <3>2, <4>2 DEF ChildrenAreEntries
        <5>2. Up(x)' = p
          BY <2>2, <4>2, <5>1
        <5>3. PICK i \in DOMAIN Below(p) : Below(p)[i] = x
          BY <5>1
        <5>4. CASE p = cwd
          <6>1. i \in 1 .. Len(s) /\ s[i] = x
            BY <2>3, <5>3, <5>4 DEF s
          <6>2. i \in DOMAIN t /\ t[i] = x /\ node'[p].children = t
            BY <2>1, <2>3, <2>4, <5>4, <6>1
          <6> QED BY <2>1, <5>2, <6>2
        <5>5. CASE p # cwd
          <6>1. node'[p].children = Below(p)
            BY <2>1, <5>5 DEF Below
          <6> QED BY <2>1, <5>2, <5>3, <6>1
        <5> QED BY <5>4, <5>5
      <4> QED BY <2>1, <3>2, <4>1, <4>2
    <3> QED BY <1>3, <3>1, <3>2 DEF ChildrenAreEntries, Below
  <2>9. HasLevels'
    <3>1. PICK h \in Nat : \E level \in [live -> 0 .. h] : Levels(level)
      BY <1>1 DEF HasLevels
    <3>2. PICK level \in [live -> 0 .. h] : Levels(level)
      BY <3>1
    <3>3. PICK longer : longer = [x \in live' |-> IF x = new THEN level[cwd] + 1 ELSE level[x]]
      OBVIOUS
    <3>4. longer[new] = level[cwd] + 1 /\ \A x \in live : longer[x] = level[x]
      BY <2>1, <3>3
    <3>5. \A x \in live' \ {root} : longer[x] = longer[Up(x)'] + 1
      <4>1. \A x \in live \ {root} : longer[x] = longer[Up(x)'] + 1
        BY <1>1, <2>2, <3>2, <3>4 DEF Levels, ChildrenAreEntries
      <4>2. longer[new] = longer[Up(new)'] + 1
        BY <1>2, <2>2, <3>4
      <4> QED BY <2>1, <4>1, <4>2
    <3>6. longer[root] = 0
      BY <1>2, <3>2, <3>4 DEF Levels
    <3>7. Levels(longer)'
      BY <1>3, <3>5, <3>6 DEF Levels
    <3>8. longer \in [live' -> 0 .. h + 1]
      BY <1>2, <2>1, <3>2, <3>3
    <3> QED BY <3>7, <3>8 DEF HasLevels
  <2>10. Reached(cwd)'
    <3>1. \A x \in live : x \in live'
      BY <2>1
    <3>2. \A x \in live : x \in live' => Name(x)' = Name(x) /\ Up(x)' = Up(x)
      BY <2>2
    <3>3. \A x \in live : x \in live' /\ x # cwd => Below(x)' = Below(x)
      BY <2>2
    <3>4. \A x \in live : x \notin live' => Up(x) = cwd
      BY <3>1
    <3> QED BY <1>0, <1>3, <3>2, <3>3, <3>4, WayStays
  <2> QED BY <1>0, <1>1, <1>3, <2>6, <2>7, <2>8, <2>9, <2>10 DEF FsInv, TreeInv
<1> QED BY <1>4, <1>5 DEF Mkdir

\* rmdir takes an empty child of the current directory out, and nothing points to it.
LEMMA RmdirStep ==
  ASSUME FsInv, NEW n \in Names, Rmdir(n)
  PROVE  FsInv'
<1>0. TypeOK /\ TreeInv /\ root # NULL
  BY DEF FsInv, Rmdir
<1>1. EntriesAreChildren /\ ChildrenAreEntries /\ HasLevels /\ Reached(cwd) /\ cwd # NULL
  BY <1>0 DEF TreeInv
<1>2. root \in live /\ cwd \in live
  BY <1>0, <1>1 DEF TypeOK
<1>3. root' = root /\ cwd' = cwd
  BY DEF Rmdir
<1>4. CASE node' = node /\ result' = -1
  <2>1. live' = live /\ Node' = Node
    BY <1>4 DEF live, Node
  <2>2. TypeOK'
    BY <1>0, <1>3, <1>4, <2>1 DEF TypeOK
  <2>3. (EntriesAreChildren /\ ChildrenAreEntries /\ HasLevels)'
    BY <1>1, <1>3, <1>4
    DEF EntriesAreChildren, ChildrenAreEntries, HasLevels, Levels, live, Below, Up
  <2>4. Reached(cwd)'
    <3>1. PICK c \in live : c = cwd
      BY <1>2
    <3>2. Reached(c)'
      BY <1>1, <1>3, <1>4, <3>1, ReachedStays
    <3> QED BY <1>3, <3>1, <3>2 DEF Reached, Way
  <2> QED BY <1>0, <1>1, <1>3, <2>2, <2>3, <2>4 DEF FsInv, TreeInv
<1> DEFINE s == Below(cwd)
<1>5. ASSUME NEW m, m = Named(cwd, n), m # 0, Removable(s[m]), result' = 0,
             node' = [d \in live \ {s[m]} |->
                        IF d = cwd THEN [node[d] EXCEPT !.children = RemoveAt(@, m)] ELSE node[d]]
      PROVE  FsInv'
  <2> DEFINE c == s[m]
             t == RemoveAt(s, m)
  <2>1. /\ s \in Seq(live) /\ Len(s) \in Nat /\ DOMAIN s = 1 .. Len(s)
        /\ \A i \in 1 .. Len(s) : s[i] \in live
    BY <1>0, <1>2, NodeTypes
  <2>2. m \in 1 .. Len(s) /\ c \in live
    BY <1>0, <1>2, <1>5, <2>1, NamedIsFirst
  <2>3. /\ \A i \in 1 .. Len(s) : Up(s[i]) = cwd
        /\ \A i, k \in 1 .. Len(s) : s[i] = s[k] => i = k
    BY <1>1, <1>2, <2>1 DEF EntriesAreChildren
  <2>4. Below(c) = <<>> /\ DOMAIN Below(c) = {}
    <3>1. Below(c) = <<>>
      BY <1>5 DEF Removable, Below
    <3>2. << >> \in Seq(live) /\ Len(<< >>) = 0
      BY EmptySeq
    <3>3. DOMAIN << >> = 1 .. 0
      BY <3>2, LenProperties
    <3> QED BY <3>1, <3>3
  <2>5. c # cwd /\ c # root /\ Up(c) = cwd
    <3>1. Up(c) = cwd
      BY <2>2, <2>3
    <3>2. c # cwd
      BY <2>1, <2>2, <2>4
    <3> QED BY <1>1, <3>1, <3>2 DEF ChildrenAreEntries
  <2>6. /\ live' = live \ {c}
        /\ \A x \in live \ {c, cwd} : node'[x] = node[x]
        /\ node'[cwd] = [name |-> Name(cwd), parent |-> Up(cwd), children |-> t]
    <3>1. live' = live \ {c}
      BY <1>5 DEF live
    <3>2. \A x \in live \ {c, cwd} : node'[x] = node[x]
      BY <1>5
    <3>3. node'[cwd] = [node[cwd] EXCEPT !.children = RemoveAt(@, m)]
      BY <1>2, <1>5, <2>5
    <3>4. node[cwd] = [name |-> Name(cwd), parent |-> Up(cwd), children |-> s]
      BY <1>0, <1>2, NodeTypes
    <3>5. node'[cwd] = [name |-> Name(cwd), parent |-> Up(cwd), children |-> t]
      <4> HIDE DEF s
      <4> QED BY <3>3, <3>4
    <3> HIDE DEF t
    <3> QED BY <3>1, <3>2, <3>5
  <2> HIDE DEF s, c
  <2>7. /\ t \in Seq(live) /\ DOMAIN t = 1 .. Len(s) - 1
        /\ \A k \in 1 .. Len(s) - 1 : t[k] = IF k < m THEN s[k] ELSE s[k + 1]
    BY <2>1, <2>2, RemoveAtProperties
  <2> HIDE DEF t
  <2>8. \A x \in live \ {c} :
          /\ Name(x)' = Name(x) /\ Up(x)' = Up(x)
          /\ x # cwd => Below(x)' = Below(x)
          /\ x = cwd => Below(x)' = t
    BY <2>6 DEF Name, Up, Below
  \* What is left in the array: everything but c.
  <2>9. \A k \in DOMAIN t : \E i \in 1 .. Len(s) :
          t[k] = s[i] /\ i # m /\ i = IF k < m THEN k ELSE k + 1
    <3>1. ASSUME NEW k \in 1 .. Len(s) - 1
          PROVE  \E i \in 1 .. Len(s) : t[k] = s[i] /\ i # m /\ i = IF k < m THEN k ELSE k + 1
      <4>1. CASE k < m
        BY <2>1, <2>2, <2>7, <4>1
      <4>2. CASE ~ (k < m)
        <5>1. k + 1 \in 1 .. Len(s) /\ k + 1 # m
          BY <2>1, <2>2, <4>2
        <5> QED BY <2>7, <4>2, <5>1
      <4> QED BY <4>1, <4>2
    <3> QED BY <2>7, <3>1
  <2>10. \A k \in DOMAIN t : t[k] \in live \ {c} /\ Up(t[k]) = cwd
    BY <2>1, <2>2, <2>3, <2>9 DEF c
  <2>11. \A i, k \in DOMAIN t : t[i] = t[k] => i = k
    <3>1. ASSUME NEW i \in DOMAIN t, NEW k \in DOMAIN t, t[i] = t[k] PROVE i = k
      <4>1. PICK i1 \in 1 .. Len(s) : t[i] = s[i1] /\ i1 = IF i < m THEN i ELSE i + 1
        BY <2>9
      <4>2. PICK k1 \in 1 .. Len(s) : t[k] = s[k1] /\ k1 = IF k < m THEN k ELSE k + 1
        BY <2>9
      <4>3. i1 = k1
        BY <2>3, <3>1, <4>1, <4>2
      <4>4. i \in Int /\ k \in Int /\ m \in Int
        BY <2>1, <2>2, <2>7
      <4> QED BY <4>1, <4>2, <4>3, <4>4
    <3> QED BY <3>1
  <2>12. \A i \in 1 .. Len(s) : i # m => \E k \in DOMAIN t : t[k] = s[i]
    <3>1. ASSUME NEW i \in 1 .. Len(s), i # m PROVE \E k \in 1 .. Len(s) - 1 : t[k] = s[i]
      <4>1. CASE i < m
        <5>1. i \in 1 .. Len(s) - 1
          BY <2>1, <2>2, <4>1
        <5> QED BY <2>7, <4>1, <5>1
      <4>2. CASE ~ (i < m)
        <5>1. i - 1 \in 1 .. Len(s) - 1 /\ ~ (i - 1 < m) /\ (i - 1) + 1 = i
          BY <2>1, <2>2, <3>1, <4>2
        <5> QED BY <2>7, <5>1
      <4> QED BY <4>1, <4>2
    <3> QED BY <2>7, <3>1
  \* No other node points to c.
  <2>13. \A x \in live \ {c} : Up(x) # c
    <3>1. ASSUME NEW x \in live \ {c}, Up(x) = c PROVE FALSE
      <4>1. x # root
        BY <1>0, <1>1, <2>2, <3>1, NodeTypes DEF ChildrenAreEntries
      <4> QED BY <1>1, <2>4, <3>1, <4>1 DEF ChildrenAreEntries
    <3> QED BY <3>1
  <2>14. \A x \in live \ {c, cwd} : \A i \in DOMAIN Below(x) :
           Below(x)[i] \in live \ {c} /\ Up(Below(x)[i]) = x
    <3>1. ASSUME NEW x \in live \ {c, cwd}, NEW i \in DOMAIN Below(x)
          PROVE  Below(x)[i] \in live \ {c} /\ Up(Below(x)[i]) = x
      <4>1. Below(x)[i] \in live /\ Up(Below(x)[i]) = x
        BY <1>0, <1>1, <3>1, NodeTypes DEF EntriesAreChildren
      <4> QED BY <2>5, <4>1
    <3> QED BY <3>1
  <2>15. TypeOK'
    <3>1. ASSUME NEW x \in live' PROVE node'[x] \in Node'
      <4> SUFFICES \E name \in Names \union {"/"}, parent \in live' \union {NULL},
                      children \in Seq(live') :
                     node'[x] = [name |-> name, parent |-> parent, children |-> children]
        BY DEF Node
      <4>1. x \in live \ {c}
        BY <2>6
      <4>2. /\ Name(x) \in Names \union {"/"} /\ Up(x) \in live' \union {NULL}
            /\ Below(x) \in Seq(live)
            /\ node[x] = [name |-> Name(x), parent |-> Up(x), children |-> Below(x)]
        BY <1>0, <2>6, <2>13, <4>1, NodeTypes
      <4>3. CASE x = cwd
        <5>1. t \in Seq(live')
          BY <2>6, <2>7, <2>10, SeqOver
        <5> QED BY <2>6, <4>2, <4>3, <5>1
      <4>4. CASE x # cwd
        <5>1. Below(x) \in Seq(live')
          BY <2>6, <2>14, <4>1, <4>2, <4>4, SeqOver
        <5>2. node'[x] = [name |-> Name(x), parent |-> Up(x), children |-> Below(x)]
          BY <2>6, <4>1, <4>2, <4>4
        <5> QED BY <4>2, <5>1, <5>2
      <4> QED BY <4>3, <4>4
    <3>2. live' \subseteq Nodes
      BY <1>0, <2>6 DEF TypeOK
    <3> QED BY <1>2, <1>3, <1>5, <2>5, <2>6, <3>1, <3>2 DEF TypeOK
  <2>16. EntriesAreChildren'
    <3>1. ASSUME NEW d \in live'
          PROVE  /\ \A i \in DOMAIN Below(d)' : node'[Below(d)'[i]].parent = d
                 /\ \A i, k \in DOMAIN Below(d)' : Below(d)'[i] = Below(d)'[k] => i = k
      <4>1. \A x \in live \ {c} : node'[x].parent = Up(x)
        BY <2>8 DEF Up
      <4>2. CASE d = cwd
        <5>1. Below(d)' = t
          BY <2>6, <2>8, <4>2
        <5> QED BY <2>10, <2>11, <4>1, <4>2, <5>1
      <4>3. CASE d # cwd
        <5>1. Below(d)' = Below(d) /\ d \in live \ {c, cwd}
          BY <2>6, <2>8, <4>3
        <5>2. \A i, k \in DOMAIN Below(d) : Below(d)[i] = Below(d)[k] => i = k
          BY <1>1, <5>1 DEF EntriesAreChildren
        <5> QED BY <2>14, <4>1, <5>1, <5>2
      <4> QED BY <4>2, <4>3
    <3> QED BY <3>1 DEF EntriesAreChildren, Up
  <2>17. ChildrenAreEntries'
    <3>1. Up(root)' = NULL
      BY <1>1, <1>2, <1>3, <2>5, <2>8 DEF ChildrenAreEntries, Up
    <3>2. ASSUME NEW x \in live' \ {root}
          PROVE  /\ Up(x)' \in live'
                 /\ \E i \in DOMAIN node'[Up(x)'].children : node'[Up(x)'].children[i] = x
      <4>1. x \in live \ {c}
        BY <2>6
      <4>2. PICK p \in live : p = Up(x) /\ \E i \in DOMAIN Below(p) : Below(p)[i] = x
        BY <1>1, <3>2, <4>1 DEF ChildrenAreEntries
      <4>3. Up(x)' = p /\ p # c
        BY <2>8, <2>13, <4>1, <4>2
      <4>4. PICK i \in DOMAIN Below(p) : Below(p)[i] = x
        BY <4>2
      <4>5. CASE p = cwd
        <5>1. i \in 1 .. Len(s) /\ s[i] = x
          BY <2>1, <4>4, <4>5 DEF s
        <5>2. i # m
          BY <4>1, <5>1 DEF c
        <5>3. PICK k \in DOMAIN t : t[k] = x
          BY <2>12, <5>1, <5>2
        <5>4. node'[p].children = t
          BY <2>6, <4>5
        <5> QED BY <2>6, <4>3, <5>3, <5>4
      <4>6. CASE p # cwd
        <5>1. node'[p].children = Below(p)
          BY <2>6, <4>3, <4>6 DEF Below
        <5> QED BY <2>6, <4>3, <4>4, <5>1
      <4> QED BY <4>5, <4>6
    <3> QED BY <1>3, <3>1, <3>2 DEF ChildrenAreEntries, Below
  <2>18. HasLevels'
    <3>1. PICK h \in Nat : \E level \in [live -> 0 .. h] : Levels(level)
      BY <1>1 DEF HasLevels
    <3>2. PICK level \in [live -> 0 .. h] : Levels(level)
      BY <3>1
    <3>3. PICK fewer : fewer = [x \in live' |-> level[x]]
      OBVIOUS
    <3>4. \A x \in live' : fewer[x] = level[x] /\ x \in live \ {c}
      BY <2>6, <3>3
    <3>5. ASSUME NEW x \in live' \ {root} PROVE fewer[x] = fewer[Up(x)'] + 1
      <4>1. Up(x)' = Up(x) /\ level[x] = level[Up(x)] + 1
        BY <2>8, <3>2, <3>4 DEF Levels
      <4>2. Up(x) \in live'
        BY <1>1, <2>6, <2>13, <3>4 DEF ChildrenAreEntries
      <4> QED BY <3>4, <4>1, <4>2
    <3>6. fewer[root] = 0
      BY <1>2, <2>5, <2>6, <3>2, <3>4 DEF Levels
    <3>7. Levels(fewer)'
      BY <1>3, <3>5, <3>6 DEF Levels
    <3>8. fewer \in [live' -> 0 .. h]
      BY <2>6, <3>2, <3>3
    <3> QED BY <3>7, <3>8 DEF HasLevels
  <2>19. Reached(cwd)'
    <3>1. \A x \in live : x \in live' => Name(x)' = Name(x) /\ Up(x)' = Up(x)
      BY <2>6, <2>8
    <3>2. \A x \in live : x \in live' /\ x # cwd => Below(x)' = Below(x)
      BY <2>6, <2>8
    <3>3. \A x \in live : x \notin live' => Up(x) = cwd
      BY <2>5, <2>6
    <3> QED BY <1>0, <1>3, <3>1, <3>2, <3>3, WayStays
  <2> QED BY <1>0, <1>1, <1>3, <2>15, <2>16, <2>17, <2>18, <2>19 DEF FsInv, TreeInv
<1>6. \/ node' = node /\ result' = -1
      \/ /\ Named(cwd, n) # 0 /\ Removable(s[Named(cwd, n)]) /\ result' = 0
         /\ node' = [d \in live \ {s[Named(cwd, n)]} |->
                       IF d = cwd THEN [node[d] EXCEPT !.children = RemoveAt(@, Named(cwd, n))]
                       ELSE node[d]]
  BY DEF Rmdir, Below
<1> HIDE DEF s
<1> QED BY <1>4, <1>5, <1>6

\* fs_cleanup visits every node: each is below the root.
LEMMA AllVisited ==
  ASSUME TypeOK, root # NULL, TreeInv
  PROVE  Visited = live
<1>0. ChildrenAreEntries /\ HasLevels
  BY DEF TreeInv
<1>1. PICK h \in Nat : \E level \in [live -> 0 .. h] : Levels(level)
  BY <1>0 DEF HasLevels
<1>2. PICK level \in [live -> 0 .. h] : Levels(level)
  BY <1>1
<1>3. ASSUME NEW S \in SUBSET live, root \in S,
             \A m \in S : ToSet(node[m].children) \subseteq S
      PROVE  live \subseteq S
  <2> DEFINE T == {l \in Nat : \A n \in live : level[n] = l => n \in S}
  <2>1. \A n \in live : level[n] \in Nat
    BY <1>2
  <2>2. ASSUME NEW n \in live \ {root}
        PROVE  /\ Up(n) \in live /\ level[n] = level[Up(n)] + 1
               /\ Up(n) \in S => n \in S
    <3>1. Up(n) \in live /\ level[n] = level[Up(n)] + 1
      BY <1>0, <1>2 DEF ChildrenAreEntries, Levels
    <3>2. n \in ToSet(node[Up(n)].children)
      BY <1>0 DEF ChildrenAreEntries, Below, ToSet
    <3> QED BY <1>3, <3>1, <3>2
  <2>3. 0 \in T
    BY <1>3, <2>1, <2>2
  <2>4. ASSUME NEW l \in Nat, l \in T PROVE l + 1 \in T
    <3> SUFFICES ASSUME NEW n \in live, level[n] = l + 1 PROVE n \in S
      OBVIOUS
    <3>1. n # root
      BY <1>2 DEF Levels
    <3>2. Up(n) \in live /\ level[Up(n)] = l
      BY <2>1, <2>2, <3>1
    <3> QED BY <2>2, <2>4, <3>1, <3>2
  <2>5. Nat \subseteq T
    <3> HIDE DEF T
    <3> QED BY <2>3, <2>4, NatInductionOnSet
  <2> QED BY <2>1, <2>5
<1> QED BY <1>3 DEF Visited

LEMMA CleanupStep ==
  ASSUME FsInv, Cleanup
  PROVE  FsInv'
<1>1. TypeOK /\ root # NULL /\ TreeInv
  BY DEF FsInv, Cleanup
<1>2. live' = {}
  BY <1>1, AllVisited DEF Cleanup, live
<1>3. root' = NULL /\ cwd' = NULL /\ result' = result
  BY DEF Cleanup
<1>4. TypeOK'
  BY <1>1, <1>2, <1>3 DEF TypeOK
<1> QED BY <1>3, <1>4 DEF FsInv

LEMMA FsInvHolds == Spec => []FsInv
<1>1. Init => FsInv
  BY InitHolds
<1>2. FsInv /\ [Next]_vars => FsInv'
  <2> SUFFICES ASSUME FsInv, [Next]_vars PROVE FsInv'
    OBVIOUS
  <2>1. CASE \E path \in Paths : ChangeDirectory(path)
    BY <2>1, ChangeDirectoryStep
  <2>2. CASE \E n \in Names : Mkdir(n)
    BY <2>2, MkdirStep
  <2>3. CASE \E n \in Names : Rmdir(n)
    BY <2>3, RmdirStep
  <2>4. CASE Cleanup
    BY <2>4, CleanupStep
  <2>5. CASE UNCHANGED vars
    <3>1. node' = node /\ root' = root /\ cwd' = cwd /\ result' = result
      BY <2>5 DEF vars
    <3>2. live' = live /\ Node' = Node
      BY <3>1 DEF live, Node
    <3>3. TypeOK'
      BY <3>1, <3>2 DEF FsInv, TypeOK
    <3>4. ASSUME root # NULL PROVE TreeInv'
      <4>1. TypeOK /\ TreeInv
        BY <3>4 DEF FsInv
      <4>2. (EntriesAreChildren /\ ChildrenAreEntries /\ HasLevels)'
        BY <3>1, <4>1
        DEF TreeInv, EntriesAreChildren, ChildrenAreEntries, HasLevels, Levels, live, Below, Up
      <4>3. PICK c : c = cwd
        OBVIOUS
      <4>4. Reached(c)'
        BY <3>1, <4>1, <4>3, ReachedStays DEF TreeInv
      <4>5. Reached(cwd)'
        BY <3>1, <4>3, <4>4 DEF Reached, Way
      <4> QED BY <3>1, <4>1, <4>2, <4>5 DEF TreeInv
    <3> QED BY <3>1, <3>3, <3>4 DEF FsInv
  <2> QED BY <2>1, <2>2, <2>3, <2>4, <2>5 DEF Next
<1> QED BY <1>1, <1>2, PTL DEF Spec

-----------------------------------------------------------------------------
(* The theorems.                                                           *)

\* No pointer of fs.cpp dangles: parents, entries of arrays, the root and the current
\* directory are nodes that are allocated, whatever the order of mkdir, rmdir and cd.
THEOREM TypeOKHolds == Spec => []TypeOK
<1>1. FsInv => TypeOK
  BY DEF FsInv
<1> QED BY <1>1, FsInvHolds, PTL

\* Arrays of children and parent pointers describe the same tree, also after rmdir has
\* moved the entries behind the one it takes out.
THEOREM LinksAgreeHolds == Spec => []LinksAgree
<1>1. ASSUME FsInv, root # NULL, NEW d \in live, NEW n \in Nodes
      PROVE  Cardinality({i \in DOMAIN node[d].children : node[d].children[i] = n})
               = IF n \in live /\ node[n].parent = d THEN 1 ELSE 0
  <2> DEFINE s == Below(d)
             I == {i \in DOMAIN s : s[i] = n}
  <2>1. TypeOK /\ EntriesAreChildren /\ ChildrenAreEntries
    BY <1>1 DEF FsInv, TreeInv
  <2>2. CASE n \in live /\ Up(n) = d
    <3>1. n # root
      BY <2>1, <2>2, NodeTypes DEF ChildrenAreEntries
    <3>2. PICK i \in DOMAIN s : s[i] = n
      BY <2>1, <2>2, <3>1 DEF ChildrenAreEntries
    <3>3. I = {i}
      BY <2>1, <3>2 DEF EntriesAreChildren
    <3>4. Cardinality(I) = 1
      <4> HIDE DEF I
      <4> QED BY <3>3, FS_Singleton
    <3> QED BY <2>2, <3>4 DEF Below, Up
  <2>3. CASE ~ (n \in live /\ Up(n) = d)
    <3>1. I = {}
      <4>1. \A i \in DOMAIN s : s[i] \in live /\ Up(s[i]) = d
        BY <2>1, NodeTypes DEF EntriesAreChildren
      <4> QED BY <2>3, <4>1
    <3>2. Cardinality(I) = 0
      <4> HIDE DEF I
      <4> QED BY <3>1, FS_EmptySet
    <3> QED BY <2>3, <3>2 DEF Below, Up
  <2> QED BY <2>2, <2>3
<1>2. FsInv => LinksAgree
  BY <1>1 DEF LinksAgree
<1> QED BY <1>2, FsInvHolds, PTL

\* What pwd prints leads cd back to where it was printed, exactly as long as the buffers
\* have room for all bytes of the path and split_path for all of its components.
THEOREM PwdRoundTripHolds == Spec => []PwdRoundTrip
<1>1. FsInv => PwdRoundTrip
  BY RoundTrip DEF FsInv, PwdRoundTrip
<1> QED BY <1>1, FsInvHolds, PTL

-----------------------------------------------------------------------------
(* The tree of paths.                                                      *)

\* The paths of all nodes.
Dirs == {PathOf(n) : n \in live}

\* The path of a node that is not the root is its parent's with its name at the end.
PathFacts ==
  root # NULL =>
    \A n \in live : /\ PathOf(n) \in Seq(Components)
                    /\ PathOf(n) = IF n = root THEN <<>> ELSE Append(PathOf(Up(n)), Name(n))

\* The way up that pwd takes ends, so the equation of its recursion holds for every node.
LEMMA PathFactsHold == FsInv => PathFacts
<1> SUFFICES ASSUME FsInv, root # NULL
             PROVE  \A n \in live :
                      /\ PathOf(n) \in Seq(Components)
                      /\ PathOf(n) = IF n = root THEN <<>> ELSE Append(PathOf(Up(n)), Name(n))
  BY DEF PathFacts
<1>0. TypeOK /\ ChildrenAreEntries /\ HasLevels
  BY DEF FsInv, TreeInv
<1>1. \A n \in live : PathOf(n) = IF n = root THEN <<>> ELSE Append(PathOf(Up(n)), Name(n))
  BY <1>0, PathOfEquation
<1>2. PICK h \in Nat : \E level \in [live -> 0 .. h] : Levels(level)
  BY <1>0 DEF HasLevels
<1>3. PICK level \in [live -> 0 .. h] : Levels(level)
  BY <1>2
<1>4. \A n \in live : level[n] \in Nat
  BY <1>3
<1> DEFINE S == Seq(Components)
           T == {k \in Nat : \A n \in live : level[n] = k => PathOf(n) \in S}
<1>5. ASSUME NEW n \in live \ {root} PROVE Up(n) \in live /\ level[n] = level[Up(n)] + 1
  BY <1>0, <1>3 DEF ChildrenAreEntries, Levels
<1>6. 0 \in T
  <2>1. ASSUME NEW n \in live, level[n] = 0 PROVE n = root
    <3> SUFFICES ASSUME n # root PROVE FALSE
      OBVIOUS
    <3> QED BY <1>4, <1>5, <2>1
  <2>2. <<>> \in S
    BY EmptySeq
  <2> HIDE DEF S
  <2> QED BY <1>1, <2>1, <2>2
<1>7. ASSUME NEW k \in Nat, k \in T PROVE k + 1 \in T
  <2> SUFFICES ASSUME NEW n \in live, level[n] = k + 1 PROVE PathOf(n) \in S
    OBVIOUS
  <2>1. n # root
    BY <1>3 DEF Levels
  <2>2. Up(n) \in live /\ level[Up(n)] = k
    BY <1>4, <1>5, <2>1
  <2>3. PICK p \in S : p = PathOf(Up(n))
    BY <1>7, <2>2
  <2>4. PICK x \in Components : x = Name(n)
    BY <1>0, NodeTypes DEF Components
  <2>5. Append(p, x) \in S
    BY AppendProperties
  <2> QED BY <1>1, <2>1, <2>3, <2>4, <2>5
<1>8. Nat \subseteq T
  <2> HIDE DEF T
  <2> QED BY <1>6, <1>7, NatInductionOnSet
<1> QED BY <1>1, <1>4, <1>8

\* Names that are not cut to the same tell nodes apart, and so do paths.
LEMMA PathsApart ==
  ASSUME FsInv, PathFacts, root # NULL, NoDuplicates
  PROVE  \A n, m \in live : PathOf(n) = PathOf(m) => n = m
<1>0. TypeOK /\ EntriesAreChildren /\ ChildrenAreEntries
  BY DEF FsInv, TreeInv
<1>1. ASSUME NEW n \in live \ {root}, NEW m \in live \ {root}, Up(n) = Up(m), Name(n) = Name(m)
      PROVE  n = m
  <2>1. PICK d \in live : d = Up(n) /\ d = Up(m)
    BY <1>0, <1>1 DEF ChildrenAreEntries
  <2>2. PICK i \in DOMAIN Below(d) : Below(d)[i] = n
    BY <1>0, <2>1 DEF ChildrenAreEntries
  <2>3. PICK k \in DOMAIN Below(d) : Below(d)[k] = m
    BY <1>0, <2>1 DEF ChildrenAreEntries
  <2>4. Name(Below(d)[i]) = Name(Below(d)[k])
    BY <1>1, <2>2, <2>3
  <2>5. i = k
    BY <2>4 DEF NoDuplicates, Name, Below
  <2> QED BY <2>2, <2>3, <2>5
<1> DEFINE T == {l \in Nat : \A n, m \in live : Len(PathOf(n)) = l /\ PathOf(n) = PathOf(m) => n = m}
<1>2. \A n \in live : PathOf(n) \in Seq(Components) /\ Len(PathOf(n)) \in Nat
  BY LenProperties DEF PathFacts
<1>3. ASSUME NEW n \in live \ {root}
      PROVE  /\ Up(n) \in live /\ Name(n) \in Components
             /\ PathOf(n) = Append(PathOf(Up(n)), Name(n))
             /\ Len(PathOf(n)) = Len(PathOf(Up(n))) + 1
  <2>1. Up(n) \in live /\ Name(n) \in Components /\ PathOf(n) = Append(PathOf(Up(n)), Name(n))
    BY <1>0, NodeTypes DEF ChildrenAreEntries, PathFacts, Components
  <2>2. PICK p \in Seq(Components) : p = PathOf(Up(n))
    BY <1>2, <2>1
  <2>3. Len(Append(p, Name(n))) = Len(p) + 1
    BY <2>1, AppendProperties
  <2> QED BY <2>1, <2>2, <2>3
<1>4. Len(PathOf(root)) = 0 /\ root \in live
  BY EmptySeq, <1>0 DEF PathFacts, TypeOK
<1>5. 0 \in T
  BY <1>2, <1>3, <1>4
<1>6. ASSUME NEW l \in Nat, l \in T PROVE l + 1 \in T
  <2> SUFFICES ASSUME NEW n \in live, NEW m \in live, Len(PathOf(n)) = l + 1, PathOf(n) = PathOf(m)
               PROVE  n = m
    OBVIOUS
  <2>1. n # root /\ m # root
    BY <1>4
  <2>2. PICK p \in Seq(Components), x \in Components : p = PathOf(Up(n)) /\ x = Name(n)
    BY <1>2, <1>3, <2>1
  <2>3. PICK q \in Seq(Components), y \in Components : q = PathOf(Up(m)) /\ y = Name(m)
    BY <1>2, <1>3, <2>1
  <2>4. Append(p, x) = Append(q, y)
    BY <1>3, <2>1, <2>2, <2>3
  <2>5. p = q /\ x = y
    BY <2>4, AppendInjective
  <2>6. Up(n) \in live /\ Up(m) \in live /\ Len(PathOf(Up(n))) = l
    BY <1>2, <1>3, <2>1
  <2>7. Up(n) = Up(m)
    BY <1>6, <2>2, <2>3, <2>5, <2>6
  <2> QED BY <1>1, <2>1, <2>2, <2>3, <2>5, <2>7
<1>7. Nat \subseteq T
  <2> HIDE DEF T
  <2> QED BY <1>5, <1>6, NatInductionOnSet
<1> QED BY <1>2, <1>7

\* The path below d that ends with x is one of the tree exactly if d has an entry of that
\* name, and then it is the path of that entry.
LEMMA EntryPath ==
  ASSUME FsInv, PathFacts, root # NULL, NoDuplicates, NEW d \in live, NEW x \in Components
  PROVE  /\ Named(d, x) = 0 => Append(PathOf(d), x) \notin Dirs
         /\ Named(d, x) # 0 =>
              /\ Named(d, x) \in DOMAIN Below(d)
              /\ Below(d)[Named(d, x)] \in live \ {root} /\ Up(Below(d)[Named(d, x)]) = d
              /\ PathOf(Below(d)[Named(d, x)]) = Append(PathOf(d), x)
<1>0. TypeOK /\ EntriesAreChildren /\ ChildrenAreEntries
  BY DEF FsInv, TreeInv
<1>1. ASSUME Named(d, x) = 0, Append(PathOf(d), x) \in Dirs PROVE FALSE
  <2>1. PICK n \in live : PathOf(n) = Append(PathOf(d), x)
    BY <1>1 DEF Dirs
  <2>2. PICK p \in Seq(Components) : p = PathOf(d)
    BY DEF PathFacts
  <2>3. n # root
    BY <2>1, <2>2, AppendProperties DEF PathFacts
  <2>4. Up(n) \in live /\ Name(n) \in Components /\ PathOf(n) = Append(PathOf(Up(n)), Name(n))
    BY <1>0, <2>3, NodeTypes DEF ChildrenAreEntries, PathFacts, Components
  <2>5. PICK q \in Seq(Components) : q = PathOf(Up(n))
    BY <2>4 DEF PathFacts
  <2>6. p = q /\ x = Name(n)
    <3>1. PICK y \in Components : y = Name(n)
      BY <2>4
    <3>2. Append(p, x) = Append(q, y)
      BY <2>1, <2>2, <2>4, <2>5, <3>1
    <3>3. p = q /\ x = y
      BY <3>2, AppendInjective
    <3> QED BY <3>1, <3>3
  <2>7. Up(n) = d
    BY <2>2, <2>4, <2>5, <2>6, PathsApart
  <2>8. \E i \in DOMAIN Below(d) : Name(Below(d)[i]) = x
    BY <1>0, <2>3, <2>6, <2>7 DEF ChildrenAreEntries
  <2>9. Named(d, x) \in DOMAIN Below(d) /\ DOMAIN Below(d) = 1 .. Len(Below(d)) /\ Len(Below(d)) \in Nat
    BY <1>0, <2>8, NamedIsFirst, NodeTypes
  <2> QED BY <1>1, <2>9
<1>2. ASSUME Named(d, x) # 0
      PROVE  /\ Named(d, x) \in DOMAIN Below(d)
             /\ Below(d)[Named(d, x)] \in live \ {root} /\ Up(Below(d)[Named(d, x)]) = d
             /\ PathOf(Below(d)[Named(d, x)]) = Append(PathOf(d), x)
  <2>1. PICK i : i = Named(d, x)
    OBVIOUS
  <2>2. i \in DOMAIN Below(d) /\ Name(Below(d)[i]) = x
    BY <1>0, <1>2, <2>1, NamedIsFirst
  <2>3. PICK n \in live : n = Below(d)[i]
    BY <1>0, <2>2, NodeTypes
  <2>4. Up(n) = d
    BY <1>0, <2>2, <2>3 DEF EntriesAreChildren
  <2>5. n # root
    BY <1>0, <2>4, NodeTypes DEF ChildrenAreEntries
  <2>6. PathOf(n) = Append(PathOf(d), x)
    BY <2>2, <2>3, <2>4, <2>5 DEF PathFacts
  <2> QED BY <2>1, <2>2, <2>3, <2>4, <2>5, <2>6
<1> QED BY <1>1, <1>2

\* Every step of cd follows the path, and fails exactly where the path leaves the tree.
LEMMA StepFollows ==
  ASSUME FsInv, PathFacts, root # NULL, NoDuplicates, NEW d \in live, NEW x \in Names \union {".", ".."}
  PROVE  /\ Step(d, x) # NULL => Step(d, x) \in live /\ PathOf(Step(d, x)) = Tree!Follow(PathOf(d), x)
         /\ Step(d, x) = NULL => Tree!Follow(PathOf(d), x) \notin Dirs
<1>0. TypeOK /\ ChildrenAreEntries /\ d # NULL /\ x \in Components
  BY NodeTypes DEF FsInv, TreeInv, Components
<1>1. CASE x = "."
  BY <1>0, <1>1 DEF Step, Tree!Follow
<1>2. CASE x = ".."
  <2>1. Step(d, x) = Parent(d) /\ Tree!Follow(PathOf(d), x) = IF PathOf(d) = <<>> THEN PathOf(d) ELSE Tree!Front(PathOf(d))
    BY <1>0, <1>2 DEF Step, Tree!Follow
  <2>2. CASE d = root
    BY <1>0, <2>1, <2>2 DEF Parent, ChildrenAreEntries, Up, PathFacts
  <2>3. CASE d # root
    <3>1. /\ Up(d) \in live /\ Up(d) # NULL /\ Parent(d) = Up(d)
          /\ PathOf(d) = Append(PathOf(Up(d)), Name(d))
      BY <1>0, <2>3, NodeTypes DEF ChildrenAreEntries, Parent, Up, PathFacts
    <3>2. PICK p \in Seq(Components), y \in Components : p = PathOf(Up(d)) /\ y = Name(d)
      BY <1>0, <3>1, NodeTypes DEF PathFacts, Components
    <3>3. Append(p, y) # <<>> /\ Tree!Front(Append(p, y)) = p
      <4>1. /\ Append(p, y) \in Seq(Components) /\ Append(p, y) # <<>> /\ Len(Append(p, y)) = Len(p) + 1
            /\ Len(p) \in Nat /\ \A i \in 1 .. Len(p) : Append(p, y)[i] = p[i]
        BY AppendProperties, LenProperties
      <4>2. Tree!Front(Append(p, y)) = SubSeq(Append(p, y), 1, Len(p))
        BY <4>1 DEF Tree!Front
      <4>3. SubSeq(Append(p, y), 1, Len(p)) = p
        BY <4>1, SubSeqProperties, SeqEqual
      <4> QED BY <4>1, <4>2, <4>3
    <3> QED BY <2>1, <3>1, <3>2, <3>3
  <2> QED BY <2>2, <2>3
<1>3. CASE x \notin {".", ".."}
  <2>1. /\ Tree!Follow(PathOf(d), x) = Append(PathOf(d), x)
        /\ Step(d, x) = IF Named(d, x) # 0 THEN Below(d)[Named(d, x)] ELSE NULL
    BY <1>0, <1>3 DEF Step, Tree!Follow, Below
  <2>2. CASE Named(d, x) = 0
    BY <1>0, <2>1, <2>2, EntryPath
  <2>3. CASE Named(d, x) # 0
    <3>1. PICK n \in live : n = Step(d, x) /\ PathOf(n) = Append(PathOf(d), x)
      BY <1>0, <2>1, <2>3, EntryPath
    <3>2. n # NULL
      BY <1>0, NodeTypes
    <3> QED BY <2>1, <3>1, <3>2
  <2> QED BY <2>2, <2>3
<1> QED BY <1>1, <1>2, <1>3

\* The paths that a walk passes, one after the other.
LEMMA WalkUnfolds ==
  ASSUME NEW start, NEW comps, Len(comps) \in Nat
  PROVE  /\ DOMAIN Tree!Walk(start, comps) = 0 .. Len(comps)
         /\ Tree!Walk(start, comps)[0] = start
         /\ \A k \in 1 .. Len(comps) :
              Tree!Walk(start, comps)[k] = Tree!Follow(Tree!Walk(start, comps)[k - 1], comps[k])
<1> DEFINE K == Len(comps)
           next(f, k) == IF k = 0 THEN start ELSE Tree!Follow(f[k - 1], comps[k])
           good(f, m) == f = [k \in 0 .. m |-> next(f, k)]
           T == {m \in Nat : m <= K => \E f : good(f, m)}
<1>1. \A f, m : good(f, m) => \A k \in 0 .. m : f[k] = next(f, k)
  OBVIOUS
<1> HIDE DEF K
<1>2. Nat \subseteq T
  <2>1. 0 \in T
    <3> DEFINE f0 == [k \in 0 .. 0 |-> start]
    <3>1. good(f0, 0)
      OBVIOUS
    <3> HIDE DEF good, f0
    <3> QED BY <3>1
  <2>2. ASSUME NEW m \in Nat, m \in T PROVE m + 1 \in T
    <3> SUFFICES ASSUME m + 1 <= K PROVE \E g : good(g, m + 1)
      <4> HIDE DEF good
      <4> QED OBVIOUS
    <3>1. PICK f : good(f, m)
      <4> HIDE DEF good
      <4> QED BY <2>2 DEF K
    <3> DEFINE g == [k \in 0 .. m + 1 |-> IF k <= m THEN f[k] ELSE next(f, m + 1)]
    <3>3. \A k \in 0 .. m : f[k] = next(f, k)
      BY <1>1, <3>1
    <3>4. ASSUME NEW k \in 0 .. m + 1 PROVE g[k] = next(g, k)
      <4>1. CASE k = 0
        BY <3>3, <4>1
      <4>2. CASE k # 0
        <5>1. k - 1 \in 0 .. m
          BY <4>2
        <5>2. g[k - 1] = f[k - 1]
          BY <5>1
        <5>3. g[k] = next(f, k)
          BY <3>3
        <5> HIDE DEF g
        <5> QED BY <5>2, <5>3, <4>2
      <4> QED BY <4>1, <4>2
    <3>5. good(g, m + 1)
      <4>1. g = [k \in 0 .. m + 1 |-> g[k]]
        OBVIOUS
      <4> HIDE DEF g, next
      <4> QED BY <3>4, <4>1
    <3> QED BY <3>5
  <2> HIDE DEF T
  <2> QED BY <2>1, <2>2, NatInductionOnSet
<1>3. PICK f : f = CHOOSE g : good(g, K)
  OBVIOUS
<1>4. good(f, K)
  <2>1. \E g : good(g, K)
    BY <1>2 DEF K
  <2> HIDE DEF good
  <2> QED BY <1>3, <2>1
<1>5. Tree!Walk(start, comps) = f
  BY <1>3 DEF Tree!Walk, K
<1>6. \A k \in 0 .. K : f[k] = next(f, k)
  BY <1>1, <1>4
<1>7. DOMAIN f = 0 .. K
  BY <1>4
<1>8. f[0] = start /\ \A k \in 1 .. K : f[k] = Tree!Follow(f[k - 1], comps[k])
  <2>1. \A k \in 1 .. K : k \in 0 .. K /\ k # 0
    BY DEF K
  <2>2. 0 \in 0 .. K
    BY DEF K
  <2> QED BY <1>6, <2>1, <2>2
<1> HIDE DEF good
<1> QED BY <1>5, <1>7, <1>8 DEF K

\* cd finds a directory exactly if every path on the way is one of the tree.
LEMMA WalkMatches ==
  ASSUME FsInv, PathFacts, root # NULL, NoDuplicates, NEW d \in live,
         NEW comps \in Seq(Names \union {".", ".."})
  PROVE  LET w == Tree!Walk(PathOf(d), comps) IN
         /\ FindNode(d, comps) # NULL =>
              /\ FindNode(d, comps) \in live /\ w[Len(comps)] = PathOf(FindNode(d, comps))
              /\ \A k \in DOMAIN w : w[k] \in Dirs
         /\ FindNode(d, comps) = NULL => ~ \A k \in DOMAIN w : w[k] \in Dirs
<1> DEFINE L == Len(comps)
<1>1. L \in Nat /\ \A k \in 1 .. L : comps[k] \in Names \union {".", ".."}
  BY LenProperties, ElementOfSeq
<1>2. PICK f : /\ f[0] = d
               /\ \A k \in 1 .. L : f[k] = Step(f[k - 1], comps[k])
               /\ FindNode(d, comps) = f[L]
  BY <1>1, FindNodeWalks
<1>3. PICK w : w = Tree!Walk(PathOf(d), comps)
  OBVIOUS
<1>4. /\ DOMAIN w = 0 .. L /\ w[0] = PathOf(d)
      /\ \A k \in 1 .. L : w[k] = Tree!Follow(w[k - 1], comps[k])
  BY <1>1, <1>3, WalkUnfolds
<1> HIDE DEF L
<1> DEFINE fits(k) == \/ /\ f[k] # NULL /\ f[k] \in live /\ w[k] = PathOf(f[k])
                         /\ \A j \in 0 .. k : w[j] \in Dirs
                      \/ f[k] = NULL /\ \E j \in 0 .. k : w[j] \notin Dirs
           T == {k \in Nat : k <= L => fits(k)}
<1>5. 0 \in T
  <2>1. d # NULL /\ PathOf(d) \in Dirs
    BY NodeTypes DEF FsInv, Dirs
  <2> QED BY <1>2, <1>4, <2>1
<1>6. ASSUME NEW k \in Nat, k \in T, k + 1 <= L PROVE fits(k + 1)
  <2>1. /\ k + 1 \in 1 .. L /\ (k + 1) - 1 = k /\ fits(k)
        /\ \A j \in 0 .. k + 1 : j \in 0 .. k \/ j = k + 1
        /\ k + 1 \in 0 .. k + 1 /\ 0 .. k \subseteq 0 .. k + 1
    BY <1>1, <1>6
  <2>2. f[k + 1] = Step(f[k], comps[k + 1]) /\ w[k + 1] = Tree!Follow(w[k], comps[k + 1])
    BY <1>2, <1>4, <2>1
  <2>3. CASE f[k] = NULL
    <3>1. f[k + 1] = NULL
      BY <2>2, <2>3 DEF Step
    <3> QED BY <2>1, <2>3, <3>1
  <2>4. CASE f[k] # NULL
    <3>1. PICK c \in live : c = f[k] /\ w[k] = PathOf(c) /\ \A j \in 0 .. k : w[j] \in Dirs
      BY <2>1, <2>4
    <3>2. PICK x \in Names \union {".", ".."} : x = comps[k + 1]
      BY <1>1, <2>1
    <3>3. f[k + 1] = Step(c, x) /\ w[k + 1] = Tree!Follow(PathOf(c), x)
      BY <2>2, <3>1, <3>2
    <3>4. f[k + 1] # NULL => f[k + 1] \in live /\ w[k + 1] = PathOf(f[k + 1]) /\ w[k + 1] \in Dirs
      BY <3>3, StepFollows DEF Dirs
    <3>5. f[k + 1] = NULL => w[k + 1] \notin Dirs
      BY <3>3, StepFollows
    <3> QED BY <2>1, <3>1, <3>4, <3>5
  <2> QED BY <2>3, <2>4
<1>7. Nat \subseteq T
  <2>1. \A k \in Nat : k \in T => k + 1 \in T
    <3> HIDE DEF fits
    <3> QED BY <1>6
  <2> HIDE DEF T
  <2> QED BY <1>5, <2>1, NatInductionOnSet
<1>8. fits(L)
  <2> HIDE DEF fits
  <2> QED BY <1>1, <1>7
<1> QED BY <1>2, <1>3, <1>4, <1>8 DEF L

\* An operation that links nothing changes no path.
LEMMA SamePaths ==
  ASSUME node' = node, root' = root
  PROVE  /\ \A d : PathOf(d)' = PathOf(d)
         /\ Dirs' = Dirs
BY DEF PathOf, Dirs, live

\* cd does what the tree of paths does with what is left of the path.
LEMMA CdAsAsked ==
  ASSUME FsInv, PathFacts, NoDuplicates, NEW path \in Paths, ChangeDirectory(path)
  PROVE  Cut(path) \in Paths /\ Tree!Cd(Cut(path))
<1>0. root # NULL /\ root \in live /\ cwd \in live /\ node' = node /\ root' = root
  BY DEF FsInv, TreeInv, TypeOK, ChangeDirectory
<1>1. PICK d \in live : d = Start(path)
  BY <1>0 DEF Start
<1>2. PICK comps \in Seq(Names \union {".", ".."}) : comps = Cut(path).comps
  BY FsAssumption, PathsAssumption
<1>3. PathOf(d) = IF path.absolute THEN <<>> ELSE PathOf(cwd)
  BY <1>0, <1>1 DEF Start, PathFacts
<1>4. PICK w : w = Tree!Walk(PathOf(d), comps)
  OBVIOUS
<1>5. PICK target : target = FindNode(d, comps)
  OBVIOUS
<1>6. /\ target # NULL => /\ target \in live /\ w[Len(comps)] = PathOf(target)
                          /\ \A k \in DOMAIN w : w[k] \in Dirs
      /\ target = NULL => ~ \A k \in DOMAIN w : w[k] \in Dirs
  BY <1>0, <1>2, <1>4, <1>5, WalkMatches
<1>7. (\A e : PathOf(e)' = PathOf(e)) /\ Dirs' = Dirs
  BY <1>0, SamePaths
<1>8. IF \A k \in DOMAIN w : w[k] \in Dirs
      THEN PathOf(cwd)' = w[Len(comps)] /\ result' = 0
      ELSE result' = -1 /\ PathOf(cwd)' = PathOf(cwd)
  <2>1. CASE target # NULL
    <3>1. cwd' = target /\ result' = 0
      BY <1>1, <1>2, <1>5, <2>1 DEF ChangeDirectory, Target
    <3>2. PathOf(cwd)' = PathOf(target)
      <4>1. PathOf(target)' = PathOf(target)
        BY <1>7
      <4>2. PathOf(cwd)' = PathOf(target)'
        BY <3>1 DEF PathOf
      <4> QED BY <4>1, <4>2
    <3> QED BY <1>6, <2>1, <3>1, <3>2
  <2>2. CASE target = NULL
    <3>1. cwd' = cwd /\ result' = -1
      BY <1>1, <1>2, <1>5, <2>2 DEF ChangeDirectory, Target
    <3>2. PICK c : c = cwd
      OBVIOUS
    <3>3. PathOf(c)' = PathOf(c)
      BY <1>7
    <3>4. PathOf(cwd)' = PathOf(cwd)
      <4>1. PathOf(cwd)' = PathOf(c)'
        BY <3>1, <3>2 DEF PathOf
      <4> QED BY <3>2, <3>3, <4>1
    <3> QED BY <1>6, <2>2, <3>1, <3>4
  <2> QED BY <2>1, <2>2
<1>9. Cut(path) \in Paths /\ Cut(path).absolute = path.absolute
  BY PathsAssumption DEF Cut
<1>10. w = Tree!Walk(IF Cut(path).absolute THEN <<>> ELSE PathOf(cwd), Cut(path).comps)
  BY <1>2, <1>3, <1>4, <1>9
<1> QED BY <1>2, <1>7, <1>8, <1>9, <1>10 DEF Tree!Cd, Dirs

\* A path with one more component is right below p exactly if it extends p.
LEMMA PrefixOfAppend ==
  ASSUME NEW S, NEW p \in Seq(S), NEW r \in Seq(S), NEW y \in S
  PROVE  Len(Append(r, y)) = Len(p) + 1 /\ Tree!IsPrefix(p, Append(r, y)) <=> p = r
<1> DEFINE q == Append(r, y)
<1>1. /\ Len(p) \in Nat /\ Len(r) \in Nat /\ Len(q) = Len(r) + 1 /\ q \in Seq(S)
      /\ \A i \in 1 .. Len(r) : q[i] = r[i]
  BY AppendProperties, LenProperties
<1> HIDE DEF q
<1>2. SubSeq(p, 1, Len(p)) = p
  <2>1. \A i \in 1 .. Len(p) : p[i] \in S
    BY ElementOfSeq
  <2> QED BY <1>1, <2>1, SubSeqProperties, SeqEqual
<1>3. SubSeq(q, 1, Len(r)) = r
  <2>1. \A i \in 1 .. Len(r) : r[i] \in S /\ q[i] \in S
    BY <1>1, ElementOfSeq
  <2> QED BY <1>1, <2>1, SubSeqProperties, SeqEqual
<1>4. Len(p) = Len(r) => (Tree!IsPrefix(p, q) <=> p = r)
  BY <1>1, <1>2, <1>3 DEF Tree!IsPrefix
<1> QED BY <1>1, <1>4 DEF q

\* The subdirectories of a node are the paths of its entries, and there are as many.
LEMMA SubdirsAreEntries ==
  ASSUME FsInv, PathFacts, root # NULL, NoDuplicates, NEW d \in live
  PROVE  /\ Tree!Subdirs(PathOf(d)) = {PathOf(Below(d)[i]) : i \in DOMAIN Below(d)}
         /\ Cardinality(Tree!Subdirs(PathOf(d))) = Len(Below(d))
<1>0. TypeOK /\ EntriesAreChildren /\ ChildrenAreEntries
  BY DEF FsInv, TreeInv
<1> DEFINE s == Below(d)
           D == {PathOf(s[i]) : i \in DOMAIN s}
<1>1. PICK p \in Seq(Components) : p = PathOf(d)
  BY DEF PathFacts
<1>2. Len(s) \in Nat /\ DOMAIN s = 1 .. Len(s) /\ \A i \in DOMAIN s : s[i] \in live
  BY <1>0, NodeTypes
<1> HIDE DEF s
<1>3. ASSUME NEW m \in live \ {root}
      PROVE  Len(PathOf(m)) = Len(p) + 1 /\ Tree!IsPrefix(p, PathOf(m)) <=> Up(m) = d
  <2>1. /\ Up(m) \in live /\ Name(m) \in Components /\ PathOf(m) = Append(PathOf(Up(m)), Name(m))
        /\ PathOf(Up(m)) \in Seq(Components)
    BY <1>0, NodeTypes DEF ChildrenAreEntries, PathFacts, Components
  <2>2. PICK r \in Seq(Components), y \in Components : r = PathOf(Up(m)) /\ y = Name(m)
    BY <2>1
  <2>3. Len(PathOf(m)) = Len(p) + 1 /\ Tree!IsPrefix(p, PathOf(m)) <=> p = r
    <3>1. PathOf(m) = Append(r, y)
      BY <2>1, <2>2
    <3> QED BY <3>1, PrefixOfAppend
  <2>4. p = r <=> Up(m) = d
    BY <1>1, <2>1, <2>2, PathsApart
  <2> QED BY <2>3, <2>4
<1>4. ASSUME NEW m \in live PROVE Len(PathOf(m)) = Len(p) + 1 /\ Tree!IsPrefix(p, PathOf(m)) <=> \E i \in DOMAIN s : s[i] = m
  <2>1. CASE m = root
    <3>1. PathOf(m) = <<>> /\ Len(<<>>) = 0 /\ Len(p) \in Nat
      BY <2>1, EmptySeq, LenProperties DEF PathFacts
    <3>2. ~ \E i \in DOMAIN s : s[i] = m
      BY <1>0, <2>1, NodeTypes DEF EntriesAreChildren, ChildrenAreEntries, s
    <3> QED BY <3>1, <3>2
  <2>2. CASE m # root
    <3>1. Up(m) = d <=> \E i \in DOMAIN s : s[i] = m
      BY <1>0, <2>2 DEF EntriesAreChildren, ChildrenAreEntries, s
    <3> QED BY <1>3, <2>2, <3>1
  <2> QED BY <2>1, <2>2
<1>5. Tree!Subdirs(p) = {q \in Dirs : Len(q) = Len(p) + 1 /\ Tree!IsPrefix(p, q)}
  BY DEF Tree!Subdirs, Dirs
<1>6. Tree!Subdirs(p) = D
  <2>1. ASSUME NEW q \in Tree!Subdirs(p) PROVE q \in D
    <3>1. PICK m \in live : q = PathOf(m) /\ Len(q) = Len(p) + 1 /\ Tree!IsPrefix(p, q)
      BY <1>5, <2>1 DEF Dirs
    <3> QED BY <1>4, <3>1
  <2>2. ASSUME NEW i \in DOMAIN s PROVE PathOf(s[i]) \in Tree!Subdirs(p)
    <3>1. PICK m \in live : m = s[i]
      BY <1>2
    <3>2. PathOf(m) \in Dirs /\ Len(PathOf(m)) = Len(p) + 1 /\ Tree!IsPrefix(p, PathOf(m))
      BY <1>4, <3>1 DEF Dirs
    <3> QED BY <1>5, <3>1, <3>2
  <2> QED BY <2>1, <2>2
<1>7. Cardinality(D) = Len(s)
  <2> DEFINE f == [i \in 1 .. Len(s) |-> PathOf(s[i])]
  <2>1. \A i \in DOMAIN s : f[i] = PathOf(s[i]) /\ f[i] \in D
    BY <1>2
  <2>2. f \in [1 .. Len(s) -> D]
    BY <1>2
  <2>3. \A i, k \in 1 .. Len(s) : f[i] = f[k] => i = k
    <3>1. \A i, k \in 1 .. Len(s) : s[i] = s[k] => i = k
      BY <1>0, <1>2 DEF EntriesAreChildren, s
    <3>2. ASSUME NEW i \in 1 .. Len(s), NEW k \in 1 .. Len(s), f[i] = f[k] PROVE s[i] = s[k]
      <4>1. s[i] \in live /\ s[k] \in live /\ PathOf(s[i]) = PathOf(s[k])
        BY <1>2, <3>2
      <4> QED BY <4>1, PathsApart
    <3> QED BY <3>1, <3>2
  <2>4. \A q \in D : \E i \in 1 .. Len(s) : f[i] = q
    BY <1>2
  <2>5. f \in Bijection(1 .. Len(s), D)
    <3> HIDE DEF f, D
    <3> QED BY <2>2, <2>3, <2>4 DEF Bijection, Injection, Surjection, IsInjective
  <2> HIDE DEF f, D
  <2>6. ExistsBijection(1 .. Len(s), D)
    BY <2>5 DEF ExistsBijection
  <2> QED BY <1>2, <2>6, FS_CountingElements
<1> QED BY <1>1, <1>6, <1>7 DEF s

\* Where names and parents stay, so do paths.
LEMMA PathsStay ==
  ASSUME FsInv, FsInv', PathFacts, PathFacts', root # NULL, root' = root,
         \A m \in live \intersect live' : Name(m)' = Name(m) /\ Up(m)' = Up(m)
  PROVE  \A m \in live \intersect live' : PathOf(m)' = PathOf(m)
<1>0. ChildrenAreEntries /\ HasLevels /\ (ChildrenAreEntries)'
  BY DEF FsInv, TreeInv
<1>1. PICK h \in Nat : \E level \in [live -> 0 .. h] : Levels(level)
  BY <1>0 DEF HasLevels
<1>2. PICK level \in [live -> 0 .. h] : Levels(level)
  BY <1>1
<1>3. \A n \in live : level[n] \in Nat
  BY <1>2
<1> DEFINE both == live \intersect live'
           T == {k \in Nat : \A m \in both : level[m] = k => PathOf(m)' = PathOf(m)}
<1>4. ASSUME NEW m \in both, m # root
      PROVE  \E u \in both : /\ level[m] = level[u] + 1
                            /\ PathOf(m) = Append(PathOf(u), Name(m))
                            /\ PathOf(m)' = Append(PathOf(u)', Name(m))
  <2>1. PICK u \in live : u = Up(m)
    BY <1>0, <1>4 DEF ChildrenAreEntries
  <2>2. Up(m)' = u /\ Name(m)' = Name(m)
    BY <2>1
  <2>3. u \in live'
    BY <1>0, <1>4, <2>2 DEF ChildrenAreEntries
  <2>4. level[m] = level[u] + 1 /\ PathOf(m) = Append(PathOf(u), Name(m))
    BY <1>2, <1>4, <2>1 DEF Levels, PathFacts
  <2>5. PathOf(m)' = Append(PathOf(u)', Name(m))
    BY <1>4, <2>2 DEF PathFacts
  <2> QED BY <2>3, <2>4, <2>5
<1>5. root \in live /\ PathOf(root) = <<>> /\ PathOf(root)' = <<>>
  BY DEF FsInv, TypeOK, PathFacts
<1>6. 0 \in T
  <2>1. ASSUME NEW m \in both, level[m] = 0 PROVE m = root
    BY <1>3, <1>4, <2>1
  <2>2. ASSUME NEW m \in both, m = root PROVE PathOf(m)' = PathOf(m)
    <3>1. PathOf(m)' = PathOf(root)'
      BY <2>2 DEF PathOf
    <3> QED BY <1>5, <2>2, <3>1
  <2> QED BY <2>1, <2>2
<1>7. ASSUME NEW k \in Nat, k \in T PROVE k + 1 \in T
  <2> SUFFICES ASSUME NEW m \in both, level[m] = k + 1 PROVE PathOf(m)' = PathOf(m)
    OBVIOUS
  <2>1. m # root
    BY <1>2 DEF Levels
  <2>2. PICK u \in both : /\ level[m] = level[u] + 1
                          /\ PathOf(m) = Append(PathOf(u), Name(m))
                          /\ PathOf(m)' = Append(PathOf(u)', Name(m))
    BY <1>4, <2>1
  <2>3. level[u] = k
    BY <1>3, <2>2
  <2>4. PathOf(u)' = PathOf(u)
    BY <1>7, <2>3
  <2> QED BY <2>2, <2>4
<1>8. Nat \subseteq T
  <2> HIDE DEF T
  <2> QED BY <1>6, <1>7, NatInductionOnSet
<1> QED BY <1>3, <1>8

-----------------------------------------------------------------------------
(* Names as they are stored.                                               *)

\* Every name in the tree is one that mkdir was given, as far as its field keeps it.
StoredNames == root # NULL => \A m \in live : m # root => \E x \in Names : Name(m) = Stored(x)

\* The root alone has a name that nobody gave.
LEMMA StoredNamesInit == Init => StoredNames
BY DEF Init, StoredNames, live

\* Names are written by mkdir only, through strncpy.
LEMMA StoredNamesStep == FsInv /\ StoredNames /\ [Next]_vars => StoredNames'
<1> SUFFICES ASSUME FsInv, StoredNames, [Next]_vars, root' # NULL,
                    NEW m \in live', m # root'
             PROVE  \E x \in Names : Name(m)' = Stored(x)
  BY DEF StoredNames
<1>1. CASE UNCHANGED <<node, root>>
  BY <1>1 DEF StoredNames, live, Name
<1>2. ASSUME NEW n \in Names, Mkdir(n) PROVE \E x \in Names : Name(m)' = Stored(x)
  <2>0. root # NULL /\ root' = root /\ cwd \in live
    BY <1>2 DEF Mkdir, FsInv, TreeInv, TypeOK
  <2>1. CASE node' = node
    BY <1>1, <2>0, <2>1
  <2>2. ASSUME NEW new \in Nodes \ live,
               node' = With([node EXCEPT ![cwd].children = Append(@, new)],
                            new, NewNode(Stored(n), NewParent))
        PROVE  \E x \in Names : Name(m)' = Stored(x)
    <3>1. live' = live \union {new}
      BY <2>2 DEF With, live
    <3>2. CASE m = new
      BY <2>2, <3>2 DEF With, NewNode, Name
    <3>3. CASE m # new
      <4>1. m \in live /\ node'[m].name = node[m].name
        <5>1. m \in live /\ node'[m] = [node EXCEPT ![cwd].children = Append(@, new)][m]
          BY <2>2, <3>1, <3>3 DEF With, live
        <5>2. [node EXCEPT ![cwd].children = Append(@, new)][m].name = node[m].name
          <6>1. m # cwd \/ "name" \in DOMAIN node[m]
            <7>1. node[m] = [name |-> Name(m), parent |-> Up(m), children |-> Below(m)]
              BY <5>1, NodeTypes DEF FsInv
            <7> QED BY <7>1
          <6> QED BY <5>1, <6>1 DEF live
        <5> QED BY <5>1, <5>2
      <4> QED BY <2>0, <4>1 DEF StoredNames, Name
    <3> QED BY <3>2, <3>3
  <2> QED BY <1>2, <2>1, <2>2 DEF Mkdir
<1>3. ASSUME NEW n \in Names, Rmdir(n) PROVE \E x \in Names : Name(m)' = Stored(x)
  <2>0. root # NULL /\ root' = root /\ cwd \in live
    BY <1>3 DEF Rmdir, FsInv, TreeInv, TypeOK
  <2>1. CASE node' = node
    BY <1>1, <2>0, <2>1
  <2>2. CASE node' = [d \in live \ {node[cwd].children[Named(cwd, n)]} |->
                        IF d = cwd THEN [node[d] EXCEPT !.children = RemoveAt(@, Named(cwd, n))] ELSE node[d]]
    <3>1. m \in live /\ node'[m].name = node[m].name
      <4>1. m \in live /\ node'[m] = IF m = cwd THEN [node[m] EXCEPT !.children = RemoveAt(@, Named(cwd, n))]
                                               ELSE node[m]
        BY <2>2 DEF live
      <4>2. node[m] = [name |-> Name(m), parent |-> Up(m), children |-> Below(m)]
        BY <4>1, NodeTypes DEF FsInv
      <4> QED BY <4>1, <4>2
    <3> QED BY <2>0, <3>1 DEF StoredNames, Name
  <2> QED BY <1>3, <2>1, <2>2 DEF Rmdir
<1> QED BY <1>1, <1>2, <1>3 DEF Next, ChangeDirectory, Cleanup, vars

-----------------------------------------------------------------------------
(* mkdir and rmdir on the tree of paths.                                   *)

\* There are as many paths as nodes, so a path more fits as long as a node does.
LEMMA DirsCount ==
  ASSUME FsInv, PathFacts, root # NULL, NoDuplicates
  PROVE  Cardinality(Dirs) < Cardinality(Nodes) <=> live # Nodes
<1>1. live \subseteq Nodes /\ IsFiniteSet(Nodes)
  BY FsAssumption DEF FsInv, TypeOK
<1>2. IsFiniteSet(live) /\ Cardinality(live) \in Nat /\ Cardinality(Nodes) \in Nat
      /\ Cardinality(live) <= Cardinality(Nodes) /\ (Cardinality(live) = Cardinality(Nodes) => live = Nodes)
  BY <1>1, FS_Subset, FS_CardinalityType
<1>3. Cardinality(Dirs) = Cardinality(live)
  <2> DEFINE f == [n \in live |-> PathOf(n)]
  <2>1. f \in Surjection(live, Dirs)
    BY DEF Surjection, Dirs
  <2>2. f \in Injection(live, Dirs)
    BY PathsApart DEF Injection, IsInjective, Dirs
  <2> HIDE DEF f
  <2> QED BY <1>2, <2>1, <2>2, FS_Surjection
<1> QED BY <1>2, <1>3

\* The instance counts as this module does.
LEMMA CountsAlike == \A S : Tree!Cardinality(S) = Cardinality(S)
BY DEF Tree!Cardinality, Cardinality

\* mkdir in the tree of paths, with its parts named.
LEMMA TreeMkdir ==
  ASSUME NEW c, c = cwd, NEW x, NEW subdirs, subdirs = Cardinality(Tree!Subdirs(PathOf(c))),
         NEW fits, fits = (/\ Append(PathOf(c), x) \notin Dirs /\ subdirs < MAX_CHILDREN
                           /\ Cardinality(Dirs) < Cardinality(Nodes)),
         PathOf(cwd)' = PathOf(c),
         \/ fits /\ Dirs' = Dirs \union {Append(PathOf(c), x)} /\ result' = 0
         \/ ~ fits /\ Dirs' = Dirs /\ result' = -1
  PROVE  Tree!Mkdir(x)
<1>1. /\ Tree!Cardinality(Tree!Subdirs(PathOf(c))) = subdirs
      /\ Tree!Cardinality(Dirs) = Cardinality(Dirs)
  BY CountsAlike
<1> QED BY <1>1 DEF Tree!Mkdir, Dirs

\* What a mkdir that succeeds does to live nodes, names and parents.
LEMMA MkdirEffect ==
  ASSUME FsInv, root # NULL, NEW n, NEW new \in Nodes \ live, cwd' = cwd,
         node' = With([node EXCEPT ![cwd].children = Append(@, new)],
                      new, NewNode(Stored(n), NewParent))
  PROVE  /\ cwd \in live /\ new # cwd /\ live' = live \union {new}
         /\ Name(new)' = Stored(n) /\ Up(new)' = cwd /\ Below(new)' = <<>>
         /\ \A x \in live : Name(x)' = Name(x) /\ Up(x)' = Up(x)
         /\ \A x \in live \ {cwd} : Below(x)' = Below(x)
         /\ Below(cwd)' = Append(Below(cwd), new)
<1>1. TypeOK /\ cwd \in live
  BY DEF FsInv, TreeInv, TypeOK
<1> DEFINE s == Below(cwd)
           t == Append(s, new)
<1>2. live' = live \union {new} /\ new # cwd
  BY <1>1 DEF With, live
<1>3. node'[new] = [name |-> Stored(n), parent |-> cwd, children |-> <<>>]
  BY DEF With, NewNode, NewParent
<1>4. \A x \in live \ {cwd} : node'[x] = node[x]
  BY <1>2 DEF With, live
<1>5. node'[cwd] = [name |-> Name(cwd), parent |-> Up(cwd), children |-> t]
  <2>1. node'[cwd] = [node[cwd] EXCEPT !.children = Append(@, new)]
    BY <1>1, <1>2 DEF With, live
  <2>2. node[cwd] = [name |-> Name(cwd), parent |-> Up(cwd), children |-> s]
    BY <1>1, NodeTypes
  <2> HIDE DEF s
  <2>3. PICK r, a, b : r = node[cwd] /\ a = Name(cwd) /\ b = Up(cwd)
    OBVIOUS
  <2>4. r = [name |-> a, parent |-> b, children |-> s]
    BY <2>2, <2>3
  <2>5. [r EXCEPT !.children = Append(@, new)] = [name |-> a, parent |-> b, children |-> Append(s, new)]
    <3>1. r.children = s
      BY <2>4
    <3>2. PICK u : u = Append(s, new)
      OBVIOUS
    <3>3. [r EXCEPT !.children = u] = [name |-> a, parent |-> b, children |-> u]
      BY <2>4
    <3> QED BY <3>1, <3>2, <3>3
  <2> QED BY <2>1, <2>3, <2>5
<1>6. Name(new)' = Stored(n) /\ Up(new)' = cwd /\ Below(new)' = <<>>
  BY <1>3 DEF Name, Up, Below
<1>7. \A x \in live \ {cwd} : Name(x)' = Name(x) /\ Up(x)' = Up(x) /\ Below(x)' = Below(x)
  BY <1>4 DEF Name, Up, Below
<1>8. node'[cwd].name = Name(cwd) /\ node'[cwd].parent = Up(cwd) /\ node'[cwd].children = t
  <2> HIDE DEF t
  <2> QED BY <1>5
<1> HIDE DEF t
<1>9. /\ \A x \in live : x = cwd => Name(x)' = Name(x) /\ Up(x)' = Up(x)
      /\ Below(cwd)' = t
  BY <1>8 DEF Name, Up, Below
<1> QED BY <1>1, <1>2, <1>6, <1>7, <1>9 DEF t

\* mkdir makes the path that its argument is stored as, or reports why it cannot.
LEMMA MkdirAsAsked ==
  ASSUME FsInv, FsInv', PathFacts, PathFacts', StoredNames, NoDuplicates, NoDuplicates',
         NEW n \in Names, Mkdir(n)
  PROVE  Tree!Mkdir(Stored(n))
<1>0. TypeOK /\ root # NULL /\ cwd \in live /\ root' = root /\ cwd' = cwd
  BY DEF FsInv, TreeInv, TypeOK, Mkdir
<1>1. PICK x \in Components : x = Stored(n)
  BY FsAssumption DEF Components
<1>2. PICK c \in live : c = cwd
  BY <1>0
<1>3. PICK s : s = Below(c)
  OBVIOUS
<1> DEFINE old == Append(PathOf(c), x)
           fits == old \notin Dirs /\ Len(s) < MAX_CHILDREN /\ live # Nodes
<1>4. Len(s) \in Nat /\ DOMAIN s = 1 .. Len(s) /\ \A i \in DOMAIN s : s[i] \in live
  BY <1>0, <1>3, NodeTypes
<1>5. /\ Cardinality(Tree!Subdirs(PathOf(c))) = Len(s)
      /\ Cardinality(Dirs) < Cardinality(Nodes) <=> live # Nodes
  BY <1>0, <1>3, SubdirsAreEntries, DirsCount
<1>6. CASE node' = node
  <2>1. result' = -1 /\ (Len(s) >= MAX_CHILDREN \/ Duplicate(n) \/ live = Nodes)
    <3>1. ASSUME NEW new \in Nodes \ live,
                 node' = With([node EXCEPT ![cwd].children = Append(@, new)],
                              new, NewNode(Stored(n), NewParent))
          PROVE  FALSE
      <4>1. live' = live \union {new}
        BY <3>1 DEF With, live
      <4> QED BY <1>6, <4>1 DEF live
    <3> QED BY <1>2, <1>3, <3>1 DEF Mkdir, Below
  <2>2. ASSUME Duplicate(n) PROVE old \in Dirs
    <3>1. PICK i : i = Named(c, n)
      OBVIOUS
    <3>2. n \in Components /\ i # 0
      BY <1>2, <2>2, <3>1 DEF Components, Duplicate
    <3>3. /\ i \in DOMAIN s /\ s[i] \in live \ {root}
          /\ PathOf(s[i]) = Append(PathOf(c), n)
      BY <1>0, <1>3, <3>1, <3>2, EntryPath
    <3>4. Name(s[i]) = n
      BY <1>0, <1>3, <3>1, <3>2, <1>4, <3>3, NamedIsFirst
    <3>5. Stored(n) = n
      BY <1>0, <3>3, <3>4, FsAssumption DEF StoredNames
    <3> QED BY <1>1, <3>3, <3>5 DEF Dirs
  <2>3. ~ fits
    BY <1>4, <2>1, <2>2, FsAssumption
  <2>4. Dirs' = Dirs /\ PathOf(cwd)' = PathOf(c)
    <3>1. Dirs' = Dirs /\ PathOf(c)' = PathOf(c)
      BY <1>0, <1>6, SamePaths
    <3>2. PathOf(cwd)' = PathOf(c)'
      BY <1>0, <1>2 DEF PathOf
    <3> QED BY <3>1, <3>2
  <2> QED BY <1>1, <1>2, <1>5, <2>1, <2>3, <2>4, TreeMkdir
<1>7. ASSUME NEW new \in Nodes \ live, Len(node[cwd].children) < MAX_CHILDREN, result' = 0,
             node' = With([node EXCEPT ![cwd].children = Append(@, new)],
                          new, NewNode(Stored(n), NewParent))
      PROVE  Tree!Mkdir(Stored(n))
  <2>1. /\ new # c /\ live' = live \union {new}
        /\ Name(new)' = x /\ Up(new)' = c
        /\ \A m \in live : Name(m)' = Name(m) /\ Up(m)' = Up(m)
        /\ Below(cwd)' = Append(s, new)
    BY <1>0, <1>1, <1>2, <1>3, <1>7, MkdirEffect
  <2>2. \A m \in live : PathOf(m)' = PathOf(m)
    BY <1>0, <2>1, PathsStay
  <2>3. PathOf(new)' = old
    <3>1. new \in live' /\ new # root'
      BY <1>0, <2>1 DEF FsInv, TypeOK
    <3>2. PathOf(new)' = Append(PathOf(c)', x)
      BY <1>0, <2>1, <3>1 DEF PathFacts
    <3> QED BY <2>2, <3>2
  <2>4. old \notin Dirs
    <3>1. SUFFICES ASSUME Named(c, x) # 0 PROVE FALSE
      BY <1>0, EntryPath
    <3>2. PICK i \in DOMAIN s : Name(s[i]) = x
      BY <1>0, <1>3, <3>1, NamedIsFirst
    <3>3. PICK t : t = Append(s, new)
      OBVIOUS
    <3>4. DOMAIN t = 1 .. Len(s) + 1 /\ t[Len(s) + 1] = new /\ t[i] = s[i]
      <4>1. s \in Seq(live \union {new})
        BY <1>0, <1>3, NodeTypes, SeqMonotonic
      <4>2. /\ t \in Seq(live \union {new}) /\ Len(t) = Len(s) + 1
            /\ t[Len(s) + 1] = new /\ \A k \in 1 .. Len(s) : t[k] = s[k]
        BY <3>3, <4>1, AppendProperties
      <4> QED BY <1>4, <3>2, <4>2, LenProperties
    <3>5. node'[c].children = t
      BY <1>0, <1>2, <2>1, <3>3 DEF Below
    <3>6. node'[new].name = x /\ node'[s[i]].name = x
      BY <1>4, <2>1, <3>2 DEF Name
    <3>7. i \in DOMAIN t /\ Len(s) + 1 \in DOMAIN t /\ i # Len(s) + 1
      BY <1>4, <3>2, <3>4
    <3> QED BY <2>1, <3>4, <3>5, <3>6, <3>7 DEF NoDuplicates
  <2>5. fits
    BY <1>2, <1>3, <1>7, <2>4 DEF Below
  <2>6. Dirs' = Dirs \union {old}
    <3>1. ASSUME NEW q \in Dirs' PROVE q \in Dirs \union {old}
      <4>1. PICK m \in live' : q = PathOf(m)'
        BY <3>1 DEF Dirs
      <4> QED BY <2>1, <2>2, <2>3, <4>1 DEF Dirs
    <3>2. ASSUME NEW q \in Dirs \union {old} PROVE q \in Dirs'
      <4>1. PICK m \in live' : q = PathOf(m)'
        BY <2>1, <2>2, <2>3, <3>2 DEF Dirs
      <4> QED BY <4>1 DEF Dirs
    <3> QED BY <3>1, <3>2
  <2>7. PathOf(cwd)' = PathOf(c)
    <3>1. PathOf(cwd)' = PathOf(c)'
      BY <1>0, <1>2 DEF PathOf
    <3> QED BY <2>2, <3>1
  <2> QED BY <1>1, <1>2, <1>5, <1>7, <2>5, <2>6, <2>7, TreeMkdir
<1> QED BY <1>6, <1>7 DEF Mkdir

\* rmdir takes away the path that its argument names if nothing is below it, or reports
\* that it did not.
LEMMA RmdirAsAsked ==
  ASSUME FsInv, FsInv', PathFacts, PathFacts', NoDuplicates, NEW n \in Names, Rmdir(n)
  PROVE  Tree!Rmdir(n)
<1>0. TypeOK /\ root # NULL /\ cwd \in live /\ root' = root /\ cwd' = cwd /\ n \in Components
  BY DEF FsInv, TreeInv, TypeOK, Rmdir, Components
<1>1. PICK c \in live : c = cwd
  BY <1>0
<1>2. PICK i : i = Named(c, n)
  OBVIOUS
<1> DEFINE old == Append(PathOf(c), n)
<1>3. i = 0 => old \notin Dirs
  BY <1>0, <1>2, EntryPath
<1>4. ASSUME i # 0
      PROVE  /\ Below(c)[i] \in live \ {root} /\ PathOf(Below(c)[i]) = old /\ old \in Dirs
             /\ Tree!Subdirs(old) = {} <=> Removable(Below(c)[i])
  <2>1. PICK m \in live \ {root} : m = Below(c)[i] /\ PathOf(m) = old
    BY <1>0, <1>2, <1>4, EntryPath
  <2>2. Tree!Subdirs(old) = {PathOf(Below(m)[k]) : k \in DOMAIN Below(m)}
    BY <1>0, <2>1, SubdirsAreEntries
  <2>3. PICK t \in Seq(live) : t = Below(m)
    BY <1>0, <2>1, NodeTypes
  <2>4. t = <<>> <=> DOMAIN t = {}
    BY EmptySeq, LenProperties
  <2>5. Removable(m) <=> t = <<>>
    BY <2>3 DEF Removable, Below
  <2>6. Tree!Subdirs(old) = {} <=> DOMAIN t = {}
    BY <2>2, <2>3
  <2> HIDE DEF old
  <2> QED BY <2>1, <2>4, <2>5, <2>6 DEF Dirs
<1>5. CASE i # 0 /\ Removable(Below(c)[i])
  <2>1. PICK m \in live \ {root} : m = Below(c)[i] /\ PathOf(m) = old
    BY <1>4, <1>5
  <2>2. /\ result' = 0
        /\ node' = [d \in live \ {m} |-> IF d = cwd THEN [node[d] EXCEPT !.children = RemoveAt(@, i)] ELSE node[d]]
    BY <1>1, <1>2, <1>5, <2>1 DEF Rmdir, Below
  <2>3. live' = live \ {m}
    BY <2>2 DEF live
  <2>4. \A d \in live' : Name(d)' = Name(d) /\ Up(d)' = Up(d)
    <3>1. ASSUME NEW d \in live'
          PROVE  node'[d].name = node[d].name /\ node'[d].parent = node[d].parent
      <4>1. d \in live /\ node'[d] = IF d = cwd THEN [node[d] EXCEPT !.children = RemoveAt(@, i)] ELSE node[d]
        BY <2>2, <2>3
      <4>2. node[d] = [name |-> Name(d), parent |-> Up(d), children |-> Below(d)]
        BY <1>0, <4>1, NodeTypes
      <4> QED BY <4>1, <4>2
    <3> QED BY <3>1 DEF Name, Up
  <2>5. \A d \in live' : d \in live /\ PathOf(d)' = PathOf(d)
    BY <1>0, <2>3, <2>4, PathsStay
  <2>6. Dirs' = Dirs \ {old}
    <3>1. ASSUME NEW q \in Dirs' PROVE q \in Dirs \ {old}
      <4>1. PICK d \in live' : q = PathOf(d)'
        BY <3>1 DEF Dirs
      <4>2. d \in live /\ d # m /\ q = PathOf(d)
        BY <2>3, <2>5, <4>1
      <4>3. q # old
        BY <1>0, <2>1, <4>2, PathsApart
      <4> QED BY <4>2, <4>3 DEF Dirs
    <3>2. ASSUME NEW q \in Dirs \ {old} PROVE q \in Dirs'
      <4>1. PICK d \in live : q = PathOf(d) /\ d # m
        BY <2>1, <3>2 DEF Dirs
      <4>2. d \in live' /\ q = PathOf(d)'
        BY <2>3, <2>5, <4>1
      <4> QED BY <4>2 DEF Dirs
    <3> QED BY <3>1, <3>2
  <2>7. PathOf(cwd)' = PathOf(c)
    <3>1. c \in live'
      BY <1>0, <1>1 DEF FsInv, TreeInv, TypeOK
    <3>2. PathOf(cwd)' = PathOf(c)'
      BY <1>0, <1>1 DEF PathOf
    <3> QED BY <2>5, <3>1, <3>2
  <2>8. old \in Dirs /\ Tree!Subdirs(old) = {}
    BY <1>4, <1>5
  <2> QED BY <1>1, <2>2, <2>6, <2>7, <2>8 DEF Tree!Rmdir, Dirs
<1>6. CASE ~ (i # 0 /\ Removable(Below(c)[i]))
  <2>1. node' = node /\ result' = -1
    BY <1>1, <1>2, <1>6 DEF Rmdir, Below
  <2>2. Dirs' = Dirs /\ PathOf(c)' = PathOf(c)
    BY <1>0, <2>1, SamePaths
  <2>3. PathOf(cwd)' = PathOf(c)
    <3>1. PathOf(cwd)' = PathOf(c)'
      BY <1>0, <1>1 DEF PathOf
    <3> QED BY <2>2, <3>1
  <2>4. ~ (old \in Dirs /\ Tree!Subdirs(old) = {})
    BY <1>3, <1>4, <1>6
  <2> QED BY <1>1, <2>1, <2>2, <2>3, <2>4 DEF Tree!Rmdir, Dirs
<1> QED BY <1>5, <1>6

\* A step of the nodes is the step of the tree of paths that was asked for.
LEMMA StepsAsAsked ==
  ASSUME FsInv, FsInv', PathFacts, PathFacts', StoredNames, Next,
         NoDuplicates, NoDuplicates', root' # NULL
  PROVE  Tree!TreeNext /\ AsAsked
<1>1. ASSUME NEW path \in Paths, ChangeDirectory(path)
      PROVE  Cut(path) \in Paths /\ Tree!Cd(Cut(path))
  BY <1>1, CdAsAsked
<1>2. ASSUME NEW n \in Names, Mkdir(n) PROVE Tree!Mkdir(Stored(n))
  BY <1>2, MkdirAsAsked
<1>3. ASSUME NEW n \in Names, Rmdir(n) PROVE Tree!Rmdir(n)
  BY <1>3, RmdirAsAsked
<1>4. Tree!TreeNext
  <2>1. ASSUME NEW path \in Paths, ChangeDirectory(path) PROVE Tree!TreeNext
    <3>1. PICK cut \in Paths : Tree!Cd(cut)
      BY <1>1, <2>1
    <3> QED BY <3>1 DEF Tree!TreeNext
  <2>2. ASSUME NEW n \in Names, Mkdir(n) PROVE Tree!TreeNext
    <3>1. Stored(n) \in Names /\ Tree!Mkdir(Stored(n))
      BY <1>2, <2>2, FsAssumption
    <3> QED BY <3>1 DEF Tree!TreeNext
  <2>3. ASSUME NEW n \in Names, Rmdir(n) PROVE Tree!TreeNext
    <3>1. Tree!Rmdir(n)
      BY <1>3, <2>3
    <3> QED BY <3>1 DEF Tree!TreeNext
  <2>4. ~ Cleanup
    BY DEF Cleanup
  <2> QED BY <2>1, <2>2, <2>3, <2>4 DEF Next
<1>5. ASSUME NEW path \in Paths, Cut(path) = path, ChangeDirectory(path) PROVE Tree!Cd(path)
  BY <1>1, <1>5
<1> QED BY <1>2, <1>3, <1>4, <1>5 DEF AsAsked

\* Callers of fs.cpp see a tree of paths: whatever node an operation finds, links or
\* frees, it is that operation on the set of paths, with the same result.
THEOREM ImplementsPathTreeHolds == Spec => ImplementsPathTree
<1>1. Init => Tree!TreeInit
  <2> SUFFICES ASSUME Init PROVE Tree!TreeInit
    OBVIOUS
  <2>1. live = {root} /\ cwd = root /\ root # NULL /\ result = 0
    BY FsAssumption DEF Init, live
  <2>2. PathOf(root) = <<>>
    BY <2>1, InitHolds, PathFactsHold DEF PathFacts
  <2> QED BY <2>1, <2>2 DEF Tree!TreeInit
<1>2. FsInv /\ FsInv' /\ StoredNames /\ [Next]_vars
        => [NoDuplicates /\ NoDuplicates' /\ root' # NULL => Tree!TreeNext /\ AsAsked]_vars
  <2>1. PathFacts \/ ~ FsInv
    BY PathFactsHold
  <2>2. PathFacts' \/ ~ FsInv'
    BY PathFactsHold, PTL
  <2>3. ASSUME FsInv, FsInv', StoredNames, Next, NoDuplicates, NoDuplicates', root' # NULL
        PROVE  Tree!TreeNext /\ AsAsked
    BY <2>1, <2>2, <2>3, StepsAsAsked
  <2> QED BY <2>3
<1> QED BY <1>1, <1>2, FsInvHolds, StoredNamesInit, StoredNamesStep, PTL
        DEF Spec, ImplementsPathTree
=============================================================================
