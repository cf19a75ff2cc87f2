--------------------------- MODULE TaskManagerProofs ---------------------------
(***************************************************************************)
(* Proofs about TaskManager, for any number of shells, tasks, commands and *)
(* thread handles.  Which commands the threads may give is a hypothesis of *)
(* those theorems that need one.                                           *)
(***************************************************************************)
EXTENDS TaskManager, Integers, FiniteSetTheorems, SequenceTheorems, WellFoundedInduction, TLAPS

\* A set of naturals that is not empty has a least element.
LEMMA LeastNat ==
  ASSUME NEW T \in SUBSET Nat, T # {}
  PROVE  \E m \in T : \A k \in T : m <= k
<1>1. IsWellFoundedOn({ss \in Nat \X Nat : ss[1] < ss[2]}, Nat)
  BY NatLessThanWellFounded DEF OpToRel
<1>2. PICK m \in T : \A k \in T : <<k, m>> \notin {ss \in Nat \X Nat : ss[1] < ss[2]}
  BY <1>1, WFMin
<1>3. \A k \in T : ~ (k < m)
  BY <1>2
<1> QED BY <1>3

\* Induction over the naturals, for a set: the set of those n for which a formula holds
\* needs no operator as a parameter.
LEMMA NatInductionOnSet ==
  ASSUME NEW T, 0 \in T, \A n \in Nat : n \in T => n + 1 \in T
  PROVE  Nat \subseteq T
<1> SUFFICES ASSUME Nat \ T # {} PROVE FALSE
  OBVIOUS
<1>1. PICK m \in Nat \ T : \A k \in Nat \ T : m <= k
  BY LeastNat
<1>2. m # 0
  OBVIOUS
<1>3. m - 1 \in Nat /\ m - 1 \in T
  BY <1>1, <1>2
<1> QED BY <1>3

-----------------------------------------------------------------------------
(* The array of tasks.                                                     *)

\* The loop that squeezes elements out of an array keeps the others.
LEMMA SqueezedKeeps ==
  ASSUME NEW S, NEW s \in Seq(S), NEW F
  PROVE  /\ Squeezed(s, F) \in Seq(S)
         /\ {Squeezed(s, F)[k] : k \in DOMAIN Squeezed(s, F)} = {s[k] : k \in DOMAIN s} \ F
         /\ (\A k \in DOMAIN s : s[k] \notin F) => Squeezed(s, F) = s
<1> DEFINE next(f, n) == IF n = 0 THEN <<>>
                         ELSE IF s[n] \in F THEN f[n - 1] ELSE Append(f[n - 1], s[n])
           keeps(r, n) == /\ r \in Seq(S)
                          /\ {r[k] : k \in DOMAIN r} = {s[k] : k \in 1 .. n} \ F
                          /\ (\A k \in 1 .. n : s[k] \notin F) =>
                               Len(r) = n /\ \A k \in 1 .. n : r[k] = s[k]
           good(f, m) == f = [n \in 0 .. m |-> next(f, n)]
           T == {m \in Nat : m <= Len(s) => \E f : good(f, m)}
<1>0. Len(s) \in Nat /\ DOMAIN s = 1 .. Len(s)
  BY LenProperties
<1>1. ASSUME NEW m \in 0 .. Len(s), NEW f, good(f, m) PROVE \A n \in 0 .. m : f[n] = next(f, n)
  <2>1. f = [n \in 0 .. m |-> next(f, n)]
    BY <1>1
  <2> HIDE DEF next
  <2> QED BY <2>1
<1>2. Nat \subseteq T
  <2>1. 0 \in T
    <3> DEFINE f0 == [n \in 0 .. 0 |-> <<>>]
    <3>1. good(f0, 0)
      OBVIOUS
    <3> HIDE DEF good, f0
    <3> QED BY <3>1
  <2>2. ASSUME NEW m \in Nat, m \in T PROVE m + 1 \in T
    <3> SUFFICES ASSUME m + 1 <= Len(s) PROVE \E g : good(g, m + 1)
      <4> HIDE DEF good
      <4> QED OBVIOUS
    <3>1. PICK f : good(f, m)
      <4> HIDE DEF good
      <4> QED BY <1>0, <2>2
    <3> DEFINE g == [n \in 0 .. m + 1 |-> IF n <= m THEN f[n] ELSE next(f, m + 1)]
    <3>2. m \in 0 .. Len(s)
      BY <1>0
    <3>3. \A n \in 0 .. m : f[n] = next(f, n)
      BY <1>1, <3>1, <3>2
    <3>4. ASSUME NEW n \in 0 .. m + 1 PROVE g[n] = next(g, n)
      <4>1. CASE n = 0
        BY <3>3, <4>1
      <4>2. CASE n # 0
        <5>1. n - 1 \in 0 .. m
          BY <4>2
        <5>2. g[n - 1] = f[n - 1]
          BY <5>1
        <5>3. g[n] = next(f, n)
          BY <3>3
        <5> HIDE DEF g
        <5> QED BY <5>2, <5>3, <4>2
      <4> QED BY <4>1, <4>2
    <3>5. good(g, m + 1)
      <4>1. g = [n \in 0 .. m + 1 |-> g[n]]
        OBVIOUS
      <4> HIDE DEF g, next
      <4> QED BY <3>4, <4>1
    <3> QED BY <3>5
  <2> HIDE DEF T
  <2> QED BY <2>1, <2>2, NatInductionOnSet
<1>3. PICK f : f = CHOOSE g : good(g, Len(s))
  OBVIOUS
<1>4. good(f, Len(s))
  <2>1. \E g : good(g, Len(s))
    BY <1>0, <1>2
  <2> HIDE DEF good
  <2> QED BY <1>3, <2>1
<1>5. Squeezed(s, F) = f[Len(s)]
  BY <1>3 DEF Squeezed
<1>6. \A n \in 0 .. Len(s) : f[n] = next(f, n)
  BY <1>0, <1>1, <1>4
<1> DEFINE U == {n \in Nat : n <= Len(s) => keeps(f[n], n)}
<1>7. Nat \subseteq U
  <2>1. 0 \in U
    <3>1. f[0] = <<>>
      BY <1>0, <1>6
    <3>2. <<>> \in Seq(S) /\ \A k \in DOMAIN << >> : FALSE
      BY EmptySeq, LenProperties
    <3>3. {<<>>[k] : k \in DOMAIN << >>} = {} /\ {s[k] : k \in 1 .. 0} \ F = {}
      BY <3>2
    <3>4. Len(<<>>) = 0 /\ 1 .. 0 = {}
      OBVIOUS
    <3> QED BY <3>1, <3>2, <3>3, <3>4
  <2>2. ASSUME NEW n \in Nat, n \in U, n + 1 <= Len(s) PROVE keeps(f[n + 1], n + 1)
    <3>1. keeps(f[n], n)
      <4> HIDE DEF keeps
      <4> QED BY <1>0, <2>2
    <3>2. f[n + 1] = IF s[n + 1] \in F THEN f[n] ELSE Append(f[n], s[n + 1])
      BY <1>0, <1>6, <2>2
    <3>3. s[n + 1] \in S
      BY <1>0, <2>2
    <3>4. {s[k] : k \in 1 .. n + 1} = {s[k] : k \in 1 .. n} \union {s[n + 1]}
      OBVIOUS
    <3>5. CASE s[n + 1] \in F
      BY <3>1, <3>2, <3>4, <3>5
    <3>6. CASE s[n + 1] \notin F
      <4> DEFINE r == f[n]
                 q == Append(r, s[n + 1])
      <4>1. q \in Seq(S) /\ Len(q) = Len(r) + 1 /\ q[Len(r) + 1] = s[n + 1]
            /\ \A k \in 1 .. Len(r) : q[k] = r[k]
        BY <3>1, <3>3, AppendProperties
      <4>2. Len(r) \in Nat /\ DOMAIN r = 1 .. Len(r) /\ DOMAIN q = 1 .. Len(r) + 1
        BY <3>1, <4>1, LenProperties
      <4> HIDE DEF q, r
      <4>3. {q[k] : k \in DOMAIN q} = {r[k] : k \in DOMAIN r} \union {s[n + 1]}
        <5>1. ASSUME NEW k \in DOMAIN q PROVE k \in DOMAIN r \/ k = Len(r) + 1
          BY <4>2
        <5>2. DOMAIN r \subseteq DOMAIN q /\ Len(r) + 1 \in DOMAIN q
          BY <4>2
        <5>3. \A k \in DOMAIN r : q[k] = r[k]
          BY <4>1, <4>2
        <5> QED BY <4>1, <5>1, <5>2, <5>3, Zenon
      <4>4. q \in Seq(S) /\ {q[k] : k \in DOMAIN q} = {s[k] : k \in 1 .. n + 1} \ F
        BY <3>1, <3>4, <3>6, <4>1, <4>3 DEF r
      <4>5. f[n + 1] = q
        BY <3>2, <3>6 DEF q, r
      <4>6. ASSUME \A k \in 1 .. n + 1 : s[k] \notin F
            PROVE  Len(q) = n + 1 /\ \A k \in 1 .. n + 1 : q[k] = s[k]
        <5>1. Len(r) = n /\ \A k \in 1 .. n : r[k] = s[k]
          BY <3>1, <4>6 DEF r
        <5> QED BY <4>1, <5>1
      <4> QED BY <4>4, <4>5, <4>6
    <3> QED BY <3>5, <3>6
  <2>3. \A n \in Nat : n \in U => n + 1 \in U
    <3> HIDE DEF keeps
    <3> QED BY <2>2
  <2> HIDE DEF U
  <2> QED BY <2>1, <2>3, NatInductionOnSet
<1>8. keeps(f[Len(s)], Len(s))
  <2> HIDE DEF keeps
  <2> QED BY <1>0, <1>7
<1>9. (\A k \in DOMAIN s : s[k] \notin F) => f[Len(s)] = s
  <2> SUFFICES ASSUME \A k \in DOMAIN s : s[k] \notin F PROVE f[Len(s)] = s
    OBVIOUS
  <2>1. PICK r : r = f[Len(s)]
    OBVIOUS
  <2>2. r \in Seq(S) /\ Len(r) = Len(s) /\ \A k \in 1 .. Len(s) : r[k] = s[k]
    BY <1>0, <1>8, <2>1
  <2> QED BY <2>1, <2>2, SeqEqual
<1> HIDE DEF next, good, T, U
<1> QED BY <1>0, <1>5, <1>8, <1>9

\* Task t is in the array.
Listed(t) == \E k \in DOMAIN tasks : tasks[k] = t

\* After task_gc the list has lost the Tasks that were freed, and no other.
LEMMA ListedAfterGc ==
  ASSUME tasks \in Seq(Tasks), tasks' = Squeezed(tasks, freed)
  PROVE  /\ tasks' \in Seq(Tasks) /\ \A t : Listed(t)' <=> Listed(t) /\ t \notin freed
         /\ (\A k \in DOMAIN tasks : tasks[k] \notin freed) => tasks' = tasks
<1>1. /\ tasks' \in Seq(Tasks)
      /\ {tasks'[k] : k \in DOMAIN tasks'} = {tasks[k] : k \in DOMAIN tasks} \ freed
      /\ (\A k \in DOMAIN tasks : tasks[k] \notin freed) => tasks' = tasks
  BY SqueezedKeeps
<1> QED BY <1>1 DEF Listed

\* task_submit adds its Task to the list.
LEMMA ListedAfterInsert ==
  ASSUME tasks \in Seq(Tasks), NEW a \in Tasks, tasks' = Append(tasks, a)
  PROVE  tasks' \in Seq(Tasks) /\ \A t : Listed(t)' <=> Listed(t) \/ t = a
<1>1. /\ tasks' \in Seq(Tasks) /\ Len(tasks') = Len(tasks) + 1 /\ tasks'[Len(tasks) + 1] = a
      /\ \A k \in 1 .. Len(tasks) : tasks'[k] = tasks[k]
  BY AppendProperties
<1>2. Len(tasks) \in Nat /\ DOMAIN tasks = 1 .. Len(tasks) /\ DOMAIN tasks' = 1 .. Len(tasks) + 1
  BY <1>1, LenProperties
<1> QED BY <1>1, <1>2 DEF Listed

\* The first of some places of the array is one of them.
LEMMA FirstPlace ==
  ASSUME tasks \in Seq(Tasks), NEW hits \in SUBSET DOMAIN tasks, hits # {}
  PROVE  (CHOOSE k \in hits : \A l \in hits : k <= l) \in hits
<1>1. hits \in SUBSET Nat
  BY LenProperties
<1> QED BY <1>1, LeastNat

\* What a search by identifier finds is a listed task.
LEMMA FoundIsListed ==
  ASSUME tasks \in Seq(Tasks), NEW i
  PROVE  Find(i) = None \/ (Find(i) \in Tasks /\ Listed(Find(i)))
<1> DEFINE hits == {k \in DOMAIN tasks : id[tasks[k]] = i}
<1>1. CASE hits = {}
  BY <1>1 DEF Find
<1>2. CASE hits # {}
  <2>1. PICK k \in hits : Find(i) = tasks[k]
    <3> HIDE DEF hits
    <3>1. hits \in SUBSET DOMAIN tasks
      BY DEF hits
    <3> QED BY <1>2, <3>1, FirstPlace DEF Find, hits
  <2> QED BY <2>1, LenProperties DEF Listed
<1> QED BY <1>1, <1>2

-----------------------------------------------------------------------------
(* What holds of the tasks whatever the commands.                          *)

\* The command of t is over; t has a thread that is inside its command.
Over(t) == pc[t] \in {"return", "ended"}
Active(t) == pc[t] \notin {"none", "start", "return", "ended"}

\* What only shells do, and what only tasks do.
Roles ==
  /\ \A x \in Shells : pc[x] \notin {"none", "start", "finish", "return", "ended"}
  /\ \A t \in Tasks : pc[t] # "idle"

\* An identifier is never larger than the number of Tasks that exist.
Numbers ==
  /\ next_task_id <= allocated + 1
  /\ \A x \in Threads : pc[x] = "store" => reg[x] \in 1 .. allocated

\* A Task that is being submitted belongs to one thread and has none itself.
Submits ==
  /\ \A x \in Threads : pc[x] \in {"store", "insert", "create"} =>
       /\ arg[x] \in Tasks /\ arg[x] <= allocated /\ pc[arg[x]] = "none"
       /\ pc[x] # "create" => ~ Listed(arg[x])
       /\ pc[x] = "insert" => status[arg[x]] = "PENDING"
       /\ pc[x] = "create" => Listed(arg[x])
       /\ \A y \in Threads : pc[y] \in {"store", "insert", "create"} /\ arg[y] = arg[x] => y = x
  /\ \A t \in Tasks : t > allocated => pc[t] = "none" /\ ~ Listed(t)

\* A thread that has not ended is behind its own handle.
HandlesAgree ==
  /\ \A t \in Tasks : pc[t] = "none" <=> handle[t] = None
  /\ \A h \in Handles : occupant[h] # None => handle[occupant[h]] = h
  /\ \A t \in Tasks : pc[t] \notin {"none", "ended"} => occupant[handle[t]] = t

\* How far a thread has come, by the status of its Task.
StatusAgrees ==
  /\ \A t \in Tasks :
       /\ status[t] = "PENDING" => pc[t] \in {"none", "start"}
       /\ status[t] = "RUNNING" => Active(t)
       /\ status[t] = "DONE" => Over(t)
       /\ status[t] = "CANCELLED" /\ Active(t) => t \in cancelled
  /\ \A t \in cancelled : status[t] = "CANCELLED" /\ pc[t] \notin {"none", "start"}

\* task_gc holds task_mutex across its joins, and what it joins is finished and listed.
Collects ==
  /\ \A x \in Threads : pc[x] \in {"sweep", "gcjoin", "gcjoining", "print"} => task_mutex = x
  /\ \A x \in Threads : pc[x] \in {"gcjoin", "gcjoining"} =>
       arg[x] \in Tasks /\ Listed(arg[x]) /\ arg[x] \notin freed /\ Finished(arg[x])

\* Whoever is blocked on a handle took it from its Task, whose thread is still behind
\* it or was over before, unless the Task has been freed; nobody is blocked on two.
Joins ==
  /\ \A x \in Threads : pc[x] \in {"test", "join", "joining"} => arg[x] \in Tasks
  /\ \A h \in Handles : joiner[h] # None =>
       LET x == joiner[h] IN
       /\ pc[x] \in {"gcjoining", "joining"}
       /\ occupant[h] # None
       /\ \/ arg[x] \in freed
          \/ h = handle[arg[x]] /\ (occupant[h] = arg[x] \/ Over(arg[x]))
  /\ \A g, h \in Handles : joiner[g] # None /\ joiner[g] = joiner[h] => g = h

\* A thread that was created is of a Task that is listed or freed.
Lists ==
  /\ \A t \in Tasks : pc[t] # "none" => Listed(t) \/ t \in freed
  /\ \A t \in freed : pc[t] # "none"

\* The inductive invariant for all commands.
BaseInv ==
  /\ TypeOK /\ Roles /\ Numbers /\ Submits /\ HandlesAgree /\ StatusAgrees
  /\ Collects /\ Joins /\ Lists

-----------------------------------------------------------------------------
(* Types.                                                                  *)

\* A call of pthread_join that is over: the handle is given up, or was not there, and
\* what the call was for is done.
JoinReturns(x) ==
  /\ Joined(x)
  /\ UNCHANGED <<tasks, next_task_id, allocated, fields, locks, cancelled, arg, reg, place, budget, crashed>>
  /\ \/ /\ At(x, "gcjoin") \/ At(x, "join")
        /\ arg[x] \in freed \/ handle[arg[x]] # None
        /\ UNCHANGED <<occupant, joiner>>
     \/ /\ At(x, "gcjoining") \/ At(x, "joining")
        /\ \E h \in Handles :
             /\ joiner[h] = x /\ occupant[h] # None /\ pc[occupant[h]] = "ended"
             /\ joiner' = [joiner EXCEPT ![h] = None]
             /\ occupant' = [occupant EXCEPT ![h] = None]

\* It blocks.
JoinBlocks(x) ==
  /\ At(x, "gcjoin") \/ At(x, "join")
  /\ \E h \in Handles :
       /\ arg[x] \in freed \/ h = handle[arg[x]]
       /\ occupant[h] # None /\ joiner[h] = None
       /\ joiner' = [joiner EXCEPT ![h] = x]
  /\ Goto(x, IF pc[x] = "gcjoin" THEN "gcjoining" ELSE "joining")
  /\ UNCHANGED <<lists, fields, locks, occupant, cancelled, arg, reg, search, budget, crashed>>

\* A command that submits nothing goes where it goes.
DispatchKinds(x) ==
  /\ At(x, "dispatch")
  /\ UNCHANGED <<tasks, next_task_id, freed, fields, locks, library, place, budget, crashed>>
  /\ disturbed' \in {disturbed, disturbed \union {x}}
  /\ \/ Goto(x, CommandEnd(x)) /\ UNCHANGED <<allocated, arg, reg>>
     \/ /\ allocated < MaxTasks /\ allocated' = allocated + 1
        /\ arg' = [arg EXCEPT ![x] = allocated + 1] /\ reg' = [reg EXCEPT ![x] = next_task_id]
        /\ Goto(x, "store")
     \/ /\ \E i \in 1 .. MaxTasks : reg' = [reg EXCEPT ![x] = i]
        /\ Goto(x, "kill") \/ Goto(x, "wait")
        /\ UNCHANGED <<allocated, arg>>
     \/ Goto(x, "list") /\ UNCHANGED <<allocated, arg, reg>>

\* What a step of pthread_join can be.
LEMMA JoinKinds ==
  ASSUME BaseInv, NEW x \in Threads, JoinBegin(x) \/ JoinEnd(x)
  PROVE  \/ JoinReturns(x) \/ JoinBlocks(x)
         \/ crashed' = TRUE /\ UNCHANGED <<lists, fields, locks, library, pc, arg, reg, search, budget>>
<1> USE DEF lists, fields, locks, library, search
<1>1. CASE JoinEnd(x)
  BY <1>1 DEF JoinEnd, JoinReturns
<1>2. CASE JoinBegin(x)
  <2>1. arg[x] \in Tasks
    BY <1>2 DEF JoinBegin, At, BaseInv, Collects, Joins
  <2>2. PICK h \in ThreadRead(arg[x]) :
          \/ /\ h = None
             /\ crashed' = TRUE
             /\ UNCHANGED <<freed, disturbed, joiner, pc>>
          \/ /\ h # None /\ JoinFails(x, h)
             /\ Joined(x)
             /\ UNCHANGED <<joiner, crashed>>
          \/ /\ h # None /\ ~ JoinFails(x, h)
             /\ joiner' = [joiner EXCEPT ![h] = x]
             /\ Goto(x, IF pc[x] = "gcjoin" THEN "gcjoining" ELSE "joining")
             /\ UNCHANGED <<freed, disturbed, crashed>>
    BY <1>2 DEF JoinBegin
  <2>3. /\ At(x, "gcjoin") \/ At(x, "join")
        /\ UNCHANGED <<tasks, next_task_id, allocated, fields, locks, occupant, cancelled,
                       arg, reg, place, budget>>
    BY <1>2 DEF JoinBegin
  <2>4. h \in Handles \union {None} /\ (arg[x] \in freed \/ h = handle[arg[x]])
    BY <2>1, <2>2 DEF ThreadRead, BaseInv, TypeOK
  <2>5. CASE h = None
    BY <2>2, <2>3, <2>5
  <2>6. CASE h # None /\ JoinFails(x, h)
    BY <2>2, <2>3, <2>4, <2>6 DEF JoinReturns
  <2>7. CASE h # None /\ ~ JoinFails(x, h)
    BY <2>2, <2>3, <2>4, <2>7 DEF JoinBlocks, JoinFails
  <2> QED BY <2>5, <2>6, <2>7
<1> QED BY <1>1, <1>2

\* A function of which one value was replaced keeps its type.
LEMMA StillTyped ==
  ASSUME NEW S, NEW T, NEW f \in [S -> T], NEW g, g = f \/ \E x \in S, v \in T : g = [f EXCEPT ![x] = v]
  PROVE  g \in [S -> T]
OBVIOUS

\* So the positions, arguments and statuses of threads keep theirs in every step of one.
LEMMA StepTyped ==
  ASSUME pc \in [Threads -> PC], arg \in [Threads -> Tasks \union {None}],
         reg \in [Threads -> 0 .. MaxTasks], place \in [Threads -> Nat],
         status \in [Tasks -> Status], Tasks \subseteq Threads, NEW x \in Threads
  PROVE  /\ UNCHANGED pc \/ (\E l \in PC : pc' = [pc EXCEPT ![x] = l]) => pc' \in [Threads -> PC]
         /\ (\E l, m \in PC, t \in Tasks : pc' = [pc EXCEPT ![x] = l, ![t] = m])
            => pc' \in [Threads -> PC]
         /\ UNCHANGED arg \/ (\E t \in Tasks : arg' = [arg EXCEPT ![x] = t])
            => arg' \in [Threads -> Tasks \union {None}]
         /\ UNCHANGED reg \/ (\E i \in 0 .. MaxTasks : reg' = [reg EXCEPT ![x] = i])
            => reg' \in [Threads -> 0 .. MaxTasks]
         /\ UNCHANGED place \/ (\E n \in Nat : place' = [place EXCEPT ![x] = n])
            => place' \in [Threads -> Nat]
         /\ UNCHANGED status \/ (x \in Tasks /\ \E v \in Status : status' = [status EXCEPT ![x] = v])
            => status' \in [Tasks -> Status]
<1>1. UNCHANGED pc \/ (\E l \in PC : pc' = [pc EXCEPT ![x] = l]) => pc' \in [Threads -> PC]
  OBVIOUS
<1>2. (\E l, m \in PC, t \in Tasks : pc' = [pc EXCEPT ![x] = l, ![t] = m]) => pc' \in [Threads -> PC]
  OBVIOUS
<1>3. UNCHANGED arg \/ (\E t \in Tasks : arg' = [arg EXCEPT ![x] = t])
      => arg' \in [Threads -> Tasks \union {None}]
  OBVIOUS
<1>4. UNCHANGED reg \/ (\E i \in 0 .. MaxTasks : reg' = [reg EXCEPT ![x] = i])
      => reg' \in [Threads -> 0 .. MaxTasks]
  OBVIOUS
<1>5. UNCHANGED place \/ (\E n \in Nat : place' = [place EXCEPT ![x] = n]) => place' \in [Threads -> Nat]
  OBVIOUS
<1>6. UNCHANGED status \/ (x \in Tasks /\ \E v \in Status : status' = [status EXCEPT ![x] = v])
      => status' \in [Tasks -> Status]
  OBVIOUS
<1> QED BY <1>1, <1>2, <1>3, <1>4, <1>5, <1>6

\* A step from BaseInv keeps every variable in its type: the numbers that two threads load and
\* store again stay within the number of Tasks, and what is joined, killed or found is a Task.
LEMMA TypeStep == BaseInv /\ [Next]_vars => TypeOK'
<1> SUFFICES ASSUME BaseInv, [Next]_vars PROVE TypeOK'
  OBVIOUS
<1>0. TypeOK /\ Shells \subseteq Threads /\ Tasks \subseteq Threads
     /\ MaxTasks \in Nat /\ MaxCommands \in Nat
  BY TaskAssumption DEF BaseInv, Threads
<1> USE <1>0 DEF TypeOK, Goto, At, Status, lists, fields, locks, library, search, CommandEnd
<1>1. ASSUME NEW x \in Shells, StartCommand(x) PROVE TypeOK'
  <2>1. budget[x] - 1 \in 0 .. MaxCommands
    BY <1>1 DEF StartCommand
  <2> QED BY <1>1, <2>1 DEF StartCommand, PC
<1>2. ASSUME NEW x \in Threads, GcLock(x) \/ HistoryLock(x) \/ HistoryAppend(x) \/ SubmitReport(x)
                                \/ ListLock(x) \/ ListPrint(x)
      PROVE  TypeOK'
  <2>1. /\ UNCHANGED <<lists, fields, library, arg, reg, search, budget, crashed>>
        /\ task_mutex' \in {task_mutex, x, None} /\ history_mutex' \in {history_mutex, x, None}
    BY <1>2 DEF GcLock, HistoryLock, HistoryAppend, SubmitReport, ListLock, ListPrint
  <2>2. \E l \in PC : pc' = [pc EXCEPT ![x] = l]
    BY <1>2 DEF GcLock, HistoryLock, HistoryAppend, SubmitReport, ListLock, ListPrint, PC
  <2>3. pc' \in [Threads -> PC]
    BY <2>2, StepTyped
  <2> QED BY <2>1, <2>3
<1>3. ASSUME NEW x \in Threads, GcSweep(x) PROVE TypeOK'
  <2> DEFINE hits == {k \in DOMAIN tasks : tasks[k] \notin freed /\ Finished(tasks[k])}
             first == CHOOSE k \in hits : \A l \in hits : k <= l
  <2>1. CASE hits = {}
    <3>1. tasks' \in Seq(Tasks)
      BY <1>3, <2>1, ListedAfterGc DEF GcSweep
    <3> QED BY <1>3, <2>1, <3>1 DEF GcSweep, PC
  <2>2. CASE hits # {}
    <3>1. hits \in SUBSET DOMAIN tasks
      OBVIOUS
    <3>2. first \in DOMAIN tasks
      BY <2>2, <3>1, FirstPlace
    <3>3. tasks[first] \in Tasks
      BY <3>2
    <3> HIDE DEF first
    <3> QED BY <1>3, <2>2, <3>3 DEF GcSweep, first, PC
  <2> QED BY <2>1, <2>2
<1>4. ASSUME NEW x \in Threads, Dispatch(x) PROVE TypeOK'
  <2>1. DispatchKinds(x)
    BY <1>4 DEF Dispatch, DispatchKinds
  <2>2. \E l \in PC : pc' = [pc EXCEPT ![x] = l]
    BY <2>1 DEF DispatchKinds, PC
  <2>10. pc' \in [Threads -> PC]
    BY <2>2, StepTyped
  <2>3. allocated < MaxTasks => allocated + 1 \in Tasks /\ next_task_id \in 0 .. MaxTasks
    BY TaskAssumption DEF BaseInv, Numbers, Tasks
  <2>4. allocated' = allocated \/ (allocated < MaxTasks /\ allocated' = allocated + 1)
    BY <2>1 DEF DispatchKinds
  <2>5. arg' = arg \/ \E a \in Tasks : arg' = [arg EXCEPT ![x] = a]
    BY <2>1, <2>3 DEF DispatchKinds
  <2>6. reg' = reg \/ \E i \in 0 .. MaxTasks : reg' = [reg EXCEPT ![x] = i]
    BY <2>1, <2>3 DEF DispatchKinds
  <2>7. allocated' \in 0 .. MaxTasks
    BY <2>4
  <2>8. arg' \in [Threads -> Tasks \union {None}]
    BY <2>5, StepTyped
  <2>9. reg' \in [Threads -> 0 .. MaxTasks]
    BY <2>6, StepTyped
  <2> QED BY <2>1, <2>7, <2>8, <2>9, <2>10 DEF DispatchKinds
<1>5. ASSUME NEW x \in Threads, JoinBegin(x) \/ JoinEnd(x) PROVE TypeOK'
  <2>1. \/ JoinReturns(x) \/ JoinBlocks(x)
        \/ crashed' = TRUE /\ UNCHANGED <<lists, fields, locks, library, pc, arg, reg, search, budget>>
    BY <1>5, JoinKinds
  <2>6. pc' = pc \/ \E l \in PC : pc' = [pc EXCEPT ![x] = l]
    <3>1. CASE JoinReturns(x)
      BY <3>1 DEF JoinReturns, Joined, PC
    <3>2. CASE JoinBlocks(x)
      BY <3>2 DEF JoinBlocks, PC
    <3> QED BY <2>1, <3>1, <3>2
  <2>2. pc' \in [Threads -> PC]
    BY <2>6, StepTyped
  <2>3. freed' \subseteq Tasks
    BY <2>1 DEF JoinReturns, JoinBlocks, Joined, BaseInv, Collects
  <2>7. /\ joiner' = joiner \/ \E h \in Handles, w \in {None, x} : joiner' = [joiner EXCEPT ![h] = w]
        /\ occupant' = occupant \/ \E h \in Handles : occupant' = [occupant EXCEPT ![h] = None]
    <3>1. CASE JoinReturns(x)
      BY <3>1 DEF JoinReturns
    <3>2. CASE JoinBlocks(x)
      BY <3>2 DEF JoinBlocks
    <3> QED BY <2>1, <3>1, <3>2
  <2>4. joiner' \in [Handles -> Threads \union {None}] /\ occupant' \in [Handles -> Tasks \union {None}]
    <3>1. {None, x} \subseteq Threads \union {None}
      OBVIOUS
    <3>2. joiner' \in [Handles -> Threads \union {None}]
      BY <1>0, <2>7, <3>1, StillTyped, Zenon
    <3>3. occupant' \in [Handles -> Tasks \union {None}]
      BY <1>0, <2>7, StillTyped, Zenon
    <3> QED BY <3>2, <3>3
  <2>5. UNCHANGED <<tasks, next_task_id, allocated, fields, locks, cancelled, arg, reg, place,
  budget>>
        /\ crashed' \in BOOLEAN /\ disturbed' \subseteq Threads
    BY <2>1 DEF JoinReturns, JoinBlocks, Joined
  <2> QED BY <2>2, <2>3, <2>4, <2>5
<1>6. ASSUME NEW x \in Threads, SubmitStore(x) PROVE TypeOK'
  <2>1. arg[x] \in Tasks /\ reg[x] \in 1 .. MaxTasks
    BY <1>6 DEF SubmitStore, BaseInv, Numbers, Submits
  <2>2. next_task_id' \in 1 .. MaxTasks + 1
    BY <1>6, <2>1 DEF SubmitStore, NextId
  <2>3. id' \in [Tasks -> 0 .. MaxTasks]
    BY <1>6, <2>1 DEF SubmitStore, NewId
  <2> QED BY <1>6, <2>2, <2>3 DEF SubmitStore, PC
<1>7. ASSUME NEW x \in Threads, SubmitInsert(x) PROVE TypeOK'
  <2>1. tasks' \in Seq(Tasks)
    BY <1>7, ListedAfterInsert DEF SubmitInsert, BaseInv, Submits
  <2> QED BY <1>7, <2>1 DEF SubmitInsert, PC
<1>8. ASSUME NEW x \in Threads, SubmitCreate(x) PROVE TypeOK'
  <2>1. arg[x] \in Tasks
    BY <1>8 DEF SubmitCreate, BaseInv, Submits
  <2>2. pc' \in [Threads -> PC]
    <3>1. \/ pc' = [pc EXCEPT ![x] = "report"]
          \/ pc' = [pc EXCEPT ![x] = "report", ![arg[x]] = "start"]
      BY <1>8 DEF SubmitCreate
    <3>2. "report" \in PC /\ "start" \in PC
      BY DEF PC
    <3> QED BY <2>1, <3>1, <3>2, StepTyped
  <2>3. \/ UNCHANGED <<occupant, handle>>
        \/ \E h \in Handles, t \in Tasks :
             occupant' = [occupant EXCEPT ![h] = t] /\ handle' = [handle EXCEPT ![t] = h]
    BY <1>8, <2>1 DEF SubmitCreate
  <2>4. occupant' \in [Handles -> Tasks \union {None}] /\ handle' \in [Tasks -> Handles \union {None}]
    <3>1. ASSUME NEW h \in Handles, NEW t \in Tasks
          PROVE  /\ [occupant EXCEPT ![h] = t] \in [Handles -> Tasks \union {None}]
                 /\ [handle EXCEPT ![t] = h] \in [Tasks -> Handles \union {None}]
      OBVIOUS
    <3>2. CASE UNCHANGED <<occupant, handle>>
      BY <3>2
    <3>3. ASSUME NEW h \in Handles, NEW t \in Tasks,
                 occupant' = [occupant EXCEPT ![h] = t], handle' = [handle EXCEPT ![t] = h]
          PROVE  occupant' \in [Handles -> Tasks \union {None}] /\ handle' \in [Tasks -> Handles \union {None}]
      BY <3>1, <3>3, Zenon
    <3> QED BY <2>3, <3>2, <3>3
  <2> QED BY <1>8, <2>2, <2>4 DEF SubmitCreate
<1>9. ASSUME NEW x \in Threads, TaskKill(x) PROVE TypeOK'
  <2>1. PICK t : t = Find(reg[x])
    OBVIOUS
  <2>2. t = None \/ t \in Tasks
    BY <2>1, FoundIsListed
  <2>3. t \in Tasks /\ status[t] = "RUNNING" => occupant[handle[t]] \in Tasks
    BY DEF BaseInv, StatusAgrees, HandlesAgree, Active
  <2>4. status' \in [Tasks -> Status] /\ cancelled' \subseteq Tasks
    BY <1>9, <2>1, <2>2, <2>3 DEF TaskKill
  <2>5. pc' \in [Threads -> PC]
    BY <1>9 DEF TaskKill, PC
  <2> QED BY <1>9, <2>4, <2>5 DEF TaskKill
<1>10. ASSUME NEW x \in Threads, WaitLook(x) \/ WaitLoad(x) \/ WaitTest(x) PROVE TypeOK'
  <2>1. /\ UNCHANGED <<lists, fields, locks, library, reg, budget>>
        /\ crashed' \in BOOLEAN
    BY <1>10 DEF WaitLook, WaitLoad, WaitTest
  <2>2. UNCHANGED pc \/ \E l \in PC : pc' = [pc EXCEPT ![x] = l]
    BY <1>10 DEF WaitLook, WaitLoad, WaitTest, PC
  <2>3. pc' \in [Threads -> PC]
    BY <2>2, StepTyped
  <2>4. UNCHANGED arg \/ \E t \in Tasks : arg' = [arg EXCEPT ![x] = t]
    BY <1>10 DEF WaitLook, WaitLoad, WaitTest
  <2>5. arg' \in [Threads -> Tasks \union {None}]
    BY <2>4, StepTyped
  <2>6. UNCHANGED place \/ \E n \in Nat : place' = [place EXCEPT ![x] = n]
    <3>1. place[x] + 1 \in Nat
      OBVIOUS
    <3> QED BY <1>10, <3>1 DEF WaitLook, WaitLoad, WaitTest, SearchOver
  <2>7. place' \in [Threads -> Nat]
    BY <2>6, StepTyped
  <2>8. disturbed' \subseteq Threads
    BY <1>10 DEF WaitLook, WaitLoad, WaitTest, SearchOver
  <2> QED BY <2>1, <2>3, <2>5, <2>7, <2>8
<1>11. ASSUME NEW t \in Tasks, WrapperStart(t) \/ WrapperFinish(t) \/ ThreadEnd(t) \/ Cancelled(t)
       PROVE  TypeOK'
  <2>1. CASE WrapperStart(t) \/ WrapperFinish(t) \/ ThreadEnd(t)
    <3>1. /\ UNCHANGED <<lists, id, handle, locks, library, arg, reg, search, budget, crashed>>
          /\ UNCHANGED status \/ \E v \in Status : status' = [status EXCEPT ![t] = v]
          /\ \E l \in PC : pc' = [pc EXCEPT ![t] = l]
      BY <2>1 DEF WrapperStart, WrapperFinish, ThreadEnd, FinalStatus, PC
    <3>2. pc' \in [Threads -> PC]
      BY <3>1, StepTyped
    <3>3. status' \in [Tasks -> Status]
      BY <3>1, StepTyped
    <3> QED BY <3>1, <3>2, <3>3
  <2>2. CASE Cancelled(t)
    BY <2>2 DEF Cancelled, PC
  <2> QED BY <1>11, <2>1, <2>2
<1>12. CASE UNCHANGED vars
  BY <1>12 DEF vars
<1> QED
  BY <1>1, <1>2, <1>3, <1>4, <1>5, <1>6, <1>7, <1>8, <1>9, <1>10, <1>11, <1>12
  DEF Next, TaskStep, CommandStep

-----------------------------------------------------------------------------
(* BaseInv, step by step.                                                  *)

\* The positions inside a command.
Inside == PC \ {"none", "start", "return", "ended"}

\* A thread that goes on with its command leaves every Task where it is.
LEMMA GoesOn ==
  ASSUME BaseInv, TypeOK', NEW x \in Threads, NEW l \in Inside \ {"store", "insert", "create"},
         pc[x] \in Inside, Goto(x, l), \A y \in Threads \ {x} : arg'[y] = arg[y],
         UNCHANGED <<allocated, fields, cancelled>>, \A t : Listed(t)' => Listed(t),
         \A t \in Tasks : pc[t] = "none" /\ Listed(t) => Listed(t)'
  PROVE  /\ Submits' /\ StatusAgrees'
         /\ \A t \in Tasks : (pc'[t] = "none" <=> pc[t] = "none") /\ (Over(t)' <=> Over(t))
<1>0. /\ TypeOK /\ Tasks \subseteq Threads
      /\ Submits /\ StatusAgrees
  BY DEF BaseInv, Threads
<1>1. /\ pc'[x] = l /\ \A y \in Threads \ {x} : pc'[y] = pc[y]
      /\ pc[x] \notin {"none", "start", "return", "ended"}
      /\ l \notin {"none", "start", "return", "ended", "store", "insert", "create"}
      /\ UNCHANGED <<status, allocated, cancelled>>
  BY <1>0 DEF Goto, TypeOK, Inside, fields
<1>2. \A t \in Tasks : /\ pc'[t] = "none" <=> pc[t] = "none"
                       /\ Over(t)' <=> Over(t)
                       /\ Active(t)' <=> Active(t)
                       /\ pc'[t] = "start" <=> pc[t] = "start"
  BY <1>0, <1>1 DEF Over, Active
<1>3. Submits'
  BY <1>0, <1>1, <1>2 DEF Submits
<1>4. StatusAgrees'
  BY <1>0, <1>1, <1>2 DEF StatusAgrees, TypeOK
<1> QED BY <1>2, <1>3, <1>4

\* A thread that does not block, or stop blocking, leaves the joins alone.
LEMMA JoinsKept ==
  ASSUME BaseInv, TypeOK', NEW x \in Threads, NEW l, Goto(x, l), \A y \in Threads \ {x} : arg'[y] = arg[y],
         UNCHANGED <<handle, occupant, joiner>>, freed \subseteq freed',
         pc[x] \notin {"gcjoining", "joining"}, l \in {"test", "join", "joining"} => arg'[x] \in Tasks,
         \A t \in Tasks : Over(t) => Over(t)'
  PROVE  Joins'
<1>0. TypeOK /\ Tasks \subseteq Threads /\ Joins /\ None \notin Threads
  BY TaskAssumption DEF BaseInv, Threads
<1>1. pc'[x] = l /\ \A y \in Threads \ {x} : pc'[y] = pc[y]
  BY <1>0 DEF Goto, TypeOK
<1>2. \A y \in Threads : pc'[y] \in {"test", "join", "joining"} => arg'[y] \in Tasks
  BY <1>0, <1>1 DEF Joins
<1>3. ASSUME NEW h \in Handles, joiner[h] # None
      PROVE  LET y == joiner[h] IN
             /\ pc'[y] \in {"gcjoining", "joining"}
             /\ occupant[h] # None
             /\ \/ arg'[y] \in freed'
                \/ h = handle[arg'[y]] /\ (occupant[h] = arg'[y] \/ pc'[arg'[y]] \in {"return", "ended"})
  <2>1. PICK y \in Threads : y = joiner[h]
    BY <1>0, <1>3 DEF TypeOK
  <2>2. /\ pc[y] \in {"gcjoining", "joining"} /\ occupant[h] # None
        /\ arg[y] \in freed \/ (h = handle[arg[y]] /\ (occupant[h] = arg[y] \/ Over(arg[y])))
    BY <1>0, <1>3, <2>1 DEF Joins
  <2>3. y # x /\ pc'[y] = pc[y] /\ arg'[y] = arg[y]
    BY <1>1, <2>1, <2>2
  <2>4. PICK a : a = arg[y]
    OBVIOUS
  <2>5. a \in Tasks
    BY <1>0, <2>2, <2>4 DEF Joins, Collects, BaseInv
  <2> QED BY <2>1, <2>2, <2>3, <2>4, <2>5 DEF Over
<1>4. \A g, h \in Handles : joiner[g] # None /\ joiner[g] = joiner[h] => g = h
  BY <1>0 DEF Joins
<1>5. joiner' = joiner /\ occupant' = occupant /\ handle' = handle
  OBVIOUS
<1> QED BY <1>2, <1>3, <1>4, <1>5 DEF Joins, Over

\* A step that moves one thread and changes nothing that the invariant speaks of.
Quiet(x) ==
  /\ UNCHANGED <<lists, fields, library, arg>>
  /\ \A y \in Threads \ {x} : reg'[y] = reg[y]
  /\ pc[x] \in {"idle", "gc", "history", "append", "dispatch", "report", "list", "print", "wait", "test"}
  /\ \/ task_mutex = None /\ task_mutex' = x /\ (Goto(x, "sweep") \/ Goto(x, "print"))
     \/ /\ task_mutex' = task_mutex \/ (pc[x] = "print" /\ task_mutex' = None)
        /\ \E l \in {"gc", "append", "dispatch", "kill", "wait", "entry", "list", CommandEnd(x)} : Goto(x, l)

\* The beginning of task_submit.
Mallocs(x) ==
  /\ At(x, "dispatch")
  /\ allocated < MaxTasks /\ allocated' = allocated + 1
  /\ arg' = [arg EXCEPT ![x] = allocated + 1] /\ reg' = [reg EXCEPT ![x] = next_task_id]
  /\ Goto(x, "store")
  /\ UNCHANGED <<tasks, next_task_id, freed, fields, locks, library, budget, crashed>>

\* The types that the other parts of BaseInv are about.
Typed ==
  /\ tasks \in Seq(Tasks) /\ next_task_id \in 1 .. MaxTasks + 1
  /\ status \in [Tasks -> Status] /\ handle \in [Tasks -> Handles \union {None}]
  /\ allocated \in 0 .. MaxTasks /\ freed \subseteq Tasks
  /\ occupant \in [Handles -> Tasks \union {None}]
  /\ joiner \in [Handles -> Threads \union {None}]
  /\ cancelled \subseteq Tasks
  /\ pc \in [Threads -> PC]
  /\ arg \in [Threads -> Tasks \union {None}]
  /\ reg \in [Threads -> 0 .. MaxTasks]

\* BaseInv is inductive: one step per action, one per part of the invariant.
LEMMA BaseStep == BaseInv /\ TypeOK' /\ [Next]_vars => BaseInv'
<1> SUFFICES ASSUME BaseInv, TypeOK', [Next]_vars PROVE BaseInv'
  OBVIOUS
<1>0. /\ TypeOK /\ TypeOK' /\ Typed /\ Typed' /\ Shells \subseteq Threads /\ Tasks \subseteq Threads
      /\ Shells \intersect Tasks = {} /\ \A x \in Threads : x \in Shells \/ x \in Tasks
      /\ None \notin Threads /\ None \notin Handles /\ MaxTasks \in Nat
      /\ Roles /\ Numbers /\ Submits /\ HandlesAgree /\ StatusAgrees /\ Collects /\ Joins /\ Lists
  BY TaskAssumption DEF BaseInv, Threads, TypeOK, Typed
<1> USE <1>0 DEF Typed, Goto, At, lists, fields, locks, library
<1>1. ASSUME NEW x \in Threads, Quiet(x) PROVE BaseInv'
  <2> USE <1>1 DEF Quiet, CommandEnd
  <2>0. (\A t : Listed(t)' <=> Listed(t))
    BY DEF Listed
  <2>1. PICK l \in Inside \ {"store", "insert", "create", "test", "join", "joining"} : Goto(x, l)
    BY DEF Inside, PC
  <2>2. pc[x] \in Inside
    BY DEF Inside, PC
  <2>3. Roles'
    BY <2>0, SMTT(30) DEF Roles
  <2>4. Numbers'
    BY <2>1 DEF Numbers, Inside
  <2>5. Submits' /\ StatusAgrees' /\ \A t \in Tasks : Over(t)' <=> Over(t)
    BY <2>0, <2>1, <2>2, GoesOn
  <2>6. HandlesAgree'
    BY <2>0, SMTT(30) DEF HandlesAgree, Submits, Joins
  <2>7. Collects'
    BY <2>0, SMTT(30) DEF Collects, Submits, Finished
  <2>8. Joins'
    BY <2>1, <2>5, JoinsKept
  <2>9. Lists'
    BY <2>0, SMTT(30) DEF Lists, Submits, Collects, HandlesAgree
  <2> QED BY <2>3, <2>4, <2>5, <2>6, <2>7, <2>8, <2>9 DEF BaseInv
<1>2. ASSUME NEW x \in Threads, Mallocs(x) PROVE BaseInv'
  <2> USE <1>2 DEF Mallocs
  <2>0. \A t : Listed(t)' <=> Listed(t)
    BY DEF Listed
  <2>1. Roles'
    BY <2>0 DEF Roles
  <2>2. Numbers'
    BY <2>0 DEF Numbers
  <2>3. Submits'
    <3>1. PICK n \in Tasks : n = allocated + 1
      BY DEF Tasks
    <3>2. arg'[x] = n /\ \A y \in Threads \ {x} : arg'[y] = arg[y] /\ pc'[y] = pc[y]
      BY <3>1
    <3>3. n # x /\ pc'[n] = "none" /\ ~ Listed(n)'
      BY <2>0, <3>1, <3>2 DEF Submits
    <3>4. ASSUME NEW y \in Threads \ {x}, pc[y] \in {"store", "insert", "create"}
          PROVE  arg[y] \in Tasks /\ arg[y] < n /\ arg[y] # x /\ pc'[arg[y]] = "none"
      <4>1. PICK a \in Tasks : a = arg[y] /\ a <= allocated /\ pc[a] = "none"
        BY <3>4 DEF Submits
      <4>2. a # x /\ pc'[a] = "none"
        BY <4>1
      <4> QED BY <3>1, <4>1, <4>2 DEF Tasks
    <3>5. pc'[x] = "store" /\ n <= allocated'
      BY <3>1
    <3>6. \A t \in Tasks : t > allocated' => pc'[t] = "none" /\ ~ Listed(t)'
      BY <2>0, SMTT(30) DEF Submits, Tasks
    <3>7. UNCHANGED status /\ \A y \in Threads \ {x} : pc[y] \in {"store", "insert", "create"} => arg[y] <= allocated'
      BY <3>1, <3>4, <3>5, SMTT(30) DEF Submits, Tasks
    <3>0. n \in Nat /\ \A a \in Tasks : a \in Nat
      BY DEF Tasks
    <3>10. Submits
      OBVIOUS
    <3> HIDE <1>0, <1>2 DEF Mallocs, Typed
    <3>8. ASSUME NEW y \in Threads, pc'[y] \in {"store", "insert", "create"}
          PROVE  /\ arg'[y] \in Tasks /\ arg'[y] <= allocated' /\ pc'[arg'[y]] = "none"
                 /\ pc'[y] # "create" => ~ Listed(arg[y])'
                 /\ pc'[y] = "insert" => status'[arg'[y]] = "PENDING"
                 /\ pc'[y] = "create" => Listed(arg[y])'
      <4>1. CASE y = x
        BY <3>2, <3>3, <3>5, <4>1
      <4>2. CASE y # x
        <5>0. /\ y \in Threads \ {x} /\ arg'[y] = arg[y] /\ pc'[y] = pc[y]
              /\ pc[y] \in {"store", "insert", "create"}
          BY <3>2, <3>8, <4>2
        <5>1. PICK a \in Tasks : a = arg[y] /\ a = arg'[y]
          BY <3>4, <5>0
        <5>2. a <= allocated' /\ pc'[a] = "none" /\ pc'[y] = pc[y]
          BY <3>4, <3>7, <5>0, <5>1
        <5>3. /\ pc[y] # "create" => ~ Listed(a)
              /\ pc[y] = "insert" => status[a] = "PENDING"
              /\ pc[y] = "create" => Listed(a)
          BY <3>10, <5>0, <5>1 DEF Submits
        <5> QED BY <2>0, <3>7, <5>1, <5>2, <5>3
      <4> QED BY <4>1, <4>2
    <3>9. ASSUME NEW y \in Threads, NEW z \in Threads, arg'[z] = arg'[y],
                 pc'[y] \in {"store", "insert", "create"}, pc'[z] \in {"store", "insert", "create"}
          PROVE  z = y
      <4>1. ASSUME NEW w \in Threads \ {x}, pc'[w] \in {"store", "insert", "create"}
            PROVE  arg'[w] = arg[w] /\ arg[w] \in Tasks /\ arg[w] < n /\ pc[w] = pc'[w]
        BY <3>2, <3>4, <4>1
      <4>2. ASSUME NEW w \in Threads \ {x}, pc'[w] \in {"store", "insert", "create"}
            PROVE  arg'[w] # arg'[x]
        BY <3>0, <3>2, <4>1, <4>2
      <4>3. CASE y = x \/ z = x
        BY <3>9, <4>2, <4>3
      <4>4. CASE y # x /\ z # x
        <5>1. /\ arg[z] = arg[y] /\ pc[y] \in {"store", "insert", "create"}
              /\ pc[z] \in {"store", "insert", "create"}
          BY <3>9, <4>1, <4>4
        <5> QED BY <3>10, <5>1 DEF Submits
      <4> QED BY <4>3, <4>4
    <3> QED BY <3>6, <3>8, <3>9 DEF Submits
  <2>4. HandlesAgree'
    BY <2>0 DEF HandlesAgree, Submits, Joins
  <2>5. StatusAgrees'
    BY <2>0 DEF StatusAgrees, Submits, HandlesAgree, Active, Over
  <2>6. Collects'
    BY <2>0 DEF Collects, Submits, Finished
  <2>7. Joins'
    <3>1. Goto(x, "store") /\ pc[x] = "dispatch" /\ \A t \in Tasks : Over(t) => Over(t)'
      BY DEF Over
    <3>2. (\A y \in Threads \ {x} : arg'[y] = arg[y]) /\ UNCHANGED <<handle, occupant, joiner, freed>>
      OBVIOUS
    <3> HIDE <1>2
    <3> QED BY <3>1, <3>2, JoinsKept
  <2>8. Lists'
    BY <2>0 DEF Lists, Submits, Collects, HandlesAgree
  <2> QED BY <2>1, <2>2, <2>3, <2>4, <2>5, <2>6, <2>7, <2>8 DEF BaseInv
<1>3. ASSUME NEW x \in Threads, GcSweep(x) PROVE BaseInv'
  <2> DEFINE hits == {k \in DOMAIN tasks : tasks[k] \notin freed /\ Finished(tasks[k])}
             first == CHOOSE k \in hits : \A l \in hits : k <= l
  <2>0. pc[x] = "sweep" /\ pc[x] \in Inside
    BY <1>3 DEF GcSweep, Inside, PC
  <2>1. CASE hits # {}
    <3>1. first \in hits
      <4>1. hits \in SUBSET DOMAIN tasks
        OBVIOUS
      <4> QED BY <2>1, <4>1, FirstPlace
    <3>2. PICK t \in Tasks : t = tasks[first] /\ Listed(t) /\ t \notin freed /\ Finished(t)
      <4>1. PICK k \in DOMAIN tasks : k = first /\ tasks[k] \notin freed /\ Finished(tasks[k])
        BY <3>1
      <4>2. tasks[k] \in Tasks
        BY <4>1
      <4> QED BY <4>1, <4>2 DEF Listed
    <3>3. /\ pc' = [pc EXCEPT ![x] = "gcjoin"] /\ arg' = [arg EXCEPT ![x] = t]
          /\ UNCHANGED <<lists, fields, locks, library, reg, budget, crashed>>
      BY <1>3, <2>1, <3>2 DEF GcSweep
    <3> HIDE DEF hits, first
    <3>4. \A u : Listed(u)' <=> Listed(u)
      BY <3>3 DEF Listed
    <3>5. Submits' /\ StatusAgrees' /\ \A u \in Tasks : Over(u)' <=> Over(u)
      <4>1. "gcjoin" \in Inside \ {"store", "insert", "create"} /\ Goto(x, "gcjoin")
        BY <3>3 DEF Inside, PC, Goto
      <4>2. \A y \in Threads \ {x} : arg'[y] = arg[y]
        BY <3>3
      <4>3. UNCHANGED <<allocated, fields, cancelled>>
        BY <3>3 DEF lists, library
      <4> QED BY <2>0, <3>4, <4>1, <4>2, <4>3, GoesOn
    <3>6. Joins'
      BY <2>0, <3>3, <3>5, JoinsKept
    <3>7. Roles' /\ Numbers'
      BY <2>0, <3>3 DEF Roles, Numbers
    <3>8. HandlesAgree'
      BY <2>0, <3>3 DEF HandlesAgree
    <3>9. Collects'
      <4>1. Finished(t)' /\ Listed(t)' /\ t \notin freed'
        BY <3>2, <3>3, <3>4 DEF Finished
      <4> QED BY <2>0, <3>2, <3>3, <3>4, <4>1 DEF Collects, Finished
    <3>10. Lists'
      BY <2>0, <3>3, <3>4 DEF Lists
    <3> QED BY <3>5, <3>6, <3>7, <3>8, <3>9, <3>10 DEF BaseInv
  <2>2. CASE hits = {}
    <3>1. /\ pc' = [pc EXCEPT ![x] = "history"] /\ task_mutex' = None
          /\ tasks' = Squeezed(tasks, freed)
          /\ UNCHANGED <<next_task_id, allocated, freed, fields, history_mutex, library, arg, reg,
                         budget, crashed>>
      BY <1>3, <2>2 DEF GcSweep
    <3> HIDE DEF hits, first
    <3>2. \A u : Listed(u)' <=> Listed(u) /\ u \notin freed
      BY <3>1, ListedAfterGc
    <3>3. Submits' /\ StatusAgrees' /\ \A u \in Tasks : Over(u)' <=> Over(u)
      <4>1. \A u \in Tasks : pc[u] = "none" /\ Listed(u) => Listed(u)'
        BY <3>2 DEF Lists
      <4> QED BY <2>0, <3>1, <3>2, <4>1, GoesOn DEF Inside, PC
    <3>4. Joins'
      BY <2>0, <3>1, <3>3, JoinsKept
    <3>5. Roles' /\ Numbers'
      BY <2>0, <3>1 DEF Roles, Numbers
    <3>6. HandlesAgree'
      BY <2>0, <3>1 DEF HandlesAgree
    <3>7. Collects'
      BY <2>0, <3>1, <3>2 DEF Collects, Finished
    <3>8. Lists'
      BY <2>0, <3>1, <3>2 DEF Lists
    <3> QED BY <3>3, <3>4, <3>5, <3>6, <3>7, <3>8 DEF BaseInv
  <2> QED BY <2>1, <2>2
<1>4. ASSUME NEW x \in Threads, JoinReturns(x) PROVE BaseInv'
  <2>0. \A t : Listed(t)' <=> Listed(t)
    BY <1>4 DEF JoinReturns, Listed
  <2>1. PICK l \in Inside \ {"store", "insert", "create", "test", "join", "joining"} : Goto(x, l)
    BY <1>4 DEF JoinReturns, Joined, CommandEnd, Inside, PC
  <2>2. pc[x] \in {"gcjoin", "join", "gcjoining", "joining"} /\ pc[x] \in Inside
    BY <1>4 DEF JoinReturns, Inside, PC
  <2>3. UNCHANGED <<tasks, next_task_id, allocated, fields, locks, cancelled, arg, reg>>
    BY <1>4 DEF JoinReturns
  <2>4. Submits' /\ StatusAgrees' /\ \A t \in Tasks : (pc'[t] = "none" <=> pc[t] = "none") /\ (Over(t)' <=> Over(t))
    BY <2>0, <2>1, <2>2, <2>3, GoesOn
  <2>5. \/ UNCHANGED <<occupant, joiner>> /\ pc[x] \in {"gcjoin", "join"}
        \/ \E h \in Handles :
              /\ pc[x] \in {"gcjoining", "joining"}
              /\ joiner[h] = x /\ occupant[h] # None /\ pc[occupant[h]] = "ended"
              /\ joiner' = [joiner EXCEPT ![h] = None]
              /\ occupant' = [occupant EXCEPT ![h] = None]
    BY <1>4 DEF JoinReturns
  <2>12. pc[x] \in {"gcjoin", "gcjoining"} => arg[x] \in Tasks /\ pc[arg[x]] # "none"
    <3>1. CASE pc[x] \in {"gcjoin", "gcjoining"}
      <4>1. PICK a \in Tasks : a = arg[x] /\ a \notin freed
        BY <3>1 DEF Collects
      <4>2. pc[x] = "gcjoin" => handle[a] # None
        BY <1>4, <4>1 DEF JoinReturns
      <4>3. ASSUME NEW h \in Handles, joiner[h] = x PROVE handle[a] # None
        BY <4>1, <4>3 DEF Joins
      <4>4. handle[a] # None
        BY <2>5, <3>1, <4>2, <4>3
      <4> QED BY <4>1, <4>4 DEF HandlesAgree
    <3> QED BY <3>1
  <2>6. Roles'
    BY <1>4 DEF JoinReturns, Joined, CommandEnd, Roles
  <2>7. Numbers'
    BY <2>1, <2>3 DEF Numbers
  <2>8. HandlesAgree'
    <3>1. \A t \in Tasks : pc'[t] = "ended" <=> pc[t] = "ended"
      BY <2>1, <2>2 DEF Inside
    <3>2. \A t \in Tasks : pc[t] \notin {"none", "ended"} => occupant'[handle[t]] = t
      <4>1. ASSUME NEW t \in Tasks, pc[t] \notin {"none", "ended"} PROVE occupant'[handle[t]] = t
        <5>1. PICK g \in Handles : g = handle[t] /\ occupant[g] = t
          BY <4>1 DEF HandlesAgree
        <5> QED BY <2>5, <4>1, <5>1
      <4> QED BY <4>1
    <3>3. \A h \in Handles : occupant'[h] # None => occupant'[h] = occupant[h]
      BY <2>5
    <3> QED BY <2>3, <2>4, <3>1, <3>2, <3>3 DEF HandlesAgree
  <2>9. Collects'
    <3>1. /\ \A y \in Threads \ {x} : pc'[y] = pc[y]
          /\ pc'[x] \in {"sweep", "idle", "finish"} /\ (pc'[x] = "sweep" => pc[x] \in {"gcjoin", "gcjoining"})
          /\ freed' \in {freed, freed \union {arg[x]}}
          /\ freed' # freed => pc[x] \in {"gcjoin", "gcjoining"}
      BY <1>4 DEF JoinReturns, Joined, CommandEnd
    <3>2. UNCHANGED <<tasks, status, task_mutex, arg>>
      BY <2>3
    <3>3. \A y \in Threads : pc'[y] \in {"sweep", "gcjoin", "gcjoining", "print"} => task_mutex = y
      BY <3>1 DEF Collects
    <3>4. ASSUME NEW y \in Threads, pc'[y] \in {"gcjoin", "gcjoining"}
          PROVE  /\ arg[y] \in Tasks /\ Listed(arg[y]) /\ arg[y] \notin freed' /\ Finished(arg[y])
      <4>1. y # x /\ pc[y] = pc'[y] /\ task_mutex = y
        BY <3>1, <3>3, <3>4
      <4>2. freed' = freed
        BY <3>1, <4>1 DEF Collects
      <4> QED BY <3>4, <4>1, <4>2 DEF Collects
    <3> QED BY <2>0, <3>2, <3>3, <3>4 DEF Collects, Finished
  <2>10. Joins'
    <3>1. CASE UNCHANGED <<occupant, joiner>> /\ pc[x] \in {"gcjoin", "join"}
      <4>1. freed \subseteq freed' /\ pc[x] \notin {"gcjoining", "joining"}
        BY <1>4, <3>1 DEF JoinReturns, Joined
      <4> QED BY <2>1, <2>3, <2>4, <3>1, <4>1, JoinsKept
    <3>2. ASSUME NEW h \in Handles, joiner[h] = x,
                 joiner' = [joiner EXCEPT ![h] = None], occupant' = [occupant EXCEPT ![h] = None]
          PROVE  Joins'
      <4>2. /\ pc'[x] = l /\ l \notin {"test", "join", "joining"} /\ \A y \in Threads \ {x} : pc'[y] = pc[y]
            /\ UNCHANGED <<arg, handle>>
        BY <2>1, <2>3, SMTT(30)
      <4>4. ASSUME NEW g \in Handles, joiner'[g] # None
            PROVE  /\ g # h /\ joiner'[g] = joiner[g]
                   /\ pc'[joiner'[g]] \in {"gcjoining", "joining"}
                   /\ occupant'[g] # None
                   /\ \/ arg'[joiner'[g]] \in freed'
                      \/ /\ g = handle'[arg'[joiner'[g]]]
                         /\ occupant'[g] = arg'[joiner'[g]] \/ pc'[arg'[joiner'[g]]] \in {"return", "ended"}
        <5>1. PICK y \in Threads : y = joiner'[g]
          BY <4>4
        <5>2. g # h /\ joiner[g] = y /\ occupant'[g] = occupant[g]
          BY <3>2, <4>4, <5>1
        <5>3. y # x /\ pc'[y] = pc[y]
          BY <3>2, <4>2, <5>2 DEF Joins
        <5>4. PICK a \in Tasks : a = arg[y] /\ a = arg'[y]
          BY <4>2, <5>2 DEF Joins, Collects
        <5>7. joiner[g] # None
          BY <4>4, <5>1, <5>2
        <5>8. LET w == joiner[g] IN
             /\ pc[w] \in {"gcjoining", "joining"} /\ occupant[g] # None
             /\ arg[w] \in freed \/ (g = handle[arg[w]] /\ (occupant[g] = arg[w] \/ Over(arg[w])))
          BY <5>7 DEF Joins
        <5>5. /\ pc[y] \in {"gcjoining", "joining"} /\ occupant[g] # None
              /\ a \in freed \/ (g = handle[a] /\ (occupant[g] = a \/ Over(a)))
          BY <5>2, <5>4, <5>8
        <5>6. freed \subseteq freed'
          BY <1>4 DEF JoinReturns, Joined
        <5> QED BY <2>4, <4>2, <5>1, <5>2, <5>3, <5>4, <5>5, <5>6 DEF Over
      <4>5. \A y \in Threads : pc'[y] \in {"test", "join", "joining"} => arg'[y] \in Tasks
        BY <4>2 DEF Joins
      <4>6. \A f, g \in Handles : joiner'[f] # None /\ joiner'[f] = joiner'[g] => f = g
        BY <4>4 DEF Joins
      <4> QED BY <4>4, <4>5, <4>6 DEF Joins, Over
    <3> QED BY <2>2, <3>1, <3>2, <2>5
  <2>11. Lists'
    <3>1. freed' = freed \/ (pc[x] \in {"gcjoin", "gcjoining"} /\ freed' = freed \union {arg[x]})
      BY <1>4 DEF JoinReturns, Joined
    <3> QED BY <2>0, <2>4, <2>12, <3>1 DEF Lists
  <2> QED BY <2>4, <2>6, <2>7, <2>8, <2>9, <2>10, <2>11 DEF BaseInv
<1>5. ASSUME NEW x \in Threads, JoinBlocks(x) PROVE BaseInv'
  <2>0. \A t : Listed(t)' <=> Listed(t)
    BY <1>5 DEF JoinBlocks, Listed
  <2>1. PICK h \in Handles : /\ arg[x] \in freed \/ h = handle[arg[x]]
                            /\ occupant[h] # None /\ joiner[h] = None
                            /\ joiner' = [joiner EXCEPT ![h] = x]
    BY <1>5 DEF JoinBlocks
  <2>2. /\ pc[x] \in {"gcjoin", "join"} /\ Goto(x, IF pc[x] = "gcjoin" THEN "gcjoining" ELSE "joining")
        /\ UNCHANGED <<tasks, next_task_id, allocated, freed, fields, status, handle, task_mutex,
                       occupant, cancelled, arg, reg>>
    BY <1>5 DEF JoinBlocks
  <2>3. /\ pc'[x] = (IF pc[x] = "gcjoin" THEN "gcjoining" ELSE "joining")
        /\ \A y \in Threads \ {x} : pc'[y] = pc[y]
    BY <2>2
  <2>4. Submits' /\ StatusAgrees' /\ \A t \in Tasks : (pc'[t] = "none" <=> pc[t] = "none") /\ (Over(t)' <=> Over(t))
    BY <2>0, <2>2, GoesOn DEF Inside, PC
  <2>5. Roles' /\ Numbers'
    BY <2>2, <2>3 DEF Roles, Numbers
  <2>6. HandlesAgree'
    BY <2>2, <2>3 DEF HandlesAgree
  <2>7. Collects'
    BY <2>0, <2>2, <2>3 DEF Collects, Finished
  <2>8. Lists'
    BY <2>0, <2>2, <2>4 DEF Lists
  <2>9. Joins'
    <3>1. \A y \in Threads : pc'[y] \in {"test", "join", "joining"} => arg'[y] \in Tasks
      BY <2>2, <2>3 DEF Joins
    <3>2. PICK a \in Tasks : a = arg[x] /\ a = arg'[x]
      BY <2>2 DEF Joins, Collects
    <3>3. a \in freed \/ (h = handle[a] /\ (occupant[h] = a \/ Over(a)))
      BY <2>1, <3>2 DEF HandlesAgree, Over
    <3>4. \A g \in Handles : joiner[g] # x
      BY <2>2 DEF Joins
    <3>5. ASSUME NEW g \in Handles, joiner'[g] # None
          PROVE  /\ pc'[joiner'[g]] \in {"gcjoining", "joining"}
                 /\ occupant'[g] # None
                 /\ \/ arg'[joiner'[g]] \in freed'
                    \/ /\ g = handle'[arg'[joiner'[g]]]
                       /\ occupant'[g] = arg'[joiner'[g]] \/ pc'[arg'[joiner'[g]]] \in {"return", "ended"}
      <4>1. CASE g = h
        <5>1. joiner'[g] = x
          BY <2>1, <4>1
        <5> QED BY <2>1, <2>2, <2>3, <2>4, <3>2, <3>3, <4>1, <5>1 DEF Over
      <4>2. CASE g # h
        <5>1. PICK y \in Threads : y = joiner'[g] /\ y = joiner[g]
          BY <2>1, <3>5, <4>2
        <5>2. y # x /\ pc'[y] = pc[y]
          BY <2>3, <3>4, <5>1
        <5>3. PICK b \in Tasks : b = arg[y] /\ b = arg'[y]
          BY <2>2, <5>1 DEF Joins, Collects
        <5>7. joiner[g] # None
          BY <3>5, <5>1
        <5>8. LET w == joiner[g] IN
             /\ pc[w] \in {"gcjoining", "joining"} /\ occupant[g] # None
             /\ arg[w] \in freed \/ (g = handle[arg[w]] /\ (occupant[g] = arg[w] \/ Over(arg[w])))
          BY <5>7 DEF Joins
        <5>4. /\ pc[y] \in {"gcjoining", "joining"} /\ occupant[g] # None
              /\ b \in freed \/ (g = handle[b] /\ (occupant[g] = b \/ Over(b)))
          BY <5>1, <5>3, <5>8
        <5> QED BY <2>2, <2>4, <5>1, <5>2, <5>3, <5>4 DEF Over
      <4> QED BY <4>1, <4>2
    <3>6. \A f, g \in Handles : joiner'[f] # None /\ joiner'[f] = joiner'[g] => f = g
      BY <2>1, <3>4 DEF Joins
    <3> QED BY <3>1, <3>5, <3>6 DEF Joins, Over
  <2> QED BY <2>4, <2>5, <2>6, <2>7, <2>8, <2>9 DEF BaseInv
<1>6. ASSUME NEW x \in Threads, SubmitStore(x) PROVE BaseInv'
  <2> USE <1>6 DEF SubmitStore, NextId, NewId
  <2>0. \A t : Listed(t)' <=> Listed(t)
    BY DEF Listed
  <2>1. Roles'
    BY <2>0 DEF Roles
  <2>2. Numbers'
    BY <2>0 DEF Numbers
  <2>3. Submits'
    BY <2>0 DEF Submits, Lists, StatusAgrees
  <2>4. HandlesAgree'
    BY <2>0 DEF HandlesAgree, Submits, Joins
  <2>5. StatusAgrees'
    BY <2>0 DEF StatusAgrees, Submits, HandlesAgree, Active, Over
  <2>6. Collects'
    BY <2>0 DEF Collects, Submits, Finished
  <2>7. Joins'
    BY <2>0 DEF Joins, HandlesAgree, Submits, Over
  <2>8. Lists'
    BY <2>0 DEF Lists, Submits, Collects, HandlesAgree
  <2> QED BY <2>1, <2>2, <2>3, <2>4, <2>5, <2>6, <2>7, <2>8 DEF BaseInv
<1>7. ASSUME NEW x \in Threads, SubmitInsert(x) PROVE BaseInv'
  <2> USE <1>7 DEF SubmitInsert
  <2>0. arg[x] \in Tasks /\ \A t : Listed(t)' <=> Listed(t) \/ t = arg[x]
    BY ListedAfterInsert DEF Submits
  <2>1. Roles'
    BY <2>0 DEF Roles
  <2>2. Numbers'
    BY <2>0 DEF Numbers
  <2>3. Submits'
    <3>1. PICK a \in Tasks : a = arg[x] /\ a <= allocated /\ pc[a] = "none"
      BY DEF Submits
    <3>2. /\ pc[x] = "insert" /\ pc'[x] = "create" /\ \A y \in Threads \ {x} : pc'[y] = pc[y]
          /\ UNCHANGED <<allocated, arg, status>>
      OBVIOUS
    <3>3. pc'[a] = "none"
      BY <3>1, <3>2
    <3>4. \A y \in Threads \ {x} : pc[y] \in {"store", "insert", "create"} => arg[y] # a /\ arg[y] # x
      BY <3>1 DEF Submits
    <3> HIDE <1>7 DEF SubmitInsert
    <3>5. \A t \in Tasks : t > allocated' => pc'[t] = "none" /\ ~ Listed(t)'
      <4>1. ASSUME NEW t \in Tasks, t > allocated PROVE t # a /\ t # x /\ pc[t] = "none" /\ ~ Listed(t)
        <5>1. pc[t] = "none" /\ ~ Listed(t)
          BY <4>1 DEF Submits
        <5>2. t # a
          BY <3>1, <4>1 DEF Tasks
        <5> QED BY <3>2, <5>1, <5>2
      <4> QED BY <2>0, <3>1, <3>2, <4>1
    <3>12. Submits /\ Tasks \subseteq Threads
      OBVIOUS
    <3> HIDE <1>0 DEF Typed
    <3>6. ASSUME NEW y \in Threads, pc'[y] \in {"store", "insert", "create"}
          PROVE  /\ arg[y] \in Tasks /\ arg[y] <= allocated /\ pc'[arg[y]] = "none"
                 /\ pc'[y] # "create" => ~ (Listed(arg[y]) \/ arg[y] = a)
                 /\ pc'[y] = "insert" => status[arg[y]] = "PENDING"
                 /\ pc'[y] = "create" => Listed(arg[y]) \/ arg[y] = a
      <4>1. CASE y = x
        BY <3>1, <3>2, <3>3, <4>1
      <4>2. CASE y # x
        <5>0. y \in Threads \ {x} /\ pc'[y] = pc[y] /\ pc[y] \in {"store", "insert", "create"}
          BY <3>2, <3>6, <4>2
        <5>1. PICK b \in Tasks : b = arg[y] /\ b <= allocated /\ pc[b] = "none"
          BY <3>12, <5>0 DEF Submits
        <5>2. b # a /\ b # x
          BY <3>4, <5>0, <5>1
        <5>3. /\ pc[y] # "create" => ~ Listed(b)
              /\ pc[y] = "insert" => status[b] = "PENDING"
              /\ pc[y] = "create" => Listed(b)
          BY <3>12, <5>0, <5>1 DEF Submits
        <5>4. pc'[b] = "none"
          BY <3>2, <3>12, <5>1, <5>2
        <5> QED BY <5>0, <5>1, <5>2, <5>3, <5>4
      <4> QED BY <4>1, <4>2
    <3>7. \A y, z \in Threads : /\ pc'[y] \in {"store", "insert", "create"}
                               /\ pc'[z] \in {"store", "insert", "create"} /\ arg[z] = arg[y] => z = y
      <4>1. ASSUME NEW y \in Threads, NEW z \in Threads, arg[z] = arg[y],
                   pc'[y] \in {"store", "insert", "create"}, pc'[z] \in {"store", "insert", "create"}
            PROVE  z = y
        <5>1. CASE y = x \/ z = x
          BY <3>1, <3>2, <3>4, <4>1, <5>1
        <5>2. CASE y # x /\ z # x
          <6>1. pc[y] \in {"store", "insert", "create"} /\ pc[z] \in {"store", "insert", "create"}
            BY <3>2, <4>1, <5>2
          <6> QED BY <3>12, <4>1, <6>1 DEF Submits
        <5> QED BY <5>1, <5>2
      <4> QED BY <4>1
    <3>8. ASSUME NEW y \in Threads, pc'[y] \in {"store", "insert", "create"}
          PROVE  /\ arg'[y] \in Tasks /\ arg'[y] <= allocated' /\ pc'[arg'[y]] = "none"
                 /\ pc'[y] # "create" => ~ Listed(arg[y])'
                 /\ pc'[y] = "insert" => status'[arg'[y]] = "PENDING"
                 /\ pc'[y] = "create" => Listed(arg[y])'
      <4>1. PICK b \in Tasks : b = arg[y] /\ b = arg'[y]
        BY <3>2, <3>6, <3>8
      <4>2. Listed(b)' <=> Listed(b) \/ b = a
        BY <2>0, <3>1
      <4>3. b <= allocated /\ pc'[b] = "none"
        BY <3>6, <3>8, <4>1
      <4>4. /\ pc'[y] # "create" => ~ (Listed(b) \/ b = a)
            /\ pc'[y] = "insert" => status[b] = "PENDING"
            /\ pc'[y] = "create" => Listed(b) \/ b = a
        BY <3>6, <3>8, <4>1
      <4> QED BY <3>2, <4>1, <4>2, <4>3, <4>4
    <3>9. UNCHANGED <<allocated, arg>>
      BY <3>2
    <3>10. \A y, z \in Threads : /\ pc'[y] \in {"store", "insert", "create"}
                                /\ pc'[z] \in {"store", "insert", "create"} /\ arg'[z] = arg'[y] => z = y
      BY <3>7, <3>9
    <3>11. \A t \in Tasks : t > allocated' => pc'[t] = "none" /\ ~ Listed(t)'
      BY <3>5, <3>9
    <3> QED BY <3>8, <3>10, <3>11 DEF Submits
  <2>4. HandlesAgree'
    BY <2>0 DEF HandlesAgree, Submits, Joins
  <2>5. StatusAgrees'
    BY <2>0 DEF StatusAgrees, Submits, HandlesAgree, Active, Over
  <2>6. Collects'
    BY <2>0 DEF Collects, Submits, Finished
  <2>7. Joins'
    BY <2>0 DEF Joins, HandlesAgree, Submits, Over
  <2>8. Lists'
    BY <2>0 DEF Lists, Submits, Collects, HandlesAgree
  <2> QED BY <2>1, <2>2, <2>3, <2>4, <2>5, <2>6, <2>7, <2>8 DEF BaseInv
<1>8. ASSUME NEW x \in Threads, SubmitCreate(x) PROVE BaseInv'
  <2>0. (\A t : Listed(t)' <=> Listed(t)) /\ pc[x] = "create"
    BY <1>8 DEF Listed, SubmitCreate
  <2>1. PICK t \in Tasks : t = arg[x] /\ pc[t] = "none" /\ Listed(t) /\ handle[t] = None /\ t # x
    BY <2>0 DEF Submits, HandlesAgree
  <2>2. CASE /\ Goto(x, "report")
             /\ UNCHANGED <<lists, fields, locks, library, arg, reg>>
    <3> USE <2>2
    <3>1. Submits' /\ StatusAgrees' /\ \A u \in Tasks : Over(u)' <=> Over(u)
      BY <2>0, GoesOn DEF Inside, PC
    <3>2. Joins'
      BY <2>0, <3>1, JoinsKept
    <3>3. Roles' /\ Numbers' /\ HandlesAgree'
      BY <2>0 DEF Roles, Numbers, HandlesAgree
    <3>4. Collects'
      BY <2>0 DEF Collects, Finished
    <3>5. Lists'
      BY <2>0 DEF Lists
    <3> QED BY <3>1, <3>2, <3>3, <3>4, <3>5 DEF BaseInv
  <2>3. ASSUME NEW h \in Handles, occupant[h] = None,
               occupant' = [occupant EXCEPT ![h] = t], handle' = [handle EXCEPT ![t] = h],
               pc' = [pc EXCEPT ![x] = "report", ![t] = "start"],
               UNCHANGED <<lists, status, id, locks, joiner, cancelled, arg, reg>>
        PROVE  BaseInv'
    <3>0. /\ handle[t] = None /\ h # None /\ occupant[h] = None /\ t \in Threads /\ t \notin Shells
          /\ pc[t] = "none" /\ pc[x] = "create" /\ t # x /\ Listed(t) /\ arg[x] = t
      BY <2>0, <2>1, <2>3
    <3>1. pc'[x] = "report" /\ pc'[t] = "start" /\ \A y \in Threads \ {x, t} : pc'[y] = pc[y]
      BY <2>1, <2>3
    <3>2. handle'[t] = h /\ \A u \in Tasks \ {t} : handle'[u] = handle[u]
      BY <2>1, <2>3
    <3>3. occupant'[h] = t /\ \A g \in Handles \ {h} : occupant'[g] = occupant[g]
      BY <2>1, <2>3
    <3>4. /\ UNCHANGED <<tasks, next_task_id, allocated, freed, status, task_mutex, joiner>>
          /\ UNCHANGED <<cancelled, arg, reg>>
      BY <2>3
    <3>5. Roles'
      <4>1. \A y \in Shells : y # t /\ pc'[y] \notin {"none", "start", "finish", "return", "ended"}
        BY <3>0, <3>1 DEF Roles
      <4>2. \A u \in Tasks : pc'[u] # "idle"
        <5>1. ASSUME NEW u \in Tasks PROVE pc'[u] # "idle"
          <6>1. pc[u] # "idle" /\ u \in Threads
            BY DEF Roles
          <6> QED BY <3>1, <6>1
        <5> QED BY <5>1
      <4> QED BY <4>1, <4>2 DEF Roles
    <3>6. Numbers'
      BY <3>1, <3>4 DEF Numbers
    <3>7. Submits'
      <4>1. ASSUME NEW y \in Threads, pc'[y] \in {"store", "insert", "create"}
            PROVE  y # x /\ pc[y] = pc'[y] /\ arg[y] \in Tasks /\ pc'[arg[y]] = "none"
        <5>1. y # x /\ y # t /\ pc[y] = pc'[y]
          BY <3>1, <4>1
        <5>2. PICK a \in Tasks : a = arg[y] /\ pc[a] = "none"
          BY <4>1, <5>1, SMTT(30) DEF Submits
        <5>3. a # t /\ a # x
          BY <3>0, <4>1, <5>1, <5>2 DEF Submits
        <5> QED BY <3>1, <5>1, <5>2, <5>3
      <4>2. ASSUME NEW u \in Tasks, u > allocated PROVE pc'[u] = "none" /\ ~ Listed(u)
        <5>1. t <= allocated /\ pc[u] = "none" /\ ~ Listed(u)
          BY <3>0, <4>2 DEF Submits
        <5>2. u # t /\ u # x
          BY <3>0, <5>1
        <5> QED BY <3>1, <5>1, <5>2
      <4> QED BY <2>0, <3>4, <4>1, <4>2, SMTT(30) DEF Submits
    <3>8. HandlesAgree'
      <4>1. ASSUME NEW u \in Tasks, pc[u] \notin {"none", "ended"} PROVE handle[u] # h
        BY <3>0, <4>1 DEF HandlesAgree
      <4>2. ASSUME NEW g \in Handles, occupant[g] = t PROVE FALSE
        <5>1. handle[occupant[g]] = g
          BY <3>0, <4>2 DEF HandlesAgree
        <5> QED BY <3>0, <4>2, <5>1
      <4>3. ASSUME NEW u \in Tasks PROVE pc'[u] = "none" <=> handle'[u] = None
        <5>1. CASE u = t
          BY <3>0, <3>1, <3>2, <5>1
        <5>2. CASE u # t
          <6>1. pc'[u] = "none" <=> pc[u] = "none"
            BY <3>0, <3>1, <5>2
          <6> QED BY <3>2, <5>2, <6>1 DEF HandlesAgree
        <5> QED BY <5>1, <5>2
      <4>4. ASSUME NEW g \in Handles, occupant'[g] # None PROVE handle'[occupant'[g]] = g
        <5>1. PICK u \in Tasks : u = occupant'[g]
          BY <4>4
        <5>2. CASE g = h
          BY <3>2, <3>3, <5>2
        <5>3. CASE g # h
          <6>1. u = occupant[g] /\ u # t
            BY <3>3, <4>2, <5>1, <5>3
          <6> QED BY <3>2, <4>4, <5>1, <6>1 DEF HandlesAgree
        <5> QED BY <5>2, <5>3
      <4>5. ASSUME NEW u \in Tasks, pc'[u] \notin {"none", "ended"} PROVE occupant'[handle'[u]] = u
        <5>1. CASE u = t
          BY <3>2, <3>3, <5>1
        <5>2. CASE u # t
          <6>1. pc[u] \notin {"none", "ended"}
            BY <3>0, <3>1, <4>5, <5>2
          <6>2. PICK g \in Handles : g = handle[u] /\ g # h /\ occupant[g] = u
            BY <4>1, <6>1 DEF HandlesAgree
          <6> QED BY <3>2, <3>3, <5>2, <6>2
        <5> QED BY <5>1, <5>2
      <4> QED BY <4>3, <4>4, <4>5 DEF HandlesAgree
    <3>9. StatusAgrees'
      <4>1. status[t] \in {"PENDING", "CANCELLED"} /\ t \notin cancelled
        <5>1. ~ Active(t) /\ ~ Over(t)
          BY <3>0 DEF Active, Over
        <5> QED BY <3>0, <5>1 DEF StatusAgrees, Status
      <4>2. \A u \in Tasks \ {t} : /\ Active(u)' <=> Active(u)
                                   /\ Over(u)' <=> Over(u)
                                   /\ pc'[u] \in {"none", "start"} <=> pc[u] \in {"none", "start"}
        BY <3>0, <3>1 DEF Active, Over
      <4>3. ~ Active(t)'
        BY <3>1 DEF Active
      <4> QED BY <3>1, <3>4, <4>1, <4>2, <4>3 DEF StatusAgrees
    <3>10. Collects'
      <4>1. \A y \in Threads : pc'[y] \in {"sweep", "gcjoin", "gcjoining", "print"} => pc[y] = pc'[y]
        BY <3>1
      <4> QED BY <2>0, <3>4, <4>1 DEF Collects, Finished
    <3>11. Joins'
      <4>1. ASSUME NEW y \in Threads, pc'[y] \in {"test", "join", "joining"} PROVE arg[y] \in Tasks
        BY <3>1, <4>1 DEF Joins
      <4>2. ASSUME NEW g \in Handles, joiner[g] # None
            PROVE  /\ pc'[joiner[g]] \in {"gcjoining", "joining"}
                   /\ occupant'[g] # None
                   /\ \/ arg[joiner[g]] \in freed
                      \/ /\ g = handle'[arg[joiner[g]]]
                         /\ occupant'[g] = arg[joiner[g]] \/ pc'[arg[joiner[g]]] \in {"return", "ended"}
        <5>0. LET w == joiner[g] IN
             /\ pc[w] \in {"gcjoining", "joining"} /\ occupant[g] # None
             /\ arg[w] \in freed \/ (g = handle[arg[w]] /\ (occupant[g] = arg[w] \/ Over(arg[w])))
          BY <4>2 DEF Joins
        <5>1. PICK y \in Threads : y = joiner[g] /\ pc[y] \in {"gcjoining", "joining"}
          BY <4>2, <5>0
        <5>2. PICK a \in Tasks : a = arg[y]
          BY <5>1 DEF Joins, Collects
        <5>3. g # h /\ y # x /\ y # t /\ pc'[y] = pc[y] /\ occupant'[g] = occupant[g]
          BY <3>0, <3>1, <3>3, <5>0, <5>1
        <5>4. CASE a \in freed
          BY <5>0, <5>1, <5>2, <5>3, <5>4
        <5>5. CASE g = handle[a] /\ (occupant[g] = a \/ Over(a))
          <6>1. a # t
            BY <3>0, <5>5
          <6>2. handle'[a] = handle[a]
            BY <3>2, <6>1
          <6>3. Over(a) => pc'[a] \in {"return", "ended"}
            BY <3>0, <3>1, <6>1 DEF Over
          <6> QED BY <5>0, <5>1, <5>2, <5>3, <5>5, <6>2, <6>3
        <5> QED BY <5>0, <5>1, <5>2, <5>4, <5>5
      <4>3. UNCHANGED <<joiner, arg, freed>>
        BY <3>4
      <4> QED BY <4>1, <4>2, <4>3 DEF Joins, Over
    <3>12. Lists'
      <4>1. \A u \in Tasks \ {t} : pc'[u] # "none" <=> pc[u] # "none"
        BY <3>0, <3>1
      <4> QED BY <2>0, <3>0, <3>1, <3>4, <4>1 DEF Lists
    <3> QED BY <3>5, <3>6, <3>7, <3>8, <3>9, <3>10, <3>11, <3>12 DEF BaseInv
  <2> QED BY <1>8, <2>1, <2>2, <2>3 DEF SubmitCreate
<1>9. ASSUME NEW x \in Threads, TaskKill(x) PROVE BaseInv'
  <2> USE <1>9 DEF TaskKill, CommandEnd, Killable
  <2>0. \A t : Listed(t)' <=> Listed(t)
    BY DEF Listed
  <2>1. Find(reg[x]) = None \/ (Find(reg[x]) \in Tasks /\ Listed(Find(reg[x])))
    BY FoundIsListed
  <2>2. Roles'
    BY <2>0 DEF Roles
  <2>3. Numbers'
    BY <2>0 DEF Numbers
  <2>4. Submits'
    BY <2>0, <2>1 DEF Submits, Lists, StatusAgrees
  <2>5. HandlesAgree'
    BY <2>0 DEF HandlesAgree, Submits, Joins
  <2>6. StatusAgrees'
    <3>0. /\ pc[x] = "kill" /\ pc'[x] \in {"idle", "finish"}
          /\ \A y \in Threads \ {x} : pc'[y] = pc[y]
      OBVIOUS
    <3>1. ASSUME NEW t \in Tasks
          PROVE  /\ Active(t)' <=> Active(t)
                 /\ Over(t)' <=> Over(t)
                 /\ pc'[t] \in {"none", "start"} <=> pc[t] \in {"none", "start"}
      <4> HIDE <1>9 DEF TaskKill
      <4>1. CASE t = x
        <5>1. pc[t] = "kill" /\ pc'[t] \in {"idle", "finish"}
          BY <3>0, <4>1
        <5> QED BY <5>1 DEF Active, Over
      <4>2. CASE t # x
        BY <3>0, <4>2 DEF Active, Over
      <4> QED BY <4>1, <4>2
    <3>2. UNCHANGED <<status, cancelled>> \/
          \E t \in Tasks : /\ status' = [status EXCEPT ![t] = "CANCELLED"]
                           /\ \/ status[t] = "PENDING" /\ cancelled' = cancelled
                              \/ status[t] = "RUNNING" /\ cancelled' = cancelled \union {t}
      <4>1. PICK t : t = Find(reg[x])
        OBVIOUS
      <4>2. CASE t # None /\ Killable(t)
        <5>1. t \in Tasks /\ status[t] \in {"PENDING", "RUNNING"} /\ status' = [status EXCEPT ![t] = "CANCELLED"]
          BY <2>1, <4>1, <4>2
        <5>2. status[t] = "RUNNING" => occupant[handle[t]] = t
          BY <5>1 DEF StatusAgrees, HandlesAgree, Active
        <5>3. CASE status[t] = "PENDING"
          <6>1. cancelled' = cancelled
            BY <4>1, <4>2, <5>3
          <6> QED BY <5>1, <5>3, <6>1
        <5>4. CASE status[t] = "RUNNING"
          <6>1. cancelled' = cancelled \union {t}
            BY <4>1, <4>2, <5>2, <5>4
          <6> QED BY <5>1, <5>4, <6>1
        <5> QED BY <5>1, <5>3, <5>4
      <4> QED BY <4>1, <4>2
    <3> HIDE <1>9 DEF TaskKill
    <3>3. \A t \in Tasks : ~ (Active(t) /\ pc[t] \in {"none", "start"})
      BY DEF Active
    <3>4. CASE UNCHANGED <<status, cancelled>>
      <4>1. cancelled \subseteq Tasks
        OBVIOUS
      <4> QED BY <3>1, <3>4, <4>1 DEF StatusAgrees
    <3>5. ASSUME NEW t \in Tasks, status' = [status EXCEPT ![t] = "CANCELLED"],
                 \/ status[t] = "PENDING" /\ cancelled' = cancelled
                 \/ status[t] = "RUNNING" /\ cancelled' = cancelled \union {t}
          PROVE  StatusAgrees'
      <4>1. status'[t] = "CANCELLED" /\ \A u \in Tasks \ {t} : status'[u] = status[u]
        BY <3>5
      <4>2. status[t] = "PENDING" => ~ Active(t) /\ cancelled' = cancelled
        BY <3>3, <3>5 DEF StatusAgrees
      <4>3. status[t] = "RUNNING" => pc[t] \notin {"none", "start"} /\ cancelled' = cancelled \union {t}
        BY <3>3, <3>5 DEF StatusAgrees
      <4>4. ASSUME NEW u \in cancelled' PROVE status'[u] = "CANCELLED" /\ pc'[u] \notin {"none", "start"}
        BY <3>1, <3>5, <4>1, <4>2, <4>3, <4>4 DEF StatusAgrees
      <4>5. ASSUME NEW u \in Tasks
            PROVE  /\ status'[u] = "PENDING" => pc'[u] \in {"none", "start"}
                   /\ status'[u] = "RUNNING" => Active(u)'
                   /\ status'[u] = "DONE" => Over(u)'
                   /\ status'[u] = "CANCELLED" /\ Active(u)' => u \in cancelled'
        <5>1. CASE u = t
          BY <3>1, <3>5, <4>1, <4>2, <4>3, <5>1
        <5>2. CASE u # t
          BY <3>1, <3>5, <4>1, <5>2 DEF StatusAgrees
        <5> QED BY <5>1, <5>2
      <4> QED BY <4>4, <4>5 DEF StatusAgrees
    <3> QED BY <3>2, <3>4, <3>5
  <2>7. Collects'
    BY <2>0 DEF Collects, Submits, Finished
  <2>8. Joins'
    BY <2>0 DEF Joins, HandlesAgree, Submits, Over
  <2>9. Lists'
    BY <2>0 DEF Lists, Submits, Collects, HandlesAgree
  <2> QED BY <2>2, <2>3, <2>4, <2>5, <2>6, <2>7, <2>8, <2>9 DEF BaseInv
<1>15. CASE UNCHANGED <<lists, fields, locks, library, pc, arg, reg>>
  <2> USE <1>15
  <2>0. \A t : Listed(t)' <=> Listed(t)
    BY DEF Listed
  <2>1. Roles' /\ Numbers' /\ HandlesAgree'
    BY DEF Roles, Numbers, HandlesAgree
  <2>2. Submits' /\ Lists'
    BY <2>0 DEF Submits, Lists
  <2>3. StatusAgrees' /\ Joins'
    BY DEF StatusAgrees, Joins, Active, Over
  <2>4. Collects'
    BY <2>0 DEF Collects, Finished
  <2> QED BY <2>1, <2>2, <2>3, <2>4 DEF BaseInv
<1>10. ASSUME NEW x \in Threads, WaitLook(x) \/ WaitLoad(x) \/ WaitTest(x) PROVE BaseInv'
  <2>0. \A t : Listed(t)' <=> Listed(t)
    BY <1>10 DEF WaitLook, WaitLoad, WaitTest, Listed
  <2>1. WaitLook(x) => Quiet(x)
    BY DEF WaitLook, Quiet
  <2>2. ASSUME NEW t \in Tasks, NEW l \in {"test", "join"}, pc[x] \in {"entry", "test"},
               pc' = [pc EXCEPT ![x] = l], arg' = [arg EXCEPT ![x] = t],
               UNCHANGED <<lists, fields, locks, library, reg>>
        PROVE  BaseInv'
    <3>1. pc[x] \in Inside /\ l \in Inside \ {"store", "insert", "create"}
      BY <2>2 DEF Inside, PC
    <3>2. Submits' /\ StatusAgrees' /\ \A u \in Tasks : Over(u)' <=> Over(u)
      BY <2>0, <2>2, <3>1, GoesOn
    <3>3. Joins'
      <4>1. Goto(x, l) /\ \A y \in Threads \ {x} : arg'[y] = arg[y]
        BY <2>2 DEF Goto
      <4>2. UNCHANGED <<handle, occupant, joiner, freed>> /\ arg'[x] \in Tasks
        BY <2>2 DEF fields, library, lists, TypeOK
      <4>3. pc[x] \notin {"gcjoining", "joining"}
        BY <2>2
      <4> QED BY <3>2, <4>1, <4>2, <4>3, JoinsKept
    <3>4. pc'[x] = l /\ \A y \in Threads \ {x} : pc'[y] = pc[y] /\ arg'[y] = arg[y]
      BY <2>2
    <3>5. Roles' /\ Numbers' /\ HandlesAgree'
      BY <2>2, <3>4 DEF Roles, Numbers, HandlesAgree
    <3>6. Collects'
      BY <2>0, <2>2, <3>4 DEF Collects, Finished
    <3>7. Lists'
      BY <2>0, <2>2, <3>4 DEF Lists
    <3> QED BY <3>2, <3>3, <3>5, <3>6, <3>7 DEF BaseInv
  <2>3. CASE WaitLoad(x)
    <3>1. \/ \E t \in Tasks : /\ pc[x] = "entry" /\ Goto(x, "test") /\ arg' = [arg EXCEPT ![x] = t]
                              /\ UNCHANGED <<lists, fields, locks, library, reg>>
          \/ UNCHANGED <<lists, fields, locks, library, pc, arg, reg>>
      BY <2>3 DEF WaitLoad
    <3> QED BY <1>15, <2>2, <3>1
  <2>4. CASE WaitTest(x)
    <3>1. \/ Quiet(x)
          \/ /\ pc[x] = "test" /\ Goto(x, "join") /\ UNCHANGED arg
             /\ UNCHANGED <<lists, fields, locks, library, reg>>
      BY <2>4 DEF WaitTest, Quiet
    <3>2. pc[x] = "test" /\ UNCHANGED arg => arg[x] \in Tasks /\ arg' = [arg EXCEPT ![x] = arg[x]]
      BY DEF Joins
    <3> QED BY <1>1, <2>2, <3>1, <3>2
  <2> QED BY <1>1, <1>10, <2>1, <2>3, <2>4
<1>11. ASSUME NEW x \in Tasks, WrapperStart(x) PROVE BaseInv'
  <2> USE <1>11 DEF WrapperStart
  <2>0. \A t : Listed(t)' <=> Listed(t)
    BY DEF Listed
  <2>1. Roles'
    BY <2>0 DEF Roles
  <2>2. Numbers'
    BY <2>0 DEF Numbers
  <2>3. Submits'
    BY <2>0 DEF Submits, Lists, StatusAgrees
  <2>4. HandlesAgree'
    BY <2>0 DEF HandlesAgree, Submits, Joins
  <2>5. StatusAgrees'
    BY <2>0 DEF StatusAgrees, Submits, HandlesAgree, Active, Over
  <2>6. Collects'
    BY <2>0 DEF Collects, Submits, Finished
  <2>7. Joins'
    BY <2>0 DEF Joins, HandlesAgree, Submits, Over
  <2>8. Lists'
    BY <2>0 DEF Lists, Submits, Collects, HandlesAgree
  <2> QED BY <2>1, <2>2, <2>3, <2>4, <2>5, <2>6, <2>7, <2>8 DEF BaseInv
<1>12. ASSUME NEW x \in Tasks, WrapperFinish(x) PROVE BaseInv'
  <2> USE <1>12 DEF WrapperFinish, FinalStatus
  <2>0. \A t : Listed(t)' <=> Listed(t)
    BY DEF Listed
  <2>1. Roles'
    BY <2>0 DEF Roles
  <2>2. Numbers'
    BY <2>0 DEF Numbers
  <2>3. Submits'
    BY <2>0 DEF Submits, Lists, StatusAgrees
  <2>4. HandlesAgree'
    BY <2>0 DEF HandlesAgree, Submits, Joins
  <2>5. StatusAgrees'
    BY <2>0 DEF StatusAgrees, Submits, HandlesAgree, Active, Over
  <2>6. Collects'
    BY <2>0 DEF Collects, Submits, Finished
  <2>7. Joins'
    BY <2>0 DEF Joins, HandlesAgree, Submits, Over
  <2>8. Lists'
    BY <2>0 DEF Lists, Submits, Collects, HandlesAgree
  <2> QED BY <2>1, <2>2, <2>3, <2>4, <2>5, <2>6, <2>7, <2>8 DEF BaseInv
<1>13. ASSUME NEW x \in Tasks, ThreadEnd(x) PROVE BaseInv'
  <2> USE <1>13 DEF ThreadEnd
  <2>0. \A t : Listed(t)' <=> Listed(t)
    BY DEF Listed
  <2>1. Roles'
    BY <2>0 DEF Roles
  <2>2. Numbers'
    BY <2>0 DEF Numbers
  <2>3. Submits'
    BY <2>0 DEF Submits, Lists, StatusAgrees
  <2>4. HandlesAgree'
    BY <2>0 DEF HandlesAgree, Submits, Joins
  <2>5. StatusAgrees'
    BY <2>0 DEF StatusAgrees, Submits, HandlesAgree, Active, Over
  <2>6. Collects'
    BY <2>0 DEF Collects, Submits, Finished
  <2>7. Joins'
    BY <2>0 DEF Joins, HandlesAgree, Submits, Over
  <2>8. Lists'
    BY <2>0 DEF Lists, Submits, Collects, HandlesAgree
  <2> QED BY <2>1, <2>2, <2>3, <2>4, <2>5, <2>6, <2>7, <2>8 DEF BaseInv
<1>14. ASSUME NEW x \in Tasks, Cancelled(x) PROVE BaseInv'
  <2> USE <1>14 DEF Cancelled
  <2>0. \A t : Listed(t)' <=> Listed(t)
    BY DEF Listed
  <2>1. Roles'
    BY <2>0 DEF Roles
  <2>2. Numbers'
    BY <2>0 DEF Numbers
  <2>3. Submits'
    BY <2>0 DEF Submits, Lists, StatusAgrees
  <2>4. HandlesAgree'
    BY <2>0 DEF HandlesAgree, Submits, Joins
  <2>5. StatusAgrees'
    BY <2>0 DEF StatusAgrees, Submits, HandlesAgree, Active, Over
  <2>6. Collects'
    BY <2>0 DEF Collects, Submits, Finished
  <2>7. Joins'
    BY <2>0 DEF Joins, HandlesAgree, Submits, Over
  <2>8. Lists'
    BY <2>0 DEF Lists, Submits, Collects, HandlesAgree
  <2> QED BY <2>1, <2>2, <2>3, <2>4, <2>5, <2>6, <2>7, <2>8 DEF BaseInv
<1>16. ASSUME NEW x \in Shells, StartCommand(x) PROVE Quiet(x)
  BY <1>16 DEF StartCommand, Quiet
<1>17. ASSUME NEW x \in Threads, \/ GcLock(x) \/ HistoryLock(x) \/ HistoryAppend(x)
                                 \/ SubmitReport(x) \/ ListLock(x) \/ ListPrint(x)
       PROVE  Quiet(x)
  BY <1>17 DEF GcLock, HistoryLock, HistoryAppend, SubmitReport, ListLock, ListPrint, Quiet
<1>18. ASSUME NEW x \in Threads, Dispatch(x) PROVE Quiet(x) \/ Mallocs(x)
  BY <1>18 DEF Dispatch, Quiet, Mallocs
<1>19. ASSUME NEW x \in Threads, JoinBegin(x) \/ JoinEnd(x)
       PROVE  \/ JoinReturns(x) \/ JoinBlocks(x)
              \/ UNCHANGED <<lists, fields, locks, library, pc, arg, reg>>
  BY <1>19, JoinKinds
<1>20. UNCHANGED vars => UNCHANGED <<lists, fields, locks, library, pc, arg, reg>>
  BY DEF vars
<1>21. CASE \E x \in Shells : StartCommand(x)
  BY <1>1, <1>16, <1>21
<1>22. ASSUME NEW x \in Threads, CommandStep(x) PROVE BaseInv'
  BY <1>1, <1>2, <1>3, <1>4, <1>5, <1>6, <1>7, <1>8, <1>9, <1>10, <1>15, <1>17, <1>18, <1>19, <1>22
  DEF CommandStep
<1> QED
  BY <1>11, <1>12, <1>13, <1>14, <1>15, <1>20, <1>21, <1>22 DEF Next, TaskStep

-----------------------------------------------------------------------------
(* Whatever the commands.                                                  *)

\* BaseInv holds before the first command.
LEMMA BaseInit == Init => BaseInv
<1> SUFFICES ASSUME Init PROVE BaseInv
  OBVIOUS
<1>1. /\ Shells \subseteq Threads /\ Tasks \subseteq Threads /\ Shells \intersect Tasks = {}
      /\ MaxTasks \in Nat /\ MaxCommands \in Nat
  BY TaskAssumption DEF Threads
<1>2. \A t : ~ Listed(t)
  BY EmptySeq, LenProperties DEF Init, Listed
<1>3. tasks \in Seq(Tasks)
  BY EmptySeq DEF Init
<1>4. TypeOK
  <2>1. pc \in [Threads -> PC]
    BY DEF Init, PC
  <2>2. next_task_id \in 1 .. MaxTasks + 1 /\ allocated \in 0 .. MaxTasks
    BY <1>1 DEF Init
  <2>3. id \in [Tasks -> 0 .. MaxTasks] /\ reg \in [Threads -> 0 .. MaxTasks]
    BY <1>1 DEF Init
  <2>4. budget \in [Shells -> 0 .. MaxCommands]
    BY <1>1 DEF Init
  <2>5. status \in [Tasks -> Status] /\ handle \in [Tasks -> Handles \union {None}]
        /\ arg \in [Threads -> Tasks \union {None}]
    BY DEF Init, Status
  <2>6. /\ occupant \in [Handles -> Tasks \union {None}]
        /\ joiner \in [Handles -> Threads \union {None}]
    BY DEF Init
  <2> QED BY <1>3, <2>1, <2>2, <2>3, <2>4, <2>5, <2>6 DEF Init, TypeOK
<1>5. \A x \in Threads : pc[x] \in {"idle", "none"} /\ (x \in Shells <=> pc[x] = "idle")
  BY <1>1 DEF Init
<1>6. Roles /\ Numbers /\ Submits
  <2>1. Roles
    BY <1>1, <1>5 DEF Roles
  <2>2. Numbers
    BY <1>5 DEF Init, Numbers
  <2>3. Submits
    BY <1>1, <1>2, <1>5 DEF Submits
  <2> QED BY <2>1, <2>2, <2>3
<1>7. HandlesAgree /\ StatusAgrees /\ Collects /\ Joins /\ Lists
  BY <1>1, <1>2, <1>5 DEF Init, HandlesAgree, StatusAgrees, Collects, Joins, Lists, Active, Over
<1> QED BY <1>4, <1>6, <1>7 DEF BaseInv

\* BaseInv holds in every behaviour, whatever the commands.
THEOREM BaseInvariant == Spec => []BaseInv
<1>1. BaseInv /\ [Next]_vars => BaseInv'
  BY TypeStep, BaseStep
<1> QED BY BaseInit, <1>1, PTL DEF Spec

\* Every variable keeps its type, however many threads submit, kill, wait and collect at once
\* (F/src/task.cpp as a whole).
THEOREM TypeOKHolds == Spec => []TypeOK
<1>1. BaseInv => TypeOK
  BY DEF BaseInv
<1> QED BY BaseInvariant, <1>1, PTL

\* A task whose command is over stays so: nobody runs a Task twice.
LEMMA OverStays == BaseInv /\ [Next]_vars => \A t \in Tasks : Over(t) => Over(t)'
<1> SUFFICES ASSUME BaseInv, [Next]_vars, NEW t \in Tasks, Over(t) PROVE Over(t)'
  OBVIOUS
<1>0. /\ TypeOK /\ Shells \subseteq Threads /\ Tasks \subseteq Threads /\ t \in Threads
      /\ pc \in [Threads -> PC]
  BY DEF BaseInv, Threads, TypeOK
<1> DEFINE keeps == \A y \in Threads : pc[y] \in {"return", "ended"} => pc'[y] \in {"return", "ended"}
<1>1. ASSUME NEW x \in Threads, NEW l \in PC, Goto(x, l), pc[x] \notin {"return", "ended"} PROVE keeps
  BY <1>0, <1>1 DEF Goto
<1>2. ASSUME NEW x \in Threads, CommandStep(x) \/ (x \in Shells /\ StartCommand(x)) PROVE keeps
  <2>1. CASE UNCHANGED pc
    BY <2>1
  <2>2. CASE \E l \in PC : Goto(x, l) /\ pc[x] \notin {"return", "ended"}
    BY <1>1, <2>2
  <2>3. CASE SubmitCreate(x)
    <3>1. arg[x] \in Tasks /\ pc[arg[x]] = "none" /\ pc[x] = "create"
      BY <2>3 DEF BaseInv, Submits, SubmitCreate, At
    <3> QED BY <1>0, <2>3, <3>1 DEF SubmitCreate, Goto
  <2>4. CASE StartCommand(x) \/ GcLock(x) \/ GcSweep(x) \/ HistoryLock(x) \/ HistoryAppend(x)
    BY <2>2, <2>4 DEF StartCommand, GcLock, GcSweep, HistoryLock, HistoryAppend, At, PC
  <2>5. CASE \/ SubmitStore(x) \/ SubmitInsert(x) \/ SubmitReport(x) \/ TaskKill(x)
             \/ WaitLook(x) \/ WaitLoad(x) \/ WaitTest(x)
             \/ ListLock(x) \/ ListPrint(x)
    BY <2>2, <2>5 DEF SubmitStore, SubmitInsert, SubmitReport, TaskKill, WaitLook, WaitLoad,
                      WaitTest, ListLock,
                      ListPrint, At, PC, CommandEnd
  <2>6. CASE Dispatch(x)
    BY <2>2, <2>6 DEF Dispatch, At, PC, CommandEnd
  <2>7. CASE JoinBegin(x) \/ JoinEnd(x)
    BY <2>1, <2>2, <2>7 DEF JoinBegin, JoinEnd, Joined, At, PC, CommandEnd
  <2> QED BY <1>2, <2>3, <2>4, <2>5, <2>6, <2>7 DEF CommandStep
<1>3. ASSUME NEW x \in Tasks, WrapperStart(x) \/ WrapperFinish(x) \/ ThreadEnd(x) \/ Cancelled(x)
      PROVE keeps
  BY <1>0, <1>3 DEF WrapperStart, WrapperFinish, ThreadEnd, Cancelled, At, Goto
<1>4. UNCHANGED vars => keeps
  BY DEF vars
<1>5. keeps
  BY <1>0, <1>2, <1>3, <1>4 DEF Next, TaskStep
<1> QED BY <1>0, <1>5 DEF Over

\* What a task leaves behind is final.
LEMMA VerdictStep ==
  BaseInv /\ [Next]_vars =>
  \A t \in Tasks : status[t] = "DONE" \/ (status[t] = "CANCELLED" /\ t \in cancelled)
                   => status'[t] = status[t]
<1> SUFFICES ASSUME BaseInv, [Next]_vars, NEW t \in Tasks,
                    status[t] = "DONE" \/ (status[t] = "CANCELLED" /\ t \in cancelled)
             PROVE  status'[t] = status[t]
  OBVIOUS
<1>0. status \in [Tasks -> Status] /\ pc[t] \notin {"none", "start"} /\ (status[t] = "DONE" => Over(t))
  BY DEF BaseInv, TypeOK, StatusAgrees, Over
<1>1. ASSUME NEW x, SubmitStore(x), x \in Threads PROVE status'[t] = status[t]
  <2>1. arg[x] # t
    BY <1>0, <1>1 DEF BaseInv, Submits, SubmitStore, At
  <2> QED BY <1>0, <1>1, <2>1 DEF SubmitStore
<1>2. ASSUME NEW x, TaskKill(x) PROVE status'[t] = status[t]
  BY <1>0, <1>2 DEF TaskKill, Killable
<1>3. ASSUME NEW x \in Tasks, WrapperStart(x) PROVE status'[t] = status[t]
  BY <1>0, <1>3 DEF WrapperStart, At
<1>4. ASSUME NEW x \in Tasks, WrapperFinish(x) PROVE status'[t] = status[t]
  BY <1>0, <1>4 DEF WrapperFinish, FinalStatus, At, Over
<1>5. ASSUME NEW x, \/ StartCommand(x) \/ GcLock(x) \/ GcSweep(x) \/ HistoryLock(x) \/ HistoryAppend(x)
                    \/ Dispatch(x) \/ JoinBegin(x) \/ JoinEnd(x) \/ SubmitInsert(x) \/ SubmitCreate(x)
                    \/ SubmitReport(x) \/ WaitLook(x) \/ WaitLoad(x) \/ WaitTest(x)
                    \/ ListLock(x) \/ ListPrint(x)
                    \/ ThreadEnd(x) \/ Cancelled(x)
      PROVE  status' = status
  BY <1>5 DEF StartCommand, GcLock, GcSweep, HistoryLock, HistoryAppend, Dispatch, JoinBegin,
              JoinEnd,
              SubmitInsert, SubmitCreate, SubmitReport, WaitLook, WaitLoad, WaitTest, ListLock,
              ListPrint, ThreadEnd,
              Cancelled, fields
<1>6. UNCHANGED vars => status' = status
  BY DEF vars, fields
<1> QED
  BY <1>1, <1>2, <1>3, <1>4, <1>5, <1>6 DEF Next, TaskStep, CommandStep, Threads

\* What has been decided about a task that has run stays decided, for all commands and any
\* number of shells: neither the end of the command, nor another kill, nor a new submission
\* changes its status (task_wrapper, task_kill, task_submit).
THEOREM VerdictIsFinalHolds == Spec => VerdictIsFinal
<1>1. BaseInv /\ [Next]_vars =>
      [\A t \in Tasks : status[t] = "DONE" \/ (status[t] = "CANCELLED" /\ t \in cancelled)
                        => status'[t] = status[t]]_vars
  BY VerdictStep
<1> QED BY BaseInvariant, <1>1, PTL DEF Spec, VerdictIsFinal

-----------------------------------------------------------------------------
(* What can crash the process.                                             *)

\* Only task_wait's loads and the reads of a handle can, and only as stated.
LEMMA CrashStep ==
  ASSUME BaseInv, [Next]_vars, ~ crashed, crashed'
  PROVE  \E x \in Threads :
           \/ pc[x] = "entry" /\ x \in disturbed
           \/ pc[x] = "join" /\ (arg[x] \in freed \/ pc[arg[x]] = "none")
           \/ pc[x] = "gcjoin" /\ status[arg[x]] = "CANCELLED" /\ pc[arg[x]] = "none"
<1>1. \E x \in Threads : JoinBegin(x) \/ WaitLoad(x)
  <2>1. ASSUME NEW x, CommandStep(x) PROVE JoinBegin(x) \/ WaitLoad(x)
    <3>1. ~ (GcLock(x) \/ GcSweep(x) \/ HistoryLock(x) \/ HistoryAppend(x) \/ Dispatch(x))
      BY DEF GcLock, GcSweep, HistoryLock, HistoryAppend, Dispatch
    <3>2. ~ (JoinEnd(x) \/ SubmitStore(x) \/ SubmitInsert(x) \/ SubmitCreate(x) \/ SubmitReport(x))
      BY DEF JoinEnd, SubmitStore, SubmitInsert, SubmitCreate, SubmitReport
    <3>3. ~ (TaskKill(x) \/ WaitLook(x) \/ WaitTest(x) \/ ListLock(x) \/ ListPrint(x))
      BY DEF TaskKill, WaitLook, WaitTest, ListLock, ListPrint
    <3> QED BY <2>1, <3>1, <3>2, <3>3 DEF CommandStep
  <2>2. ASSUME NEW x
        PROVE  ~ (StartCommand(x) \/ WrapperStart(x) \/ WrapperFinish(x) \/ ThreadEnd(x) \/ Cancelled(x))
    BY DEF StartCommand, WrapperStart, WrapperFinish, ThreadEnd, Cancelled
  <2>3. ~ UNCHANGED vars
    BY DEF vars
  <2> QED BY <2>1, <2>2, <2>3, Zenon DEF Next, TaskStep, Threads
<1>2. ASSUME NEW x \in Threads, WaitLoad(x) PROVE pc[x] = "entry" /\ x \in disturbed
  BY <1>2 DEF WaitLoad, At
<1>3. ASSUME NEW x \in Threads, JoinBegin(x)
      PROVE  \/ pc[x] = "join" /\ (arg[x] \in freed \/ pc[arg[x]] = "none")
             \/ pc[x] = "gcjoin" /\ status[arg[x]] = "CANCELLED" /\ pc[arg[x]] = "none"
  <2>1. None \in ThreadRead(arg[x]) /\ (pc[x] = "gcjoin" \/ pc[x] = "join")
    BY <1>3 DEF JoinBegin, At
  <2>2. PICK a \in Tasks : a = arg[x]
    BY <2>1 DEF BaseInv, Collects, Joins
  <2>3. a \notin freed => pc[a] = "none"
    BY <2>1, <2>2 DEF ThreadRead, BaseInv, HandlesAgree
  <2>4. CASE pc[x] = "join"
    BY <2>2, <2>3, <2>4
  <2>5. CASE pc[x] = "gcjoin"
    <3>1. a \notin freed /\ Finished(a)
      BY <2>2, <2>5 DEF BaseInv, Collects
    <3>2. status[a] # "DONE"
      BY <2>3, <3>1 DEF BaseInv, StatusAgrees, Over
    <3> QED BY <2>2, <2>3, <2>5, <3>1, <3>2 DEF Finished
  <2> QED BY <2>1, <2>4, <2>5
<1> QED BY <1>1, <1>2, <1>3

\* For all commands, any number of shells and tasks that give any commands themselves, the
\* process crashes only where task_wait is overtaken or finds a Task without a thread, and
\* where task_gc collects a task that was killed before it had one (task_submit, task_kill,
\* task_wait, task_gc).
THEOREM CrashTakesKillOrWaitHolds == Spec => CrashTakesKillOrWait
<1>1. BaseInv /\ [Next]_vars =>
      [~ crashed /\ crashed' =>
         \E x \in Threads :
           \/ pc[x] = "entry" /\ x \in disturbed
           \/ pc[x] = "join" /\ (arg[x] \in freed \/ pc[arg[x]] = "none")
           \/ pc[x] = "gcjoin" /\ status[arg[x]] = "CANCELLED" /\ pc[arg[x]] = "none"]_vars
  BY CrashStep
<1> QED BY BaseInvariant, <1>1, PTL DEF Spec, CrashTakesKillOrWait

-----------------------------------------------------------------------------
(* What holds for some commands only.                                      *)

\* Which commands the threads give; each is a hypothesis of some theorem.
NobodyKills == "kill" \notin ShellCommands \union TaskCommands
OneShell == (\A x, y \in Shells : x = y) /\ TaskCommands \subseteq {"plain"}

\* What follows while nobody kills.
NeverKilled ==
  /\ \A t \in Tasks : status[t] # "CANCELLED"
  /\ \A x \in Threads : pc[x] # "kill"

\* A shell that has been through task_gc in this command.
Swept(x) == pc[x] \notin {"idle", "gc", "sweep", "gcjoin", "gcjoining"}

\* Tasks only run their commands; behind the shell's back nothing is cancelled, and no
\* handle of a listed Task has gone to another thread.
PlainTasks ==
  /\ \A t \in Tasks : pc[t] \in {"none", "start", "gc", "sweep", "gcjoin", "gcjoining", "history",
                                 "append", "dispatch", "finish", "return", "ended"}
  /\ \A x \in Shells : Swept(x) =>
       \A t \in Tasks : Listed(t) /\ t \notin freed =>
         /\ status[t] # "CANCELLED"
         /\ pc[t] # "none" => occupant[handle[t]] = t

\* Inductive relative to BaseInv.
OrderInv ==
  /\ NobodyKills => NeverKilled
  /\ OneShell => PlainTasks
  /\ NobodyKills \/ OneShell => FreedTaskIsUnused

\* Where nobody kills, no Task is ever CANCELLED.
LEMMA KilledStep == BaseInv /\ NobodyKills /\ NeverKilled /\ [Next]_vars => NeverKilled'
<1> SUFFICES ASSUME BaseInv, NobodyKills, NeverKilled, [Next]_vars PROVE NeverKilled'
  OBVIOUS
<1>0. TypeOK /\ \A x \in Threads : CommandEnd(x) # "kill"
  BY DEF BaseInv, CommandEnd
<1>1. \A t \in Tasks : status'[t] # "CANCELLED"
  <2>1. ASSUME NEW x \in Threads, SubmitStore(x) PROVE \A t \in Tasks : status'[t] # "CANCELLED"
    BY <1>0, <2>1 DEF SubmitStore, TypeOK, NeverKilled
  <2>2. ASSUME NEW x \in Threads, TaskKill(x) PROVE FALSE
    BY <2>2 DEF TaskKill, At, NeverKilled
  <2>3. ASSUME NEW x \in Tasks, WrapperStart(x) \/ WrapperFinish(x)
        PROVE  \A t \in Tasks : status'[t] # "CANCELLED"
    BY <1>0, <2>3 DEF WrapperStart, WrapperFinish, FinalStatus, TypeOK, NeverKilled
  <2>4. ASSUME NEW x, \/ StartCommand(x) \/ GcLock(x) \/ GcSweep(x) \/ HistoryLock(x) \/ HistoryAppend(x)
                      \/ Dispatch(x) \/ JoinBegin(x) \/ JoinEnd(x) \/ SubmitInsert(x) \/ SubmitCreate(x)
                      \/ SubmitReport(x) \/ WaitLook(x) \/ WaitLoad(x) \/ WaitTest(x)
                      \/ ListLock(x) \/ ListPrint(x)
                      \/ ThreadEnd(x) \/ Cancelled(x)
        PROVE  status' = status
    BY <2>4 DEF StartCommand, GcLock, GcSweep, HistoryLock, HistoryAppend, Dispatch, JoinBegin,
                JoinEnd,
                SubmitInsert, SubmitCreate, SubmitReport, WaitLook, WaitLoad, WaitTest, ListLock,
                ListPrint, ThreadEnd,
                Cancelled, fields
  <2>5. UNCHANGED vars => status' = status
    BY DEF vars, fields
  <2> QED
    BY <2>1, <2>2, <2>3, <2>4, <2>5 DEF Next, TaskStep, CommandStep, Threads, NeverKilled
<1>2. \A x \in Threads : pc'[x] # "kill"
  <2> USE <1>0 DEF TypeOK, NeverKilled, Goto
  <2>1. ASSUME NEW x \in Threads, Dispatch(x) PROVE \A y \in Threads : pc'[y] # "kill"
    BY <2>1, TaskAssumption DEF Dispatch, NobodyKills
  <2>2. ASSUME NEW x \in Threads, JoinBegin(x) \/ JoinEnd(x) PROVE \A y \in Threads : pc'[y] # "kill"
    BY <2>2 DEF JoinBegin, JoinEnd, Joined
  <2>3. ASSUME NEW x \in Threads, SubmitCreate(x) PROVE \A y \in Threads : pc'[y] # "kill"
    BY <2>3 DEF SubmitCreate
  <2>4. ASSUME NEW x \in Threads,
               \/ StartCommand(x) \/ GcLock(x) \/ GcSweep(x) \/ HistoryLock(x) \/ HistoryAppend(x)
               \/ SubmitStore(x) \/ SubmitInsert(x) \/ SubmitReport(x) \/ TaskKill(x)
               \/ WaitLook(x) \/ WaitLoad(x) \/ WaitTest(x)
               \/ ListLock(x) \/ ListPrint(x) \/ WrapperStart(x) \/ WrapperFinish(x) \/ ThreadEnd(x)
               \/ Cancelled(x)
        PROVE  \A y \in Threads : pc'[y] # "kill"
    BY <2>4 DEF StartCommand, GcLock, GcSweep, HistoryLock, HistoryAppend, SubmitStore,
                SubmitInsert,
                SubmitReport, TaskKill, WaitLook, WaitLoad, WaitTest, ListLock, ListPrint,
                WrapperStart, WrapperFinish,
                ThreadEnd, Cancelled
  <2>5. CASE UNCHANGED vars
    BY <2>5 DEF vars
  <2> QED
    BY <2>1, <2>2, <2>3, <2>4, <2>5 DEF Next, TaskStep, CommandStep, Threads
<1> QED BY <1>1, <1>2 DEF NeverKilled

\* A handle whose thread is gone was the handle of a Task that is over, or freed.
LEMMA EndedIsOver ==
  ASSUME BaseInv, NEW x \in Threads, NEW h \in Handles, joiner[h] = x, occupant[h] # None,
         pc[occupant[h]] = "ended"
  PROVE  arg[x] \in freed \/ (h = handle[arg[x]] /\ Over(arg[x]))
<1>1. None \notin Threads
  BY TaskAssumption
<1> QED BY <1>1 DEF BaseInv, Joins, Over

\* With one shell and plain tasks, a call of pthread_join that fails was for a Task that is over.
LEMMA FailedIsOver ==
  ASSUME BaseInv, OneShell, PlainTasks, FreedTaskIsUnused, NEW x \in Threads,
         pc[x] = "gcjoin" \/ (pc[x] = "join" /\ x \in Shells), NEW a \in Tasks, a = arg[x],
         handle[a] # None, JoinFails(x, handle[a])
  PROVE  Over(a)
<1>0. /\ TypeOK /\ Tasks \subseteq Threads /\ Shells \intersect Tasks = {}
      /\ HandlesAgree /\ StatusAgrees /\ Collects /\ Joins /\ Lists
      /\ None \notin Threads /\ None \notin Handles /\ Threads = Shells \union Tasks
  BY TaskAssumption DEF BaseInv, Threads
<1>1. SUFFICES ASSUME ~ Over(a) PROVE FALSE
  OBVIOUS
<1>2. PICK h \in Handles : h = handle[a]
  BY <1>0 DEF TypeOK
<1>3. pc[a] \notin {"none", "return", "ended"} /\ occupant[h] = a
  BY <1>0, <1>1, <1>2 DEF HandlesAgree, Over
<1>4. Listed(a) /\ a \notin freed
  BY <1>0, <1>3 DEF Lists, FreedTaskIsUnused
<1>5. ASSUME NEW y \in Threads, pc[y] \in {"gcjoining", "joining"}, pc[x] = "gcjoin"
      PROVE  y \in Shells /\ pc[y] = "joining" /\ status[a] # "CANCELLED"
  <2>1. pc[y] = "joining"
    BY <1>0, <1>5 DEF Collects
  <2>2. y \in Shells
    BY <1>0, <2>1 DEF PlainTasks
  <2> QED BY <1>4, <2>1, <2>2 DEF PlainTasks, Swept
<1>6. pc[x] = "gcjoin" => status[a] = "CANCELLED"
  BY <1>0, <1>1 DEF Collects, Finished, StatusAgrees
<1>7. ASSUME joiner[h] # None PROVE FALSE
  <2>1. PICK y \in Threads : y = joiner[h] /\ pc[y] \in {"gcjoining", "joining"}
    <3>1. h \in Handles /\ joiner[h] \in Threads
      BY <1>0, <1>7 DEF TypeOK
    <3> QED BY <1>0, <1>7, <3>1 DEF Joins
  <2>2. CASE pc[x] = "gcjoin"
    BY <1>5, <1>6, <2>1, <2>2
  <2>3. CASE pc[x] = "join" /\ x \in Shells
    <3>1. pc[y] = "gcjoining"
      <4>1. CASE y \in Shells
        BY <2>1, <2>3, <4>1 DEF OneShell
      <4>2. CASE y \in Tasks
        BY <2>1, <4>2 DEF PlainTasks
      <4> QED BY <1>0, <4>1, <4>2
    <3>2. PICK b \in Tasks : b = arg[y] /\ Listed(b) /\ b \notin freed /\ Finished(b) /\ h = handle[b]
      BY <1>0, <1>7, <2>1, <3>1 DEF Collects, Joins
    <3>3. status[b] # "CANCELLED" /\ (pc[b] # "none" => occupant[h] = b)
      BY <2>3, <3>2 DEF PlainTasks, Swept
    <3>4. Over(b)
      BY <1>0, <3>2, <3>3 DEF Finished, StatusAgrees
    <3> QED BY <1>1, <1>3, <3>3, <3>4 DEF Over
  <2> QED BY <2>2, <2>3
<1>8. occupant[h] = x => FALSE
  <2>1. ASSUME occupant[h] = x PROVE x = a /\ x \in Tasks /\ pc[x] = "gcjoin"
    BY <1>0, <1>3, <2>1
  <2>2. x = a /\ pc[x] = "gcjoin" => x \in cancelled
    BY <1>0, <1>6 DEF StatusAgrees, Active
  <2>3. x \in cancelled => occupant[h] # x
    <3> SUFFICES ASSUME x \in cancelled, occupant[h] = x PROVE FALSE
      OBVIOUS
    <3> QED BY <1>0, <1>2, <1>3, <1>7 DEF JoinFails
  <2> QED BY <2>1, <2>2, <2>3
<1>9. ASSUME NEW g \in Handles, joiner[g] = a, occupant[g] = x PROVE FALSE
  <2>1. x \in Tasks /\ pc[x] = "gcjoin"
    BY <1>0, <1>9 DEF TypeOK
  <2>2. pc[a] \in {"gcjoining", "joining"}
    BY <1>0, <1>9 DEF Joins
  <2> QED BY <1>0, <1>5, <2>1, <2>2
<1> QED BY <1>0, <1>2, <1>3, <1>7, <1>8, <1>9 DEF JoinFails

\* task_gc frees only Tasks that are over: its pthread_join returned for them, or failed for a
\* reason that they are over.
LEMMA FreedStep ==
  BaseInv /\ OrderInv /\ [Next]_vars /\ (NobodyKills \/ OneShell) => FreedTaskIsUnused'
<1> SUFFICES ASSUME BaseInv, OrderInv, [Next]_vars, NobodyKills \/ OneShell PROVE FreedTaskIsUnused'
  OBVIOUS
<1>0. FreedTaskIsUnused /\ freed \subseteq Tasks
  BY DEF OrderInv, BaseInv, TypeOK
<1>1. freed' = freed \/ \E x \in Threads : JoinBegin(x) \/ JoinEnd(x)
  <2>1. ASSUME NEW x, \/ StartCommand(x) \/ GcLock(x) \/ GcSweep(x) \/ HistoryLock(x) \/ HistoryAppend(x)
                      \/ Dispatch(x) \/ SubmitStore(x) \/ SubmitInsert(x) \/ SubmitCreate(x)
                      \/ SubmitReport(x)
        PROVE  freed' = freed
    BY <2>1 DEF StartCommand, GcLock, GcSweep, HistoryLock, HistoryAppend, Dispatch, SubmitStore,
                SubmitInsert, SubmitCreate, SubmitReport, lists
  <2>2. ASSUME NEW x, \/ TaskKill(x) \/ WaitLook(x) \/ WaitLoad(x) \/ WaitTest(x) \/ ListLock(x)
                      \/ ListPrint(x)
        PROVE  freed' = freed
    BY <2>2 DEF TaskKill, WaitLook, WaitLoad, WaitTest, ListLock, ListPrint, lists
  <2>3. ASSUME NEW u, WrapperStart(u) \/ WrapperFinish(u) \/ ThreadEnd(u) \/ Cancelled(u)
        PROVE  freed' = freed
    BY <2>3 DEF WrapperStart, WrapperFinish, ThreadEnd, Cancelled, lists
  <2>4. UNCHANGED vars => freed' = freed
    BY DEF vars, lists
  <2> QED BY <2>1, <2>2, <2>3, <2>4 DEF Next, TaskStep, CommandStep, Threads
<1>2. ASSUME NEW x \in Threads, JoinBegin(x) \/ JoinEnd(x)
      PROVE  freed' = freed \/ (freed' = freed \union {arg[x]} /\ Over(arg[x]))
  <2>1. SUFFICES ASSUME freed' # freed PROVE freed' = freed \union {arg[x]} /\ Over(arg[x])
    OBVIOUS
  <2>2. freed' = freed \union {arg[x]} /\ pc[x] \in {"gcjoin", "gcjoining"}
    BY <1>2, <2>1 DEF JoinBegin, JoinEnd, Joined
  <2>5. arg[x] \notin freed
    BY <2>2 DEF BaseInv, Collects
  <2>3. CASE JoinEnd(x)
    BY <2>2, <2>3, <2>5, EndedIsOver DEF JoinEnd
  <2>4. CASE JoinBegin(x)
    <3>1. handle[arg[x]] # None /\ JoinFails(x, handle[arg[x]]) /\ pc[x] = "gcjoin"
      BY <2>1, <2>2, <2>4, <2>5 DEF JoinBegin, ThreadRead, At
    <3>2. PICK a \in Tasks : a = arg[x] /\ Finished(a)
      BY <3>1 DEF BaseInv, Collects
    <3>3. CASE NobodyKills
      <4>1. status[a] = "DONE"
        BY <3>2, <3>3 DEF OrderInv, NeverKilled, Finished
      <4> QED BY <2>2, <3>2, <4>1 DEF BaseInv, StatusAgrees
    <3>4. CASE OneShell
      BY <1>0, <2>2, <3>1, <3>2, <3>4, FailedIsOver DEF OrderInv
    <3> QED BY <3>3, <3>4
  <2> QED BY <1>2, <2>3, <2>4
<1>3. \A t \in freed' : t \in Tasks /\ Over(t)
  <2>1. \A x \in Threads : pc[x] \in {"gcjoin", "gcjoining"} => arg[x] \in Tasks
    BY DEF BaseInv, Collects
  <2>2. ASSUME NEW x \in Threads, JoinBegin(x) \/ JoinEnd(x), freed' # freed PROVE arg[x] \in Tasks
    BY <2>1, <2>2 DEF JoinBegin, JoinEnd, Joined
  <2> QED BY <1>0, <1>1, <1>2, <2>2 DEF FreedTaskIsUnused, Over
<1> QED BY <1>3, OverStays DEF FreedTaskIsUnused, Over

-----------------------------------------------------------------------------
(* One shell.                                                              *)

\* The positions of a task that runs a plain command.
PlainPCs == {"none", "start", "gc", "sweep", "gcjoin", "gcjoining", "history", "append", "dispatch",
             "finish", "return", "ended"}

\* What can move: the array grows by an insertion and freed by a join, a task is cancelled
\* by a kill, and handles pass on in SubmitCreate and JoinEnd.
LEMMA Effects ==
  ASSUME BaseInv, [Next]_vars
  PROVE  /\ freed \subseteq freed'
         /\ \A t \in Tasks : Listed(t)' => Listed(t) \/ \E x \in Threads : SubmitInsert(x) /\ t = arg[x]
         /\ \A t \in Tasks : status'[t] = "CANCELLED" =>
              status[t] = "CANCELLED" \/ \E x \in Threads : TaskKill(x)
         /\ UNCHANGED occupant \/ \E x \in Threads : JoinEnd(x) \/ SubmitCreate(x)
         /\ UNCHANGED handle \/ \E x \in Threads : SubmitCreate(x)
<1>1. freed \subseteq freed'
  <2>1. \A x : JoinBegin(x) \/ JoinEnd(x) => freed \subseteq freed'
    BY DEF JoinBegin, JoinEnd, Joined
  <2>2. ASSUME NEW x, CommandStep(x) PROVE freed \subseteq freed'
    <3>1. GcLock(x) \/ GcSweep(x) \/ HistoryLock(x) \/ HistoryAppend(x) \/ Dispatch(x) => freed' = freed
      BY DEF GcLock, GcSweep, HistoryLock, HistoryAppend, Dispatch, lists
    <3>2. SubmitStore(x) \/ SubmitInsert(x) \/ SubmitCreate(x) \/ SubmitReport(x) => freed' = freed
      BY DEF SubmitStore, SubmitInsert, SubmitCreate, SubmitReport, lists
    <3>3. TaskKill(x) \/ WaitLook(x) \/ WaitLoad(x) \/ WaitTest(x) \/ ListLock(x) \/ ListPrint(x)
          => freed' = freed
      BY DEF TaskKill, WaitLook, WaitLoad, WaitTest, ListLock, ListPrint, lists
    <3> QED BY <2>1, <2>2, <3>1, <3>2, <3>3 DEF CommandStep
  <2>3. ASSUME NEW x,
               StartCommand(x) \/ WrapperStart(x) \/ WrapperFinish(x) \/ ThreadEnd(x) \/ Cancelled(x)
        PROVE  freed' = freed
    BY <2>3 DEF StartCommand, WrapperStart, WrapperFinish, ThreadEnd, Cancelled, lists
  <2>4. UNCHANGED vars => freed' = freed
    BY DEF vars, lists
  <2> QED BY <2>2, <2>3, <2>4 DEF Next, TaskStep
<1>2. ASSUME NEW t \in Tasks, Listed(t)'
      PROVE  Listed(t) \/ \E x \in Threads : SubmitInsert(x) /\ t = arg[x]
  <2>1. tasks \in Seq(Tasks)
    BY DEF BaseInv, TypeOK
  <2>2. ASSUME NEW x \in Threads, SubmitInsert(x) PROVE Listed(t) \/ t = arg[x]
    <3>1. arg[x] \in Tasks /\ tasks' = Append(tasks, arg[x])
      BY <2>2 DEF SubmitInsert, At, BaseInv, Submits
    <3> QED BY <1>2, <2>1, <3>1, ListedAfterInsert
  <2>3. tasks' = Squeezed(tasks, freed) => Listed(t)
    BY <1>2, <2>1, ListedAfterGc
  <2>4. tasks' = tasks => Listed(t)
    BY <1>2 DEF Listed
  <2>5. tasks' = tasks \/ tasks' = Squeezed(tasks, freed) \/ \E x \in Threads : SubmitInsert(x)
    <3>1. ASSUME NEW x, \/ StartCommand(x) \/ GcLock(x) \/ HistoryLock(x) \/ HistoryAppend(x) \/ Dispatch(x)
                        \/ SubmitStore(x) \/ SubmitCreate(x) \/ SubmitReport(x)
          PROVE  tasks' = tasks
      BY <3>1 DEF StartCommand, GcLock, HistoryLock, HistoryAppend, Dispatch, SubmitStore,
                  SubmitCreate,
                  SubmitReport, lists
    <3>2. ASSUME NEW x, \/ JoinBegin(x) \/ JoinEnd(x) \/ TaskKill(x) \/ WaitLook(x)
                        \/ WaitLoad(x) \/ WaitTest(x) \/ ListLock(x) \/ ListPrint(x)
          PROVE  tasks' = tasks
      BY <3>2 DEF JoinBegin, JoinEnd, TaskKill, WaitLook, WaitLoad, WaitTest, ListLock, ListPrint,
                  lists
    <3>3. ASSUME NEW u, WrapperStart(u) \/ WrapperFinish(u) \/ ThreadEnd(u) \/ Cancelled(u)
          PROVE  tasks' = tasks
      BY <3>3 DEF WrapperStart, WrapperFinish, ThreadEnd, Cancelled, lists
    <3>4. ASSUME NEW x, GcSweep(x) PROVE tasks' = tasks \/ tasks' = Squeezed(tasks, freed)
      BY <3>4 DEF GcSweep
    <3>5. UNCHANGED vars => tasks' = tasks
      BY DEF vars, lists
    <3> QED BY <3>1, <3>2, <3>3, <3>4, <3>5 DEF Next, TaskStep, CommandStep, Threads
  <2> QED BY <2>2, <2>3, <2>4, <2>5
<1>3. ASSUME NEW t \in Tasks, status'[t] = "CANCELLED"
      PROVE  status[t] = "CANCELLED" \/ \E x \in Threads : TaskKill(x)
  <2>0. status \in [Tasks -> Status]
    BY DEF BaseInv, TypeOK
  <2>1. \A x \in Threads : SubmitStore(x) \/ WrapperStart(x) => status[t] = "CANCELLED"
    BY <1>3, <2>0 DEF SubmitStore, WrapperStart
  <2>2. \A x \in Tasks : WrapperFinish(x) => status[t] = "CANCELLED"
    BY <1>3, <2>0 DEF WrapperFinish, FinalStatus
  <2>3. \/ UNCHANGED status
        \/ \E x \in Threads : SubmitStore(x) \/ TaskKill(x) \/ WrapperStart(x)
        \/ \E x \in Tasks : WrapperFinish(x)
    BY DEF Next, TaskStep, CommandStep, Threads, StartCommand, GcLock, GcSweep, HistoryLock,
           HistoryAppend,
         Dispatch, JoinBegin, JoinEnd, SubmitInsert, SubmitCreate, SubmitReport, WaitLook,
         WaitLoad, WaitTest,
         ListLock, ListPrint, ThreadEnd, Cancelled, vars, fields
  <2> QED BY <1>3, <2>1, <2>2, <2>3
<1>4. UNCHANGED occupant \/ \E x \in Threads : JoinEnd(x) \/ SubmitCreate(x)
  <2>1. ASSUME NEW x, \/ StartCommand(x) \/ GcLock(x) \/ GcSweep(x) \/ HistoryLock(x) \/ HistoryAppend(x)
                      \/ Dispatch(x) \/ SubmitStore(x) \/ SubmitInsert(x) \/ SubmitReport(x)
        PROVE  occupant' = occupant
    BY <2>1 DEF StartCommand, GcLock, GcSweep, HistoryLock, HistoryAppend, Dispatch, SubmitStore,
                SubmitInsert, SubmitReport, library
  <2>2. ASSUME NEW x, \/ JoinBegin(x) \/ TaskKill(x) \/ WaitLook(x) \/ WaitLoad(x)
                      \/ WaitTest(x) \/ ListLock(x) \/ ListPrint(x)
        PROVE  occupant' = occupant
    BY <2>2 DEF JoinBegin, TaskKill, WaitLook, WaitLoad, WaitTest, ListLock, ListPrint, library
  <2>3. ASSUME NEW u, WrapperStart(u) \/ WrapperFinish(u) \/ ThreadEnd(u) \/ Cancelled(u)
        PROVE  occupant' = occupant
    BY <2>3 DEF WrapperStart, WrapperFinish, ThreadEnd, Cancelled, library
  <2>4. UNCHANGED vars => occupant' = occupant
    BY DEF vars, library
  <2> QED BY <2>1, <2>2, <2>3, <2>4 DEF Next, TaskStep, CommandStep, Threads
<1>5. UNCHANGED handle \/ \E x \in Threads : SubmitCreate(x)
  <2>1. ASSUME NEW x, \/ StartCommand(x) \/ GcLock(x) \/ GcSweep(x) \/ HistoryLock(x) \/ HistoryAppend(x)
                      \/ Dispatch(x) \/ SubmitStore(x) \/ SubmitInsert(x) \/ SubmitReport(x)
        PROVE  handle' = handle
    BY <2>1 DEF StartCommand, GcLock, GcSweep, HistoryLock, HistoryAppend, Dispatch, SubmitStore,
                SubmitInsert, SubmitReport, fields
  <2>2. ASSUME NEW x, \/ JoinBegin(x) \/ JoinEnd(x) \/ TaskKill(x) \/ WaitLook(x)
                      \/ WaitLoad(x) \/ WaitTest(x) \/ ListLock(x) \/ ListPrint(x)
        PROVE  handle' = handle
    BY <2>2 DEF JoinBegin, JoinEnd, TaskKill, WaitLook, WaitLoad, WaitTest, ListLock, ListPrint,
                fields
  <2>3. ASSUME NEW u, WrapperStart(u) \/ WrapperFinish(u) \/ ThreadEnd(u) \/ Cancelled(u)
        PROVE  handle' = handle
    BY <2>3 DEF WrapperStart, WrapperFinish, ThreadEnd, Cancelled, fields
  <2>4. UNCHANGED vars => handle' = handle
    BY DEF vars, fields
  <2> QED BY <2>1, <2>2, <2>3, <2>4 DEF Next, TaskStep, CommandStep, Threads
<1> QED BY <1>1, <1>2, <1>3, <1>4, <1>5

\* Where a step of the shell, or of a plain task, leads.
LEMMA Moves ==
  ASSUME BaseInv, [Next]_vars, OneShell, \A t \in Tasks : pc[t] \in PlainPCs
  PROVE  /\ \A t \in Tasks : pc'[t] \in PlainPCs
         /\ \A s \in Shells : Swept(s)' => Swept(s) \/ GcSweep(s)
         /\ \A x \in Threads, s \in Shells : TaskKill(x) => ~ Swept(s)'
         /\ \A x \in Shells : JoinEnd(x) => ~ Swept(x)'
<1>0. /\ pc \in [Threads -> PC] /\ Shells \subseteq Threads /\ Tasks \subseteq Threads
      /\ Shells \intersect Tasks = {} /\ \A x \in Threads : x \in Shells \/ x \in Tasks
  BY TaskAssumption DEF BaseInv, TypeOK, Threads
<1> DEFINE moved(l, x) == Goto(x, l) /\ (x \in Tasks => l \in PlainPCs)
                          /\ (x \in Shells /\ pc[x] \in {"idle", "gc", "sweep", "gcjoin", "gcjoining"}
                                => l \in {"gc", "sweep", "gcjoin", "gcjoining"})
           good == /\ \A t \in Tasks : pc'[t] \in PlainPCs
                   /\ \A s \in Shells : Swept(s)' => Swept(s)
<1>1. ASSUME NEW x \in Threads, NEW l, moved(l, x) PROVE good
  BY <1>0, <1>1 DEF Goto, Swept
<1>2. ASSUME NEW x \in Shells, StartCommand(x) PROVE good
  <2>1. moved("gc", x)
    BY <1>0, <1>2 DEF StartCommand
  <2> HIDE DEF moved, good
  <2> QED BY <1>0, <1>1, <2>1
<1>3. ASSUME NEW x \in Threads, GcLock(x) PROVE good
  <2>1. moved("sweep", x)
    BY <1>0, <1>3 DEF GcLock, PlainPCs
  <2> HIDE DEF moved, good
  <2> QED BY <1>0, <1>1, <2>1
<1>4. ASSUME NEW x \in Threads, GcSweep(x)
      PROVE  /\ \A t \in Tasks : pc'[t] \in PlainPCs
             /\ \A s \in Shells : Swept(s)' => Swept(s) \/ GcSweep(s)
  <2>1. Goto(x, "gcjoin") \/ Goto(x, "history")
    BY <1>4 DEF GcSweep
  <2> QED BY <1>0, <1>4, <2>1 DEF Goto, PlainPCs, Swept
<1>5. ASSUME NEW x \in Threads, HistoryLock(x) \/ HistoryAppend(x) PROVE good
  <2>1. moved("append", x) \/ moved("dispatch", x)
    BY <1>0, <1>5 DEF HistoryLock, HistoryAppend, At, PlainPCs
  <2> HIDE DEF moved, good
  <2> QED BY <1>0, <1>1, <2>1
<1>6. ASSUME NEW x \in Threads, Dispatch(x) PROVE good
  <2>1. \E l : moved(l, x)
    <3>1. CASE x \in Tasks
      <4>1. Goto(x, "finish")
        BY <1>0, <1>6, <3>1 DEF Dispatch, OneShell, CommandEnd
      <4> QED BY <1>0, <3>1, <4>1 DEF PlainPCs
    <3>2. CASE x \in Shells
      <4>1. pc[x] = "dispatch" /\ \E l : Goto(x, l)
        BY <1>6 DEF Dispatch, At
      <4> QED BY <1>0, <3>2, <4>1
    <3> QED BY <1>0, <3>1, <3>2
  <2> HIDE DEF moved, good
  <2> QED BY <1>1, <2>1
<1>7. ASSUME NEW x \in Threads, JoinBegin(x) \/ JoinEnd(x) PROVE good
  <2>1. UNCHANGED pc \/ \E l : moved(l, x)
    <3>1. x \in Tasks => pc[x] \in {"gcjoin", "gcjoining"}
      BY <1>7 DEF JoinBegin, JoinEnd, At, PlainPCs
    <3>2. \/ UNCHANGED pc
          \/ pc[x] \in {"gcjoin", "gcjoining"} /\ Goto(x, "sweep")
          \/ pc[x] = "gcjoin" /\ Goto(x, "gcjoining")
          \/ pc[x] \in {"join", "joining"} /\ \E l : Goto(x, l)
      BY <1>7 DEF JoinBegin, JoinEnd, Joined, At
    <3> QED BY <1>0, <3>1, <3>2 DEF PlainPCs
  <2>2. UNCHANGED pc => good
    BY DEF Swept
  <2> HIDE DEF moved, good
  <2> QED BY <1>1, <2>1, <2>2
<1>8. ASSUME NEW x \in Threads, \/ SubmitStore(x) \/ SubmitInsert(x) \/ SubmitReport(x) \/ TaskKill(x)
                                \/ WaitLook(x) \/ WaitLoad(x) \/ WaitTest(x) \/ ListLock(x)
                                \/ ListPrint(x)
      PROVE  good
  <2>1. /\ pc[x] \in {"store", "insert", "report", "kill", "wait", "entry", "test", "list", "print"}
        /\ UNCHANGED pc \/ \E l : Goto(x, l)
    BY <1>8 DEF SubmitStore, SubmitInsert, SubmitReport, TaskKill, WaitLook, WaitLoad, WaitTest,
                ListLock, ListPrint, At
  <2>2. x \in Shells
    BY <1>0, <2>1 DEF PlainPCs
  <2>3. UNCHANGED pc \/ \E l : moved(l, x)
    BY <1>0, <2>1, <2>2
  <2>4. UNCHANGED pc => good
    BY DEF Swept
  <2> HIDE DEF moved, good
  <2> QED BY <1>1, <2>3, <2>4
<1>9. ASSUME NEW x \in Threads, SubmitCreate(x) PROVE good
  <2>1. pc[x] = "create" /\ arg[x] \in Tasks
    BY <1>9 DEF SubmitCreate, At, BaseInv, Submits
  <2>2. x \in Shells
    BY <1>0, <2>1 DEF PlainPCs
  <2>3. Goto(x, "report") \/ pc' = [pc EXCEPT ![x] = "report", ![arg[x]] = "start"]
    BY <1>9 DEF SubmitCreate
  <2> QED BY <1>0, <2>1, <2>2, <2>3 DEF Goto, PlainPCs, Swept
<1>10. ASSUME NEW x \in Tasks, WrapperStart(x) \/ WrapperFinish(x) \/ ThreadEnd(x) \/ Cancelled(x)
       PROVE  good
  <2>1. moved("gc", x) \/ moved("return", x) \/ moved("ended", x)
    BY <1>0, <1>10 DEF WrapperStart, WrapperFinish, ThreadEnd, Cancelled, PlainPCs
  <2> HIDE DEF moved, good
  <2> QED BY <1>0, <1>1, <2>1
<1>11. UNCHANGED vars => good
  BY DEF vars, Swept
<1>12. ASSUME NEW x \in Threads, NEW s \in Shells, TaskKill(x) PROVE ~ Swept(s)'
  <2>1. x = s
    BY <1>0, <1>12 DEF TaskKill, At, OneShell, PlainPCs
  <2> QED BY <1>0, <1>12, <2>1 DEF TaskKill, Goto, CommandEnd, Swept
<1>13. ASSUME NEW x \in Shells, JoinEnd(x) PROVE ~ Swept(x)'
  BY <1>0, <1>13 DEF JoinEnd, Joined, Goto, CommandEnd, Swept
<1> HIDE DEF moved
<1>14. /\ \A t \in Tasks : pc'[t] \in PlainPCs
       /\ \A s \in Shells : Swept(s)' => Swept(s) \/ GcSweep(s)
  BY <1>0, <1>2, <1>3, <1>4, <1>5, <1>6, <1>7, <1>8, <1>9, <1>10, <1>11
    DEF Next, TaskStep, CommandStep
<1> QED BY <1>12, <1>13, <1>14

\* With one shell, what has been cancelled or has lost its handle is collected before the
\* next command reaches its dispatch.
LEMMA PlainStep ==
  BaseInv /\ BaseInv' /\ OrderInv /\ [Next]_vars /\ OneShell => PlainTasks'
<1> SUFFICES ASSUME BaseInv, BaseInv', OrderInv, [Next]_vars, OneShell PROVE PlainTasks'
  OBVIOUS
<1>0. /\ TypeOK /\ Shells \subseteq Threads /\ Tasks \subseteq Threads /\ Shells \intersect Tasks = {}
      /\ \A x \in Threads : x \in Shells \/ x \in Tasks
      /\ None \notin Threads /\ None \notin Handles
      /\ HandlesAgree /\ HandlesAgree' /\ StatusAgrees /\ Collects /\ Joins
  BY TaskAssumption DEF BaseInv, Threads
<1>1. PlainTasks /\ \A t \in Tasks : pc[t] \in PlainPCs
  BY DEF OrderInv, PlainTasks, PlainPCs
<1>2. \A t \in Tasks : pc'[t] \in PlainPCs
  BY <1>1, Moves
<1>3. ASSUME NEW s \in Shells, Swept(s)', NEW t \in Tasks, Listed(t)', t \notin freed'
      PROVE  status'[t] # "CANCELLED" /\ (pc'[t] # "none" => occupant'[handle'[t]] = t)
  <2>1. t \notin freed
    BY <1>3, Effects
  <2>2. CASE \E x \in Threads : SubmitInsert(x) /\ t = arg[x]
    <3>1. status[t] = "PENDING" /\ pc[t] = "none" /\ \E x \in Threads : pc[x] = "insert" /\ SubmitInsert(x) /\ x # t
      BY <2>2 DEF SubmitInsert, At, BaseInv, Submits
    <3>2. status'[t] = "PENDING" /\ pc'[t] = "none"
      BY <1>0, <3>1 DEF SubmitInsert, fields, Goto, TypeOK
    <3> QED BY <3>2
  <2>3. CASE Listed(t)
    <3>1. status[t] # "CANCELLED" /\ (pc[t] # "none" => occupant[handle[t]] = t)
      <4>1. CASE Swept(s)
        BY <1>1, <1>3, <2>1, <2>3, <4>1 DEF PlainTasks
      <4>2. CASE GcSweep(s)
        <5>1. ~ Finished(t)
          <6>1. PICK k \in DOMAIN tasks : tasks[k] = t
            BY <2>3 DEF Listed
          <6>2. s \in Threads /\ pc \in [Threads -> PC]
            BY <1>0 DEF TypeOK
          <6>3. {i \in DOMAIN tasks : tasks[i] \notin freed /\ Finished(tasks[i])} = {}
            BY <1>3, <4>2, <6>2 DEF GcSweep, Goto, Swept
          <6> QED BY <2>1, <6>1, <6>3
        <5>2. pc[t] # "ended"
          BY <1>0, <5>1 DEF StatusAgrees, Finished, Active, TypeOK, Status
        <5> QED BY <1>0, <5>1, <5>2 DEF HandlesAgree, Finished
      <4> QED BY <1>1, <1>3, <4>1, <4>2, Moves
    <3>2. status'[t] # "CANCELLED"
      BY <1>1, <1>3, <3>1, Effects, Moves
    <3>3. ASSUME pc'[t] = "ended" PROVE occupant'[handle'[t]] = t
      <4>1. handle'[t] = handle[t]
        <5>1. ASSUME NEW x \in Threads, SubmitCreate(x) PROVE handle'[t] = handle[t]
          <6>1. arg[x] \in Tasks /\ pc[arg[x]] = "none" /\ pc[x] = "create"
            BY <5>1 DEF SubmitCreate, At, BaseInv, Submits
          <6>2. CASE arg[x] = t
            BY <1>0, <3>3, <5>1, <6>1, <6>2 DEF SubmitCreate, Goto, TypeOK
          <6>3. CASE arg[x] # t
            BY <1>0, <5>1, <6>3 DEF SubmitCreate, TypeOK
          <6> QED BY <6>2, <6>3
        <5> QED BY <5>1, Effects
      <4>2. pc[t] # "none"
        BY <1>0, <3>3, <4>1 DEF HandlesAgree
      <4>3. PICK h \in Handles : h = handle[t] /\ occupant[h] = t
        BY <1>0, <3>1, <4>2 DEF HandlesAgree, TypeOK
      <4>4. ASSUME NEW x \in Threads, SubmitCreate(x) PROVE occupant'[h] = t
        BY <1>0, <4>3, <4>4 DEF SubmitCreate, TypeOK
      <4>5. ASSUME NEW x \in Threads, JoinEnd(x) PROVE occupant'[h] = t
        <5>1. PICK g \in Handles : /\ joiner[g] = x /\ occupant[g] # None
                                  /\ occupant' = [occupant EXCEPT ![g] = None]
          BY <4>5 DEF JoinEnd
        <5>2. CASE g # h
          BY <4>3, <5>1, <5>2
        <5>3. CASE g = h
          <6>1. x \in Tasks
            BY <1>0, <1>3, <4>5, <1>1, Moves DEF OneShell
          <6>2. pc[x] = "gcjoining" /\ Goto(x, "sweep") /\ freed' = freed \union {arg[x]}
            BY <1>1, <4>5, <6>1 DEF JoinEnd, At, Joined, PlainPCs
          <6>3. Swept(s)
            BY <1>0, <1>3, <6>1, <6>2 DEF Goto, Swept, TypeOK
          <6>4. PICK a \in Tasks : a = arg[x] /\ Listed(a) /\ a \notin freed
            BY <1>0, <6>2 DEF Collects
          <6>5. h = handle[a] /\ pc[a] # "none"
            BY <1>0, <5>1, <5>3, <6>4 DEF Joins, HandlesAgree
          <6>6. a = t
            BY <1>1, <4>3, <6>3, <6>4, <6>5 DEF PlainTasks
          <6> QED BY <1>3, <6>2, <6>4, <6>6
        <5> QED BY <5>2, <5>3
      <4> QED BY <4>1, <4>3, <4>4, <4>5, Effects
    <3> QED BY <1>0, <3>2, <3>3 DEF HandlesAgree
  <2> QED BY <1>3, <2>2, <2>3, Effects
<1> QED BY <1>2, <1>3 DEF PlainTasks, PlainPCs

\* OrderInv holds before the first command.
LEMMA OrderInit == Init => OrderInv
<1> SUFFICES ASSUME Init PROVE OrderInv
  OBVIOUS
<1>1. \A x \in Threads : pc[x] \in {"idle", "none"} /\ (x \in Tasks => pc[x] = "none")
  BY TaskAssumption DEF Init, Threads
<1>2. NeverKilled
  BY <1>1 DEF Init, NeverKilled
<1>3. \A s \in Shells : ~ Swept(s)
  BY <1>1 DEF Init, Swept, Threads
<1>4. PlainTasks
  BY <1>1, <1>3 DEF PlainTasks, Threads
<1> QED BY <1>2, <1>4 DEF Init, OrderInv, FreedTaskIsUnused

\* OrderInv is inductive relative to BaseInv.
LEMMA OrderStep == BaseInv /\ BaseInv' /\ OrderInv /\ [Next]_vars => OrderInv'
<1> SUFFICES ASSUME BaseInv, BaseInv', OrderInv, [Next]_vars PROVE OrderInv'
  OBVIOUS
<1>1. NobodyKills => NeverKilled'
  BY KilledStep DEF OrderInv
<1>2. OneShell => PlainTasks'
  BY PlainStep
<1>3. NobodyKills \/ OneShell => FreedTaskIsUnused'
  BY FreedStep
<1> QED BY <1>1, <1>2, <1>3 DEF OrderInv, NobodyKills, OneShell

\* OrderInv holds in every behaviour.
THEOREM OrderInvariant == Spec => []OrderInv
<1>1. BaseInv /\ BaseInv' /\ OrderInv /\ [Next]_vars => OrderInv'
  BY OrderStep
<1> QED BY OrderInit, BaseInvariant, <1>1, PTL DEF Spec

\* A task's thread does not use its Task after task_gc has freed it, for any number of shells
\* and tasks if nobody kills, and for all commands if one shell gives them and its tasks are
\* plain (task_gc, task_wrapper).
THEOREM FreedTaskIsUnusedHolds ==
  ASSUME NobodyKills \/ OneShell
  PROVE  Spec => []FreedTaskIsUnused
<1>1. OrderInv => FreedTaskIsUnused
  BY DEF OrderInv
<1> QED BY OrderInvariant, <1>1, PTL

\* Under the same hypothesis a task that waits to run or runs is in the list (task_submit,
\* task_gc).
THEOREM LiveTaskListedHolds ==
  ASSUME NobodyKills \/ OneShell
  PROVE  Spec => []LiveTaskListed
<1>1. BaseInv /\ FreedTaskIsUnused => LiveTaskListed
  <2> SUFFICES ASSUME BaseInv, FreedTaskIsUnused, NEW t \in Tasks, pc[t] \notin {"none", "return", "ended"}
               PROVE  Listed(t)
    BY DEF LiveTaskListed, Listed
  <2> QED BY DEF BaseInv, Lists, FreedTaskIsUnused
<1> QED BY BaseInvariant, FreedTaskIsUnusedHolds, <1>1, PTL

-----------------------------------------------------------------------------
(* The search of task_wait.                                                *)

\* A search that no change has overtaken: it has passed its place in the array as the array is,
\* and holds the entry there.
Sees(x) ==
  /\ place[x] <= Len(tasks)
  /\ \A k \in DOMAIN tasks : tasks[k] \notin freed
  /\ \A k \in DOMAIN tasks : k <= place[x] => id[tasks[k]] # reg[x]
  /\ pc[x] = "test" => place[x] + 1 \in DOMAIN tasks /\ arg[x] = tasks[place[x] + 1]

\* Inductive relative to BaseInv.
Searches ==
  \A x \in Threads : /\ ~ Searching(x) => place[x] = 0
                     /\ Searching(x) /\ x \notin disturbed => Sees(x)

\* A step of z, which is not in the loop, that leaves the array and its entries alone.
Elsewhere(z) ==
  /\ ~ Searching(z) /\ ~ Searching(z)'
  /\ \A y \in Threads \ {z} : /\ arg'[y] = arg[y] /\ reg'[y] = reg[y]
                              /\ pc'[y] = pc[y] \/ (~ Searching(y) /\ ~ Searching(y)')
  /\ UNCHANGED <<tasks, freed, search>>
  /\ \A t : Listed(t) => id'[t] = id[t]

\* Such a step changes nothing for those in the loop.
LEMMA ElsewhereKeeps ==
  ASSUME BaseInv, Searches, NEW z \in Threads, Elsewhere(z)
  PROVE  Searches'
<1>1. /\ place' = place /\ disturbed' = disturbed /\ tasks' = tasks /\ freed' = freed
      /\ \A k \in DOMAIN tasks : id'[tasks[k]] = id[tasks[k]]
  BY DEF Elsewhere, search, Listed
<1>2. ASSUME NEW y \in Threads, ~ Searching(y)' PROVE place'[y] = 0
  BY <1>1, <1>2 DEF Elsewhere, Searches, Searching
<1>3. ASSUME NEW y \in Threads, Searching(y)', y \notin disturbed' PROVE Sees(y)'
  <2>1. y # z /\ pc'[y] = pc[y] /\ reg'[y] = reg[y] /\ arg'[y] = arg[y]
    BY <1>3 DEF Elsewhere
  <2>2. Sees(y)
    BY <1>1, <1>3, <2>1 DEF Searches, Searching
  <2> QED BY <1>1, <2>1, <2>2 DEF Sees
<1> QED BY <1>2, <1>3 DEF Searches

\* A step of x inside the loop, which leaves all else alone.
Loops(x) ==
  /\ \A y \in Threads \ {x} : /\ arg'[y] = arg[y] /\ reg'[y] = reg[y] /\ pc'[y] = pc[y]
                              /\ place'[y] = place[y] /\ (y \in disturbed => y \in disturbed')
  /\ UNCHANGED <<tasks, freed, id>>

\* It changes nothing for the others in the loop.
LEMMA LoopsKeeps ==
  ASSUME BaseInv, Searches, NEW x \in Threads, Loops(x),
         ~ Searching(x)' => place'[x] = 0, Searching(x)' /\ x \notin disturbed' => Sees(x)'
  PROVE  Searches'
<1>1. ASSUME NEW y \in Threads, y # x
      PROVE  (~ Searching(y)' => place'[y] = 0) /\ (Searching(y)' /\ y \notin disturbed' => Sees(y)')
  <2>1. /\ pc'[y] = pc[y] /\ reg'[y] = reg[y] /\ arg'[y] = arg[y] /\ place'[y] = place[y]
        /\ y \in disturbed => y \in disturbed'
        /\ tasks' = tasks /\ freed' = freed /\ id' = id
    BY <1>1 DEF Loops
  <2> QED BY <2>1 DEF Searches, Searching, Sees
<1> QED BY <1>1 DEF Searches

\* Searches is inductive relative to BaseInv: what could harm a search marks it as disturbed.
LEMMA SearchStep == BaseInv /\ TypeOK' /\ Searches /\ [Next]_vars => Searches'
<1> SUFFICES ASSUME BaseInv, TypeOK', Searches, [Next]_vars PROVE Searches'
  OBVIOUS
<1>0. /\ pc \in [Threads -> PC] /\ arg \in [Threads -> Tasks \union {None}]
      /\ reg \in [Threads -> 0 .. MaxTasks] /\ place \in [Threads -> Nat] /\ disturbed \subseteq Threads
      /\ id \in [Tasks -> 0 .. MaxTasks] /\ tasks \in Seq(Tasks)
      /\ Shells \subseteq Threads /\ Tasks \subseteq Threads
      /\ Len(tasks) \in Nat /\ DOMAIN tasks = 1 .. Len(tasks)
  BY LenProperties DEF BaseInv, TypeOK, Threads
<1>1. ASSUME NEW x \in Threads,
             \/ (x \in Shells /\ StartCommand(x)) \/ GcLock(x) \/ HistoryLock(x) \/ HistoryAppend(x)
             \/ SubmitReport(x) \/ TaskKill(x) \/ ListLock(x) \/ ListPrint(x)
      PROVE  Elsewhere(x)
  <2>1. /\ UNCHANGED <<tasks, freed, search, id, arg, reg>>
        /\ pc[x] \in {"idle", "gc", "history", "append", "report", "kill", "list", "print"}
        /\ \E l \in {"gc", "sweep", "append", "dispatch", "print", CommandEnd(x)} : Goto(x, l)
    BY <1>1 DEF StartCommand, GcLock, HistoryLock, HistoryAppend, SubmitReport, TaskKill,
                ListLock, ListPrint,
                At, lists, fields
  <2>2. CommandEnd(x) \in {"idle", "finish"}
    BY DEF CommandEnd
  <2> QED BY <1>0, <2>1, <2>2 DEF Elsewhere, Searching, Goto, search
<1>2. ASSUME NEW x \in Tasks, WrapperStart(x) \/ WrapperFinish(x) \/ ThreadEnd(x) \/ Cancelled(x)
      PROVE  Elsewhere(x)
  <2>1. /\ UNCHANGED <<tasks, freed, search, id, arg, reg>>
        /\ ~ Searching(x)
        /\ \E l \in {"gc", "return", "ended"} : Goto(x, l)
    BY <1>2 DEF WrapperStart, WrapperFinish, ThreadEnd, Cancelled, At, lists, fields, Searching
  <2> QED BY <1>0, <2>1 DEF Elsewhere, Searching, Goto, search
<1>3. ASSUME NEW x \in Threads, SubmitCreate(x) PROVE Elsewhere(x)
  <2>1. /\ UNCHANGED <<tasks, freed, search, id, arg, reg>> /\ pc[x] = "create"
        /\ arg[x] \in Tasks /\ pc[arg[x]] = "none"
    BY <1>3 DEF SubmitCreate, At, lists, BaseInv, Submits
  <2>2. pc' = [pc EXCEPT ![x] = "report"] \/ pc' = [pc EXCEPT ![x] = "report", ![arg[x]] = "start"]
    BY <1>3 DEF SubmitCreate, Goto
  <2> QED BY <1>0, <2>1, <2>2 DEF Elsewhere, Searching, search
<1>4. ASSUME NEW x \in Threads, SubmitStore(x) PROVE Elsewhere(x)
  <2>1. /\ UNCHANGED <<tasks, freed, search, arg, reg>> /\ pc[x] = "store" /\ Goto(x, "insert")
        /\ id' = [id EXCEPT ![arg[x]] = NewId(x)]
    BY <1>4 DEF SubmitStore, At, lists
  <2>2. ~ Listed(arg[x])
    BY <2>1 DEF BaseInv, Submits
  <2>3. ASSUME NEW t, Listed(t) PROVE id'[t] = id[t]
    <3>1. t \in Tasks
      BY <1>0, <2>3 DEF Listed
    <3> QED BY <1>0, <2>1, <2>2, <2>3, <3>1
  <2> QED BY <1>0, <2>1, <2>3 DEF Elsewhere, Searching, Goto, search
<1>5. ASSUME NEW x \in Threads, SubmitInsert(x) PROVE Searches'
  <2>1. /\ tasks' = Append(tasks, arg[x]) /\ disturbed' = disturbed \union {y \in Threads : pc[y] = "entry"}
        /\ UNCHANGED <<freed, id, arg, reg, place>> /\ pc[x] = "insert" /\ Goto(x, "create")
    BY <1>5 DEF SubmitInsert, At, fields
  <2>2. PICK a \in Tasks : a = arg[x] /\ a \notin freed
    BY <2>1 DEF BaseInv, Submits, Lists
  <2>3. /\ tasks' \in Seq(Tasks) /\ Len(tasks') = Len(tasks) + 1 /\ tasks'[Len(tasks) + 1] = a
        /\ \A k \in 1 .. Len(tasks) : tasks'[k] = tasks[k]
    BY <1>0, <2>1, <2>2, AppendProperties
  <2>4. DOMAIN tasks' = 1 .. Len(tasks) + 1
    BY <2>3, LenProperties
  <2>5. pc'[x] = "create" /\ \A y \in Threads \ {x} : pc'[y] = pc[y]
    BY <1>0, <2>1 DEF Goto
  <2>6. ASSUME NEW y \in Threads, ~ Searching(y)' PROVE place'[y] = 0
    BY <2>1, <2>5, <2>6 DEF Searches, Searching
  <2>7. ASSUME NEW y \in Threads, Searching(y)', y \notin disturbed' PROVE Sees(y)'
    <3>1. y # x /\ pc'[y] = pc[y] /\ y \notin disturbed
      BY <2>1, <2>5, <2>7 DEF Searching
    <3>2. Sees(y) /\ place[y] \in Nat
      BY <1>0, <2>7, <3>1 DEF Searches, Searching
    <3>3. place'[y] <= Len(tasks')
      BY <1>0, <2>1, <2>3, <3>2 DEF Sees
    <3>4. ASSUME NEW k \in DOMAIN tasks'
          PROVE  tasks'[k] \notin freed' /\ (k <= place'[y] => id'[tasks'[k]] # reg'[y])
      <4>1. CASE k \in 1 .. Len(tasks)
        BY <1>0, <2>1, <2>3, <3>2, <4>1 DEF Sees
      <4>2. CASE k = Len(tasks) + 1
        BY <1>0, <2>1, <2>2, <2>3, <3>2, <4>2 DEF Sees
      <4> QED BY <1>0, <2>4, <4>1, <4>2
    <3>5. ASSUME pc'[y] = "test" PROVE place'[y] + 1 \in DOMAIN tasks' /\ arg'[y] = tasks'[place'[y] + 1]
      <4>1. place[y] + 1 \in 1 .. Len(tasks) /\ arg[y] = tasks[place[y] + 1]
        BY <1>0, <3>1, <3>2, <3>5 DEF Sees
      <4> QED BY <1>0, <2>1, <2>3, <2>4, <4>1
    <3> QED BY <3>3, <3>4, <3>5 DEF Sees
  <2> QED BY <2>6, <2>7 DEF Searches
<1>6. ASSUME NEW x \in Threads, GcSweep(x) PROVE Searches'
  <2>1. /\ UNCHANGED <<freed, id, reg, search>> /\ pc[x] = "sweep"
        /\ \/ UNCHANGED tasks /\ Goto(x, "gcjoin") /\ \A y \in Threads \ {x} : arg'[y] = arg[y]
           \/ tasks' = Squeezed(tasks, freed) /\ Goto(x, "history") /\ UNCHANGED arg
    <3>1. \A t : \A y \in Threads \ {x} : [arg EXCEPT ![x] = t][y] = arg[y]
      BY <1>0
    <3> QED BY <1>6, <3>1 DEF GcSweep, At, fields
  <2>2. CASE UNCHANGED tasks
    <3>1. Elsewhere(x)
      BY <1>0, <2>1, <2>2 DEF Elsewhere, Searching, Goto
    <3> QED BY <3>1, ElsewhereKeeps
  <2>3. CASE tasks' = Squeezed(tasks, freed) /\ Goto(x, "history") /\ UNCHANGED arg
    <3>1. (\A k \in DOMAIN tasks : tasks[k] \notin freed) => tasks' = tasks
      BY <1>0, <2>3, ListedAfterGc
    <3>2. pc'[x] = "history" /\ \A y \in Threads \ {x} : pc'[y] = pc[y]
      BY <1>0, <2>3 DEF Goto
    <3>3. place' = place /\ disturbed' = disturbed /\ freed' = freed /\ id' = id /\ reg' = reg /\ arg' = arg
      BY <2>1, <2>3 DEF search
    <3>4. ASSUME NEW y \in Threads, ~ Searching(y)' PROVE place'[y] = 0
      BY <2>1, <3>2, <3>3, <3>4 DEF Searches, Searching
    <3>5. ASSUME NEW y \in Threads, Searching(y)', y \notin disturbed' PROVE Sees(y)'
      <4>1. pc'[y] = pc[y] /\ Sees(y)
        BY <3>2, <3>3, <3>5 DEF Searches, Searching
      <4>2. tasks' = tasks
        BY <3>1, <4>1 DEF Sees
      <4> QED BY <3>3, <4>1, <4>2 DEF Sees
    <3> QED BY <3>4, <3>5 DEF Searches
  <2> QED BY <2>1, <2>2, <2>3
<1>7. ASSUME NEW x \in Threads, JoinReturns(x) PROVE Searches'
  <2>1. /\ UNCHANGED <<tasks, id, arg, reg, place>> /\ ~ Searching(x)
        /\ \E l \in {"sweep", "idle", "finish"} : Goto(x, l)
        /\ \/ freed' = freed /\ disturbed' = disturbed
           \/ disturbed' = disturbed \union {y \in Threads : Searching(y)}
    BY <1>7 DEF JoinReturns, Joined, At, fields, Searching, CommandEnd
  <2>2. ~ Searching(x)' /\ \A y \in Threads \ {x} : pc'[y] = pc[y]
    BY <1>0, <2>1 DEF Goto, Searching
  <2>3. CASE freed' = freed /\ disturbed' = disturbed
    <3>1. Elsewhere(x)
      BY <2>1, <2>2, <2>3 DEF Elsewhere, search
    <3> QED BY <3>1, ElsewhereKeeps
  <2>4. CASE disturbed' = disturbed \union {y \in Threads : Searching(y)}
    <3>1. ASSUME NEW y \in Threads
          PROVE  (~ Searching(y)' => place'[y] = 0) /\ (Searching(y)' => y \in disturbed')
      BY <2>1, <2>2, <2>4 DEF Searches, Searching
    <3> QED BY <3>1 DEF Searches
  <2> QED BY <2>1, <2>3, <2>4
<1>8. ASSUME NEW x \in Threads, JoinBlocks(x) PROVE Elsewhere(x)
  <2>1. /\ UNCHANGED <<tasks, freed, search, id, arg, reg>> /\ ~ Searching(x)
        /\ Goto(x, "gcjoining") \/ Goto(x, "joining")
    BY <1>8 DEF JoinBlocks, At, lists, fields, Searching
  <2> QED BY <1>0, <2>1 DEF Elsewhere, Searching, Goto, search
<1>9. ASSUME NEW x \in Threads, Dispatch(x) PROVE Searches'
  <2>1. UNCHANGED <<tasks, freed, id, place>> /\ pc[x] = "dispatch" /\ CommandEnd(x) \in {"idle", "finish"}
    BY <1>9 DEF Dispatch, At, fields, CommandEnd
  <2>2. \/ /\ \E l \in {"store", "kill", "list", CommandEnd(x)} : Goto(x, l)
           /\ UNCHANGED disturbed
           /\ \A y \in Threads \ {x} : arg'[y] = arg[y] /\ reg'[y] = reg[y]
        \/ /\ Goto(x, "wait") /\ UNCHANGED arg
           /\ \A y \in Threads \ {x} : reg'[y] = reg[y]
           /\ disturbed' = IF \E k \in DOMAIN tasks : tasks[k] \in freed THEN disturbed \union {x} ELSE disturbed
    <3>1. \A t : \A y \in Threads \ {x} : [arg EXCEPT ![x] = t][y] = arg[y] /\ [reg EXCEPT ![x] = t][y] = reg[y]
      BY <1>0
    <3>2. \/ /\ Goto(x, CommandEnd(x)) \/ Goto(x, "list")
             /\ UNCHANGED <<arg, reg, disturbed>>
          \/ /\ Goto(x, "store") /\ UNCHANGED disturbed
             /\ \E t : arg' = [arg EXCEPT ![x] = t]
             /\ \E t : reg' = [reg EXCEPT ![x] = t]
          \/ /\ Goto(x, "kill") /\ UNCHANGED <<arg, disturbed>>
             /\ \E t : reg' = [reg EXCEPT ![x] = t]
          \/ /\ Goto(x, "wait") /\ UNCHANGED arg
             /\ \E t : reg' = [reg EXCEPT ![x] = t]
             /\ disturbed' = IF \E k \in DOMAIN tasks : tasks[k] \in freed
                             THEN disturbed \union {x} ELSE disturbed
      BY <1>9 DEF Dispatch
    <3>3. (\E t : reg' = [reg EXCEPT ![x] = t]) => \A y \in Threads \ {x} : reg'[y] = reg[y]
      BY <3>1
    <3>4. (\E t : arg' = [arg EXCEPT ![x] = t]) => \A y \in Threads \ {x} : arg'[y] = arg[y]
      BY <3>1
    <3> QED BY <3>2, <3>3, <3>4
  <2>3. CASE /\ \E l \in {"store", "kill", "list", CommandEnd(x)} : Goto(x, l)
             /\ UNCHANGED disturbed
             /\ \A y \in Threads \ {x} : arg'[y] = arg[y] /\ reg'[y] = reg[y]
    <3>1. Elsewhere(x)
      BY <1>0, <2>1, <2>3 DEF Elsewhere, Searching, Goto, search
    <3> QED BY <3>1, ElsewhereKeeps
  <2>4. CASE /\ Goto(x, "wait") /\ UNCHANGED arg
             /\ \A y \in Threads \ {x} : reg'[y] = reg[y]
             /\ disturbed' = IF \E k \in DOMAIN tasks : tasks[k] \in freed THEN disturbed \union {x} ELSE disturbed
    <3>1. pc'[x] = "wait" /\ place'[x] = 0
      BY <1>0, <2>1, <2>4 DEF Goto, Searches, Searching
    <3>2. Loops(x)
      BY <1>0, <2>1, <2>4 DEF Loops, Goto
    <3>3. x \notin disturbed' => Sees(x)'
      BY <1>0, <2>1, <2>4, <3>1 DEF Sees
    <3> QED BY <3>1, <3>2, <3>3, LoopsKeeps DEF Searching
  <2> QED BY <2>2, <2>3, <2>4
<1>10. ASSUME NEW x \in Threads, WaitLook(x) PROVE Searches'
  <2>1. UNCHANGED <<tasks, freed, id, arg, reg>> /\ pc[x] = "wait"
    BY <1>10 DEF WaitLook, At, lists, fields
  <2>2. \/ Goto(x, "entry") /\ UNCHANGED search
        \/ Goto(x, CommandEnd(x)) /\ SearchOver(x)
    BY <1>10 DEF WaitLook
  <2>3. CASE Goto(x, "entry") /\ UNCHANGED search
    <3>1. pc'[x] = "entry" /\ Loops(x)
      BY <1>0, <2>1, <2>3 DEF Loops, Goto, search
    <3>2. x \notin disturbed' => Sees(x)'
      BY <2>1, <2>3, <3>1 DEF Searches, Searching, Sees, search
    <3> QED BY <3>1, <3>2, LoopsKeeps DEF Searching
  <2>4. CASE Goto(x, CommandEnd(x)) /\ SearchOver(x)
    <3>1. pc'[x] \in {"idle", "finish"} /\ place'[x] = 0 /\ Loops(x)
      BY <1>0, <2>1, <2>4 DEF Loops, Goto, SearchOver, CommandEnd
    <3> QED BY <3>1, LoopsKeeps DEF Searching
  <2> QED BY <2>2, <2>3, <2>4
<1>11. ASSUME NEW x \in Threads, WaitLoad(x) PROVE Searches'
  <2>1. UNCHANGED <<tasks, freed, id, reg, search>> /\ pc[x] = "entry"
    BY <1>11 DEF WaitLoad, At, lists, fields
  <2>2. \/ /\ Goto(x, "test")
           /\ \E t \in Tasks : /\ arg' = [arg EXCEPT ![x] = t]
                               /\ x \notin disturbed => place[x] < Len(tasks) /\ t = tasks[place[x] + 1]
        \/ UNCHANGED <<arg, pc>> /\ x \in disturbed
    BY <1>11 DEF WaitLoad
  <2>3. CASE /\ Goto(x, "test")
             /\ \E t \in Tasks : /\ arg' = [arg EXCEPT ![x] = t]
                                 /\ x \notin disturbed => place[x] < Len(tasks) /\ t = tasks[place[x] + 1]
    <3>1. pc'[x] = "test" /\ Loops(x)
      BY <1>0, <2>1, <2>3 DEF Loops, Goto, search
    <3>2. ASSUME x \notin disturbed PROVE Sees(x)'
      <4>1. Sees(x) /\ place[x] \in Nat
        BY <1>0, <2>1, <3>2 DEF Searches, Searching
      <4>2. place[x] < Len(tasks) /\ arg'[x] = tasks[place[x] + 1]
        BY <1>0, <2>3, <3>2
      <4>3. place[x] + 1 \in DOMAIN tasks
        BY <1>0, <4>1, <4>2
      <4> QED BY <2>1, <4>1, <4>2, <4>3 DEF Sees, search
    <3> QED BY <2>1, <3>1, <3>2, LoopsKeeps DEF Searching, search
  <2>4. CASE UNCHANGED <<arg, pc>> /\ x \in disturbed
    <3>1. Loops(x) /\ x \in disturbed' /\ Searching(x)'
      BY <2>1, <2>4 DEF Loops, search, Searching
    <3> QED BY <3>1, LoopsKeeps
  <2> QED BY <2>2, <2>3, <2>4
<1>12. ASSUME NEW x \in Threads, WaitTest(x) PROVE Searches'
  <2>1. UNCHANGED <<tasks, freed, id, arg, reg>> /\ pc[x] = "test"
    BY <1>12 DEF WaitTest, At, lists, fields
  <2>2. \/ Goto(x, "join") /\ SearchOver(x)
        \/ /\ arg[x] \in freed \/ id[arg[x]] # reg[x]
           /\ place' = [place EXCEPT ![x] = @ + 1] /\ Goto(x, "wait") /\ UNCHANGED disturbed
    BY <1>12 DEF WaitTest
  <2>3. CASE Goto(x, "join") /\ SearchOver(x)
    <3>1. pc'[x] = "join" /\ place'[x] = 0 /\ Loops(x)
      BY <1>0, <2>1, <2>3 DEF Loops, Goto, SearchOver
    <3> QED BY <3>1, LoopsKeeps DEF Searching
  <2>4. CASE /\ arg[x] \in freed \/ id[arg[x]] # reg[x]
             /\ place' = [place EXCEPT ![x] = @ + 1] /\ Goto(x, "wait") /\ UNCHANGED disturbed
    <3>1. pc'[x] = "wait" /\ place'[x] = place[x] + 1 /\ Loops(x) /\ place[x] \in Nat
      BY <1>0, <2>1, <2>4 DEF Loops, Goto
    <3>2. ASSUME x \notin disturbed PROVE Sees(x)'
      <4>1. Sees(x)
        BY <2>1, <3>2 DEF Searches, Searching
      <4>2. place[x] + 1 \in DOMAIN tasks /\ arg[x] = tasks[place[x] + 1]
        BY <2>1, <4>1 DEF Sees
      <4>3. id[tasks[place[x] + 1]] # reg[x]
        BY <2>4, <4>1, <4>2 DEF Sees
      <4>4. \A k \in DOMAIN tasks : k <= place[x] + 1 => id[tasks[k]] # reg[x]
        <5>1. ASSUME NEW k \in DOMAIN tasks, k <= place[x] + 1 PROVE k <= place[x] \/ k = place[x] + 1
          <6>1. k \in Int
            BY <1>0, LenProperties DEF TypeOK
          <6> QED BY <3>1, <5>1, <6>1
        <5>2. \A k \in DOMAIN tasks : k <= place[x] => id[tasks[k]] # reg[x]
          BY <4>1 DEF Sees
        <5> QED BY <4>3, <5>1, <5>2
      <4> QED BY <1>0, <2>1, <3>1, <4>1, <4>2, <4>4 DEF Sees
    <3> QED BY <2>4, <3>1, <3>2, LoopsKeeps DEF Searching
  <2> QED BY <2>2, <2>3, <2>4
<1>13. UNCHANGED <<lists, fields, locks, library, pc, arg, reg, search, budget>> => Searches'
  BY DEF Searches, Searching, Sees, lists, fields, search
<1>14. UNCHANGED vars => UNCHANGED <<lists, fields, locks, library, pc, arg, reg, search, budget>>
  BY DEF vars
<1>15. ASSUME NEW x \in Threads, Elsewhere(x) PROVE Searches'
  BY <1>15, ElsewhereKeeps
<1>16. ASSUME NEW x \in Threads, CommandStep(x) PROVE Searches'
  <2>1. CASE JoinBegin(x) \/ JoinEnd(x)
    BY <1>7, <1>8, <1>13, <1>15, <2>1, JoinKinds
  <2>2. CASE ~ (JoinBegin(x) \/ JoinEnd(x))
    BY <1>1, <1>3, <1>4, <1>5, <1>6, <1>9, <1>10, <1>11, <1>12, <1>15, <1>16, <2>2 DEF CommandStep
  <2> QED BY <2>1, <2>2
<1> QED
  BY <1>0, <1>1, <1>2, <1>13, <1>14, <1>15, <1>16 DEF Next, TaskStep

\* Nobody is in the loop before the first command.
LEMMA SearchInit == Init => Searches
BY DEF Init, Searches, Searching, Threads

\* Searches holds in every behaviour, whatever the commands.
THEOREM SearchInvariant == Spec => []Searches
<1>1. BaseInv /\ BaseInv' /\ Searches /\ [Next]_vars => Searches'
  BY SearchStep DEF BaseInv
<1> QED BY SearchInit, BaseInvariant, <1>1, PTL DEF Spec

\* task_wait returns for a Task that is over, or after a search that missed none.
LEMMA WaitStep ==
  ASSUME BaseInv, OrderInv, Searches, OneShell, Next, NEW x \in Shells,
         pc[x] \in {"wait", "entry", "test", "join", "joining"}, pc'[x] = "idle"
  PROVE  \/ pc[x] \in {"join", "joining"} /\ Over(arg[x])
         \/ pc[x] = "wait" /\ (x \in disturbed \/ \A k \in DOMAIN tasks : id[tasks[k]] # reg[x])
<1>0. /\ TypeOK /\ Shells \subseteq Threads /\ Tasks \subseteq Threads /\ Shells \intersect Tasks = {}
      /\ PlainTasks /\ FreedTaskIsUnused
  BY TaskAssumption DEF BaseInv, OrderInv, Threads
<1>1. JoinBegin(x) \/ JoinEnd(x) \/ WaitLook(x)
  <2>1. ASSUME NEW y \in Threads, y # x, NEW l, Goto(y, l) PROVE FALSE
    BY <1>0, <2>1 DEF Goto, TypeOK
  <2>2. ASSUME NEW t \in Tasks, TaskStep(t) PROVE FALSE
    <3>1. t # x /\ t \in Threads
      BY <1>0
    <3>2. \/ \E l : Goto(t, l)
          \/ UNCHANGED pc
          \/ SubmitCreate(t)
      BY <2>2 DEF TaskStep, CommandStep, GcLock, GcSweep, HistoryLock, HistoryAppend, Dispatch,
                  JoinBegin,
             JoinEnd, Joined, SubmitStore, SubmitInsert, SubmitReport, TaskKill, WaitLook,
             WaitLoad, WaitTest,
             ListLock, ListPrint, WrapperStart, WrapperFinish, ThreadEnd, Cancelled
    <3>3. ~ SubmitCreate(t)
      BY <1>0 DEF SubmitCreate, At, PlainTasks
    <3> QED BY <2>1, <3>1, <3>2, <3>3
  <2>3. PICK s \in Shells : StartCommand(s) \/ CommandStep(s)
    BY <2>2 DEF Next
  <2>4. s = x
    BY DEF OneShell
  <2>5. ~ WaitLoad(x) /\ ~ WaitTest(x)
    BY <1>0 DEF WaitLoad, WaitTest, At, Goto, TypeOK
  <2> QED
    BY <2>3, <2>4, <2>5 DEF CommandStep, StartCommand, GcLock, GcSweep, HistoryLock,
                            HistoryAppend, Dispatch,
           SubmitStore, SubmitInsert, SubmitCreate, SubmitReport, TaskKill, ListLock, ListPrint, At
<1>2. CASE JoinEnd(x)
  <2>1. PICK h \in Handles : joiner[h] = x /\ occupant[h] # None /\ pc[occupant[h]] = "ended"
    BY <1>2 DEF JoinEnd
  <2>2. Over(arg[x])
    BY <1>0, <2>1, EndedIsOver DEF FreedTaskIsUnused, Over
  <2> QED BY <1>2, <2>2 DEF JoinEnd, At
<1>3. CASE JoinBegin(x)
  <2>1. /\ pc[x] = "join"
        /\ arg[x] \in freed \/ (handle[arg[x]] # None /\ JoinFails(x, handle[arg[x]]))
    BY <1>0, <1>3 DEF JoinBegin, ThreadRead, At, Goto, TypeOK
  <2>2. arg[x] \in Tasks
    BY <1>0, <2>1 DEF BaseInv, Joins
  <2>3. arg[x] \in freed => Over(arg[x])
    BY <1>0 DEF FreedTaskIsUnused, Over
  <2> QED BY <1>0, <2>1, <2>2, <2>3, FailedIsOver
<1>4. CASE WaitLook(x)
  <2>1. pc[x] = "wait" /\ place[x] >= Len(tasks)
    BY <1>0, <1>4 DEF WaitLook, At, Goto, TypeOK
  <2>2. x \notin disturbed => Sees(x)
    BY <1>0, <2>1 DEF Searches, Searching
  <2>3. place[x] \in Nat /\ Len(tasks) \in Nat /\ DOMAIN tasks = 1 .. Len(tasks)
    BY <1>0, LenProperties DEF TypeOK
  <2> QED BY <2>1, <2>2, <2>3 DEF Sees
<1> QED BY <1>1, <1>2, <1>3, <1>4

\* With one shell that gives any commands, "wait" gives control back only when the command of
\* the task it found is over, also when its pthread_join failed, or when no listed task has
\* that identifier, or after a search that a collection has overtaken (task_wait, task_gc).
THEOREM WaitMeansOverHolds ==
  ASSUME OneShell
  PROVE  Spec => WaitMeansOver
<1>1. BaseInv /\ OrderInv /\ Searches /\ [Next]_vars =>
      [\A x \in Shells : /\ pc[x] \in {"wait", "entry", "test", "join", "joining"}
                         /\ pc'[x] = "idle"
         => \/ pc[x] \in {"join", "joining"} /\ pc[arg[x]] \in {"return", "ended"}
            \/ pc[x] = "wait" /\ (x \in disturbed \/ \A k \in DOMAIN tasks : id[tasks[k]] # reg[x])]_vars
  BY WaitStep DEF Over
<1> QED BY BaseInvariant, OrderInvariant, SearchInvariant, <1>1, PTL DEF Spec, WaitMeansOver
=============================================================================
