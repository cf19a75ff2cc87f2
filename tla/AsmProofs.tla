------------------------------- MODULE AsmProofs -------------------------------
(***************************************************************************)
(* The blocks of the assembly heap are disjoint for any threads, sizes,    *)
(* alignment and amount of memory, and the string routines work on them as *)
(* if each call happened at once.                                          *)
(***************************************************************************)
EXTENDS Asm, Integers, FiniteSetTheorems, SequenceTheorems, WellFoundedInduction, TLAPS

\* A set of naturals that is not empty has a least element.
LEMMA LeastNat ==
  ASSUME NEW T \in SUBSET Nat, T # {}
  PROVE  \E m \in T : \A k \in T : m <= k
<1>1. IsWellFoundedOn({ss \in Nat \X Nat : ss[1] < ss[2]}, Nat)
  BY NatLessThanWellFounded DEF OpToRel
<1>2. PICK m \in T : \A k \in T : <<k, m>> \notin {ss \in Nat \X Nat : ss[1] < ss[2]}
  BY <1>1, WFMin
<1>3. \A k \in T : ~ (k < m)
  BY <1>2
<1> QED BY <1>3

Fields == {"op", "rdi", "rsi", "rdx", "rax", "want"}

\* Where the next block begins: sbrk takes _end the first time.
Base == IF heap_end = 0 THEN END ELSE heap_end

\* What rounding needs of \div.
LEMMA DivFloor ==
  ASSUME NEW n \in Nat, NEW a \in Nat \ {0}
  PROVE  n \div a \in Nat /\ (n \div a) * a \in Nat /\ (n \div a) * a > n - a
  BY SMT

\* malloc asks sbrk for no less than it was asked for (memory.s:27-30).
LEMMA RoundedEnough ==
  ASSUME NEW size \in Nat
  PROVE  Rounded(size) \in Nat /\ Rounded(size) >= size
  BY DivFloor, AsmAssumption DEF Rounded

-----------------------------------------------------------------------------
(* The invariant.                                                          *)

\* heap_end and the blocks are numbers; cpu holds registers, with whatever values.
HeapTyped ==
  /\ heap_end \in Nat /\ raced \in BOOLEAN
  /\ blocks \in [Threads -> SUBSET [at : Nat, size : Nat]]
  /\ DOMAIN cpu = Threads /\ \A t \in Threads : DOMAIN cpu[t] = Fields

\* What a thread between the two steps of sbrk is about to get.
PendingBlock ==
  \A t \in Threads :
    cpu[t].op = "sbrk" =>
      /\ cpu[t].rax = Base
      /\ cpu[t].rdi \in Nat /\ cpu[t].rdx \in Nat /\ cpu[t].rdi >= cpu[t].rdx

OneInSbrk ==
  \A t, u \in Threads : cpu[t].op = "sbrk" /\ cpu[u].op = "sbrk" => t = u

\* Blocks lie between _end and heap_end, so that none is in use before the first sbrk.
BlocksInHeap ==
  /\ heap_end # 0 => END <= heap_end
  /\ \A t \in Threads : \A b \in blocks[t] : END <= b.at /\ b.at + b.size <= heap_end

BlocksApart ==
  \A t, u \in Threads : \A b \in blocks[t], c \in blocks[u] :
    (t = u /\ b = c) \/ CellsOf(b) \intersect CellsOf(c) = {}

HeapInv ==
  /\ HeapTyped
  /\ ~raced => PendingBlock /\ OneInSbrk /\ BlocksInHeap /\ BlocksApart

LEMMA HeapInvInit == Init => HeapInv
  <1> SUFFICES ASSUME Init PROVE HeapInv
    OBVIOUS
  <1>1. HeapTyped
    BY DEF Init, HeapTyped, Ready, Fields
  <1>2. PendingBlock /\ OneInSbrk
    BY DEF Init, PendingBlock, OneInSbrk, Ready
  <1>3. BlocksInHeap /\ BlocksApart
    BY DEF Init, BlocksInHeap, BlocksApart
  <1> QED BY <1>1, <1>2, <1>3 DEF HeapInv

-----------------------------------------------------------------------------
(* The string routines leave the heap alone.                               *)

\* What a step does that has nothing to do with the heap.
HeapAside ==
  /\ UNCHANGED <<heap_end, blocks, raced>>
  /\ DOMAIN cpu' = Threads /\ \A t \in Threads : DOMAIN cpu'[t] = Fields
  /\ \A t \in Threads : cpu'[t].op = "sbrk" => cpu'[t] = cpu[t]

LEMMA AsideKeepsHeapInv ==
  ASSUME HeapInv, HeapAside
  PROVE  HeapInv'
  BY DEF HeapInv, HeapAside, HeapTyped, PendingBlock, OneInSbrk, BlocksInHeap, BlocksApart,
         Base, CellsOf

\* A step of one thread's registers that ends outside sbrk.
LEMMA RegistersAside ==
  ASSUME HeapTyped, NEW t \in Threads, NEW r, DOMAIN r = Fields,
         r.op # "sbrk", cpu' = [cpu EXCEPT ![t] = r], UNCHANGED <<heap_end, blocks, raced>>
  PROVE  HeapAside
  BY DEF HeapTyped, HeapAside

LEMMA CallAside ==
  ASSUME HeapTyped, NEW t \in Threads, NEW op, op # "sbrk", NEW rdi, NEW rsi, NEW rdx, NEW want,
         Enter(t, op, rdi, rsi, rdx, want)
  PROVE  HeapAside
  <1> DEFINE r == [op |-> op, rdi |-> rdi, rsi |-> rsi, rdx |-> rdx, rax |-> 0, want |-> want]
  <1>1. DOMAIN r = Fields /\ r.op # "sbrk"
    BY DEF Fields
  <1>2. cpu' = [cpu EXCEPT ![t] = r] /\ UNCHANGED <<heap_end, blocks, raced>>
    BY DEF Enter
  <1> HIDE DEF r
  <1> QED BY <1>1, <1>2, RegistersAside

LEMMA MovesAside ==
  ASSUME HeapTyped, NEW t \in Threads, cpu[t].op # "sbrk", NEW byte, NEW dsrc, NEW last \in BOOLEAN,
         Moves(t, byte, dsrc, last), UNCHANGED <<heap_end, blocks, raced>>
  PROVE  HeapAside
  BY DEF HeapTyped, HeapAside, Moves, Fields

LEMMA EndsAside ==
  ASSUME HeapTyped, NEW t \in Threads, NEW rax,
         Ends(t, rax), UNCHANGED <<heap_end, blocks, raced>>
  PROVE  HeapAside
  BY DEF HeapTyped, HeapAside, Ends, Fields

LEMMA CompareAside ==
  ASSUME HeapTyped, NEW t \in Threads, cpu[t].op # "sbrk", NEW equal \in BOOLEAN,
         Compare(t, equal), UNCHANGED <<heap_end, blocks, raced>>
  PROVE  HeapAside
  <1> DEFINE al == Byte(cpu[t].rdi)
             bl == Byte(cpu[t].rsi)
  <1>1. CASE al # bl
    BY <1>1, EndsAside DEF Compare
  <1>2. CASE al = bl /\ equal
    BY <1>2, EndsAside DEF Compare
  <1>3. CASE al = bl /\ ~equal
    <2>1. cpu' = [cpu EXCEPT ![t].rdi = @ + 1, ![t].rsi = @ + 1,
                             ![t].rdx = IF @ = 0 THEN 0 ELSE @ - 1]
      BY <1>3 DEF Compare
    <2> QED BY <2>1 DEF HeapTyped, HeapAside, Fields
  <1> QED BY <1>1, <1>2, <1>3

LEMMA RoutineAside ==
  ASSUME HeapTyped, NEW t \in Threads, RoutineStep(t)
  PROVE  HeapAside
  <1>0. UNCHANGED <<heap_end, blocks, raced>>
    BY DEF RoutineStep
  <1>1. CASE Memset(t)
    BY <1>0, <1>1, MovesAside, EndsAside DEF Memset
  <1>2. CASE Memcpy(t)
    BY <1>0, <1>2, MovesAside, EndsAside DEF Memcpy
  <1>3. CASE Strcpy(t)
    BY <1>0, <1>3, MovesAside DEF Strcpy
  <1>4. CASE Strlen(t)
    <2>1. CASE Ends(t, cpu[t].rax)
      BY <1>0, <2>1, EndsAside
    <2>2. CASE cpu' = [cpu EXCEPT ![t].rax = @ + 1]
      BY <1>0, <1>4, <2>2 DEF Strlen, HeapTyped, HeapAside, Fields
    <2> QED BY <1>4, <2>1, <2>2 DEF Strlen
  <1>5. CASE Memcmp(t)
    BY <1>0, <1>5, EndsAside, CompareAside DEF Memcmp
  <1>6. CASE Strcmp(t)
    BY <1>0, <1>6, CompareAside DEF Strcmp
  <1>7. CASE Return(t)
    BY <1>0, <1>7, RegistersAside DEF Return, Ready, Fields
  <1> QED BY <1>1, <1>2, <1>3, <1>4, <1>5, <1>6, <1>7 DEF RoutineStep

LEMMA CallsAside ==
  ASSUME HeapTyped, NEW t \in Threads, Calls(t)
  PROVE  HeapAside
  <1> PICK b \in blocks[t], c \in blocks[t] :
        \/ CallStrlen(t, b) \/ CallStrcmp(t, b, c)
        \/ b # c /\ CallStrcpy(t, b, c)
        \/ \E n \in 0 .. b.size :
             \/ \E byte \in Bytes : CallMemset(t, b, byte, n)
             \/ n <= c.size /\ CallMemcmp(t, b, c, n)
             \/ n <= c.size /\ b # c /\ CallMemcpy(t, b, c, n)
    BY DEF Calls
  <1>1. CASE CallStrlen(t, b)
    BY <1>1, CallAside DEF CallStrlen
  <1>2. CASE CallStrcmp(t, b, c)
    BY <1>2, CallAside DEF CallStrcmp
  <1>3. CASE CallStrcpy(t, b, c)
    BY <1>3, CallAside DEF CallStrcpy
  <1>4. ASSUME NEW n \in 0 .. b.size, NEW byte \in Bytes, CallMemset(t, b, byte, n)
        PROVE  HeapAside
    BY <1>4, CallAside DEF CallMemset
  <1>5. ASSUME NEW n \in 0 .. b.size, CallMemcmp(t, b, c, n)
        PROVE  HeapAside
    BY <1>5, CallAside DEF CallMemcmp
  <1>6. ASSUME NEW n \in 0 .. b.size, CallMemcpy(t, b, c, n)
        PROVE  HeapAside
    BY <1>6, CallAside DEF CallMemcpy
  <1> QED BY <1>1, <1>2, <1>3, <1>4, <1>5, <1>6

-----------------------------------------------------------------------------
(* The steps of the heap.                                                  *)

\* Two threads come to sbrk together only by a step that is remembered in raced.
LEMMA MallocKeepsHeapInv ==
  ASSUME HeapInv, ~raced, NEW t \in Threads, NEW size \in Sizes, Malloc(t, size)
  PROVE  HeapInv'
  <1>1. size \in Nat
    BY AsmAssumption
  <1>2. Rounded(size) \in Nat /\ Rounded(size) >= size
    BY <1>1, RoundedEnough
  <1> DEFINE r == [Ready EXCEPT !.op = "sbrk", !.rax = Base, !.rdi = Rounded(size), !.rdx = size]
  <1>3. /\ cpu' = [cpu EXCEPT ![t] = r]
        /\ raced' = (raced \/ \E u \in Threads : cpu[u].op = "sbrk")
        /\ UNCHANGED <<heap_end, blocks>>
    BY DEF Malloc, Base
  <1>4. /\ DOMAIN r = Fields /\ r.op = "sbrk" /\ r.rax = Base
        /\ r.rdi = Rounded(size) /\ r.rdx = size
    BY DEF Ready, Fields
  <1>5. raced' \in BOOLEAN
    BY <1>3
  <1> HIDE DEF r
  <1>6. HeapTyped'
    BY <1>3, <1>4, <1>5 DEF HeapInv, HeapTyped
  <1>7. \A u \in Threads : cpu'[u] = IF u = t THEN r ELSE cpu[u]
    BY <1>3 DEF HeapInv, HeapTyped
  <1>8. Base' = Base
    BY <1>3 DEF Base
  <1>9. ASSUME ~raced' PROVE PendingBlock' /\ OneInSbrk' /\ BlocksInHeap' /\ BlocksApart'
    <2>1. \A u \in Threads : cpu[u].op # "sbrk"
      BY <1>3, <1>9
    <2>2. PendingBlock' /\ OneInSbrk'
      BY <1>1, <1>2, <1>4, <1>7, <1>8, <2>1 DEF PendingBlock, OneInSbrk
    <2>3. BlocksInHeap' /\ BlocksApart'
      BY <1>3 DEF HeapInv, BlocksInHeap, BlocksApart, CellsOf
    <2> QED BY <2>2, <2>3
  <1> QED BY <1>6, <1>9 DEF HeapInv

\* The new block begins where all others have ended.
LEMMA SbrkKeepsHeapInv ==
  ASSUME HeapInv, ~raced, NEW t \in Threads, Sbrk(t)
  PROVE  HeapInv'
  <1> DEFINE new == [at |-> cpu[t].rax, size |-> cpu[t].rdx]
  <1>1. /\ cpu[t].op = "sbrk"
        /\ heap_end' = cpu[t].rax + cpu[t].rdi
        /\ blocks' = [blocks EXCEPT ![t] = @ \union {new}]
        /\ cpu' = [cpu EXCEPT ![t] = Ready]
        /\ UNCHANGED raced
    BY DEF Sbrk
  <1>2. /\ cpu[t].rax = Base /\ cpu[t].rdi \in Nat /\ cpu[t].rdx \in Nat
        /\ cpu[t].rdi >= cpu[t].rdx
    BY <1>1 DEF HeapInv, PendingBlock
  <1>3. heap_end \in Nat /\ Base \in Nat /\ Base >= heap_end /\ Base >= END /\ END \in Nat
    BY AsmAssumption DEF HeapInv, HeapTyped, BlocksInHeap, Base
  <1>4. new \in [at : Nat, size : Nat] /\ new.at = Base /\ new.at + new.size <= heap_end'
    BY <1>1, <1>2, <1>3
  <1>5. heap_end' \in Nat /\ heap_end' >= heap_end /\ heap_end' >= END
    BY <1>1, <1>2, <1>3
  <1> HIDE DEF new
  <1>6. HeapTyped'
    BY <1>1, <1>4, <1>5 DEF HeapInv, HeapTyped, Ready, Fields
  <1>7. \A u \in Threads : cpu'[u].op # "sbrk"
    BY <1>1 DEF HeapInv, HeapTyped, OneInSbrk, Ready
  <1>8. PendingBlock' /\ OneInSbrk'
    BY <1>7 DEF PendingBlock, OneInSbrk
  <1>9. \A u \in Threads : \A b \in blocks'[u] : b \in blocks[u] \/ (u = t /\ b = new)
    BY <1>1 DEF HeapInv, HeapTyped
  <1>10. \A u \in Threads : \A b \in blocks[u] :
           /\ b.at \in Nat /\ b.size \in Nat
           /\ END <= b.at /\ b.at + b.size <= heap_end
    BY DEF HeapInv, HeapTyped, BlocksInHeap
  <1>11. BlocksInHeap'
    <2>1. \A u \in Threads : \A b \in blocks[u] : b.at + b.size <= heap_end'
      BY <1>3, <1>5, <1>10
    <2> QED BY <1>3, <1>4, <1>5, <1>9, <1>10, <2>1 DEF BlocksInHeap
  <1>12. \A u \in Threads : \A b \in blocks[u] : CellsOf(b) \intersect CellsOf(new) = {}
    BY <1>3, <1>4, <1>10 DEF HeapInv, HeapTyped, CellsOf
  <1>13. \A u, v \in Threads : \A b \in blocks[u], c \in blocks[v] :
           (u = v /\ b = c) \/ CellsOf(b) \intersect CellsOf(c) = {}
    BY DEF HeapInv, BlocksApart
  <1>14. BlocksApart'
    BY <1>9, <1>12, <1>13 DEF BlocksApart, CellsOf
  <1> QED BY <1>6, <1>8, <1>11, <1>14 DEF HeapInv

LEMMA FreeKeepsHeapInv ==
  ASSUME HeapInv, NEW t \in Threads, NEW b \in blocks[t], Free(t, b)
  PROVE  HeapInv'
  <1>1. /\ blocks' = [blocks EXCEPT ![t] = @ \ {b}]
        /\ UNCHANGED <<heap_end, cpu, raced>>
    BY DEF Free
  <1>2. HeapTyped'
    BY <1>1 DEF HeapInv, HeapTyped
  <1>3. \A u \in Threads : \A c \in blocks'[u] : c \in blocks[u]
    BY <1>1 DEF HeapInv, HeapTyped
  <1>4. ASSUME ~raced' PROVE PendingBlock' /\ OneInSbrk' /\ BlocksInHeap' /\ BlocksApart'
    <2>1. PendingBlock' /\ OneInSbrk'
      BY <1>1, <1>4 DEF HeapInv, PendingBlock, OneInSbrk, Base
    <2>2. BlocksInHeap' /\ BlocksApart'
      BY <1>1, <1>3, <1>4 DEF HeapInv, BlocksInHeap, BlocksApart, CellsOf
    <2> QED BY <2>1, <2>2
  <1> QED BY <1>2, <1>4 DEF HeapInv

-----------------------------------------------------------------------------
LEMMA HeapInvStep == HeapInv /\ [Next]_vars => HeapInv'
  <1> SUFFICES ASSUME HeapInv, [Next]_vars PROVE HeapInv'
    OBVIOUS
  <1>1. CASE Next
    <2> PICK t \in Threads :
          \/ \E size \in Sizes : Malloc(t, size)
          \/ Sbrk(t) \/ (\E b \in blocks[t] : Free(t, b)) \/ Calls(t) \/ RoutineStep(t)
      BY <1>1 DEF Next
    <2>0. ~raced /\ HeapTyped
      BY <1>1 DEF Next, HeapInv
    <2>1. ASSUME NEW size \in Sizes, Malloc(t, size) PROVE HeapInv'
      BY <2>0, <2>1, MallocKeepsHeapInv
    <2>2. CASE Sbrk(t)
      BY <2>0, <2>2, SbrkKeepsHeapInv
    <2>3. ASSUME NEW b \in blocks[t], Free(t, b) PROVE HeapInv'
      BY <2>3, FreeKeepsHeapInv
    <2>4. CASE Calls(t)
      BY <2>0, <2>4, CallsAside, AsideKeepsHeapInv
    <2>5. CASE RoutineStep(t)
      BY <2>0, <2>5, RoutineAside, AsideKeepsHeapInv
    <2> QED BY <2>1, <2>2, <2>3, <2>4, <2>5
  <1>2. CASE UNCHANGED vars
    BY <1>2 DEF vars, HeapInv, HeapTyped, PendingBlock, OneInSbrk, BlocksInHeap, BlocksApart,
                Base, CellsOf
  <1> QED BY <1>1, <1>2

\* The invariant of the heap (memory.s:11-33).
THEOREM HeapInvariant == Spec => []HeapInv
  BY HeapInvInit, HeapInvStep, PTL DEF Spec

\* Blocks in use lie below heap_end and share no byte, whoever got them, until two threads
\* have been in sbrk at once (memory.s:11-33): the only thing a lock would have to prevent.
THEOREM HeapBlocksDisjointHolds == Spec => []HeapBlocksDisjoint
  <1>1. HeapInv => HeapBlocksDisjoint
    BY DEF HeapInv, BlocksInHeap, BlocksApart, HeapBlocksDisjoint
  <1> QED BY <1>1, HeapInvariant, PTL

-----------------------------------------------------------------------------
(* Calls as if at once.                                                    *)

\* The memory of a thread: the cells of its blocks.
Own(t) == {a \in Cells : \E b \in blocks[t] : a \in CellsOf(b)}

Within(p, n, b) == p \in Nat /\ n \in Nat /\ b.at <= p /\ p + n <= b.at + b.size

AsAsked(t) == \A a \in Own(t) : mem[a] = asked[a]

\* What memset, memcpy or strcpy is still to write: n bytes from rdi on.
Setting(t) ==
  LET p == cpu[t].rdi  n == cpu[t].rdx IN
  /\ cpu[t].rax = 0 /\ cpu[t].want = 0 /\ cpu[t].rsi \in Nat
  /\ \E b \in blocks[t] : Within(p, n, b)
  /\ \A a \in Own(t) : asked[a] = IF a \in p .. p + n - 1 THEN cpu[t].rsi ELSE mem[a]

Copying(t, n) ==
  LET p == cpu[t].rdi  q == cpu[t].rsi IN
  /\ cpu[t].rax = 0 /\ cpu[t].want = 0
  /\ \E b, c \in blocks[t] : b # c /\ Within(p, n, b) /\ Within(q, n, c)
  /\ \A a \in Own(t) : asked[a] = IF a \in p .. p + n - 1 THEN mem[q + (a - p)] ELSE mem[a]

CopyingString(t) ==
  LET q == cpu[t].rsi IN
  \E n \in Nat :
    /\ Copying(t, n + 1)
    /\ mem[q + n] = 0 /\ \A i \in 0 .. n - 1 : mem[q + i] # 0

\* What strlen, memcmp or strcmp is still to read decides what it must return.
Measuring(t) ==
  LET p == cpu[t].rdi  want == cpu[t].want IN
  /\ cpu[t].rax \in Nat /\ cpu[t].rax <= want
  /\ \E b \in blocks[t] : Within(p, want + 1, b) /\ want \in Nat
  /\ mem[p + want] = 0 /\ \A i \in 0 .. want - 1 : mem[p + i] # 0

Agree(p, q, n) == \A i \in 0 .. n - 1 : mem[p + i] = mem[q + i]

Comparing(t) ==
  LET p == cpu[t].rdi  q == cpu[t].rsi  n == cpu[t].rdx  want == cpu[t].want IN
  /\ \E b, c \in blocks[t] : Within(p, n, b) /\ Within(q, n, c)
  /\ \/ Agree(p, q, n) /\ want = 0
     \/ \E i \in 0 .. n - 1 :
          /\ Agree(p, q, i) /\ mem[p + i] # mem[q + i]
          /\ want = mem[p + i] - mem[q + i]

ComparingStrings(t) ==
  LET p == cpu[t].rdi  q == cpu[t].rsi  want == cpu[t].want IN
  \E n \in Nat :
    /\ \E b, c \in blocks[t] : Within(p, n + 1, b) /\ Within(q, n + 1, c)
    /\ Agree(p, q, n) /\ \A i \in 0 .. n - 1 : mem[p + i] # 0
    /\ \/ mem[p + n] = mem[q + n] /\ mem[p + n] = 0 /\ want = 0
       \/ mem[p + n] # mem[q + n] /\ want = mem[p + n] - mem[q + n]

\* Thread t is where it should be in its call.
OnCourse(t) ==
  LET op == cpu[t].op IN
  /\ op \notin {"memset", "memcpy", "strcpy"} => AsAsked(t)
  /\ op = "done" => cpu[t].rax = cpu[t].want
  /\ op = "memset" => Setting(t)
  /\ op = "memcpy" => Copying(t, cpu[t].rdx)
  /\ op = "strcpy" => CopyingString(t)
  /\ op = "strlen" => Measuring(t)
  /\ op = "memcmp" => Comparing(t)
  /\ op = "strcmp" => ComparingStrings(t)

\* Blocks, also the one that sbrk is about to give, lie in the memory looked at.
InMemory ==
  \A t \in Threads :
    /\ \A b \in blocks[t] : b.at + b.size <= TOP
    /\ cpu[t].op = "sbrk" => cpu[t].rax + cpu[t].rdi <= TOP

\* Nothing has been written where no block has been.
Untouched == \A a \in Cells : a >= Base => mem[a] = asked[a]

CallsInv ==
  /\ HeapInv
  /\ DOMAIN mem = Cells /\ DOMAIN asked = Cells
  /\ ~raced => InMemory /\ Untouched /\ \A t \in Threads : OnCourse(t)

\* What a thread calls with and where it is lies in its own memory.
LEMMA WithinOwn ==
  ASSUME CallsInv, ~raced, NEW t \in Threads, NEW b \in blocks[t]
  PROVE  /\ b.at \in Nat /\ b.size \in Nat /\ END <= b.at
         /\ b.at + b.size <= heap_end /\ b.at + b.size <= TOP
         /\ \A a \in CellsOf(b) : a \in Cells /\ a \in Own(t) /\ a < Base
         /\ \A p, n : Within(p, n, b) => \A i \in 0 .. n - 1 : p + i \in CellsOf(b)
<1>1. b.at \in Nat /\ b.size \in Nat /\ END <= b.at /\ b.at + b.size <= heap_end /\ heap_end \in Nat
  BY DEF CallsInv, HeapInv, HeapTyped, BlocksInHeap
<1>2. b.at + b.size <= TOP
  BY DEF CallsInv, InMemory
<1>3. END \in Nat \ {0} /\ TOP \in Nat
  BY AsmAssumption
<1>4. ASSUME NEW a \in CellsOf(b) PROVE a \in Cells /\ a \in Own(t) /\ a < Base
  <2>1. a \in Nat /\ a >= END /\ a < heap_end /\ a < TOP /\ a \in b.at .. b.at + b.size - 1
    BY <1>1, <1>2, <1>3, <1>4 DEF CellsOf
  <2>2. a \in Cells
    BY <1>3, <2>1 DEF Cells
  <2>3. heap_end # 0
    BY <1>3, <2>1
  <2> QED BY <1>4, <2>1, <2>2, <2>3 DEF Own, Base
<1>5. ASSUME NEW p, NEW n, Within(p, n, b), NEW i \in 0 .. n - 1 PROVE p + i \in CellsOf(b)
  <2>1. p \in Nat /\ n \in Nat /\ b.at <= p /\ p + n <= b.at + b.size
    BY <1>5 DEF Within
  <2> QED BY <1>1, <2>1 DEF CellsOf
<1> QED BY <1>1, <1>2, <1>4, <1>5

\* What a thread owns nobody else does.
LEMMA OwnApart ==
  ASSUME CallsInv, ~raced, NEW t \in Threads, NEW u \in Threads, t # u
  PROVE  Own(t) \intersect Own(u) = {}
BY DEF CallsInv, HeapInv, BlocksApart, Own

\* A thread stays on course while its registers, its blocks and what is in them stay.
LEMMA OnCourseStays ==
  ASSUME CallsInv, ~raced, NEW u \in Threads, OnCourse(u),
         cpu'[u] = cpu[u], blocks'[u] = blocks[u],
         \A a \in Own(u) : mem'[a] = mem[a] /\ asked'[a] = asked[a]
  PROVE  OnCourse(u)'
<1> DEFINE p == cpu[u].rdi
           q == cpu[u].rsi
           want == cpu[u].want
<1>1. Own(u)' = Own(u)
  BY DEF Own, CellsOf
<1>2. \A b \in blocks[u] : \A x, n : Within(x, n, b) => \A i \in 0 .. n - 1 : x + i \in Own(u)
  BY WithinOwn
<1>3. ASSUME AsAsked(u) PROVE AsAsked(u)'
  BY <1>1, <1>3 DEF AsAsked
<1>4. ASSUME Setting(u) PROVE Setting(u)'
  <2>1. \A a \in Own(u) : asked'[a] = IF a \in p .. p + cpu[u].rdx - 1 THEN q ELSE mem'[a]
    BY <1>4 DEF Setting
  <2> QED BY <1>1, <1>4, <2>1 DEF Setting, Within
<1>5. ASSUME NEW n, Copying(u, n) PROVE Copying(u, n)'
  <2>1. PICK b \in blocks[u], c \in blocks[u] : b # c /\ Within(p, n, b) /\ Within(q, n, c)
    BY <1>5 DEF Copying
  <2>2. p \in Nat /\ q \in Nat /\ n \in Nat
    BY <2>1 DEF Within
  <2>3. ASSUME NEW a \in p .. p + n - 1 PROVE mem'[q + (a - p)] = mem[q + (a - p)]
    <3>1. a - p \in 0 .. n - 1
      BY <2>2
    <3>2. q + (a - p) \in Own(u)
      BY <1>2, <2>1, <3>1
    <3> QED BY <3>2
  <2>4. \A a \in Own(u) :
          asked'[a] = IF a \in p .. p + n - 1 THEN mem'[q + (a - p)] ELSE mem'[a]
    BY <1>5, <2>3 DEF Copying
  <2> QED BY <1>1, <1>5, <2>1, <2>4 DEF Copying, Within
<1>6. ASSUME CopyingString(u) PROVE CopyingString(u)'
  <2>1. PICK n \in Nat : /\ Copying(u, n + 1)
                         /\ mem[q + n] = 0 /\ \A i \in 0 .. n - 1 : mem[q + i] # 0
    BY <1>6 DEF CopyingString
  <2>2. PICK c \in blocks[u] : Within(q, n + 1, c)
    BY <2>1 DEF Copying
  <2>3. \A i \in 0 .. n : q + i \in Own(u)
    BY <1>2, <2>2
  <2>4. mem'[q + n] = 0 /\ \A i \in 0 .. n - 1 : mem'[q + i] # 0
    BY <2>1, <2>3
  <2>5. Copying(u, n + 1)'
    BY <1>5, <2>1
  <2> QED BY <2>4, <2>5 DEF CopyingString
<1>7. ASSUME Measuring(u) PROVE Measuring(u)'
  <2>1. PICK b \in blocks[u] : Within(p, want + 1, b) /\ want \in Nat
    BY <1>7 DEF Measuring
  <2>2. \A i \in 0 .. want : p + i \in Own(u)
    BY <1>2, <2>1
  <2>3. mem'[p + want] = 0 /\ \A i \in 0 .. want - 1 : mem'[p + i] # 0
    BY <1>7, <2>1, <2>2 DEF Measuring
  <2> QED BY <1>7, <2>1, <2>3 DEF Measuring, Within
<1>8. ASSUME Comparing(u) PROVE Comparing(u)'
  <2> DEFINE n == cpu[u].rdx
  <2>1. PICK b \in blocks[u], c \in blocks[u] : Within(p, n, b) /\ Within(q, n, c)
    BY <1>8 DEF Comparing
  <2>2. \A i \in 0 .. n - 1 : mem'[p + i] = mem[p + i] /\ mem'[q + i] = mem[q + i]
    BY <1>2, <2>1
  <2>3. n \in Nat
    BY <2>1 DEF Within
  <2>4. \A k \in 0 .. n : Agree(p, q, k) => Agree(p, q, k)'
    BY <2>2, <2>3 DEF Agree
  <2>5. \/ Agree(p, q, n)' /\ want = 0
        \/ \E i \in 0 .. n - 1 :
             /\ Agree(p, q, i)' /\ mem'[p + i] # mem'[q + i]
             /\ want = mem'[p + i] - mem'[q + i]
    <3>1. CASE Agree(p, q, n) /\ want = 0
      BY <2>3, <2>4, <3>1
    <3>2. CASE \E i \in 0 .. n - 1 : /\ Agree(p, q, i) /\ mem[p + i] # mem[q + i]
                                     /\ want = mem[p + i] - mem[q + i]
      BY <2>2, <2>3, <2>4, <3>2
    <3> QED BY <1>8, <3>1, <3>2 DEF Comparing
  <2> QED BY <2>1, <2>5 DEF Comparing, Within, Agree
<1>9. ASSUME ComparingStrings(u) PROVE ComparingStrings(u)'
  <2>1. PICK n \in Nat :
          /\ \E b, c \in blocks[u] : Within(p, n + 1, b) /\ Within(q, n + 1, c)
          /\ Agree(p, q, n) /\ \A i \in 0 .. n - 1 : mem[p + i] # 0
          /\ \/ mem[p + n] = mem[q + n] /\ mem[p + n] = 0 /\ want = 0
             \/ mem[p + n] # mem[q + n] /\ want = mem[p + n] - mem[q + n]
    BY <1>9 DEF ComparingStrings
  <2>2. PICK b \in blocks[u], c \in blocks[u] : Within(p, n + 1, b) /\ Within(q, n + 1, c)
    BY <2>1
  <2>3. \A i \in 0 .. n : p + i \in Own(u) /\ q + i \in Own(u)
    BY <1>2, <2>2
  <2>4. \A i \in 0 .. n : mem'[p + i] = mem[p + i] /\ mem'[q + i] = mem[q + i]
    BY <2>3
  <2>5. Agree(p, q, n)' /\ \A i \in 0 .. n - 1 : mem'[p + i] # 0
    BY <2>1, <2>4 DEF Agree
  <2>6. n \in 0 .. n
    OBVIOUS
  <2>7. \/ mem'[p + n] = mem'[q + n] /\ mem'[p + n] = 0 /\ want = 0
        \/ mem'[p + n] # mem'[q + n] /\ want = mem'[p + n] - mem'[q + n]
    BY <2>1, <2>4, <2>6
  <2> QED BY <2>2, <2>5, <2>7 DEF ComparingStrings, Within, Agree
<1>10. ASSUME Copying(u, cpu[u].rdx) PROVE (Copying(u, cpu[u].rdx))'
  BY <1>5, <1>10
<1> QED BY <1>3, <1>4, <1>6, <1>7, <1>8, <1>9, <1>10 DEF OnCourse

-----------------------------------------------------------------------------
(* The loops keep their thread on course.                                  *)

\* What a step of thread t changes at most.
OnlyOf(t) ==
  /\ UNCHANGED <<heap_end, blocks, raced>>
  /\ DOMAIN mem' = Cells /\ DOMAIN asked' = Cells
  /\ \A u \in Threads \ {t} : cpu'[u] = cpu[u]
  /\ cpu'[t].op # "sbrk"
  /\ \A a \in Cells \ Own(t) : mem'[a] = mem[a] /\ asked'[a] = asked[a]

\* Then it is enough that t stays on course.
LEMMA OneThreadMoves ==
  ASSUME CallsInv, ~raced, NEW t \in Threads, HeapInv', OnlyOf(t), OnCourse(t)'
  PROVE  CallsInv'
<1>1. \A a \in Own(t) : a < Base /\ a \in Nat
  <2>1. ASSUME NEW a \in Own(t) PROVE a < Base /\ a \in Nat
    <3>1. PICK b \in blocks[t] : a \in CellsOf(b)
      BY DEF Own
    <3>2. a < Base /\ a \in Cells
      BY <3>1, WithinOwn
    <3> QED BY <3>2, AsmAssumption DEF Cells
  <2> QED BY <2>1
<1>2. heap_end \in Nat /\ Base \in Nat
  BY AsmAssumption DEF CallsInv, HeapInv, HeapTyped, Base
<1>3. Untouched'
  <2>1. ASSUME NEW a \in Cells, a >= Base PROVE mem'[a] = asked'[a]
    <3>1. a \notin Own(t)
      BY <1>1, <1>2, <2>1
    <3>2. mem[a] = asked[a]
      BY <2>1 DEF CallsInv, Untouched
    <3> QED BY <3>1, <3>2 DEF OnlyOf
  <2>2. Base' = Base
    BY DEF OnlyOf, Base
  <2> QED BY <2>1, <2>2 DEF Untouched
<1>4. InMemory'
  BY DEF CallsInv, InMemory, OnlyOf
<1>5. ASSUME NEW u \in Threads, u # t PROVE OnCourse(u)'
  <2>1. OnCourse(u)
    BY DEF CallsInv
  <2>2. Own(u) \subseteq Cells /\ Own(u) \intersect Own(t) = {}
    BY <1>5, OwnApart DEF Own
  <2> QED BY <1>5, <2>1, <2>2, OnCourseStays DEF OnlyOf
<1> QED BY <1>3, <1>4, <1>5 DEF CallsInv, OnlyOf

LEMMA OwnStays ==
  ASSUME NEW t, blocks' = blocks
  PROVE  Own(t)' = Own(t)
BY DEF Own, CellsOf

\* A byte is written into the thread's own memory.
LEMMA MovesEffect ==
  ASSUME CallsInv, ~raced, NEW t \in Threads, NEW byte, NEW dsrc, NEW last \in BOOLEAN,
         cpu[t].op # "sbrk", Moves(t, byte, dsrc, last), cpu[t].rdi \in Own(t),
         UNCHANGED <<heap_end, blocks, asked, raced>>
  PROVE  /\ OnlyOf(t) /\ asked' = asked
         /\ \A a \in Cells : mem'[a] = IF a = cpu[t].rdi THEN byte ELSE mem[a]
         /\ cpu'[t].op = (IF last THEN "done" ELSE cpu[t].op)
         /\ cpu'[t].rdi = cpu[t].rdi + 1 /\ cpu'[t].rsi = cpu[t].rsi + dsrc
         /\ cpu'[t].rdx = (IF cpu[t].rdx = 0 THEN 0 ELSE cpu[t].rdx - 1)
         /\ cpu'[t].rax = cpu[t].rax /\ cpu'[t].want = cpu[t].want
<1>1. DOMAIN cpu = Threads /\ DOMAIN cpu[t] = Fields
  BY DEF CallsInv, HeapInv, HeapTyped
<1>2. /\ cpu'[t].op = (IF last THEN "done" ELSE cpu[t].op)
      /\ cpu'[t].rdi = cpu[t].rdi + 1 /\ cpu'[t].rsi = cpu[t].rsi + dsrc
      /\ cpu'[t].rdx = (IF cpu[t].rdx = 0 THEN 0 ELSE cpu[t].rdx - 1)
      /\ cpu'[t].rax = cpu[t].rax /\ cpu'[t].want = cpu[t].want
      /\ \A u \in Threads \ {t} : cpu'[u] = cpu[u]
  BY <1>1 DEF Moves, Fields
<1>3. DOMAIN mem = Cells /\ mem' = [mem EXCEPT ![cpu[t].rdi] = byte]
  BY DEF CallsInv, Moves
<1>4. /\ DOMAIN mem' = Cells
      /\ \A a \in Cells : mem'[a] = IF a = cpu[t].rdi THEN byte ELSE mem[a]
  BY <1>3
<1>5. cpu'[t].op # "sbrk" /\ DOMAIN asked' = Cells
  BY <1>2 DEF CallsInv
<1> QED BY <1>2, <1>4, <1>5 DEF OnlyOf

\* Or only registers change.
LEMMA EndsEffect ==
  ASSUME CallsInv, NEW t \in Threads, NEW rax, Ends(t, rax),
         UNCHANGED <<heap_end, blocks, asked, raced>>
  PROVE  /\ OnlyOf(t) /\ mem' = mem /\ asked' = asked
         /\ cpu'[t].op = "done" /\ cpu'[t].rax = rax /\ cpu'[t].want = cpu[t].want
<1>1. DOMAIN cpu = Threads /\ DOMAIN cpu[t] = Fields
  BY DEF CallsInv, HeapInv, HeapTyped
<1>2. /\ cpu'[t].op = "done" /\ cpu'[t].rax = rax /\ cpu'[t].want = cpu[t].want
      /\ \A u \in Threads \ {t} : cpu'[u] = cpu[u]
      /\ mem' = mem
  BY <1>1 DEF Ends, Fields
<1> QED BY <1>2 DEF OnlyOf, CallsInv

\* A routine that ends where memory is as asked, with the right result, is on course.
LEMMA EndOnCourse ==
  ASSUME CallsInv, NEW t \in Threads, AsAsked(t), Ends(t, cpu[t].want),
         UNCHANGED <<heap_end, blocks, asked, raced>>
  PROVE  OnlyOf(t) /\ OnCourse(t)'
<1>1. /\ OnlyOf(t) /\ mem' = mem /\ asked' = asked
      /\ cpu'[t].op = "done" /\ cpu'[t].rax = cpu[t].want /\ cpu'[t].want = cpu[t].want
  BY EndsEffect
<1>2. AsAsked(t)'
  BY <1>1, OwnStays DEF AsAsked, OnlyOf
<1> QED BY <1>1, <1>2 DEF OnCourse

LEMMA MemsetOnCourse ==
  ASSUME CallsInv, ~raced, NEW t \in Threads, Memset(t),
         UNCHANGED <<heap_end, blocks, asked, raced>>
  PROVE  OnlyOf(t) /\ OnCourse(t)'
<1> DEFINE p == cpu[t].rdi
           n == cpu[t].rdx
           byte == cpu[t].rsi
<1>1. cpu[t].op = "memset" /\ Setting(t)
  BY DEF Memset, CallsInv, OnCourse
<1>2. PICK b \in blocks[t] : Within(p, n, b)
  BY <1>1 DEF Setting
<1>3. p \in Nat /\ n \in Nat /\ byte \in Nat /\ cpu[t].rax = 0 /\ cpu[t].want = 0
  BY <1>1, <1>2 DEF Within, Setting
<1>4. \A a \in Own(t) : asked[a] = IF a \in p .. p + n - 1 THEN byte ELSE mem[a]
  BY <1>1 DEF Setting
<1>5. CASE n = 0
  <2>1. AsAsked(t)
    BY <1>3, <1>4, <1>5 DEF AsAsked
  <2>2. Ends(t, cpu[t].want)
    BY <1>3, <1>5 DEF Memset, More
  <2> QED BY <2>1, <2>2, EndOnCourse
<1>6. CASE n # 0
  <2>1. Moves(t, byte, 0, FALSE)
    BY <1>6 DEF Memset, More
  <2>2. p + 0 \in CellsOf(b)
    BY <1>2, <1>3, <1>6, WithinOwn
  <2>3. p \in Own(t)
    BY <1>3, <2>2, WithinOwn
  <2>4. /\ OnlyOf(t) /\ asked' = asked
        /\ \A a \in Cells : mem'[a] = IF a = p THEN byte ELSE mem[a]
        /\ cpu'[t].op = "memset"
        /\ cpu'[t].rdi = p + 1 /\ cpu'[t].rsi = byte + 0
        /\ cpu'[t].rdx = n - 1
        /\ cpu'[t].rax = 0 /\ cpu'[t].want = 0
    <3>1. cpu[t].op # "sbrk" /\ FALSE \in BOOLEAN
      BY <1>1
    <3>2. /\ OnlyOf(t) /\ asked' = asked
          /\ \A a \in Cells : mem'[a] = IF a = p THEN byte ELSE mem[a]
          /\ cpu'[t].op = (IF FALSE THEN "done" ELSE cpu[t].op)
          /\ cpu'[t].rdi = p + 1 /\ cpu'[t].rsi = byte + 0
          /\ cpu'[t].rdx = (IF n = 0 THEN 0 ELSE n - 1)
          /\ cpu'[t].rax = cpu[t].rax /\ cpu'[t].want = cpu[t].want
      BY <2>1, <2>3, <3>1, MovesEffect, Zenon
    <3> QED BY <1>1, <1>3, <1>6, <3>2
  <2>5. Own(t)' = Own(t) /\ Own(t) \subseteq Cells /\ blocks' = blocks
    BY <2>4, OwnStays DEF OnlyOf, Own
  <2>6. \A a \in Own(t) : asked'[a] = IF a \in p + 1 .. p + 1 + (n - 1) - 1 THEN byte ELSE mem'[a]
    <3>1. ASSUME NEW a \in Own(t), a # p
          PROVE  a \in p + 1 .. p + 1 + (n - 1) - 1 <=> a \in p .. p + n - 1
      BY <1>3, <3>1
    <3>2. p \notin p + 1 .. p + 1 + (n - 1) - 1 /\ p \in p .. p + n - 1
      BY <1>3, <1>6
    <3> QED BY <1>4, <2>4, <2>5, <3>1, <3>2
  <2>7. Within(p + 1, n - 1, b)
    <3>1. b.at \in Nat /\ b.size \in Nat
      BY WithinOwn
    <3> QED BY <1>2, <1>3, <1>6, <3>1 DEF Within
  <2>8. Setting(t)'
    <3>1. cpu'[t].rsi = byte
      BY <1>3, <2>4
    <3> QED BY <1>3, <2>4, <2>5, <2>6, <2>7, <3>1 DEF Setting, Within
  <2> QED BY <2>4, <2>8 DEF OnCourse
<1> QED BY <1>5, <1>6

\* One byte of memcpy or strcpy.
LEMMA CopyOneByte ==
  ASSUME CallsInv, ~raced, NEW t \in Threads, NEW n \in Nat \ {0}, Copying(t, n),
         NEW last \in BOOLEAN, cpu[t].op # "sbrk",
         Moves(t, Byte(cpu[t].rsi), 1, last),
         UNCHANGED <<heap_end, blocks, asked, raced>>
  PROVE  /\ OnlyOf(t) /\ asked' = asked
         /\ cpu'[t].op = (IF last THEN "done" ELSE cpu[t].op)
         /\ cpu'[t].rsi = cpu[t].rsi + 1
         /\ cpu'[t].rdx = (IF cpu[t].rdx = 0 THEN 0 ELSE cpu[t].rdx - 1)
         /\ cpu'[t].rax = 0 /\ cpu'[t].want = 0
         /\ Byte(cpu[t].rsi) = mem[cpu[t].rsi]
         /\ \A i \in 0 .. n - 1 : mem'[cpu[t].rsi + i] = mem[cpu[t].rsi + i]
         /\ Copying(t, n - 1)'
<1> DEFINE p == cpu[t].rdi
           q == cpu[t].rsi
<1>1. PICK b \in blocks[t], c \in blocks[t] : b # c /\ Within(p, n, b) /\ Within(q, n, c)
  BY DEF Copying
<1>2. p \in Nat /\ q \in Nat /\ cpu[t].rax = 0 /\ cpu[t].want = 0
  BY <1>1 DEF Within, Copying
<1>3. \A i \in 0 .. n - 1 : p + i \in CellsOf(b) /\ q + i \in CellsOf(c)
  BY <1>1, WithinOwn
<1>4. CellsOf(b) \intersect CellsOf(c) = {}
  BY <1>1 DEF CallsInv, HeapInv, BlocksApart
<1>5. \A i \in 0 .. n - 1 : /\ p + i \in Own(t) /\ p + i \in Cells
                            /\ q + i \in Own(t) /\ q + i \in Cells
  BY <1>3, WithinOwn
<1>6. p \in Own(t) /\ q \in Cells
  <2>1. 0 \in 0 .. n - 1 /\ p + 0 = p /\ q + 0 = q
    BY <1>2
  <2> QED BY <1>5, <2>1
<1>7. Byte(q) = mem[q]
  BY <1>6 DEF Byte
<1>8. /\ OnlyOf(t) /\ asked' = asked
      /\ \A a \in Cells : mem'[a] = IF a = p THEN mem[q] ELSE mem[a]
      /\ cpu'[t].op = (IF last THEN "done" ELSE cpu[t].op)
      /\ cpu'[t].rdi = p + 1 /\ cpu'[t].rsi = q + 1
      /\ cpu'[t].rdx = (IF cpu[t].rdx = 0 THEN 0 ELSE cpu[t].rdx - 1)
      /\ cpu'[t].rax = 0 /\ cpu'[t].want = 0
  BY <1>2, <1>6, <1>7, MovesEffect
<1>9. Own(t)' = Own(t) /\ Own(t) \subseteq Cells /\ blocks' = blocks
  BY <1>8, OwnStays DEF OnlyOf, Own
<1>10. \A i \in 0 .. n - 1 : mem'[q + i] = mem[q + i]
  <2>1. p \in CellsOf(b)
    <3>1. 0 \in 0 .. n - 1 /\ p + 0 = p
      BY <1>2
    <3> QED BY <1>3, <3>1
  <2>2. \A i \in 0 .. n - 1 : q + i # p
    BY <1>3, <1>4, <2>1
  <2> QED BY <1>5, <1>8, <2>2
<1>11. \A a \in Own(t) : asked[a] = IF a \in p .. p + n - 1 THEN mem[q + (a - p)] ELSE mem[a]
  BY DEF Copying
<1>12. ASSUME NEW a \in Own(t)
       PROVE  asked'[a] = IF a \in p + 1 .. p + 1 + (n - 1) - 1
                          THEN mem'[q + 1 + (a - (p + 1))] ELSE mem'[a]
  <2>1. CASE a = p
    <3>1. a \in p .. p + n - 1 /\ q + (a - p) = q /\ a \notin p + 1 .. p + 1 + (n - 1) - 1
      BY <1>2, <2>1
    <3>2. asked[a] = mem[q] /\ mem'[a] = mem[q]
      BY <1>8, <1>9, <1>11, <2>1, <3>1
    <3> QED BY <1>8, <3>1, <3>2
  <2>2. CASE a \in p + 1 .. p + 1 + (n - 1) - 1
    <3>1. /\ a \in p .. p + n - 1 /\ q + 1 + (a - (p + 1)) = q + (a - p)
          /\ a - p \in 0 .. n - 1
      BY <1>2, <2>2
    <3>2. asked[a] = mem[q + (a - p)] /\ mem'[q + (a - p)] = mem[q + (a - p)]
      BY <1>10, <1>11, <3>1
    <3> QED BY <1>8, <2>2, <3>1, <3>2
  <2>3. CASE a # p /\ a \notin p + 1 .. p + 1 + (n - 1) - 1
    <3>1. a \notin p .. p + n - 1
      BY <1>2, <2>3
    <3> QED BY <1>8, <1>9, <1>11, <2>3, <3>1
  <2> QED BY <2>1, <2>2, <2>3
<1>13. Within(p + 1, n - 1, b) /\ Within(q + 1, n - 1, c)
  <2>1. b.at \in Nat /\ b.size \in Nat /\ c.at \in Nat /\ c.size \in Nat
    BY WithinOwn
  <2> QED BY <1>1, <1>2, <2>1 DEF Within
<1>14. Copying(t, n - 1)'
  BY <1>1, <1>8, <1>9, <1>12, <1>13 DEF Copying, Within
<1> QED BY <1>7, <1>8, <1>10, <1>14

LEMMA MemcpyOnCourse ==
  ASSUME CallsInv, ~raced, NEW t \in Threads, Memcpy(t),
         UNCHANGED <<heap_end, blocks, asked, raced>>
  PROVE  OnlyOf(t) /\ OnCourse(t)'
<1>0. PICK n : n = cpu[t].rdx
  OBVIOUS
<1>1. cpu[t].op = "memcpy" /\ Copying(t, n)
  BY <1>0 DEF Memcpy, CallsInv, OnCourse
<1>2. n \in Nat /\ cpu[t].want = 0
  BY <1>1 DEF Copying, Within
<1>3. CASE n = 0
  <2>1. \A a \in Own(t) : a \notin cpu[t].rdi .. cpu[t].rdi + n - 1
    <3>1. cpu[t].rdi \in Nat
      BY <1>1 DEF Copying, Within
    <3> QED BY <1>3, <3>1
  <2>2. AsAsked(t)
    BY <1>1, <2>1 DEF AsAsked, Copying
  <2>3. Ends(t, cpu[t].want)
    BY <1>0, <1>2, <1>3 DEF Memcpy, More
  <2> QED BY <2>2, <2>3, EndOnCourse
<1>4. CASE n # 0
  <2>1. Moves(t, Byte(cpu[t].rsi), 1, FALSE)
    BY <1>0, <1>4 DEF Memcpy, More
  <2>2. n \in Nat \ {0} /\ cpu[t].op # "sbrk" /\ FALSE \in BOOLEAN
    BY <1>1, <1>2, <1>4
  <2>3. /\ OnlyOf(t)
        /\ cpu'[t].op = (IF FALSE THEN "done" ELSE cpu[t].op)
        /\ cpu'[t].rdx = (IF cpu[t].rdx = 0 THEN 0 ELSE cpu[t].rdx - 1)
        /\ Copying(t, n - 1)'
    BY <1>1, <2>1, <2>2, CopyOneByte
  <2>4. cpu'[t].op = "memcpy" /\ cpu'[t].rdx = n - 1
    BY <1>0, <1>1, <1>4, <2>3
  <2>5. (Copying(t, cpu[t].rdx))'
    BY <2>3, <2>4 DEF Copying
  <2> QED BY <2>3, <2>4, <2>5 DEF OnCourse
<1> QED BY <1>3, <1>4

LEMMA StrcpyOnCourse ==
  ASSUME CallsInv, ~raced, NEW t \in Threads, Strcpy(t),
         UNCHANGED <<heap_end, blocks, asked, raced>>
  PROVE  OnlyOf(t) /\ OnCourse(t)'
<1> DEFINE q == cpu[t].rsi
           last == Byte(q) = 0
<1>1. cpu[t].op = "strcpy" /\ CopyingString(t)
  BY DEF Strcpy, CallsInv, OnCourse
<1>2. PICK n \in Nat : /\ Copying(t, n + 1)
                       /\ mem[q + n] = 0 /\ \A i \in 0 .. n - 1 : mem[q + i] # 0
  BY <1>1 DEF CopyingString
<1>3. Moves(t, Byte(q), 1, last)
  BY DEF Strcpy
<1>4. n + 1 \in Nat \ {0} /\ cpu[t].op # "sbrk" /\ last \in BOOLEAN /\ (n + 1) - 1 = n
  BY <1>1
<1>5. q \in Nat
  BY <1>2 DEF Copying, Within
<1>6. /\ OnlyOf(t) /\ asked' = asked
      /\ cpu'[t].op = (IF last THEN "done" ELSE cpu[t].op)
      /\ cpu'[t].rsi = q + 1
      /\ cpu'[t].rax = 0 /\ cpu'[t].want = 0
      /\ Byte(q) = mem[q]
      /\ \A i \in 0 .. (n + 1) - 1 : mem'[q + i] = mem[q + i]
      /\ Copying(t, (n + 1) - 1)'
  <2> HIDE DEF last
  <2> QED BY <1>2, <1>3, <1>4, CopyOneByte
<1>7. Copying(t, n)'
  BY <1>4, <1>6
<1>8. last <=> n = 0
  <2>1. n = 0 => q + n = q
    BY <1>5
  <2>2. n # 0 => 0 \in 0 .. n - 1 /\ q + 0 = q
    BY <1>5
  <2> QED BY <1>2, <1>6, <2>1, <2>2
<1> HIDE DEF last
<1>9. CASE n = 0
  <2>1. cpu'[t].op = "done"
    BY <1>6, <1>8, <1>9
  <2>2. AsAsked(t)'
    <3>1. \A a \in Own(t)' : asked'[a] = IF a \in cpu'[t].rdi .. cpu'[t].rdi + n - 1
                                         THEN mem'[cpu'[t].rsi + (a - cpu'[t].rdi)] ELSE mem'[a]
      BY <1>7 DEF Copying
    <3>2. cpu'[t].rdi \in Nat
      BY <1>7 DEF Copying, Within
    <3>3. \A a : a \notin cpu'[t].rdi .. cpu'[t].rdi + n - 1
      BY <1>9, <3>2
    <3> QED BY <3>1, <3>3 DEF AsAsked
  <2> QED BY <1>6, <2>1, <2>2 DEF OnCourse
<1>10. CASE n # 0
  <2>1. cpu'[t].op = "strcpy"
    BY <1>1, <1>6, <1>8, <1>10
  <2>2. n - 1 \in Nat /\ (n - 1) + 1 = n
    BY <1>10
  <2>3. /\ mem'[q + 1 + (n - 1)] = 0
        /\ \A i \in 0 .. (n - 1) - 1 : mem'[q + 1 + i] # 0
    <3>1. q + 1 + (n - 1) = q + n /\ n \in 0 .. (n + 1) - 1
      BY <1>5
    <3>2. \A i \in 0 .. (n - 1) - 1 :
            /\ q + 1 + i = q + (i + 1)
            /\ i + 1 \in 0 .. (n + 1) - 1 /\ i + 1 \in 0 .. n - 1
      BY <1>5
    <3> QED BY <1>2, <1>6, <3>1, <3>2
  <2>4. CopyingString(t)'
    BY <1>6, <1>7, <2>2, <2>3 DEF CopyingString
  <2> QED BY <1>6, <2>1, <2>4 DEF OnCourse
<1> QED BY <1>9, <1>10

LEMMA StrlenOnCourse ==
  ASSUME CallsInv, ~raced, NEW t \in Threads, Strlen(t),
         UNCHANGED <<heap_end, blocks, asked, raced>>
  PROVE  OnlyOf(t) /\ OnCourse(t)'
<1> DEFINE p == cpu[t].rdi
           want == cpu[t].want
           rax == cpu[t].rax
<1>1. cpu[t].op = "strlen" /\ Measuring(t) /\ AsAsked(t)
  BY DEF Strlen, CallsInv, OnCourse
<1>2. PICK b \in blocks[t] : Within(p, want + 1, b)
  BY <1>1 DEF Measuring
<1>3. /\ p \in Nat /\ want \in Nat /\ rax \in Nat /\ rax <= want
      /\ mem[p + want] = 0 /\ \A i \in 0 .. want - 1 : mem[p + i] # 0
  BY <1>1, <1>2 DEF Measuring, Within
<1>4. Byte(p + rax) = mem[p + rax]
  <2>1. rax \in 0 .. (want + 1) - 1
    BY <1>3
  <2>2. p + rax \in Cells
    BY <1>2, <2>1, WithinOwn
  <2> QED BY <2>2 DEF Byte
<1>5. CASE Byte(p + rax) = 0
  <2>1. rax = want
    BY <1>3, <1>4, <1>5
  <2>2. Ends(t, want)
    BY <1>5, <2>1 DEF Strlen
  <2> QED BY <1>1, <2>2, EndOnCourse
<1>6. CASE Byte(p + rax) # 0
  <2>1. cpu' = [cpu EXCEPT ![t].rax = @ + 1] /\ mem' = mem
    BY <1>6 DEF Strlen
  <2>2. DOMAIN cpu = Threads /\ DOMAIN cpu[t] = Fields
    BY DEF CallsInv, HeapInv, HeapTyped
  <2>3. /\ cpu'[t].op = "strlen" /\ cpu'[t].rax = rax + 1
        /\ cpu'[t].rdi = p /\ cpu'[t].want = want
        /\ \A u \in Threads \ {t} : cpu'[u] = cpu[u]
    BY <1>1, <2>1, <2>2 DEF Fields
  <2>4. rax + 1 <= want
    BY <1>3, <1>4, <1>6
  <2>5. OnlyOf(t)
    BY <2>1, <2>3 DEF OnlyOf, CallsInv
  <2>6. Measuring(t)' /\ AsAsked(t)'
    BY <1>1, <1>2, <1>3, <2>1, <2>3, <2>4, OwnStays DEF Measuring, AsAsked, Within
  <2> QED BY <2>3, <2>5, <2>6 DEF OnCourse
<1> QED BY <1>5, <1>6

\* memcmp and strcmp go on to the next byte.
LEMMA CompareGoesOn ==
  ASSUME CallsInv, NEW t \in Threads, AsAsked(t), cpu[t].op # "sbrk",
         cpu' = [cpu EXCEPT ![t].rdi = @ + 1, ![t].rsi = @ + 1,
                            ![t].rdx = IF @ = 0 THEN 0 ELSE @ - 1],
         mem' = mem, UNCHANGED <<heap_end, blocks, asked, raced>>
  PROVE  /\ OnlyOf(t) /\ AsAsked(t)'
         /\ cpu'[t].op = cpu[t].op /\ cpu'[t].want = cpu[t].want
         /\ cpu'[t].rdi = cpu[t].rdi + 1 /\ cpu'[t].rsi = cpu[t].rsi + 1
         /\ cpu'[t].rdx = IF cpu[t].rdx = 0 THEN 0 ELSE cpu[t].rdx - 1
<1>1. DOMAIN cpu = Threads /\ DOMAIN cpu[t] = Fields
  BY DEF CallsInv, HeapInv, HeapTyped
<1>2. /\ cpu'[t].op = cpu[t].op /\ cpu'[t].want = cpu[t].want
      /\ cpu'[t].rdi = cpu[t].rdi + 1 /\ cpu'[t].rsi = cpu[t].rsi + 1
      /\ cpu'[t].rdx = (IF cpu[t].rdx = 0 THEN 0 ELSE cpu[t].rdx - 1)
      /\ \A u \in Threads \ {t} : cpu'[u] = cpu[u]
  BY <1>1 DEF Fields
<1>3. OnlyOf(t)
  BY <1>2 DEF OnlyOf, CallsInv
<1>4. AsAsked(t)'
  BY OwnStays DEF AsAsked
<1> QED BY <1>2, <1>3, <1>4

\* The bytes under comparison are in memory.
LEMMA ComparedBytes ==
  ASSUME CallsInv, ~raced, NEW t \in Threads, NEW n \in Nat \ {0},
         \E b, c \in blocks[t] : Within(cpu[t].rdi, n, b) /\ Within(cpu[t].rsi, n, c)
  PROVE  /\ cpu[t].rdi \in Nat /\ cpu[t].rsi \in Nat
         /\ Byte(cpu[t].rdi) = mem[cpu[t].rdi] /\ Byte(cpu[t].rsi) = mem[cpu[t].rsi]
         /\ \E b, c \in blocks[t] :
              Within(cpu[t].rdi + 1, n - 1, b) /\ Within(cpu[t].rsi + 1, n - 1, c)
<1> DEFINE p == cpu[t].rdi
           q == cpu[t].rsi
<1>1. PICK b \in blocks[t], c \in blocks[t] : Within(p, n, b) /\ Within(q, n, c)
  OBVIOUS
<1>2. p \in Nat /\ q \in Nat
  BY <1>1 DEF Within
<1>3. 0 \in 0 .. n - 1 /\ p + 0 = p /\ q + 0 = q
  BY <1>2
<1>4. p \in Cells /\ q \in Cells
  BY <1>1, <1>3, WithinOwn
<1>5. b.at \in Nat /\ b.size \in Nat /\ c.at \in Nat /\ c.size \in Nat
  BY WithinOwn
<1>6. Within(p + 1, n - 1, b) /\ Within(q + 1, n - 1, c)
  BY <1>1, <1>2, <1>5 DEF Within
<1> QED BY <1>2, <1>4, <1>6 DEF Byte

\* Where the first bytes are equal the rest decides.
LEMMA AgreeGoesOn ==
  ASSUME NEW p \in Nat, NEW q \in Nat, NEW n \in Nat \ {0}, Agree(p, q, n)
  PROVE  /\ mem[p] = mem[q] /\ Agree(p + 1, q + 1, n - 1)
<1>1. 0 \in 0 .. n - 1 /\ p + 0 = p /\ q + 0 = q
  OBVIOUS
<1>2. \A i \in 0 .. (n - 1) - 1 : i + 1 \in 0 .. n - 1 /\ p + (i + 1) = p + 1 + i /\ q + (i + 1) = q + 1 + i
  OBVIOUS
<1> QED BY <1>1, <1>2 DEF Agree

LEMMA MemcmpOnCourse ==
  ASSUME CallsInv, ~raced, NEW t \in Threads, Memcmp(t),
         UNCHANGED <<heap_end, blocks, asked, raced>>
  PROVE  OnlyOf(t) /\ OnCourse(t)'
<1> DEFINE p == cpu[t].rdi
           q == cpu[t].rsi
           n == cpu[t].rdx
           want == cpu[t].want
           al == Byte(p)
           bl == Byte(q)
<1>1. cpu[t].op = "memcmp" /\ Comparing(t) /\ AsAsked(t)
  BY DEF Memcmp, CallsInv, OnCourse
<1>2. PICK b \in blocks[t], c \in blocks[t] : Within(p, n, b) /\ Within(q, n, c)
  BY <1>1 DEF Comparing
<1>3. p \in Nat /\ q \in Nat /\ n \in Nat
  BY <1>2 DEF Within
<1>4. \/ Agree(p, q, n) /\ want = 0
      \/ \E i \in 0 .. n - 1 : /\ Agree(p, q, i) /\ mem[p + i] # mem[q + i]
                               /\ want = mem[p + i] - mem[q + i]
  BY <1>1 DEF Comparing
<1>5. CASE n = 0
  <2>1. Ends(t, want)
    BY <1>3, <1>4, <1>5 DEF Memcmp
  <2> QED BY <1>1, <2>1, EndOnCourse
<1>6. CASE n # 0
  <2>1. n \in Nat \ {0} /\ Compare(t, FALSE)
    BY <1>3, <1>6 DEF Memcmp
  <2>2. /\ al = mem[p] /\ bl = mem[q]
        /\ \E d, e \in blocks[t] : Within(p + 1, n - 1, d) /\ Within(q + 1, n - 1, e)
    BY <1>2, <2>1, ComparedBytes
  <2>3. CASE al # bl
    <3>1. Ends(t, al - bl)
      BY <2>1, <2>3 DEF Compare
    <3>2. ~ Agree(p, q, n)
      BY <1>3, <2>1, <2>2, <2>3, AgreeGoesOn
    <3>3. PICK i \in 0 .. n - 1 : /\ Agree(p, q, i) /\ mem[p + i] # mem[q + i]
                                  /\ want = mem[p + i] - mem[q + i]
      BY <1>4, <3>2
    <3>4. i = 0
      <4> SUFFICES ASSUME i # 0 PROVE FALSE
        OBVIOUS
      <4>1. i \in Nat \ {0}
        BY <1>3, <3>3
      <4> QED BY <1>3, <2>2, <2>3, <3>3, <4>1, AgreeGoesOn
    <3>5. p + i = p /\ q + i = q
      BY <1>3, <3>4
    <3>6. want = al - bl
      BY <2>2, <3>3, <3>5
    <3>7. Ends(t, want)
      BY <3>1, <3>6
    <3> QED BY <1>1, <3>7, EndOnCourse
  <2>4. CASE al = bl
    <3>1. /\ cpu' = [cpu EXCEPT ![t].rdi = @ + 1, ![t].rsi = @ + 1,
                                ![t].rdx = IF @ = 0 THEN 0 ELSE @ - 1]
          /\ mem' = mem
      BY <2>1, <2>4 DEF Compare
    <3>2. /\ OnlyOf(t) /\ AsAsked(t)'
          /\ cpu'[t].op = "memcmp" /\ cpu'[t].want = want
          /\ cpu'[t].rdi = p + 1 /\ cpu'[t].rsi = q + 1 /\ cpu'[t].rdx = n - 1
      BY <1>1, <1>6, <3>1, CompareGoesOn
    <3>3. \/ Agree(p + 1, q + 1, n - 1) /\ want = 0
          \/ \E i \in 0 .. (n - 1) - 1 :
               /\ Agree(p + 1, q + 1, i) /\ mem[p + 1 + i] # mem[q + 1 + i]
               /\ want = mem[p + 1 + i] - mem[q + 1 + i]
      <4>1. CASE Agree(p, q, n) /\ want = 0
        BY <1>3, <2>1, <4>1, AgreeGoesOn
      <4>2. ASSUME NEW i \in 0 .. n - 1, Agree(p, q, i), mem[p + i] # mem[q + i],
                   want = mem[p + i] - mem[q + i]
            PROVE  \E k \in 0 .. (n - 1) - 1 :
                     /\ Agree(p + 1, q + 1, k) /\ mem[p + 1 + k] # mem[q + 1 + k]
                     /\ want = mem[p + 1 + k] - mem[q + 1 + k]
        <5>1. i # 0
          <6> SUFFICES ASSUME i = 0 PROVE FALSE
            OBVIOUS
          <6>1. p + i = p /\ q + i = q
            BY <1>3
          <6> QED BY <2>2, <2>4, <4>2, <6>1
        <5>2. i \in Nat \ {0}
          BY <1>3, <5>1
        <5>3. Agree(p + 1, q + 1, i - 1)
          BY <1>3, <4>2, <5>2, AgreeGoesOn
        <5>4. i - 1 \in 0 .. (n - 1) - 1 /\ p + 1 + (i - 1) = p + i /\ q + 1 + (i - 1) = q + i
          BY <1>3, <5>2
        <5> QED BY <4>2, <5>3, <5>4
      <4> QED BY <1>4, <4>1, <4>2
    <3>4. Comparing(t)'
      <4>1. \A x, y, k : Agree(x, y, k)' <=> Agree(x, y, k)
        BY <3>1 DEF Agree
      <4>2. blocks' = blocks
        OBVIOUS
      <4> QED BY <2>2, <3>1, <3>2, <3>3, <4>1, <4>2 DEF Comparing, Within
    <3> QED BY <3>2, <3>4 DEF OnCourse
  <2> QED BY <2>3, <2>4
<1> QED BY <1>5, <1>6

LEMMA StrcmpOnCourse ==
  ASSUME CallsInv, ~raced, NEW t \in Threads, Strcmp(t),
         UNCHANGED <<heap_end, blocks, asked, raced>>
  PROVE  OnlyOf(t) /\ OnCourse(t)'
<1> DEFINE p == cpu[t].rdi
           q == cpu[t].rsi
           want == cpu[t].want
           al == Byte(p)
           bl == Byte(q)
<1>1. cpu[t].op = "strcmp" /\ ComparingStrings(t) /\ AsAsked(t)
  BY DEF Strcmp, CallsInv, OnCourse
<1>2. PICK n \in Nat :
        /\ \E b, c \in blocks[t] : Within(p, n + 1, b) /\ Within(q, n + 1, c)
        /\ Agree(p, q, n) /\ \A i \in 0 .. n - 1 : mem[p + i] # 0
        /\ \/ mem[p + n] = mem[q + n] /\ mem[p + n] = 0 /\ want = 0
           \/ mem[p + n] # mem[q + n] /\ want = mem[p + n] - mem[q + n]
  BY <1>1 DEF ComparingStrings
<1>3. n + 1 \in Nat \ {0} /\ (n + 1) - 1 = n /\ Compare(t, al = 0)
  BY DEF Strcmp
<1>4. /\ p \in Nat /\ q \in Nat /\ al = mem[p] /\ bl = mem[q]
      /\ \E d, e \in blocks[t] : Within(p + 1, n, d) /\ Within(q + 1, n, e)
  BY <1>2, <1>3, ComparedBytes
<1>5. n = 0 => p + n = p /\ q + n = q
  BY <1>4
<1>6. n # 0 => n \in Nat \ {0} /\ al = bl /\ al # 0 /\ Agree(p + 1, q + 1, n - 1)
  <2> SUFFICES ASSUME n # 0
               PROVE  n \in Nat \ {0} /\ al = bl /\ al # 0 /\ Agree(p + 1, q + 1, n - 1)
    OBVIOUS
  <2>1. n \in Nat \ {0}
    OBVIOUS
  <2>2. mem[p] = mem[q] /\ Agree(p + 1, q + 1, n - 1)
    BY <1>2, <1>4, <2>1, AgreeGoesOn
  <2>3. 0 \in 0 .. n - 1 /\ p + 0 = p
    BY <1>4, <2>1
  <2>4. mem[p] # 0
    BY <1>2, <2>3
  <2> QED BY <1>4, <2>1, <2>2, <2>4
<1>7. CASE al # bl
  <2>1. Ends(t, al - bl)
    BY <1>3, <1>7 DEF Compare
  <2>2. want = al - bl
    BY <1>2, <1>4, <1>5, <1>6, <1>7
  <2>3. Ends(t, want)
    BY <2>1, <2>2
  <2> QED BY <1>1, <2>3, EndOnCourse
<1>8. CASE al = bl /\ al = 0
  <2>1. Ends(t, 0)
    BY <1>3, <1>8 DEF Compare
  <2>2. want = 0
    BY <1>2, <1>4, <1>5, <1>6, <1>8
  <2>3. Ends(t, want)
    BY <2>1, <2>2
  <2> QED BY <1>1, <2>3, EndOnCourse
<1>9. CASE al = bl /\ al # 0
  <2>1. /\ cpu' = [cpu EXCEPT ![t].rdi = @ + 1, ![t].rsi = @ + 1,
                              ![t].rdx = IF @ = 0 THEN 0 ELSE @ - 1]
        /\ mem' = mem
    BY <1>3, <1>9 DEF Compare
  <2>2. /\ OnlyOf(t) /\ AsAsked(t)'
        /\ cpu'[t].op = "strcmp" /\ cpu'[t].want = want
        /\ cpu'[t].rdi = p + 1 /\ cpu'[t].rsi = q + 1
    BY <1>1, <2>1, CompareGoesOn
  <2>3. n # 0
    BY <1>2, <1>4, <1>5, <1>9
  <2>4. /\ n - 1 \in Nat /\ (n - 1) + 1 = n
        /\ p + 1 + (n - 1) = p + n /\ q + 1 + (n - 1) = q + n
        /\ \A i \in 0 .. (n - 1) - 1 : i + 1 \in 0 .. n - 1 /\ p + 1 + i = p + (i + 1)
    BY <1>4, <2>3
  <2>5. \A i \in 0 .. (n - 1) - 1 : mem[p + 1 + i] # 0
    BY <1>2, <2>4
  <2>6. ComparingStrings(t)'
    <3>1. \A x, y, k : Agree(x, y, k)' <=> Agree(x, y, k)
      BY <2>1 DEF Agree
    <3>2. \E d, e \in blocks[t] : Within(p + 1, (n - 1) + 1, d) /\ Within(q + 1, (n - 1) + 1, e)
      BY <1>4, <2>4
    <3>3. /\ Agree(p + 1, q + 1, n - 1)
          /\ \/ /\ mem[p + 1 + (n - 1)] = mem[q + 1 + (n - 1)]
                /\ mem[p + 1 + (n - 1)] = 0 /\ want = 0
             \/ /\ mem[p + 1 + (n - 1)] # mem[q + 1 + (n - 1)]
                /\ want = mem[p + 1 + (n - 1)] - mem[q + 1 + (n - 1)]
      BY <1>2, <1>6, <2>3, <2>4
    <3>4. blocks' = blocks /\ n - 1 \in Nat
      BY <2>4
    <3> QED BY <2>1, <2>2, <2>5, <3>1, <3>2, <3>3, <3>4 DEF ComparingStrings, Within
  <2> QED BY <2>2, <2>6 DEF OnCourse
<1> QED BY <1>7, <1>8, <1>9

LEMMA ReturnOnCourse ==
  ASSUME CallsInv, ~raced, NEW t \in Threads, Return(t),
         UNCHANGED <<heap_end, blocks, asked, raced>>
  PROVE  OnlyOf(t) /\ OnCourse(t)'
<1>1. DOMAIN cpu = Threads
  BY DEF CallsInv, HeapInv, HeapTyped
<1>2. cpu'[t] = Ready /\ \A u \in Threads \ {t} : cpu'[u] = cpu[u]
  BY <1>1 DEF Return
<1>3. cpu'[t].op = "none" /\ mem' = mem
  BY <1>2 DEF Ready, Return
<1>4. OnlyOf(t)
  BY <1>2, <1>3 DEF OnlyOf, CallsInv
<1>5. AsAsked(t)
  BY DEF Return, CallsInv, OnCourse
<1>6. AsAsked(t)'
  BY <1>3, <1>5, OwnStays DEF AsAsked
<1> QED BY <1>3, <1>4, <1>6 DEF OnCourse

LEMMA RoutineOnCourse ==
  ASSUME CallsInv, ~raced, NEW t \in Threads, RoutineStep(t)
  PROVE  OnlyOf(t) /\ OnCourse(t)'
<1>0. UNCHANGED <<heap_end, blocks, asked, raced>>
  BY DEF RoutineStep
<1> QED BY <1>0, MemsetOnCourse, MemcpyOnCourse, StrcpyOnCourse, StrlenOnCourse,
           MemcmpOnCourse, StrcmpOnCourse, ReturnOnCourse DEF RoutineStep

-----------------------------------------------------------------------------
(* The calls put their thread on course.                                   *)

LEMMA LengthIs ==
  ASSUME NEW b, b.at \in Nat, b.size \in Nat, IsString(mem, b)
  PROVE  /\ Length(mem, b) \in Nat /\ Length(mem, b) < b.size
         /\ mem[b.at + Length(mem, b)] = 0
         /\ \A i \in 0 .. Length(mem, b) - 1 : mem[b.at + i] # 0
<1> DEFINE T == {n \in Nat : n < b.size /\ mem[b.at + n] = 0}
           is(n) == mem[b.at + n] = 0 /\ \A i \in 0 .. n - 1 : mem[b.at + i] # 0
<1>1. T # {}
  <2>1. PICK a \in CellsOf(b) : mem[a] = 0
    BY DEF IsString
  <2>2. a - b.at \in Nat /\ a - b.at < b.size /\ b.at + (a - b.at) = a
    BY <2>1 DEF CellsOf
  <2>3. a - b.at \in T
    BY <2>1, <2>2
  <2> QED BY <2>3
<1>2. PICK m \in T : \A k \in T : m <= k
  <2>1. T \in SUBSET Nat
    OBVIOUS
  <2> HIDE DEF T
  <2> QED BY <1>1, <2>1, LeastNat
<1>3. m \in 0 .. b.size /\ is(m)
  <2>1. ASSUME NEW i \in 0 .. m - 1, mem[b.at + i] = 0 PROVE FALSE
    <3>1. i \in T /\ ~ (m <= i)
      BY <1>2, <2>1
    <3> QED BY <1>2, <3>1
  <2> QED BY <1>2, <2>1
<1>4. ASSUME NEW k \in 0 .. b.size, is(k) PROVE k = m
  <2>1. ~ (m < k)
    <3> SUFFICES ASSUME m < k PROVE FALSE
      OBVIOUS
    <3>1. m \in 0 .. k - 1
      BY <1>2
    <3> QED BY <1>3, <1>4, <3>1
  <2>2. ~ (k < m)
    <3> SUFFICES ASSUME k < m PROVE FALSE
      OBVIOUS
    <3>1. k \in 0 .. m - 1
      BY <1>2
    <3> QED BY <1>3, <1>4, <3>1
  <2> QED BY <1>2, <2>1, <2>2
<1>5. Length(mem, b) = CHOOSE n \in 0 .. b.size : is(n)
  BY DEF Length
<1>6. Length(mem, b) = m
  <2> HIDE DEF is
  <2> QED BY <1>3, <1>4, <1>5
<1> QED BY <1>2, <1>3, <1>6

LEMMA DifferenceIs ==
  ASSUME NEW b, NEW c, NEW n \in Nat
  PROVE  \/ Agree(b.at, c.at, n) /\ Difference(mem, b, c, n) = 0
         \/ \E i \in 0 .. n - 1 :
              /\ Agree(b.at, c.at, i) /\ mem[b.at + i] # mem[c.at + i]
              /\ Difference(mem, b, c, n) = mem[b.at + i] - mem[c.at + i]
<1> DEFINE differ == {i \in 0 .. n - 1 : mem[b.at + i] # mem[c.at + i]}
           first == CHOOSE i \in differ : \A j \in differ : i <= j
<1>1. Difference(mem, b, c, n) = IF differ = {} THEN 0 ELSE mem[b.at + first] - mem[c.at + first]
  BY DEF Difference
<1>2. CASE differ = {}
  BY <1>1, <1>2 DEF Agree
<1>3. CASE differ # {}
  <2>1. \E i \in differ : \A j \in differ : i <= j
    <3>1. differ \in SUBSET Nat
      OBVIOUS
    <3> HIDE DEF differ
    <3> QED BY <1>3, <3>1, LeastNat
  <2>2. first \in differ /\ \A j \in differ : first <= j
    <3> HIDE DEF differ
    <3> QED BY <2>1
  <2> HIDE DEF first
  <2>3. first \in 0 .. n - 1 /\ mem[b.at + first] # mem[c.at + first]
    BY <2>2
  <2>4. \A k \in 0 .. first - 1 : k \in 0 .. n - 1 /\ ~ (first <= k)
    BY <2>3
  <2>5. Agree(b.at, c.at, first)
    BY <2>2, <2>4 DEF Agree
  <2> QED BY <1>1, <1>3, <2>3, <2>5
<1> QED BY <1>2, <1>3

LEMMA EnterEffect ==
  ASSUME CallsInv, ~raced, NEW t \in Threads,
         NEW op, NEW rdi, NEW rsi, NEW rdx, NEW want, op # "sbrk",
         Enter(t, op, rdi, rsi, rdx, want),
         DOMAIN asked' = Cells, \A a \in Cells \ Own(t) : asked'[a] = asked[a]
  PROVE  /\ OnlyOf(t) /\ mem' = mem /\ AsAsked(t) /\ Own(t)' = Own(t) /\ Own(t) \subseteq Cells
         /\ cpu'[t].op = op /\ cpu'[t].rdi = rdi /\ cpu'[t].rsi = rsi /\ cpu'[t].rdx = rdx
         /\ cpu'[t].rax = 0 /\ cpu'[t].want = want
<1> DEFINE r == [op |-> op, rdi |-> rdi, rsi |-> rsi, rdx |-> rdx, rax |-> 0, want |-> want]
<1>1. DOMAIN cpu = Threads
  BY DEF CallsInv, HeapInv, HeapTyped
<1>2. cpu[t].op = "none" /\ cpu' = [cpu EXCEPT ![t] = r]
      /\ UNCHANGED <<heap_end, mem, blocks, raced>>
  BY DEF Enter
<1>3. r.op = op /\ r.rdi = rdi /\ r.rsi = rsi /\ r.rdx = rdx /\ r.rax = 0 /\ r.want = want
  OBVIOUS
<1> HIDE DEF r
<1>4. cpu'[t] = r /\ \A u \in Threads \ {t} : cpu'[u] = cpu[u]
  BY <1>1, <1>2
<1>5. OnlyOf(t)
  BY <1>2, <1>3, <1>4 DEF OnlyOf, CallsInv
<1>6. AsAsked(t)
  BY <1>2 DEF CallsInv, OnCourse
<1>7. Own(t)' = Own(t)
  BY <1>2, OwnStays
<1> QED BY <1>2, <1>3, <1>4, <1>5, <1>6, <1>7 DEF Own

LEMMA CallMemsetOnCourse ==
  ASSUME CallsInv, ~raced, NEW t \in Threads, NEW b \in blocks[t], NEW byte \in Bytes,
         NEW n \in 0 .. b.size, CallMemset(t, b, byte, n)
  PROVE  OnlyOf(t) /\ OnCourse(t)'
<1>1. b.at \in Nat /\ b.size \in Nat /\ \A a \in CellsOf(b) : a \in Own(t)
  BY WithinOwn
<1>2. n \in Nat /\ byte \in Nat /\ Within(b.at, n, b)
  BY <1>1, AsmAssumption DEF Within
<1>3. /\ DOMAIN asked' = Cells
      /\ \A a \in Cells : asked'[a] = IF a \in b.at .. b.at + n - 1 THEN byte ELSE asked[a]
  BY DEF CallMemset
<1>4. \A a \in b.at .. b.at + n - 1 : a \in Own(t)
  BY <1>1, <1>2 DEF CellsOf
<1>5. Enter(t, "memset", b.at, byte, n, 0)
  BY DEF CallMemset
<1>6. /\ OnlyOf(t) /\ mem' = mem /\ AsAsked(t) /\ Own(t)' = Own(t) /\ Own(t) \subseteq Cells
      /\ cpu'[t].op = "memset" /\ cpu'[t].rdi = b.at /\ cpu'[t].rsi = byte /\ cpu'[t].rdx = n
      /\ cpu'[t].rax = 0 /\ cpu'[t].want = 0
  BY <1>3, <1>4, <1>5, EnterEffect
<1>7. \A a \in Own(t) : asked'[a] = IF a \in b.at .. b.at + n - 1 THEN byte ELSE mem'[a]
  BY <1>3, <1>6 DEF AsAsked
<1>8. Setting(t)'
  BY <1>2, <1>6, <1>7 DEF Setting, Within, OnlyOf
<1> QED BY <1>6, <1>8 DEF OnCourse

\* Copying n bytes between two blocks of the thread.
LEMMA CallCopies ==
  ASSUME CallsInv, ~raced, NEW t \in Threads, NEW b \in blocks[t], NEW c \in blocks[t], b # c,
         NEW n \in Nat, n <= b.size, n <= c.size, NEW op \in {"memcpy", "strcpy"}, NEW rdx,
         Enter(t, op, b.at, c.at, rdx, 0), asked' = Copied(asked, b, c, n)
  PROVE  /\ OnlyOf(t) /\ Copying(t, n)' /\ mem' = mem
         /\ cpu'[t].op = op /\ cpu'[t].rsi = c.at /\ cpu'[t].rdx = rdx
<1>1. /\ b.at \in Nat /\ b.size \in Nat /\ c.at \in Nat /\ c.size \in Nat
      /\ \A a \in CellsOf(b) : a \in Own(t)
      /\ \A a \in CellsOf(c) : a \in Own(t)
  BY WithinOwn
<1>2. Within(b.at, n, b) /\ Within(c.at, n, c)
  BY <1>1 DEF Within
<1>3. /\ DOMAIN asked' = Cells
      /\ \A a \in Cells : asked'[a] = IF a \in b.at .. b.at + n - 1
                                      THEN asked[c.at + (a - b.at)] ELSE asked[a]
  BY DEF Copied
<1>4. \A a \in b.at .. b.at + n - 1 : a \in Own(t) /\ c.at + (a - b.at) \in Own(t)
  BY <1>1 DEF CellsOf
<1>5. /\ OnlyOf(t) /\ mem' = mem /\ AsAsked(t) /\ Own(t)' = Own(t) /\ Own(t) \subseteq Cells
      /\ cpu'[t].op = op /\ cpu'[t].rdi = b.at /\ cpu'[t].rsi = c.at /\ cpu'[t].rdx = rdx
      /\ cpu'[t].rax = 0 /\ cpu'[t].want = 0
  BY <1>3, <1>4, EnterEffect
<1>6. \A a \in Own(t) : asked'[a] = IF a \in b.at .. b.at + n - 1
                                    THEN mem'[c.at + (a - b.at)] ELSE mem'[a]
  BY <1>3, <1>4, <1>5 DEF AsAsked
<1>7. Copying(t, n)'
  BY <1>2, <1>5, <1>6 DEF Copying, Within, OnlyOf
<1> QED BY <1>5, <1>7

LEMMA CallMemcpyOnCourse ==
  ASSUME CallsInv, ~raced, NEW t \in Threads, NEW b \in blocks[t], NEW c \in blocks[t], b # c,
         NEW n \in 0 .. b.size, n <= c.size, CallMemcpy(t, b, c, n)
  PROVE  OnlyOf(t) /\ OnCourse(t)'
<1>1. b.size \in Nat /\ c.size \in Nat
  BY WithinOwn
<1>2. n \in Nat /\ n <= b.size /\ Enter(t, "memcpy", b.at, c.at, n, 0)
      /\ asked' = Copied(asked, b, c, n)
  BY <1>1 DEF CallMemcpy
<1>3. OnlyOf(t) /\ Copying(t, n)' /\ cpu'[t].op = "memcpy" /\ cpu'[t].rdx = n
  <2>1. PICK op \in {"memcpy", "strcpy"} : op = "memcpy"
    OBVIOUS
  <2>2. Enter(t, op, b.at, c.at, n, 0)
    BY <1>2, <2>1
  <2>3. /\ OnlyOf(t) /\ Copying(t, n)' /\ cpu'[t].op = op /\ cpu'[t].rdx = n
    BY <1>2, <2>2, CallCopies, ZenonT(60)
  <2> QED BY <2>1, <2>3
<1>4. (Copying(t, cpu[t].rdx))'
  BY <1>3 DEF Copying
<1> QED BY <1>3, <1>4 DEF OnCourse

LEMMA CallStrcpyOnCourse ==
  ASSUME CallsInv, ~raced, NEW t \in Threads, NEW b \in blocks[t], NEW c \in blocks[t], b # c,
         CallStrcpy(t, b, c)
  PROVE  OnlyOf(t) /\ OnCourse(t)'
<1>1. b.size \in Nat /\ c.size \in Nat /\ c.at \in Nat
  BY WithinOwn
<1>2. PICK n : n = Length(mem, c)
  OBVIOUS
<1>3. n \in Nat /\ n < c.size /\ mem[c.at + n] = 0 /\ \A i \in 0 .. n - 1 : mem[c.at + i] # 0
  BY <1>1, <1>2, LengthIs DEF CallStrcpy
<1>4. /\ n + 1 \in Nat /\ n + 1 <= b.size /\ n + 1 <= c.size
      /\ Enter(t, "strcpy", b.at, c.at, 0, 0) /\ asked' = Copied(asked, b, c, n + 1)
  BY <1>1, <1>2, <1>3 DEF CallStrcpy
<1>5. OnlyOf(t) /\ Copying(t, n + 1)' /\ mem' = mem /\ cpu'[t].op = "strcpy" /\ cpu'[t].rsi = c.at
  <2>1. PICK m \in Nat : m = n + 1
    BY <1>4
  <2>2. PICK op \in {"memcpy", "strcpy"} : op = "strcpy"
    OBVIOUS
  <2>3. /\ m <= b.size /\ m <= c.size
        /\ Enter(t, op, b.at, c.at, 0, 0) /\ asked' = Copied(asked, b, c, m)
    BY <1>4, <2>1, <2>2
  <2>4. /\ OnlyOf(t) /\ Copying(t, m)' /\ mem' = mem
        /\ cpu'[t].op = op /\ cpu'[t].rsi = c.at
    BY <2>3, CallCopies, ZenonT(60)
  <2>5. Copying(t, n + 1)'
    BY <2>1, <2>4
  <2> QED BY <2>2, <2>4, <2>5
<1>6. CopyingString(t)'
  BY <1>3, <1>5 DEF CopyingString
<1> QED BY <1>5, <1>6 DEF OnCourse

\* The calls that only read.
LEMMA CallReads ==
  ASSUME CallsInv, ~raced, NEW t \in Threads,
         NEW op, NEW rdi, NEW rsi, NEW rdx, NEW want, op # "sbrk",
         Enter(t, op, rdi, rsi, rdx, want), asked' = asked
  PROVE  /\ OnlyOf(t) /\ mem' = mem /\ AsAsked(t)'
         /\ cpu'[t].op = op /\ cpu'[t].rdi = rdi /\ cpu'[t].rsi = rsi /\ cpu'[t].rdx = rdx
         /\ cpu'[t].rax = 0 /\ cpu'[t].want = want
<1>1. DOMAIN asked' = Cells
  BY DEF CallsInv
<1>2. /\ OnlyOf(t) /\ mem' = mem /\ AsAsked(t) /\ Own(t)' = Own(t)
      /\ cpu'[t].op = op /\ cpu'[t].rdi = rdi /\ cpu'[t].rsi = rsi /\ cpu'[t].rdx = rdx
      /\ cpu'[t].rax = 0 /\ cpu'[t].want = want
  BY <1>1, EnterEffect
<1>3. AsAsked(t)'
  BY <1>2 DEF AsAsked
<1> QED BY <1>2, <1>3

LEMMA CallStrlenOnCourse ==
  ASSUME CallsInv, ~raced, NEW t \in Threads, NEW b \in blocks[t], CallStrlen(t, b)
  PROVE  OnlyOf(t) /\ OnCourse(t)'
<1>1. b.size \in Nat /\ b.at \in Nat
  BY WithinOwn
<1>2. PICK n : n = Length(mem, b)
  OBVIOUS
<1>3. n \in Nat /\ n < b.size /\ mem[b.at + n] = 0 /\ \A i \in 0 .. n - 1 : mem[b.at + i] # 0
  BY <1>1, <1>2, LengthIs DEF CallStrlen
<1>4. Enter(t, "strlen", b.at, 0, 0, n) /\ asked' = asked
  BY <1>2 DEF CallStrlen
<1>5. /\ OnlyOf(t) /\ mem' = mem /\ AsAsked(t)'
      /\ cpu'[t].op = "strlen" /\ cpu'[t].rdi = b.at /\ cpu'[t].rax = 0 /\ cpu'[t].want = n
  BY <1>4, CallReads
<1>6. Within(b.at, n + 1, b)
  BY <1>1, <1>3 DEF Within
<1>7. Measuring(t)'
  BY <1>3, <1>5, <1>6 DEF Measuring, Within, OnlyOf
<1> QED BY <1>5, <1>7 DEF OnCourse

LEMMA CallMemcmpOnCourse ==
  ASSUME CallsInv, ~raced, NEW t \in Threads, NEW b \in blocks[t], NEW c \in blocks[t],
         NEW n \in 0 .. b.size, n <= c.size, CallMemcmp(t, b, c, n)
  PROVE  OnlyOf(t) /\ OnCourse(t)'
<1>1. b.size \in Nat /\ b.at \in Nat /\ c.size \in Nat /\ c.at \in Nat
  BY WithinOwn
<1>2. n \in Nat /\ Within(b.at, n, b) /\ Within(c.at, n, c)
  BY <1>1 DEF Within
<1>3. PICK d : d = Difference(mem, b, c, n)
  OBVIOUS
<1>4. \/ Agree(b.at, c.at, n) /\ d = 0
      \/ \E i \in 0 .. n - 1 : /\ Agree(b.at, c.at, i) /\ mem[b.at + i] # mem[c.at + i]
                               /\ d = mem[b.at + i] - mem[c.at + i]
  BY <1>2, <1>3, DifferenceIs
<1>5. Enter(t, "memcmp", b.at, c.at, n, d) /\ asked' = asked
  BY <1>3 DEF CallMemcmp
<1>6. /\ OnlyOf(t) /\ mem' = mem /\ AsAsked(t)'
      /\ cpu'[t].op = "memcmp" /\ cpu'[t].rdi = b.at /\ cpu'[t].rsi = c.at /\ cpu'[t].rdx = n
      /\ cpu'[t].want = d
  BY <1>5, CallReads
<1>7. \A x, y, k : Agree(x, y, k)' <=> Agree(x, y, k)
  BY <1>6 DEF Agree
<1>8. Comparing(t)'
  BY <1>2, <1>4, <1>6, <1>7 DEF Comparing, Within, OnlyOf
<1> QED BY <1>6, <1>8 DEF OnCourse

LEMMA CallStrcmpOnCourse ==
  ASSUME CallsInv, ~raced, NEW t \in Threads, NEW b \in blocks[t], NEW c \in blocks[t],
         CallStrcmp(t, b, c)
  PROVE  OnlyOf(t) /\ OnCourse(t)'
<1>1. b.size \in Nat /\ b.at \in Nat /\ c.size \in Nat /\ c.at \in Nat
  BY WithinOwn
<1>2. PICK k, l : k = Length(mem, b) /\ l = Length(mem, c)
  OBVIOUS
<1>3. /\ k \in Nat /\ k < b.size /\ mem[b.at + k] = 0 /\ \A i \in 0 .. k - 1 : mem[b.at + i] # 0
      /\ l \in Nat /\ l < c.size /\ mem[c.at + l] = 0 /\ \A i \in 0 .. l - 1 : mem[c.at + i] # 0
  BY <1>1, <1>2, LengthIs DEF CallStrcmp
<1>4. PICK m : m = IF k < l THEN k ELSE l
  OBVIOUS
<1>5. /\ m \in Nat /\ m + 1 \in Nat /\ m <= k /\ m <= l /\ (m = k \/ m = l)
  BY <1>3, <1>4
<1>6. PICK d : d = Difference(mem, b, c, m + 1)
  OBVIOUS
<1>7. \/ Agree(b.at, c.at, m + 1) /\ d = 0
      \/ \E i \in 0 .. (m + 1) - 1 :
           /\ Agree(b.at, c.at, i) /\ mem[b.at + i] # mem[c.at + i]
           /\ d = mem[b.at + i] - mem[c.at + i]
  BY <1>5, <1>6, DifferenceIs
<1>8. Enter(t, "strcmp", b.at, c.at, 0, d) /\ asked' = asked
  <2>1. Length(mem, IF k < l THEN b ELSE c) = m
    BY <1>2, <1>4
  <2> QED BY <1>2, <1>6, <2>1 DEF CallStrcmp
<1>9. /\ OnlyOf(t) /\ mem' = mem /\ AsAsked(t)'
      /\ cpu'[t].op = "strcmp" /\ cpu'[t].rdi = b.at /\ cpu'[t].rsi = c.at
      /\ cpu'[t].want = d
  BY <1>8, CallReads
<1>10. \E n \in 0 .. m :
         /\ Agree(b.at, c.at, n) /\ \A i \in 0 .. n - 1 : mem[b.at + i] # 0
         /\ \/ mem[b.at + n] = mem[c.at + n] /\ mem[b.at + n] = 0 /\ d = 0
            \/ mem[b.at + n] # mem[c.at + n] /\ d = mem[b.at + n] - mem[c.at + n]
  <2>1. CASE Agree(b.at, c.at, m + 1) /\ d = 0
    <3>1. \A i \in 0 .. m : mem[b.at + i] = mem[c.at + i]
      BY <1>5, <2>1 DEF Agree
    <3>2. m \in 0 .. m /\ \A i \in 0 .. m - 1 : i \in 0 .. m /\ i \in 0 .. k - 1
      BY <1>3, <1>5
    <3>3. Agree(b.at, c.at, m) /\ mem[b.at + m] = mem[c.at + m] /\ mem[b.at + m] = 0
      BY <1>3, <1>5, <3>1, <3>2 DEF Agree
    <3> QED BY <1>3, <2>1, <3>2, <3>3
  <2>2. CASE \E i \in 0 .. (m + 1) - 1 :
               /\ Agree(b.at, c.at, i) /\ mem[b.at + i] # mem[c.at + i]
               /\ d = mem[b.at + i] - mem[c.at + i]
    <3>1. PICK n \in 0 .. m : /\ Agree(b.at, c.at, n) /\ mem[b.at + n] # mem[c.at + n]
                              /\ d = mem[b.at + n] - mem[c.at + n]
      BY <1>5, <2>2
    <3>2. \A i \in 0 .. n - 1 : i \in 0 .. k - 1
      BY <1>3, <1>5
    <3> QED BY <1>3, <3>1, <3>2
  <2> QED BY <1>7, <2>1, <2>2
<1>11. PICK n \in 0 .. m :
         /\ Agree(b.at, c.at, n) /\ \A i \in 0 .. n - 1 : mem[b.at + i] # 0
         /\ \/ mem[b.at + n] = mem[c.at + n] /\ mem[b.at + n] = 0 /\ d = 0
            \/ mem[b.at + n] # mem[c.at + n] /\ d = mem[b.at + n] - mem[c.at + n]
  BY <1>10
<1>12. n \in Nat /\ Within(b.at, n + 1, b) /\ Within(c.at, n + 1, c)
  BY <1>1, <1>3, <1>5 DEF Within
<1>13. \A x, y, i : Agree(x, y, i)' <=> Agree(x, y, i)
  BY <1>9 DEF Agree
<1>14. ComparingStrings(t)'
  BY <1>9, <1>11, <1>12, <1>13 DEF ComparingStrings, Within, OnlyOf
<1> QED BY <1>9, <1>14 DEF OnCourse

LEMMA CallsOnCourse ==
  ASSUME CallsInv, ~raced, NEW t \in Threads, Calls(t)
  PROVE  OnlyOf(t) /\ OnCourse(t)'
<1> PICK b \in blocks[t], c \in blocks[t] :
      \/ CallStrlen(t, b) \/ CallStrcmp(t, b, c)
      \/ b # c /\ CallStrcpy(t, b, c)
      \/ \E n \in 0 .. b.size :
           \/ \E byte \in Bytes : CallMemset(t, b, byte, n)
           \/ n <= c.size /\ CallMemcmp(t, b, c, n)
           \/ n <= c.size /\ b # c /\ CallMemcpy(t, b, c, n)
  BY DEF Calls
<1> QED BY CallStrlenOnCourse, CallStrcmpOnCourse, CallStrcpyOnCourse, CallMemsetOnCourse,
           CallMemcmpOnCourse, CallMemcpyOnCourse

-----------------------------------------------------------------------------
(* The heap's steps.                                                       *)

LEMMA MallocKeepsCalls ==
  ASSUME CallsInv, ~raced, NEW t \in Threads, NEW size \in Sizes, Malloc(t, size), HeapInv'
  PROVE  CallsInv'
<1> SUFFICES ASSUME ~raced' PROVE InMemory' /\ Untouched' /\ \A u \in Threads : OnCourse(u)'
  BY DEF CallsInv, Malloc
<1> DEFINE r == [Ready EXCEPT !.op = "sbrk", !.rax = Base, !.rdi = Rounded(size), !.rdx = size]
<1>1. /\ cpu[t].op = "none" /\ Base + Rounded(size) <= TOP
      /\ cpu' = [cpu EXCEPT ![t] = r]
      /\ UNCHANGED <<heap_end, mem, blocks, asked>>
  BY DEF Malloc, Base
<1>2. DOMAIN cpu = Threads
  BY DEF CallsInv, HeapInv, HeapTyped
<1>3. r.op = "sbrk" /\ r.rax = Base /\ r.rdi = Rounded(size)
  BY DEF Ready
<1> HIDE DEF r
<1>4. cpu'[t] = r /\ \A u \in Threads \ {t} : cpu'[u] = cpu[u]
  BY <1>1, <1>2
<1>5. InMemory'
  BY <1>1, <1>3, <1>4 DEF CallsInv, InMemory
<1>6. Untouched'
  BY <1>1 DEF CallsInv, Untouched, Base
<1>7. ASSUME NEW u \in Threads, u # t PROVE OnCourse(u)'
  BY <1>1, <1>4, <1>7, OnCourseStays DEF CallsInv
<1>8. OnCourse(t)'
  <2>1. AsAsked(t)
    BY <1>1 DEF CallsInv, OnCourse
  <2>2. AsAsked(t)'
    BY <1>1, <2>1, OwnStays DEF AsAsked
  <2> QED BY <1>3, <1>4, <2>2 DEF OnCourse
<1> QED BY <1>5, <1>6, <1>7, <1>8

LEMMA SbrkKeepsCalls ==
  ASSUME CallsInv, ~raced, NEW t \in Threads, Sbrk(t), HeapInv'
  PROVE  CallsInv'
<1> DEFINE new == [at |-> cpu[t].rax, size |-> cpu[t].rdx]
<1>1. /\ cpu[t].op = "sbrk" /\ heap_end' = cpu[t].rax + cpu[t].rdi
      /\ blocks' = [blocks EXCEPT ![t] = @ \union {new}]
      /\ cpu' = [cpu EXCEPT ![t] = Ready]
      /\ UNCHANGED <<mem, asked, raced>>
  BY DEF Sbrk
<1>2. /\ cpu[t].rax = Base /\ cpu[t].rdi \in Nat /\ cpu[t].rdx \in Nat
      /\ cpu[t].rdi >= cpu[t].rdx /\ cpu[t].rax + cpu[t].rdi <= TOP
  BY <1>1 DEF CallsInv, HeapInv, PendingBlock, InMemory
<1>3. Base \in Nat /\ Base > 0 /\ TOP \in Nat
  BY AsmAssumption DEF CallsInv, HeapInv, HeapTyped, Base
<1>4. new.at = Base /\ new.at + new.size <= TOP /\ new.size \in Nat
  BY <1>2, <1>3
<1>5. DOMAIN cpu = Threads /\ DOMAIN blocks = Threads
  BY DEF CallsInv, HeapInv, HeapTyped
<1> HIDE DEF new
<1>6. /\ cpu'[t] = Ready /\ blocks'[t] = blocks[t] \union {new}
      /\ \A u \in Threads \ {t} : cpu'[u] = cpu[u] /\ blocks'[u] = blocks[u]
  BY <1>1, <1>5
<1>7. InMemory'
  <2>1. Ready.op = "none"
    BY DEF Ready
  <2>2. \A u \in Threads : \A b \in blocks'[u] : b.at + b.size <= TOP
    BY <1>4, <1>6 DEF CallsInv, InMemory
  <2>3. \A u \in Threads : cpu'[u].op = "sbrk" => cpu'[u].rax + cpu'[u].rdi <= TOP
    BY <1>6, <2>1 DEF CallsInv, InMemory
  <2> QED BY <2>2, <2>3 DEF InMemory
<1>8. Untouched'
  <2>1. Base' >= Base /\ Base' \in Nat
    BY <1>1, <1>2, <1>3 DEF Base
  <2>2. \A a \in Cells : a \in Nat /\ (a >= Base => mem[a] = asked[a])
    BY AsmAssumption DEF CallsInv, Untouched, Cells
  <2>3. ASSUME NEW a \in Cells, NEW x \in Nat, x >= Base, a >= x PROVE mem[a] = asked[a]
    BY <1>3, <2>2, <2>3
  <2> QED BY <1>1, <2>1, <2>3 DEF Untouched
<1>9. ASSUME NEW u \in Threads, u # t PROVE OnCourse(u)'
  BY <1>1, <1>6, <1>9, OnCourseStays DEF CallsInv
<1>10. OnCourse(t)'
  <2>1. AsAsked(t)
    BY <1>1 DEF CallsInv, OnCourse
  <2>2. ASSUME NEW a \in Own(t)' PROVE mem[a] = asked[a]
    <3>1. PICK b \in blocks[t] \union {new} : a \in CellsOf(b) /\ a \in Cells
      BY <1>6 DEF Own, CellsOf
    <3>2. CASE b \in blocks[t]
      BY <2>1, <3>1, <3>2 DEF AsAsked, Own
    <3>3. CASE b = new
      <4>1. a >= Base
        BY <1>3, <1>4, <3>1, <3>3 DEF CellsOf
      <4> QED BY <3>1, <4>1 DEF CallsInv, Untouched
    <3> QED BY <3>1, <3>2, <3>3
  <2>3. AsAsked(t)'
    BY <1>1, <2>2 DEF AsAsked
  <2>4. cpu'[t].op = "none"
    BY <1>6 DEF Ready
  <2> QED BY <2>3, <2>4 DEF OnCourse
<1> QED BY <1>1, <1>7, <1>8, <1>9, <1>10 DEF CallsInv

LEMMA FreeKeepsCalls ==
  ASSUME CallsInv, ~raced, NEW t \in Threads, NEW b \in blocks[t], Free(t, b), HeapInv'
  PROVE  CallsInv'
<1>1. /\ cpu[t].op = "none" /\ blocks' = [blocks EXCEPT ![t] = @ \ {b}]
      /\ UNCHANGED <<heap_end, mem, cpu, asked, raced>>
  BY DEF Free
<1>2. DOMAIN blocks = Threads
  BY DEF CallsInv, HeapInv, HeapTyped
<1>3. blocks'[t] \subseteq blocks[t] /\ \A u \in Threads \ {t} : blocks'[u] = blocks[u]
  BY <1>1, <1>2
<1>4. InMemory' /\ Untouched'
  BY <1>1, <1>3 DEF CallsInv, InMemory, Untouched, Base
<1>5. ASSUME NEW u \in Threads, u # t PROVE OnCourse(u)'
  BY <1>1, <1>3, <1>5, OnCourseStays DEF CallsInv
<1>6. OnCourse(t)'
  <2>1. AsAsked(t) /\ Own(t)' \subseteq Own(t)
    BY <1>1, <1>3 DEF CallsInv, OnCourse, Own, CellsOf
  <2>2. AsAsked(t)'
    BY <1>1, <2>1 DEF AsAsked
  <2> QED BY <1>1, <2>2 DEF OnCourse
<1> QED BY <1>1, <1>4, <1>5, <1>6 DEF CallsInv

-----------------------------------------------------------------------------
LEMMA CallsInvInit == Init => CallsInv
<1> SUFFICES ASSUME Init PROVE CallsInv
  OBVIOUS
<1>1. HeapInv /\ DOMAIN mem = Cells /\ DOMAIN asked = Cells
  BY HeapInvInit DEF Init
<1>2. \A t \in Threads : blocks[t] = {} /\ cpu[t].op = "none"
  BY DEF Init, Ready
<1>3. InMemory
  BY <1>2 DEF InMemory
<1>4. Untouched /\ \A t \in Threads : AsAsked(t)
  BY <1>2 DEF Init, Untouched, AsAsked, Own
<1>5. \A t \in Threads : OnCourse(t)
  BY <1>2, <1>4 DEF OnCourse
<1> QED BY <1>1, <1>3, <1>4, <1>5 DEF CallsInv

LEMMA CallsInvStep == CallsInv /\ [Next]_vars => CallsInv'
<1> SUFFICES ASSUME CallsInv, [Next]_vars PROVE CallsInv'
  OBVIOUS
<1>0. HeapInv'
  BY HeapInvStep DEF CallsInv
<1>1. CASE Next
  <2> PICK t \in Threads :
        \/ \E size \in Sizes : Malloc(t, size)
        \/ Sbrk(t) \/ (\E b \in blocks[t] : Free(t, b)) \/ Calls(t) \/ RoutineStep(t)
    BY <1>1 DEF Next
  <2>0. ~raced
    BY <1>1 DEF Next
  <2>1. ASSUME NEW size \in Sizes, Malloc(t, size) PROVE CallsInv'
    BY <1>0, <2>0, <2>1, MallocKeepsCalls
  <2>2. CASE Sbrk(t)
    BY <1>0, <2>0, <2>2, SbrkKeepsCalls
  <2>3. ASSUME NEW b \in blocks[t], Free(t, b) PROVE CallsInv'
    BY <1>0, <2>0, <2>3, FreeKeepsCalls
  <2>4. CASE Calls(t)
    BY <1>0, <2>0, <2>4, CallsOnCourse, OneThreadMoves
  <2>5. CASE RoutineStep(t)
    BY <1>0, <2>0, <2>5, RoutineOnCourse, OneThreadMoves
  <2> QED BY <2>1, <2>2, <2>3, <2>4, <2>5
<1>2. CASE UNCHANGED vars
  <2>1. UNCHANGED <<heap_end, mem, blocks, cpu, asked, raced>>
    BY <1>2 DEF vars
  <2>2. ASSUME ~raced, NEW u \in Threads PROVE OnCourse(u)'
    BY <2>1, <2>2, OnCourseStays DEF CallsInv
  <2>3. ~raced => InMemory' /\ Untouched'
    BY <2>1 DEF CallsInv, InMemory, Untouched, Base
  <2> QED BY <1>0, <2>1, <2>2, <2>3 DEF CallsInv
<1> QED BY <1>1, <1>2

\* Every call of memset, memcpy, strcpy, strlen, memcmp and strcmp is as if it had happened
\* at once, however many threads move bytes meanwhile (string_mem.s:4-85): each works in
\* blocks of its own, and malloc gives no two threads the same bytes until they race in sbrk.
THEOREM CallsAtOnceHolds == Spec => []CallsAtOnce
<1>1. Spec => []CallsInv
  BY CallsInvInit, CallsInvStep, PTL DEF Spec
<1>2. CallsInv => CallsAtOnce
  <2> SUFFICES ASSUME CallsInv, ~raced, NEW t \in Threads
               PROVE  /\ cpu[t].op \in {"none", "done"} =>
                           \A b \in blocks[t] : \A a \in CellsOf(b) : mem[a] = asked[a]
                      /\ cpu[t].op = "done" => cpu[t].rax = cpu[t].want
    BY DEF CallsAtOnce
  <2>1. OnCourse(t)
    BY DEF CallsInv
  <2>2. \A b \in blocks[t] : \A a \in CellsOf(b) : a \in Own(t)
    BY WithinOwn
  <2> QED BY <2>1, <2>2 DEF OnCourse, AsAsked
<1> QED BY <1>1, <1>2, PTL
================================================================================
