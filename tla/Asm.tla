---------------------------------- MODULE Asm ----------------------------------
(***************************************************************************)
(* The heap and the string routines in assembly that flinstone_realfs is   *)
(* linked with in place of the C library's                                 *)
(* (flinstone_profiles_tasks_v9/asm/memory.s, string_mem.s).  Threads run  *)
(* them at once on one memory: malloc reads and advances heap_end in two   *)
(* steps without a lock, the string routines move one byte per step.       *)
(*                                                                         *)
(* External: the callers, who give the routines pointers to blocks they    *)
(* got from malloc, lengths within them and strings that end in them, and  *)
(* copy between blocks that do not overlap.  Beside the real memory a      *)
(* second one is kept in which every call took effect at once, as string.h *)
(* has it.                                                                 *)
(***************************************************************************)
EXTENDS Integers

CONSTANTS Threads,
          Duty(_),  \* the string routines that a thread calls
          Bytes,    \* the values of a byte, 0 among them
          Sizes,    \* sizes that are asked for
          ALIGN,    \* 16
          END,      \* the address of _end
          TOP       \* the bound of the memory looked at

ASSUME AsmAssumption ==
  /\ Bytes \subseteq Nat /\ 0 \in Bytes
  /\ ALIGN \in Nat \ {0} /\ END \in Nat \ {0} /\ TOP \in Nat
  /\ Sizes \subseteq Nat

Cells == END .. TOP - 1

VARIABLES heap_end,
          mem,      \* the memory from _end on
          blocks,   \* the blocks each thread has got and not freed
          cpu,      \* the routine each thread is in, and its registers
          asked,    \* what mem would be if every call took effect at once
          raced     \* whether two threads were between the two steps of sbrk at once

vars == <<heap_end, mem, blocks, cpu, asked, raced>>

\* want is what string.h says rax must hold in the end.
Ready == [op |-> "none", rdi |-> 0, rsi |-> 0, rdx |-> 0, rax |-> 0, want |-> 0]

Init ==
  /\ heap_end = 0
  /\ mem = [a \in Cells |-> 0] /\ asked = mem
  /\ blocks = [t \in Threads |-> {}]
  /\ cpu = [t \in Threads |-> Ready]
  /\ raced = FALSE

-----------------------------------------------------------------------------
(* The heap.                                                               *)

\* Faulty: rounded down.
RoundedDown(size) == (size \div ALIGN) * ALIGN

\* malloc: what is asked of sbrk for size bytes.
Rounded(size) == ((size + ALIGN - 1) \div ALIGN) * ALIGN

\* sbrk, up to where rax holds the block; the first call takes _end.
Malloc(t, size) ==
  LET base == IF heap_end = 0 THEN END ELSE heap_end IN
  /\ cpu[t].op = "none" /\ base + Rounded(size) <= TOP
  /\ cpu' = [cpu EXCEPT ![t] = [Ready EXCEPT !.op = "sbrk", !.rax = base,
                                             !.rdi = Rounded(size), !.rdx = size]]
  /\ raced' = (raced \/ \E u \in Threads : cpu[u].op = "sbrk")
  /\ UNCHANGED <<heap_end, mem, blocks, asked>>

Sbrk(t) ==
  /\ cpu[t].op = "sbrk"
  /\ heap_end' = cpu[t].rax + cpu[t].rdi
  /\ blocks' = [blocks EXCEPT ![t] = @ \union {[at |-> cpu[t].rax, size |-> cpu[t].rdx]}]
  /\ cpu' = [cpu EXCEPT ![t] = Ready]
  /\ UNCHANGED <<mem, asked, raced>>

\* free does nothing; the caller has one block less.
Free(t, b) ==
  /\ cpu[t].op = "none"
  /\ blocks' = [blocks EXCEPT ![t] = @ \ {b}]
  /\ UNCHANGED <<heap_end, mem, cpu, asked, raced>>

-----------------------------------------------------------------------------
(* What string.h says the routines do.                                     *)

CellsOf(b) == b.at .. b.at + b.size - 1

IsString(m, b) == \E a \in CellsOf(b) : m[a] = 0
Length(m, b) == CHOOSE n \in 0 .. b.size : m[b.at + n] = 0 /\ \A i \in 0 .. n - 1 : m[b.at + i] # 0

\* The difference of the first bytes that differ among the first n, or 0.
Difference(m, b, c, n) ==
  LET differ == {i \in 0 .. n - 1 : m[b.at + i] # m[c.at + i]}
      first == CHOOSE i \in differ : \A j \in differ : i <= j
  IN  IF differ = {} THEN 0 ELSE m[b.at + first] - m[c.at + first]

Copied(m, b, c, n) ==
  [a \in Cells |-> IF a \in b.at .. b.at + n - 1 THEN m[c.at + (a - b.at)] ELSE m[a]]

-----------------------------------------------------------------------------
(* The calls.                                                              *)

Enter(t, op, rdi, rsi, rdx, want) ==
  /\ cpu[t].op = "none" /\ op \in Duty(t)
  /\ cpu' = [cpu EXCEPT ![t] = [op |-> op, rdi |-> rdi, rsi |-> rsi, rdx |-> rdx,
                                rax |-> 0, want |-> want]]
  /\ UNCHANGED <<heap_end, mem, blocks, raced>>

CallMemset(t, b, byte, n) ==
  /\ Enter(t, "memset", b.at, byte, n, 0)
  /\ asked' = [a \in Cells |-> IF a \in b.at .. b.at + n - 1 THEN byte ELSE asked[a]]

CallMemcpy(t, b, c, n) ==
  /\ Enter(t, "memcpy", b.at, c.at, n, 0)
  /\ asked' = Copied(asked, b, c, n)

CallStrcpy(t, b, c) ==
  /\ IsString(mem, c) /\ Length(mem, c) < b.size
  /\ Enter(t, "strcpy", b.at, c.at, 0, 0)
  /\ asked' = Copied(asked, b, c, Length(mem, c) + 1)

CallStrlen(t, b) ==
  /\ IsString(mem, b)
  /\ Enter(t, "strlen", b.at, 0, 0, Length(mem, b))
  /\ UNCHANGED asked

CallMemcmp(t, b, c, n) ==
  /\ Enter(t, "memcmp", b.at, c.at, n, Difference(mem, b, c, n))
  /\ UNCHANGED asked

CallStrcmp(t, b, c) ==
  /\ IsString(mem, b) /\ IsString(mem, c)
  /\ LET shorter == IF Length(mem, b) < Length(mem, c) THEN b ELSE c
     IN  Enter(t, "strcmp", b.at, c.at, 0, Difference(mem, b, c, Length(mem, shorter) + 1))
  /\ UNCHANGED asked

-----------------------------------------------------------------------------
(* The loops, one byte at a time.                                          *)

\* Faulty: the count is tested after it was made less.
MoreThanOne(n) == n > 1

\* Whether memset and memcpy go round again.
More(n) == n # 0

\* A byte of the memory; beyond the bound there are zeros.
Byte(a) == IF a \in Cells THEN mem[a] ELSE 0

Moves(t, byte, dsrc, last) ==
  /\ mem' = [mem EXCEPT ![cpu[t].rdi] = byte]
  /\ cpu' = [cpu EXCEPT ![t].rdi = @ + 1, ![t].rsi = @ + dsrc,
                        ![t].op = IF last THEN "done" ELSE @,
                        ![t].rdx = IF @ = 0 THEN 0 ELSE @ - 1]

Ends(t, rax) == cpu' = [cpu EXCEPT ![t].op = "done", ![t].rax = rax] /\ UNCHANGED mem

Memset(t) ==
  /\ cpu[t].op = "memset"
  /\ IF More(cpu[t].rdx) THEN Moves(t, cpu[t].rsi, 0, FALSE) ELSE Ends(t, 0)

Memcpy(t) ==
  /\ cpu[t].op = "memcpy"
  /\ IF More(cpu[t].rdx) THEN Moves(t, Byte(cpu[t].rsi), 1, FALSE) ELSE Ends(t, 0)

Strcpy(t) ==
  /\ cpu[t].op = "strcpy"
  /\ Moves(t, Byte(cpu[t].rsi), 1, Byte(cpu[t].rsi) = 0)

Strlen(t) ==
  /\ cpu[t].op = "strlen"
  /\ IF Byte(cpu[t].rdi + cpu[t].rax) = 0 THEN Ends(t, cpu[t].rax)
     ELSE cpu' = [cpu EXCEPT ![t].rax = @ + 1] /\ UNCHANGED mem

Compare(t, equal) ==
  LET al == Byte(cpu[t].rdi)  bl == Byte(cpu[t].rsi) IN
  IF al # bl THEN Ends(t, al - bl)
  ELSE IF equal THEN Ends(t, 0)
  ELSE /\ cpu' = [cpu EXCEPT ![t].rdi = @ + 1, ![t].rsi = @ + 1,
                             ![t].rdx = IF @ = 0 THEN 0 ELSE @ - 1]
       /\ UNCHANGED mem

Memcmp(t) ==
  /\ cpu[t].op = "memcmp"
  /\ IF cpu[t].rdx = 0 THEN Ends(t, 0) ELSE Compare(t, FALSE)

Strcmp(t) == cpu[t].op = "strcmp" /\ Compare(t, Byte(cpu[t].rdi) = 0)

Return(t) == cpu[t].op = "done" /\ cpu' = [cpu EXCEPT ![t] = Ready] /\ UNCHANGED mem

-----------------------------------------------------------------------------
\* A step within a string routine.
RoutineStep(t) ==
  /\ \/ Memset(t) \/ Memcpy(t) \/ Strcpy(t) \/ Strlen(t) \/ Memcmp(t) \/ Strcmp(t) \/ Return(t)
  /\ UNCHANGED <<heap_end, blocks, asked, raced>>

Calls(t) ==
  \E b, c \in blocks[t] :
    \/ CallStrlen(t, b) \/ CallStrcmp(t, b, c)
    \/ b # c /\ CallStrcpy(t, b, c)
    \/ \E n \in 0 .. b.size :
         \/ \E byte \in Bytes : CallMemset(t, b, byte, n)
         \/ n <= c.size /\ CallMemcmp(t, b, c, n)
         \/ n <= c.size /\ b # c /\ CallMemcpy(t, b, c, n)

\* What two racing calls of sbrk leave behind is not followed.
Next ==
  ~raced /\ \E t \in Threads :
    \/ \E size \in Sizes : Malloc(t, size)
    \/ Sbrk(t) \/ (\E b \in blocks[t] : Free(t, b)) \/ Calls(t) \/ RoutineStep(t)

Spec == Init /\ [][Next]_vars

-----------------------------------------------------------------------------
(* Properties.                                                             *)

\* Blocks in use lie below heap_end and no two of them share a byte, whoever got them, as
\* long as no two threads were in sbrk at once: nothing locks heap_end although the
\* program runs threads (memory.s:11-33).
HeapBlocksDisjoint ==
  ~raced =>
    \A t, u \in Threads : \A b \in blocks[t], c \in blocks[u] :
      /\ b.at + b.size <= heap_end
      /\ (t = u /\ b = c) \/ CellsOf(b) \intersect CellsOf(c) = {}

\* Every call is as if it had happened at once, however the others' routines move their
\* bytes meanwhile: a thread that is back from one finds in its blocks what its own calls
\* were to put there, and strlen, strcmp and memcmp have returned what string.h says of
\* the memory they were called with (string_mem.s:4-85).
CallsAtOnce ==
  ~raced =>
    \A t \in Threads :
      /\ cpu[t].op \in {"none", "done"} =>
           \A b \in blocks[t] : \A a \in CellsOf(b) : mem[a] = asked[a]
      /\ cpu[t].op = "done" => cpu[t].rax = cpu[t].want
================================================================================
