------------------------------ MODULE BlockStore ------------------------------
(***************************************************************************)
(* What a disk promises: numbered blocks of equal size, of which a write   *)
(* changes exactly the one it names.                                       *)
(***************************************************************************)
EXTENDS Sequences, Integers

CONSTANTS Blocks,  \* what a block can contain
          Counts   \* how many blocks a disk can be made with

VARIABLES store,   \* the blocks of the current disk; block k is store[k + 1]
          size,    \* the length of each
          op       \* the operation that has taken effect and not yet returned

bvars == <<store, size, op>>

BlockInit == store = <<>> /\ size \in Nat /\ op = "idle"

\* A new disk: its contents are arbitrary, its blocks have one size.
Format ==
  /\ op = "idle" /\ op' = "format"
  /\ \E n \in Counts : store' \in [1 .. n -> Blocks]
  /\ size' \in Nat /\ \A i \in DOMAIN store' : Len(store'[i]) = size'

\* A write to a disk that was never made makes it of zeros first.
Blank(n) == [i \in 1 .. n |-> [j \in 1 .. size |-> 0]]

Write ==
  /\ op = "idle" /\ op' = "write"
  /\ \E old \in IF store = <<>> THEN {Blank(n) : n \in Counts} ELSE {store} :
       \E i \in DOMAIN old, b \in Blocks :
         Len(b) = size /\ store' = [old EXCEPT ![i] = b]
  /\ UNCHANGED size

Return == op # "idle" /\ op' = "idle" /\ UNCHANGED <<store, size>>

BlockNext == Format \/ Write \/ Return

BlockSpec == BlockInit /\ [][BlockNext]_bvars
=============================================================================
