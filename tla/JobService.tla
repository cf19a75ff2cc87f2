------------------------------ MODULE JobService ------------------------------
(***************************************************************************)
(* What the thread pool promises its callers, without threads, locks or a  *)
(* ring: submitted commands are accepted into a bounded FIFO or turned     *)
(* away, accepted ones start in order and run once each, and a caller gets *)
(* control back only after its command has run.  A caller that was turned  *)
(* away does not get control back.                                         *)
(***************************************************************************)
EXTENDS Naturals, Sequences

CONSTANTS Clients, Capacity

VARIABLES pending,  \* the accepted callers, oldest first
          phase,    \* where each caller's command is
          closed    \* no further command is started

svars == <<pending, phase, closed>>

Phases == {"idle", "new", "pending", "running", "done", "dropped"}

ServiceInit ==
  /\ pending = <<>>
  /\ phase = [c \in Clients |-> "idle"]
  /\ closed = FALSE

Moves(c, from, to) == phase[c] = from /\ phase' = [phase EXCEPT ![c] = to]

Submit(c) == Moves(c, "idle", "new") /\ UNCHANGED <<pending, closed>>

Accept(c) ==
  /\ Len(pending) < Capacity
  /\ Moves(c, "new", "pending")
  /\ pending' = Append(pending, c)
  /\ UNCHANGED closed

Drop(c) == Len(pending) = Capacity /\ Moves(c, "new", "dropped") /\ UNCHANGED <<pending, closed>>

Start ==
  /\ ~ closed /\ pending # <<>>
  /\ Moves(Head(pending), "pending", "running")
  /\ pending' = Tail(pending)
  /\ UNCHANGED closed

Complete(c) == Moves(c, "running", "done") /\ UNCHANGED <<pending, closed>>

Return(c) == Moves(c, "done", "idle") /\ UNCHANGED <<pending, closed>>

Close == ~ closed /\ closed' = TRUE /\ UNCHANGED <<pending, phase>>

ServiceNext ==
  \/ \E c \in Clients : Submit(c) \/ Accept(c) \/ Drop(c) \/ Complete(c) \/ Return(c)
  \/ Start
  \/ Close

ServiceSpec ==
  /\ ServiceInit /\ [][ServiceNext]_svars
  /\ WF_svars(Start)
  /\ \A c \in Clients : WF_svars(Complete(c)) /\ WF_svars(Return(c))
=============================================================================
