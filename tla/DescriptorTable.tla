---------------------------- MODULE DescriptorTable ----------------------------
(***************************************************************************)
(* The kernel's table of open descriptors of one process (external).  A    *)
(* number that was closed is given again.                                  *)
(***************************************************************************)
EXTENDS Integers

CONSTANTS Fds,     \* descriptor numbers
          Caller   \* whoever is handed descriptors to close them himself

ASSUME FdsAssumption == Fds \subseteq Nat

NONE == -1

VARIABLES holder,  \* whom the kernel gave each open descriptor to
          ready    \* the descriptors that are bound, listening or connected

table == <<holder, ready>>

open == DOMAIN holder

TableInit == holder = [fd \in {} |-> Caller] /\ ready = {}

Gives(fd, o) == holder' = [f \in open \union {fd} |-> IF f = fd THEN o ELSE holder[f]]

\* close(fd); a number that is not open is refused.
Takes(fd) == holder' = [f \in open \ {fd} |-> holder[f]] /\ ready' = ready \ {fd}

\* Callers close what they were handed.
HangUp(fd) == fd \in open /\ holder[fd] = Caller /\ Takes(fd)
================================================================================
