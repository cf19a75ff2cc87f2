-------------------------------- MODULE Sockets --------------------------------
(***************************************************************************)
(* The socket objects of lwip: TCPServer, TCPClient (lwip/src/tcp.cpp) and *)
(* UDPSocket (lwip/src/udp.cpp).  Each keeps one descriptor number, and    *)
(* the numbers are given again once they are closed, so an object that     *)
(* remembers a closed one speaks and hangs up in the name of another.      *)
(* Data is left out: sending and receiving change no descriptor.           *)
(*                                                                         *)
(* External: the users of the objects, from construction to destruction.   *)
(***************************************************************************)
EXTENDS DescriptorTable

CONSTANTS Servers,  \* the TCPServer objects
          Others    \* the TCPClient and UDPSocket objects

Objects == Servers \union Others

ASSUME SocketsAssumption == Caller \notin Objects

VARIABLES alive,   \* the objects that exist
          sockfd,
          lost     \* descriptors whose object was opened once more before it was closed

objects == <<alive, sockfd, lost>>

ObjectsInit == alive = {} /\ sockfd = [o \in Objects |-> NONE] /\ lost = {}

-----------------------------------------------------------------------------
Construct(o) ==
  /\ o \notin alive
  /\ alive' = alive \union {o} /\ sockfd' = [sockfd EXCEPT ![o] = NONE]
  /\ UNCHANGED <<table, lost>>

\* Faulty: the descriptor is forgotten when bind, listen or connect fails.
Forgotten(fd) == NONE

\* What sockfd is after such a failure.
AfterFailure(fd) == fd

\* listen, connect, bind: a new descriptor, or -1, takes the place of the old one.
Open(o) ==
  /\ o \in alive
  /\ \/ sockfd' = [sockfd EXCEPT ![o] = NONE] /\ UNCHANGED table
     \/ \E fd \in Fds \ open :
          /\ Gives(fd, o)
          /\ \/ sockfd' = [sockfd EXCEPT ![o] = fd] /\ ready' = ready \union {fd}
             \/ sockfd' = [sockfd EXCEPT ![o] = AfterFailure(fd)] /\ UNCHANGED ready
  /\ lost' = lost \union ({sockfd[o]} \ {NONE})
  /\ UNCHANGED alive

\* accept: the new descriptor belongs to the caller.
Accept(o) ==
  /\ o \in alive \intersect Servers /\ sockfd[o] \in ready
  /\ \E fd \in Fds \ open : Gives(fd, Caller) /\ ready' = ready \union {fd}
  /\ UNCHANGED <<alive, sockfd, lost>>

\* Faulty: close leaves sockfd as it was.
KeepsNumber(o) == sockfd[o]

\* What close leaves in sockfd.
AfterClose(o) == NONE

Closes(o) ==
  /\ IF sockfd[o] >= 0 THEN Takes(sockfd[o]) ELSE UNCHANGED table
  /\ sockfd' = [sockfd EXCEPT ![o] = AfterClose(o)]
  /\ UNCHANGED lost

Close(o) == o \in alive /\ Closes(o) /\ UNCHANGED alive

\* The destructor closes, whether or not the object has been closed before.
Destroy(o) == o \in alive /\ Closes(o) /\ alive' = alive \ {o}

ObjectStep ==
  \E o \in Objects : Construct(o) \/ Open(o) \/ Accept(o) \/ Close(o) \/ Destroy(o)
=============================================================================
