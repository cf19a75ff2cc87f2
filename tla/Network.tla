-------------------------------- MODULE Network --------------------------------
(***************************************************************************)
(* Socket objects and network helpers in one process: they share the       *)
(* table of descriptors, and what one forgets to close, or closes twice,   *)
(* is felt by the others.                                                  *)
(***************************************************************************)
EXTENDS Sockets, NetCalls

ASSUME NetworkAssumption == Objects \intersect Threads = {}

vars == <<table, objects, net>>

Init == TableInit /\ ObjectsInit /\ NetInit

Next ==
  \/ ObjectStep /\ UNCHANGED net
  \/ NetStep /\ UNCHANGED objects
  \/ (\E fd \in Fds : HangUp(fd)) /\ UNCHANGED <<objects, net>>

\* Threads run.  Nothing is promised of the objects' users, of peers or of the network,
\* nor that a web server ever hangs up.
Fairness == \A t \in Threads : WF_vars(ThreadStep(t) /\ UNCHANGED objects)

Spec == Init /\ [][Next]_vars /\ Fairness

-----------------------------------------------------------------------------
\* Nobody speaks through, or closes, a descriptor that was given to another object,
\* thread or caller, although numbers are used again, destructors close a second time
\* and most helpers go on with whatever socket and accept return (tcp.cpp:34-39, 62-67,
\* udp.cpp:42-47, net/dns.cpp:42, tcp_server.cpp:25, socket.cpp:11, wifi.cpp:17).
OwnDescriptor ==
  /\ \A o \in Objects : sockfd[o] # NONE => sockfd[o] \in open /\ holder[sockfd[o]] = o
  /\ \A t \in Threads : \A fd \in {call[t].fd, call[t].client} \ {NONE} :
       fd \in open /\ holder[fd] = t

\* Every open descriptor can still be closed: the object or the call it was given to
\* remembers it, also when listen, connect or bind has failed half-way, or it was handed
\* to a caller.  The exception is a descriptor whose object was opened once more before
\* it was closed (tcp.cpp:8-27, 45-60, udp.cpp:8-22, socket.cpp:8-13).
NothingLeft ==
  \A fd \in open :
    \/ holder[fd] = Caller
    \/ holder[fd] \in Objects /\ (sockfd[holder[fd]] = fd \/ fd \in lost)
    \/ holder[fd] \in Threads /\ fd \in {call[holder[fd]].fd, call[holder[fd]].client}

\* dns_query returns the answer to its own question, whatever other calls asked before
\* or ask meanwhile, although all questions have one number and the ports are used again:
\* it never leaves a question behind.  resolve_dns does, and spoils its port
\* (drivers dns.cpp:43-45, net/dns.cpp:40-42).
AnswersMatch ==
  \A t \in Threads : call[t].got # NONE /\ call[t].port \notin unheard => call[t].got = call[t].host

Lost(t) == call[t].pc = "recv" /\ For(t) = {}

\* Every helper returns but the echo server and do_http_get, who wait for their peers:
\* dns_query too, unless its question or the answer is lost, for there is no timeout
\* (drivers dns.cpp:44).
CallsReturn ==
  \A t \in Threads :
    call[t].fn \notin {"none", "tcp_echo_server", "do_http_get"}
      ~> call[t] = Idle \/ (call[t].fn = "dns_query" /\ Lost(t))

\* A peer that has said something is answered or hangs up, unless the one server waits
\* for a peer ahead of it that says nothing, or has no descriptor left for accept
\* (tcp_server.cpp:18-26).
Stalled ==
  \E t \in Threads :
    \/ call[t].pc = "read" /\ call[t].peer \in Peers /\ peer[call[t].peer] = "silent"
    \/ call[t].pc = "accept" /\ open = Fds

PeersAnswered ==
  \A p \in Peers : peer[p] = "said" ~> peer[p] \in {"answered", "left"} \/ Stalled
================================================================================
