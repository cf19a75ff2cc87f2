-------------------------------- MODULE NetCalls --------------------------------
(***************************************************************************)
(* The network helpers, each a call that opens a socket, uses it and       *)
(* closes it again: resolve_dns, icmp_send_echo and tcp_echo_server of the *)
(* shell (flinstone_profiles_tasks_v9/net), do_ping, do_http_get and       *)
(* shell_tcpconnect at the end of its interpreter.cpp, and dns_query,      *)
(* sock_open_udp and wifi_scan of the drivers (kernel/net).  Threads run   *)
(* them side by side, step by step, in one process.                        *)
(*                                                                         *)
(* External: the kernel, name servers, and the peers of the echo server.   *)
(* A question and its answer are one message here, which is under way from *)
(* the moment the question is sent, may be lost, and comes at most once.   *)
(* All questions carry the number 0x1234, so an answer is told from others *)
(* by the port it is addressed to alone.                                   *)
(***************************************************************************)
EXTENDS DescriptorTable, Sequences

CONSTANTS Threads,
          Duty(_),   \* the helpers that a thread calls
          Hosts,     \* names to be resolved
          Ports,     \* ports the kernel gives to sockets that were not bound
          Peers,     \* the clients of the echo server
          BACKLOG    \* 5, the connections that wait for accept

Senders == {"resolve_dns", "icmp_send_echo", "do_ping"}
Helpers == Senders \union {"dns_query", "wifi_scan", "sock_open_udp", "shell_tcpconnect",
                           "do_http_get", "tcp_echo_server"}

ASSUME NetCallsAssumption ==
  /\ \A t \in Threads : Duty(t) \subseteq Helpers
  /\ Caller \notin Threads /\ BACKLOG \in Nat \ {0}
  /\ NONE \notin Ports \union Hosts

VARIABLES call,     \* what each thread is doing
          wire,     \* the messages under way
          unheard,  \* ports from which a question went out that nobody stayed to hear
          peer,     \* what each peer has done
          backlog   \* the peers that wait for accept

net == <<call, wire, unheard, peer, backlog>>

Idle == [fn |-> "none", pc |-> "idle", fd |-> NONE, host |-> NONE, port |-> NONE,
         got |-> NONE, client |-> NONE, peer |-> NONE]

NetInit ==
  /\ call = [t \in Threads |-> Idle]
  /\ wire = {} /\ unheard = {}
  /\ peer = [p \in Peers |-> "away"] /\ backlog = <<>>

At(t, fns, pc) == call[t].fn \in fns /\ call[t].pc = pc
Goes(t, pc) == call' = [call EXCEPT ![t].pc = pc]
Returns(t) == call' = [call EXCEPT ![t] = Idle]

-----------------------------------------------------------------------------
(* What the helpers have in common.                                        *)

Calls(t, fn, host) ==
  /\ call[t] = Idle /\ fn \in Duty(t)
  /\ call' = [call EXCEPT ![t].fn = fn, ![t].pc = "socket",
                          ![t].host = IF fn \in {"resolve_dns", "dns_query"} THEN host ELSE NONE]
  /\ UNCHANGED <<table, wire, unheard, peer, backlog>>

\* The helpers that return when there is no socket; the others go on with -1.  do_http_get
\* returns before it has asked for one when the host has no address.
Checked == Senders \union {"dns_query"}

Socket(t) ==
  /\ At(t, Helpers, "socket")
  /\ \/ \E fd \in Fds \ open :
          /\ Gives(fd, t)
          /\ call' = [call EXCEPT ![t].fd = fd, ![t].pc = "use"]
          /\ UNCHANGED ready
     \/ call[t].fn \in Checked \union {"do_http_get"} /\ Returns(t) /\ UNCHANGED table
     \/ call[t].fn \notin Checked /\ Goes(t, "use") /\ UNCHANGED table
  /\ UNCHANGED <<wire, unheard, peer, backlog>>

\* close(fd), and the helper returns.
CloseFd(t) ==
  /\ At(t, Helpers, "close")
  /\ Takes(call[t].fd) /\ Returns(t)
  /\ UNCHANGED <<wire, unheard, peer, backlog>>

-----------------------------------------------------------------------------
(* Questions and answers.                                                  *)

FreePorts == Ports \ {call[t].port : t \in Threads}

\* Faulty: a ping waits for its echo, with a socket that is not asked anything.
WaitsForEcho(fn) == IF fn = "dns_query" \/ fn = "icmp_send_echo" THEN "recv" ELSE "close"

\* What a helper does when it has sent its packet.
AfterSend(fn) == IF fn = "dns_query" THEN "recv" ELSE "close"

\* build_query: what is asked, all under one number.
Question(t, p) == [port |-> p, host |-> call[t].host]

\* sendto; the first one gives the socket a port.  Echo requests are answered to nobody.
Send(t) ==
  /\ At(t, Senders \union {"dns_query"}, "use")
  /\ IF call[t].host \in Hosts
     THEN \E p \in FreePorts :
            /\ wire' = wire \union {Question(t, p)}
            /\ call' = [call EXCEPT ![t].port = p, ![t].pc = AfterSend(call[t].fn)]
            /\ unheard' = IF call[t].fn = "resolve_dns" THEN unheard \union {p} ELSE unheard
     ELSE Goes(t, AfterSend(call[t].fn)) /\ UNCHANGED <<wire, unheard>>
  /\ UNCHANGED <<table, peer, backlog>>

For(t) == {m \in wire : m.port = call[t].port}

\* Faulty: recv gives up after some time.
ForOrTimeout(t) == For(t) \union {[port |-> call[t].port, host |-> NONE]}

\* The messages that recv may return.
Heard(t) == For(t)

Recv(t) ==
  /\ At(t, {"dns_query"}, "recv")
  /\ \E m \in Heard(t) :
       /\ wire' = wire \ {m}
       /\ call' = [call EXCEPT ![t].got = m.host, ![t].pc = "close"]
  /\ UNCHANGED <<table, unheard, peer, backlog>>

Lose(m) == wire' = wire \ {m} /\ UNCHANGED <<table, call, unheard, peer, backlog>>

-----------------------------------------------------------------------------
(* Scanning, binding and connecting.                                       *)

\* ioctl or connect: whatever it returns, close is next.
Attempt(t) ==
  /\ At(t, {"wifi_scan", "shell_tcpconnect"}, "use")
  /\ Goes(t, "close")
  /\ UNCHANGED <<table, wire, unheard, peer, backlog>>

\* Faulty: without a port the socket is forgotten.
BindGivenUp(t) == Returns(t)

\* What sock_open_udp does when bind fails.
BindFailed(t) == Goes(t, "close")

\* The socket that sock_open_udp returns is the caller's.
Bind(t) ==
  /\ At(t, {"sock_open_udp"}, "use")
  /\ \/ /\ call[t].fd # NONE
        /\ Gives(call[t].fd, Caller) /\ ready' = ready \union {call[t].fd}
        /\ Returns(t)
     \/ BindFailed(t) /\ UNCHANGED table
  /\ UNCHANGED <<wire, unheard, peer, backlog>>

\* do_http_get reads until the other side has nothing more to say, which is for ever if
\* it never hangs up.
HttpConnect(t) ==
  /\ At(t, {"do_http_get"}, "use")
  /\ Goes(t, "close") \/ (call[t].fd # NONE /\ Goes(t, "read"))
  /\ UNCHANGED <<table, wire, unheard, peer, backlog>>

HttpEnd(t) ==
  /\ At(t, {"do_http_get"}, "read")
  /\ Goes(t, "close")
  /\ UNCHANGED <<table, wire, unheard, peer, backlog>>

-----------------------------------------------------------------------------
(* The echo server.                                                        *)

Listening == {t \in Threads : call[t].fn = "tcp_echo_server" /\ call[t].fd \in ready}

\* bind and listen; that they may fail is not looked at.
Listen(t) ==
  /\ At(t, {"tcp_echo_server"}, "use")
  /\ Goes(t, "accept")
  /\ \/ Listening = {} /\ call[t].fd # NONE /\ ready' = ready \union {call[t].fd}
     \/ UNCHANGED ready
  /\ UNCHANGED <<holder, wire, unheard, peer, backlog>>

\* accept takes the first peer.  Without a descriptor for it, or a socket that listens,
\* it returns -1, and the loop goes on with that.
AcceptPeer(t) ==
  /\ At(t, {"tcp_echo_server"}, "accept")
  /\ \/ /\ t \in Listening /\ backlog # <<>>
        /\ \E fd \in Fds \ open :
             /\ Gives(fd, t)
             /\ call' = [call EXCEPT ![t].client = fd, ![t].peer = Head(backlog), ![t].pc = "read"]
        /\ backlog' = Tail(backlog)
        /\ UNCHANGED ready
     \/ /\ open = Fds \/ t \notin Listening
        /\ Goes(t, "read") /\ UNCHANGED <<table, backlog>>
  /\ UNCHANGED <<wire, unheard, peer>>

\* Faulty: what was read is not written.
ReadOnly(p) == peer

\* What a peer that has said something gets.
Echoed(p) == [peer EXCEPT ![p] = "answered"]

\* read, and write if something came; it waits until the peer speaks or hangs up.
Echo(t) ==
  /\ At(t, {"tcp_echo_server"}, "read")
  /\ \/ /\ call[t].peer \in Peers /\ peer[call[t].peer] = "said"
        /\ peer' = Echoed(call[t].peer)
     \/ /\ call[t].peer \in Peers => peer[call[t].peer] = "left"
        /\ UNCHANGED peer
  /\ Goes(t, "closeclient")
  /\ UNCHANGED <<table, wire, unheard, backlog>>

CloseClient(t) ==
  /\ At(t, {"tcp_echo_server"}, "closeclient")
  /\ Takes(call[t].client)
  /\ call' = [call EXCEPT ![t].client = NONE, ![t].peer = NONE, ![t].pc = "accept"]
  /\ peer' = [p \in Peers |-> IF p = call[t].peer THEN "away" ELSE peer[p]]
  /\ UNCHANGED <<wire, unheard, backlog>>

\* A peer connects, speaks, and hangs up whenever it likes.
PeerActs(p) ==
  /\ \/ /\ peer[p] = "away" /\ Listening # {} /\ Len(backlog) < BACKLOG
        /\ peer' = [peer EXCEPT ![p] = "silent"] /\ backlog' = Append(backlog, p)
     \/ /\ peer[p] = "silent"
        /\ peer' = [peer EXCEPT ![p] = "said"] /\ UNCHANGED backlog
     \/ /\ peer[p] \in {"silent", "said", "answered"}
        /\ peer' = [peer EXCEPT ![p] = "left"] /\ UNCHANGED backlog
  /\ UNCHANGED <<table, call, wire, unheard>>

-----------------------------------------------------------------------------
\* What a thread does by itself once it has called a helper.
ThreadStep(t) ==
  \/ Socket(t) \/ CloseFd(t) \/ Send(t) \/ Recv(t) \/ Attempt(t) \/ Bind(t) \/ HttpConnect(t)
  \/ Listen(t) \/ AcceptPeer(t) \/ Echo(t) \/ CloseClient(t)

NetStep ==
  \/ \E t \in Threads :
       \/ ThreadStep(t) \/ HttpEnd(t)
       \/ \E fn \in Helpers, host \in Hosts : Calls(t, fn, host)
  \/ \E m \in wire : Lose(m)
  \/ \E p \in Peers : PeerActs(p)
================================================================================
