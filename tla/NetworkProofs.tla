----------------------------- MODULE NetworkProofs -----------------------------
(***************************************************************************)
(* Objects and helpers of one process keep to their own descriptors and    *)
(* leave none behind, whatever the numbers of objects, threads,            *)
(* descriptors, ports and peers.                                           *)
(***************************************************************************)
EXTENDS Network, TLAPS

Frames == {"fn", "pc", "fd", "host", "port", "got", "client", "peer"}

\* Where a call may hold which descriptor: none before socket, and a second one only in
\* the echo server between accept and close.
FrameOK(c) ==
  /\ DOMAIN c = Frames
  /\ c.pc = "socket" => c.fd = NONE
  /\ c.client # NONE => /\ c.fn = "tcp_echo_server" /\ c.pc \in {"read", "closeclient"}
                        /\ c.client # c.fd

NetTyped ==
  /\ DOMAIN sockfd = Objects /\ DOMAIN call = Threads /\ open \subseteq Fds
  /\ \A t \in Threads : FrameOK(call[t])
  /\ \A o \in Objects : o \notin alive => sockfd[o] = NONE

NetInv == NetTyped /\ OwnDescriptor /\ NothingLeft

\* Objects, threads and callers are told apart, and -1 is no descriptor.
LEMMA Apart ==
  /\ NONE \notin Fds /\ (\A fd \in Fds : fd >= 0) /\ Caller \notin Objects /\ Caller \notin Threads
  /\ \A o \in Objects : o \notin Threads
  BY FdsAssumption, SocketsAssumption, NetCallsAssumption, NetworkAssumption DEF NONE

LEMMA NetInvInit == Init => NetInv
  BY DEF Init, TableInit, ObjectsInit, NetInit, NetInv, NetTyped, OwnDescriptor, NothingLeft,
         FrameOK, Frames, Idle, open, NONE

-----------------------------------------------------------------------------
(* What the steps do to descriptors.                                       *)

\* The table stays and so does what everybody remembers of it.
LEMMA QuietKeepsNetInv ==
  ASSUME NetInv, UNCHANGED <<holder, objects>>,
         DOMAIN call' = Threads,
         \A t \in Threads : /\ FrameOK(call'[t])
                            /\ call'[t].fd = call[t].fd /\ call'[t].client = call[t].client
  PROVE  NetInv'
  BY DEF NetInv, NetTyped, OwnDescriptor, NothingLeft, open, objects

\* One call goes on with the descriptors it had.
LEMMA FrameKeepsNetInv ==
  ASSUME NetInv, NEW t \in Threads, NEW c, call' = [call EXCEPT ![t] = c],
         UNCHANGED <<holder, objects>>,
         FrameOK(c), c.fd = call[t].fd, c.client = call[t].client
  PROVE  NetInv'
  <1>1. DOMAIN call' = Threads /\ \A u \in Threads : call'[u] = IF u = t THEN c ELSE call[u]
    BY DEF NetInv, NetTyped
  <1>2. \A u \in Threads : FrameOK(call[u])
    BY DEF NetInv, NetTyped
  <1> QED BY <1>1, <1>2, QuietKeepsNetInv

\* A descriptor is given to a thread, which notes it as one of its two.
LEMMA ThreadGetsFd ==
  ASSUME NetInv, NEW t \in Threads, NEW fd \in Fds \ open, Gives(fd, t),
         NEW c, call' = [call EXCEPT ![t] = c], UNCHANGED objects, FrameOK(c),
         \/ call[t].fd = NONE /\ c.fd = fd /\ c.client = call[t].client
         \/ call[t].client = NONE /\ c.client = fd /\ c.fd = call[t].fd
  PROVE  NetInv'
  <1>1. DOMAIN call' = Threads /\ \A u \in Threads : call'[u] = IF u = t THEN c ELSE call[u]
    BY DEF NetInv, NetTyped
  <1>2. open' = open \union {fd} /\ \A f \in open' : holder'[f] = IF f = fd THEN t ELSE holder[f]
    BY DEF Gives, open
  <1>3. NetTyped'
    BY <1>1, <1>2 DEF NetInv, NetTyped, objects
  <1>4. OwnDescriptor'
    BY <1>1, <1>2, Apart DEF NetInv, OwnDescriptor, objects
  <1>5. NothingLeft'
    <2>1. t \in Threads /\ holder'[fd] = t /\ fd \in {call'[t].fd, call'[t].client}
      BY <1>1, <1>2
    <2>2. ASSUME NEW f \in open', f # fd
          PROVE  \/ holder'[f] = Caller
                 \/ holder'[f] \in Objects /\ (sockfd'[holder'[f]] = f \/ f \in lost')
                 \/ holder'[f] \in Threads /\ f \in {call'[holder'[f]].fd, call'[holder'[f]].client}
      <3>1. f \in open /\ holder'[f] = holder[f] /\ f # NONE
        BY <1>2, <2>2, Apart DEF NetInv, NetTyped
      <3>2. \/ holder[f] = Caller
            \/ holder[f] \in Objects /\ (sockfd[holder[f]] = f \/ f \in lost)
            \/ holder[f] \in Threads /\ f \in {call[holder[f]].fd, call[holder[f]].client}
        BY <3>1 DEF NetInv, NothingLeft
      <3> QED BY <1>1, <3>1, <3>2 DEF objects
    <2> QED BY <2>1, <2>2 DEF NothingLeft, open
  <1> QED BY <1>3, <1>4, <1>5 DEF NetInv

\* A thread closes one of its descriptors, which may be -1, and forgets it.
LEMMA ThreadClosesFd ==
  ASSUME NetInv, NEW t \in Threads, NEW fd \in {call[t].fd, call[t].client}, Takes(fd),
         NEW c, call' = [call EXCEPT ![t] = c], UNCHANGED objects, FrameOK(c),
         \/ fd = call[t].fd /\ c.fd = NONE /\ c.client = call[t].client
         \/ fd = call[t].client /\ c.client = NONE /\ c.fd = call[t].fd
  PROVE  NetInv'
  <1>1. DOMAIN call' = Threads /\ \A u \in Threads : call'[u] = IF u = t THEN c ELSE call[u]
    BY DEF NetInv, NetTyped
  <1>2. open' = open \ {fd} /\ \A f \in open' : holder'[f] = holder[f]
    BY DEF Takes, open
  <1>3. FrameOK(call[t]) /\ (fd # NONE => fd \in open /\ holder[fd] = t)
    BY DEF NetInv, NetTyped, OwnDescriptor
  <1>4. NetTyped'
    BY <1>1, <1>2 DEF NetInv, NetTyped, objects
  <1>5. OwnDescriptor'
    BY <1>1, <1>2, <1>3, Apart DEF NetInv, NetTyped, OwnDescriptor, objects, FrameOK
  <1>6. NothingLeft'
    BY <1>1, <1>2, <1>3, Apart DEF NetInv, NetTyped, NothingLeft, OwnDescriptor, objects, FrameOK
  <1> QED BY <1>4, <1>5, <1>6 DEF NetInv

-----------------------------------------------------------------------------
(* The steps of the helpers.                                               *)

\* The record of a call that goes on at pc.
LEMMA GoesKeepsNetInv ==
  ASSUME NetInv, NEW t \in Threads, NEW pc, Goes(t, pc), UNCHANGED <<holder, objects>>,
         pc # "socket", call[t].client # NONE => pc \in {"read", "closeclient"}
  PROVE  NetInv'
  <1> DEFINE c == [call[t] EXCEPT !.pc = pc]
  <1>1. FrameOK(call[t]) /\ call' = [call EXCEPT ![t] = c]
    BY DEF NetInv, NetTyped, Goes
  <1>2. FrameOK(c) /\ c.fd = call[t].fd /\ c.client = call[t].client
    BY <1>1 DEF FrameOK, Frames
  <1> HIDE DEF c
  <1> QED BY <1>1, <1>2, FrameKeepsNetInv

LEMMA IdleOK == FrameOK(Idle) /\ Idle.fd = NONE /\ Idle.client = NONE
  BY DEF FrameOK, Frames, Idle

LEMMA CallsKeepsNetInv ==
  ASSUME NetInv, UNCHANGED objects, NEW t \in Threads, NEW fn, NEW host, Calls(t, fn, host)
  PROVE  NetInv'
  <1> DEFINE c == [Idle EXCEPT !.fn = fn, !.pc = "socket",
                     !.host = IF fn \in {"resolve_dns", "dns_query"} THEN host ELSE NONE]
  <1>1. call[t] = Idle /\ call' = [call EXCEPT ![t] = c] /\ UNCHANGED holder
    BY DEF Calls, table
  <1>2. FrameOK(c) /\ c.fd = NONE /\ c.client = NONE
    BY DEF FrameOK, Frames, Idle
  <1> HIDE DEF c
  <1> QED BY <1>1, <1>2, IdleOK, FrameKeepsNetInv

LEMMA SocketKeepsNetInv ==
  ASSUME NetInv, UNCHANGED objects, NEW t \in Threads, Socket(t)
  PROVE  NetInv'
  <1>1. FrameOK(call[t]) /\ call[t].fd = NONE /\ call[t].client = NONE
    BY DEF NetInv, NetTyped, FrameOK, Socket, At
  <1>2. ASSUME NEW fd \in Fds \ open, Gives(fd, t),
               call' = [call EXCEPT ![t].fd = fd, ![t].pc = "use"]
        PROVE  NetInv'
    <2> DEFINE c == [call[t] EXCEPT !.fd = fd, !.pc = "use"]
    <2>1. call' = [call EXCEPT ![t] = c]
      BY <1>2
    <2>2. FrameOK(c) /\ c.fd = fd /\ c.client = call[t].client
      BY <1>1 DEF FrameOK, Frames
    <2> HIDE DEF c
    <2> QED BY <1>1, <1>2, <2>1, <2>2, ThreadGetsFd
  <1>3. CASE Returns(t) /\ UNCHANGED table
    BY <1>1, <1>3, IdleOK, FrameKeepsNetInv DEF Returns, table
  <1>4. CASE Goes(t, "use") /\ UNCHANGED table
    BY <1>1, <1>4, GoesKeepsNetInv DEF table
  <1> QED BY <1>2, <1>3, <1>4 DEF Socket

LEMMA CloseFdKeepsNetInv ==
  ASSUME NetInv, UNCHANGED objects, NEW t \in Threads, CloseFd(t)
  PROVE  NetInv'
  <1>1. call[t].client = NONE
    BY DEF NetInv, NetTyped, FrameOK, CloseFd, At
  <1> QED BY <1>1, IdleOK, ThreadClosesFd DEF CloseFd, Returns

LEMMA SendKeepsNetInv ==
  ASSUME NetInv, UNCHANGED objects, NEW t \in Threads, Send(t)
  PROVE  NetInv'
  <1>1. /\ FrameOK(call[t]) /\ call[t].client = NONE /\ UNCHANGED holder
        /\ AfterSend(call[t].fn) \notin {"socket"}
    BY DEF NetInv, NetTyped, FrameOK, Send, At, AfterSend, table
  <1>2. ASSUME NEW p, call' = [call EXCEPT ![t].port = p, ![t].pc = AfterSend(call[t].fn)]
        PROVE  NetInv'
    <2> DEFINE c == [call[t] EXCEPT !.port = p, !.pc = AfterSend(call[t].fn)]
    <2>1. call' = [call EXCEPT ![t] = c]
      BY <1>2
    <2>2. FrameOK(c) /\ c.fd = call[t].fd /\ c.client = call[t].client
      BY <1>1 DEF FrameOK, Frames
    <2> HIDE DEF c
    <2> QED BY <1>1, <2>1, <2>2, FrameKeepsNetInv
  <1>3. CASE Goes(t, AfterSend(call[t].fn))
    BY <1>1, <1>3, GoesKeepsNetInv
  <1> QED BY <1>2, <1>3 DEF Send

LEMMA RecvKeepsNetInv ==
  ASSUME NetInv, UNCHANGED objects, NEW t \in Threads, Recv(t)
  PROVE  NetInv'
  <1>1. FrameOK(call[t]) /\ call[t].client = NONE /\ UNCHANGED holder
    BY DEF NetInv, NetTyped, FrameOK, Recv, At, table
  <1> PICK m \in Heard(t) : call' = [call EXCEPT ![t].got = m.host, ![t].pc = "close"]
    BY DEF Recv
  <1> DEFINE c == [call[t] EXCEPT !.got = m.host, !.pc = "close"]
  <1>2. call' = [call EXCEPT ![t] = c]
    OBVIOUS
  <1>3. FrameOK(c) /\ c.fd = call[t].fd /\ c.client = call[t].client
    BY <1>1 DEF FrameOK, Frames
  <1> HIDE DEF c
  <1> QED BY <1>1, <1>2, <1>3, FrameKeepsNetInv

\* What bind makes is the caller's; the call forgets it.
LEMMA BindKeepsNetInv ==
  ASSUME NetInv, UNCHANGED objects, NEW t \in Threads, Bind(t)
  PROVE  NetInv'
  <1>1. FrameOK(call[t]) /\ call[t].client = NONE
    BY DEF NetInv, NetTyped, FrameOK, Bind, At
  <1>2. CASE BindFailed(t) /\ UNCHANGED table
    BY <1>1, <1>2, GoesKeepsNetInv DEF BindFailed, table
  <1>3. CASE call[t].fd # NONE /\ Gives(call[t].fd, Caller) /\ Returns(t)
    <2> DEFINE fd == call[t].fd
    <2>1. fd \in open /\ holder[fd] = t
      BY <1>3 DEF NetInv, OwnDescriptor
    <2>2. open' = open /\ \A f \in open : holder'[f] = IF f = fd THEN Caller ELSE holder[f]
      BY <1>3, <2>1 DEF Gives, open
    <2>3. /\ DOMAIN call' = Threads
          /\ \A u \in Threads : call'[u] = IF u = t THEN Idle ELSE call[u]
      BY <1>3 DEF NetInv, NetTyped, Returns
    <2>4. NetTyped'
      BY <2>2, <2>3, IdleOK DEF NetInv, NetTyped, objects
    <2>5. OwnDescriptor'
      BY <2>1, <2>2, <2>3, IdleOK, Apart DEF NetInv, OwnDescriptor, objects
    <2>6. NothingLeft'
      BY <1>1, <2>1, <2>2, <2>3, IdleOK, Apart DEF NetInv, NothingLeft, objects
    <2> QED BY <2>4, <2>5, <2>6 DEF NetInv
  <1> QED BY <1>2, <1>3 DEF Bind

LEMMA AcceptPeerKeepsNetInv ==
  ASSUME NetInv, UNCHANGED objects, NEW t \in Threads, AcceptPeer(t)
  PROVE  NetInv'
  <1>1. /\ FrameOK(call[t]) /\ call[t].client = NONE /\ call[t].fn = "tcp_echo_server"
    BY DEF NetInv, NetTyped, FrameOK, AcceptPeer, At
  <1>2. ASSUME NEW fd \in Fds \ open, Gives(fd, t), NEW p,
               call' = [call EXCEPT ![t].client = fd, ![t].peer = p, ![t].pc = "read"]
        PROVE  NetInv'
    <2> DEFINE c == [call[t] EXCEPT !.client = fd, !.peer = p, !.pc = "read"]
    <2>1. call' = [call EXCEPT ![t] = c]
      BY <1>2
    <2>2. fd # call[t].fd
      BY Apart DEF NetInv, OwnDescriptor
    <2>3. FrameOK(c) /\ c.client = fd /\ c.fd = call[t].fd
      BY <1>1, <2>2 DEF FrameOK, Frames
    <2> HIDE DEF c
    <2> QED BY <1>1, <1>2, <2>1, <2>3, ThreadGetsFd
  <1>3. CASE Goes(t, "read") /\ UNCHANGED table
    BY <1>1, <1>3, GoesKeepsNetInv DEF table
  <1> QED BY <1>2, <1>3 DEF AcceptPeer

LEMMA CloseClientKeepsNetInv ==
  ASSUME NetInv, UNCHANGED objects, NEW t \in Threads, CloseClient(t)
  PROVE  NetInv'
  <1> DEFINE c == [call[t] EXCEPT !.client = NONE, !.peer = NONE, !.pc = "accept"]
  <1>1. FrameOK(call[t]) /\ Takes(call[t].client) /\ call' = [call EXCEPT ![t] = c]
    BY DEF NetInv, NetTyped, CloseClient
  <1>2. FrameOK(c) /\ c.client = NONE /\ c.fd = call[t].fd
    BY <1>1 DEF FrameOK, Frames
  <1> HIDE DEF c
  <1> QED BY <1>1, <1>2, ThreadClosesFd

LEMMA NetStepKeepsNetInv ==
  ASSUME NetInv, UNCHANGED objects, NetStep
  PROVE  NetInv'
  <1> DEFINE Quiet(t, pc) == Goes(t, pc) /\ UNCHANGED holder /\ pc # "socket"
                             /\ (call[t].client # NONE => pc \in {"read", "closeclient"})
  <1>0. ASSUME NEW t \in Threads, NEW pc, Quiet(t, pc) PROVE NetInv'
    BY <1>0, GoesKeepsNetInv
  <1>1. ASSUME NEW t \in Threads, ThreadStep(t) PROVE NetInv'
    <2>0. FrameOK(call[t])
      BY DEF NetInv, NetTyped
    <2>1. CASE Attempt(t)
      BY <1>0, <2>0, <2>1 DEF Attempt, At, FrameOK, table
    <2>2. CASE HttpConnect(t)
      BY <1>0, <2>0, <2>2 DEF HttpConnect, At, FrameOK, table
    <2>3. CASE Listen(t)
      BY <1>0, <2>0, <2>3 DEF Listen, At, FrameOK
    <2>4. CASE Echo(t)
      BY <1>0, <2>0, <2>4 DEF Echo, At, FrameOK, table
    <2> QED BY <1>1, <2>1, <2>2, <2>3, <2>4, SocketKeepsNetInv, CloseFdKeepsNetInv,
               SendKeepsNetInv, RecvKeepsNetInv, BindKeepsNetInv, AcceptPeerKeepsNetInv,
               CloseClientKeepsNetInv DEF ThreadStep
  <1>2. ASSUME NEW t \in Threads, HttpEnd(t) PROVE NetInv'
    BY <1>0, <1>2 DEF HttpEnd, At, FrameOK, table, NetInv, NetTyped
  <1>3. ASSUME UNCHANGED <<table, call>> PROVE NetInv'
    BY <1>3, QuietKeepsNetInv DEF NetInv, NetTyped, objects, table
  <1>4. ASSUME NEW m \in wire, Lose(m) PROVE NetInv'
    BY <1>3, <1>4 DEF Lose
  <1>5. ASSUME NEW p \in Peers, PeerActs(p) PROVE NetInv'
    BY <1>3, <1>5 DEF PeerActs
  <1> QED BY <1>1, <1>2, <1>4, <1>5, CallsKeepsNetInv DEF NetStep

-----------------------------------------------------------------------------
(* The steps of the objects, and of those they hand descriptors to.        *)

\* What an object had before it was opened again is remembered in lost.
LEMMA OpenKeepsNetInv ==
  ASSUME NetInv, UNCHANGED net, NEW o \in Objects, Open(o)
  PROVE  NetInv'
  <1>0. o \in alive /\ UNCHANGED <<call, alive>> /\ lost' = lost \union ({sockfd[o]} \ {NONE})
    BY DEF net, Open
  <1>1. CASE sockfd' = [sockfd EXCEPT ![o] = NONE] /\ UNCHANGED table
    BY <1>0, <1>1 DEF NetInv, NetTyped, OwnDescriptor, NothingLeft, table, open
  <1>2. ASSUME NEW fd \in Fds \ open, Gives(fd, o), sockfd' = [sockfd EXCEPT ![o] = fd]
        PROVE  NetInv'
    <2>1. open' = open \union {fd} /\ \A f \in open' : holder'[f] = IF f = fd THEN o ELSE holder[f]
      BY <1>2 DEF Gives, open
    <2>2. DOMAIN sockfd' = Objects /\ \A q \in Objects : sockfd'[q] = IF q = o THEN fd ELSE sockfd[q]
      BY <1>2 DEF NetInv, NetTyped
    <2>3. NetTyped'
      BY <1>0, <2>1, <2>2 DEF NetInv, NetTyped
    <2>4. OwnDescriptor'
      BY <1>0, <2>1, <2>2, Apart DEF NetInv, OwnDescriptor
    <2>5. NothingLeft'
      BY <1>0, <2>1, <2>2, Apart DEF NetInv, NothingLeft, NetTyped
    <2> QED BY <2>3, <2>4, <2>5 DEF NetInv
  <1> QED BY <1>1, <1>2 DEF Open, AfterFailure

LEMMA AcceptKeepsNetInv ==
  ASSUME NetInv, UNCHANGED net, NEW o \in Objects, Accept(o)
  PROVE  NetInv'
  <1> PICK fd \in Fds \ open : Gives(fd, Caller)
    BY DEF Accept
  <1>1. UNCHANGED <<call, alive, sockfd, lost>>
    BY DEF net, Accept
  <1>2. open' = open \union {fd} /\ \A f \in open' : holder'[f] = IF f = fd THEN Caller ELSE holder[f]
    BY DEF Gives, open
  <1>3. NetTyped' /\ OwnDescriptor'
    BY <1>1, <1>2 DEF NetInv, NetTyped, OwnDescriptor
  <1>4. NothingLeft'
    BY <1>1, <1>2 DEF NetInv, NothingLeft
  <1> QED BY <1>3, <1>4 DEF NetInv

LEMMA ClosesKeepsNetInv ==
  ASSUME NetInv, UNCHANGED net, NEW o \in Objects, Closes(o), alive \ {o} \subseteq alive'
  PROVE  NetInv'
  <1> DEFINE fd == sockfd[o]
  <1>1. UNCHANGED <<call, lost>> /\ DOMAIN sockfd' = Objects
        /\ \A q \in Objects : sockfd'[q] = IF q = o THEN NONE ELSE sockfd[q]
    BY DEF net, Closes, AfterClose, NetInv, NetTyped
  <1>2. fd # NONE => fd \in open /\ holder[fd] = o
    BY DEF NetInv, OwnDescriptor
  <1>3. CASE fd = NONE
    <2>1. UNCHANGED holder
      BY <1>3 DEF Closes, NONE, table
    <2> QED BY <1>1, <1>3, <2>1 DEF NetInv, NetTyped, OwnDescriptor, NothingLeft, open
  <1>4. CASE fd # NONE
    <2>0. fd \in Fds
      BY <1>2, <1>4 DEF NetInv, NetTyped
    <2>1. fd >= 0
      BY <2>0, Apart
    <2>2. open' = open \ {fd} /\ \A f \in open' : holder'[f] = holder[f]
      BY <2>1 DEF Closes, Takes, open
    <2>3. NetTyped' /\ OwnDescriptor'
      BY <1>1, <1>2, <1>4, <2>2, Apart DEF NetInv, NetTyped, OwnDescriptor
    <2>4. NothingLeft'
      BY <1>1, <1>2, <1>4, <2>2, Apart DEF NetInv, NothingLeft
    <2> QED BY <2>3, <2>4 DEF NetInv
  <1> QED BY <1>3, <1>4

LEMMA ObjectStepKeepsNetInv ==
  ASSUME NetInv, UNCHANGED net, ObjectStep
  PROVE  NetInv'
  <1> PICK o \in Objects : Construct(o) \/ Open(o) \/ Accept(o) \/ Close(o) \/ Destroy(o)
    BY DEF ObjectStep
  <1>1. CASE Construct(o)
    <2>1. UNCHANGED <<holder, call, lost>> /\ alive' = alive \union {o}
      BY <1>1 DEF Construct, net, table
    <2>2. DOMAIN sockfd' = Objects /\ \A q \in Objects : sockfd'[q] = sockfd[q]
      BY <1>1 DEF Construct, NetInv, NetTyped
    <2> QED BY <2>1, <2>2 DEF NetInv, NetTyped, OwnDescriptor, NothingLeft, open
  <1> QED BY <1>1, OpenKeepsNetInv, AcceptKeepsNetInv, ClosesKeepsNetInv DEF Close, Destroy

LEMMA HangUpKeepsNetInv ==
  ASSUME NetInv, UNCHANGED <<objects, net>>, NEW fd \in Fds, HangUp(fd)
  PROVE  NetInv'
  <1>1. UNCHANGED <<call, alive, sockfd, lost>> /\ holder[fd] = Caller
    BY DEF net, objects, HangUp
  <1>2. open' = open \ {fd} /\ \A f \in open' : holder'[f] = holder[f]
    BY DEF HangUp, Takes, open
  <1>3. NetTyped' /\ OwnDescriptor'
    BY <1>1, <1>2, Apart DEF NetInv, NetTyped, OwnDescriptor
  <1>4. NothingLeft'
    BY <1>1, <1>2 DEF NetInv, NothingLeft
  <1> QED BY <1>3, <1>4 DEF NetInv

-----------------------------------------------------------------------------
LEMMA NetInvStep == NetInv /\ [Next]_vars => NetInv'
  <1> SUFFICES ASSUME NetInv, [Next]_vars PROVE NetInv'
    OBVIOUS
  <1>1. CASE ObjectStep /\ UNCHANGED net
    BY <1>1, ObjectStepKeepsNetInv
  <1>2. CASE NetStep /\ UNCHANGED objects
    BY <1>2, NetStepKeepsNetInv
  <1>3. ASSUME NEW fd \in Fds, HangUp(fd), UNCHANGED <<objects, net>> PROVE NetInv'
    BY <1>3, HangUpKeepsNetInv
  <1>4. CASE UNCHANGED vars
    BY <1>4, QuietKeepsNetInv DEF vars, table, objects, net, NetInv, NetTyped
  <1> QED BY <1>1, <1>2, <1>3, <1>4 DEF Next

\* The invariant of the descriptors (tcp.cpp, udp.cpp, net/*.cpp, kernel/net).
THEOREM NetInvariant == Spec => []NetInv
  BY NetInvInit, NetInvStep, PTL DEF Spec

\* Nobody speaks through, or closes, a descriptor that was given to another.
THEOREM OwnDescriptorHolds == Spec => []OwnDescriptor
  <1>1. NetInv => OwnDescriptor
    BY DEF NetInv
  <1> QED BY <1>1, NetInvariant, PTL

\* Every open descriptor can still be closed, but for those whose object was opened once
\* more before it was closed.
THEOREM NothingLeftHolds == Spec => []NothingLeft
  <1>1. NetInv => NothingLeft
    BY DEF NetInv
  <1> QED BY <1>1, NetInvariant, PTL

-----------------------------------------------------------------------------
(* Questions and answers.                                                  *)

Awaits(t, m) ==
  /\ call[t].fn = "dns_query" /\ call[t].pc = "recv"
  /\ call[t].port = m.port /\ call[t].host = m.host

\* A message under way is awaited by the call that asked, which alone has its port, or
\* its port is spoilt.
AnswersInv ==
  /\ \A t, u \in Threads : call[t].port # NONE /\ call[t].port = call[u].port => t = u
  /\ \A m \in wire : /\ m.port # NONE
                     /\ m.port \in unheard \/ \E t \in Threads : Awaits(t, m)
                     /\ m = [port |-> m.port, host |-> m.host]
  /\ \A t \in Threads : call[t].host \in Hosts => call[t].fn \in {"resolve_dns", "dns_query"}
  /\ \A t \in Threads : call[t].got # NONE => call[t].fn = "dns_query" /\ call[t].pc = "close"
  /\ AnswersMatch

LEMMA AnswersInvParts ==
  ASSUME AnswersInv
  PROVE  /\ \A t \in Threads : call[t].got # NONE => call[t].fn = "dns_query" /\ call[t].pc = "close"
         /\ \A t \in Threads :
              call[t].got # NONE /\ call[t].port \notin unheard => call[t].got = call[t].host
  BY DEF AnswersInv, AnswersMatch

LEMMA NamesApart == NONE \notin Ports /\ NONE \notin Hosts
  BY NetCallsAssumption

LEMMA AnswersInvInit == Init => AnswersInv
  BY NamesApart DEF Init, NetInit, AnswersInv, AnswersMatch, Idle

\* Messages may be lost while nobody does anything.
LEMMA LossKeepsAnswersInv ==
  ASSUME AnswersInv, UNCHANGED <<call, unheard>>, wire' \subseteq wire
  PROVE  AnswersInv'
  BY DEF AnswersInv, AnswersMatch, Awaits

\* A call that waits for no answer goes on, or starts afresh without a port.
LEMMA FrameKeepsAnswersInv ==
  ASSUME NetTyped, AnswersInv, NEW t \in Threads, NEW c, call' = [call EXCEPT ![t] = c],
         UNCHANGED <<wire, unheard>>,
         ~(call[t].fn = "dns_query" /\ call[t].pc = "recv"),
         \/ /\ c.fn = call[t].fn /\ c.host = call[t].host
            /\ c.port = call[t].port /\ c.got = call[t].got
            /\ c.got # NONE => c.pc = "close"
         \/ /\ c.port = NONE /\ c.got = NONE
            /\ c.host \in Hosts => c.fn \in {"resolve_dns", "dns_query"}
  PROVE  AnswersInv'
  <1>1. \A u \in Threads : call'[u] = IF u = t THEN c ELSE call[u]
    BY DEF NetTyped
  <1>2. \A m \in wire, u \in Threads : Awaits(u, m) => u # t /\ Awaits(u, m)'
    BY <1>1 DEF Awaits
  <1>3. \A u, v \in Threads : call'[u].port # NONE /\ call'[u].port = call'[v].port => u = v
    BY <1>1 DEF AnswersInv
  <1>4. \A m \in wire' : m.port \in unheard' \/ \E u \in Threads : Awaits(u, m)'
    BY <1>2 DEF AnswersInv
  <1>5. \A u \in Threads : call'[u].host \in Hosts => call'[u].fn \in {"resolve_dns", "dns_query"}
    BY <1>1 DEF AnswersInv
  <1>6. \A u \in Threads : call'[u].got # NONE => call'[u].fn = "dns_query" /\ call'[u].pc = "close"
    BY <1>1 DEF AnswersInv
  <1>7. AnswersMatch'
    BY <1>1 DEF AnswersInv, AnswersMatch
  <1>8. \A m \in wire' : m.port # NONE /\ m = [port |-> m.port, host |-> m.host]
    BY DEF AnswersInv
  <1> QED BY <1>3, <1>4, <1>5, <1>6, <1>7, <1>8 DEF AnswersInv

LEMMA GoesKeepsAnswersInv ==
  ASSUME NetTyped, AnswersInv, NEW t \in Threads, NEW pc, Goes(t, pc), UNCHANGED <<wire, unheard>>,
         call[t].pc \notin {"recv", "close"}
  PROVE  AnswersInv'
  <1> DEFINE c == [call[t] EXCEPT !.pc = pc]
  <1>1. FrameOK(call[t]) /\ call' = [call EXCEPT ![t] = c] /\ call[t].got = NONE
    BY DEF NetTyped, Goes, AnswersInv
  <1>2. /\ c.fn = call[t].fn /\ c.host = call[t].host
        /\ c.port = call[t].port /\ c.got = call[t].got
    BY <1>1 DEF FrameOK, Frames
  <1> HIDE DEF c
  <1> QED BY <1>1, <1>2, FrameKeepsAnswersInv

LEMMA ReturnsKeepsAnswersInv ==
  ASSUME NetTyped, AnswersInv, NEW t \in Threads, Returns(t), UNCHANGED <<wire, unheard>>,
         call[t].pc # "recv"
  PROVE  AnswersInv'
  <1>1. Idle.port = NONE /\ Idle.got = NONE /\ Idle.host \notin Hosts
    BY NamesApart DEF Idle
  <1> QED BY <1>1, FrameKeepsAnswersInv DEF Returns

LEMMA CallsKeepsAnswersInv ==
  ASSUME NetTyped, AnswersInv, NEW t \in Threads, NEW fn, NEW host, Calls(t, fn, host)
  PROVE  AnswersInv'
  <1> DEFINE c == [Idle EXCEPT !.fn = fn, !.pc = "socket",
                     !.host = IF fn \in {"resolve_dns", "dns_query"} THEN host ELSE NONE]
  <1>1. call[t] = Idle /\ call' = [call EXCEPT ![t] = c] /\ UNCHANGED <<wire, unheard>>
    BY DEF Calls
  <1>2. c.port = NONE /\ c.got = NONE /\ (c.host \in Hosts => c.fn \in {"resolve_dns", "dns_query"})
    BY NamesApart DEF Idle
  <1>3. call[t].pc # "recv"
    BY <1>1 DEF Idle
  <1> HIDE DEF c
  <1> QED BY <1>1, <1>2, <1>3, FrameKeepsAnswersInv

\* The question goes out from a port that nobody has; resolve_dns spoils it.
LEMMA SendKeepsAnswersInv ==
  ASSUME NetTyped, AnswersInv, NEW t \in Threads, Send(t)
  PROVE  AnswersInv'
  <1>0. /\ call[t].pc = "use" /\ call[t].fn \in Senders \union {"dns_query"}
        /\ FrameOK(call[t]) /\ call[t].got = NONE
    BY DEF Send, At, AnswersInv, NetTyped
  <1>1. CASE call[t].host \in Hosts
    <2> PICK p \in FreePorts :
          /\ wire' = wire \union {Question(t, p)}
          /\ call' = [call EXCEPT ![t].port = p, ![t].pc = AfterSend(call[t].fn)]
          /\ unheard' = IF call[t].fn = "resolve_dns" THEN unheard \union {p} ELSE unheard
      BY <1>1 DEF Send
    <2> PICK q : q = Question(t, p)
      OBVIOUS
    <2> DEFINE c == [call[t] EXCEPT !.port = p, !.pc = AfterSend(call[t].fn)]
    <2>1. /\ c.fn = call[t].fn /\ c.host = call[t].host /\ c.port = p /\ c.got = NONE
          /\ c.pc = AfterSend(call[t].fn)
      BY <1>0 DEF FrameOK, Frames
    <2>2. call' = [call EXCEPT ![t] = c]
      OBVIOUS
    <2> HIDE DEF c
    <2>3. \A u \in Threads : call'[u] = IF u = t THEN c ELSE call[u]
      BY <2>2 DEF NetTyped
    <2>4. p # NONE /\ \A u \in Threads : call[u].port # p
      BY NamesApart DEF FreePorts
    <2>5. call[t].fn \in {"resolve_dns", "dns_query"}
      BY <1>1 DEF AnswersInv
    <2>6. q.port = p /\ q.host = call[t].host /\ q = [port |-> q.port, host |-> q.host]
      BY DEF Question
    <2>7. p \in unheard' \/ Awaits(t, q)'
      <3>1. CASE call[t].fn = "dns_query"
        BY <2>1, <2>3, <2>6, <3>1 DEF Awaits, AfterSend
      <3> QED BY <2>5, <3>1
    <2>8. \A m \in wire, u \in Threads : Awaits(u, m) => Awaits(u, m)'
      BY <1>0, <2>3 DEF Awaits
    <2>9. \A m \in wire' : /\ m.port # NONE /\ m = [port |-> m.port, host |-> m.host]
                           /\ m.port \in unheard' \/ \E u \in Threads : Awaits(u, m)'
      <3>1. ASSUME NEW m \in wire
            PROVE  /\ m.port # NONE /\ m = [port |-> m.port, host |-> m.host]
                   /\ m.port \in unheard' \/ \E u \in Threads : Awaits(u, m)'
        BY <2>8 DEF AnswersInv
      <3> QED BY <2>4, <2>6, <2>7, <3>1
    <2>10. \A u, v \in Threads : call'[u].port # NONE /\ call'[u].port = call'[v].port => u = v
      BY <2>1, <2>3, <2>4 DEF AnswersInv
    <2>11. \A u \in Threads : call'[u].host \in Hosts => call'[u].fn \in {"resolve_dns", "dns_query"}
      <3>1. ASSUME NEW u \in Threads \ {t}, call'[u].host \in Hosts
            PROVE  call'[u].fn \in {"resolve_dns", "dns_query"}
        BY <2>3, <3>1 DEF AnswersInv
      <3>2. call'[t].fn \in {"resolve_dns", "dns_query"}
        BY <2>1, <2>3, <2>5
      <3> QED BY <3>1, <3>2
    <2>12. \A u \in Threads : call'[u].got # NONE => call'[u].fn = "dns_query" /\ call'[u].pc = "close"
      <3>1. ASSUME NEW u \in Threads \ {t}, call'[u].got # NONE
            PROVE  call'[u].fn = "dns_query" /\ call'[u].pc = "close"
        BY <2>3, <3>1, AnswersInvParts
      <3>2. call'[t].got = NONE
        BY <2>1, <2>3
      <3> QED BY <3>1, <3>2
    <2>13. AnswersMatch'
      <3>1. unheard \subseteq unheard'
        OBVIOUS
      <3> SUFFICES ASSUME NEW u \in Threads, call'[u].got # NONE, call'[u].port \notin unheard'
                   PROVE  call'[u].got = call'[u].host
        BY DEF AnswersMatch
      <3>2. call'[u] = call[u]
        BY <2>1, <2>3
      <3> QED BY <3>1, <3>2, AnswersInvParts
    <2>14. \A m \in wire' : /\ m.port # NONE
                            /\ m.port \in unheard' \/ \E u \in Threads : Awaits(u, m)'
                            /\ m = [port |-> m.port, host |-> m.host]
      BY <2>9
    <2> QED BY <2>10, <2>11, <2>12, <2>13, <2>14 DEF AnswersInv
  <1>2. CASE Goes(t, AfterSend(call[t].fn)) /\ UNCHANGED <<wire, unheard>>
    BY <1>0, <1>2, GoesKeepsAnswersInv
  <1> QED BY <1>1, <1>2 DEF Send

\* What comes to a port that is not spoilt was awaited there, and nothing else is left.
LEMMA RecvKeepsAnswersInv ==
  ASSUME NetTyped, AnswersInv, NEW t \in Threads, Recv(t)
  PROVE  AnswersInv'
  <1>p. PICK m \in Heard(t) :
          /\ wire' = wire \ {m}
          /\ call' = [call EXCEPT ![t].got = m.host, ![t].pc = "close"]
    BY DEF Recv
  <1>0. /\ m \in wire /\ m.port = call[t].port
        /\ FrameOK(call[t]) /\ call[t].fn = "dns_query" /\ UNCHANGED unheard
    BY DEF Recv, At, Heard, For, NetTyped
  <1> DEFINE c == [call[t] EXCEPT !.got = m.host, !.pc = "close"]
  <1>1. /\ c.fn = "dns_query" /\ c.host = call[t].host /\ c.port = call[t].port
        /\ c.got = m.host /\ c.pc = "close"
    BY <1>0 DEF FrameOK, Frames
  <1>2. call' = [call EXCEPT ![t] = c] /\ wire' = wire \ {m}
    BY <1>p
  <1> HIDE DEF c
  <1>3. \A u \in Threads : call'[u] = IF u = t THEN c ELSE call[u]
    BY <1>2 DEF NetTyped
  <1>4. \A n \in wire : n.port = call[t].port /\ n.port \notin unheard => n.host = call[t].host
    BY DEF AnswersInv, Awaits
  <1>5. \A n \in wire, u \in Threads : Awaits(u, n) /\ u # t => Awaits(u, n)'
    BY <1>3 DEF Awaits
  <1>6. \A n \in wire' : n.port \in unheard' \/ \E u \in Threads : Awaits(u, n)'
    <2> SUFFICES ASSUME NEW n \in wire', n.port \notin unheard'
                 PROVE  \E u \in Threads : Awaits(u, n)'
      OBVIOUS
    <2>1. n \in wire /\ n # m /\ n.port \notin unheard
      BY <1>0, <1>2
    <2>2. PICK u \in Threads : Awaits(u, n)
      BY <2>1 DEF AnswersInv
    <2>3. CASE u = t
      <3>1. n.port = m.port /\ n.host = m.host
        BY <1>0, <1>4, <2>1, <2>2, <2>3 DEF Awaits
      <3>2. n = [port |-> n.port, host |-> n.host] /\ m = [port |-> m.port, host |-> m.host]
        BY <1>0, <2>1 DEF AnswersInv
      <3> QED BY <2>1, <3>1, <3>2
    <2>4. CASE u # t
      BY <1>5, <2>1, <2>2, <2>4
    <2> QED BY <2>3, <2>4
  <1>7. \A n \in wire' : n.port # NONE /\ n = [port |-> n.port, host |-> n.host]
    BY <1>2 DEF AnswersInv
  <1>8. \A u, v \in Threads : call'[u].port # NONE /\ call'[u].port = call'[v].port => u = v
    BY <1>1, <1>3 DEF AnswersInv
  <1>9. \A u \in Threads : call'[u].host \in Hosts => call'[u].fn \in {"resolve_dns", "dns_query"}
    BY <1>1, <1>3 DEF AnswersInv
  <1>10. \A u \in Threads : call'[u].got # NONE => call'[u].fn = "dns_query" /\ call'[u].pc = "close"
    BY <1>1, <1>3, AnswersInvParts
  <1>11. AnswersMatch'
    <2>1. m.port \notin unheard => m.host = call[t].host
      BY <1>0, <1>4
    <2> SUFFICES ASSUME NEW u \in Threads, call'[u].got # NONE, call'[u].port \notin unheard'
                 PROVE  call'[u].got = call'[u].host
      BY DEF AnswersMatch
    <2>0. unheard' = unheard
      BY <1>0
    <2>2. CASE u = t
      <3>1. call'[u] = c
        BY <1>3, <2>2
      <3>2. m.port \notin unheard
        BY <1>0, <1>1, <2>0, <3>1
      <3> QED BY <1>1, <2>1, <3>1, <3>2
    <2>3. CASE u # t
      <3>1. call'[u] = call[u]
        BY <1>3, <2>3
      <3>2. call[u].got # NONE /\ call[u].port \notin unheard
        BY <2>0, <3>1
      <3>3. call[u].got = call[u].host
        BY <3>2, AnswersInvParts
      <3> QED BY <3>1, <3>3
    <2> QED BY <2>2, <2>3
  <1> QED BY <1>6, <1>7, <1>8, <1>9, <1>10, <1>11 DEF AnswersInv

\* Steps that change nothing of a call but where it is and its descriptors.
LEMMA DescriptorKeepsAnswersInv ==
  ASSUME NetTyped, AnswersInv, NEW t \in Threads, NEW c, call' = [call EXCEPT ![t] = c],
         UNCHANGED <<wire, unheard>>, call[t].pc \notin {"recv", "close"},
         \A f \in {"fn", "host", "port", "got"} : c[f] = call[t][f]
  PROVE  AnswersInv'
  <1>1. call[t].got = NONE
    BY DEF AnswersInv
  <1>2. /\ c.fn = call[t].fn /\ c.host = call[t].host
        /\ c.port = call[t].port /\ c.got = call[t].got
    OBVIOUS
  <1> QED BY <1>1, <1>2, FrameKeepsAnswersInv

LEMMA NetStepKeepsAnswersInv ==
  ASSUME NetTyped, AnswersInv, NetStep
  PROVE  AnswersInv'
  <1>1. ASSUME NEW t \in Threads, ThreadStep(t) PROVE AnswersInv'
    <2>0. FrameOK(call[t])
      BY DEF NetTyped
    <2>1. CASE Socket(t)
      <3>1. ASSUME NEW fd, call' = [call EXCEPT ![t].fd = fd, ![t].pc = "use"]
            PROVE  AnswersInv'
        <4> DEFINE c == [call[t] EXCEPT !.fd = fd, !.pc = "use"]
        <4>1. \A f \in {"fn", "host", "port", "got"} : c[f] = call[t][f]
          BY <2>0 DEF FrameOK, Frames
        <4>2. call' = [call EXCEPT ![t] = c]
          BY <3>1
        <4> HIDE DEF c
        <4> QED BY <2>1, <4>1, <4>2, DescriptorKeepsAnswersInv DEF Socket, At
      <3> QED BY <2>1, <3>1, GoesKeepsAnswersInv, ReturnsKeepsAnswersInv DEF Socket, At
    <2>2. CASE CloseFd(t)
      BY <2>2, ReturnsKeepsAnswersInv DEF CloseFd, At
    <2>3. CASE Attempt(t) \/ HttpConnect(t)
      BY <2>3, GoesKeepsAnswersInv DEF Attempt, HttpConnect, At
    <2>4. CASE Bind(t)
      BY <2>4, GoesKeepsAnswersInv, ReturnsKeepsAnswersInv DEF Bind, BindFailed, At
    <2>5. CASE Listen(t) \/ Echo(t)
      BY <2>5, GoesKeepsAnswersInv DEF Listen, Echo, At
    <2>6. CASE AcceptPeer(t)
      <3>1. ASSUME NEW fd, NEW p,
                   call' = [call EXCEPT ![t].client = fd, ![t].peer = p, ![t].pc = "read"]
            PROVE  AnswersInv'
        <4> DEFINE c == [call[t] EXCEPT !.client = fd, !.peer = p, !.pc = "read"]
        <4>1. \A f \in {"fn", "host", "port", "got"} : c[f] = call[t][f]
          BY <2>0 DEF FrameOK, Frames
        <4>2. call' = [call EXCEPT ![t] = c]
          BY <3>1
        <4> HIDE DEF c
        <4> QED BY <2>6, <4>1, <4>2, DescriptorKeepsAnswersInv DEF AcceptPeer, At
      <3> QED BY <2>6, <3>1, GoesKeepsAnswersInv DEF AcceptPeer, At
    <2>7. CASE CloseClient(t)
      <3> DEFINE c == [call[t] EXCEPT !.client = NONE, !.peer = NONE, !.pc = "accept"]
      <3>1. \A f \in {"fn", "host", "port", "got"} : c[f] = call[t][f]
        BY <2>0 DEF FrameOK, Frames
      <3>2. call' = [call EXCEPT ![t] = c]
        BY <2>7 DEF CloseClient
      <3> HIDE DEF c
      <3> QED BY <2>7, <3>1, <3>2, DescriptorKeepsAnswersInv DEF CloseClient, At
    <2> QED BY <1>1, <2>1, <2>2, <2>3, <2>4, <2>5, <2>6, <2>7, SendKeepsAnswersInv,
               RecvKeepsAnswersInv DEF ThreadStep
  <1>2. ASSUME NEW t \in Threads, HttpEnd(t) PROVE AnswersInv'
    BY <1>2, GoesKeepsAnswersInv DEF HttpEnd, At
  <1>3. ASSUME NEW m \in wire, Lose(m) PROVE AnswersInv'
    BY <1>3, LossKeepsAnswersInv DEF Lose
  <1>4. ASSUME NEW p \in Peers, PeerActs(p) PROVE AnswersInv'
    BY <1>4, LossKeepsAnswersInv DEF PeerActs
  <1> QED BY <1>1, <1>2, <1>3, <1>4, CallsKeepsAnswersInv DEF NetStep

LEMMA AnswersInvStep == NetInv /\ AnswersInv /\ [Next]_vars => AnswersInv'
  <1> SUFFICES ASSUME NetInv, AnswersInv, [Next]_vars PROVE AnswersInv'
    OBVIOUS
  <1>1. CASE NetStep
    BY <1>1, NetStepKeepsAnswersInv DEF NetInv
  <1>2. CASE UNCHANGED net
    BY <1>2, LossKeepsAnswersInv DEF net
  <1> QED BY <1>1, <1>2 DEF Next, vars

\* dns_query returns the answer to its own question unless resolve_dns has spoilt its port
\* (drivers dns.cpp:43-45, net/dns.cpp:40-42).
THEOREM AnswersMatchHolds == Spec => []AnswersMatch
  <1>1. AnswersInv => AnswersMatch
    BY DEF AnswersInv
  <1> QED BY <1>1, NetInvariant, AnswersInvInit, AnswersInvStep, PTL DEF Spec
================================================================================
