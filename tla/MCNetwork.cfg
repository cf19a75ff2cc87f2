SPECIFICATION Spec
CONSTANTS
  daemon = daemon
  user = user
  Servers = {server}
  Others = {}
  Fds <- MCFds
  Caller = Caller
  Threads <- MCThreads
  Duty <- MCDuty
  Hosts = {h1, h2}
  Ports = {p1}
  Peers = {q1, q2}
  BACKLOG = 1
INVARIANTS OwnDescriptor NothingLeft AnswersMatch
PROPERTIES CallsReturn PeersAnswered
