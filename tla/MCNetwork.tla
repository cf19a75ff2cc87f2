------------------------------- MODULE MCNetwork -------------------------------
(* One thread runs the echo server, another calls the helpers, a third uses a socket *)
(* object.  do_ping and shell_tcpconnect behave as icmp_send_echo and wifi_scan do.  *)
EXTENDS Network

CONSTANTS daemon, user

MCFds == 3 .. 4
MCThreads == {daemon, user}
MCDuty(t) ==
  IF t = daemon THEN {"tcp_echo_server"}
  ELSE Helpers \ {"tcp_echo_server", "do_ping", "shell_tcpconnect"}
================================================================================
