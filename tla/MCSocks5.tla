------------------------------ MODULE MCSocks5 ------------------------------
(* Greetings with one method, so that the three bytes of the peek are all  *)
(* of it; addresses are scaled down to two bytes (a domain to one).        *)
EXTENDS Socks5
Ask(c, t, n) == [version |-> TRUE, command |-> c, rsv |-> TRUE, type |-> t, addr |-> n]
MCRequest ==
  {Ask("connect", "ipv4", 2), Ask("connect", "domain", 1), Ask("connect", "ipv6", 2), Ask("udp", "ipv4", 2),
   Ask("connect", "domain", 0), Ask("other", "ipv4", 2), Ask("connect", "other", 2),
   [Ask("connect", "ipv4", 2) EXCEPT !.version = FALSE],
   [Ask("connect", "ipv4", 2) EXCEPT !.rsv = FALSE]}
MCConnect == {Ask("connect", "ipv4", 2)}
MCMaxSent == [s \in Side |-> 1]
MCInserted == -1
=============================================================================
