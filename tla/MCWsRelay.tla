----------------------------- MODULE MCWsRelay ------------------------------
(* The browser sends a fragmented message with a ping in between, or       *)
(* several messages that a dead target cannot take, or breaks the rules.   *)
EXTENDS WsRelay
MCConn == {BrowserConn, TargetConn}
MCIsServer == [c \in MCConn |-> c = BrowserConn]
MCUnit == 1..4

F(c, op, fin, load) ==
  [op |-> op, fin |-> fin, mask |-> c = BrowserConn, valid |-> TRUE, load |-> load]
Text(c, i) == F(c, "text", TRUE, <<i>>)
Bad(c) == F(c, "cont", TRUE, <<1>>)

Session(f, b) == [c \in MCConn |-> IF c = BrowserConn THEN f ELSE b]
MCScript ==
  {Session(<<F(BrowserConn, "binary", FALSE, <<1>>), F(BrowserConn, "ping", TRUE, <<>>),
             F(BrowserConn, "cont", TRUE, <<2>>)>>,
           <<Text(TargetConn, 4)>>),
   Session(<<Text(BrowserConn, 1), Text(BrowserConn, 2)>>,
           <<F(TargetConn, "ping", TRUE, <<>>), F(TargetConn, "close", TRUE, <<>>)>>),
   Session(<<Bad(BrowserConn)>>, <<Text(TargetConn, 4)>>)}
=============================================================================
