---------------------------- MODULE MCProxyServer -----------------------------
(* Two acceptors for five; three connections and two descriptors, so that  *)
(* one client, or two, can keep the third out.                             *)
EXTENDS ProxyServer
CONSTANTS c1, c2, c3, a1, a2
MCConn == {c1, c2, c3}
MCAcceptor == {a1, a2}
MCHandler == {"socks5", "tcp"}
=============================================================================
