---------------------------- MODULE MCHttpProxy -----------------------------
(* Every way into and through a tunnel, with each kind of request, body    *)
(* and target, without the combinations that decide nothing.               *)
EXTENDS HttpProxy
Page ==
  [connect |-> FALSE, port443 |-> FALSE, hello |-> "none", kind |-> "page",
   valid |-> TRUE, early |-> FALSE, eager |-> FALSE, body |-> "none", ends |-> TRUE,
   takes |-> TRUE, clear |-> "fine", readable |-> TRUE]
Tunnel(h) == [Page EXCEPT !.connect = TRUE, !.hello = h]
Slow(asks) ==
  asks \cup {[a EXCEPT !.ends = FALSE] : a \in {b \in asks : b.body # "none"}}
       \cup {[a EXCEPT !.takes = FALSE] : a \in asks}
Outright ==
  {[Page EXCEPT !.kind = k, !.body = b] : k \in {"page", "cert", "upgrade"}, b \in {"none", "known", "chunked"}}
Tunnelled ==
  {[Tunnel("tls") EXCEPT !.port443 = p, !.kind = k, !.body = b, !.eager = e] :
     p \in BOOLEAN, k \in {"page", "cert"}, e \in BOOLEAN, b \in {"none", "known"}}
InClear ==
  {[Tunnel("plain") EXCEPT !.kind = k, !.body = b, !.clear = c, !.eager = e] :
     k \in {"page", "upgrade"}, b \in {"none", "known"}, e \in BOOLEAN,
     c \in {"fine", "lossy", "noTarget", "badUrl", "badLength"}}
Upgrades ==
  {[Tunnel(h) EXCEPT !.kind = k, !.valid = v, !.early = e] :
     h \in {"tls", "plain"}, k \in {"upgrade", "halfUpgrade"}, v \in BOOLEAN, e \in BOOLEAN}
MCAsk ==
  Slow(Outright) \cup Slow(Tunnelled) \cup InClear \cup Upgrades
  \cup {[Page EXCEPT !.readable = FALSE], Tunnel("none"), Tunnel("part")}
MCTarget == TargetType
=============================================================================
