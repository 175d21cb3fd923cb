----------------------------- MODULE MCTcpProxy -----------------------------
(* Lengths are scaled down: two units for the three bytes of the peek and  *)
(* two for the five of a TLS record header.                                *)
EXTENDS TcpProxy
MCMaxSent == [s \in Side |-> IF s = Client THEN 6 ELSE 1]
MCInserted == -1
=============================================================================
