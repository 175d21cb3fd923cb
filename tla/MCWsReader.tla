------------------------------ MODULE MCWsReader ------------------------------
(* The largest integer is 7, so that lengths overflow; keys and words  *)
(* of two bytes for four and eight; reads of up to five bytes.             *)
EXTENDS WsReader
F(op, fin, n) ==
  [op |-> op, fin |-> fin, rsv |-> FALSE, form |-> "short", len |-> n, have |-> n, masked |-> TRUE]
Long(f, claimed) == [f EXCEPT !.form = "long", !.len = claimed]
Ping == F("ping", TRUE, 1)
Masked ==
  {<<F("text", TRUE, 6), F("binary", TRUE, 2)>>,
   <<F("text", FALSE, 3), Ping, F("cont", TRUE, 2), F("close", TRUE, 2)>>,
   <<F("text", FALSE, 2), F("cont", FALSE, 0), F("cont", TRUE, 3), F("text", TRUE, 2)>>,
   <<F("text", TRUE, 1), F("cont", TRUE, 1)>>,
   <<F("text", FALSE, 1), F("text", TRUE, 1)>>,
   <<F("text", FALSE, 4), Long(F("cont", TRUE, 2), 6)>>,
   <<F("text", TRUE, 2), Long(F("text", TRUE, 1), 9)>>,
   <<F("pong", TRUE, 0), [F("text", TRUE, 2) EXCEPT !.rsv = TRUE]>>,
   <<F("text", TRUE, 2), [F("text", TRUE, 2) EXCEPT !.masked = FALSE]>>,
   <<F("text", FALSE, 1), F("ping", FALSE, 1)>>,
   <<[F("text", TRUE, 5) EXCEPT !.form = "mid"], F("badclose", TRUE, 2)>>,
   <<Long(Ping, 1), F("text", TRUE, 1)>>,
   <<F("reserved", TRUE, 1), F("text", TRUE, 1)>>}
Opposite(fs) == [i \in DOMAIN fs |-> [fs[i] EXCEPT !.masked = ~@]]
MCStream == Masked \cup {Opposite(fs) : fs \in Masked}
=============================================================================
