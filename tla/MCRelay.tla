------------------------------- MODULE MCRelay ------------------------------
(* One session; the client sends up to three units and the target two,     *)
(* with a buffer of two units, so that reads of different sizes, buffers   *)
(* that have shrunk and both orders of ending occur.                       *)
EXTENDS Relay
MCMaxSent == [s \in Side |-> IF s = Client THEN 3 ELSE 2]
MCFewSent == [s \in Side |-> IF s = Client THEN 2 ELSE 1]
MCInserted == -1
=============================================================================
