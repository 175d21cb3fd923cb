------------------------------ MODULE MCWsLink -------------------------------
(* A server and a client; the client's messages of two units take two      *)
(* frames.  One frame fits into each direction of the network.             *)
EXTENDS WsLink
CONSTANTS sv, cl
MCConn == {sv, cl}
MCIsServer == [c \in MCConn |-> c = sv]
MCMaxMessages == [c \in MCConn |-> IF c = sv THEN 2 ELSE 1]
MCLengths == {2}
MCKindOf == [c \in MCConn |-> IF c = sv THEN "text" ELSE "binary"]
MCUnit == (1..2) \X (1..2)
MCControls == {"ping", "close"}
=============================================================================
