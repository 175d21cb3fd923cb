------------------------------- MODULE Socks5 --------------------------------
(***************************************************************************)
(* One connection that ProxyServer.handle classifies as SOCKS5: the        *)
(* handshake of ProxySocks5.Handle and the relay of module Relay.          *)
(*                                                                         *)
(* The handshake reads through the bufio.Reader of ConnPeer: ReadByte      *)
(* waits for a byte, Read returns what is buffered even when that is less  *)
(* than was asked for.  A byte is known by its position in the client's    *)
(* stream; what the handshake makes of it is decided by "request".         *)
(***************************************************************************)
EXTENDS Relay

CONSTANTS
  Request,    \* the requests a client may send
  PeekLen,    \* bytes handle waits for (3)
  NMethods    \* methods the greeting offers

Command == {"connect", "bind", "udp", "other"}
AddrType == {"ipv4", "ipv6", "domain", "other"}

ASSUME Socks5Assumption ==
  /\ Request \subseteq [version : BOOLEAN, command : Command, rsv : BOOLEAN,
                        type : AddrType, addr : Nat]
  /\ PeekLen \in Nat /\ NMethods \in Nat

VARIABLES
  step,     \* where Handle is while session = "setup"
  request,  \* what the client asks for
  split,    \* the network may deliver a message in pieces
  eager,    \* the client does not wait for the replies
  used,     \* bytes of the client the handshake has consumed
  port,     \* whether the port dialled is the client's
  replies   \* the replies the client was sent

s5Only == <<step, request, split, eager, used, port, replies>>
s5Vars == <<vars, s5Only>>

S5Init ==
  /\ sent = [s \in Side |-> 0]
  /\ peer = [s \in Side |-> "open"]
  /\ reset = [s \in Side |-> FALSE]
  /\ conn = [s \in Side |-> s = Client]
  /\ taken = [s \in Side |-> 0]
  /\ first = [s \in Side |-> 0]
  /\ chunk = [s \in Side |-> <<>>]
  /\ buf = [s \in Side |-> BufLen]
  /\ loop = [s \in Side |-> "off"]
  /\ got = [s \in Side |-> <<>>]
  /\ stop = 0
  /\ session = "setup"
  /\ step = "peek"
  /\ request \in Request
  /\ split \in BOOLEAN /\ eager \in BOOLEAN
  /\ used = 0
  /\ port = "none"
  /\ replies = <<>>

-----------------------------------------------------------------------------
(* Where the greeting, the header, the address and the request end. *)
GreetingEnd == 2 + NMethods
HeaderEnd == GreetingEnd + IF request.type = "domain" THEN 5 ELSE 4
AddrEnd == HeaderEnd + request.addr
RequestEnd == AddrEnd + 2

(* The client sends the greeting, the request, and then data, waiting for  *)
(* the reply to each unless it is eager.                                   *)
ClientSend ==
  /\ conn[Client] /\ peer[Client] = "open"
  /\ \/ /\ sent[Client] = 0
        /\ sent' = [sent EXCEPT ![Client] = GreetingEnd]
     \/ /\ sent[Client] = GreetingEnd
        /\ eager \/ "method" \in {replies[i] : i \in DOMAIN replies}
        /\ sent' = [sent EXCEPT ![Client] = RequestEnd]
     \/ /\ sent[Client] \in RequestEnd..(RequestEnd + MaxSent[Client] - 1)
        /\ eager \/ "success" \in {replies[i] : i \in DOMAIN replies}
        /\ sent' = [sent EXCEPT ![Client] = @ + 1]
  /\ UNCHANGED <<peer, reset, relayVars, s5Only>>

-----------------------------------------------------------------------------
UnchangedInSetup ==
  UNCHANGED <<endpointVars, reset, first, chunk, buf, loop, got, stop, request, split, eager>>

ClientGone ==
  reset[Client] \/ (peer[Client] # "open" /\ taken[Client] = sent[Client])

Buffered == taken[Client] - used

(* The reader needs bytes: the peek fewer than it has, the others any. *)
Starved ==
  IF step = "peek" THEN Buffered < PeekLen
  ELSE step \in {"greeting", "header", "addr", "port"} /\ Buffered = 0

(* The handshake returns without a target: handle's deferred function. *)
GiveUp == session' = "event" /\ step' = "past"

(* fill: one Read of the connection. *)
Fill ==
  /\ Starved /\ ~reset[Client]
  /\ \E n \in 1..(sent[Client] - taken[Client]) :
       /\ split \/ n = sent[Client] - taken[Client]
       /\ taken' = [taken EXCEPT ![Client] = @ + n]
  /\ UnchangedInSetup /\ UNCHANGED <<conn, session, step, used, port, replies>>

(* The stream ends where a byte is needed. *)
ReadFail ==
  /\ Starved /\ ClientGone
  /\ GiveUp
  /\ UnchangedInSetup /\ UNCHANGED <<conn, taken, used, port, replies>>

(* The first byte, 5, selects ProxySocks5. *)
Dispatch ==
  /\ step = "peek" /\ Buffered >= PeekLen
  /\ step' = "greeting"
  /\ UnchangedInSetup /\ UNCHANGED <<conn, taken, session, used, port, replies>>

(* ReadByte: version, number of methods, methods. *)
ReadGreeting ==
  /\ step = "greeting" /\ used < GreetingEnd /\ Buffered > 0
  /\ used' = used + 1
  /\ UnchangedInSetup /\ UNCHANGED <<conn, taken, session, step, port, replies>>

(* The reply is flushed; a failed flush goes unnoticed. *)
ReplyMethod ==
  /\ step = "greeting" /\ used = GreetingEnd
  /\ replies' = Append(replies, "method")
  /\ step' = "header"
  /\ UnchangedInSetup /\ UNCHANGED <<conn, taken, session, used, port>>

(* The k-th byte of the header makes Handle return. *)
Refused(k) ==
  \/ k = 1 /\ ~request.version
  \/ k = 2 /\ request.command = "other"
  \/ k = 3 /\ ~request.rsv
  \/ k = 4 /\ request.type = "other"
  \/ k = 5 /\ request.addr = 0

(* ReadByte: version, command, reserved, address type, length of a domain. *)
ReadHeader ==
  /\ step = "header" /\ Buffered > 0
  /\ used' = used + 1
  /\ \/ Refused(used' - GreetingEnd) /\ GiveUp
     \/ /\ ~Refused(used' - GreetingEnd)
        /\ step' = IF used' = HeaderEnd THEN "addr" ELSE "header"
        /\ UNCHANGED session
  /\ UnchangedInSetup /\ UNCHANGED <<conn, taken, port, replies>>

(* Mutant: a short read waits for the rest without reading any more. *)
ReadAddrWaits ==
  /\ step = "addr" /\ Buffered >= request.addr
  /\ used' = AddrEnd /\ step' = "port"
  /\ UnchangedInSetup /\ UNCHANGED <<conn, taken, session, port, replies>>

(* Read fills the buffer of the address, or falls short and is refused. *)
ReadAddr ==
  /\ step = "addr" /\ Buffered > 0
  /\ \/ /\ Buffered >= request.addr
        /\ used' = AddrEnd /\ step' = "port" /\ UNCHANGED session
     \/ /\ Buffered < request.addr
        /\ used' = taken[Client] /\ GiveUp
  /\ UnchangedInSetup /\ UNCHANGED <<conn, taken, port, replies>>

(* Mutant: the port is read one byte short. *)
ReadPortOneByte ==
  /\ step = "port" /\ Buffered > 0
  /\ used' = used + 1
  /\ port' = "right"
  /\ step' = "dial"
  /\ UnchangedInSetup /\ UNCHANGED <<conn, taken, session, replies>>

(* Read of the two bytes of the port; a short read leaves the low byte 0. *)
ReadPort ==
  /\ step = "port" /\ Buffered > 0
  /\ IF Buffered >= 2
     THEN used' = RequestEnd /\ port' = "right"
     ELSE used' = used + 1 /\ port' = "wrong"
  /\ step' = "dial"
  /\ UnchangedInSetup /\ UNCHANGED <<conn, taken, session, replies>>

(* An IPv6 address is joined to the port without brackets: no such dial    *)
(* succeeds.  (A domain may resolve to one: DialFail.)                     *)
Dial ==
  /\ step = "dial" /\ request.type # "ipv6"
  /\ conn' = [conn EXCEPT ![Target] = TRUE]
  /\ step' = "reply"
  /\ UnchangedInSetup /\ UNCHANGED <<taken, session, used, port, replies>>

(* Mutant: the success reply is written whatever the dial returns. *)
DialFailSuccess ==
  /\ step = "dial"
  /\ replies' = Append(replies, "success")
  /\ GiveUp
  /\ UnchangedInSetup /\ UNCHANGED <<conn, taken, used, port>>

DialFail ==
  /\ step = "dial"
  /\ replies' = Append(replies, "failure")
  /\ GiveUp
  /\ UnchangedInSetup /\ UNCHANGED <<conn, taken, used, port>>

(* Mutant: the relay starts whether or not the reply could be sent. *)
ReplyFailRelays ==
  /\ step = "reply" /\ reset[Client]
  /\ session' = "ready" /\ step' = "past"
  /\ UnchangedInSetup /\ UNCHANGED <<conn, taken, used, port, replies>>

(* The reply cannot be flushed: the target is closed. *)
ReplyFail ==
  /\ step = "reply" /\ reset[Client]
  /\ session' = "ending" /\ step' = "past"
  /\ UnchangedInSetup /\ UNCHANGED <<conn, taken, used, port, replies>>

(* The success reply.  Only for CONNECT are Transports started: for BIND   *)
(* and UDP Handle waits on a channel nobody sends to.                      *)
ReplySuccess ==
  /\ step = "reply" /\ ~reset[Client]
  /\ replies' = Append(replies, "success")
  /\ session' = IF request.command = "connect" THEN "ready" ELSE "relay"
  /\ step' = "past"
  /\ UnchangedInSetup /\ UNCHANGED <<conn, taken, used, port>>

Handshake ==
  /\ session = "setup"
  /\ \/ Fill \/ ReadFail \/ Dispatch \/ ReadGreeting \/ ReplyMethod
     \/ ReadHeader \/ ReadAddr \/ ReadPort
     \/ Dial \/ DialFail \/ ReplyFail \/ ReplySuccess

RelayStep ==
  /\ \/ Handle
     \/ \E s \in Side : Transport(s) \/ Shut(s) \/ Close(s)
     \/ Send(Target)
  /\ UNCHANGED s5Only

S5Next == Handshake \/ ClientSend \/ RelayStep

S5Spec == S5Init /\ [][S5Next]_s5Vars

(* The goroutines run; dials end (they have a timeout). *)
S5FairSpec ==
  /\ S5Spec
  /\ WF_s5Vars(Handshake)
  /\ WF_s5Vars(Handle /\ UNCHANGED s5Only)
  /\ \A s \in Side : WF_s5Vars(Transport(s) /\ UNCHANGED s5Only)

-----------------------------------------------------------------------------
(* The relay is a pipe for what follows the handshake. *)
S5ImplementsPipe == ImplementsPipe

(* When messages arrive whole and the client waits for replies, the relay  *)
(* starts right after the request: the handshake leaves no byte of it to   *)
(* the target and takes none of the data that follows (its bytes pass      *)
(* through a buffered reader that the relay does not look at).             *)
HandshakeTakesTheRequest ==
  loop[Client] # "off" /\ ~split /\ ~eager =>
    used = RequestEnd /\ first[Client] = RequestEnd

(* A client is answered at most twice, first about the method, and is told *)
(* of success only while a target stands behind it, of failure only when   *)
(* none ever will.                                                         *)
RepliesInOrder ==
  [][/\ replies' \in {<<>>, <<"method">>, <<"method", "failure">>,
                     <<"method", "success">>}
     /\ replies' # replies /\ replies' = <<"method", "success">> => conn[Target]
     /\ replies' = <<"method", "failure">> => ~conn'[Target]]_s5Vars

(* Nothing is relayed in either direction to or from a client that was not *)
(* told of success.                                                        *)
NoDataBeforeSuccess ==
  (\E s \in Side : got[s] # <<>> \/ loop[s] # "off") =>
    replies = <<"method", "success">>

(* A client that sent a whole request and stays gets an answer to it, or   *)
(* is disconnected: the handshake never waits for more than was sent.      *)
RequestDecided ==
  sent[Client] >= RequestEnd ~>
    \/ Len(replies) = 2
    \/ session = "closed"

(* "读端口号,大端": the port dialled is the two bytes the client sent. *)
PortIsBigEndian == port # "wrong"

(* The end of either endpoint's stream ends the session and closes both    *)
(* connections, but for BIND and UDP, whose Handle never returns.          *)
StreamEndCloses ==
  \A s \in Side :
    peer[s] # "open" /\ request.command \notin {"bind", "udp"}
      ~> session = "closed"
=============================================================================
