-------------------------------- MODULE Relay --------------------------------
(***************************************************************************)
(* The relay between a client and a target that ProxyTcp.Handle and        *)
(* ProxySocks5.Handle run once both connections exist: two goroutines      *)
(* execute Transport, one per direction, and Handle waits for the first    *)
(* error on a channel, returns, and so closes both connections.            *)
(*                                                                         *)
(* The two Transport functions are the same but for the constants.  The    *)
(* units a side sends are the numbers 1, 2, ... in the order sent; Inserted *)
(* stands for a unit a user's handler made up.                             *)
(***************************************************************************)
EXTENDS Integers, Sequences

CONSTANTS
  Client, Target,  \* the two endpoints
  EofSignals,      \* Transport reports io.EOF to the channel (SOCKS5: yes)
  StopCap,         \* the capacity of the channel
  BufLen,          \* the length of Transport's buffer
  MaxSent,         \* bound: units each side sends
  Intercepts,      \* a user's stream event handler is registered
  HandlerErrs,     \* the errors it returns, out of "nil", "eof", "other"
  Inserted         \* a unit no endpoint sent

Side == {Client, Target}
Peer(s) == IF s = Client THEN Target ELSE Client

ASSUME RelayAssumption ==
  /\ Client # Target
  /\ EofSignals \in BOOLEAN /\ Intercepts \in BOOLEAN
  /\ StopCap \in Nat
  /\ BufLen \in Nat \ {0} /\ MaxSent \in [Side -> Nat]
  /\ HandlerErrs \subseteq {"nil", "eof", "other"}
  /\ Inserted \in Int \ Nat

VARIABLES
  sent,     \* how many units each side has sent to the proxy
  peer,     \* "open", "shut" (will send no more) or "closed", per side
  reset,    \* the connection to a side was reset
  conn,     \* the proxy's connection to a side is open
  taken,    \* how many units the proxy has read from a side
  first,    \* how many of them were read before Transport started
  chunk,    \* what the Transport reading from a side has read, not written
  buf,      \* len(buff) of that Transport
  loop,     \* where that Transport is
  got,      \* the units each side has received
  stop,     \* how many errors are queued in the channel
  session   \* where Handle is

endpointVars == <<sent, peer>>
relayVars == <<conn, taken, first, chunk, buf, loop, got, stop, session>>
vars == <<sent, peer, reset, conn, taken, first, chunk, buf, loop, got, stop,
          session>>

Units == Nat \cup {Inserted}

TypeOK ==
  /\ sent \in [Side -> Nat]
  /\ peer \in [Side -> {"open", "shut", "closed"}]
  /\ reset \in [Side -> BOOLEAN]
  /\ conn \in [Side -> BOOLEAN]
  /\ taken \in [Side -> Nat]
  /\ first \in [Side -> Nat]
  /\ chunk \in [Side -> Seq(Units)]
  /\ buf \in [Side -> 1..BufLen]
  /\ loop \in [Side -> {"off", "read", "handle", "signal", "ended"}]
  /\ got \in [Side -> Seq(Units)]
  /\ stop \in 0..StopCap
  /\ session \in {"setup", "ready", "relay", "ending", "event", "closed"}

Segment(m, n) == [i \in 1..(n - m) |-> m + i]

(* Both connections are open and nothing has been sent. *)
Init ==
  /\ sent = [s \in Side |-> 0]
  /\ peer = [s \in Side |-> "open"]
  /\ reset = [s \in Side |-> FALSE]
  /\ conn = [s \in Side |-> TRUE]
  /\ taken = [s \in Side |-> 0]
  /\ first = [s \in Side |-> 0]
  /\ chunk = [s \in Side |-> <<>>]
  /\ buf = [s \in Side |-> BufLen]
  /\ loop = [s \in Side |-> "off"]
  /\ got = [s \in Side |-> <<>>]
  /\ stop = 0
  /\ session = "ready"

-----------------------------------------------------------------------------
(* The endpoints and the network. *)

Send(s) ==
  /\ conn[s] /\ peer[s] = "open" /\ sent[s] < MaxSent[s]
  /\ sent' = [sent EXCEPT ![s] = @ + 1]
  /\ UNCHANGED <<peer, reset, relayVars>>

Shut(s) ==
  /\ conn[s] /\ peer[s] = "open"
  /\ peer' = [peer EXCEPT ![s] = "shut"]
  /\ UNCHANGED <<sent, reset, relayVars>>

(* A side that closes with data it has not read resets the connection. *)
Close(s) ==
  /\ conn[s] /\ peer[s] # "closed"
  /\ peer' = [peer EXCEPT ![s] = "closed"]
  /\ \E r \in BOOLEAN : reset' = [reset EXCEPT ![s] = r]
  /\ UNCHANGED <<sent, relayVars>>

Usable(s) == conn[s] /\ ~reset[s]

-----------------------------------------------------------------------------
(* Transport, reading from s and writing to Peer(s). *)

(* Mutant: end of file is taken for the end of this direction only. *)
OnErrSilentEof(e) ==
  CASE e = "nil" -> "read"
    [] e = "eof" -> "ended"
    [] OTHER -> "signal"

(* Where an error sends the loop: a nil error to the next read. *)
OnErr(e) ==
  CASE e = "nil" -> "read"
    [] e = "eof" /\ ~EofSignals -> "ended"
    [] OTHER -> "signal"

(* Where a handler that was given len units and returned n and e sends it. *)
OnHandled(n, e, len) == IF n # len THEN "signal" ELSE OnErr(e)

(* Handle starts both Transports. *)
Start ==
  /\ session = "ready"
  /\ session' = "relay"
  /\ loop' = [s \in Side |-> "read"]
  /\ first' = taken
  /\ UNCHANGED <<endpointVars, reset, conn, taken, chunk, buf, got, stop>>

(* Mutant: the units after the first of a read are read again. *)
ReadDataTwice(s) ==
  /\ loop[s] = "read" /\ Usable(s) /\ taken[s] < sent[s]
  /\ \E n \in 1..buf[s] :
       /\ taken[s] + n <= sent[s]
       /\ chunk' = [chunk EXCEPT ![s] = Segment(taken[s], taken[s] + n)]
       /\ taken' = [taken EXCEPT ![s] = @ + 1]
       /\ buf' = [buf EXCEPT ![s] = n]
  /\ loop' = [loop EXCEPT ![s] = "handle"]
  /\ UNCHANGED <<endpointVars, reset, conn, first, got, stop, session>>

(* Read returns some of what has arrived.  buff = buff[0:readLen] leaves   *)
(* the buffer that short for good: buff = buff[:] does not restore it.     *)
ReadData(s) ==
  /\ loop[s] = "read" /\ Usable(s) /\ taken[s] < sent[s]
  /\ \E n \in 1..buf[s] :
       /\ taken[s] + n <= sent[s]
       /\ chunk' = [chunk EXCEPT ![s] = Segment(taken[s], taken[s] + n)]
       /\ taken' = [taken EXCEPT ![s] = @ + n]
       /\ buf' = [buf EXCEPT ![s] = n]
  /\ loop' = [loop EXCEPT ![s] = "handle"]
  /\ UNCHANGED <<endpointVars, reset, conn, first, got, stop, session>>

(* Mutant: end of file is seen before what was sent ahead of it. *)
ReadEofEarly(s) ==
  /\ loop[s] = "read" /\ Usable(s) /\ peer[s] # "open"
  /\ loop' = [loop EXCEPT ![s] = OnErr("eof")]
  /\ UNCHANGED <<endpointVars, reset, conn, taken, first, chunk, buf, got, stop, session>>

ReadEof(s) ==
  /\ loop[s] = "read" /\ Usable(s) /\ taken[s] = sent[s] /\ peer[s] # "open"
  /\ loop' = [loop EXCEPT ![s] = OnErr("eof")]
  /\ UNCHANGED <<endpointVars, reset, conn, taken, first, chunk, buf, got, stop, session>>

(* The connection was reset, or closed by the proxy. *)
ReadError(s) ==
  /\ loop[s] = "read" /\ ~Usable(s)
  /\ loop' = [loop EXCEPT ![s] = OnErr("other")]
  /\ UNCHANGED <<endpointVars, reset, conn, taken, first, chunk, buf, got, stop, session>>

(* w reaches p, unless p no longer receives; data for a closed endpoint    *)
(* may reset its connection.                                               *)
Arrive(p, w) ==
  IF peer[p] = "closed"
  THEN /\ \E r \in BOOLEAN : reset' = [reset EXCEPT ![p] = @ \/ r]
       /\ UNCHANGED got
  ELSE /\ got' = [got EXCEPT ![p] = @ \o w]
       /\ UNCHANGED reset

(* Mutant: the length Write returns is not looked at. *)
WriteIgnoresShort(s) ==
  /\ loop[s] = "handle" /\ Usable(Peer(s))
  /\ \E k \in 0..Len(chunk[s]) : Arrive(Peer(s), SubSeq(chunk[s], 1, k))
  /\ chunk' = [chunk EXCEPT ![s] = <<>>]
  /\ loop' = [loop EXCEPT ![s] = "read"]
  /\ UNCHANGED <<endpointVars, conn, taken, first, buf, stop, session>>

(* No handler: Write takes the whole chunk. *)
Write(s) ==
  /\ loop[s] = "handle" /\ Usable(Peer(s))
  /\ Arrive(Peer(s), chunk[s])
  /\ chunk' = [chunk EXCEPT ![s] = <<>>]
  /\ loop' = [loop EXCEPT ![s] = OnHandled(Len(chunk[s]), "nil", Len(chunk[s]))]
  /\ UNCHANGED <<endpointVars, conn, taken, first, buf, stop, session>>

(* Write fails: the connection was reset or closed.  What a blocked Write  *)
(* had handed over before that is covered by an earlier, shorter chunk.    *)
WriteFail(s) ==
  /\ loop[s] = "handle" /\ ~Usable(Peer(s))
  /\ chunk' = [chunk EXCEPT ![s] = <<>>]
  /\ loop' = [loop EXCEPT ![s] = OnHandled(0, "other", Len(chunk[s]))]
  /\ UNCHANGED <<endpointVars, reset, conn, taken, first, buf, got, stop, session>>

(* A user's handler: it passes w to resolve, and returns a length (the one *)
(* resolve returned, or the one it was given) and an error of its own.  A  *)
(* write of resolve that fails need not stop it.                           *)
Intercept(s) ==
  /\ Intercepts
  /\ loop[s] = "handle"
  /\ \E w \in {chunk[s], Tail(chunk[s]), Append(chunk[s], Inserted)},
        e \in HandlerErrs :
       /\ IF Usable(Peer(s)) THEN Arrive(Peer(s), w) ELSE UNCHANGED <<reset, got>>
       /\ \E n \in {Len(w), Len(chunk[s])} :
            loop' = [loop EXCEPT ![s] = OnHandled(n, e, Len(chunk[s]))]
  /\ chunk' = [chunk EXCEPT ![s] = <<>>]
  /\ UNCHANGED <<endpointVars, conn, taken, first, buf, stop, session>>

(* Mutant: the error is dropped. *)
SignalLost(s) ==
  /\ loop[s] = "signal"
  /\ stop < StopCap
  /\ loop' = [loop EXCEPT ![s] = "ended"]
  /\ UNCHANGED <<endpointVars, reset, conn, taken, first, chunk, buf, got, stop, session>>

(* The error is sent, which blocks while the channel is full; then break. *)
Signal(s) ==
  /\ loop[s] = "signal"
  /\ stop < StopCap
  /\ stop' = stop + 1
  /\ loop' = [loop EXCEPT ![s] = "ended"]
  /\ UNCHANGED <<endpointVars, reset, conn, taken, first, chunk, buf, got, session>>

Transport(s) ==
  \/ ReadData(s) \/ ReadEof(s) \/ ReadError(s)
  \/ Write(s) \/ WriteFail(s) \/ Intercept(s) \/ Signal(s)

-----------------------------------------------------------------------------
(* Handle after its go statements, and the deferred functions. *)

(* err = <-stop *)
ReceiveStop ==
  /\ session = "relay" /\ stop > 0
  /\ stop' = stop - 1
  /\ session' = "ending"
  /\ UNCHANGED <<endpointVars, reset, conn, taken, first, chunk, buf, loop, got>>

(* Mutant: Handle returns without closing the target. *)
CloseTargetLeaks ==
  /\ session = "ending"
  /\ session' = "event"
  /\ UNCHANGED <<endpointVars, reset, conn, taken, first, chunk, buf, loop, got, stop>>

(* Handle's deferred Close of the target. *)
CloseTarget ==
  /\ session = "ending"
  /\ conn' = [conn EXCEPT ![Target] = FALSE]
  /\ session' = "event"
  /\ UNCHANGED <<endpointVars, reset, taken, first, chunk, buf, loop, got, stop>>

(* handle's deferred function: OnTcpCloseEvent, then conn.Close. *)
CloseClient ==
  /\ session = "event"
  /\ conn' = [conn EXCEPT ![Client] = FALSE]
  /\ session' = "closed"
  /\ UNCHANGED <<endpointVars, reset, taken, first, chunk, buf, loop, got, stop>>

Handle == Start \/ ReceiveStop \/ CloseTarget \/ CloseClient

Endpoint(s) == Send(s) \/ Shut(s) \/ Close(s)

Next == Handle \/ \E s \in Side : Transport(s) \/ Endpoint(s)

Spec == Init /\ [][Next]_vars

(* The goroutines run; the endpoints need not do anything, but they take   *)
(* what is written to them.                                                *)
FairSpec ==
  Spec /\ WF_vars(Handle) /\ \A s \in Side : WF_vars(Transport(s))

-----------------------------------------------------------------------------
(* Each endpoint receives, in order and without gaps, what the other one   *)
(* sent after the units consumed before the relay started.                 *)
PipeSent ==
  [s \in Side |-> IF loop[s] = "off" THEN 0 ELSE sent[s] - first[s]]
PipeGot ==
  [s \in Side |-> [i \in 1..Len(got[s]) |-> got[s][i] - first[Peer(s)]]]
P == INSTANCE Pipe WITH sent <- PipeSent, got <- PipeGot
ImplementsPipe == P!Spec

(* Whatever a handler drops or inserts, the units of an endpoint that do   *)
(* arrive arrive once and in order.                                        *)
Increasing ==
  \A s \in Side : \A i, j \in 1..Len(got[s]) :
    i < j /\ Inserted \notin {got[s][i], got[s][j]} => got[s][i] < got[s][j]

(* Once Handle has returned, both Transports end too: the connections it   *)
(* closed wake them.                                                       *)
NoGoroutineLeft ==
  session = "ending" ~> \A s \in Side : loop[s] = "ended"

(* What an endpoint sends reaches the other one, whatever the sizes of the *)
(* reads, unless the session ends or one of the two has closed.  It does   *)
(* so even after the receiving side has shut its own direction when EOF is *)
(* not reported.                                                           *)
EventuallyDelivered ==
  \A s \in Side : \A n \in 1..MaxSent[s] :
    sent[s] = n ~> \/ Len(got[Peer(s)]) >= n - first[s]
                   \/ session # "relay"
                   \/ \E p \in Side : peer[p] = "closed"

(* A read or write error in either direction ends the session, and the     *)
(* close event fires ("注册tcp关闭事件").  So does the end of both streams,    *)
(* unless it is not reported and both directions have ended by it alone:   *)
(* then Handle waits for ever.                                             *)
ErrorCloses ==
  /\ \A s \in Side : loop[s] = "signal" ~> session = "closed"
  /\ session = "relay" /\ (\A s \in Side : peer[s] = "closed") ~>
       \/ session = "closed"
       \/ ~EofSignals /\ stop = 0 /\ \A s \in Side : loop[s] = "ended"
=============================================================================
