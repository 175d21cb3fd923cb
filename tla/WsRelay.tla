------------------------------- MODULE WsRelay -------------------------------
(***************************************************************************)
(* A WebSocket session of ProxyHttp.handleWsRequest after both handshakes: *)
(* two connections of module WsConn, the browser's (BrowserConn, on which  *)
(* the proxy is the server) and the target's (TargetConn, on which it is   *)
(* the client), and two goroutines, each of which reads the messages of    *)
(* one and writes them to the other.  Control frames go no further than    *)
(* the connection they arrive on.                                          *)
(*                                                                         *)
(* The endpoints are not this code: they send any frames, well-formed or   *)
(* not, and close when they like.                                          *)
(***************************************************************************)
EXTENDS WsConn

CONSTANTS
  BrowserConn, TargetConn, \* the two connections
  StopCap,      \* the capacity of stop
  Intercepts,   \* a user's OnWsRequestEvent and OnWsResponseEvent are set
  Script        \* what the two endpoints may send: frames per connection

ASSUME WsRelayAssumption ==
  /\ BrowserConn # TargetConn /\ Conn = {BrowserConn, TargetConn}
  /\ IsServer[BrowserConn] /\ ~IsServer[TargetConn]
  /\ StopCap \in Nat /\ Intercepts \in BOOLEAN
  /\ Script \subseteq [Conn -> Seq(Frame)]

VARIABLES
  todo,      \* the frames each endpoint has yet to send
  taken,     \* the messages ReadMessage has returned, per connection
  received,  \* the frames each endpoint has received
  pump,      \* where the goroutine that reads a connection is
  stop,      \* how many errors are queued in stop
  failures,  \* how many times a message could not be passed on
  session    \* where handleWsRequest is

ownVars == <<todo, taken, received, pump, stop, failures, session>>
wsVars == <<connVars, ownVars>>

Other(c) == IF c = BrowserConn THEN TargetConn ELSE BrowserConn

WsInit ==
  /\ ConnInit
  /\ todo \in Script
  /\ taken = [c \in Conn |-> <<>>]
  /\ received = [c \in Conn |-> <<>>]
  /\ pump = [c \in Conn |-> "read"]
  /\ stop = 0
  /\ failures = 0
  /\ session = "relay"

-----------------------------------------------------------------------------
(* The endpoints and the network. *)

EndpointSend(c) ==
  /\ todo[c] # <<>> /\ ~eof[c] /\ open[c]
  /\ in' = [in EXCEPT ![c] = Append(@, Head(todo[c]))]
  /\ todo' = [todo EXCEPT ![c] = Tail(@)]
  /\ UNCHANGED <<open, eof, out, mu, writeErr, writerVars, readerVars, controlVars, taken,
                 received, pump, stop, failures, session>>

EndpointReceive(c) ==
  /\ out[c] # <<>>
  /\ out' = [out EXCEPT ![c] = Tail(@)]
  /\ received' = [received EXCEPT ![c] = Append(@, Head(out[c]))]
  /\ UNCHANGED <<open, eof, in, mu, writeErr, writerVars, readerVars, controlVars, todo, taken,
                 pump, stop, failures, session>>

EndpointClose(c) ==
  /\ ~eof[c]
  /\ eof' = [eof EXCEPT ![c] = TRUE]
  /\ todo' = [todo EXCEPT ![c] = <<>>]
  /\ UNCHANGED <<open, in, out, mu, writeErr, writerVars, readerVars, controlVars, taken,
                 received, pump, stop, failures, session>>

-----------------------------------------------------------------------------
(* The goroutine that reads c. *)

(* ReadMessage returned an error: it is sent, and the loop is left. *)
ReadFailed(c) ==
  /\ pump[c] = "read" /\ rpc[c] = "failed"
  /\ pump' = [pump EXCEPT ![c] = "signal"]
  /\ UNCHANGED <<connVars, todo, taken, received, stop, failures, session>>

(* Mutant: every message is passed on as text. *)
ForwardAsText(c) ==
  /\ pump[c] = "read" /\ rpc[c] = "message"
  /\ WriteMessage(Other(c), "text", partial[c].load)
  /\ taken' = [taken EXCEPT ![c] = Append(@, partial[c])]
  /\ pump' = [pump EXCEPT ![c] = "write"]
  /\ UNCHANGED <<todo, received, stop, failures, session>>

(* It returned a message, which resolveWs writes to the other connection.  *)
Forward(c) ==
  /\ pump[c] = "read" /\ rpc[c] = "message"
  /\ WriteMessage(Other(c), partial[c].op, partial[c].load)
  /\ taken' = [taken EXCEPT ![c] = Append(@, partial[c])]
  /\ pump' = [pump EXCEPT ![c] = "write"]
  /\ UNCHANGED <<todo, received, stop, failures, session>>

(* The next ReadMessage. *)
ReadNext(c) ==
  /\ rpc' = [rpc EXCEPT ![c] = "next"]
  /\ partial' = [partial EXCEPT ![c] = NoMessage]
  /\ UNCHANGED <<netVars, mu, writeErr, writerVars, readErr, pending, readFinal, controlVars>>

(* A user's handler keeps the message to itself and returns nil or an error. *)
Keep(c) ==
  /\ Intercepts
  /\ pump[c] = "read" /\ rpc[c] = "message"
  /\ taken' = [taken EXCEPT ![c] = Append(@, partial[c])]
  /\ \/ ReadNext(c) /\ UNCHANGED <<pump, failures>>
     \/ /\ pump' = [pump EXCEPT ![c] = "signal"]
        /\ failures' = failures + 1
        /\ UNCHANGED connVars
  /\ UNCHANGED <<todo, received, stop, session>>

Written(c) ==
  /\ pump[c] = "write" /\ wpc[Other(c)] = "idle" /\ written[Other(c)] = "nil"
  /\ ReadNext(c)
  /\ pump' = [pump EXCEPT ![c] = "read"]
  /\ UNCHANGED <<todo, taken, received, stop, failures, session>>

(* The write failed: the error is sent, but the loop is not left. *)
WriteFailed(c) ==
  /\ pump[c] = "write" /\ wpc[Other(c)] = "idle" /\ written[Other(c)] = "error"
  /\ pump' = [pump EXCEPT ![c] = "signal"]
  /\ failures' = failures + 1
  /\ UNCHANGED <<connVars, todo, taken, received, stop, session>>

(* Mutant: the error is not sent. *)
SignalNothing(c) ==
  /\ pump[c] = "signal"
  /\ \/ /\ rpc[c] = "failed"
        /\ pump' = [pump EXCEPT ![c] = "ended"]
        /\ UNCHANGED connVars
     \/ /\ rpc[c] # "failed"
        /\ pump' = [pump EXCEPT ![c] = "read"]
        /\ ReadNext(c)
  /\ UNCHANGED <<todo, taken, received, stop, failures, session>>

(* The send waits for room in stop; only a failed read ends the loop. *)
Signal(c) ==
  /\ pump[c] = "signal" /\ stop < StopCap
  /\ stop' = stop + 1
  /\ \/ /\ rpc[c] = "failed"
        /\ pump' = [pump EXCEPT ![c] = "ended"]
        /\ UNCHANGED connVars
     \/ /\ rpc[c] # "failed"
        /\ pump' = [pump EXCEPT ![c] = "read"]
        /\ ReadNext(c)
  /\ UNCHANGED <<todo, taken, received, failures, session>>

Pump(c) ==
  \/ ReadFailed(c) \/ Forward(c) \/ Keep(c) \/ Written(c) \/ WriteFailed(c)
  \/ Signal(c)

-----------------------------------------------------------------------------
(* handleWsRequest after its go statements, and the deferred functions. *)

(* err = <-stop *)
ReceiveStop ==
  /\ session = "relay" /\ stop > 0
  /\ stop' = stop - 1
  /\ session' = "ending"
  /\ UNCHANGED <<connVars, todo, taken, received, pump, failures>>

CloseConn(c) ==
  /\ open' = [open EXCEPT ![c] = FALSE]
  /\ UNCHANGED <<eof, in, out, mu, writeErr, writerVars, readerVars, controlVars, todo, taken,
                 received, pump, stop, failures>>

(* Mutant: the target's connection is left open. *)
CloseTargetForgotten ==
  /\ session = "ending" /\ session' = "event"
  /\ UNCHANGED <<connVars, todo, taken, received, pump, stop, failures>>

(* The deferred Close of the target's connection: no close frame is sent. *)
CloseTarget == session = "ending" /\ session' = "event" /\ CloseConn(TargetConn)

(* ProxyServer.handle's deferred function: the close event, then Close. *)
CloseBrowser == session = "event" /\ session' = "closed" /\ CloseConn(BrowserConn)

Handler == ReceiveStop \/ CloseTarget \/ CloseBrowser

-----------------------------------------------------------------------------
(* The connections' own steps; the application writes no control frames. *)
ConnSteps(c) ==
  /\ \/ Writing(c) \/ Reading(c) \/ Controlling(c, "reader")
  /\ UNCHANGED ownVars

WsNext ==
  \/ Handler
  \/ \E c \in Conn :
       \/ EndpointSend(c) \/ EndpointReceive(c) \/ EndpointClose(c)
       \/ Pump(c) \/ ConnSteps(c)

WsSpec == WsInit /\ [][WsNext]_wsVars

(* The proxy's goroutines run and its timers pass; endpoints need not send *)
(* anything, but take what is written to them.                             *)
WsFairSpec ==
  /\ WsSpec
  /\ WF_wsVars(Handler)
  /\ \A c \in Conn :
       /\ WF_wsVars(EndpointReceive(c)) /\ WF_wsVars(Pump(c))
       /\ WF_wsVars(Reading(c) /\ UNCHANGED ownVars)
       /\ WF_wsVars(Writing(c) /\ UNCHANGED ownVars)
       /\ SF_wsVars(FlushLock(c) /\ UNCHANGED ownVars)
       /\ WF_wsVars(Controlling(c, "reader") /\ UNCHANGED ownVars)

-----------------------------------------------------------------------------
IsData(f) == f.op \notin Control

(* The frames with which messages end. *)
Ends(fs) == {i \in DOMAIN fs : IsData(fs[i]) /\ fs[i].fin}

(* The data frame before frame i is not the last of its message. *)
Continues(fs, i) ==
  \E j \in 1..i - 1 : IsData(fs[j]) /\ ~fs[j].fin /\ \A k \in j + 1..i - 1 : ~IsData(fs[k])

(* The frames from b to i carry the first n units of message m: the first  *)
(* has its type, and its payload is cut into those that are data frames;   *)
(* at says how far each one comes.                                         *)
Carries(fs, b, i, m, n) ==
  /\ IsData(fs[b]) /\ fs[b].op = m.op
  /\ \A j \in b + 1..i : IsData(fs[j]) => fs[j].op = "cont"
  /\ \A j \in b..i - 1 : j \notin Ends(fs)
  /\ \E at \in [b - 1..i -> 0..n] :
       /\ at[b - 1] = 0 /\ at[i] = n
       /\ \A j \in b..i :
            IF IsData(fs[j])
            THEN at[j - 1] <= at[j] /\ fs[j].load = SubSeq(m.load, at[j - 1] + 1, at[j])
            ELSE at[j] = at[j - 1]

(* What an endpoint receives is made of whole messages, each in one piece, *)
(* with its type and its payload, and these are messages that ReadMessage  *)
(* returned from the other endpoint, in their order and none of them       *)
(* twice; a frame continues the message before it exactly when that one is *)
(* not complete.  So it is although answers to pings may be written        *)
(* between the fragments, and reads, writes and handlers fail.  (What      *)
(* ReadMessage returned last may be the beginning of a message only, see   *)
(* ReadLastData; it is passed on as a whole.)                              *)
OnlyWholeMessages ==
  \A c \in Conn :
    LET fs == received[c] \o out[c]
        read == taken[Other(c)]
    IN /\ \E of \in [Ends(fs) -> DOMAIN read] :
            /\ \A i \in Ends(fs) :
                 \E b \in 1..i : Carries(fs, b, i, read[of[i]], Len(read[of[i]].load))
            /\ \A i, j \in Ends(fs) : i < j => of[i] < of[j]
       /\ \A i \in DOMAIN fs : IsData(fs[i]) => (fs[i].op = "cont" <=> Continues(fs, i))

(* A close frame is the last an endpoint receives, though the rest of a    *)
(* message that was being written, a message of the other endpoint or an   *)
(* answer to a ping may be waiting for the token when it is written.       *)
NothingAfterClose ==
  \A c \in Conn :
    LET fs == received[c] \o out[c]
    IN \A i \in DOMAIN fs : fs[i].op = "close" => i = Len(fs)

(* A session ends, and the close event fires, once either endpoint is gone *)
(* or has sent a close frame or one that breaks the protocol.              *)
EndOfEitherCloses ==
  \A c \in Conn : eof[c] \/ rpc[c] = "failed" ~> session = "closed"

(* After that both goroutines end, unless messages could not be passed on: *)
(* each such failure is reported and the loop reads on, so from the second *)
(* one on a report can find the channel full and block for ever.           *)
GoroutinesEnd ==
  session = "closed" ~>
    \A c \in Conn :
      pump[c] = "ended" \/ (pump[c] = "signal" /\ stop = StopCap /\ failures > 1)
=============================================================================
