------------------------------- MODULE WsLink --------------------------------
(***************************************************************************)
(* Two connections of module WsConn joined back to back, one a server and  *)
(* one a client, each used by an application that sends messages and a     *)
(* control frame, and reads until an error and then closes.                *)
(***************************************************************************)
EXTENDS WsConn

CONSTANTS
  MaxMessages,  \* bound: messages each application sends
  Lengths,      \* how long they are
  KindOf,       \* the type of the messages each sends
  Controls      \* the control frames an application may send, one of them

VARIABLES
  started,  \* the messages WriteMessage began to write, per sender
  got,      \* the messages ReadMessage returned, per receiver
  asked     \* the application has sent its control frame

linkVars == <<connVars, started, got, asked>>

ASSUME WsLinkAssumption ==
  /\ \E s, d \in Conn : s # d /\ Conn = {s, d} /\ IsServer[s] # IsServer[d]
  /\ MaxMessages \in [Conn -> Nat]
  /\ Lengths \subseteq Nat /\ KindOf \in [Conn -> Data] /\ Controls \subseteq Control

Mate(c) == CHOOSE d \in Conn : d # c

LinkInit ==
  /\ ConnInit
  /\ started = [c \in Conn |-> <<>>]
  /\ got = [c \in Conn |-> <<>>]
  /\ asked = [c \in Conn |-> FALSE]

Load(k, n) == [i \in 1..n |-> <<k, i>>]

(* The application writes a message, until it has met an error. *)
Say(c) ==
  /\ written[c] = "nil" /\ Len(started[c]) < MaxMessages[c]
  /\ \E n \in Lengths :
       LET load == Load(Len(started[c]) + 1, n)
           op == KindOf[c] IN
       /\ WriteMessage(c, op, load)
       /\ started' = IF writeErr[c] # "nil" THEN started
                     ELSE [started EXCEPT ![c] =
                             Append(@, [op |-> op, load |-> load])]
  /\ UNCHANGED <<got, asked>>

Ask(c) ==
  /\ ~asked[c]
  /\ \E op \in Controls : WriteControl(c, op)
  /\ asked' = [asked EXCEPT ![c] = TRUE]
  /\ UNCHANGED <<started, got>>

(* ReadMessage returned a message. *)
Take(c) ==
  /\ rpc[c] = "message"
  /\ got' = [got EXCEPT ![c] = Append(@, partial[c])]
  /\ partial' = [partial EXCEPT ![c] = NoMessage]
  /\ rpc' = [rpc EXCEPT ![c] = "next"]
  /\ UNCHANGED <<netVars, mu, writeErr, writerVars, readErr, pending, readFinal, controlVars,
                 started, asked>>

(* ReadMessage returned an error. *)
HangUp(c) ==
  /\ rpc[c] = "failed" /\ open[c]
  /\ open' = [open EXCEPT ![c] = FALSE]
  /\ UNCHANGED <<eof, in, out, mu, writeErr, writerVars, readerVars, controlVars, started, got,
                 asked>>

(* The network: a frame leaves it when the other side's reader wants it,   *)
(* so that it holds NetCap of them per direction, buffers included.        *)
Transfer(c) ==
  /\ out[c] # <<>>
  /\ out' = [out EXCEPT ![c] = Tail(@)]
  /\ \/ /\ open[Mate(c)] /\ in[Mate(c)] = <<>> /\ rpc[Mate(c)] = "next"
        /\ in' = [in EXCEPT ![Mate(c)] = Append(@, Head(out[c]))]
     \/ ~open[Mate(c)] /\ UNCHANGED in
  /\ UNCHANGED <<open, eof, mu, writeErr, writerVars, readerVars, controlVars, started, got,
                 asked>>

End(c) ==
  /\ ~open[Mate(c)] /\ out[Mate(c)] = <<>> /\ ~eof[c]
  /\ eof' = [eof EXCEPT ![c] = TRUE]
  /\ UNCHANGED <<open, in, out, mu, writeErr, writerVars, readerVars, controlVars, started, got,
                 asked>>

Apps(c) == Say(c) \/ Ask(c)
Steps(c) == UNCHANGED <<started, got, asked>> /\ ConnStep(c)
Net(c) == Transfer(c) \/ End(c)

LinkNext == \E c \in Conn : Apps(c) \/ Steps(c) \/ Take(c) \/ HangUp(c) \/ Net(c)

LinkSpec == LinkInit /\ [][LinkNext]_linkVars

Quiet(A) == A /\ UNCHANGED <<started, got, asked>>

(* What the goroutine that reads c does, answers included. *)
Reader(c) ==
  \/ Quiet(Reading(c)) \/ Quiet(Controlling(c, "reader")) \/ Take(c) \/ HangUp(c)

(* The network delivers, every goroutine runs, a deadline that is waited   *)
(* for passes, and the token is handed out fairly.                         *)
LinkFairSpec ==
  /\ LinkSpec
  /\ \A c \in Conn :
       /\ WF_linkVars(Net(c))
       /\ WF_linkVars(Reader(c))
       /\ WF_linkVars(Quiet(Writing(c))) /\ SF_linkVars(Quiet(FlushLock(c)))
       /\ WF_linkVars(Quiet(Controlling(c, "app")))

-----------------------------------------------------------------------------
(* m has the type of message w and carries the first of its units. *)
Begins(m, w) == m.op = w.op /\ m.load = SubSeq(w.load, 1, Len(m.load))

(* The stream ended with the bytes of a frame that is not the last of its  *)
(* message, and ReadMessage has returned what came of it.                  *)
CutShort(c) == readErr[c] = "eof" /\ ~readFinal[c] /\ partial[c] = NoMessage

(* "applications must break out of the application's read loop"; until     *)
(* then ReadMessage returns what WriteMessage was given: whole messages,   *)
(* of the same type, in order, whatever control frames other goroutines    *)
(* write between the fragments, and though a close frame or an error may   *)
(* cut a message short.  Only the very last one it returns can be the      *)
(* beginning of a message, when the end of the stream comes with the last  *)
(* byte of a frame (Conn.go:1026).                                         *)
MessageIntegrity ==
  \A c \in Conn :
    /\ Len(got[c]) <= Len(started[Mate(c)])
    /\ \A i \in 1..Len(got[c]) :
         \/ got[c][i] = started[Mate(c)][i]
         \/ i = Len(got[c]) /\ CutShort(c) /\ Begins(got[c][i], started[Mate(c)][i])

(* A party that speaks this code is never accused of a protocol error: the *)
(* frames of the three writers interleave only in ways advanceFrame takes. *)
NoProtocolError == \A c \in Conn : readErr[c] # "protocol" /\ pending[c] # "protocol"

(* A close frame ends the reading on both sides: by the answer to it, or,  *)
(* when there is none, by the end of the connection.                       *)
CloseEndsBoth ==
  \A c \in Conn : writeErr[c] = "closeSent" ~> \A d \in Conn : rpc[d] = "failed"

(* A write that has begun comes to an end, though both applications write  *)
(* without a deadline: neither reader waits for ever for the token its     *)
(* writer holds, so both go on making room.                                *)
WriteReturns == \A c \in Conn : wpc[c] # "idle" ~> wpc[c] = "idle"
=============================================================================
