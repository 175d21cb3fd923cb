------------------------------- MODULE WsConn --------------------------------
(***************************************************************************)
(* A set of WebSocket connections of src/Core/Websocket/Conn.go.  Three    *)
(* parties use a connection: one goroutine writes messages, one reads them *)
(* and so answers pings, close frames and protocol errors with control     *)
(* frames of its own, and the application may write a control frame from   *)
(* anywhere.  The token mu makes their frames atomic on the wire; writeErr *)
(* is the first write error and stays.                                     *)
(*                                                                         *)
(* A frame is the unit of the network.  A payload is a sequence of units;  *)
(* masking and compression (never negotiated by this program) change no    *)
(* state and are left out, the mask flag is kept.                          *)
(***************************************************************************)
EXTENDS Naturals, Sequences

CONSTANTS
  Conn,      \* the connections
  IsServer,  \* Conn.isServer of each
  WriteBuf,  \* units that fit into the write buffer
  ReadBuf,   \* units that fit into br, the read buffer
  NetCap,    \* bound: frames the network holds per direction
  Unit       \* what payloads are made of

Kind == {"text", "binary", "cont", "close", "ping", "pong", "unknown"}
Control == {"close", "ping", "pong"}
Data == {"text", "binary"}
Who == {"reader", "app"}

ASSUME WsConnAssumption ==
  /\ IsServer \in [Conn -> BOOLEAN]
  /\ WriteBuf \in Nat \ {0} /\ ReadBuf \in Nat \ {0} /\ NetCap \in Nat \ {0}

(* valid stands for the length and content of a control frame's payload.   *)
Frame == [op : Kind, fin : BOOLEAN, mask : BOOLEAN, valid : BOOLEAN,
          load : Seq(Unit)]

Message == [op : Data, load : Seq(Unit)]

VARIABLES
  open,      \* the net.Conn has not been closed on this side
  eof,       \* the other side is gone and all it sent has arrived
  in, out,   \* frames that have arrived, and that have been written
  mu,        \* who holds Conn.mu
  writeErr,  \* Conn.writeErr
  wpc,       \* the writing goroutine: "idle", "lock" or "write"
  frames,    \* the frames it has yet to write of its message
  written,   \* what its last WriteMessage returned
  rpc,       \* the reading goroutine: in NextReader, answering, has a message
  readErr,   \* Conn.readErr
  pending,   \* what readErr becomes once the answer is written
  readFinal, \* Conn.readFinal
  partial,   \* the message read so far
  kpc, kop   \* a WriteControl by the reader or the application, and its type

netVars == <<open, eof, in, out>>
writerVars == <<wpc, frames, written>>
readerVars == <<rpc, readErr, pending, readFinal, partial>>
controlVars == <<kpc, kop>>
connVars == <<open, eof, in, out, mu, writeErr, wpc, frames, written, rpc,
              readErr, pending, readFinal, partial, kpc, kop>>

NoMessage == [op |-> "none", load |-> <<>>]

ConnInit ==
  /\ open = [c \in Conn |-> TRUE] /\ eof = [c \in Conn |-> FALSE]
  /\ in = [c \in Conn |-> <<>>] /\ out = [c \in Conn |-> <<>>]
  /\ mu = [c \in Conn |-> "free"]
  /\ writeErr = [c \in Conn |-> "nil"]
  /\ wpc = [c \in Conn |-> "idle"]
  /\ frames = [c \in Conn |-> <<>>]
  /\ written = [c \in Conn |-> "nil"]
  /\ rpc = [c \in Conn |-> "next"]
  /\ readErr = [c \in Conn |-> "nil"]
  /\ pending = [c \in Conn |-> "nil"]
  /\ readFinal = [c \in Conn |-> TRUE]
  /\ partial = [c \in Conn |-> NoMessage]
  /\ kpc = [c \in Conn |-> [w \in Who |-> "none"]]
  /\ kop = [c \in Conn |-> [w \in Who |-> "pong"]]

-----------------------------------------------------------------------------
(* The writing goroutine. *)

SmallerOf(m, n) == IF m < n THEN m ELSE n

(* The frames of a message.  A server writes it as one; a client flushes   *)
(* a frame each time its buffer is full and there is more.                 *)
FramesOf(c, op, load) ==
  LET k == IF IsServer[c] \/ load = <<>> THEN 1
           ELSE (Len(load) + WriteBuf - 1) \div WriteBuf
  IN [i \in 1..k |->
        [op |-> IF i = 1 THEN op ELSE "cont", fin |-> i = k,
         mask |-> ~IsServer[c], valid |-> TRUE,
         load |-> IF k = 1 THEN load
                  ELSE SubSeq(load, (i - 1) * WriteBuf + 1,
                              SmallerOf(i * WriteBuf, Len(load)))]]

ControlFrame(c, op) ==
  [op |-> op, fin |-> TRUE, mask |-> ~IsServer[c], valid |-> TRUE, load |-> <<>>]

(* WriteMessage begins: beginMessage returns the write error, if any.      *)
WriteMessage(c, op, load) ==
  /\ wpc[c] = "idle"
  /\ \/ /\ writeErr[c] # "nil"
        /\ written' = [written EXCEPT ![c] = "error"]
        /\ UNCHANGED <<wpc, frames>>
     \/ /\ writeErr[c] = "nil"
        /\ frames' = [frames EXCEPT ![c] = FramesOf(c, op, load)]
        /\ wpc' = [wpc EXCEPT ![c] = "lock"]
        /\ UNCHANGED written
  /\ UNCHANGED <<netVars, mu, writeErr, readerVars, controlVars>>

Lock(c, who) == mu[c] = "free" /\ mu' = [mu EXCEPT ![c] = who]

FlushLock(c) ==
  /\ wpc[c] = "lock"
  /\ Lock(c, "writer")
  /\ wpc' = [wpc EXCEPT ![c] = "write"]
  /\ UNCHANGED <<netVars, writeErr, frames, written, readerVars, controlVars>>

(* The message ends in an error; the token is given back. *)
AbortMessage(c) ==
  /\ mu' = [mu EXCEPT ![c] = "free"]
  /\ wpc' = [wpc EXCEPT ![c] = "idle"]
  /\ frames' = [frames EXCEPT ![c] = <<>>]
  /\ written' = [written EXCEPT ![c] = "error"]
  /\ UNCHANGED <<netVars, readerVars, controlVars>>

(* The connection does not take any more. *)
Broken(c) == ~open[c] \/ eof[c]

FlushRefused(c) ==
  /\ wpc[c] = "write" /\ writeErr[c] # "nil"
  /\ AbortMessage(c)
  /\ UNCHANGED writeErr

FlushBroken(c) ==
  /\ wpc[c] = "write" /\ writeErr[c] = "nil" /\ Broken(c)
  /\ writeErr' = [writeErr EXCEPT ![c] = "io"]
  /\ AbortMessage(c)

(* A frame is written; the write waits, holding the token and without a    *)
(* deadline, for room.  An orphaned connection takes frames for a while.   *)
Flush(c) ==
  /\ wpc[c] = "write" /\ writeErr[c] = "nil"
  /\ open[c] /\ Len(out[c]) < NetCap
  /\ out' = [out EXCEPT ![c] = Append(@, Head(frames[c]))]
  /\ mu' = [mu EXCEPT ![c] = "free"]
  /\ frames' = [frames EXCEPT ![c] = Tail(@)]
  /\ wpc' = [wpc EXCEPT ![c] = IF Tail(frames[c]) = <<>> THEN "idle" ELSE "lock"]
  /\ written' = [written EXCEPT ![c] = "nil"]
  /\ UNCHANGED <<open, eof, in, writeErr, readerVars, controlVars>>

Writing(c) == FlushLock(c) \/ FlushRefused(c) \/ FlushBroken(c) \/ Flush(c)

-----------------------------------------------------------------------------
(* WriteControl, by the reading goroutine or by the application. *)

(* The application calls it. *)
WriteControl(c, op) ==
  /\ kpc[c]["app"] = "none"
  /\ kpc' = [kpc EXCEPT ![c]["app"] = "lock"]
  /\ kop' = [kop EXCEPT ![c]["app"] = op]
  /\ UNCHANGED <<netVars, mu, writeErr, writerVars, readerVars>>

(* It returns e to its caller.  The ping handler lets the reader go on     *)
(* after ErrCloseSent and a timeout on the token; the close handler and    *)
(* handleProtocolError do not look at e.                                   *)
ControlReturns(c, who, e) ==
  /\ kpc' = [kpc EXCEPT ![c][who] = "none"]
  /\ UNCHANGED kop
  /\ IF who = "app"
     THEN UNCHANGED <<rpc, readErr>>
     ELSE LET err == IF pending[c] # "nil" THEN pending[c]
                     ELSE IF e = "io" THEN "io" ELSE "nil"
          IN /\ readErr' = [readErr EXCEPT ![c] = err]
             /\ rpc' = [rpc EXCEPT ![c] = IF err = "nil" THEN "next" ELSE "failed"]
  /\ UNCHANGED <<pending, readFinal, partial, open, eof, in, writerVars>>

ControlLock(c, who) ==
  /\ kpc[c][who] = "lock"
  /\ Lock(c, who)
  /\ kpc' = [kpc EXCEPT ![c][who] = "write"]
  /\ UNCHANGED <<netVars, writeErr, writerVars, readerVars, kop>>

(* Mutant: the token is waited for without a timer. *)
ControlNoTimeout(c, who) ==
  /\ kpc[c][who] = "lock" /\ mu[c] # "free" /\ Broken(c)
  /\ ControlReturns(c, who, "timeout")
  /\ UNCHANGED <<out, mu, writeErr>>

(* The deadline passes while another party holds the token. *)
ControlTimeout(c, who) ==
  /\ kpc[c][who] = "lock" /\ mu[c] # "free"
  /\ ControlReturns(c, who, "timeout")
  /\ UNCHANGED <<out, mu, writeErr>>

Unlock(c) == mu' = [mu EXCEPT ![c] = "free"]

ControlRefused(c, who) ==
  /\ kpc[c][who] = "write" /\ writeErr[c] # "nil"
  /\ Unlock(c)
  /\ ControlReturns(c, who, writeErr[c])
  /\ UNCHANGED <<out, writeErr>>

(* The write fails, or its deadline passes before there is room. *)
ControlBroken(c, who) ==
  /\ kpc[c][who] = "write" /\ writeErr[c] = "nil"
  /\ Broken(c) \/ Len(out[c]) >= NetCap
  /\ writeErr' = [writeErr EXCEPT ![c] = "io"]
  /\ Unlock(c)
  /\ ControlReturns(c, who, "io")
  /\ UNCHANGED out

(* Mutant: the close frame is not remembered as ErrCloseSent. *)
ControlWriteForgets(c, who) ==
  /\ kpc[c][who] = "write" /\ writeErr[c] = "nil"
  /\ open[c] /\ Len(out[c]) < NetCap
  /\ out' = [out EXCEPT ![c] = Append(@, ControlFrame(c, kop[c][who]))]
  /\ Unlock(c)
  /\ ControlReturns(c, who, "nil")
  /\ UNCHANGED writeErr

(* The frame is written; after a close frame nothing else will be. *)
ControlWrite(c, who) ==
  /\ kpc[c][who] = "write" /\ writeErr[c] = "nil"
  /\ open[c] /\ Len(out[c]) < NetCap
  /\ out' = [out EXCEPT ![c] = Append(@, ControlFrame(c, kop[c][who]))]
  /\ writeErr' = [writeErr EXCEPT ![c] =
                    IF kop[c][who] = "close" THEN "closeSent" ELSE @]
  /\ Unlock(c)
  /\ ControlReturns(c, who, "nil")

Controlling(c, who) ==
  \/ ControlLock(c, who) \/ ControlTimeout(c, who)
  \/ ControlRefused(c, who) \/ ControlBroken(c, who) \/ ControlWrite(c, who)

-----------------------------------------------------------------------------
(* The reading goroutine, in ReadMessage: advanceFrame and what NextReader *)
(* and messageReader.Read do with its result.                              *)

(* What advanceFrame objects to, in a frame it can read. *)
Objectionable(c, f) ==
  \/ f.op = "unknown"
  \/ f.op \in Control /\ (~f.fin \/ ~f.valid)
  \/ f.op \in Data /\ ~readFinal[c]
  \/ f.op = "cont" /\ readFinal[c]
  \/ f.mask # IsServer[c]

Arrived(c) == rpc[c] = "next" /\ readErr[c] = "nil" /\ in[c] # <<>>
TakeFrame(c) == in' = [in EXCEPT ![c] = Tail(@)]

(* Mutant: a control frame between two fragments ends the message. *)
ReadPongResets(c) ==
  /\ Arrived(c) /\ Head(in[c]).op = "pong" /\ ~Objectionable(c, Head(in[c]))
  /\ TakeFrame(c)
  /\ readFinal' = [readFinal EXCEPT ![c] = TRUE]
  /\ UNCHANGED <<open, eof, out, mu, writeErr, writerVars, rpc, readErr, pending, partial,
                 controlVars>>

(* The default pong handler does nothing. *)
ReadPong(c) ==
  /\ Arrived(c) /\ Head(in[c]).op = "pong" /\ ~Objectionable(c, Head(in[c]))
  /\ TakeFrame(c)
  /\ UNCHANGED <<open, eof, out, mu, writeErr, writerVars, readerVars, controlVars>>

(* Mutant: the fragments of a message are not joined. *)
ReadDataLastOnly(c) ==
  /\ Arrived(c) /\ Head(in[c]).op \in Data \cup {"cont"}
  /\ ~Objectionable(c, Head(in[c]))
  /\ LET f == Head(in[c]) IN
       /\ readFinal' = [readFinal EXCEPT ![c] = f.fin]
       /\ partial' = [partial EXCEPT ![c] =
            [op |-> IF f.op = "cont" THEN @.op ELSE f.op, load |-> f.load]]
       /\ rpc' = [rpc EXCEPT ![c] = IF f.fin THEN "message" ELSE "next"]
  /\ TakeFrame(c)
  /\ UNCHANGED <<open, eof, out, mu, writeErr, writerVars, readErr, pending, controlVars>>

(* The message with the payload of frame f at its end, or begun with it.   *)
Joined(m, f) ==
  IF f.op = "cont" THEN [m EXCEPT !.load = @ \o f.load] ELSE [op |-> f.op, load |-> f.load]

TakeData(c) ==
  LET f == Head(in[c]) IN
  /\ Arrived(c) /\ f.op \in Data \cup {"cont"} /\ ~Objectionable(c, f)
  /\ TakeFrame(c)
  /\ readFinal' = [readFinal EXCEPT ![c] = f.fin]
  /\ partial' = [partial EXCEPT ![c] = Joined(@, f)]
  /\ UNCHANGED <<open, eof, out, mu, writeErr, writerVars, pending, controlVars>>

(* A data frame: the final one completes the message. *)
ReadData(c) ==
  /\ TakeData(c)
  /\ rpc' = [rpc EXCEPT ![c] = IF Head(in[c]).fin THEN "message" ELSE "next"]
  /\ UNCHANGED readErr

(* A frame that is as long as br is read past it, from the connection.  At *)
(* the end of the stream a tls.Conn returns such bytes together with       *)
(* io.EOF, and with nothing of the frame left to read messageReader.Read   *)
(* hands it on: ReadAll takes what has come for the whole message, also in *)
(* the middle of one.                                                      *)
ReadLastData(c) ==
  /\ TakeData(c)
  /\ open[c] /\ eof[c] /\ Len(in[c]) = 1 /\ Len(Head(in[c]).load) >= ReadBuf
  /\ rpc' = [rpc EXCEPT ![c] = "message"]
  /\ readErr' = [readErr EXCEPT ![c] = "eof"]

(* The reader calls WriteControl(op) and will return err. *)
Answer(c, op, err) ==
  /\ TakeFrame(c)
  /\ rpc' = [rpc EXCEPT ![c] = "answer"]
  /\ pending' = [pending EXCEPT ![c] = err]
  /\ kpc' = [kpc EXCEPT ![c]["reader"] = "lock"]
  /\ kop' = [kop EXCEPT ![c]["reader"] = op]
  /\ UNCHANGED <<open, eof, out, mu, writeErr, writerVars, readErr, readFinal, partial>>

(* Default ping handler, default close handler, handleProtocolError. *)
ReadPing(c) ==
  /\ Arrived(c) /\ Head(in[c]).op = "ping" /\ ~Objectionable(c, Head(in[c]))
  /\ Answer(c, "pong", "nil")

(* Mutant: NextReader goes on after a close frame. *)
ReadCloseGoesOn(c) ==
  /\ Arrived(c) /\ Head(in[c]).op = "close" /\ ~Objectionable(c, Head(in[c]))
  /\ Answer(c, "close", "nil")

ReadClose(c) ==
  /\ Arrived(c) /\ Head(in[c]).op = "close" /\ ~Objectionable(c, Head(in[c]))
  /\ Answer(c, "close", "close")

ReadObjectionable(c) ==
  /\ Arrived(c) /\ Objectionable(c, Head(in[c]))
  /\ Answer(c, "close", "protocol")

(* The stream has ended, or the connection was closed on this side; frames *)
(* that are already in br can still be read in the latter case.  An error  *)
(* that is remembered stays.                                               *)
ReadEnd(c) ==
  /\ rpc[c] = "next"
  /\ readErr[c] # "nil" \/ ~open[c] \/ (in[c] = <<>> /\ eof[c])
  /\ readErr' = [readErr EXCEPT ![c] =
                   IF @ # "nil" THEN @ ELSE IF open[c] THEN "eof" ELSE "io"]
  /\ rpc' = [rpc EXCEPT ![c] = "failed"]
  /\ UNCHANGED <<netVars, mu, writeErr, writerVars, pending, readFinal, partial, controlVars>>

Reading(c) ==
  \/ ReadPong(c) \/ ReadData(c) \/ ReadLastData(c) \/ ReadPing(c) \/ ReadClose(c)
  \/ ReadObjectionable(c) \/ ReadEnd(c)

ConnStep(c) == Writing(c) \/ Reading(c) \/ \E w \in Who : Controlling(c, w)
=============================================================================
