------------------------------- MODULE WsReader -------------------------------
(***************************************************************************)
(* The reading side of Conn below the level of frames: advanceFrame,       *)
(* NextReader, messageReader.Read and maskBytes, on a stream of a peer     *)
(* that may end anywhere.  Module WsConn has the writing side and takes    *)
(* frames as wholes.  An application may read a message in pieces of any   *)
(* size and call NextReader before it has read all of it.                  *)
(*                                                                         *)
(* A frame is a head, the longer forms of its length, a key and its bytes, *)
(* each a unit of the stream; a byte knows its frame and its place in it,  *)
(* and is masked with key byte (place % KeyLen) of its frame.  Lengths are *)
(* read as unsigned and kept as signed integers.                           *)
(***************************************************************************)
EXTENDS Integers, Sequences, SequencesExt, FiniteSetsExt

CONSTANTS
  Stream,     \* what peers may send: sequences of frames
  Limits,     \* readLimit; 0 for none
  MaxInt,     \* the largest int64
  KeyLen,     \* bytes of a key
  WordSize,   \* bytes maskBytes masks at once
  BufSize,    \* bytes the bufio.Reader holds
  Room,       \* the most bytes an application reads at once
  Failures    \* failed calls of NextReader before it panics

Start == {"text", "binary"}
Control == {"ping", "pong", "close", "badclose"}
Op == Start \cup Control \cup {"cont", "reserved"}

(* A frame claims len bytes and has as many, unless the stream ends first. *)
Frame ==
  [op : Op, fin : BOOLEAN, rsv : BOOLEAN, form : {"short", "mid", "long"},
   len : 0..2 * MaxInt + 1, have : Nat, masked : BOOLEAN]

ASSUME ReaderAssumption ==
  /\ {MaxInt, KeyLen, WordSize, BufSize, Room, Failures} \subseteq Nat \ {0}
  /\ Limits \subseteq 0..MaxInt /\ WordSize % KeyLen = 0
  /\ Stream \subseteq Seq(Frame)
  /\ \A fs \in Stream : \A i \in 1..Len(fs) :
       /\ fs[i].have <= fs[i].len /\ (i < Len(fs) => fs[i].have = fs[i].len)
       /\ fs[i].form # "long" => fs[i].len <= MaxInt

Signed(n) ==
  LET m == n % (2 * MaxInt + 2) IN IF m > MaxInt THEN m - (2 * MaxInt + 2) ELSE m

VARIABLES
  frames, isServer, readLimit,  \* the scenario
  stream,    \* the units not yet read
  readRemaining, readFinal, readLength, readMaskPos, readErr,
  keyOf,     \* readMaskKey: the frame it came with
  at,        \* the frame last begun
  reader,    \* c.messageReader is the last of messages
  pc, room,  \* "app", or inside "NextReader" or "Read", of so many bytes
  messages,  \* what the application got: first frame, bytes, io.EOF returned
  told,      \* the close code the peer was sent
  readErrCount

inputs == <<frames, isServer, readLimit>>
frameVars == <<readRemaining, readFinal, readLength, readMaskPos, keyOf, at>>
readerVars == <<inputs, stream, frameVars, readErr, reader, pc, room, messages, told,
                readErrCount>>

Data(f) == f.op \in Start \cup {"cont"}

UnitsOf(f, i) ==
  LET unit(part, n) == [of |-> i, part |-> part, n |-> n]
  IN <<unit("head", 0)>>
     \o (IF f.form = "short" THEN <<>> ELSE <<unit("length", 0)>>)
     \o (IF f.masked THEN <<unit("key", 0)>> ELSE <<>>)
     \o [n \in 1..f.have |-> unit("byte", n - 1)]

Units(fs) == FlattenSeq([i \in DOMAIN fs |-> UnitsOf(fs[i], i)])

ReaderInit ==
  /\ frames \in Stream /\ isServer \in BOOLEAN /\ readLimit \in Limits
  /\ \E cut \in 0..Len(Units(frames)) : stream = SubSeq(Units(frames), 1, cut)
  /\ readRemaining = 0 /\ readFinal = TRUE /\ readLength = 0 /\ readMaskPos = 0
  /\ readErr = "none" /\ keyOf = 0 /\ at = 0 /\ reader = FALSE
  /\ pc = "app" /\ room = 0 /\ messages = <<>> /\ told = "none" /\ readErrCount = 0

From(s, n) == SubSeq(s, n + 1, Len(s))

-----------------------------------------------------------------------------
(* maskBytes *)

(* Mutant: the key word always begins with the first byte of the key. *)
WordFromZero(pos, n, align) ==
  LET head == IF align = 0 THEN 0 ELSE WordSize - align
      body == ((n - head) \div WordSize) * WordSize
  IN IF n < 2 * WordSize
     THEN [i \in 0..n - 1 |-> (pos + i) % KeyLen]
     ELSE [i \in 0..n - 1 |->
             IF i < head THEN (pos + i) % KeyLen
             ELSE IF i < head + body THEN ((i - head) % WordSize) % KeyLen
             ELSE (pos + i - body) % KeyLen]

(* The place in the key that each of n bytes is masked with, when the      *)
(* first is at pos and align bytes behind a word's boundary: the bytes     *)
(* before the boundary and the last ones singly, the others by words.      *)
KeyPlaces(pos, n, align) ==
  LET head == IF align = 0 THEN 0 ELSE WordSize - align
      body == ((n - head) \div WordSize) * WordSize
      word == [j \in 0..WordSize - 1 |-> (pos + head + j) % KeyLen]
  IN IF n < 2 * WordSize
     THEN [i \in 0..n - 1 |-> (pos + i) % KeyLen]
     ELSE [i \in 0..n - 1 |->
             IF i < head THEN (pos + i) % KeyLen
             ELSE IF i < head + body THEN word[(i - head) % WordSize]
             ELSE (pos + i - body) % KeyLen]

MaskedTo(pos, n) == (pos + n) % KeyLen

(* What the application sees of the next n units. *)
Unmasked(n, align) ==
  [i \in 1..n |->
     LET u == stream[i]
         clean == IF ~isServer THEN ~frames[u.of].masked
                  ELSE /\ frames[u.of].masked /\ u.of = keyOf
                       /\ KeyPlaces(readMaskPos, n, align)[i - 1] = u.n % KeyLen
     IN IF u.part = "byte" /\ clean THEN <<u.of, u.n>> ELSE <<0, 0>>]

-----------------------------------------------------------------------------
(* advanceFrame *)

HeadError(f) ==
  \/ f.rsv \/ f.op \notin Start \cup Control \cup {"cont"}
  \/ f.op \in Control /\ (f.form # "short" \/ ~f.fin)
  \/ f.op \in Start /\ ~readFinal
  \/ f.op = "cont" /\ readFinal

Header(f) == 1 + (IF f.form = "short" THEN 0 ELSE 1) + (IF f.masked THEN 1 ELSE 0)

(* How the head of the next frame is refused, in the order of the code. *)
HeaderError(s) ==
  IF s = <<>> THEN "unexpected EOF"
  ELSE LET f == frames[s[1].of] IN
       IF s[1].part # "head" \/ HeadError(f) THEN "protocol"
       ELSE IF f.form # "short" /\ Len(s) < 2 THEN "unexpected EOF"
       ELSE IF f.form = "long" /\ Signed(f.len) < 0 THEN "limit"
       ELSE IF f.masked # isServer THEN "protocol"
       ELSE IF Len(s) < Header(f) THEN "unexpected EOF"
       ELSE "none"

(* Mutant: a sum beyond the largest integer is not noticed. *)
NoOverflowCheck(f) ==
  IF readLimit > 0 /\ Signed(readLength + f.len) > readLimit THEN "too big" ELSE "none"

(* The read limit applies to what the frames of a message claim. *)
LimitError(f) ==
  CASE Signed(readLength + f.len) < 0 -> "limit"
    [] readLimit > 0 /\ Signed(readLength + f.len) > readLimit -> "too big"
    [] OTHER -> "none"

(* How advanceFrame fails, s being what is left of the stream behind the   *)
(* frame before, which may end within that ("too big": the peer is told).  *)
FrameError(s) ==
  IF Len(stream) < readRemaining THEN "EOF"
  ELSE IF HeaderError(s) # "none" THEN HeaderError(s)
  ELSE LET f == frames[s[1].of] IN
       IF Data(f) THEN LimitError(f)
       ELSE IF Len(s) < Header(f) + f.len THEN "unexpected EOF"
       ELSE IF f.op = "badclose" THEN "protocol"
       ELSE IF f.op = "close" THEN "close" ELSE "none"

Rest == From(stream, readRemaining)
Advancing ==
  readErr = "none" /\ (pc = "NextReader" \/ (pc = "Read" /\ readRemaining = 0 /\ ~readFinal))

(* It fails, or, "write", the answer to a ping does. *)
AdvanceFails ==
  /\ Advancing
  /\ \E e \in {FrameError(Rest), "write"} :
       /\ e # "none" /\ (e = "write" => FrameError(Rest) = "none" /\ frames[Rest[1].of].op = "ping")
       /\ readErr' = IF e = "too big" THEN "limit" ELSE e
       /\ told' = IF e \in {"protocol", "too big", "close"} THEN e ELSE told
  /\ at' = IF Rest = <<>> THEN at ELSE Rest[1].of
  /\ pc' = "app" /\ readErrCount' = readErrCount + (IF pc = "NextReader" THEN 1 ELSE 0)
  /\ UNCHANGED <<inputs, stream, readRemaining, readFinal, readLength, readMaskPos, keyOf,
                 reader, room, messages>>

(* A frame of data is begun, a control frame taken in; NextReader returns  *)
(* at the first frame of a message, and drops others.                      *)
AdvanceFrame ==
  /\ Advancing /\ FrameError(Rest) = "none"
  /\ at' = Rest[1].of
  /\ LET f == frames[at']
     IN /\ keyOf' = IF f.masked THEN at' ELSE keyOf
        /\ readMaskPos' = IF f.masked THEN 0 ELSE readMaskPos
        /\ IF Data(f)
           THEN /\ stream' = From(Rest, Header(f))
                /\ readRemaining' = f.len /\ readFinal' = f.fin
                /\ readLength' = readLength + f.len
           ELSE /\ stream' = From(Rest, Header(f) + f.len)
                /\ readRemaining' = 0 /\ UNCHANGED <<readFinal, readLength>>
        /\ IF pc = "NextReader" /\ f.op \in Start
           THEN /\ pc' = "app" /\ reader' = TRUE
                /\ messages' = Append(messages, [start |-> at', bytes |-> <<>>, done |-> FALSE])
           ELSE UNCHANGED <<pc, reader, messages>>
  /\ UNCHANGED <<inputs, readErr, room, told, readErrCount>>

-----------------------------------------------------------------------------
(* The application's calls. *)

NextReader ==
  /\ pc = "app" /\ readErr = "none" /\ Len(messages) < Len(frames)
  /\ reader' = FALSE /\ readLength' = 0 /\ pc' = "NextReader"
  /\ UNCHANGED <<inputs, stream, readRemaining, readFinal, readMaskPos, keyOf, at, readErr,
                 room, messages, told, readErrCount>>

(* Again, after an error: in the end it panics. *)
NextReaderAgain ==
  /\ pc = "app" /\ readErr # "none" /\ readErrCount < Failures
  /\ reader' = FALSE /\ readLength' = 0 /\ readErrCount' = readErrCount + 1
  /\ UNCHANGED <<inputs, stream, readRemaining, readFinal, readMaskPos, keyOf, at, readErr, pc,
                 room, messages, told>>

Panicked == readErrCount >= Failures

Current == Len(messages)
OnlyRead == UNCHANGED <<inputs, readFinal, readLength, keyOf, at, reader, told, readErrCount>>

(* messageReader.Read, by an application that has not seen its end. *)
Read ==
  /\ pc = "app" /\ reader /\ ~messages[Current].done /\ readErr = "none"
  /\ room' \in 1..Room /\ pc' = "Read"
  /\ OnlyRead /\ UNCHANGED <<stream, readRemaining, readMaskPos, readErr, messages>>

Least(a, b) == IF a < b THEN a ELSE b

(* Some bytes of the frame; a read past the bufio.Reader, of a connection  *)
(* with TLS, may report the end of the stream with the last of them.       *)
ReadBytes ==
  /\ pc = "Read" /\ readErr = "none" /\ readRemaining > 0 /\ stream # <<>>
  /\ LET most == Least(room, readRemaining)
     IN \E n \in 1..Least(most, Len(stream)), align \in 0..WordSize - 1, end \in BOOLEAN :
          /\ end => n = Len(stream) /\ most >= BufSize
          /\ messages' = [messages EXCEPT ![Current].bytes = @ \o Unmasked(n, align),
                            ![Current].done = end /\ n = readRemaining]
          /\ stream' = From(stream, n) /\ readRemaining' = readRemaining - n
          /\ readMaskPos' = IF isServer THEN MaskedTo(readMaskPos, n) ELSE readMaskPos
          /\ readErr' = CASE ~end -> "none"
                          [] end /\ n = readRemaining -> "EOF"
                          [] OTHER -> "unexpected EOF"
  /\ pc' = "app"
  /\ OnlyRead /\ UNCHANGED room

(* Mutant: the end of the stream ends the message as well. *)
ReadCutIsEnd ==
  /\ pc = "Read" /\ readErr = "none" /\ readRemaining > 0 /\ stream = <<>>
  /\ readErr' = "EOF" /\ messages' = [messages EXCEPT ![Current].done = TRUE] /\ pc' = "app"
  /\ OnlyRead /\ UNCHANGED <<stream, readRemaining, readMaskPos, room>>

(* The stream ends inside the frame. *)
ReadCut ==
  /\ pc = "Read" /\ readErr = "none" /\ readRemaining > 0 /\ stream = <<>>
  /\ readErr' = "unexpected EOF" /\ pc' = "app"
  /\ OnlyRead /\ UNCHANGED <<stream, readRemaining, readMaskPos, room, messages>>

(* io.EOF behind the last frame of the message. *)
ReadEnd ==
  /\ pc = "Read" /\ readErr = "none" /\ readRemaining = 0 /\ readFinal
  /\ reader' = FALSE /\ messages' = [messages EXCEPT ![Current].done = TRUE] /\ pc' = "app"
  /\ UNCHANGED <<inputs, stream, frameVars, readErr, room, told, readErrCount>>

ReaderNext ==
  /\ ~Panicked
  /\ \/ AdvanceFails \/ AdvanceFrame \/ NextReader \/ NextReaderAgain
     \/ Read \/ ReadBytes \/ ReadCut \/ ReadEnd

ReaderSpec == ReaderInit /\ [][ReaderNext]_readerVars

-----------------------------------------------------------------------------
(* What the peer sent, by RFC 6455 alone. *)

DataBefore(i) == {j \in 1..i - 1 : Data(frames[j])}
Open(i) == DataBefore(i) # {} /\ ~frames[Max(DataBefore(i))].fin

Legal(i) ==
  LET f == frames[i]
  IN /\ ~f.rsv /\ f.masked = isServer /\ f.op \in Start \cup Control \cup {"cont"}
     /\ f.op \in Control => f.form = "short" /\ f.fin
     /\ Data(f) => (f.op = "cont" <=> Open(i))

(* The frames of the message that frame i begins, and their bytes. *)
Ends(i) == {j \in i..Len(frames) : Data(frames[j]) /\ frames[j].fin}
Parts(i) == {j \in i..(IF Ends(i) = {} THEN Len(frames) ELSE Min(Ends(i))) : Data(frames[j])}
BytesOf(j) == [n \in 1..frames[j].have |-> <<j, n - 1>>]
Payload(i) ==
  FlattenSeq([j \in 1..Len(frames) |-> IF j \in Parts(i) THEN BytesOf(j) ELSE <<>>])
Whole(i) == Ends(i) # {} /\ \A j \in Parts(i) : frames[j].have = frames[j].len

(* However the stream is cut, read in pieces, fragmented, interrupted by   *)
(* control frames and read past by calls of NextReader, what the           *)
(* application gets of a message is a beginning of what was sent, unmasked *)
(* byte by byte, and comes from legal frames behind legal frames only.     *)
DeliveredIsSent ==
  \A m \in DOMAIN messages :
    LET d == messages[m]
    IN /\ frames[d.start].op \in Start /\ (m > 1 => messages[m - 1].start < d.start)
       /\ IsPrefix(d.bytes, Payload(d.start))
       /\ \A b \in Range(d.bytes) : \A i \in 1..b[1] : Legal(i)

(* io.EOF from Read means that the message is whole.  The one exception:   *)
(* the stream ended, within a message, with the last byte of a frame, and  *)
(* the connection reported that together with the byte.                    *)
EndMeansWhole ==
  \A m \in DOMAIN messages :
    LET d == messages[m]
    IN d.done => \/ Whole(d.start) /\ d.bytes = Payload(d.start)
                 \/ m = Current /\ readErr = "EOF" /\ stream = <<>> /\ ~frames[at].fin

(* What the frames of data from i to j claim. *)
Claimed(i, j) ==
  LET sum[k \in 0..j] ==
        IF k < i THEN 0
        ELSE sum[k - 1] + (IF Data(frames[k]) THEN frames[k].len ELSE 0)
  IN sum[j]

(* No message longer than the limit is begun to be read beyond it; and     *)
(* ErrReadLimit is deserved: by a length that is no int64, by a message    *)
(* that claims more than the limit or an int64, or, after a message that   *)
(* was not read to its end, by what is left of that one and the next.  The *)
(* peer is told, unless it is an int64 that is exceeded.                   *)
LimitHolds ==
  LET begins == {i \in 1..at : frames[i].op \in Start}
      total(i) == Claimed(i, at)
  IN /\ \A m \in DOMAIN messages : readLimit > 0 => Len(messages[m].bytes) <= readLimit
     /\ readErr = "limit" =>
          \/ frames[at].form = "long" /\ Signed(frames[at].len) < 0
          \/ \E i \in begins :
               /\ total(i) > MaxInt \/ (readLimit > 0 /\ total(i) > readLimit)
               /\ \/ i = Max(begins)
                  \/ \E m \in DOMAIN messages : messages[m].start = i /\ ~messages[m].done
     /\ readErr = "limit" /\ told = "none" => \E i \in begins : total(i) > MaxInt
=============================================================================
