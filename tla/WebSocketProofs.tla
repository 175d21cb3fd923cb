---------------------------- MODULE WebSocketProofs ----------------------------
(***************************************************************************)
(* What holds of the WebSocket connections: of two of them back to back    *)
(* (WsLink), for messages of every number and length, write buffers and    *)
(* networks of every size; and of the two that a session of the proxy      *)
(* joins (WsRelay), for every script of the endpoints.                     *)
(***************************************************************************)
EXTENDS WsLink, WsRelay, SequenceTheorems, WellFoundedInduction, TLAPS

-----------------------------------------------------------------------------
(* Two connections back to back. *)

Payload == Seq(Nat \X Nat)

LinkFrame == [op : Kind, fin : BOOLEAN, mask : BOOLEAN, valid : BOOLEAN,
              load : Payload]

LinkMessage == [op : Data, load : Payload]

LinkTypeOK ==
  /\ open \in [Conn -> BOOLEAN] /\ eof \in [Conn -> BOOLEAN]
  /\ in \in [Conn -> Seq(LinkFrame)] /\ out \in [Conn -> Seq(LinkFrame)]
  /\ wpc \in [Conn -> {"idle", "lock", "write"}]
  /\ frames \in [Conn -> Seq(LinkFrame)]
  /\ written \in [Conn -> {"nil", "error"}]
  /\ rpc \in [Conn -> {"next", "answer", "message", "failed"}]
  /\ readErr \in [Conn -> {"nil", "io", "eof", "close", "protocol"}]
  /\ pending \in [Conn -> {"nil", "close", "protocol"}]
  /\ readFinal \in [Conn -> BOOLEAN]
  /\ partial \in [Conn -> [op : Data \cup {"none"}, load : Payload]]
  /\ kpc \in [Conn -> [Who -> {"none", "lock", "write"}]]
  /\ kop \in [Conn -> [Who -> Control]]
  /\ started \in [Conn -> Seq(LinkMessage)]
  /\ got \in [Conn -> Seq([op : Data \cup {"none"}, load : Payload])]

(* A reader writes a control frame only while it answers, who has closed   *)
(* the connection reads no more, and a writer at work has a frame left.    *)
PartyInv ==
  \A c \in Conn :
    /\ kpc[c]["reader"] # "none" <=> rpc[c] = "answer"
    /\ open[c] \/ rpc[c] = "failed"
    /\ wpc[c] # "idle" => frames[c] # <<>>

(* A reader that remembers no error goes on.                               *)
Live(d) == rpc[d] # "failed" /\ readErr[d] = "nil"

(* What it reads or has read is the next message, or the beginning of it.  *)
HandsUp(d) ==
  LET w == started[Mate(d)][Len(got[d]) + 1] IN
  /\ Len(got[d]) + 1 <= Len(started[Mate(d)])
  /\ partial[d] # NoMessage
  /\ partial[d] = w \/ (~readFinal[d] /\ Begins(partial[d], w))

(* A reader that remembers an error answers nobody; it may have a message  *)
(* left that came with the end of the stream.                              *)
EndInv ==
  \A d \in Conn : readErr[d] # "nil" =>
    /\ rpc[d] # "answer"
    /\ rpc[d] # "failed" => readErr[d] = "eof"
    /\ rpc[d] = "message" => HandsUp(d)

GotInv == MessageIntegrity /\ EndInv

-----------------------------------------------------------------------------
(* A place in the stream of data frames of a connection: behind frag       *)
(* frames of the message that follows the first msg ones.                  *)
Place == [msg : Nat, frag : Nat]

Count(c, load) ==
  IF IsServer[c] \/ load = <<>> THEN 1
  ELSE (Len(load) + WriteBuf - 1) \div WriteBuf

FrameAt(c, m, i) == FramesOf(c, m.op, m.load)[i]

(* What the first k of several frames of m carry. *)
Sofar(m, k) == SubSeq(m.load, 1, k * WriteBuf)

(* Frame f of connection c leads from place p to place q. *)
IsControlStep(c, p, f, q) ==
  f.op \in Control /\ f = ControlFrame(c, f.op) /\ q = p

IsDataStep(c, p, f, q) ==
  /\ p.msg < Len(started[c])
  /\ p.frag < Count(c, started[c][p.msg + 1].load)
  /\ f = FrameAt(c, started[c][p.msg + 1], p.frag + 1)
  /\ q = IF p.frag + 1 = Count(c, started[c][p.msg + 1].load)
         THEN [msg |-> p.msg + 1, frag |-> 0]
         ELSE [msg |-> p.msg, frag |-> p.frag + 1]

Passes(c, p, f, q) == IsControlStep(c, p, f, q) \/ IsDataStep(c, p, f, q)

(* The other side's reader is at place p. *)
ReadsAt(c, p) ==
  LET d == Mate(c) IN
  /\ p.msg <= Len(started[c])
  /\ readFinal[d] <=> p.frag = 0
  /\ rpc[d] = "message" => /\ p.msg = Len(got[d]) + 1 /\ p.frag = 0
                           /\ partial[d] = started[c][p.msg]
  /\ rpc[d] # "message" => p.msg = Len(got[d])
  /\ p.frag > 0 => /\ p.msg < Len(started[c])
                   /\ p.frag < Count(c, started[c][p.msg + 1].load)
                   /\ partial[d].op = started[c][p.msg + 1].op
                   /\ partial[d].load = Sofar(started[c][p.msg + 1], p.frag)

(* The writer of c is at place p; after an error it is nowhere. *)
WritesAt(c, p) ==
  /\ wpc[c] # "idle" =>
       /\ Len(started[c]) = p.msg + 1
       /\ p.frag + Len(frames[c]) = Count(c, started[c][p.msg + 1].load)
       /\ \A i \in 1..Len(frames[c]) :
            frames[c][i] = FrameAt(c, started[c][p.msg + 1], p.frag + i)
  /\ wpc[c] = "idle" /\ written[c] = "nil" =>
       p.msg = Len(started[c]) /\ p.frag = 0

(* The frames of c that are on their way. *)
Travel(c) == in[Mate(c)] \o out[c]

(* They lead from the place of the reader to that of the writer. *)
Stream(c) ==
  \E st \in [1..(Len(Travel(c)) + 1) -> Place] :
    /\ \A i \in 1..Len(Travel(c)) : Passes(c, st[i], Travel(c)[i], st[i + 1])
    /\ ReadsAt(c, st[1])
    /\ WritesAt(c, st[Len(Travel(c)) + 1])

StreamInv == \A c \in Conn : Live(Mate(c)) => Stream(c)

LinkIInv ==
  LinkTypeOK /\ PartyInv /\ GotInv /\ NoProtocolError /\ StreamInv

-----------------------------------------------------------------------------
(* The two connections are each other's mates, one of them a server. *)
LEMMA Mates ==
  /\ \A c \in Conn : Mate(c) \in Conn /\ Mate(c) # c /\ Mate(Mate(c)) = c
  /\ \A c \in Conn : IsServer[Mate(c)] <=> ~IsServer[c]
  /\ \A c, d \in Conn : d = c \/ d = Mate(c)
<1>1. PICK s, d \in Conn : s # d /\ Conn = {s, d} /\ IsServer[s] # IsServer[d]
  BY WsLinkAssumption
<1>2. Mate(s) = d /\ Mate(d) = s
  BY <1>1 DEF Mate
<1>3. IsServer[s] \in BOOLEAN /\ IsServer[d] \in BOOLEAN
  BY WsConnAssumption
<1>4. IsServer[s] <=> ~IsServer[d]
  BY <1>1, <1>3
<1> QED
  BY <1>1, <1>2, <1>4

(* The arithmetic of a payload cut into pieces of w. *)
LEMMA DataCuts ==
  ASSUME NEW w \in Nat \ {0}, NEW l \in Nat \ {0}
  PROVE  LET n == (l + w - 1) \div w IN
         /\ n \in Nat \ {0} /\ n * w >= l
         /\ \A i \in Nat : i < n => i * w < l
<1> DEFINE n == (l + w - 1) \div w
           r == (l + w - 1) % w
<1>1. l + w - 1 \in Nat
  OBVIOUS
<1>2. n \in Int /\ r \in 0..(w - 1) /\ l + w - 1 = w * n + r
  BY <1>1
<1> HIDE DEF n, r
<1>3. n \in Nat \ {0}
  BY <1>2
<1>4. n * w >= l
  BY <1>2
<1>5. (n - 1) * w < l
  BY <1>2
<1>6. ASSUME NEW i \in Nat, i < n PROVE i * w < l
  <2>1. (n - 1 - i) * w >= 0
    BY <1>3, <1>6
  <2>2. (n - 1) * w = i * w + (n - 1 - i) * w
    BY <1>3
  <2> QED
    BY <2>1, <2>2, <1>5, <1>3
<1> QED
  BY <1>3, <1>4, <1>6 DEF n

(* Frame f is the i-th of the n frames of m. *)
PieceInv(c, m, i, n, f) ==
  /\ f \in LinkFrame
  /\ f.op = (IF i = 1 THEN m.op ELSE "cont")
  /\ f.fin <=> i = n
  /\ f.mask <=> ~IsServer[c]
  /\ f.valid
  /\ i = 1 => f.load = (IF n = 1 THEN m.load ELSE Sofar(m, 1))
  /\ i > 1 => Sofar(m, i - 1) \o f.load = (IF i = n THEN m.load ELSE Sofar(m, i))

(* The frames of a message: an initial one with its type, a final one, and *)
(* the payload in pieces that make up the whole.                           *)
LEMMA Pieces ==
  ASSUME NEW c \in Conn, NEW m \in LinkMessage
  PROVE  LET n == Count(c, m.load) IN
         /\ n \in Nat \ {0}
         /\ FramesOf(c, m.op, m.load) \in Seq(LinkFrame)
         /\ Len(FramesOf(c, m.op, m.load)) = n
         /\ \A i \in 1..n : PieceInv(c, m, i, n, FrameAt(c, m, i))
<1> DEFINE n == Count(c, m.load)
           l == Len(m.load)
           f(i) == [op |-> IF i = 1 THEN m.op ELSE "cont", fin |-> i = n,
                    mask |-> ~IsServer[c], valid |-> TRUE,
                    load |-> IF n = 1 THEN m.load
                             ELSE SubSeq(m.load, (i - 1) * WriteBuf + 1,
                                         SmallerOf(i * WriteBuf, l))]
<1>1. /\ m.load \in Seq(Nat \X Nat) /\ l \in Nat /\ m.op \in Data
      /\ \A i \in 1..l : m.load[i] \in Nat \X Nat
      /\ WriteBuf \in Nat \ {0}
  BY LenProperties, ElementOfSeq, WsConnAssumption DEF LinkMessage, Payload
<1>2. /\ n \in Nat \ {0}
      /\ n > 1 => n * WriteBuf >= l /\ \A i \in Nat : i < n => i * WriteBuf < l
  <2>1. CASE IsServer[c] \/ m.load = <<>>
    BY <2>1 DEF Count
  <2>2. CASE ~(IsServer[c] \/ m.load = <<>>)
    <3>1. l \in Nat \ {0}
      BY <2>2, <1>1, EmptySeq
    <3>2. n = (l + WriteBuf - 1) \div WriteBuf
      BY <2>2 DEF Count
    <3> HIDE DEF n, l
    <3> QED
      BY <3>1, <3>2, <1>1, DataCuts
  <2> QED
    BY <2>1, <2>2
<1>3. FramesOf(c, m.op, m.load) = [i \in 1..n |-> f(i)]
  BY DEF FramesOf, Count
<1> HIDE DEF n, l
<1>4. ASSUME NEW i \in 1..n, n > 1
      PROVE  /\ (i - 1) * WriteBuf \in 0..l
             /\ i < n => i * WriteBuf \in 0..l /\ SmallerOf(i * WriteBuf, l) = i * WriteBuf
             /\ i = n => SmallerOf(i * WriteBuf, l) = l
             /\ SmallerOf(i * WriteBuf, l) \in ((i - 1) * WriteBuf)..l
  <2>0. i - 1 \in Nat /\ i \in Nat /\ i - 1 < n /\ i <= n /\ n \in Nat
    BY <1>2, <1>4
  <2>a. (i - 1) * WriteBuf < l
    BY <1>2, <1>4, <2>0
  <2>b. (i - 1) * WriteBuf >= 0
    BY <1>1, <2>0
  <2>1. /\ i - 1 \in Nat /\ i \in Nat /\ (i - 1) * WriteBuf < l
        /\ (i - 1) * WriteBuf >= 0
    BY <2>0, <2>a, <2>b
  <2>2. i * WriteBuf = (i - 1) * WriteBuf + WriteBuf /\ i * WriteBuf \in Int
    BY <2>1, <1>1
  <2>3. i < n => i * WriteBuf < l
    BY <1>2, <1>4, <2>1
  <2>4. i = n => i * WriteBuf >= l
    BY <1>2, <1>4
  <2> DEFINE a == (i - 1) * WriteBuf
             b == i * WriteBuf
  <2>5. a \in Int /\ b \in Int /\ 0 <= a /\ a < l /\ b > a /\ (i < n => b < l) /\ (i = n => b >= l)
    BY <2>1, <2>2, <2>3, <2>4, <1>1
  <2> HIDE DEF a, b
  <2>6. /\ a \in 0..l /\ (i < n => b \in 0..l /\ SmallerOf(b, l) = b)
        /\ (i = n => SmallerOf(b, l) = l) /\ SmallerOf(b, l) \in a..l
    BY <2>5, <1>1 DEF SmallerOf
  <2> QED
    BY <2>6 DEF a, b
<1>5. ASSUME NEW i \in 1..n PROVE f(i).load \in Payload
  <2>1. CASE n = 1
    BY <2>1, <1>1 DEF Payload
  <2>2. CASE n > 1
    <3> DEFINE a == (i - 1) * WriteBuf
               b == SmallerOf(i * WriteBuf, l)
    <3>1. a \in 0..l /\ b \in a..l
      BY <1>4, <2>2
    <3> HIDE DEF a, b
    <3>2. SubSeq(m.load, a + 1, b) \in Seq(Nat \X Nat)
      BY <3>1, <1>1, SubSeqProperties
    <3> QED
      BY <3>2, <2>2, <1>2 DEF Payload, a, b
  <2> QED
    BY <2>1, <2>2, <1>2
<1>6. ASSUME NEW i \in 1..n PROVE f(i) \in LinkFrame
  <2>1. (IF i = 1 THEN m.op ELSE "cont") \in Kind
    BY <1>1 DEF Data, Kind
  <2> QED
    BY <2>1, <1>5 DEF LinkFrame
<1>7. /\ FramesOf(c, m.op, m.load) \in Seq(LinkFrame)
      /\ Len(FramesOf(c, m.op, m.load)) = n
  <2>1. [i \in 1..n |-> f(i)] \in [1..n -> LinkFrame]
    BY <1>6
  <2>2. \E k \in Nat : FramesOf(c, m.op, m.load) \in [1..k -> LinkFrame]
    BY <2>1, <1>3, <1>2
  <2>3. FramesOf(c, m.op, m.load) \in Seq(LinkFrame)
    BY <2>2, SeqDef
  <2> HIDE DEF f
  <2> QED
    BY <2>3, <2>1, <1>3, <1>2, LenProperties
<1>8. \A i \in 1..n : FrameAt(c, m, i) = f(i)
  BY <1>3 DEF FrameAt
<1>9. ASSUME NEW i \in 1..n
      PROVE  /\ i = 1 => f(i).load = IF n = 1 THEN m.load ELSE Sofar(m, 1)
             /\ i > 1 => Sofar(m, i - 1) \o f(i).load =
                           IF i = n THEN m.load ELSE Sofar(m, i)
  <2>0. n \in Nat \ {0} /\ i \in Nat /\ 1 <= i /\ i <= n
    BY <1>2
  <2>1. CASE n = 1
    BY <2>1
  <2>2. CASE n > 1 /\ i = 1
    <3>1. SmallerOf(i * WriteBuf, l) = i * WriteBuf /\ (i - 1) * WriteBuf = 0
      BY <2>2, <1>4, <1>1
    <3> QED
      BY <3>1, <2>2 DEF Sofar
  <2>3. CASE n > 1 /\ i > 1
    <3> DEFINE a == (i - 1) * WriteBuf
               b == SmallerOf(i * WriteBuf, l)
    <3>1. a \in 0..l /\ b \in a..l
      BY <1>4, <2>3
    <3>0. n # 1
      BY <2>3
    <3>2. f(i).load = SubSeq(m.load, a + 1, b)
      BY <3>0
    <3>3. Sofar(m, i - 1) = SubSeq(m.load, 1, a)
      BY DEF Sofar
    <3>4. (i = n => b = l) /\ (i < n => b = i * WriteBuf)
      BY <1>4, <2>3
    <3>5. SubSeq(m.load, 1, a) \o SubSeq(m.load, a + 1, b) = SubSeq(m.load, 1, b)
      <4> HIDE DEF a, b
      <4>1. /\ 1 \in 1..(Len(m.load) + 1) /\ a \in (1 - 1)..Len(m.load)
            /\ b \in a..Len(m.load)
        BY <3>1, <1>1 DEF l
      <4> QED
        BY <4>1, <1>1, ConcatAdjacentSubSeq
    <3>6. SubSeq(m.load, 1, l) = m.load
      BY <1>1, SubSeqFull DEF l
    <3> HIDE DEF a, b, f
    <3>7. Sofar(m, i - 1) \o f(i).load = SubSeq(m.load, 1, b)
      BY <3>2, <3>3, <3>5
    <3>8. i = n => SubSeq(m.load, 1, b) = m.load
      BY <3>4, <3>6
    <3>9. i < n => SubSeq(m.load, 1, b) = Sofar(m, i)
      BY <3>4 DEF Sofar
    <3>10. i # 1 /\ (i = n \/ i < n)
      BY <2>0, <2>3
    <3> QED
      BY <3>7, <3>8, <3>9, <3>10
  <2> HIDE DEF f
  <2>4. n = 1 \/ (n > 1 /\ i = 1) \/ (n > 1 /\ i > 1)
    BY <2>0
  <2> QED
    BY <2>1, <2>2, <2>3, <2>4
<1>10. \A i \in 1..n : /\ f(i).op = IF i = 1 THEN m.op ELSE "cont"
                       /\ f(i).fin <=> i = n
                       /\ f(i).mask <=> ~IsServer[c]
                       /\ f(i).valid
  OBVIOUS
<1> HIDE DEF f
<1> QED
  <2>1. /\ n \in Nat \ {0}
        /\ FramesOf(c, m.op, m.load) \in Seq(LinkFrame)
        /\ Len(FramesOf(c, m.op, m.load)) = n
    BY <1>2, <1>7
  <2>2. ASSUME NEW i \in 1..n
        PROVE  PieceInv(c, m, i, n, FrameAt(c, m, i))
    <3>1. PieceInv(c, m, i, n, f(i))
      BY <1>6, <1>9, <1>10 DEF PieceInv
    <3>2. FrameAt(c, m, i) = f(i)
      BY <1>8
    <3> QED
      BY <3>1, <3>2
  <2> QED
    BY <2>1, <2>2 DEF n

-----------------------------------------------------------------------------
(* A queue in two parts loses its head, gets a last element, or passes an  *)
(* element from its second part to its first.                              *)
LEMMA QueueTail ==
  ASSUME NEW S, NEW s \in Seq(S), NEW t \in Seq(S), s # <<>>
  PROVE  /\ Len(Tail(s) \o t) = Len(s \o t) - 1
         /\ Len(s \o t) \in Nat \ {0}
         /\ (s \o t)[1] = Head(s)
         /\ \A i \in 1..(Len(s \o t) - 1) : (Tail(s) \o t)[i] = (s \o t)[i + 1]
<1>1. Len(s) \in Nat \ {0} /\ Len(t) \in Nat
  BY EmptySeq, LenProperties
<1>2. /\ Tail(s) \in Seq(S) /\ Len(Tail(s)) = Len(s) - 1
      /\ \A i \in 1..(Len(s) - 1) : Tail(s)[i] = s[i + 1]
  BY HeadTailProperties
<1>3. /\ Len(Tail(s) \o t) = Len(s) - 1 + Len(t)
      /\ \A i \in 1..(Len(s) - 1 + Len(t)) : (Tail(s) \o t)[i] =
           IF i <= Len(s) - 1 THEN Tail(s)[i] ELSE t[i - (Len(s) - 1)]
  BY <1>2, ConcatProperties
<1>4. /\ Len(s \o t) = Len(s) + Len(t)
      /\ \A i \in 1..(Len(s) + Len(t)) :
           (s \o t)[i] = IF i <= Len(s) THEN s[i] ELSE t[i - Len(s)]
  BY ConcatProperties
<1>5. (s \o t)[1] = Head(s)
  BY <1>1, <1>4
<1>6. ASSUME NEW i \in 1..(Len(s \o t) - 1)
      PROVE  (Tail(s) \o t)[i] = (s \o t)[i + 1]
  <2>1. CASE i <= Len(s) - 1
    BY <2>1, <1>1, <1>2, <1>3, <1>4
  <2>2. CASE i > Len(s) - 1
    <3>1. i - (Len(s) - 1) = i + 1 - Len(s)
      BY <1>1
    <3> QED
      BY <2>2, <3>1, <1>1, <1>3, <1>4
  <2> QED
    BY <2>1, <2>2, <1>1, <1>4
<1> QED
  BY <1>1, <1>3, <1>4, <1>5, <1>6

(* What is written to the second of two queues joins the end of both.      *)
LEMMA QueueAppend ==
  ASSUME NEW S, NEW s \in Seq(S), NEW t \in Seq(S), NEW e \in S
  PROVE  s \o Append(t, e) = Append(s \o t, e)
<1>1. /\ Append(t, e) = t \o <<e>> /\ <<e>> \in Seq(S)
      /\ s \o t \in Seq(S)
  BY AppendIsConcat, ConcatProperties
<1>2. Append(s \o t, e) = (s \o t) \o <<e>>
  BY <1>1, AppendIsConcat
<1> QED
  BY <1>1, <1>2, ConcatAssociative

(* The head of a queue that moves to an empty one stays in front.          *)
LEMMA QueueMove ==
  ASSUME NEW S, NEW t \in Seq(S), t # <<>>
  PROVE  Append(<<>>, Head(t)) \o Tail(t) = <<>> \o t
<1>1. Head(t) \in S /\ Tail(t) \in Seq(S)
  BY HeadTailProperties
<1>2. Len(t) \in Nat \ {0}
  BY EmptySeq
<1>3. /\ SubSeq(t, 1, Len(t)) = <<t[1]>> \o SubSeq(t, 2, Len(t))
      /\ SubSeq(t, 1, Len(t)) = t /\ Tail(t) = SubSeq(t, 2, Len(t))
  BY <1>2, SubSeqRecursiveFirst, SubSeqFull, TailIsSubSeq
<1>4. Append(<<>>, Head(t)) = <<t[1]>>
  BY <1>1
<1>5. <<>> \o t = t
  BY ConcatEmptySeq
<1> QED
  BY <1>3, <1>4, <1>5

(* The head of a queue that moves to the one in front of it changes        *)
(* nothing of the two taken together.                                      *)
LEMMA QueueShift ==
  ASSUME NEW S, NEW s \in Seq(S), NEW t \in Seq(S), t # <<>>
  PROVE  Append(s, Head(t)) \o Tail(t) = s \o t
<1> DEFINE h == <<Head(t)>>
           r == Tail(t)
<1>1. Head(t) \in S /\ h \in Seq(S) /\ r \in Seq(S)
  BY HeadTailProperties
<1>2. Append(s, Head(t)) = s \o h
  BY <1>1, AppendIsConcat
<1>3. h \o r = t
  <2>1. Append(<<>>, Head(t)) \o r = <<>> \o t
    BY QueueMove
  <2>2. Append(<<>>, Head(t)) = h /\ <<>> \o t = t
    BY <1>1, ConcatEmptySeq
  <2> QED
    BY <2>1, <2>2
<1> HIDE DEF h, r
<1>4. (s \o h) \o r = s \o (h \o r)
  BY <1>1, ConcatAssociative
<1> QED
  BY <1>2, <1>3, <1>4 DEF r

-----------------------------------------------------------------------------
(* How the steps of the four parties change a stream. *)

(* What is on its way is a sequence of frames.                             *)
LEMMA TravelType ==
  ASSUME LinkTypeOK, NEW c \in Conn
  PROVE  /\ in[Mate(c)] \in Seq(LinkFrame) /\ out[c] \in Seq(LinkFrame)
         /\ Travel(c) \in Seq(LinkFrame) /\ Len(Travel(c)) \in Nat
<1>1. in[Mate(c)] \in Seq(LinkFrame) /\ out[c] \in Seq(LinkFrame)
  BY Mates DEF LinkTypeOK
<1> QED
  BY <1>1, ConcatProperties, LenProperties DEF Travel

(* Nothing is put into it or taken out of it. *)
LEMMA StreamSame ==
  ASSUME NEW c \in Conn, Stream(c), Travel(c)' = Travel(c),
         started'[c] = started[c],
         \A p \in Place : ReadsAt(c, p) => ReadsAt(c, p)',
         \A p \in Place : WritesAt(c, p) => WritesAt(c, p)'
  PROVE  Stream(c)'
<1> DEFINE n == Len(Travel(c))
<1>1. PICK st \in [1..(n + 1) -> Place] :
        /\ \A i \in 1..n : Passes(c, st[i], Travel(c)[i], st[i + 1])
        /\ ReadsAt(c, st[1]) /\ WritesAt(c, st[n + 1])
  BY DEF Stream
<1>2. \A p, f, q : Passes(c, p, f, q) => Passes(c, p, f, q)'
  BY DEF Passes, IsControlStep, IsDataStep
<1>3. st[1] \in Place => ReadsAt(c, st[1])'
  BY <1>1
<1>4. st[n + 1] \in Place => WritesAt(c, st[n + 1])'
  BY <1>1
<1> QED
  BY <1>1, <1>2, <1>3, <1>4 DEF Stream

(* The reader takes the first frame. *)
LEMMA StreamTaken ==
  ASSUME LinkTypeOK, NEW c \in Conn, Stream(c), in[Mate(c)] # <<>>,
         in'[Mate(c)] = Tail(in[Mate(c)]), out'[c] = out[c],
         started'[c] = started[c],
         \A p, q \in Place :
           ReadsAt(c, p) /\ Passes(c, p, Head(in[Mate(c)]), q) => ReadsAt(c, q)',
         \A p \in Place : WritesAt(c, p) => WritesAt(c, p)'
  PROVE  Stream(c)'
<1>1. PICK n \in Nat : n = Len(Travel(c))
  BY TravelType
<1>2. PICK st \in [1..(n + 1) -> Place] :
        /\ \A i \in 1..n : Passes(c, st[i], Travel(c)[i], st[i + 1])
        /\ ReadsAt(c, st[1]) /\ WritesAt(c, st[n + 1])
  BY <1>1 DEF Stream
<1>3. \A p, f, q : Passes(c, p, f, q) => Passes(c, p, f, q)'
  BY DEF Passes, IsControlStep, IsDataStep
<1>4. /\ n > 0 /\ Len(Travel(c)') = n - 1 /\ Travel(c)[1] = Head(in[Mate(c)])
      /\ \A i \in 1..(n - 1) : Travel(c)'[i] = Travel(c)[i + 1]
  <2> DEFINE s == in[Mate(c)]
             t == out[c]
  <2>1. Travel(c)' = Tail(s) \o t /\ Travel(c) = s \o t
    BY DEF Travel
  <2>2. s \in Seq(LinkFrame) /\ t \in Seq(LinkFrame) /\ s # <<>>
    BY TravelType
  <2> HIDE DEF s, t
  <2>3. /\ Len(Tail(s) \o t) = Len(s \o t) - 1
        /\ Len(s \o t) \in Nat \ {0}
        /\ (s \o t)[1] = Head(s)
        /\ \A i \in 1..(Len(s \o t) - 1) : (Tail(s) \o t)[i] = (s \o t)[i + 1]
    BY <2>2, QueueTail
  <2>4. /\ n > 0 /\ Len(Travel(c)') = n - 1 /\ Travel(c)[1] = Head(s)
        /\ \A i \in 1..(n - 1) : Travel(c)'[i] = Travel(c)[i + 1]
    BY <1>1, <2>1, <2>3
  <2> QED
    BY <2>4 DEF s
<1> DEFINE su == [i \in 1..n |-> st[i + 1]]
<1>5. su \in [1..n -> Place]
  BY <1>4
<1>6. ASSUME NEW i \in 1..(n - 1)
      PROVE  Passes(c, su[i], Travel(c)[i], su[i + 1])'
  <2>1. /\ i + 1 \in 1..n /\ su[i] = st[i + 1] /\ su[i + 1] = st[i + 1 + 1]
        /\ Travel(c)'[i] = Travel(c)[i + 1]
    BY <1>4
  <2>2. Passes(c, st[i + 1], Travel(c)[i + 1], st[i + 1 + 1])
    BY <2>1, <1>2
  <2>3. PICK f : f = Travel(c)[i + 1]
    OBVIOUS
  <2>4. Passes(c, su[i], f, su[i + 1])
    BY <2>1, <2>2, <2>3
  <2>5. Passes(c, su[i], f, su[i + 1])' /\ f = Travel(c)'[i]
    BY <2>1, <2>3, <2>4, <1>3
  <2> HIDE DEF su
  <2> QED
    BY <2>5 DEF Passes, IsControlStep, IsDataStep
<1>7. ReadsAt(c, su[1])'
  <2>1. Passes(c, st[1], Head(in[Mate(c)]), st[2])
    BY <1>2, <1>4
  <2>2. st[1] \in Place /\ st[2] \in Place /\ su[1] = st[2]
    BY <1>4
  <2> QED
    BY <2>1, <2>2, <1>2
<1>8. WritesAt(c, su[n])'
  <2>1. st[n + 1] \in Place /\ su[n] = st[n + 1]
    BY <1>4
  <2> QED
    BY <2>1, <1>2
<1>9. Len(Travel(c)') + 1 = n
  BY <1>4
<1> HIDE DEF su
<1> QED
  BY <1>4, <1>5, <1>6, <1>7, <1>8, <1>9 DEF Stream

(* A frame is put into it. *)
LEMMA StreamPut ==
  ASSUME LinkTypeOK, NEW c \in Conn, NEW e \in LinkFrame, Stream(c),
         in'[Mate(c)] = in[Mate(c)], out'[c] = Append(out[c], e),
         started'[c] = started[c],
         \A p \in Place : ReadsAt(c, p) => ReadsAt(c, p)',
         \A p \in Place : WritesAt(c, p) =>
           \E q \in Place : Passes(c, p, e, q) /\ WritesAt(c, q)'
  PROVE  Stream(c)'
<1>1. PICK n \in Nat : n = Len(Travel(c))
  BY TravelType
<1>2. PICK st \in [1..(n + 1) -> Place] :
        /\ \A i \in 1..n : Passes(c, st[i], Travel(c)[i], st[i + 1])
        /\ ReadsAt(c, st[1]) /\ WritesAt(c, st[n + 1])
  BY <1>1 DEF Stream
<1>3. \A p, f, q : Passes(c, p, f, q) => Passes(c, p, f, q)'
  BY DEF Passes, IsControlStep, IsDataStep
<1>4. /\ Len(Travel(c)') = n + 1 /\ Travel(c)'[n + 1] = e
      /\ \A i \in 1..n : Travel(c)'[i] = Travel(c)[i]
  <2>1. Travel(c)' = in[Mate(c)] \o Append(out[c], e)
    BY DEF Travel
  <2> DEFINE s == in[Mate(c)]
             t == out[c]
  <2>a. s \in Seq(LinkFrame) /\ t \in Seq(LinkFrame) /\ Travel(c) = s \o t
    BY TravelType DEF Travel
  <2>b. Travel(c)' = s \o Append(t, e)
    BY <2>1
  <2> HIDE DEF s, t
  <2>c. s \o Append(t, e) = Append(s \o t, e)
    BY <2>a, QueueAppend
  <2>2. Travel(c)' = Append(Travel(c), e) /\ Travel(c) \in Seq(LinkFrame)
    BY <2>a, <2>b, <2>c, TravelType
  <2> QED
    BY <1>1, <2>2, AppendProperties
<1>5. PICK q \in Place : Passes(c, st[n + 1], e, q) /\ WritesAt(c, q)'
  BY <1>2
<1> DEFINE su == [i \in 1..(n + 1 + 1) |-> IF i = n + 1 + 1 THEN q ELSE st[i]]
<1>6. su \in [1..(n + 1 + 1) -> Place]
  OBVIOUS
<1>7. ASSUME NEW i \in 1..(n + 1)
      PROVE  Passes(c, su[i], Travel(c)[i], su[i + 1])'
  <2>1. PICK f : f = Travel(c)'[i]
    OBVIOUS
  <2>2. Passes(c, su[i], f, su[i + 1])
    <3>1. CASE i = n + 1
      BY <3>1, <2>1, <1>4, <1>5
    <3>2. CASE i # n + 1
      <4>1. i \in 1..n /\ su[i] = st[i] /\ su[i + 1] = st[i + 1] /\ f = Travel(c)[i]
        BY <3>2, <2>1, <1>4
      <4> QED
        BY <4>1, <1>2
    <3> QED
      BY <3>1, <3>2
  <2>3. Passes(c, su[i], f, su[i + 1])' /\ f = Travel(c)'[i]
    BY <2>1, <2>2, <1>3
  <2> HIDE DEF su
  <2> QED
    BY <2>3 DEF Passes, IsControlStep, IsDataStep
<1>8. ReadsAt(c, su[1])'
  <2>1. st[1] \in Place /\ su[1] = st[1]
    OBVIOUS
  <2> QED
    BY <2>1, <1>2
<1>9. WritesAt(c, su[n + 1 + 1])'
  <2>1. su[n + 1 + 1] = q
    OBVIOUS
  <2> QED
    BY <2>1, <1>5
<1> HIDE DEF su
<1> QED
  BY <1>4, <1>6, <1>7, <1>8, <1>9 DEF Stream

(* A message is begun. *)
LEMMA StreamBegun ==
  ASSUME LinkTypeOK, NEW c \in Conn, NEW m \in LinkMessage, Stream(c),
         Travel(c)' = Travel(c), started'[c] = Append(started[c], m),
         \A p \in Place : ReadsAt(c, p) => ReadsAt(c, p)',
         \A p \in Place : WritesAt(c, p) => WritesAt(c, p)'
  PROVE  Stream(c)'
<1> DEFINE n == Len(Travel(c))
<1>1. PICK st \in [1..(n + 1) -> Place] :
        /\ \A i \in 1..n : Passes(c, st[i], Travel(c)[i], st[i + 1])
        /\ ReadsAt(c, st[1]) /\ WritesAt(c, st[n + 1])
  BY DEF Stream
<1>2. /\ Len(started[c]) \in Nat /\ Len(started'[c]) = Len(started[c]) + 1
      /\ \A i \in 1..Len(started[c]) : started'[c][i] = started[c][i]
  BY LenProperties, AppendProperties DEF LinkTypeOK
<1>3. \A p \in Place : \A f, q : Passes(c, p, f, q) => Passes(c, p, f, q)'
  <2>1. SUFFICES ASSUME NEW p \in Place, NEW f, NEW q, IsDataStep(c, p, f, q)
                 PROVE  IsDataStep(c, p, f, q)'
    BY DEF Passes, IsControlStep
  <2>2. p.msg + 1 \in 1..Len(started[c]) /\ p.msg < Len(started'[c])
    BY <2>1, <1>2 DEF IsDataStep, Place
  <2>3. started'[c][p.msg + 1] = started[c][p.msg + 1]
    BY <2>2, <1>2
  <2> QED
    BY <2>1, <2>2, <2>3 DEF IsDataStep
<1>4. n \in Nat
  BY TravelType
<1>5. \A i \in 1..n : Passes(c, st[i], Travel(c)[i], st[i + 1])'
  <2> TAKE i \in 1..n
  <2>1. Passes(c, st[i], Travel(c)[i], st[i + 1])
    BY <1>1
  <2>2. PICK f : f = Travel(c)[i]
    OBVIOUS
  <2>3. Passes(c, st[i], f, st[i + 1])' /\ f = Travel(c)'[i]
    BY <2>1, <2>2, <1>3, <1>4
  <2> QED
    BY <2>3 DEF Passes, IsControlStep, IsDataStep
<1>6. st[1] \in Place => ReadsAt(c, st[1])'
  BY <1>1
<1>7. st[n + 1] \in Place => WritesAt(c, st[n + 1])'
  BY <1>1
<1> QED
  BY <1>1, <1>4, <1>5, <1>6, <1>7, SMTT(30) DEF Stream

(* Neither of its ends is touched. *)
LEMMA ReadsSame ==
  ASSUME NEW c \in Conn, started'[c] = started[c],
         rpc'[Mate(c)] = rpc[Mate(c)], got'[Mate(c)] = got[Mate(c)],
         readFinal'[Mate(c)] = readFinal[Mate(c)],
         partial'[Mate(c)] = partial[Mate(c)]
  PROVE  \A p \in Place : ReadsAt(c, p) => ReadsAt(c, p)'
BY DEF ReadsAt

(* A writer that does nothing stays at its place.                          *)
LEMMA WritesSame ==
  ASSUME NEW c \in Conn, started'[c] = started[c], wpc'[c] = wpc[c],
         frames'[c] = frames[c], written'[c] = written[c]
  PROVE  \A p \in Place : WritesAt(c, p) => WritesAt(c, p)'
BY DEF WritesAt

(* A step of others leaves a stream as it was.                             *)
LEMMA StreamKept ==
  ASSUME NEW c \in Conn, Stream(c),
         in'[Mate(c)] = in[Mate(c)], out'[c] = out[c], started'[c] = started[c],
         rpc'[Mate(c)] = rpc[Mate(c)], got'[Mate(c)] = got[Mate(c)],
         readFinal'[Mate(c)] = readFinal[Mate(c)],
         partial'[Mate(c)] = partial[Mate(c)],
         wpc'[c] = wpc[c], frames'[c] = frames[c], written'[c] = written[c]
  PROVE  Stream(c)'
<1>1. Travel(c)' = Travel(c)
  BY DEF Travel
<1> QED
  BY <1>1, ReadsSame, WritesSame, StreamSame

(* A step that leaves the reader's side alone keeps what it has returned.  *)
LEMMA GotSame ==
  ASSUME GotInv, UNCHANGED <<started, got, rpc, readErr, readFinal, partial>>
  PROVE  GotInv'
BY DEF GotInv, MessageIntegrity, EndInv, HandsUp, CutShort

-----------------------------------------------------------------------------
(* The applications. *)

(* A numbered message is a payload.                                        *)
LEMMA LoadType ==
  ASSUME NEW k \in Nat, NEW n \in Nat
  PROVE  Load(k, n) \in Payload
<1>1. Load(k, n) \in [1..n -> Nat \X Nat]
  BY DEF Load
<1> QED
  BY <1>1, SeqDef DEF Payload

(* SAY begins a message or is refused. *)
LEMMA SayIInv ==
  ASSUME LinkIInv, NEW c \in Conn, Say(c)
  PROVE  LinkIInv'
<1> USE DEF LinkIInv
<1>1. PICK k \in Lengths :
        LET m == [op |-> KindOf[c], load |-> Load(Len(started[c]) + 1, k)] IN
        /\ WriteMessage(c, m.op, m.load)
        /\ started' = IF writeErr[c] # "nil" THEN started
                      ELSE [started EXCEPT ![c] = Append(@, m)]
        /\ UNCHANGED <<got, asked>>
  BY DEF Say
<1> DEFINE m == [op |-> KindOf[c], load |-> Load(Len(started[c]) + 1, k)]
<1>2. m \in LinkMessage
  <2>1. Len(started[c]) + 1 \in Nat /\ k \in Nat /\ KindOf[c] \in Data
    BY WsLinkAssumption, LenProperties DEF LinkTypeOK
  <2> QED
    BY <2>1, LoadType DEF LinkMessage
<1>3. UNCHANGED <<open, eof, in, out, rpc, readErr, pending, readFinal, partial,
                  kpc, kop, got>>
  BY <1>1 DEF WriteMessage, netVars, readerVars, controlVars
<1> HIDE DEF m
<1>4. CASE writeErr[c] # "nil"
  <2>1. /\ written' = [written EXCEPT ![c] = "error"] /\ wpc[c] = "idle"
        /\ UNCHANGED <<wpc, frames, started>>
    BY <1>1, <1>4 DEF WriteMessage
  <2>2. LinkTypeOK'
    BY <1>3, <2>1 DEF LinkTypeOK
  <2>3. PartyInv' /\ GotInv' /\ NoProtocolError'
    BY <1>3, <2>1, GotSame DEF PartyInv, NoProtocolError
  <2>4. StreamInv'
    <3> SUFFICES ASSUME NEW x \in Conn, Live(Mate(x))' PROVE Stream(x)'
      BY DEF StreamInv
    <3>1. Stream(x) /\ Travel(x)' = Travel(x)
      BY <1>3 DEF StreamInv, Live, Travel
    <3>2. \A p \in Place : WritesAt(x, p) => WritesAt(x, p)'
      BY <2>1 DEF WritesAt, LinkTypeOK
    <3> QED
      BY <3>1, <3>2, <1>3, <2>1, StreamSame, ReadsSame
  <2> QED
    BY <2>2, <2>3, <2>4
<1>5. CASE writeErr[c] = "nil"
  <2> DEFINE n == Count(c, m.load)
             fs == FramesOf(c, m.op, m.load)
  <2>1. /\ frames' = [frames EXCEPT ![c] = fs] /\ wpc[c] = "idle"
        /\ wpc' = [wpc EXCEPT ![c] = "lock"] /\ written' = written
        /\ started' = [started EXCEPT ![c] = Append(@, m)]
    BY <1>1, <1>5 DEF WriteMessage, m
  <2>2. n \in Nat \ {0} /\ fs \in Seq(LinkFrame) /\ Len(fs) = n /\ fs # <<>>
    <3>1. n \in Nat \ {0} /\ fs \in Seq(LinkFrame) /\ Len(fs) = n
      BY <1>2, Pieces
    <3> HIDE DEF n, fs
    <3> QED
      BY <3>1
  <2>3. /\ started[c] \in Seq(LinkMessage) /\ started'[c] = Append(started[c], m)
        /\ Len(started[c]) \in Nat /\ Len(started'[c]) = Len(started[c]) + 1
        /\ \A i \in 1..Len(started[c]) : started'[c][i] = started[c][i]
        /\ started'[c][Len(started[c]) + 1] = m
        /\ started'[c] \in Seq(LinkMessage)
        /\ \A x \in Conn : x # c => started'[x] = started[x]
    BY <1>2, <2>1, LenProperties, AppendProperties DEF LinkTypeOK
  <2> HIDE DEF fs, n
  <2>4. LinkTypeOK'
    BY <1>3, <2>1, <2>2, <2>3 DEF LinkTypeOK
  <2>5. PartyInv' /\ NoProtocolError'
    BY <1>3, <2>1, <2>2 DEF PartyInv, NoProtocolError, LinkTypeOK
  <2>6. GotInv'
    <3>1. ASSUME NEW x \in Conn
          PROVE  /\ Len(started[Mate(x)]) \in Nat /\ Len(started'[Mate(x)]) \in Nat
                 /\ Len(started[Mate(x)]) <= Len(started'[Mate(x)])
                 /\ \A i \in 1..Len(started[Mate(x)]) :
                      started'[Mate(x)][i] = started[Mate(x)][i]
      <4>1. Mate(x) \in Conn
        BY Mates
      <4>2. Len(started[Mate(x)]) \in Nat
        BY <4>1, LenProperties DEF LinkTypeOK
      <4>3. CASE Mate(x) = c
        BY <2>3, <4>3
      <4>4. CASE Mate(x) # c
        BY <2>3, <4>1, <4>2, <4>4
      <4> QED
        BY <4>3, <4>4
    <3>2. \A x \in Conn : Len(got[x]) \in Nat
      BY LenProperties DEF LinkTypeOK
    <3>3. MessageIntegrity'
      <4> SUFFICES ASSUME NEW x \in Conn
                   PROVE  /\ Len(got[x]) <= Len(started'[Mate(x)])
                          /\ \A i \in 1..Len(got[x]) :
                               \/ got[x][i] = started'[Mate(x)][i]
                               \/ i = Len(got[x]) /\ CutShort(x)
                                  /\ Begins(got[x][i], started'[Mate(x)][i])
        BY <1>3 DEF MessageIntegrity, CutShort
      <4>1. Len(got[x]) <= Len(started[Mate(x)])
        BY DEF GotInv, MessageIntegrity
      <4>2. \A i \in 1..Len(got[x]) : i \in 1..Len(started[Mate(x)])
        BY <3>1, <3>2, <4>1
      <4> QED
        BY <3>1, <3>2, <4>1, <4>2 DEF GotInv, MessageIntegrity
    <3>4. EndInv'
      <4> SUFFICES ASSUME NEW x \in Conn, readErr[x] # "nil"
                   PROVE  /\ rpc[x] # "answer"
                          /\ rpc[x] # "failed" => readErr[x] = "eof"
                          /\ rpc[x] = "message" => HandsUp(x)'
        BY <1>3 DEF EndInv
      <4>1. ASSUME HandsUp(x) PROVE HandsUp(x)'
        <5>1. Len(got[x]) + 1 \in 1..Len(started[Mate(x)])
          BY <3>1, <3>2, <4>1 DEF HandsUp
        <5> QED
          BY <1>3, <3>1, <3>2, <4>1, <5>1 DEF HandsUp
      <4> QED
        BY <4>1 DEF GotInv, EndInv
    <3> QED
      BY <3>3, <3>4 DEF GotInv
  <2>7. StreamInv'
    <3> SUFFICES ASSUME NEW x \in Conn, Live(Mate(x))' PROVE Stream(x)'
      BY DEF StreamInv
    <3>1. Stream(x) /\ Travel(x)' = Travel(x)
      BY <1>3 DEF StreamInv, Live, Travel
    <3>2. CASE x # c
      BY <3>1, <3>2, <1>3, <2>1, <2>3, StreamKept, Mates DEF LinkTypeOK
    <3>3. CASE x = c
      <4>1. ASSUME NEW p \in Place, ReadsAt(c, p) PROVE ReadsAt(c, p)'
        <5>1. p.msg \in Nat /\ p.frag \in Nat
          BY DEF Place
        <5>2. /\ p.msg > 0 /\ p.msg <= Len(started[c]) =>
                   started'[c][p.msg] = started[c][p.msg]
              /\ p.msg < Len(started[c]) =>
                   started'[c][p.msg + 1] = started[c][p.msg + 1]
          BY <2>3, <5>1
        <5>3. Len(got[Mate(c)]) \in Nat
          BY Mates, LenProperties DEF LinkTypeOK
        <5> QED
          BY <1>3, <2>3, <4>1, <5>1, <5>2, <5>3 DEF ReadsAt
      <4>2. ASSUME NEW p \in Place, WritesAt(c, p) PROVE WritesAt(c, p)'
        <5>1. CASE written[c] = "nil"
          <6>1. p.msg = Len(started[c]) /\ p.frag = 0
            BY <2>1, <4>2, <5>1 DEF WritesAt
          <6>2. wpc'[c] = "lock" /\ frames'[c] = fs
            BY <2>1 DEF LinkTypeOK
          <6>3. \A i \in 1..n : fs[i] = FrameAt(c, m, 0 + i)
            BY <2>2 DEF FrameAt, fs
          <6> QED
            BY <2>2, <2>3, <6>1, <6>2, <6>3 DEF WritesAt, n
        <5>2. written[c] = "nil"
          BY DEF Say
        <5> QED
          BY <5>1, <5>2
      <4> QED
        BY <3>1, <3>3, <4>1, <4>2, <1>2, <2>3, StreamBegun
    <3> QED
      BY <3>2, <3>3
  <2> QED
    BY <2>4, <2>5, <2>6, <2>7
<1> QED
  BY <1>4, <1>5

(* ASK, HangUp and End change nothing the streams are made of. *)
LEMMA QuietIInv ==
  ASSUME LinkIInv, LinkTypeOK', PartyInv', NoProtocolError',
         UNCHANGED <<in, out, wpc, frames, written, rpc, readErr, readFinal, partial,
                     started, got>>
  PROVE  LinkIInv'
<1>1. GotInv'
  BY GotSame DEF LinkIInv
<1>2. StreamInv'
  <2> SUFFICES ASSUME NEW x \in Conn, Live(Mate(x))' PROVE Stream(x)'
    BY DEF StreamInv
  <2>1. Stream(x)
    BY DEF LinkIInv, StreamInv, Live
  <2> QED
    BY <2>1, StreamKept
<1> QED
  BY <1>1, <1>2 DEF LinkIInv

(* The application asks for a control frame.                               *)
LEMMA AskIInv ==
  ASSUME LinkIInv, NEW c \in Conn, Ask(c)
  PROVE  LinkIInv'
<1>1. PICK op \in Controls : WriteControl(c, op) /\ UNCHANGED <<started, got>>
  BY DEF Ask
<1>2. /\ kpc' = [kpc EXCEPT ![c]["app"] = "lock"]
      /\ kop' = [kop EXCEPT ![c]["app"] = op] /\ op \in Control
      /\ UNCHANGED <<open, eof, in, out, wpc, frames, written, rpc, readErr, pending,
                     readFinal, partial, started, got>>
  BY <1>1, WsLinkAssumption DEF WriteControl, netVars, writerVars, readerVars
<1>3. LinkTypeOK'
  BY <1>2 DEF LinkIInv, LinkTypeOK, Who
<1>4. PartyInv' /\ NoProtocolError'
  BY <1>2 DEF LinkIInv, PartyInv, NoProtocolError, LinkTypeOK, Who
<1> QED
  BY <1>2, <1>3, <1>4, QuietIInv

(* The application closes the connection.                                  *)
LEMMA HangUpIInv ==
  ASSUME LinkIInv, NEW c \in Conn, HangUp(c)
  PROVE  LinkIInv'
<1>1. /\ open' = [open EXCEPT ![c] = FALSE] /\ rpc[c] = "failed"
      /\ UNCHANGED <<eof, in, out, wpc, frames, written, rpc, readErr, pending,
                     readFinal, partial, kpc, kop, started, got>>
  BY DEF HangUp, writerVars, readerVars, controlVars
<1>2. LinkTypeOK'
  BY <1>1 DEF LinkIInv, LinkTypeOK
<1>3. PartyInv' /\ NoProtocolError'
  BY <1>1 DEF LinkIInv, PartyInv, NoProtocolError, LinkTypeOK
<1> QED
  BY <1>1, <1>2, <1>3, QuietIInv

(* ReadMessage returns the message that was read. *)
LEMMA TakeIInv ==
  ASSUME LinkIInv, NEW d \in Conn, Take(d)
  PROVE  LinkIInv'
<1> USE DEF LinkIInv
<1> DEFINE c == Mate(d)
<1>1. /\ rpc[d] = "message" /\ got' = [got EXCEPT ![d] = Append(@, partial[d])]
      /\ partial' = [partial EXCEPT ![d] = NoMessage]
      /\ rpc' = [rpc EXCEPT ![d] = "next"]
      /\ UNCHANGED <<open, eof, in, out, wpc, frames, written, readErr, pending,
                     readFinal, kpc, kop, started>>
  BY DEF Take, netVars, writerVars, controlVars
<1>2. c \in Conn /\ Mate(c) = d /\ c # d
  BY Mates
<1>3. HandsUp(d) /\ (readErr[d] = "nil" => partial[d] = started[c][Len(got[d]) + 1])
  <2>1. CASE readErr[d] = "nil"
    <3>1. PICK st \in [1..(Len(Travel(c)) + 1) -> Place] : ReadsAt(c, st[1])
      BY <1>1, <1>2, <2>1 DEF StreamInv, Live, Stream
    <3>2. st[1] \in Place
      BY <1>2, TravelType
    <3>3. /\ Len(got[d]) + 1 <= Len(started[c])
          /\ partial[d] = started[c][Len(got[d]) + 1]
      BY <1>1, <1>2, <3>1, <3>2 DEF ReadsAt
    <3>4. started[c][Len(got[d]) + 1] \in LinkMessage
      <4>1. started[c] \in Seq(LinkMessage) /\ got[d] \in Seq([op : Data \cup {"none"}, load : Payload])
        BY <1>2 DEF LinkTypeOK
      <4>2. Len(got[d]) \in Nat /\ Len(started[c]) \in Nat
        BY <4>1, LenProperties
      <4>3. Len(got[d]) + 1 \in 1..Len(started[c])
        BY <3>3, <4>2
      <4> QED
        BY <4>1, <4>3, ElementOfSeq
    <3>5. partial[d] # NoMessage
      BY <3>3, <3>4 DEF LinkMessage, NoMessage, Data
    <3> QED
      BY <3>3, <3>5 DEF HandsUp
  <2>2. CASE readErr[d] # "nil"
    BY <1>1, <2>2 DEF GotInv, EndInv
  <2> QED
    BY <2>1, <2>2
<1>4. /\ Len(got[d]) + 1 <= Len(started[c]) /\ Len(started[c]) \in Nat
      /\ Len(got[d]) \in Nat
  BY <1>2, <1>3, LenProperties DEF HandsUp, LinkTypeOK
<1>5. /\ got'[d] = Append(got[d], partial[d]) /\ Len(got'[d]) = Len(got[d]) + 1
      /\ got'[d] \in Seq([op : Data \cup {"none"}, load : Payload])
      /\ \A i \in 1..Len(got[d]) : got'[d][i] = got[d][i]
      /\ got'[d][Len(got[d]) + 1] = partial[d]
  <2> DEFINE T == [op : Data \cup {"none"}, load : Payload]
  <2>1. got[d] \in Seq(T) /\ partial[d] \in T /\ got'[d] = Append(got[d], partial[d])
    BY <1>1 DEF LinkTypeOK
  <2> HIDE DEF T
  <2>2. /\ Len(Append(got[d], partial[d])) = Len(got[d]) + 1
        /\ Append(got[d], partial[d]) \in Seq(T)
        /\ \A i \in 1..Len(got[d]) : Append(got[d], partial[d])[i] = got[d][i]
        /\ Append(got[d], partial[d])[Len(got[d]) + 1] = partial[d]
    BY <2>1, AppendProperties
  <2> QED
    BY <2>1, <2>2 DEF T
<1>6. LinkTypeOK'
  <2>1. NoMessage \in [op : Data \cup {"none"}, load : Payload]
    <3>1. <<>> \in Payload
      BY EmptySeq DEF Payload
    <3> QED
      BY <3>1 DEF NoMessage
  <2> QED
    BY <1>1, <1>5, <2>1 DEF LinkTypeOK
<1>7. PartyInv' /\ NoProtocolError'
  BY <1>1 DEF PartyInv, NoProtocolError, LinkTypeOK
<1>8. GotInv'
  <2>1. MessageIntegrity'
    <3> SUFFICES ASSUME NEW x \in Conn
                 PROVE  /\ Len(got'[x]) <= Len(started[Mate(x)])
                        /\ \A i \in 1..Len(got'[x]) :
                             \/ got'[x][i] = started[Mate(x)][i]
                             \/ i = Len(got'[x]) /\ CutShort(x)'
                                /\ Begins(got'[x][i], started[Mate(x)][i])
      BY <1>1 DEF MessageIntegrity
    <3>1. CASE x # d
      <4>1. got'[x] = got[x] /\ (CutShort(x)' <=> CutShort(x))
        BY <1>1, <3>1 DEF LinkTypeOK, CutShort
      <4> QED
        BY <4>1 DEF GotInv, MessageIntegrity
    <3>2. CASE x = d
      <4>1. Len(got'[d]) <= Len(started[c])
        BY <1>4, <1>5
      <4>2. ASSUME NEW i \in 1..Len(got'[d])
            PROVE  \/ got'[d][i] = started[c][i]
                   \/ i = Len(got'[d]) /\ CutShort(d)' /\ Begins(got'[d][i], started[c][i])
        <5>1. CASE i = Len(got[d]) + 1
          <6>1. got'[d][i] = partial[d] /\ i = Len(got'[d])
            BY <1>5, <5>1
          <6>2. CASE partial[d] = started[c][i]
            BY <6>1, <6>2
          <6>3. CASE partial[d] # started[c][i]
            <7>1. readErr[d] # "nil" /\ ~readFinal[d] /\ Begins(partial[d], started[c][i])
              BY <1>3, <5>1, <6>3 DEF HandsUp
            <7>2. readErr[d] = "eof"
              BY <1>1, <7>1 DEF GotInv, EndInv
            <7>3. CutShort(d)'
              BY <1>1, <7>1, <7>2 DEF CutShort, LinkTypeOK
            <7> QED
              BY <6>1, <7>1, <7>3
          <6> QED
            BY <6>2, <6>3
        <5>2. CASE i # Len(got[d]) + 1
          <6>1. i \in 1..Len(got[d])
            BY <5>2, <1>4, <1>5
          <6>2. ~CutShort(d)
            BY <1>3 DEF HandsUp, CutShort
          <6> QED
            BY <1>5, <6>1, <6>2 DEF GotInv, MessageIntegrity
        <5> QED
          BY <5>1, <5>2
      <4> HIDE DEF c
      <4> QED
        BY <3>2, <4>1, <4>2 DEF c
    <3> QED
      BY <3>1, <3>2
  <2>2. EndInv'
    <3> SUFFICES ASSUME NEW x \in Conn, readErr[x] # "nil"
                 PROVE  /\ rpc'[x] # "answer"
                        /\ rpc'[x] # "failed" => readErr[x] = "eof"
                        /\ rpc'[x] = "message" => HandsUp(x)'
      BY <1>1 DEF EndInv
    <3>1. CASE x = d
      BY <1>1, <3>1 DEF GotInv, EndInv, LinkTypeOK
    <3>2. CASE x # d
      <4>1. /\ rpc'[x] = rpc[x] /\ got'[x] = got[x] /\ partial'[x] = partial[x]
            /\ UNCHANGED <<started, readFinal>>
        BY <1>1, <3>2 DEF LinkTypeOK
      <4> QED
        BY <4>1 DEF GotInv, EndInv, HandsUp
    <3> QED
      BY <3>1, <3>2
  <2> QED
    BY <2>1, <2>2 DEF GotInv
<1>9. StreamInv'
  <2> SUFFICES ASSUME NEW x \in Conn, Live(Mate(x))' PROVE Stream(x)'
    BY DEF StreamInv
  <2>1. CASE x = c
    <3>1. Stream(c) /\ Travel(c)' = Travel(c)
      BY <1>1, <1>2, <2>1 DEF StreamInv, Live, Travel
    <3>2. ASSUME NEW q \in Place, ReadsAt(c, q) PROVE ReadsAt(c, q)'
      <4>1. rpc'[d] = "next" /\ readFinal'[d] = readFinal[d]
        BY <1>1 DEF LinkTypeOK
      <4> QED
        BY <1>1, <1>2, <1>4, <1>5, <3>2, <4>1 DEF ReadsAt, Place
    <3>3. \A q \in Place : WritesAt(c, q) => WritesAt(c, q)'
      BY <1>1, <1>2, WritesSame
    <3> HIDE DEF c
    <3> QED
      BY <2>1, <3>1, <3>2, <3>3, <1>1, <1>2, StreamSame
  <2>2. CASE x # c
    <3>1. Mate(x) # d /\ Mate(x) \in Conn
      BY <2>2, Mates
    <3>2. Stream(x)
      BY <1>1, <3>1 DEF StreamInv, Live, LinkTypeOK
    <3> QED
      BY <1>1, <3>1, <3>2, StreamKept DEF LinkTypeOK
  <2> QED
    BY <2>1, <2>2
<1> QED
  BY <1>6, <1>7, <1>8, <1>9

-----------------------------------------------------------------------------
(* The network. *)

(* A frame crosses, or the end of the stream is noticed.                   *)
LEMMA NetIInv ==
  ASSUME LinkIInv, NEW c \in Conn, Net(c)
  PROVE  LinkIInv'
<1> USE DEF LinkIInv
<1> DEFINE d == Mate(c)
<1>1. d \in Conn /\ d # c
  BY Mates
<1>2. CASE End(c)
  <2>1. /\ eof' = [eof EXCEPT ![c] = TRUE]
        /\ UNCHANGED <<open, in, out, wpc, frames, written, rpc, readErr, pending,
                       readFinal, partial, kpc, kop, started, got>>
    BY <1>2 DEF End, writerVars, readerVars, controlVars
  <2>2. LinkTypeOK'
    BY <2>1 DEF LinkTypeOK
  <2>3. PartyInv' /\ NoProtocolError'
    BY <2>1 DEF PartyInv, NoProtocolError
  <2> QED
    BY <2>1, <2>2, <2>3, QuietIInv
<1>3. CASE Transfer(c)
  <2>1. /\ out[c] # <<>> /\ out' = [out EXCEPT ![c] = Tail(@)]
        /\ \/ /\ in[d] = <<>>
              /\ in' = [in EXCEPT ![d] = Append(@, Head(out[c]))]
           \/ ~open[d] /\ UNCHANGED in
        /\ UNCHANGED <<open, eof, wpc, frames, written, rpc, readErr, pending,
                       readFinal, partial, kpc, kop, started, got>>
    BY <1>3 DEF Transfer, writerVars, readerVars, controlVars
  <2>2. /\ out[c] \in Seq(LinkFrame) /\ Tail(out[c]) \in Seq(LinkFrame)
        /\ Head(out[c]) \in LinkFrame
    BY <2>1, HeadTailProperties DEF LinkTypeOK
  <2>3. /\ out'[c] = Tail(out[c]) /\ \A x \in Conn : x # c => out'[x] = out[x]
        /\ \A x \in Conn : x # d => in'[x] = in[x]
        /\ in'[d] \in Seq(LinkFrame)
        /\ (in[d] = <<>> /\ in'[d] = Append(in[d], Head(out[c]))) \/ ~open[d]
    <3>1. in[d] \in Seq(LinkFrame) /\ Append(in[d], Head(out[c])) \in Seq(LinkFrame)
      BY <1>1, <2>2, AppendProperties DEF LinkTypeOK
    <3>2. out'[c] = Tail(out[c]) /\ \A x \in Conn : x # c => out'[x] = out[x]
      BY <2>1 DEF LinkTypeOK
    <3>3. \/ in[d] = <<>> /\ in'[d] = Append(in[d], Head(out[c]))
          \/ ~open[d] /\ in'[d] = in[d]
      BY <1>1, <2>1 DEF LinkTypeOK
    <3>4. \A x \in Conn : x # d => in'[x] = in[x]
      BY <2>1 DEF LinkTypeOK
    <3> QED
      BY <3>1, <3>2, <3>3, <3>4
  <2>4. LinkTypeOK'
    BY <2>1, <2>2, <2>3, <1>1 DEF LinkTypeOK
  <2>5. PartyInv' /\ GotInv' /\ NoProtocolError'
    BY <2>1, GotSame DEF PartyInv, NoProtocolError
  <2>6. StreamInv'
    <3> SUFFICES ASSUME NEW x \in Conn, Live(Mate(x))' PROVE Stream(x)'
      BY DEF StreamInv
    <3>1. Stream(x)
      BY <2>1 DEF StreamInv, Live
    <3>2. CASE x = c
      <4>1. in[d] = <<>> /\ in'[d] = Append(<<>>, Head(out[c]))
        BY <2>1, <2>3, <3>2, <1>1 DEF PartyInv, Live
      <4>2. Travel(c)' = Travel(c)
        <5>1. Travel(c)' = Append(<<>>, Head(out[c])) \o Tail(out[c])
          BY <4>1, <2>3 DEF Travel
        <5>2. Travel(c) = <<>> \o out[c]
          BY <4>1 DEF Travel
        <5> QED
          BY <5>1, <5>2, <2>1, <2>2, QueueMove
      <4> QED
        BY <2>1, <3>1, <3>2, <4>2, StreamSame, ReadsSame, WritesSame
    <3>3. CASE x # c
      <4>1. Mate(x) # d /\ Mate(x) \in Conn
        BY <3>3, Mates
      <4> QED
        BY <2>1, <2>3, <3>1, <3>3, <4>1, StreamKept
    <3> QED
      BY <3>2, <3>3
  <2> QED
    BY <2>4, <2>5, <2>6
<1> QED
  BY <1>2, <1>3 DEF Net

-----------------------------------------------------------------------------
(* The writing goroutine. *)

(* What leaves the network, the readers and the answers alone. *)
LEMMA WriterIInv ==
  ASSUME LinkIInv, NEW c \in Conn, LinkTypeOK',
         UNCHANGED <<open, in, rpc, readErr, pending, readFinal, partial, kpc,
                     started, got>>,
         \A x \in Conn : x # c =>
           /\ out'[x] = out[x] /\ wpc'[x] = wpc[x]
           /\ frames'[x] = frames[x] /\ written'[x] = written[x],
         wpc'[c] # "idle" => frames'[c] # <<>>,
         Stream(c) => Stream(c)'
  PROVE  LinkIInv'
<1> USE DEF LinkIInv
<1>1. PartyInv' /\ GotInv' /\ NoProtocolError'
  BY GotSame DEF PartyInv, NoProtocolError
<1>2. StreamInv'
  <2> SUFFICES ASSUME NEW x \in Conn, Live(Mate(x))' PROVE Stream(x)'
    BY DEF StreamInv
  <2>1. Stream(x)
    BY DEF StreamInv, Live
  <2> QED
    BY <2>1, StreamKept
<1> QED
  BY <1>1, <1>2

(* The writer takes the token.                                             *)
LEMMA FlushLockIInv ==
  ASSUME LinkIInv, NEW c \in Conn, FlushLock(c), UNCHANGED <<started, got>>
  PROVE  LinkIInv'
<1>1. /\ wpc[c] = "lock" /\ wpc' = [wpc EXCEPT ![c] = "write"]
      /\ UNCHANGED <<open, eof, in, out, frames, written, rpc, readErr, pending,
                     readFinal, partial, kpc, kop, started, got>>
  BY DEF FlushLock, netVars, readerVars, controlVars
<1>2. LinkTypeOK' /\ wpc'[c] = "write"
  BY <1>1 DEF LinkIInv, LinkTypeOK
<1>3. \A p \in Place : WritesAt(c, p) => WritesAt(c, p)'
  BY <1>1, <1>2 DEF WritesAt
<1>4. Stream(c) => Stream(c)'
  <2>1. Travel(c)' = Travel(c)
    BY <1>1 DEF Travel
  <2> QED
    BY <1>1, <1>3, <2>1, ReadsSame, StreamSame
<1>5. frames[c] # <<>>
  BY <1>1 DEF LinkIInv, PartyInv
<1>6. \A x \in Conn : x # c => wpc'[x] = wpc[x]
  BY <1>1 DEF LinkIInv, LinkTypeOK
<1>7. UNCHANGED <<open, in, out, frames, written, rpc, readErr, pending, readFinal, partial, kpc,
                  started, got>>
  BY <1>1
<1> QED
  BY <1>2, <1>4, <1>5, <1>6, <1>7, WriterIInv

(* The writer gives up its message: an error, or a broken connection.      *)
LEMMA AbortIInv ==
  ASSUME LinkIInv, NEW c \in Conn, AbortMessage(c), UNCHANGED <<started, got>>
  PROVE  LinkIInv'
<1>1. /\ wpc' = [wpc EXCEPT ![c] = "idle"] /\ frames' = [frames EXCEPT ![c] = <<>>]
      /\ written' = [written EXCEPT ![c] = "error"]
      /\ UNCHANGED <<open, eof, in, out, rpc, readErr, pending, readFinal, partial,
                     kpc, kop, started, got>>
  BY DEF AbortMessage, netVars, readerVars, controlVars
<1>2. LinkTypeOK' /\ wpc'[c] = "idle" /\ written'[c] = "error"
  BY <1>1, EmptySeq DEF LinkIInv, LinkTypeOK
<1>3. \A p \in Place : WritesAt(c, p) => WritesAt(c, p)'
  BY <1>2 DEF WritesAt
<1>4. Stream(c) => Stream(c)'
  <2>1. Travel(c)' = Travel(c)
    BY <1>1 DEF Travel
  <2> QED
    BY <1>1, <1>3, <2>1, ReadsSame, StreamSame
<1>5. \A x \in Conn : x # c => /\ wpc'[x] = wpc[x] /\ frames'[x] = frames[x]
                                /\ written'[x] = written[x]
  BY <1>1 DEF LinkIInv, LinkTypeOK
<1>6. UNCHANGED <<open, in, out, rpc, readErr, pending, readFinal, partial, kpc, started, got>>
  BY <1>1
<1> QED
  BY <1>2, <1>4, <1>5, <1>6, WriterIInv

(* A frame is the next piece of the message that was begun last. *)
LEMMA FlushIInv ==
  ASSUME LinkIInv, NEW c \in Conn, Flush(c), UNCHANGED <<started, got>>
  PROVE  LinkIInv'
<1> DEFINE f == Head(frames[c])
           fs == Tail(frames[c])
<1>1. /\ wpc[c] = "write" /\ out' = [out EXCEPT ![c] = Append(@, f)]
      /\ frames' = [frames EXCEPT ![c] = fs]
      /\ wpc' = [wpc EXCEPT ![c] = IF fs = <<>> THEN "idle" ELSE "lock"]
      /\ written' = [written EXCEPT ![c] = "nil"]
      /\ UNCHANGED <<open, eof, in, rpc, readErr, pending, readFinal, partial,
                     kpc, kop, started, got>>
  BY DEF Flush, readerVars, controlVars
<1>2. /\ frames[c] \in Seq(LinkFrame) /\ frames[c] # <<>>
      /\ Len(frames[c]) \in Nat \ {0} /\ f = frames[c][1]
      /\ f \in LinkFrame /\ fs \in Seq(LinkFrame)
      /\ Len(fs) = Len(frames[c]) - 1
      /\ \A i \in 1..Len(fs) : fs[i] = frames[c][i + 1]
  <2>1. frames[c] \in Seq(LinkFrame) /\ frames[c] # <<>>
    BY <1>1 DEF LinkIInv, LinkTypeOK, PartyInv
  <2>2. Len(frames[c]) \in Nat \ {0} /\ f = frames[c][1]
    BY <2>1, EmptySeq
  <2> QED
    BY <2>1, <2>2, HeadTailProperties
<1> HIDE DEF f, fs
<1>3. fs = <<>> <=> Len(frames[c]) = 1
  <2>1. fs = <<>> <=> Len(fs) = 0
    BY <1>2, EmptySeq
  <2> QED
    BY <2>1, <1>2
<1>4. /\ wpc'[c] = IF fs = <<>> THEN "idle" ELSE "lock"
      /\ frames'[c] = fs /\ written'[c] = "nil" /\ out'[c] = Append(out[c], f)
  BY <1>1 DEF LinkIInv, LinkTypeOK
<1>5. LinkTypeOK'
  <2>1. out'[c] \in Seq(LinkFrame)
    BY <1>2, <1>4, AppendProperties DEF LinkIInv, LinkTypeOK
  <2> QED
    BY <1>1, <1>2, <2>1 DEF LinkIInv, LinkTypeOK
<1>6. ASSUME NEW p \in Place, WritesAt(c, p)
      PROVE  \E q \in Place : Passes(c, p, f, q) /\ WritesAt(c, q)'
  <2>m. PICK m, n : m = started[c][p.msg + 1] /\ n = Count(c, m.load)
    OBVIOUS
  <2> DEFINE q == IF p.frag + 1 = n THEN [msg |-> p.msg + 1, frag |-> 0]
                  ELSE [msg |-> p.msg, frag |-> p.frag + 1]
  <2>1. p.msg \in Nat /\ p.frag \in Nat
    BY DEF Place
  <2>2. /\ Len(started[c]) = p.msg + 1 /\ p.frag + Len(frames[c]) = n
        /\ \A i \in 1..Len(frames[c]) : frames[c][i] = FrameAt(c, m, p.frag + i)
    BY <1>1, <1>6, <2>m DEF WritesAt
  <2>3. IsDataStep(c, p, f, q)
    <3>a. Len(frames[c]) \in Nat \ {0} /\ f = frames[c][1]
      BY <1>2
    <3>b. frames[c][1] = FrameAt(c, m, p.frag + 1)
      BY <3>a, <2>2
    <3>1. p.msg < Len(started[c]) /\ p.frag < n /\ f = FrameAt(c, m, p.frag + 1)
      BY <2>1, <2>2, <3>a, <3>b
    <3> QED
      BY <3>1, <2>m DEF IsDataStep
  <2>4. q \in Place
    BY <2>1 DEF Place
  <2>5. CASE fs = <<>>
    <3>1. q = [msg |-> p.msg + 1, frag |-> 0]
      BY <2>5, <2>2, <2>1, <1>3
    <3>2. wpc'[c] = "idle" /\ started'[c] = started[c]
      BY <2>5, <1>1, <1>4
    <3>3. WritesAt(c, q)'
      BY <3>1, <3>2, <2>2 DEF WritesAt
    <3> QED
      BY <2>3, <2>4, <3>3 DEF Passes
  <2>6. CASE fs # <<>>
    <3>1. q = [msg |-> p.msg, frag |-> p.frag + 1]
      BY <2>6, <2>2, <2>1, <1>2, <1>3
    <3>2. wpc'[c] = "lock" /\ started'[c] = started[c]
      BY <2>6, <1>1, <1>4
    <3>3. /\ p.frag + 1 + Len(fs) = n
          /\ \A i \in 1..Len(fs) : fs[i] = FrameAt(c, m, p.frag + 1 + i)
      <4>1. ASSUME NEW i \in 1..Len(fs) PROVE fs[i] = FrameAt(c, m, p.frag + 1 + i)
        <5>1. Len(frames[c]) \in Nat /\ Len(fs) = Len(frames[c]) - 1
          BY <1>2
        <5>2. i + 1 \in 1..Len(frames[c])
          BY <5>1
        <5>3. p.frag + (i + 1) = p.frag + 1 + i
          BY <2>1
        <5> QED
          BY <5>2, <5>3, <1>2, <2>2
      <4> QED
        BY <4>1, <1>2, <2>1, <2>2
    <3>4. WritesAt(c, q)'
      <4>1. /\ q.msg = p.msg /\ q.frag = p.frag + 1
        BY <3>1
      <4> HIDE DEF q
      <4> QED
        BY <4>1, <3>2, <3>3, <2>2, <1>4, <2>m DEF WritesAt
    <3> QED
      BY <2>3, <2>4, <3>4 DEF Passes
  <2> QED
    BY <2>5, <2>6
<1>7. Stream(c) => Stream(c)'
  BY <1>1, <1>2, <1>4, <1>6, ReadsSame, StreamPut DEF LinkIInv
<1>8. \A x \in Conn : x # c => /\ out'[x] = out[x] /\ wpc'[x] = wpc[x]
                               /\ frames'[x] = frames[x] /\ written'[x] = written[x]
  BY <1>1 DEF LinkIInv, LinkTypeOK
<1> QED
  BY <1>1, <1>4, <1>5, <1>7, <1>8, WriterIInv

(* Any step of a writer.                                                   *)
LEMMA WritingIInv ==
  ASSUME LinkIInv, NEW c \in Conn, Writing(c), UNCHANGED <<started, got>>
  PROVE  LinkIInv'
<1>1. FlushLock(c) \/ AbortMessage(c) \/ Flush(c)
  BY DEF Writing, FlushRefused, FlushBroken
<1> QED
  BY <1>1, FlushLockIInv, AbortIInv, FlushIInv

-----------------------------------------------------------------------------
(* Control frames. *)

(* A control frame leaves every place where it is.                         *)
LEMMA ControlFrames ==
  ASSUME NEW c \in Conn, NEW op \in Control
  PROVE  /\ ControlFrame(c, op) \in LinkFrame /\ ControlFrame(c, op).op = op
         /\ \A p : Passes(c, p, ControlFrame(c, op), p)
<1>1. <<>> \in Payload
  BY EmptySeq DEF Payload
<1>2. ControlFrame(c, op) \in LinkFrame /\ ControlFrame(c, op).op = op
  BY <1>1 DEF ControlFrame, LinkFrame, Control, Kind
<1> QED
  BY <1>2 DEF Passes, IsControlStep

(* What the return of a WriteControl does to its caller. *)
LEMMA ReturnFacts ==
  ASSUME LinkIInv, NEW c \in Conn, NEW who \in Who, NEW e, kpc[c][who] # "none",
         ControlReturns(c, who, e)
  PROVE  /\ kpc' \in [Conn -> [Who -> {"none", "lock", "write"}]]
         /\ rpc' \in [Conn -> {"next", "answer", "message", "failed"}]
         /\ readErr' \in [Conn -> {"nil", "io", "eof", "close", "protocol"}]
         /\ PartyInv' /\ NoProtocolError'
         /\ \A x \in Conn : \/ rpc'[x] = rpc[x] /\ readErr'[x] = readErr[x]
                            \/ rpc[x] = "answer" /\ rpc'[x] = "next" /\ readErr'[x] = "nil"
                            \/ rpc[x] = "answer" /\ rpc'[x] = "failed"
<1> USE DEF LinkIInv
<1>1. /\ kpc' = [kpc EXCEPT ![c][who] = "none"]
      /\ UNCHANGED <<pending, open, wpc, frames>>
  BY DEF ControlReturns, writerVars
<1>2. kpc' \in [Conn -> [Who -> {"none", "lock", "write"}]]
  BY <1>1 DEF LinkTypeOK
<1>3. CASE who = "app"
  <2>1. UNCHANGED <<rpc, readErr>>
    BY <1>3 DEF ControlReturns
  <2>2. \A x \in Conn : kpc'[x]["reader"] = kpc[x]["reader"]
    BY <1>1, <1>3 DEF LinkTypeOK, Who
  <2>3. PartyInv' /\ NoProtocolError'
    BY <1>1, <2>1, <2>2 DEF PartyInv, NoProtocolError
  <2>4. /\ rpc' \in [Conn -> {"next", "answer", "message", "failed"}]
        /\ readErr' \in [Conn -> {"nil", "io", "eof", "close", "protocol"}]
        /\ \A x \in Conn : rpc'[x] = rpc[x] /\ readErr'[x] = readErr[x]
    BY <2>1 DEF LinkTypeOK
  <2> QED
    BY <1>2, <2>3, <2>4
<1>4. CASE who = "reader"
  <2> DEFINE err == IF pending[c] # "nil" THEN pending[c]
                    ELSE IF e = "io" THEN "io" ELSE "nil"
  <2>1. /\ readErr' = [readErr EXCEPT ![c] = err]
        /\ rpc' = [rpc EXCEPT ![c] = IF err = "nil" THEN "next" ELSE "failed"]
    BY <1>4 DEF ControlReturns
  <2>2. err \in {"nil", "io", "close"}
    BY DEF LinkTypeOK, NoProtocolError
  <2> HIDE DEF err
  <2>3. rpc[c] = "answer" /\ open[c]
    BY <1>4 DEF PartyInv
  <2>4. /\ kpc'[c]["reader"] = "none" /\ rpc'[c] \in {"next", "failed"}
        /\ readErr'[c] = err /\ (rpc'[c] = "next" => err = "nil")
        /\ \A x \in Conn : x # c => /\ kpc'[x] = kpc[x] /\ rpc'[x] = rpc[x]
                                    /\ readErr'[x] = readErr[x]
    BY <1>1, <1>4, <2>1 DEF LinkTypeOK
  <2>5. PartyInv'
    <3> SUFFICES ASSUME NEW x \in Conn
                 PROVE  /\ kpc'[x]["reader"] # "none" <=> rpc'[x] = "answer"
                        /\ open[x] \/ rpc'[x] = "failed"
                        /\ wpc[x] # "idle" => frames[x] # <<>>
      BY <1>1 DEF PartyInv
    <3>1. CASE x = c
      BY <3>1, <2>3, <2>4 DEF PartyInv
    <3>2. CASE x # c
      BY <3>2, <2>4 DEF PartyInv
    <3> QED
      BY <3>1, <3>2
  <2>6. NoProtocolError'
    BY <1>1, <2>2, <2>4 DEF NoProtocolError
  <2>7. /\ rpc' \in [Conn -> {"next", "answer", "message", "failed"}]
        /\ readErr' \in [Conn -> {"nil", "io", "eof", "close", "protocol"}]
    BY <2>1, <2>2 DEF LinkTypeOK
  <2>8. \A x \in Conn : \/ rpc'[x] = rpc[x] /\ readErr'[x] = readErr[x]
                        \/ rpc[x] = "answer" /\ rpc'[x] = "next" /\ readErr'[x] = "nil"
                        \/ rpc[x] = "answer" /\ rpc'[x] = "failed"
    BY <2>3, <2>4
  <2> QED
    BY <1>2, <2>5, <2>6, <2>7, <2>8
<1> QED
  BY <1>3, <1>4 DEF Who

(* Any step of a control frame on its way to the wire.                     *)
LEMMA ControllingIInv ==
  ASSUME LinkIInv, NEW c \in Conn, NEW who \in Who, Controlling(c, who),
         UNCHANGED <<started, got>>
  PROVE  LinkIInv'
<1> USE DEF LinkIInv
<1>1. CASE ControlLock(c, who)
  <2>1. /\ kpc[c][who] = "lock" /\ kpc' = [kpc EXCEPT ![c][who] = "write"]
        /\ UNCHANGED <<open, eof, in, out, wpc, frames, written, rpc, readErr,
                       pending, readFinal, partial, kop>>
    BY <1>1 DEF ControlLock, netVars, writerVars, readerVars
  <2>2. LinkTypeOK' /\ NoProtocolError'
    BY <2>1 DEF LinkTypeOK, NoProtocolError
  <2>3. PartyInv'
    BY <2>1 DEF PartyInv, LinkTypeOK, Who
  <2> QED
    BY <2>1, <2>2, <2>3, QuietIInv
<1>2. ASSUME NEW e, kpc[c][who] # "none", ControlReturns(c, who, e),
             out' = out \/
               out' = [out EXCEPT ![c] = Append(@, ControlFrame(c, kop[c][who]))]
      PROVE  LinkIInv'
  <2> DEFINE f == ControlFrame(c, kop[c][who])
  <2>1. /\ kpc' \in [Conn -> [Who -> {"none", "lock", "write"}]]
        /\ rpc' \in [Conn -> {"next", "answer", "message", "failed"}]
        /\ readErr' \in [Conn -> {"nil", "io", "eof", "close", "protocol"}]
        /\ PartyInv' /\ NoProtocolError'
        /\ \A x \in Conn : \/ rpc'[x] = rpc[x] /\ readErr'[x] = readErr[x]
                           \/ rpc[x] = "answer" /\ rpc'[x] = "next" /\ readErr'[x] = "nil"
                           \/ rpc[x] = "answer" /\ rpc'[x] = "failed"
    BY <1>2, ReturnFacts
  <2>2. UNCHANGED <<open, eof, in, wpc, frames, written, pending, readFinal, partial,
                    kop, started, got>>
    BY <1>2 DEF ControlReturns, writerVars
  <2>3. f \in LinkFrame /\ \A p : Passes(c, p, f, p)
    BY ControlFrames DEF LinkTypeOK
  <2> HIDE DEF f
  <2>4. /\ out'[c] = out[c] \/ out'[c] = Append(out[c], f)
        /\ out'[c] \in Seq(LinkFrame)
        /\ \A x \in Conn : x # c => out'[x] = out[x]
    <3>1. Append(out[c], f) \in Seq(LinkFrame)
      BY <2>3, AppendProperties DEF LinkTypeOK
    <3> QED
      BY <1>2, <3>1 DEF LinkTypeOK, f
  <2>5. LinkTypeOK'
    <3>1. out' \in [Conn -> Seq(LinkFrame)]
      BY <1>2, <2>4 DEF LinkTypeOK, f
    <3> QED
      BY <2>1, <2>2, <3>1 DEF LinkTypeOK
  <2>6. GotInv'
    <3>1. MessageIntegrity'
      <4> SUFFICES ASSUME NEW x \in Conn
                   PROVE  \A i \in 1..Len(got[x]) :
                            \/ got[x][i] = started[Mate(x)][i]
                            \/ i = Len(got[x]) /\ CutShort(x)'
                               /\ Begins(got[x][i], started[Mate(x)][i])
        BY <2>2 DEF GotInv, MessageIntegrity
      <4>1. CASE readErr'[x] = readErr[x]
        BY <2>2, <4>1 DEF GotInv, MessageIntegrity, CutShort
      <4>2. CASE rpc[x] = "answer"
        BY <4>2 DEF GotInv, MessageIntegrity, EndInv, CutShort
      <4> QED
        BY <2>1, <4>1, <4>2
    <3>2. EndInv'
      <4> SUFFICES ASSUME NEW x \in Conn, readErr'[x] # "nil"
                   PROVE  /\ rpc'[x] # "answer"
                          /\ rpc'[x] # "failed" => readErr'[x] = "eof"
                          /\ rpc'[x] = "message" => HandsUp(x)'
        BY DEF EndInv
      <4>1. HandsUp(x) => HandsUp(x)'
        BY <2>2 DEF HandsUp
      <4> QED
        BY <2>1, <4>1 DEF GotInv, EndInv
    <3> QED
      BY <3>1, <3>2 DEF GotInv
  <2>7. StreamInv'
    <3> SUFFICES ASSUME NEW x \in Conn, Live(Mate(x))' PROVE Stream(x)'
      BY DEF StreamInv
    <3>1. Mate(x) \in Conn
      BY Mates
    <3>2. Stream(x)
      BY <2>1, <3>1 DEF StreamInv, Live, GotInv, EndInv
    <3>3. \A p \in Place : ReadsAt(x, p) => ReadsAt(x, p)'
      <4>1. \/ rpc'[Mate(x)] = rpc[Mate(x)]
            \/ rpc[Mate(x)] = "answer" /\ rpc'[Mate(x)] \in {"next", "failed"}
        BY <2>1, <3>1
      <4> QED
        BY <2>2, <4>1 DEF ReadsAt
    <3>4. \A p \in Place : WritesAt(x, p) => WritesAt(x, p)'
      BY <2>2, WritesSame
    <3>5. CASE out'[x] = out[x]
      <4>1. Travel(x)' = Travel(x)
        BY <2>2, <3>5 DEF Travel
      <4> QED
        BY <2>2, <3>2, <3>3, <3>4, <4>1, StreamSame
    <3>6. CASE out'[x] # out[x]
      <4>1. x = c /\ out'[c] = Append(out[c], f)
        BY <2>4, <3>6
      <4>2. \A p \in Place : WritesAt(c, p) =>
              \E q \in Place : Passes(c, p, f, q) /\ WritesAt(c, q)'
        BY <2>3, <3>4, <4>1
      <4> QED
        BY <2>2, <2>3, <3>2, <3>3, <4>1, <4>2, StreamPut
    <3> QED
      BY <3>5, <3>6
  <2> QED
    BY <2>1, <2>5, <2>6, <2>7
<1>3. CASE ControlTimeout(c, who)
  BY <1>2, <1>3 DEF ControlTimeout
<1>4. CASE ControlRefused(c, who)
  BY <1>2, <1>4 DEF ControlRefused
<1>5. CASE ControlBroken(c, who)
  BY <1>2, <1>5 DEF ControlBroken
<1>6. CASE ControlWrite(c, who)
  BY <1>2, <1>6 DEF ControlWrite
<1> QED
  BY <1>1, <1>3, <1>4, <1>5, <1>6 DEF Controlling

-----------------------------------------------------------------------------
(* The reading goroutine. *)

(* The first frame on its way leads the reader to another place. *)
LEMMA HeadPasses ==
  ASSUME LinkTypeOK, NEW c \in Conn, Stream(c), in[Mate(c)] # <<>>
  PROVE  \E p, q \in Place : ReadsAt(c, p) /\ Passes(c, p, Head(in[Mate(c)]), q)
<1>1. PICK n \in Nat : n = Len(Travel(c))
  BY TravelType
<1>2. PICK st \in [1..(n + 1) -> Place] :
        /\ \A i \in 1..n : Passes(c, st[i], Travel(c)[i], st[i + 1])
        /\ ReadsAt(c, st[1])
  BY <1>1 DEF Stream
<1>3. n > 0 /\ Travel(c)[1] = Head(in[Mate(c)])
  <2> DEFINE s == in[Mate(c)]
             t == out[c]
  <2>1. s \in Seq(LinkFrame) /\ t \in Seq(LinkFrame) /\ s # <<>> /\ Travel(c) = s \o t
    BY TravelType DEF Travel
  <2> HIDE DEF s, t
  <2>2. Len(s \o t) \in Nat \ {0} /\ (s \o t)[1] = Head(s)
    BY <2>1, QueueTail
  <2>3. n > 0 /\ Travel(c)[1] = Head(s)
    BY <1>1, <2>1, <2>2
  <2> QED
    BY <2>3 DEF s
<1>4. st[1] \in Place /\ st[2] \in Place /\ Passes(c, st[1], Travel(c)[1], st[2])
  BY <1>2, <1>3
<1> QED
  BY <1>2, <1>3, <1>4

(* A frame that comes next is one that advanceFrame takes: a control frame *)
(* that leaves the place as it is, or the next piece of a message.         *)
LEMMA NextFrame ==
  ASSUME LinkTypeOK, NEW d \in Conn, NEW f \in LinkFrame,
         NEW p \in Place, NEW q \in Place,
         ReadsAt(Mate(d), p), Passes(Mate(d), p, f, q)
  PROVE  /\ ~Objectionable(d, f)
         /\ f.op \in Control => q = p
         /\ f.op \notin Control => IsDataStep(Mate(d), p, f, q)
<1> DEFINE c == Mate(d)
<1>1. c \in Conn /\ Mate(c) = d /\ (IsServer[d] <=> ~IsServer[c])
  BY Mates
<1> HIDE DEF c
<1>2. /\ readFinal[d] \in BOOLEAN /\ IsServer[d] \in BOOLEAN /\ IsServer[c] \in BOOLEAN
      /\ f.mask \in BOOLEAN /\ f.fin \in BOOLEAN /\ f.valid \in BOOLEAN
  BY <1>1, WsConnAssumption DEF LinkTypeOK, LinkFrame
<1>3. readFinal[d] <=> p.frag = 0
  BY <1>1 DEF ReadsAt, c
<1>4. CASE IsControlStep(c, p, f, q)
  <2>1. f.op \in Control /\ q = p /\ f.fin /\ f.valid /\ (f.mask <=> ~IsServer[c])
    <3>1. PICK op \in Control : f = ControlFrame(c, op) /\ f.op = op /\ q = p
      BY <1>4 DEF IsControlStep
    <3>2. /\ ControlFrame(c, op).fin /\ ControlFrame(c, op).valid
          /\ ControlFrame(c, op).mask <=> ~IsServer[c]
      BY DEF ControlFrame
    <3> QED
      BY <3>1, <3>2
  <2>2. f.mask = IsServer[d]
    BY <2>1, <1>1, <1>2
  <2> QED
    BY <2>1, <2>2 DEF Objectionable, Control, Data
<1>5. CASE IsDataStep(c, p, f, q)
  <2> DEFINE m == started[c][p.msg + 1]
  <2>1. p.msg \in Nat /\ p.frag \in Nat /\ p.msg < Len(started[c])
    BY <1>5 DEF IsDataStep, Place
  <2>2. m \in LinkMessage
    <3>1. started[c] \in Seq(LinkMessage)
      BY <1>1 DEF LinkTypeOK
    <3>2. p.msg + 1 \in 1..Len(started[c])
      BY <2>1, <3>1, LenProperties
    <3> QED
      BY <3>1, <3>2, ElementOfSeq
  <2> HIDE DEF m
  <2>3. /\ p.frag < Count(c, m.load) /\ Count(c, m.load) \in Nat
        /\ f = FrameAt(c, m, p.frag + 1)
    <3>1. Count(c, m.load) \in Nat
      BY <1>1, <2>2, Pieces
    <3>2. p.frag < Count(c, m.load) /\ f = FrameAt(c, m, p.frag + 1)
      BY <1>5 DEF IsDataStep, m
    <3> QED
      BY <3>1, <3>2
  <2>4. p.frag + 1 \in 1..Count(c, m.load)
    BY <2>1, <2>3
  <2>5. /\ f.op = (IF p.frag + 1 = 1 THEN m.op ELSE "cont")
        /\ f.mask <=> ~IsServer[c]
        /\ m.op \in Data
    <3>1. PieceInv(c, m, p.frag + 1, Count(c, m.load), f)
      BY <1>1, <2>2, <2>3, <2>4, Pieces
    <3> QED
      BY <2>2, <3>1 DEF LinkMessage, PieceInv
  <2>6. f.op = IF p.frag = 0 THEN m.op ELSE "cont"
    BY <2>1, <2>5
  <2>7. f.mask = IsServer[d]
    BY <2>5, <1>1, <1>2
  <2>8. f.op \notin Control /\ f.op # "unknown"
    BY <2>5, <2>6 DEF Control, Data
  <2>9. /\ f.op \in Data => readFinal[d]
        /\ f.op = "cont" => ~readFinal[d]
    BY <2>5, <2>6, <1>3 DEF Data
  <2> QED
    BY <1>2, <1>5, <2>7, <2>8, <2>9 DEF Objectionable, c
<1> QED
  BY <1>4, <1>5 DEF Passes, c

(* A frame that has arrived for d comes from its mate's stream. *)
LEMMA ArrivedFrame ==
  ASSUME LinkIInv, NEW d \in Conn, Arrived(d)
  PROVE  /\ Head(in[d]) \in LinkFrame /\ Tail(in[d]) \in Seq(LinkFrame)
         /\ Stream(Mate(d)) /\ Mate(d) \in Conn /\ Mate(Mate(d)) = d
         /\ in[d] # <<>> /\ rpc[d] = "next" /\ readErr[d] = "nil"
         /\ ~Objectionable(d, Head(in[d]))
<1>1. in[d] # <<>> /\ rpc[d] = "next" /\ readErr[d] = "nil"
  BY DEF Arrived
<1>2. Head(in[d]) \in LinkFrame /\ Tail(in[d]) \in Seq(LinkFrame)
  BY <1>1, HeadTailProperties DEF LinkIInv, LinkTypeOK
<1>3. Mate(d) \in Conn /\ Mate(Mate(d)) = d
  BY Mates
<1>4. Stream(Mate(d))
  BY <1>1, <1>3 DEF LinkIInv, StreamInv, Live
<1>5. ~Objectionable(d, Head(in[d]))
  <2>1. PICK p, q \in Place :
          ReadsAt(Mate(d), p) /\ Passes(Mate(d), p, Head(in[d]), q)
    BY <1>1, <1>3, <1>4, HeadPasses DEF LinkIInv
  <2> QED
    BY <1>2, <2>1, NextFrame DEF LinkIInv
<1> QED
  BY <1>1, <1>2, <1>3, <1>4, <1>5

(* What a reader that takes a frame leaves alone. *)
LEMMA ReaderIInv ==
  ASSUME LinkIInv, NEW d \in Conn, Arrived(d), TakeFrame(d),
         LinkTypeOK', PartyInv', NoProtocolError',
         UNCHANGED <<out, wpc, frames, written, readErr, started, got>>,
         \A x \in Conn : x # d => /\ rpc'[x] = rpc[x] /\ readFinal'[x] = readFinal[x]
                                  /\ partial'[x] = partial[x],
         \A p, q \in Place :
           ReadsAt(Mate(d), p) /\ Passes(Mate(d), p, Head(in[d]), q) =>
             ReadsAt(Mate(d), q)'
  PROVE  LinkIInv'
<1>1. /\ in'[d] = Tail(in[d]) /\ \A x \in Conn : x # d => in'[x] = in[x]
  BY DEF TakeFrame, LinkIInv, LinkTypeOK
<1>2. GotInv'
  <2>1. readErr[d] = "nil"
    BY DEF Arrived
  <2>2. MessageIntegrity'
    BY <2>1 DEF LinkIInv, GotInv, MessageIntegrity, CutShort
  <2>3. EndInv'
    BY <2>1 DEF LinkIInv, GotInv, EndInv, HandsUp
  <2> QED
    BY <2>2, <2>3 DEF GotInv
<1>3. StreamInv'
  <2> SUFFICES ASSUME NEW x \in Conn, Live(Mate(x))' PROVE Stream(x)'
    BY DEF StreamInv
  <2>1. CASE x = Mate(d)
    <3>1. \A p \in Place : WritesAt(x, p) => WritesAt(x, p)'
      BY WritesSame
    <3>2. Mate(x) = d /\ Stream(x) /\ in[d] # <<>>
      BY <2>1, ArrivedFrame
    <3> QED
      BY <1>1, <2>1, <3>1, <3>2, StreamTaken DEF LinkIInv
  <2>2. CASE x # Mate(d)
    <3>1. Mate(x) # d /\ Mate(x) \in Conn
      BY <2>2, Mates
    <3>2. Stream(x)
      BY <3>1 DEF LinkIInv, StreamInv, Live
    <3> QED
      BY <1>1, <3>1, <3>2, StreamKept
  <2> QED
    BY <2>1, <2>2
<1> QED
  BY <1>2, <1>3 DEF LinkIInv

(* A control frame leaves the reader where it is. *)
LEMMA ReadControl ==
  ASSUME LinkIInv, NEW d \in Conn, Arrived(d), Head(in[d]).op \in Control,
         rpc'[d] \in {"next", "answer"},
         UNCHANGED <<started, got, readFinal, partial>>
  PROVE  \A p, q \in Place :
           ReadsAt(Mate(d), p) /\ Passes(Mate(d), p, Head(in[d]), q) =>
             ReadsAt(Mate(d), q)'
<1> SUFFICES ASSUME NEW p \in Place, NEW q \in Place, ReadsAt(Mate(d), p),
                    Passes(Mate(d), p, Head(in[d]), q)
             PROVE  ReadsAt(Mate(d), q)'
  OBVIOUS
<1>1. q = p /\ rpc[d] = "next" /\ Mate(Mate(d)) = d
  BY ArrivedFrame, NextFrame DEF LinkIInv
<1>2. ReadsAt(Mate(d), p)'
  BY <1>1 DEF ReadsAt
<1> QED
  BY <1>1, <1>2

(* The reader passes over a pong.                                          *)
LEMMA ReadPongIInv ==
  ASSUME LinkIInv, NEW d \in Conn, ReadPong(d), UNCHANGED <<started, got>>
  PROVE  LinkIInv'
<1>1. /\ Arrived(d) /\ TakeFrame(d) /\ Head(in[d]).op \in Control
      /\ UNCHANGED <<open, eof, out, wpc, frames, written, rpc, readErr, pending,
                     readFinal, partial, kpc, kop>>
  BY DEF ReadPong, Control, writerVars, readerVars, controlVars
<1>2. LinkTypeOK'
  BY <1>1, ArrivedFrame DEF LinkIInv, LinkTypeOK, TakeFrame
<1>3. PartyInv' /\ NoProtocolError'
  BY <1>1 DEF LinkIInv, PartyInv, NoProtocolError
<1>4. rpc'[d] \in {"next", "answer"}
  BY <1>1, ArrivedFrame
<1> QED
  BY <1>1, <1>2, <1>3, <1>4, ReadControl, ReaderIInv

(* A ping or a close frame is answered. *)
LEMMA AnswerIInv ==
  ASSUME LinkIInv, NEW d \in Conn, Arrived(d), Head(in[d]).op \in Control,
         NEW op \in Control, NEW err \in {"nil", "close"},
         Answer(d, op, err), UNCHANGED <<started, got>>
  PROVE  LinkIInv'
<1>1. /\ TakeFrame(d) /\ rpc' = [rpc EXCEPT ![d] = "answer"]
      /\ pending' = [pending EXCEPT ![d] = err]
      /\ kpc' = [kpc EXCEPT ![d]["reader"] = "lock"]
      /\ kop' = [kop EXCEPT ![d]["reader"] = op]
      /\ UNCHANGED <<open, eof, out, wpc, frames, written, readErr, readFinal, partial>>
  BY DEF Answer, writerVars
<1>2. /\ rpc'[d] = "answer" /\ rpc[d] = "next" /\ kpc'[d]["reader"] = "lock"
      /\ \A x \in Conn : x # d => rpc'[x] = rpc[x] /\ kpc'[x] = kpc[x]
  <2>1. rpc[d] = "next"
    BY ArrivedFrame
  <2>2. rpc'[d] = "answer" /\ \A x \in Conn : x # d => rpc'[x] = rpc[x]
    BY <1>1 DEF LinkIInv, LinkTypeOK
  <2>3. kpc'[d]["reader"] = "lock" /\ \A x \in Conn : x # d => kpc'[x] = kpc[x]
    BY <1>1 DEF LinkIInv, LinkTypeOK, Who
  <2> QED
    BY <2>1, <2>2, <2>3
<1>3. LinkTypeOK'
  <2>1. in' \in [Conn -> Seq(LinkFrame)]
    BY <1>1, ArrivedFrame DEF LinkIInv, LinkTypeOK, TakeFrame
  <2>2. /\ kpc' \in [Conn -> [Who -> {"none", "lock", "write"}]]
        /\ kop' \in [Conn -> [Who -> Control]]
    BY <1>1 DEF LinkIInv, LinkTypeOK, Who
  <2> QED
    BY <1>1, <2>1, <2>2 DEF LinkIInv, LinkTypeOK
<1>4. PartyInv'
  <2> SUFFICES ASSUME NEW x \in Conn
               PROVE  /\ kpc'[x]["reader"] # "none" <=> rpc'[x] = "answer"
                      /\ open[x] \/ rpc'[x] = "failed"
                      /\ wpc[x] # "idle" => frames[x] # <<>>
    BY <1>1 DEF PartyInv
  <2>1. CASE x = d
    BY <1>2, <2>1 DEF LinkIInv, PartyInv
  <2>2. CASE x # d
    BY <1>2, <2>2 DEF LinkIInv, PartyInv
  <2> QED
    BY <2>1, <2>2
<1>5. NoProtocolError'
  BY <1>1 DEF LinkIInv, LinkTypeOK, NoProtocolError
<1>6. rpc'[d] \in {"next", "answer"}
  BY <1>2
<1> QED
  BY <1>1, <1>2, <1>3, <1>4, <1>5, <1>6, ReadControl, ReaderIInv

(* What comes of several frames of a message is the beginning of it.       *)
LEMMA SofarBegins ==
  ASSUME NEW c \in Conn, NEW m \in LinkMessage, NEW i \in Nat \ {0},
         i < Count(c, m.load)
  PROVE  Sofar(m, i) = SubSeq(m.load, 1, Len(Sofar(m, i)))
<1>1. m.load \in Seq(Nat \X Nat) /\ Len(m.load) \in Nat /\ WriteBuf \in Nat \ {0}
  BY LenProperties, WsConnAssumption DEF LinkMessage, Payload
<1>2. /\ ~IsServer[c] /\ m.load # <<>>
      /\ Count(c, m.load) = (Len(m.load) + WriteBuf - 1) \div WriteBuf
  BY DEF Count
<1>3. Len(m.load) \in Nat \ {0}
  BY <1>1, <1>2, EmptySeq
<1>4. i * WriteBuf < Len(m.load) /\ i * WriteBuf \in Nat
  <2>1. \A j \in Nat : j < (Len(m.load) + WriteBuf - 1) \div WriteBuf =>
                         j * WriteBuf < Len(m.load)
    BY <1>1, <1>3, DataCuts
  <2>2. i * WriteBuf < Len(m.load)
    BY <1>2, <2>1
  <2> QED
    BY <1>1, <2>2
<1> DEFINE k == i * WriteBuf
           l == m.load
<1>5. k \in 0..Len(l) /\ l \in Seq(Nat \X Nat) /\ 1 \in 1..(Len(l) + 1)
  BY <1>1, <1>4
<1> HIDE DEF k, l
<1>6. Len(SubSeq(l, 1, k)) = k
  BY <1>5, SubSeqProperties
<1> QED
  BY <1>6 DEF Sofar, k, l

(* The frame that comes next, joined to what was read of its message: the  *)
(* first frames of the message that follows those returned, or all of it.  *)
LEMMA JoinedFrame ==
  ASSUME LinkIInv, NEW d \in Conn, Arrived(d), Head(in[d]).op \in Data \cup {"cont"},
         NEW p \in Place, NEW q \in Place, ReadsAt(Mate(d), p),
         Passes(Mate(d), p, Head(in[d]), q)
  PROVE  LET c == Mate(d)
             f == Head(in[d])
             m == started[c][p.msg + 1]
             n == Count(c, m.load)
             j == Joined(partial[d], f)
         IN /\ m \in LinkMessage /\ n \in Nat \ {0} /\ Len(started[c]) \in Nat
            /\ p.msg \in Nat /\ p.frag \in Nat /\ p.msg < Len(started[c]) /\ p.frag < n
            /\ p.msg = Len(got[d])
            /\ q = IF p.frag + 1 = n THEN [msg |-> p.msg + 1, frag |-> 0]
                   ELSE [msg |-> p.msg, frag |-> p.frag + 1]
            /\ f.fin <=> p.frag + 1 = n
            /\ j.op = m.op
            /\ j.load = IF p.frag + 1 = n THEN m.load ELSE Sofar(m, p.frag + 1)
            /\ j = [op |-> j.op, load |-> j.load]
<1> DEFINE f == Head(in[d])
           whole == IF f.op = "cont" THEN partial[d].load \o f.load ELSE f.load
           kind == IF f.op = "cont" THEN partial[d].op ELSE f.op
<1>1. /\ f \in LinkFrame /\ rpc[d] = "next" /\ Mate(d) \in Conn /\ Mate(Mate(d)) = d
      /\ f.op \in Data \cup {"cont"} /\ Passes(Mate(d), p, f, q)
  BY ArrivedFrame
<1>2. f.fin \in BOOLEAN /\ f.load \in Payload
  BY <1>1 DEF LinkFrame
<1>3. Joined(partial[d], f) = [op |-> kind, load |-> whole]
  <2>1. partial[d] \in [op : Data \cup {"none"}, load : Payload]
    BY DEF LinkIInv, LinkTypeOK
  <2> QED
    BY <2>1 DEF Joined
<1> HIDE DEF f, whole, kind
<1>5. PICK c \in Conn : c = Mate(d)
  BY <1>1
<1>6. PICK m, n : m = started[c][p.msg + 1] /\ n = Count(c, m.load)
  OBVIOUS
<1>7. IsDataStep(c, p, f, q)
  <2>1. f.op \notin Control
    BY <1>1 DEF Control, Data
  <2> QED
    BY <1>1, <1>5, <2>1, NextFrame DEF LinkIInv
<1>8. /\ p.msg \in Nat /\ p.frag \in Nat /\ p.msg < Len(started[c])
      /\ p.frag < n /\ f = FrameAt(c, m, p.frag + 1)
      /\ q = IF p.frag + 1 = n THEN [msg |-> p.msg + 1, frag |-> 0]
             ELSE [msg |-> p.msg, frag |-> p.frag + 1]
  BY <1>6, <1>7 DEF IsDataStep, Place
<1>9. m \in LinkMessage /\ Len(started[c]) \in Nat
  <2>1. started[c] \in Seq(LinkMessage) /\ Len(started[c]) \in Nat
    BY LenProperties DEF LinkIInv, LinkTypeOK
  <2>2. p.msg + 1 \in 1..Len(started[c])
    BY <1>8, <2>1
  <2> QED
    BY <1>6, <2>1, <2>2, ElementOfSeq
<1>10. n \in Nat \ {0}
  <2>1. Count(c, m.load) \in Nat \ {0}
    BY <1>9, Pieces
  <2> QED
    BY <1>6, <2>1
<1>11. p.frag + 1 \in 1..n
  BY <1>8, <1>10
<1>12. PieceInv(c, m, p.frag + 1, n, f)
  BY <1>6, <1>8, <1>9, <1>11, Pieces
<1>13. /\ p.msg = Len(got[d])
       /\ p.frag > 0 => partial[d].op = m.op /\ partial[d].load = Sofar(m, p.frag)
  BY <1>1, <1>5, <1>6 DEF ReadsAt
<1>14. kind = m.op /\ whole = IF p.frag + 1 = n THEN m.load ELSE Sofar(m, p.frag + 1)
  <2>1. CASE p.frag = 0
    <3>1. f.op = m.op /\ m.op # "cont"
      BY <1>9, <1>12, <2>1 DEF LinkMessage, Data, PieceInv
    <3>2. f.load = IF p.frag + 1 = n THEN m.load ELSE Sofar(m, p.frag + 1)
      BY <1>12, <2>1 DEF PieceInv
    <3> QED
      BY <3>1, <3>2 DEF kind, whole
  <2>2. CASE p.frag # 0
    <3>1. p.frag > 0 /\ p.frag + 1 # 1 /\ p.frag + 1 > 1
      BY <1>8, <2>2
    <3>2. f.op = "cont" /\ partial[d].op = m.op /\ partial[d].load = Sofar(m, p.frag)
      BY <1>12, <1>13, <3>1 DEF PieceInv
    <3>3. partial[d].load \o f.load =
            IF p.frag + 1 = n THEN m.load ELSE Sofar(m, p.frag + 1)
      <4>1. PICK i : i = p.frag + 1
        OBVIOUS
      <4>2. PieceInv(c, m, i, n, f) /\ i > 1
        BY <1>12, <3>1, <4>1
      <4>3. Sofar(m, i - 1) \o f.load = (IF i = n THEN m.load ELSE Sofar(m, i))
        BY <4>2 DEF PieceInv
      <4>4. i - 1 = p.frag
        BY <1>8, <4>1
      <4>5. Sofar(m, i - 1) = partial[d].load
        BY <3>2, <4>4
      <4> QED
        BY <4>1, <4>3, <4>5
    <3> QED
      BY <3>2, <3>3 DEF kind, whole
  <2> QED
    BY <2>1, <2>2
<1>15. f.fin <=> p.frag + 1 = n
  BY <1>2, <1>12 DEF PieceInv
<1>16. Joined(partial[d], f) = [op |-> m.op, load |-> whole]
  BY <1>3, <1>14
<1>17. PICK j : j = Joined(partial[d], Head(in[d]))
  OBVIOUS
<1>18. /\ j.op = m.op /\ j.load = (IF p.frag + 1 = n THEN m.load ELSE Sofar(m, p.frag + 1))
       /\ j = [op |-> j.op, load |-> j.load]
  BY <1>16, <1>14, <1>17 DEF f
<1> QED
  BY <1>18, <1>17, <1>5, <1>6, <1>8, <1>9, <1>10, <1>13, <1>15 DEF f

(* What the reader takes over of a data frame.                             *)
LEMMA TakeDataFacts ==
  ASSUME LinkIInv, NEW d \in Conn, TakeData(d), UNCHANGED <<started, got>>
  PROVE  /\ Arrived(d) /\ TakeFrame(d) /\ Head(in[d]).op \in Data \cup {"cont"}
         /\ UNCHANGED <<open, eof, out, wpc, frames, written, pending, kpc, kop>>
         /\ readFinal'[d] = Head(in[d]).fin /\ partial'[d] = Joined(partial[d], Head(in[d]))
         /\ \A x \in Conn : x # d => /\ readFinal'[x] = readFinal[x]
                                     /\ partial'[x] = partial[x] /\ in'[x] = in[x]
         /\ in' \in [Conn -> Seq(LinkFrame)]
         /\ partial' \in [Conn -> [op : Data \cup {"none"}, load : Payload]]
         /\ readFinal' \in [Conn -> BOOLEAN]
<1> DEFINE f == Head(in[d])
<1>1. /\ Arrived(d) /\ TakeFrame(d) /\ f.op \in Data \cup {"cont"}
      /\ readFinal' = [readFinal EXCEPT ![d] = f.fin]
      /\ partial' = [partial EXCEPT ![d] = Joined(@, f)]
      /\ UNCHANGED <<open, eof, out, wpc, frames, written, pending, kpc, kop>>
  BY DEF TakeData, writerVars, controlVars
<1>2. f \in LinkFrame /\ Tail(in[d]) \in Seq(LinkFrame)
  BY <1>1, ArrivedFrame
<1> HIDE DEF f
<1>3. f.fin \in BOOLEAN /\ f.load \in Payload
  BY <1>2 DEF LinkFrame
<1>4. Joined(partial[d], f) \in [op : Data \cup {"none"}, load : Payload]
  <2>1. partial[d] \in [op : Data \cup {"none"}, load : Payload]
    BY DEF LinkIInv, LinkTypeOK
  <2>2. partial[d].load \o f.load \in Payload
    BY <1>3, <2>1, ConcatProperties DEF Payload
  <2> QED
    BY <1>1, <1>3, <2>1, <2>2 DEF Joined
<1>5. in' = [in EXCEPT ![d] = Tail(@)]
  BY <1>1 DEF TakeFrame
<1>6. /\ in \in [Conn -> Seq(LinkFrame)] /\ readFinal \in [Conn -> BOOLEAN]
      /\ partial \in [Conn -> [op : Data \cup {"none"}, load : Payload]]
  BY DEF LinkIInv, LinkTypeOK
<1>7. /\ readFinal'[d] = f.fin /\ partial'[d] = Joined(partial[d], f)
      /\ \A x \in Conn : x # d => /\ readFinal'[x] = readFinal[x]
                                  /\ partial'[x] = partial[x] /\ in'[x] = in[x]
  BY <1>1, <1>5, <1>6
<1>8. /\ in' \in [Conn -> Seq(LinkFrame)] /\ readFinal' \in [Conn -> BOOLEAN]
      /\ partial' \in [Conn -> [op : Data \cup {"none"}, load : Payload]]
  BY <1>1, <1>2, <1>3, <1>4, <1>5, <1>6
<1> QED
  BY <1>1, <1>7, <1>8 DEF f

(* A data frame is the next piece of a message or its last one. *)
LEMMA ReadDataIInv ==
  ASSUME LinkIInv, NEW d \in Conn, ReadData(d), UNCHANGED <<started, got>>
  PROVE  LinkIInv'
<1> DEFINE f == Head(in[d])
<1>1. TakeData(d)
  BY DEF ReadData
<1>2. /\ rpc' = [rpc EXCEPT ![d] = IF f.fin THEN "message" ELSE "next"]
      /\ readErr' = readErr
  BY DEF ReadData
<1>3. /\ Arrived(d) /\ TakeFrame(d) /\ f.op \in Data \cup {"cont"}
      /\ UNCHANGED <<open, eof, out, wpc, frames, written, pending, kpc, kop>>
      /\ readFinal'[d] = f.fin /\ partial'[d] = Joined(partial[d], f)
      /\ \A x \in Conn : x # d => /\ readFinal'[x] = readFinal[x]
                                  /\ partial'[x] = partial[x]
      /\ in' \in [Conn -> Seq(LinkFrame)]
      /\ partial' \in [Conn -> [op : Data \cup {"none"}, load : Payload]]
      /\ readFinal' \in [Conn -> BOOLEAN]
  BY <1>1, TakeDataFacts
<1>4. rpc[d] = "next" /\ Mate(d) \in Conn /\ Mate(Mate(d)) = d
  BY <1>3, ArrivedFrame
<1> HIDE DEF f
<1>5. /\ rpc'[d] = (IF f.fin THEN "message" ELSE "next")
      /\ \A x \in Conn : x # d => rpc'[x] = rpc[x]
  BY <1>2 DEF LinkIInv, LinkTypeOK
<1>6. LinkTypeOK'
  BY <1>2, <1>3 DEF LinkIInv, LinkTypeOK
<1>7. PartyInv' /\ NoProtocolError'
  <2>1. rpc'[d] \in {"message", "next"}
    BY <1>5
  <2>2. NoProtocolError'
    BY <1>2, <1>3 DEF LinkIInv, NoProtocolError
  <2> SUFFICES ASSUME NEW x \in Conn
               PROVE  /\ kpc[x]["reader"] # "none" <=> rpc'[x] = "answer"
                      /\ open[x] \/ rpc'[x] = "failed"
                      /\ wpc[x] # "idle" => frames[x] # <<>>
    BY <1>3, <2>2 DEF PartyInv
  <2>3. CASE x = d
    BY <1>4, <2>1, <2>3 DEF LinkIInv, PartyInv
  <2>4. CASE x # d
    BY <1>5, <2>4 DEF LinkIInv, PartyInv
  <2> QED
    BY <2>3, <2>4
<1>8. ASSUME NEW p \in Place, NEW q \in Place, ReadsAt(Mate(d), p),
             Passes(Mate(d), p, f, q)
      PROVE  ReadsAt(Mate(d), q)'
  <2>1. PICK c \in Conn : c = Mate(d)
    BY <1>4
  <2>2. PICK m, n, j : /\ m = started[c][p.msg + 1] /\ n = Count(c, m.load)
                       /\ j = Joined(partial[d], f)
    OBVIOUS
  <2>3. /\ m \in LinkMessage /\ n \in Nat \ {0} /\ Len(started[c]) \in Nat
        /\ p.msg \in Nat /\ p.frag \in Nat /\ p.msg < Len(started[c]) /\ p.frag < n
        /\ p.msg = Len(got[d])
        /\ q = IF p.frag + 1 = n THEN [msg |-> p.msg + 1, frag |-> 0]
               ELSE [msg |-> p.msg, frag |-> p.frag + 1]
        /\ f.fin <=> p.frag + 1 = n
        /\ j.op = m.op
        /\ j.load = IF p.frag + 1 = n THEN m.load ELSE Sofar(m, p.frag + 1)
        /\ j = [op |-> j.op, load |-> j.load]
    BY <1>3, <1>8, <2>1, <2>2, JoinedFrame DEF f
  <2>11. CASE p.frag + 1 = n
    <3>1. q.msg = p.msg + 1 /\ q.frag = 0
      BY <2>3, <2>11
    <3>2. rpc'[d] = "message" /\ readFinal'[d]
      BY <1>3, <1>5, <2>3, <2>11
    <3>3. partial'[d] = started[c][p.msg + 1]
      <4>1. m = [op |-> m.op, load |-> m.load]
        BY <2>3 DEF LinkMessage
      <4> QED
        BY <1>3, <2>2, <2>3, <2>11, <4>1
    <3>4. ReadsAt(c, q)'
      BY <1>4, <2>1, <2>3, <3>1, <3>2, <3>3 DEF ReadsAt
    <3> QED
      BY <2>1, <3>4
  <2>12. CASE p.frag + 1 # n
    <3>1. q.msg = p.msg /\ q.frag = p.frag + 1 /\ p.frag + 1 < n
      BY <2>3, <2>12
    <3>2. rpc'[d] = "next" /\ ~readFinal'[d]
      BY <1>3, <1>5, <2>3, <2>12
    <3>3. partial'[d].op = m.op /\ partial'[d].load = Sofar(m, p.frag + 1)
      BY <1>3, <2>2, <2>3, <2>12
    <3>4. ReadsAt(c, q)'
      <4>1. Mate(c) = d /\ started' = started /\ got' = got
        BY <1>4, <2>1
      <4>2. q.msg = Len(got[d]) /\ q.msg < Len(started[c]) /\ q.msg <= Len(started[c]) /\ q.frag # 0
        BY <2>3, <3>1
      <4>3. /\ q.frag < Count(c, started[c][q.msg + 1].load)
            /\ partial'[d].op = started[c][q.msg + 1].op
            /\ partial'[d].load = Sofar(started[c][q.msg + 1], q.frag)
        BY <2>2, <3>1, <3>3
      <4>4. rpc'[d] # "message" /\ ~readFinal'[d]
        BY <3>2
      <4> QED
        BY <4>1, <4>2, <4>3, <4>4, Zenon DEF ReadsAt
    <3> QED
      BY <2>1, <3>4
  <2> QED
    BY <2>11, <2>12
<1> QED
  BY <1>2, <1>3, <1>5, <1>6, <1>7, <1>8, ReaderIInv DEF f

(* The end of the stream comes with the last bytes of a frame.             *)
LEMMA ReadLastDataIInv ==
  ASSUME LinkIInv, NEW d \in Conn, ReadLastData(d), UNCHANGED <<started, got>>
  PROVE  LinkIInv'
<1> DEFINE f == Head(in[d])
<1>1. TakeData(d)
  BY DEF ReadLastData
<1>2. /\ rpc' = [rpc EXCEPT ![d] = "message"]
      /\ readErr' = [readErr EXCEPT ![d] = "eof"]
  BY DEF ReadLastData
<1>3. /\ Arrived(d) /\ TakeFrame(d) /\ f.op \in Data \cup {"cont"}
      /\ UNCHANGED <<open, eof, out, wpc, frames, written, pending, kpc, kop>>
      /\ readFinal'[d] = f.fin /\ partial'[d] = Joined(partial[d], f)
      /\ \A x \in Conn : x # d => /\ readFinal'[x] = readFinal[x]
                                  /\ partial'[x] = partial[x] /\ in'[x] = in[x]
      /\ in' \in [Conn -> Seq(LinkFrame)]
      /\ partial' \in [Conn -> [op : Data \cup {"none"}, load : Payload]]
      /\ readFinal' \in [Conn -> BOOLEAN]
  BY <1>1, TakeDataFacts
<1>4. /\ rpc[d] = "next" /\ readErr[d] = "nil" /\ Mate(d) \in Conn /\ Mate(Mate(d)) = d
      /\ Stream(Mate(d)) /\ in[d] # <<>>
  BY <1>3, ArrivedFrame
<1> HIDE DEF f
<1>5. /\ rpc'[d] = "message" /\ readErr'[d] = "eof"
      /\ \A x \in Conn : x # d => rpc'[x] = rpc[x] /\ readErr'[x] = readErr[x]
  BY <1>2 DEF LinkIInv, LinkTypeOK
<1>6. LinkTypeOK'
  BY <1>2, <1>3 DEF LinkIInv, LinkTypeOK
<1>7. PartyInv' /\ NoProtocolError'
  <2>1. NoProtocolError'
    BY <1>3, <1>5 DEF LinkIInv, NoProtocolError
  <2> SUFFICES ASSUME NEW x \in Conn
               PROVE  /\ kpc[x]["reader"] # "none" <=> rpc'[x] = "answer"
                      /\ open[x] \/ rpc'[x] = "failed"
                      /\ wpc[x] # "idle" => frames[x] # <<>>
    BY <1>3, <2>1 DEF PartyInv
  <2>2. CASE x = d
    BY <1>4, <1>5, <2>2 DEF LinkIInv, PartyInv
  <2>3. CASE x # d
    BY <1>5, <2>3 DEF LinkIInv, PartyInv
  <2> QED
    BY <2>2, <2>3
<1>8. HandsUp(d)'
  <2>1. PICK c \in Conn : c = Mate(d)
    BY <1>4
  <2>2. PICK p, q \in Place : ReadsAt(c, p) /\ Passes(c, p, f, q)
    BY <1>4, <2>1, HeadPasses DEF LinkIInv, f
  <2>3. PICK m, n, j : /\ m = started[c][p.msg + 1] /\ n = Count(c, m.load)
                       /\ j = Joined(partial[d], f)
    OBVIOUS
  <2>4. /\ m \in LinkMessage /\ n \in Nat \ {0} /\ Len(started[c]) \in Nat
        /\ p.msg \in Nat /\ p.frag \in Nat /\ p.msg < Len(started[c]) /\ p.frag < n
        /\ p.msg = Len(got[d])
        /\ f.fin <=> p.frag + 1 = n
        /\ j.op = m.op
        /\ j.load = IF p.frag + 1 = n THEN m.load ELSE Sofar(m, p.frag + 1)
        /\ j = [op |-> j.op, load |-> j.load]
    BY <1>3, <2>1, <2>2, <2>3, JoinedFrame DEF f
  <2>5. m = [op |-> m.op, load |-> m.load] /\ m.op \in Data
    BY <2>4 DEF LinkMessage
  <2>6. j # NoMessage
    BY <2>4, <2>5 DEF NoMessage, Data
  <2>7. CASE p.frag + 1 = n
    <3>1. partial'[d] = m
      BY <1>3, <2>3, <2>4, <2>5, <2>7
    <3> QED
      BY <1>3, <2>1, <2>3, <2>4, <2>6, <3>1 DEF HandsUp
  <2>8. CASE p.frag + 1 # n
    <3>1. p.frag + 1 \in Nat \ {0} /\ p.frag + 1 < Count(c, m.load)
      BY <2>3, <2>4, <2>8
    <3>2. j.load = SubSeq(m.load, 1, Len(j.load))
      BY <2>4, <2>8, <3>1, SofarBegins
    <3>3. Begins(j, m)
      BY <2>4, <3>2 DEF Begins
    <3>4. ~readFinal'[d] /\ partial'[d] = j
      BY <1>3, <2>3, <2>4, <2>8
    <3> QED
      BY <1>3, <2>1, <2>3, <2>4, <2>6, <3>3, <3>4 DEF HandsUp
  <2> QED
    BY <2>7, <2>8
<1>9. GotInv'
  <2>1. MessageIntegrity'
    <3> SUFFICES ASSUME NEW x \in Conn
                 PROVE  /\ Len(got[x]) <= Len(started[Mate(x)])
                        /\ \A i \in 1..Len(got[x]) :
                             \/ got[x][i] = started[Mate(x)][i]
                             \/ i = Len(got[x]) /\ CutShort(x)'
                                /\ Begins(got[x][i], started[Mate(x)][i])
      BY DEF MessageIntegrity
    <3>1. CASE x = d
      BY <1>4, <3>1 DEF LinkIInv, GotInv, MessageIntegrity, CutShort
    <3>2. CASE x # d
      BY <1>3, <1>5, <3>2 DEF LinkIInv, GotInv, MessageIntegrity, CutShort
    <3> QED
      BY <3>1, <3>2
  <2>2. EndInv'
    <3> SUFFICES ASSUME NEW x \in Conn, readErr'[x] # "nil"
                 PROVE  /\ rpc'[x] # "answer"
                        /\ rpc'[x] # "failed" => readErr'[x] = "eof"
                        /\ rpc'[x] = "message" => HandsUp(x)'
      BY DEF EndInv
    <3>1. CASE x = d
      BY <1>5, <1>8, <3>1
    <3>2. CASE x # d
      <4>1. HandsUp(x) => HandsUp(x)'
        BY <1>3, <3>2 DEF HandsUp
      <4> QED
        BY <1>5, <3>2, <4>1 DEF LinkIInv, GotInv, EndInv
    <3> QED
      BY <3>1, <3>2
  <2> QED
    BY <2>1, <2>2 DEF GotInv
<1>10. StreamInv'
  <2> SUFFICES ASSUME NEW x \in Conn, Live(Mate(x))' PROVE Stream(x)'
    BY DEF StreamInv
  <2>1. Mate(x) \in Conn /\ Mate(x) # d
    BY <1>5, Mates DEF Live
  <2>2. Stream(x)
    BY <1>5, <2>1 DEF LinkIInv, StreamInv, Live
  <2> QED
    BY <1>3, <1>5, <2>1, <2>2, StreamKept
<1> QED
  BY <1>6, <1>7, <1>9, <1>10 DEF LinkIInv

(* No frame is objectionable, so that case does not arise. *)
LEMMA ReadingIInv ==
  ASSUME LinkIInv, NEW d \in Conn, Reading(d), UNCHANGED <<started, got>>
  PROVE  LinkIInv'
<1>1. CASE ReadPong(d)
  BY <1>1, ReadPongIInv
<1>2. CASE ReadData(d)
  BY <1>2, ReadDataIInv
<1>3. CASE ReadPing(d)
  BY <1>3, AnswerIInv DEF ReadPing, Control
<1>4. CASE ReadClose(d)
  BY <1>4, AnswerIInv DEF ReadClose, Control
<1>5. CASE ReadObjectionable(d)
  BY <1>5, ArrivedFrame DEF ReadObjectionable
<1>6. CASE ReadEnd(d)
  <2> DEFINE e == IF readErr[d] # "nil" THEN readErr[d] ELSE IF open[d] THEN "eof" ELSE "io"
  <2>1. /\ rpc' = [rpc EXCEPT ![d] = "failed"] /\ rpc[d] = "next"
        /\ readErr' = [readErr EXCEPT ![d] = e]
        /\ UNCHANGED <<open, eof, in, out, wpc, frames, written, pending, readFinal,
                       partial, kpc, kop>>
    BY <1>6 DEF ReadEnd, netVars, writerVars, controlVars
  <2>2. /\ e \in {"io", "eof", "close", "protocol"} /\ e # "protocol"
        /\ readErr[d] # "nil" => e = readErr[d]
    BY DEF LinkIInv, LinkTypeOK, NoProtocolError
  <2> HIDE DEF e
  <2>3. LinkTypeOK'
    BY <2>1, <2>2 DEF LinkIInv, LinkTypeOK
  <2>4. /\ rpc'[d] = "failed" /\ readErr'[d] = e
        /\ \A x \in Conn : x # d => rpc'[x] = rpc[x] /\ readErr'[x] = readErr[x]
    BY <2>1 DEF LinkIInv, LinkTypeOK
  <2>5. PartyInv' /\ NoProtocolError'
    BY <2>1, <2>2, <2>4 DEF LinkIInv, PartyInv, NoProtocolError
  <2>6. MessageIntegrity'
    <3> SUFFICES ASSUME NEW x \in Conn
                 PROVE  \A i \in 1..Len(got[x]) :
                          \/ got[x][i] = started[Mate(x)][i]
                          \/ i = Len(got[x]) /\ CutShort(x)'
                             /\ Begins(got[x][i], started[Mate(x)][i])
      BY DEF LinkIInv, GotInv, MessageIntegrity
    <3>1. readErr'[x] = readErr[x] \/ readErr[x] = "nil"
      BY <2>2, <2>4
    <3> QED
      BY <2>1, <3>1 DEF LinkIInv, GotInv, MessageIntegrity, CutShort
  <2>7. EndInv'
    <3> SUFFICES ASSUME NEW x \in Conn, readErr'[x] # "nil"
                 PROVE  /\ rpc'[x] # "answer"
                        /\ rpc'[x] # "failed" => readErr'[x] = "eof"
                        /\ rpc'[x] = "message" => HandsUp(x)'
      BY DEF EndInv
    <3>1. HandsUp(x) => HandsUp(x)'
      BY <2>1 DEF HandsUp
    <3> QED
      BY <2>4, <3>1 DEF LinkIInv, GotInv, EndInv
  <2>8. StreamInv'
    <3> SUFFICES ASSUME NEW x \in Conn, Live(Mate(x))' PROVE Stream(x)'
      BY DEF StreamInv
    <3>1. Mate(x) \in Conn /\ Mate(x) # d
      BY <2>4, Mates DEF Live
    <3>2. Stream(x)
      BY <2>4, <3>1 DEF LinkIInv, StreamInv, Live
    <3> QED
      BY <2>1, <2>4, <3>1, <3>2, StreamKept
  <2> QED
    BY <2>3, <2>5, <2>6, <2>7, <2>8 DEF LinkIInv, GotInv
<1>7. CASE ReadLastData(d)
  BY <1>7, ReadLastDataIInv
<1> QED
  BY <1>1, <1>2, <1>3, <1>4, <1>5, <1>6, <1>7 DEF Reading

-----------------------------------------------------------------------------
(* The specification. *)

(* At first both streams are empty, and reader and writer at their start.  *)
LEMMA LinkInitIInv == LinkInit => LinkIInv
<1> SUFFICES ASSUME LinkInit PROVE LinkIInv
  OBVIOUS
<1> USE DEF LinkInit, ConnInit
<1>1. LinkTypeOK
  <2>1. <<>> \in Seq(LinkFrame) /\ <<>> \in Seq(LinkMessage) /\ <<>> \in Payload
        /\ <<>> \in Seq([op : Data \cup {"none"}, load : Payload])
    BY EmptySeq DEF Payload
  <2>2. NoMessage \in [op : Data \cup {"none"}, load : Payload]
    BY <2>1 DEF NoMessage
  <2> QED
    BY <2>1, <2>2 DEF LinkTypeOK, Control
<1>2. PartyInv /\ GotInv /\ NoProtocolError
  BY Mates DEF PartyInv, GotInv, MessageIntegrity, EndInv, NoProtocolError, Who
<1>3. StreamInv
  <2> SUFFICES ASSUME NEW c \in Conn PROVE Stream(c)
    BY DEF StreamInv
  <2>1. Mate(c) \in Conn
    BY Mates
  <2>2. Travel(c) = <<>> \o <<>>
    BY <2>1 DEF Travel
  <2>3. Travel(c) = <<>>
    BY <2>2, ConcatEmptySeq, EmptySeq
  <2> DEFINE p == [msg |-> 0, frag |-> 0]
             st == [i \in 1..1 |-> p]
  <2>4. p \in Place /\ st \in [1..1 -> Place] /\ st[1] = p
    BY DEF Place
  <2>5. ReadsAt(c, p) /\ WritesAt(c, p)
    BY <2>1 DEF ReadsAt, WritesAt
  <2> HIDE DEF p, st
  <2>6. Len(Travel(c)) = 0
    BY <2>3
  <2> QED
    BY <2>4, <2>5, <2>6 DEF Stream
<1> QED
  BY <1>1, <1>2, <1>3 DEF LinkIInv

(* One case per party.                                                     *)
LEMMA LinkNextIInv == LinkIInv /\ [LinkNext]_linkVars => LinkIInv'
<1> SUFFICES ASSUME LinkIInv, [LinkNext]_linkVars PROVE LinkIInv'
  OBVIOUS
<1>1. CASE UNCHANGED linkVars
  <2>1. LinkTypeOK' /\ PartyInv' /\ NoProtocolError'
    BY <1>1 DEF linkVars, connVars, LinkIInv, LinkTypeOK, PartyInv, NoProtocolError
  <2> QED
    BY <1>1, <2>1, QuietIInv DEF linkVars, connVars
<1>2. CASE LinkNext
  <2>1. PICK c \in Conn : Apps(c) \/ Steps(c) \/ Take(c) \/ HangUp(c) \/ Net(c)
    BY <1>2 DEF LinkNext
  <2>2. CASE Apps(c)
    BY <2>2, SayIInv, AskIInv DEF Apps
  <2>3. CASE Steps(c)
    BY <2>3, WritingIInv, ReadingIInv, ControllingIInv DEF Steps, ConnStep
  <2>4. CASE Take(c)
    BY <2>4, TakeIInv
  <2>5. CASE HangUp(c)
    BY <2>5, HangUpIInv
  <2>6. CASE Net(c)
    BY <2>6, NetIInv
  <2> QED
    BY <2>1, <2>2, <2>3, <2>4, <2>5, <2>6
<1> QED
  BY <1>1, <1>2

(* The inductive invariant of two connections back to back.                *)
LEMMA LinkInvariant == LinkSpec => []LinkIInv
  BY LinkInitIInv, LinkNextIInv, PTL DEF LinkSpec

(* However the writers' frames interleave and wherever a connection ends,  *)
(* ReadMessage returns whole messages in the order they were written; only *)
(* the end of the stream can cut the last one, as MessageIntegrity says.   *)
THEOREM MessageIntegrityHolds == LinkSpec => []MessageIntegrity
<1>1. LinkIInv => MessageIntegrity
  BY DEF LinkIInv, GotInv
<1> QED
  BY <1>1, LinkInvariant, PTL

(* Whatever fragments, answers and control frames of the application a     *)
(* connection mixes, its mate never has cause for a protocol error.        *)
THEOREM NoProtocolErrorHolds == LinkSpec => []NoProtocolError
<1>1. LinkIInv => NoProtocolError
  BY DEF LinkIInv
<1> QED
  BY <1>1, LinkInvariant, PTL

-----------------------------------------------------------------------------
(* The two connections of a session. *)

(* What has been written to an endpoint, received or on its way. *)
Line(c) == received[c] \o out[c]

SessionTypeOK ==
  /\ in \in [Conn -> Seq(Frame)] /\ out \in [Conn -> Seq(Frame)]
  /\ todo \in [Conn -> Seq(Frame)] /\ received \in [Conn -> Seq(Frame)]
  /\ frames \in [Conn -> Seq(Frame)] /\ taken \in [Conn -> Seq(Message)]
  /\ wpc \in [Conn -> {"idle", "lock", "write"}]
  /\ writeErr \in [Conn -> {"nil", "io", "closeSent"}]
  /\ rpc \in [Conn -> {"next", "answer", "message", "failed"}]
  /\ readErr \in [Conn -> {"nil", "io", "eof", "close", "protocol"}]
  /\ pending \in [Conn -> {"nil", "close", "protocol"}]
  /\ readFinal \in [Conn -> BOOLEAN]
  /\ partial \in [Conn -> [op : Data \cup {"none"}, load : Seq(Unit)]]
  /\ kpc \in [Conn -> [Who -> {"none", "lock", "write"}]]
  /\ kop \in [Conn -> [Who -> Control]]
  /\ pump \in [Conn -> {"read", "write", "signal", "ended"}]

(* A goroutine reads no more as long as it has a message in hand, and only *)
(* it writes to the other connection.                                      *)
PumpInv ==
  \A c \in Conn :
    /\ kpc[c]["reader"] # "none" => rpc[c] = "answer"
    /\ rpc[c] = "answer" => readErr[c] = "nil"
    /\ rpc[c] = "message" /\ readErr[c] = "nil" => readFinal[c]
    /\ rpc[c] = "message" \/ (~readFinal[c] /\ readErr[c] = "nil") => partial[c].op \in Data
    /\ pump[c] = "write" => rpc[c] = "message" /\ taken[c] # <<>>
    /\ pump[c] = "signal" => rpc[c] \in {"message", "failed"}
    /\ wpc[Other(c)] # "idle" => pump[c] = "write"

(* The messages an endpoint has been sent whole. *)
WholeInv(c) ==
  LET fs == Line(c)
      read == taken[Other(c)]
  IN \E of \in [Ends(fs) -> DOMAIN read] :
       /\ \A i \in Ends(fs) :
            \E b \in 1..i : Carries(fs, b, i, read[of[i]], Len(read[of[i]].load))
       /\ \A i, j \in Ends(fs) : i < j => of[i] < of[j]
       /\ wpc[c] # "idle" => \A i \in Ends(fs) : of[i] < Len(read)

(* Frames are marked as what they are. *)
MarkInv(c) ==
  LET fs == Line(c)
  IN \A i \in DOMAIN fs : IsData(fs[i]) => (fs[i].op = "cont" <=> Continues(fs, i))

(* The message in hand: its first k frames have been written. *)
BegunInv(c) ==
  LET fs == Line(c)
      m == taken[Other(c)][Len(taken[Other(c)])]
      all == FramesOf(c, m.op, m.load)
  IN \E k \in 0..Len(all) - 1 :
       /\ Len(frames[c]) = Len(all) - k
       /\ \A i \in 1..Len(frames[c]) : frames[c][i] = all[k + i]
       /\ Continues(fs, Len(fs) + 1) <=> k > 0
       /\ k > 0 => /\ Len(fs) \notin Ends(fs)
                   /\ \E b \in 1..Len(fs) : Carries(fs, b, Len(fs), m, k * WriteBuf)

HandInv(c) ==
  /\ wpc[c] # "idle" => BegunInv(c)
  /\ wpc[c] = "idle" /\ writeErr[c] = "nil" => ~Continues(Line(c), Len(Line(c)) + 1)

WireInv(c) == WholeInv(c) /\ MarkInv(c) /\ HandInv(c)

SessionIInv == SessionTypeOK /\ PumpInv /\ \A c \in Conn : WireInv(c)

-----------------------------------------------------------------------------
(* The frames of a message: the first has its type, the last alone is      *)
(* final, and each takes up the payload where the one before it ended.     *)
CutInv(m, all) ==
  \A i \in 1..Len(all) :
    LET from == (i - 1) * WriteBuf
        to == IF i = Len(all) THEN Len(m.load) ELSE i * WriteBuf
    IN /\ all[i].op = (IF i = 1 THEN m.op ELSE "cont")
       /\ all[i].fin <=> i = Len(all)
       /\ from <= to /\ to <= Len(m.load) /\ from \in Nat
       /\ all[i].load = SubSeq(m.load, from + 1, to)

(* A message is cut as CutInv says, whichever side's it is.                *)
LEMMA FramesCut ==
  ASSUME NEW c \in Conn, NEW m \in Message, NEW all, all = FramesOf(c, m.op, m.load)
  PROVE  Len(all) \in Nat \ {0} /\ all \in Seq(Frame) /\ CutInv(m, all)
<1> DEFINE S == Unit
           op == m.op
           load == m.load
<1>0. op \in Data /\ load \in Seq(S)
  BY DEF Message
<1> HIDE DEF S, op, load
<1> DEFINE one == IsServer[c] \/ load = <<>>
           l == Len(load)
           n == IF one THEN 1 ELSE (l + WriteBuf - 1) \div WriteBuf
           f(i) == [op |-> IF i = 1 THEN op ELSE "cont", fin |-> i = n,
                    mask |-> ~IsServer[c], valid |-> TRUE,
                    load |-> IF n = 1 THEN load
                             ELSE SubSeq(load, (i - 1) * WriteBuf + 1,
                                         SmallerOf(i * WriteBuf, l))]
<1>1. l \in Nat /\ WriteBuf \in Nat \ {0} /\ (load # <<>> => l \in Nat \ {0})
  BY <1>0, WsConnAssumption, EmptySeq, LenProperties
<1>2. /\ n \in Nat \ {0}
      /\ n > 1 => n * WriteBuf >= l /\ \A i \in Nat : i < n => i * WriteBuf < l
  <2>1. CASE one
    BY <2>1
  <2>2. CASE ~one
    <3>1. l \in Nat \ {0} /\ n = (l + WriteBuf - 1) \div WriteBuf
      BY <1>1, <2>2
    <3> HIDE DEF n, l
    <3> QED
      BY <3>1, <1>1, DataCuts
  <2> QED
    BY <2>1, <2>2
<1>3. all = [i \in 1..n |-> f(i)]
  BY DEF FramesOf, op, load
<1> HIDE DEF n, l, one
<1>4. ASSUME NEW i \in 1..n
      PROVE  LET from == (i - 1) * WriteBuf
                 to == IF i = n THEN l ELSE i * WriteBuf
             IN from <= to /\ to <= l /\ from \in Nat /\ f(i).load = SubSeq(load, from + 1, to)
  <2> DEFINE from == (i - 1) * WriteBuf
             to == IF i = n THEN l ELSE i * WriteBuf
  <2>0. i \in Nat /\ 1 <= i /\ i <= n
    BY <1>2
  <2>1. CASE n = 1
    <3>1. i = 1 /\ from = 0 /\ to = l
      BY <1>1, <2>0, <2>1
    <3>2. f(i).load = load
      BY <2>1
    <3>3. SubSeq(load, 1, l) = load
      BY <1>0, SubSeqFull DEF l
    <3>4. from + 1 = 1
      BY <3>1
    <3>5. f(i).load = SubSeq(load, from + 1, to)
      BY <3>1, <3>2, <3>3, <3>4, Zenon
    <3> HIDE DEF f
    <3> QED
      BY <1>1, <3>1, <3>5
  <2>2. CASE n # 1
    <3>1. f(i).load = SubSeq(load, from + 1, SmallerOf(i * WriteBuf, l))
      BY <2>2
    <3>2. from \in Nat /\ i * WriteBuf \in Nat /\ i * WriteBuf = from + WriteBuf
      BY <1>1, <2>0
    <3>3. n > 1 /\ i - 1 \in Nat /\ i - 1 < n
      BY <1>2, <2>0, <2>2
    <3>4. from < l
      BY <1>2, <3>3
    <3>5. SmallerOf(i * WriteBuf, l) = to /\ to <= l
      <4>1. CASE i = n
        <5>1. i * WriteBuf >= l
          BY <1>2, <3>3, <4>1
        <5> QED
          BY <1>1, <3>2, <4>1, <5>1 DEF SmallerOf
      <4>2. CASE i # n
        <5>1. i * WriteBuf < l
          BY <1>2, <3>3, <2>0, <4>2
        <5> QED
          BY <1>1, <3>2, <4>2, <5>1 DEF SmallerOf
      <4> QED
        BY <4>1, <4>2
    <3>6. from <= to
      BY <1>1, <3>2, <3>4
    <3> QED
      BY <3>1, <3>2, <3>5, <3>6
  <2> QED
    BY <2>1, <2>2
<1>5. ASSUME NEW i \in 1..n
      PROVE  f(i) \in [op : Kind, fin : BOOLEAN, mask : BOOLEAN, valid : BOOLEAN, load : Seq(S)]
  <2>1. f(i).load \in Seq(S)
    <3> DEFINE from == (i - 1) * WriteBuf
               to == IF i = n THEN l ELSE i * WriteBuf
    <3>1. from <= to /\ to <= l /\ from \in Nat /\ f(i).load = SubSeq(load, from + 1, to)
      BY <1>4
    <3>2. to \in Nat
      BY <1>1, <1>2
    <3> HIDE DEF from, to
    <3>3. \A j \in from + 1..to : load[j] \in S
      BY <1>0, <3>1, <3>2, ElementOfSeq DEF l
    <3>4. SubSeq(load, from + 1, to) \in Seq(S)
      BY <1>0, <3>1, <3>2, <3>3, SubSeqProperties DEF l
    <3> QED
      BY <3>1, <3>4
  <2>2. (IF i = 1 THEN op ELSE "cont") \in Kind /\ (i = n) \in BOOLEAN /\ (~IsServer[c]) \in BOOLEAN
    BY <1>0 DEF Data, Kind
  <2> QED
    BY <2>1, <2>2
<1>6. all \in Seq([op : Kind, fin : BOOLEAN, mask : BOOLEAN, valid : BOOLEAN, load : Seq(S)]) /\ Len(all) = n
  <2> DEFINE F == [op : Kind, fin : BOOLEAN, mask : BOOLEAN, valid : BOOLEAN, load : Seq(S)]
  <2>1. \A i \in 1..n : f(i) \in F
    BY <1>5
  <2> HIDE DEF f, F
  <2>2. all \in [1..n -> F]
    BY <1>3, <2>1
  <2>3. all \in Seq(F) /\ Len(all) = n
    BY <1>2, <2>2
  <2> QED
    BY <2>3 DEF F
<1>7. \A i \in 1..n : /\ all[i] = f(i) /\ f(i).op = (IF i = 1 THEN op ELSE "cont")
                      /\ f(i).fin <=> i = n
  BY <1>3
<1> HIDE DEF f
<1>8. ASSUME NEW i \in 1..n
      PROVE  LET from == (i - 1) * WriteBuf
                 to == IF i = n THEN l ELSE i * WriteBuf
             IN /\ all[i].op = (IF i = 1 THEN op ELSE "cont")
                /\ all[i].fin <=> i = n
                /\ from <= to /\ to <= l /\ from \in Nat
                /\ all[i].load = SubSeq(load, from + 1, to)
  BY <1>4, <1>7
<1>9. CutInv(m, all)
  BY <1>6, <1>8 DEF CutInv, l, load, op
<1> QED
  BY <1>2, <1>6, <1>9 DEF S, Frame

-----------------------------------------------------------------------------
(* What an endpoint is sent grows at its end. *)

(* A sequence with one more element.                                       *)
LEMMA Longer ==
  ASSUME NEW S, NEW fs \in Seq(S), NEW f \in S, NEW gs, gs = Append(fs, f)
  PROVE  /\ Len(fs) \in Nat /\ gs \in Seq(S) /\ Len(gs) = Len(fs) + 1 /\ gs[Len(fs) + 1] = f
         /\ DOMAIN fs = 1..Len(fs) /\ DOMAIN gs = 1..(Len(fs) + 1)
         /\ \A i \in 1..Len(fs) : gs[i] = fs[i]
OBVIOUS

(* A further frame ends a message if it is a final data frame.             *)
LEMMA EndsLonger ==
  ASSUME NEW S, NEW fs \in Seq(S), NEW f \in S, NEW gs, gs = Append(fs, f)
  PROVE  Ends(gs) = Ends(fs) \cup (IF IsData(f) /\ f.fin THEN {Len(fs) + 1} ELSE {})
<1>1. /\ Len(fs) \in Nat /\ gs[Len(fs) + 1] = f
      /\ DOMAIN fs = 1..Len(fs) /\ DOMAIN gs = 1..(Len(fs) + 1)
      /\ \A i \in 1..Len(fs) : gs[i] = fs[i]
  BY Longer
<1>2. \A i : i \in 1..(Len(fs) + 1) <=> i \in 1..Len(fs) \/ i = Len(fs) + 1
  BY <1>1
<1>3. Len(fs) + 1 \notin 1..Len(fs)
  BY <1>1
<1> QED
  BY <1>1, <1>2, <1>3, Zenon DEF Ends

(* Messages end at frames that are there.                                  *)
LEMMA EndsInside ==
  ASSUME NEW S, NEW fs \in Seq(S)
  PROVE  Ends(fs) \subseteq 1..Len(fs) /\ Len(fs) \in Nat /\ Len(fs) + 1 \notin Ends(fs)
<1>1. Len(fs) \in Nat /\ DOMAIN fs = 1..Len(fs)
  OBVIOUS
<1>2. Ends(fs) \subseteq 1..Len(fs)
  BY <1>1 DEF Ends
<1>3. Len(fs) + 1 \notin 1..Len(fs)
  BY <1>1
<1> QED
  BY <1>1, <1>2, <1>3

(* Whether a frame continues a message depends on what is before it.       *)
LEMMA ContinuesLonger ==
  ASSUME NEW S, NEW fs \in Seq(S), NEW f \in S, NEW gs, gs = Append(fs, f),
         NEW i \in 1..(Len(fs) + 1)
  PROVE  Continues(gs, i) <=> Continues(fs, i)
<1>1. /\ Len(fs) \in Nat /\ \A j \in 1..Len(fs) : gs[j] = fs[j]
  BY Longer
<1>2. \A j \in 1..i - 1 : j \in 1..Len(fs) /\ \A k \in j + 1..i - 1 : k \in 1..Len(fs)
  BY <1>1
<1>3. \A j \in 1..i - 1 : gs[j] = fs[j] /\ \A k \in j + 1..i - 1 : gs[k] = fs[k]
  BY <1>1, <1>2
<1> QED
  BY <1>3, Zenon DEF Continues

(* What it means that a message is open behind frame p.                    *)
LEMMA ContinuesIs ==
  ASSUME NEW fs, NEW p \in Nat
  PROVE  Continues(fs, p + 1) <=>
           \E j \in 1..p : IsData(fs[j]) /\ ~fs[j].fin /\ \A k \in j + 1..p : ~IsData(fs[k])
<1>1. p + 1 - 1 = p
  OBVIOUS
<1> DEFINE D(j) == IsData(fs[j])
           F(j) == fs[j].fin
<1>2. Continues(fs, p + 1) <=>
        \E j \in 1..p + 1 - 1 : D(j) /\ ~F(j) /\ \A k \in j + 1..p + 1 - 1 : ~D(k)
  BY DEF Continues
<1> HIDE DEF D, F
<1>3. Continues(fs, p + 1) <=> \E j \in 1..p : D(j) /\ ~F(j) /\ \A k \in j + 1..p : ~D(k)
  BY <1>1, <1>2
<1> QED
  BY <1>3 DEF D, F

(* A data frame leaves a message open unless it is final; a control        *)
(* frame leaves things as they were.                                       *)
LEMMA ContinuesNext ==
  ASSUME NEW S, NEW fs \in Seq(S), NEW f \in S, NEW gs, gs = Append(fs, f)
  PROVE  Continues(gs, Len(gs) + 1) <=> IF IsData(f) THEN ~f.fin ELSE Continues(fs, Len(fs) + 1)
<1> DEFINE n == Len(fs)
<1>1. n \in Nat /\ Len(gs) = n + 1 /\ gs[n + 1] = f /\ \A j \in 1..n : gs[j] = fs[j]
  BY Longer
<1> HIDE DEF n
<1>3. Continues(gs, Len(gs) + 1) <=>
        \E j \in 1..n + 1 : IsData(gs[j]) /\ ~gs[j].fin /\ \A k \in j + 1..n + 1 : ~IsData(gs[k])
  <2>1. n + 1 \in Nat /\ Len(gs) = n + 1
    BY <1>1
  <2> QED
    BY <2>1, ContinuesIs, Zenon
<1>4. Continues(fs, n + 1) <=>
        \E j \in 1..n : IsData(fs[j]) /\ ~fs[j].fin /\ \A k \in j + 1..n : ~IsData(fs[k])
  BY <1>1, ContinuesIs, Zenon
<1>5. CASE IsData(f)
  <2>1. \A j \in 1..n : n + 1 \in j + 1..n + 1
    BY <1>1
  <2>2. n + 1 \in 1..n + 1 /\ \A k \in n + 1 + 1..n + 1 : FALSE
    BY <1>1
  <2>3. \A j \in 1..n + 1 : j \in 1..n \/ j = n + 1
    BY <1>1
  <2>4. ASSUME Continues(gs, Len(gs) + 1) PROVE ~f.fin
    <3>1. PICK j \in 1..n + 1 : IsData(gs[j]) /\ ~gs[j].fin /\ \A k \in j + 1..n + 1 : ~IsData(gs[k])
      BY <1>3, <2>4
    <3>2. j \notin 1..n
      BY <1>1, <1>5, <2>1, <3>1
    <3>3. j = n + 1
      BY <2>3, <3>2
    <3> QED
      BY <1>1, <3>1, <3>3
  <2>5. ASSUME ~f.fin PROVE Continues(gs, Len(gs) + 1)
    BY <1>1, <1>3, <1>5, <2>2, <2>5, Zenon
  <2> QED
    BY <1>5, <2>4, <2>5
<1>6. CASE ~IsData(f)
  <2>1. \A j \in 1..n + 1 : j \in 1..n \/ j = n + 1
    BY <1>1
  <2>2. \A j \in 1..n : j \in 1..n + 1
    BY <1>1
  <2>3. \A j \in 1..n : \A k \in j + 1..n + 1 : k \in j + 1..n \/ k = n + 1
    BY <1>1
  <2>4. \A j \in 1..n : \A k \in j + 1..n : k \in 1..n /\ k \in j + 1..n + 1
    BY <1>1
  <2>5. \A j \in 1..n : (\A k \in j + 1..n + 1 : ~IsData(gs[k])) <=> \A k \in j + 1..n : ~IsData(fs[k])
    BY <1>1, <1>6, <2>3, <2>4, Zenon
  <2>6. (\E j \in 1..n + 1 : IsData(gs[j]) /\ ~gs[j].fin /\ \A k \in j + 1..n + 1 : ~IsData(gs[k]))
        <=> \E j \in 1..n : IsData(fs[j]) /\ ~fs[j].fin /\ \A k \in j + 1..n : ~IsData(fs[k])
    BY <1>1, <1>6, <2>1, <2>2, <2>5, Zenon
  <2> QED
    BY <1>3, <1>4, <1>6, <2>6 DEF n
<1> QED
  BY <1>5, <1>6

(* What frames carry is not changed by those behind them. *)
LEMMA CarriesLonger ==
  ASSUME NEW S, NEW fs \in Seq(S), NEW f \in S, NEW gs, gs = Append(fs, f),
         NEW i \in 1..Len(fs), NEW b \in 1..i, NEW m, NEW n, Carries(fs, b, i, m, n)
  PROVE  Carries(gs, b, i, m, n)
<1>1. /\ Len(fs) \in Nat /\ \A j \in 1..Len(fs) : gs[j] = fs[j]
  BY Longer
<1>2. Ends(gs) = Ends(fs) \cup (IF IsData(f) /\ f.fin THEN {Len(fs) + 1} ELSE {})
  BY EndsLonger
<1>3. /\ \A j \in b..i : gs[j] = fs[j]
      /\ \A j \in b + 1..i : gs[j] = fs[j]
      /\ \A j \in b..i - 1 : j # Len(fs) + 1
      /\ gs[b] = fs[b]
  BY <1>1
<1>4. \A j \in b..i - 1 : j \notin Ends(gs)
  BY <1>2, <1>3 DEF Carries
<1>5. PICK at \in [b - 1..i -> 0..n] :
       /\ at[b - 1] = 0 /\ at[i] = n
       /\ \A j \in b..i :
            IF IsData(fs[j])
            THEN at[j - 1] <= at[j] /\ fs[j].load = SubSeq(m.load, at[j - 1] + 1, at[j])
            ELSE at[j] = at[j - 1]
  BY DEF Carries
<1>6. \A j \in b..i :
        IF IsData(gs[j])
        THEN at[j - 1] <= at[j] /\ gs[j].load = SubSeq(m.load, at[j - 1] + 1, at[j])
        ELSE at[j] = at[j - 1]
  BY <1>3, <1>5, Zenon
<1>7. IsData(gs[b]) /\ gs[b].op = m.op /\ \A j \in b + 1..i : IsData(gs[j]) => gs[j].op = "cont"
  BY <1>3 DEF Carries
<1> QED
  BY <1>4, <1>5, <1>6, <1>7, Zenon DEF Carries

(* A frame that carries a first piece, a further piece, or nothing.        *)
LEMMA CarriesFirst ==
  ASSUME NEW S, NEW fs \in Seq(S), NEW f \in S, NEW gs, gs = Append(fs, f),
         NEW m, NEW n \in Nat, IsData(f), f.op = m.op, f.load = SubSeq(m.load, 1, n)
  PROVE  Carries(gs, Len(gs), Len(gs), m, n)
<1> DEFINE b == Len(gs)
<1>1. b \in Nat /\ gs[b] = f
  BY Longer
<1> HIDE DEF b
<1> DEFINE at == [j \in b - 1..b |-> IF j = b THEN n ELSE 0]
<1>2. at \in [b - 1..b -> 0..n] /\ at[b - 1] = 0 /\ at[b] = n
  BY <1>1
<1>3. \A j \in b..b : j = b
  BY <1>1
<1>4. (\A j \in b + 1..b : FALSE) /\ (\A j \in b..b - 1 : FALSE)
  BY <1>1
<1> HIDE DEF at
<1>5. 0 + 1 = 1 /\ 0 <= n
  OBVIOUS
<1>6. at[b - 1] <= at[b] /\ gs[b].load = SubSeq(m.load, at[b - 1] + 1, at[b])
  BY <1>1, <1>2, <1>5
<1>7. \A j \in b..b :
        IF IsData(gs[j])
        THEN at[j - 1] <= at[j] /\ gs[j].load = SubSeq(m.load, at[j - 1] + 1, at[j])
        ELSE at[j] = at[j - 1]
  BY <1>1, <1>3, <1>6, Zenon
<1>8. Carries(gs, b, b, m, n)
  BY <1>1, <1>2, <1>4, <1>7, Zenon DEF Carries
<1> QED
  BY <1>8 DEF b

(* A frame that continues a message extends the part that is carried.      *)
LEMMA CarriesMore ==
  ASSUME NEW S, NEW fs \in Seq(S), NEW f \in S, NEW gs, gs = Append(fs, f),
         NEW b \in 1..Len(fs), NEW m, NEW n \in Nat, Carries(fs, b, Len(fs), m, n),
         Len(fs) \notin Ends(fs), NEW k \in Nat, n <= k,
         IF IsData(f) THEN f.op = "cont" /\ f.load = SubSeq(m.load, n + 1, k) ELSE k = n
  PROVE  Carries(gs, b, Len(gs), m, k)
<1> DEFINE l == Len(fs)
<1>1. l \in Nat /\ Len(gs) = l + 1 /\ gs[l + 1] = f /\ \A j \in 1..l : gs[j] = fs[j]
  BY Longer
<1>2. Ends(gs) = Ends(fs) \cup (IF IsData(f) /\ f.fin THEN {l + 1} ELSE {})
  BY EndsLonger
<1>b. b \in 1..l /\ b \in Nat /\ 1 <= b /\ b <= l
  BY <1>1
<1>3. PICK old \in [b - 1..l -> 0..n] :
       /\ old[b - 1] = 0 /\ old[l] = n
       /\ \A j \in b..l :
            IF IsData(fs[j])
            THEN old[j - 1] <= old[j] /\ fs[j].load = SubSeq(m.load, old[j - 1] + 1, old[j])
            ELSE old[j] = old[j - 1]
  BY DEF Carries
<1>4. /\ IsData(fs[b]) /\ fs[b].op = m.op
      /\ \A j \in b + 1..l : IsData(fs[j]) => fs[j].op = "cont"
      /\ \A j \in b..l - 1 : j \notin Ends(fs)
      /\ l \notin Ends(fs)
  BY DEF Carries
<1> HIDE DEF l
<1> DEFINE at == [j \in b - 1..l + 1 |-> IF j = l + 1 THEN k ELSE old[j]]
<1>5. at \in [b - 1..l + 1 -> 0..k]
  <2>1. ASSUME NEW j \in b - 1..l + 1 PROVE at[j] \in 0..k
    <3>1. CASE j = l + 1
      BY <3>1
    <3>2. CASE j # l + 1
      <4>1. j \in b - 1..l
        BY <1>1, <1>b, <3>2
      <4>2. old[j] \in 0..n /\ at[j] = old[j]
        BY <1>3, <3>2, <4>1
      <4> QED
        BY <4>2
    <3> QED
      BY <3>1, <3>2
  <2> QED
    BY <2>1
<1>6. /\ \A j \in b - 1..l : j \in b - 1..l + 1 /\ j # l + 1
      /\ l + 1 \in b - 1..l + 1 /\ b - 1 \in b - 1..l /\ l \in b - 1..l
  BY <1>1, <1>b
<1>7. at[l + 1] = k /\ \A j \in b - 1..l : at[j] = old[j]
  BY <1>6
<1> HIDE DEF at
<1>8. at[b - 1] = 0 /\ at[l] = n
  BY <1>3, <1>6, <1>7
<1>9. ASSUME NEW j \in b..l + 1
      PROVE  IF IsData(gs[j])
             THEN at[j - 1] <= at[j] /\ gs[j].load = SubSeq(m.load, at[j - 1] + 1, at[j])
             ELSE at[j] = at[j - 1]
  <2>1. CASE j = l + 1
    <3>1. gs[j] = f /\ at[j] = k /\ j - 1 = l
      BY <1>1, <1>7, <2>1
    <3>2. at[j - 1] = n
      BY <1>8, <3>1
    <3> QED
      BY <3>1, <3>2
  <2>2. CASE j # l + 1
    <3>1. j \in b..l /\ j \in 1..l /\ j - 1 \in b - 1..l /\ j \in b - 1..l
      BY <1>1, <1>b, <2>2
    <3>2. gs[j] = fs[j] /\ at[j] = old[j] /\ at[j - 1] = old[j - 1]
      BY <1>1, <1>7, <3>1
    <3> QED
      BY <1>3, <3>1, <3>2
  <2> QED
    BY <2>1, <2>2
<1>10. IsData(gs[b]) /\ gs[b].op = m.op
  BY <1>1, <1>4, <1>b
<1>11. ASSUME NEW j \in b + 1..l + 1, IsData(gs[j]) PROVE gs[j].op = "cont"
  <2>1. CASE j = l + 1
    BY <1>1, <1>11, <2>1
  <2>2. CASE j # l + 1
    <3>1. j \in b + 1..l /\ j \in 1..l
      BY <1>1, <1>b, <2>2
    <3> QED
      BY <1>1, <1>4, <1>11, <3>1
  <2> QED
    BY <2>1, <2>2
<1>12. ASSUME NEW j \in b..(l + 1) - 1 PROVE j \notin Ends(gs)
  <2>1. j = l \/ j \in b..l - 1
    BY <1>1, <1>b
  <2>2. j # l + 1
    BY <1>1, <1>b
  <2> QED
    BY <1>2, <1>4, <2>1, <2>2
<1>13. Carries(gs, b, l + 1, m, k)
  BY <1>5, <1>7, <1>8, <1>9, <1>10, <1>11, <1>12, Zenon DEF Carries
<1> QED
  BY <1>1, <1>13

-----------------------------------------------------------------------------
(* The four ways in which a step can concern one direction. *)

(* The other connection is the other one.                                  *)
LEMMA Others ==
  \A c \in Conn : /\ Other(c) \in Conn /\ Other(c) # c /\ Other(Other(c)) = c
                  /\ \A d \in Conn : d = c \/ d = Other(c)
BY WsRelayAssumption DEF Other

(* What has been written to an endpoint is a sequence of frames.           *)
LEMMA LineType ==
  ASSUME SessionTypeOK, NEW c \in Conn
  PROVE  /\ Line(c) \in Seq(Frame) /\ Len(Line(c)) \in Nat /\ DOMAIN Line(c) = 1..Len(Line(c))
         /\ taken[Other(c)] \in Seq(Message) /\ Len(taken[Other(c)]) \in Nat
         /\ DOMAIN taken[Other(c)] = 1..Len(taken[Other(c)])
<1>1. received[c] \in Seq(Frame) /\ out[c] \in Seq(Frame) /\ taken[Other(c)] \in Seq(Message)
  BY Others DEF SessionTypeOK
<1>2. Line(c) \in Seq(Frame)
  BY <1>1 DEF Line
<1> QED
  BY <1>1, <1>2

(* A step that writes no frame and takes no message. *)
LEMMA WireSame ==
  ASSUME NEW c \in Conn, WireInv(c), Line(c)' = Line(c), taken'[Other(c)] = taken[Other(c)],
         \/ /\ wpc'[c] = wpc[c] /\ frames'[c] = frames[c]
            /\ writeErr'[c] = writeErr[c] \/ writeErr'[c] # "nil"
         \/ wpc'[c] = "idle" /\ writeErr'[c] # "nil"
         \/ wpc[c] # "idle" /\ wpc'[c] # "idle" /\ frames'[c] = frames[c]
  PROVE  WireInv(c)'
<1>1. WholeInv(c)'
  <2>1. wpc'[c] # "idle" => wpc[c] # "idle"
    OBVIOUS
  <2> QED
    BY <2>1 DEF WireInv, WholeInv
<1>2. MarkInv(c)'
  BY DEF WireInv, MarkInv
<1>3. BegunInv(c) /\ frames'[c] = frames[c] => BegunInv(c)'
  BY DEF BegunInv
<1>4. HandInv(c)'
  BY <1>3 DEF WireInv, HandInv
<1> QED
  BY <1>1, <1>2, <1>4 DEF WireInv

(* The messages sent whole stay so when there are more frames behind them. *)
LEMMA MarkLonger ==
  ASSUME SessionTypeOK, NEW c \in Conn, MarkInv(c), NEW f \in Frame,
         Line(c)' = Append(Line(c), f),
         IsData(f) => (f.op = "cont" <=> Continues(Line(c), Len(Line(c)) + 1))
  PROVE  MarkInv(c)'
<1> DEFINE fs == Line(c)
           gs == Line(c)'
           n == Len(fs)
<1>1. fs \in Seq(Frame) /\ gs = Append(fs, f)
  BY LineType
<1> HIDE DEF fs, gs
<1>2. /\ n \in Nat /\ gs[n + 1] = f /\ DOMAIN fs = 1..n /\ DOMAIN gs = 1..(n + 1)
      /\ \A i \in 1..n : gs[i] = fs[i]
  BY <1>1, Longer
<1>3. \A i \in 1..(n + 1) : Continues(gs, i) <=> Continues(fs, i)
  BY <1>1, ContinuesLonger
<1>4. \A i \in 1..n : IsData(fs[i]) => (fs[i].op = "cont" <=> Continues(fs, i))
  BY <1>2 DEF MarkInv, fs
<1>5. IsData(f) => (f.op = "cont" <=> Continues(fs, n + 1))
  BY DEF fs
<1>6. \A i \in 1..(n + 1) : i \in 1..n \/ i = n + 1
  BY <1>2
<1>7. \A i \in 1..(n + 1) : IsData(gs[i]) => (gs[i].op = "cont" <=> Continues(gs, i))
  <2> SUFFICES ASSUME NEW i \in 1..(n + 1), IsData(gs[i])
               PROVE  gs[i].op = "cont" <=> Continues(gs, i)
    OBVIOUS
  <2>1. CASE i = n + 1
    BY <1>2, <1>3, <1>5, <2>1
  <2>2. CASE i \in 1..n
    BY <1>2, <1>3, <1>4, <2>2
  <2> QED
    BY <1>6, <2>1, <2>2
<1> QED
  BY <1>2, <1>7 DEF MarkInv, gs

(* A control frame is written. *)
LEMMA WireControl ==
  ASSUME SessionTypeOK, NEW c \in Conn, WireInv(c), NEW f \in Frame, f.op \in Control,
         Line(c)' = Append(Line(c), f), taken'[Other(c)] = taken[Other(c)],
         wpc'[c] = wpc[c], frames'[c] = frames[c],
         writeErr'[c] = writeErr[c] \/ writeErr'[c] # "nil"
  PROVE  WireInv(c)'
<1> DEFINE fs == Line(c)
           gs == Line(c)'
           n == Len(fs)
           read == taken[Other(c)]
<1>1. fs \in Seq(Frame) /\ gs = Append(fs, f) /\ ~IsData(f)
  BY LineType DEF IsData
<1> HIDE DEF fs, gs
<1>2. /\ n \in Nat /\ Len(gs) = n + 1 /\ Ends(fs) \subseteq 1..n /\ n + 1 \notin Ends(fs)
  BY <1>1, Longer, EndsInside
<1>3. Ends(gs) = Ends(fs)
  <2>1. Ends(gs) = Ends(fs) \cup (IF IsData(f) /\ f.fin THEN {n + 1} ELSE {})
    BY <1>1, EndsLonger
  <2> QED
    BY <1>1, <2>1
<1>4. \A i \in 1..n : \A b \in 1..i : \A m, k : Carries(fs, b, i, m, k) => Carries(gs, b, i, m, k)
  BY <1>1, CarriesLonger
<1>5. WholeInv(c)'
  <2>1. PICK of \in [Ends(fs) -> DOMAIN read] :
       /\ \A i \in Ends(fs) :
            \E b \in 1..i : Carries(fs, b, i, read[of[i]], Len(read[of[i]].load))
       /\ \A i, j \in Ends(fs) : i < j => of[i] < of[j]
       /\ wpc[c] # "idle" => \A i \in Ends(fs) : of[i] < Len(read)
    BY DEF WireInv, WholeInv, fs
  <2>2. \A i \in Ends(gs) :
            \E b \in 1..i : Carries(gs, b, i, read[of[i]], Len(read[of[i]].load))
    BY <1>2, <1>3, <1>4, <2>1
  <2>3. /\ of \in [Ends(gs) -> DOMAIN read]
        /\ \A i, j \in Ends(gs) : i < j => of[i] < of[j]
        /\ wpc[c] # "idle" => \A i \in Ends(gs) : of[i] < Len(read)
    BY <1>3, <2>1
  <2> QED
    BY <2>2, <2>3 DEF WholeInv, gs
<1>6. MarkInv(c)'
  BY <1>1, MarkLonger DEF WireInv, fs
<1>7. Continues(gs, Len(gs) + 1) <=> Continues(fs, n + 1)
  BY <1>1, ContinuesNext, Zenon
<1>8. BegunInv(c) => BegunInv(c)'
  <2> SUFFICES ASSUME BegunInv(c) PROVE BegunInv(c)'
    OBVIOUS
  <2> DEFINE m == read[Len(read)]
             all == FramesOf(c, m.op, m.load)
  <2>1. PICK k \in 0..Len(all) - 1 :
       /\ Len(frames[c]) = Len(all) - k
       /\ \A i \in 1..Len(frames[c]) : frames[c][i] = all[k + i]
       /\ Continues(fs, n + 1) <=> k > 0
       /\ k > 0 => /\ n \notin Ends(fs)
                   /\ \E b \in 1..n : Carries(fs, b, n, m, k * WriteBuf)
    BY DEF BegunInv, fs
  <2> HIDE DEF all
  <2>2. k > 0 => /\ Len(gs) \notin Ends(gs)
                 /\ \E b \in 1..Len(gs) : Carries(gs, b, Len(gs), m, k * WriteBuf)
    <3> SUFFICES ASSUME k > 0 PROVE \E b \in 1..Len(gs) : Carries(gs, b, Len(gs), m, k * WriteBuf)
      BY <1>2, <1>3
    <3>1. PICK b \in 1..n : Carries(fs, b, n, m, k * WriteBuf)
      BY <2>1
    <3>2. k \in Nat /\ WriteBuf \in Nat
      BY WsConnAssumption
    <3>3. k * WriteBuf \in Nat /\ k * WriteBuf <= k * WriteBuf
      BY <3>2
    <3> HIDE DEF m
    <3> DEFINE p == k * WriteBuf
    <3>4. p \in Nat /\ p <= p /\ Carries(fs, b, n, m, p)
      BY <3>1, <3>3
    <3> HIDE DEF p
    <3>5. Carries(gs, b, Len(gs), m, p)
      BY <1>1, <2>1, <3>4, CarriesMore
    <3>6. b \in 1..Len(gs)
      BY <1>2
    <3> QED
      BY <3>5, <3>6 DEF p
  <2> QED
    BY <1>7, <2>1, <2>2 DEF BegunInv, gs, all
<1>9. HandInv(c)'
  BY <1>7, <1>8 DEF WireInv, HandInv, fs, gs
<1> QED
  BY <1>5, <1>6, <1>9 DEF WireInv

(* A message is taken from the other connection; its frames are put        *)
(* together, or it is not passed on.                                       *)
LEMMA WireTaken ==
  ASSUME SessionTypeOK, NEW c \in Conn, WireInv(c), NEW m \in Message,
         taken'[Other(c)] = Append(taken[Other(c)], m),
         Line(c)' = Line(c), wpc[c] = "idle", writeErr'[c] = writeErr[c],
         \/ wpc'[c] = "idle"
         \/ wpc'[c] # "idle" /\ writeErr[c] = "nil" /\ frames'[c] = FramesOf(c, m.op, m.load)
  PROVE  WireInv(c)'
<1> DEFINE fs == Line(c)
           read == taken[Other(c)]
           read2 == taken'[Other(c)]
<1>1. /\ fs \in Seq(Frame) /\ read \in Seq(Message) /\ read2 = Append(read, m)
      /\ Len(read) \in Nat /\ DOMAIN read = 1..Len(read)
  BY LineType
<1>2. /\ Len(read2) = Len(read) + 1 /\ read2[Len(read) + 1] = m
      /\ DOMAIN read2 = 1..(Len(read) + 1)
      /\ \A i \in 1..Len(read) : read2[i] = read[i]
  BY <1>1
<1> HIDE DEF fs, read, read2
<1>3. WholeInv(c)'
  <2>1. PICK of \in [Ends(fs) -> DOMAIN read] :
       /\ \A i \in Ends(fs) :
            \E b \in 1..i : Carries(fs, b, i, read[of[i]], Len(read[of[i]].load))
       /\ \A i, j \in Ends(fs) : i < j => of[i] < of[j]
    BY DEF WireInv, WholeInv, fs, read
  <2>2. \A i \in Ends(fs) : of[i] \in 1..Len(read) /\ of[i] \in DOMAIN read2 /\ of[i] < Len(read2)
                            /\ read2[of[i]] = read[of[i]]
    BY <1>1, <1>2, <2>1
  <2>3. of \in [Ends(fs) -> DOMAIN read2]
    BY <2>1, <2>2
  <2>4. \A i \in Ends(fs) :
            \E b \in 1..i : Carries(fs, b, i, read2[of[i]], Len(read2[of[i]].load))
    BY <2>1, <2>2
  <2> QED
    BY <2>1, <2>2, <2>3, <2>4 DEF WholeInv, fs, read2
<1>4. MarkInv(c)'
  BY DEF WireInv, MarkInv
<1>5. ASSUME wpc'[c] # "idle" PROVE BegunInv(c)'
  <2> DEFINE all == FramesOf(c, m.op, m.load)
  <2>1. frames'[c] = all /\ writeErr[c] = "nil"
    BY <1>5
  <2>2. Len(all) \in Nat \ {0}
    BY FramesCut
  <2>3. read2[Len(read2)] = m
    BY <1>2
  <2>4. ~Continues(fs, Len(fs) + 1)
    BY <2>1 DEF WireInv, HandInv, fs
  <2> HIDE DEF all
  <2>5. 0 \in 0..Len(all) - 1 /\ Len(all) = Len(all) - 0 /\ \A i \in 1..Len(all) : all[i] = all[0 + i]
    BY <2>2
  <2>6. FramesOf(c, read2[Len(read2)].op, read2[Len(read2)].load) = all
    BY <2>3 DEF all
  <2>7. ~(0 > 0) /\ fs = Line(c)'
    BY DEF fs
  <2>8. \E k \in 0..Len(all) - 1 :
          /\ Len(frames'[c]) = Len(all) - k
          /\ \A i \in 1..Len(frames'[c]) : frames'[c][i] = all[k + i]
          /\ Continues(fs, Len(fs) + 1) <=> k > 0
          /\ k > 0 => /\ Len(fs) \notin Ends(fs)
                      /\ \E b \in 1..Len(fs) : Carries(fs, b, Len(fs), m, k * WriteBuf)
    BY <2>1, <2>4, <2>5, <2>7
  <2> QED
    BY <2>3, <2>6, <2>7, <2>8 DEF BegunInv, read2
<1>6. HandInv(c)'
  BY <1>5 DEF WireInv, HandInv
<1> QED
  BY <1>3, <1>4, <1>6 DEF WireInv

(* The next frame of the message in hand is written. *)
LEMMA WireFlush ==
  ASSUME SessionTypeOK, NEW c \in Conn, WireInv(c), wpc[c] # "idle", taken[Other(c)] # <<>>,
         taken'[Other(c)] = taken[Other(c)],
         Line(c)' = Append(Line(c), Head(frames[c])), frames'[c] = Tail(frames[c]),
         wpc'[c] = IF Tail(frames[c]) = <<>> THEN "idle" ELSE "lock"
  PROVE  WireInv(c)'
<1> DEFINE fs == Line(c)
           gs == Line(c)'
           f == Head(frames[c])
           n == Len(fs)
           read == taken[Other(c)]
           m == read[Len(read)]
           all == FramesOf(c, m.op, m.load)
           N == Len(all)
           l == Len(m.load)
<1>1. /\ fs \in Seq(Frame) /\ gs = Append(fs, f)
      /\ read \in Seq(Message) /\ Len(read) \in Nat /\ DOMAIN read = 1..Len(read)
  BY LineType
<1>2. Len(read) \in DOMAIN read /\ m \in Message
  BY <1>1
<1>m. m.op \in Data /\ m.load \in Seq(Unit) /\ l \in Nat /\ WriteBuf \in Nat \ {0}
  BY <1>2, WsConnAssumption, LenProperties DEF Message
<1>3. PICK k \in 0..N - 1 :
       /\ Len(frames[c]) = N - k
       /\ \A i \in 1..Len(frames[c]) : frames[c][i] = all[k + i]
       /\ Continues(fs, n + 1) <=> k > 0
       /\ k > 0 => /\ n \notin Ends(fs)
                   /\ \E b \in 1..n : Carries(fs, b, n, m, k * WriteBuf)
  BY DEF WireInv, HandInv, BegunInv
<1> DEFINE from == k * WriteBuf
           to == IF k + 1 = N THEN l ELSE (k + 1) * WriteBuf
<1>4. N \in Nat \ {0} /\ k \in Nat /\ k < N /\ k + 1 \in 1..N
  BY <1>3, <1>2, FramesCut
<1>5. /\ all[k + 1].op = (IF k = 0 THEN m.op ELSE "cont")
      /\ all[k + 1].fin <=> k + 1 = N
      /\ from <= to /\ to <= l /\ from \in Nat
      /\ all[k + 1].load = SubSeq(m.load, from + 1, to)
  <2> HIDE DEF all, N, l
  <2> DEFINE g(i) == LET start == (i - 1) * WriteBuf
                         end == IF i = N THEN l ELSE i * WriteBuf
                     IN start <= end /\ end <= l /\ start \in Nat
                        /\ all[i].load = SubSeq(m.load, start + 1, end)
  <2>1. \A i \in 1..N : /\ all[i].op = (IF i = 1 THEN m.op ELSE "cont")
                        /\ all[i].fin <=> i = N
                        /\ g(i)
    <3>1. CutInv(m, all)
      BY <1>2, FramesCut DEF all
    <3> QED
      BY <3>1 DEF CutInv, N, l
  <2>2. k + 1 - 1 = k /\ (k + 1 = 1 <=> k = 0)
    BY <1>4
  <2>3. g(k + 1)
    BY <1>4, <2>1
  <2>4. /\ all[k + 1].op = (IF k + 1 = 1 THEN m.op ELSE "cont")
        /\ all[k + 1].fin <=> k + 1 = N
    BY <1>4, <2>1
  <2> QED
    BY <2>2, <2>3, <2>4
<1>6. frames[c] \in Seq(Frame)
  BY DEF SessionTypeOK
<1>7. /\ f = all[k + 1] /\ f \in Frame
      /\ Len(Tail(frames[c])) = N - (k + 1)
      /\ Tail(frames[c]) = <<>> <=> k + 1 = N
      /\ \A i \in 1..Len(Tail(frames[c])) : Tail(frames[c])[i] = all[(k + 1) + i]
  <2> HIDE DEF N, all
  <2>1. Len(frames[c]) \in Nat \ {0} /\ frames[c] # <<>>
    BY <1>3, <1>4, <1>6
  <2>2. f = frames[c][1] /\ f \in Frame
    BY <1>6, <2>1
  <2>3. frames[c][1] = all[k + 1]
    BY <1>3, <2>1
  <2>4. /\ Tail(frames[c]) \in Seq(Frame) /\ Len(Tail(frames[c])) = Len(frames[c]) - 1
        /\ \A i \in 1..Len(Tail(frames[c])) : Tail(frames[c])[i] = frames[c][i + 1]
    BY <1>6, <2>1, HeadTailProperties
  <2>5. Tail(frames[c]) = <<>> <=> Len(Tail(frames[c])) = 0
    BY <2>4, EmptySeq
  <2>a. Len(frames[c]) = N - k
    BY <1>3
  <2>6. Len(Tail(frames[c])) = N - (k + 1) /\ (Tail(frames[c]) = <<>> <=> k + 1 = N)
    <3>1. Len(Tail(frames[c])) = N - (k + 1)
      BY <1>4, <2>a, <2>4
    <3> QED
      BY <1>4, <2>5, <3>1
  <2>7. ASSUME NEW i \in 1..Len(Tail(frames[c])) PROVE Tail(frames[c])[i] = all[(k + 1) + i]
    <3>1. i + 1 \in 1..Len(frames[c]) /\ k + (i + 1) = (k + 1) + i
      BY <1>4, <2>1, <2>4
    <3>2. frames[c][i + 1] = all[k + (i + 1)]
      BY <1>3, <3>1
    <3> QED
      BY <2>4, <3>1, <3>2
  <2> QED
    BY <2>2, <2>3, <2>6, <2>7
<1>8. IsData(f) /\ (f.op = "cont" <=> k > 0) /\ (f.fin <=> k + 1 = N)
  <2> HIDE DEF f, all, N
  <2> QED
    BY <1>4, <1>5, <1>7, <1>m DEF IsData, Control, Data
<1>9. f.load = SubSeq(m.load, from + 1, to) /\ to \in Nat
  <2>1. (k + 1) * WriteBuf \in Nat
    BY <1>4, <1>m
  <2>2. to \in Nat
    BY <1>m, <2>1
  <2>3. f.load = all[k + 1].load
    BY <1>7
  <2> QED
    BY <1>5, <2>2, <2>3
<1>f. f \in Frame /\ gs = Append(fs, f) /\ fs \in Seq(Frame)
  BY <1>1, <1>7
<1>g. IsData(f) /\ (f.fin <=> k + 1 = N)
  BY <1>8
<1> HIDE DEF fs, gs, f, read, m, all, N, l, from, to
<1>10. n \in Nat /\ Len(gs) = n + 1 /\ Ends(fs) \subseteq 1..n /\ n + 1 \notin Ends(fs)
  BY <1>1, <1>7, Longer, EndsInside
<1>11. Ends(gs) = Ends(fs) \cup (IF k + 1 = N THEN {n + 1} ELSE {})
  <2>1. Ends(gs) = Ends(fs) \cup (IF IsData(f) /\ f.fin THEN {n + 1} ELSE {})
    BY <1>f, EndsLonger
  <2> QED
    BY <1>g, <2>1
<1>12. \A i \in 1..n : \A b \in 1..i : \A x, y : Carries(fs, b, i, x, y) => Carries(gs, b, i, x, y)
  BY <1>f, CarriesLonger
<1>13. \E b \in 1..Len(gs) : Carries(gs, b, Len(gs), m, to)
  <2>1. CASE k = 0
    <3>1. from + 1 = 1
      BY <2>1, <1>m DEF from
    <3>2. f.load = SubSeq(m.load, 1, to)
      BY <1>9, <3>1
    <3>3. f.op = m.op
      BY <1>5, <1>7, <2>1
    <3>4. Carries(gs, Len(gs), Len(gs), m, to)
      BY <1>1, <1>7, <1>8, <1>9, <3>2, <3>3, CarriesFirst
    <3>5. Len(gs) \in 1..Len(gs)
      BY <1>10
    <3> QED
      BY <3>4, <3>5
  <2>2. CASE k # 0
    <3>1. n \notin Ends(fs)
      BY <1>3, <1>4, <2>2 DEF fs
    <3>2. PICK b \in 1..n : Carries(fs, b, n, m, from)
      BY <1>3, <1>4, <2>2 DEF fs, from, m, read
    <3>3. f.op = "cont"
      BY <1>4, <1>8, <2>2
    <3>4. Carries(gs, b, Len(gs), m, to)
      BY <1>1, <1>5, <1>7, <1>8, <1>9, <3>1, <3>2, <3>3, CarriesMore
    <3>5. b \in 1..Len(gs)
      BY <1>10
    <3> QED
      BY <3>4, <3>5
  <2> QED
    BY <2>1, <2>2
<1>14. PICK of \in [Ends(fs) -> DOMAIN read] :
       /\ \A i \in Ends(fs) :
            \E b \in 1..i : Carries(fs, b, i, read[of[i]], Len(read[of[i]].load))
       /\ \A i, j \in Ends(fs) : i < j => of[i] < of[j]
       /\ \A i \in Ends(fs) : of[i] < Len(read)
  BY DEF WireInv, WholeInv, fs, read
<1>15. \A i \in Ends(fs) :
         \E b \in 1..i : Carries(gs, b, i, read[of[i]], Len(read[of[i]].load))
  BY <1>10, <1>12, <1>14
<1>16. WholeInv(c)'
  <2>1. CASE k + 1 # N
    <3>1. Ends(gs) = Ends(fs)
      BY <1>11, <2>1
    <3> QED
      BY <1>14, <1>15, <3>1 DEF WholeInv, gs, read
  <2>2. CASE k + 1 = N
    <3>1. Ends(gs) = Ends(fs) \cup {n + 1} /\ wpc'[c] = "idle"
      BY <1>7, <1>11, <2>2
    <3> DEFINE new == [i \in Ends(gs) |-> IF i = n + 1 THEN Len(read) ELSE of[i]]
    <3>2. new \in [Ends(gs) -> DOMAIN read]
      BY <1>2, <1>14, <3>1 DEF read
    <3>3. new[n + 1] = Len(read) /\ \A i \in Ends(fs) : new[i] = of[i] /\ i < n + 1
      BY <1>10, <3>1
    <3> HIDE DEF new
    <3>4. ASSUME NEW i \in Ends(gs)
          PROVE  \E b \in 1..i : Carries(gs, b, i, read[new[i]], Len(read[new[i]].load))
      <4>1. CASE i = n + 1
        <5>1. to = l /\ read[new[i]] = m
          BY <2>2, <3>3, <4>1 DEF to, m
        <5> QED
          BY <1>10, <1>13, <4>1, <5>1 DEF l
      <4>2. CASE i # n + 1
        BY <1>15, <3>1, <3>3, <4>2
      <4> QED
        BY <4>1, <4>2
    <3>5. ASSUME NEW i \in Ends(gs), NEW j \in Ends(gs), i < j PROVE new[i] < new[j]
      <4>1. CASE j = n + 1
        <5>1. i \in Ends(fs)
          BY <1>10, <3>1, <3>5, <4>1
        <5> QED
          BY <1>14, <3>3, <4>1, <5>1
      <4>2. CASE j # n + 1
        <5>1. j \in Ends(fs) /\ j \in 1..n
          BY <1>10, <3>1, <4>2
        <5>2. i \in Ends(fs)
          BY <1>10, <3>1, <3>5, <5>1
        <5> QED
          BY <1>14, <3>3, <3>5, <5>1, <5>2
      <4> QED
        BY <4>1, <4>2
    <3> QED
      BY <3>1, <3>2, <3>4, <3>5 DEF WholeInv, gs, read
  <2> QED
    BY <2>1, <2>2
<1>17. MarkInv(c)'
  BY <1>1, <1>3, <1>7, <1>8, MarkLonger DEF WireInv, fs, gs
<1>18. Continues(gs, Len(gs) + 1) <=> k + 1 # N
  <2>1. Continues(gs, Len(gs) + 1) <=> IF IsData(f) THEN ~f.fin ELSE Continues(fs, n + 1)
    BY <1>f, ContinuesNext
  <2> QED
    BY <1>g, <2>1
<1>19. ASSUME k + 1 # N PROVE BegunInv(c)'
  <2>1. k + 1 \in 0..N - 1 /\ k + 1 > 0
    BY <1>4, <1>19
  <2>2. to = (k + 1) * WriteBuf
    BY <1>19 DEF to
  <2>3. Len(gs) \notin Ends(gs)
    BY <1>10, <1>11, <1>19
  <2>4. \E b \in 1..Len(gs) : Carries(gs, b, Len(gs), m, (k + 1) * WriteBuf)
    BY <1>13, <2>2
  <2> QED
    BY <1>7, <1>18, <1>19, <2>1, <2>3, <2>4 DEF BegunInv, gs, m, read, all, N
<1>20. HandInv(c)'
  BY <1>7, <1>18, <1>19 DEF HandInv, gs
<1> QED
  BY <1>16, <1>17, <1>20 DEF WireInv

-----------------------------------------------------------------------------
(* The steps of the endpoints, the handler and the goroutines. *)

(* A frame is put on the wire; the endpoint receives one. *)
LEMMA LineAppend ==
  ASSUME SessionTypeOK, NEW c \in Conn, NEW f \in Frame,
         received'[c] = received[c], out'[c] = Append(out[c], f)
  PROVE  Line(c)' = Append(Line(c), f)
<1> DEFINE s == received[c]
           t == out[c]
<1>1. s \in Seq(Frame) /\ t \in Seq(Frame)
  BY DEF SessionTypeOK
<1> HIDE DEF s, t
<1>2. s \o Append(t, f) = Append(s \o t, f)
  BY <1>1, QueueAppend
<1> QED
  BY <1>2 DEF Line, s, t

(* A frame that the network delivers is written still.                     *)
LEMMA LineMove ==
  ASSUME SessionTypeOK, NEW c \in Conn, out[c] # <<>>,
         received'[c] = Append(received[c], Head(out[c])), out'[c] = Tail(out[c])
  PROVE  Line(c)' = Line(c)
<1> DEFINE s == received[c]
           t == out[c]
<1>1. s \in Seq(Frame) /\ t \in Seq(Frame) /\ t # <<>>
  BY DEF SessionTypeOK
<1>2. received'[c] = Append(s, Head(t)) /\ out'[c] = Tail(t)
  OBVIOUS
<1> HIDE DEF s, t
<1>3. Append(s, Head(t)) \o Tail(t) = s \o t
  BY <1>1, QueueShift
<1> QED
  BY <1>2, <1>3 DEF Line, s, t

(* A control frame is a frame, of its own type.                            *)
LEMMA ControlFrameType ==
  ASSUME NEW c \in Conn, NEW op \in Control
  PROVE  ControlFrame(c, op) \in Frame /\ ControlFrame(c, op).op = op
<1>1. <<>> \in Seq(Unit)
  BY EmptySeq
<1>2. op \in Kind
  BY DEF Control, Kind
<1>3. (~IsServer[c]) \in BOOLEAN
  OBVIOUS
<1>4. [op |-> op, fin |-> TRUE, mask |-> ~IsServer[c], valid |-> TRUE, load |-> <<>>] \in Frame
  BY <1>1, <1>2, <1>3 DEF Frame
<1> QED
  BY <1>4 DEF ControlFrame

(* A session starts with nothing written, read or in hand.                 *)
LEMMA SessionStarts == WsInit => SessionIInv
<1> SUFFICES ASSUME WsInit PROVE SessionIInv
  OBVIOUS
<1> USE DEF WsInit, ConnInit
<1>0. <<>> \in Seq(Frame) /\ <<>> \in Seq(Message) /\ <<>> \in Seq(Unit)
  BY EmptySeq
<1>1. SessionTypeOK
  <2>1. todo \in [Conn -> Seq(Frame)]
    BY WsRelayAssumption
  <2>2. partial \in [Conn -> [op : Data \cup {"none"}, load : Seq(Unit)]]
    BY <1>0 DEF NoMessage
  <2>3. kop \in [Conn -> [Who -> Control]]
    BY DEF Control
  <2> QED
    BY <1>0, <2>1, <2>2, <2>3 DEF SessionTypeOK
<1>2. PumpInv
  BY Others DEF PumpInv, Who
<1>3. ASSUME NEW c \in Conn PROVE WireInv(c)
  <2>1. Line(c) = <<>> /\ Len(Line(c)) = 0 /\ DOMAIN Line(c) = {}
    <3>1. Line(c) = <<>>
      BY <1>0, ConcatEmptySeq DEF Line
    <3> QED
      BY <3>1
  <2>2. Ends(Line(c)) = {}
    BY <2>1 DEF Ends
  <2>3. WholeInv(c)
    <3> DEFINE of == [i \in {} |-> 0]
    <3>1. of \in [Ends(Line(c)) -> DOMAIN taken[Other(c)]]
      BY <2>2
    <3> QED
      BY <2>2, <3>1 DEF WholeInv
  <2>4. MarkInv(c)
    BY <2>1 DEF MarkInv
  <2>5. ~Continues(Line(c), Len(Line(c)) + 1)
    <3> DEFINE fs == Line(c)
           n == Len(fs)
    <3>1. n = 0 /\ n \in Nat
      BY <2>1
    <3> HIDE DEF fs, n
    <3>2. Continues(fs, n + 1) <=>
            \E j \in 1..n : IsData(fs[j]) /\ ~fs[j].fin /\ \A k \in j + 1..n : ~IsData(fs[k])
      BY <3>1, ContinuesIs
    <3>3. ~Continues(fs, n + 1)
      BY <3>1, <3>2
    <3> QED
      BY <3>3 DEF fs, n
  <2>6. wpc[c] = "idle"
    OBVIOUS
  <2> QED
    BY <2>3, <2>4, <2>5, <2>6 DEF WireInv, HandInv
<1> QED
  BY <1>1, <1>2, <1>3 DEF SessionIInv

(* Steps that write no frame and take no message. *)
LEMMA WiresSame ==
  ASSUME SessionIInv, UNCHANGED <<received, out, taken, wpc, frames, writeErr>>
  PROVE  \A c \in Conn : WireInv(c)'
<1> SUFFICES ASSUME NEW c \in Conn PROVE WireInv(c)'
  OBVIOUS
<1>1. Line(c)' = Line(c)
  BY DEF Line
<1> QED
  BY <1>1, WireSame DEF SessionIInv

(* handleWsRequest itself touches neither messages nor frames. *)
LEMMA HandlerStep ==
  ASSUME SessionIInv, Handler
  PROVE  SessionIInv'
<1>1. UNCHANGED <<in, out, todo, received, frames, taken, wpc, writeErr, rpc, readErr, pending, readFinal, partial,
                  kpc, kop, pump>>
  BY DEF Handler, ReceiveStop, CloseTarget, CloseBrowser, CloseConn, connVars, writerVars,
         readerVars, controlVars
<1>2. SessionTypeOK' /\ PumpInv'
  BY <1>1 DEF SessionIInv, SessionTypeOK, PumpInv
<1> QED
  BY <1>1, <1>2, WiresSame DEF SessionIInv

(* The endpoints only move frames between the network and themselves. *)
LEMMA EndpointStep ==
  ASSUME SessionIInv, NEW c \in Conn, EndpointSend(c) \/ EndpointReceive(c) \/ EndpointClose(c)
  PROVE  SessionIInv'
<1>1. UNCHANGED <<frames, taken, wpc, writeErr, rpc, readErr, pending, readFinal, partial, kpc, kop, pump>>
  BY DEF EndpointSend, EndpointReceive, EndpointClose, writerVars, readerVars, controlVars
<1>2. PumpInv'
  BY <1>1 DEF SessionIInv, PumpInv
<1>3. CASE EndpointSend(c)
  <2>1. /\ todo[c] # <<>> /\ in' = [in EXCEPT ![c] = Append(@, Head(todo[c]))]
        /\ todo' = [todo EXCEPT ![c] = Tail(@)] /\ UNCHANGED <<out, received>>
    BY <1>3 DEF EndpointSend
  <2>2. in[c] \in Seq(Frame) /\ todo[c] \in Seq(Frame)
    BY DEF SessionIInv, SessionTypeOK
  <2>3. Append(in[c], Head(todo[c])) \in Seq(Frame) /\ Tail(todo[c]) \in Seq(Frame)
    BY <2>1, <2>2, HeadTailProperties, AppendProperties
  <2>4. SessionTypeOK'
    BY <1>1, <2>1, <2>3 DEF SessionIInv, SessionTypeOK
  <2> QED
    BY <1>1, <1>2, <2>1, <2>4, WiresSame DEF SessionIInv
<1>4. CASE EndpointReceive(c)
  <2>1. /\ out[c] # <<>> /\ received' = [received EXCEPT ![c] = Append(@, Head(out[c]))]
        /\ out' = [out EXCEPT ![c] = Tail(@)] /\ UNCHANGED <<in, todo>>
    BY <1>4 DEF EndpointReceive
  <2>2. received[c] \in Seq(Frame) /\ out[c] \in Seq(Frame)
    BY DEF SessionIInv, SessionTypeOK
  <2>3. Append(received[c], Head(out[c])) \in Seq(Frame) /\ Tail(out[c]) \in Seq(Frame)
    BY <2>1, <2>2, HeadTailProperties, AppendProperties
  <2>4. SessionTypeOK'
    BY <1>1, <2>1, <2>3 DEF SessionIInv, SessionTypeOK
  <2>5. ASSUME NEW d \in Conn PROVE WireInv(d)'
    <3>1. CASE d = c
      <4>1. received'[c] = Append(received[c], Head(out[c])) /\ out'[c] = Tail(out[c])
        BY <2>1 DEF SessionIInv, SessionTypeOK
      <4>2. Line(c)' = Line(c)
        BY <2>1, <4>1, LineMove DEF SessionIInv
      <4> QED
        BY <1>1, <3>1, <4>2, WireSame DEF SessionIInv
    <3>2. CASE d # c
      <4>1. received'[d] = received[d] /\ out'[d] = out[d]
        BY <2>1, <3>2 DEF SessionIInv, SessionTypeOK
      <4>2. Line(d)' = Line(d)
        BY <4>1 DEF Line
      <4> QED
        BY <1>1, <4>2, WireSame DEF SessionIInv
    <3> QED
      BY <3>1, <3>2
  <2> QED
    BY <1>2, <2>4, <2>5 DEF SessionIInv
<1>5. CASE EndpointClose(c)
  <2>1. todo' = [todo EXCEPT ![c] = <<>>] /\ UNCHANGED <<in, out, received>>
    BY <1>5 DEF EndpointClose
  <2>2. <<>> \in Seq(Frame)
    BY EmptySeq
  <2>3. SessionTypeOK'
    BY <1>1, <2>1, <2>2 DEF SessionIInv, SessionTypeOK
  <2> QED
    BY <1>1, <1>2, <2>1, <2>3, WiresSame DEF SessionIInv
<1> QED
  BY <1>3, <1>4, <1>5

(* The next ReadMessage. *)
LEMMA ReadNextFacts ==
  ASSUME SessionIInv, NEW c \in Conn, ReadNext(c)
  PROVE  /\ UNCHANGED <<in, out, wpc, frames, writeErr, readErr, pending, readFinal, kpc, kop>>
         /\ rpc' = [rpc EXCEPT ![c] = "next"] /\ partial' = [partial EXCEPT ![c] = NoMessage]
         /\ rpc' \in [Conn -> {"next", "answer", "message", "failed"}]
         /\ partial' \in [Conn -> [op : Data \cup {"none"}, load : Seq(Unit)]]
<1>1. /\ UNCHANGED <<in, out, wpc, frames, writeErr, readErr, pending, readFinal, kpc, kop>>
      /\ rpc' = [rpc EXCEPT ![c] = "next"] /\ partial' = [partial EXCEPT ![c] = NoMessage]
  BY DEF ReadNext, netVars, writerVars, controlVars
<1>2. NoMessage \in [op : Data \cup {"none"}, load : Seq(Unit)]
  BY EmptySeq DEF NoMessage
<1> QED
  BY <1>1, <1>2 DEF SessionIInv, SessionTypeOK

(* A message is passed on, or kept by the handler. *)
LEMMA TakenStep ==
  ASSUME SessionIInv, NEW c \in Conn, pump[c] = "read", rpc[c] = "message",
         taken' = [taken EXCEPT ![c] = Append(@, partial[c])],
         UNCHANGED <<received, out, writeErr>>,
         \/ UNCHANGED <<wpc, frames>>
         \/ /\ writeErr[Other(c)] = "nil"
            /\ frames' = [frames EXCEPT ![Other(c)] = FramesOf(Other(c), partial[c].op, partial[c].load)]
            /\ wpc' = [wpc EXCEPT ![Other(c)] = "lock"]
  PROVE  /\ taken' \in [Conn -> Seq(Message)] /\ taken'[c] # <<>>
         /\ \A d \in Conn : d # c => taken'[d] = taken[d]
         /\ frames' \in [Conn -> Seq(Frame)]
         /\ wpc' \in [Conn -> {"idle", "lock", "write"}]
         /\ wpc[Other(c)] = "idle" /\ wpc'[c] = wpc[c]
         /\ \A d \in Conn : WireInv(d)'
<1> USE DEF SessionIInv
<1>1. partial[c] \in Message
  <2>1. partial[c].op \in Data
    BY DEF PumpInv
  <2>2. partial[c] \in [op : Data \cup {"none"}, load : Seq(Unit)]
    BY DEF SessionTypeOK
  <2> QED
    BY <2>1, <2>2 DEF Message
<1>2. taken[c] \in Seq(Message)
  BY DEF SessionTypeOK
<1>3. Append(taken[c], partial[c]) \in Seq(Message) /\ Append(taken[c], partial[c]) # <<>>
  BY <1>1, <1>2
<1>4. /\ taken' \in [Conn -> Seq(Message)] /\ taken'[c] = Append(taken[c], partial[c])
      /\ \A d \in Conn : d # c => taken'[d] = taken[d]
  BY <1>3 DEF SessionTypeOK
<1>5. /\ Other(c) \in Conn /\ Other(c) # c /\ Other(Other(c)) = c
      /\ \A d \in Conn : d = c \/ d = Other(c)
  BY Others
<1>6. FramesOf(Other(c), partial[c].op, partial[c].load) \in Seq(Frame)
  BY <1>1, <1>5, FramesCut
<1>7. /\ frames' \in [Conn -> Seq(Frame)]
      /\ wpc' \in [Conn -> {"idle", "lock", "write"}]
      /\ wpc'[c] = wpc[c] /\ frames'[c] = frames[c]
  <2> DEFINE all == FramesOf(Other(c), partial[c].op, partial[c].load)
  <2> HIDE DEF all
  <2>1. CASE UNCHANGED <<wpc, frames>>
    BY <2>1 DEF SessionTypeOK
  <2>2. CASE /\ frames' = [frames EXCEPT ![Other(c)] = all]
             /\ wpc' = [wpc EXCEPT ![Other(c)] = "lock"]
    <3>1. all \in Seq(Frame)
      BY <1>6 DEF all
    <3> QED
      BY <1>5, <2>2, <3>1 DEF SessionTypeOK
  <2> QED
    BY <2>1, <2>2 DEF all
<1>8. wpc[Other(c)] = "idle"
  BY DEF PumpInv
<1>9. WireInv(c)'
  <2>1. Line(c)' = Line(c)
    BY DEF Line
  <2>2. taken'[Other(c)] = taken[Other(c)]
    BY <1>4, <1>5
  <2> QED
    BY <1>7, <2>1, <2>2, WireSame
<1>10. WireInv(Other(c))'
  <2> DEFINE d == Other(c)
  <2>1. d \in Conn /\ Line(d)' = Line(d) /\ writeErr'[d] = writeErr[d] /\ wpc[d] = "idle"
    BY <1>5, <1>8 DEF Line
  <2>2. taken'[Other(d)] = Append(taken[Other(d)], partial[c])
    BY <1>4, <1>5
  <2>3. \/ wpc'[d] = "idle"
        \/ /\ wpc'[d] # "idle" /\ writeErr[d] = "nil"
           /\ frames'[d] = FramesOf(d, partial[c].op, partial[c].load)
    BY <1>5, <1>8 DEF SessionTypeOK
  <2> QED
    BY <1>1, <2>1, <2>2, <2>3, WireTaken
<1> QED
  BY <1>3, <1>4, <1>5, <1>7, <1>8, <1>9, <1>10

(* The goroutine that reads a connection: one step per place of its loop. *)
LEMMA PumpStep ==
  ASSUME SessionIInv, NEW c \in Conn, Pump(c)
  PROVE  SessionIInv'
<1> USE DEF SessionIInv
<1>o. /\ Other(c) \in Conn /\ Other(c) # c /\ Other(Other(c)) = c
      /\ \A d \in Conn : d = c \/ d = Other(c)
  BY Others
<1>1. CASE ReadFailed(c)
  <2>1. /\ pump[c] = "read" /\ rpc[c] = "failed" /\ pump' = [pump EXCEPT ![c] = "signal"]
        /\ UNCHANGED <<in, out, todo, received, frames, taken, wpc, writeErr, rpc, readErr, pending, readFinal,
                       partial, kpc, kop>>
    BY <1>1 DEF ReadFailed, connVars
  <2>2. SessionTypeOK'
    BY <2>1 DEF SessionTypeOK
  <2>4. pump'[c] = "signal" /\ \A d \in Conn : d # c => pump'[d] = pump[d]
    BY <2>1 DEF SessionTypeOK
  <2>3. PumpInv'
    BY <1>o, <2>1, <2>4 DEF PumpInv
  <2> QED
    BY <2>1, <2>2, <2>3, WiresSame
<1>2. CASE Forward(c)
  <2>1. /\ pump[c] = "read" /\ rpc[c] = "message" /\ pump' = [pump EXCEPT ![c] = "write"]
        /\ taken' = [taken EXCEPT ![c] = Append(@, partial[c])]
        /\ UNCHANGED <<in, out, todo, received, writeErr, rpc, readErr, pending, readFinal, partial, kpc, kop>>
        /\ \/ UNCHANGED <<wpc, frames>>
           \/ /\ writeErr[Other(c)] = "nil"
              /\ frames' = [frames EXCEPT ![Other(c)] =
                              FramesOf(Other(c), partial[c].op, partial[c].load)]
              /\ wpc' = [wpc EXCEPT ![Other(c)] = "lock"]
    BY <1>2 DEF Forward, WriteMessage, netVars, readerVars, controlVars
  <2>2. /\ taken' \in [Conn -> Seq(Message)] /\ taken'[c] # <<>>
        /\ \A d \in Conn : d # c => taken'[d] = taken[d]
        /\ frames' \in [Conn -> Seq(Frame)]
        /\ wpc' \in [Conn -> {"idle", "lock", "write"}]
        /\ wpc[Other(c)] = "idle" /\ wpc'[c] = wpc[c]
        /\ \A d \in Conn : WireInv(d)'
    BY <2>1, TakenStep
  <2>3. SessionTypeOK'
    BY <2>1, <2>2 DEF SessionTypeOK
  <2>4. /\ pump'[c] = "write" /\ \A d \in Conn : d # c => pump'[d] = pump[d]
    BY <2>1 DEF SessionTypeOK
  <2>5. PumpInv'
    BY <1>o, <2>1, <2>2, <2>4 DEF PumpInv
  <2> QED
    BY <2>2, <2>3, <2>5
<1>3. CASE Keep(c)
  <2>1. /\ pump[c] = "read" /\ rpc[c] = "message"
        /\ taken' = [taken EXCEPT ![c] = Append(@, partial[c])]
        /\ UNCHANGED <<todo, received>>
        /\ \/ ReadNext(c) /\ UNCHANGED pump
           \/ pump' = [pump EXCEPT ![c] = "signal"] /\ UNCHANGED connVars
    BY <1>3 DEF Keep
  <2>2. CASE ReadNext(c) /\ UNCHANGED pump
    <3>1. /\ UNCHANGED <<in, out, wpc, frames, writeErr, readErr, pending, readFinal, kpc, kop>>
          /\ rpc' = [rpc EXCEPT ![c] = "next"] /\ partial' = [partial EXCEPT ![c] = NoMessage]
          /\ rpc' \in [Conn -> {"next", "answer", "message", "failed"}]
          /\ partial' \in [Conn -> [op : Data \cup {"none"}, load : Seq(Unit)]]
      BY <2>2, ReadNextFacts
    <3>2. /\ taken' \in [Conn -> Seq(Message)] /\ taken'[c] # <<>>
          /\ \A d \in Conn : d # c => taken'[d] = taken[d]
          /\ \A d \in Conn : WireInv(d)'
      BY <2>1, <3>1, TakenStep
    <3>3. SessionTypeOK'
      BY <2>1, <2>2, <3>1, <3>2 DEF SessionTypeOK
    <3>4. /\ rpc'[c] = "next"
          /\ \A d \in Conn : d # c => rpc'[d] = rpc[d] /\ partial'[d] = partial[d]
      BY <3>1 DEF SessionTypeOK
    <3>5. PumpInv'
      BY <1>o, <2>1, <2>2, <3>1, <3>2, <3>4 DEF PumpInv
    <3> QED
      BY <3>2, <3>3, <3>5
  <2>3. CASE pump' = [pump EXCEPT ![c] = "signal"] /\ UNCHANGED connVars
    <3>1. UNCHANGED <<in, out, wpc, frames, writeErr, rpc, partial, readErr, pending, readFinal, kpc, kop>>
      BY <2>3 DEF connVars
    <3>2. /\ taken' \in [Conn -> Seq(Message)] /\ taken'[c] # <<>>
          /\ \A d \in Conn : d # c => taken'[d] = taken[d]
          /\ wpc[Other(c)] = "idle"
          /\ \A d \in Conn : WireInv(d)'
      BY <2>1, <3>1, TakenStep
    <3>3. SessionTypeOK'
      BY <2>1, <2>3, <3>1, <3>2 DEF SessionTypeOK
    <3>4. pump'[c] = "signal" /\ \A d \in Conn : d # c => pump'[d] = pump[d]
      BY <2>3 DEF SessionTypeOK
    <3>5. PumpInv'
      BY <1>o, <2>1, <3>1, <3>2, <3>4 DEF PumpInv
    <3> QED
      BY <3>2, <3>3, <3>5
  <2> QED
    BY <2>1, <2>2, <2>3
<1>4. CASE Written(c)
  <2>1. /\ pump[c] = "write" /\ wpc[Other(c)] = "idle" /\ ReadNext(c)
        /\ pump' = [pump EXCEPT ![c] = "read"] /\ UNCHANGED <<todo, taken, received>>
    BY <1>4 DEF Written
  <2>2. /\ UNCHANGED <<in, out, wpc, frames, writeErr, readErr, pending, readFinal, kpc, kop>>
        /\ rpc' = [rpc EXCEPT ![c] = "next"] /\ partial' = [partial EXCEPT ![c] = NoMessage]
        /\ rpc' \in [Conn -> {"next", "answer", "message", "failed"}]
        /\ partial' \in [Conn -> [op : Data \cup {"none"}, load : Seq(Unit)]]
    BY <2>1, ReadNextFacts
  <2>3. SessionTypeOK'
    BY <2>1, <2>2 DEF SessionTypeOK
  <2>4. /\ rpc'[c] = "next" /\ pump'[c] = "read"
        /\ \A d \in Conn : d # c => /\ rpc'[d] = rpc[d] /\ partial'[d] = partial[d]
                                    /\ pump'[d] = pump[d]
    BY <2>1, <2>2 DEF SessionTypeOK
  <2>5. PumpInv'
    BY <1>o, <2>1, <2>2, <2>4 DEF PumpInv
  <2> QED
    BY <2>1, <2>2, <2>3, <2>5, WiresSame
<1>5. CASE WriteFailed(c)
  <2>1. /\ pump[c] = "write" /\ wpc[Other(c)] = "idle" /\ pump' = [pump EXCEPT ![c] = "signal"]
        /\ UNCHANGED <<in, out, todo, received, frames, taken, wpc, writeErr, rpc, readErr, pending, readFinal,
                       partial, kpc, kop>>
    BY <1>5 DEF WriteFailed, connVars
  <2>2. SessionTypeOK'
    BY <2>1 DEF SessionTypeOK
  <2>4. pump'[c] = "signal" /\ \A d \in Conn : d # c => pump'[d] = pump[d]
    BY <2>1 DEF SessionTypeOK
  <2>3. PumpInv'
    BY <1>o, <2>1, <2>4 DEF PumpInv
  <2> QED
    BY <2>1, <2>2, <2>3, WiresSame
<1>6. CASE Signal(c)
  <2>1. /\ pump[c] = "signal" /\ UNCHANGED <<todo, taken, received>>
        /\ \/ rpc[c] = "failed" /\ pump' = [pump EXCEPT ![c] = "ended"] /\ UNCHANGED connVars
           \/ rpc[c] # "failed" /\ pump' = [pump EXCEPT ![c] = "read"] /\ ReadNext(c)
    BY <1>6 DEF Signal
  <2>2. CASE rpc[c] = "failed" /\ pump' = [pump EXCEPT ![c] = "ended"] /\ UNCHANGED connVars
    <3>1. UNCHANGED <<in, out, wpc, frames, writeErr, rpc, partial, readErr, pending, readFinal, kpc, kop>>
      BY <2>2 DEF connVars
    <3>2. SessionTypeOK'
      BY <2>1, <2>2, <3>1 DEF SessionTypeOK
    <3>4. pump'[c] = "ended" /\ \A d \in Conn : d # c => pump'[d] = pump[d]
      BY <2>2 DEF SessionTypeOK
    <3>3. PumpInv'
      BY <1>o, <2>1, <2>2, <3>1, <3>4 DEF PumpInv
    <3> QED
      BY <2>1, <3>1, <3>2, <3>3, WiresSame
  <2>3. CASE rpc[c] # "failed" /\ pump' = [pump EXCEPT ![c] = "read"] /\ ReadNext(c)
    <3>2. /\ UNCHANGED <<in, out, wpc, frames, writeErr, readErr, pending, readFinal, kpc, kop>>
          /\ rpc' = [rpc EXCEPT ![c] = "next"] /\ partial' = [partial EXCEPT ![c] = NoMessage]
          /\ rpc' \in [Conn -> {"next", "answer", "message", "failed"}]
          /\ partial' \in [Conn -> [op : Data \cup {"none"}, load : Seq(Unit)]]
      BY <2>3, ReadNextFacts
    <3>3. SessionTypeOK'
      BY <2>1, <2>3, <3>2 DEF SessionTypeOK
    <3>4. /\ rpc'[c] = "next" /\ pump'[c] = "read"
          /\ \A d \in Conn : d # c => /\ rpc'[d] = rpc[d] /\ partial'[d] = partial[d]
                                      /\ pump'[d] = pump[d]
      BY <2>3, <3>2 DEF SessionTypeOK
    <3>5. PumpInv'
      BY <1>o, <2>1, <2>3, <3>2, <3>4 DEF PumpInv
    <3> QED
      BY <2>1, <3>2, <3>3, <3>5, WiresSame
  <2> QED
    BY <2>1, <2>2, <2>3
<1> QED
  BY <1>1, <1>2, <1>3, <1>4, <1>5, <1>6 DEF Pump

-----------------------------------------------------------------------------
(* The connections' own steps. *)

(* Nothing that PumpInv speaks of is lost by a writer's step. *)
LEMMA PumpWriter ==
  ASSUME SessionTypeOK, PumpInv, NEW c \in Conn, wpc[c] # "idle",
         UNCHANGED <<rpc, readErr, pending, readFinal, partial, kpc, taken, pump>>,
         \A d \in Conn : d # c => wpc'[d] = wpc[d]
  PROVE  PumpInv'
<1> SUFFICES ASSUME NEW d \in Conn, wpc'[Other(d)] # "idle" PROVE pump[d] = "write"
  BY DEF PumpInv
<1>1. wpc[Other(d)] # "idle"
  BY Others
<1> QED
  BY <1>1 DEF PumpInv

(* A writer at work has a frame left. *)
LEMMA FrameLeft ==
  ASSUME SessionIInv, NEW c \in Conn, wpc[c] # "idle"
  PROVE  /\ frames[c] \in Seq(Frame) /\ frames[c] # <<>>
         /\ Head(frames[c]) \in Frame /\ Tail(frames[c]) \in Seq(Frame)
<1> USE DEF SessionIInv
<1>1. frames[c] \in Seq(Frame) /\ taken[Other(c)] \in Seq(Message)
  BY Others DEF SessionTypeOK
<1>2. BegunInv(c)
  BY DEF WireInv, HandInv
<1>3. taken[Other(c)] # <<>>
  BY Others DEF PumpInv
<1>4. PICK all \in Seq(Frame) : Len(all) \in Nat /\
             \E k \in 0..Len(all) - 1 : Len(frames[c]) = Len(all) - k
  <2> DEFINE m == taken[Other(c)][Len(taken[Other(c)])]
             all == FramesOf(c, m.op, m.load)
  <2>1. m \in Message
    BY <1>1, <1>3, EmptySeq
  <2>2. Len(all) \in Nat \ {0} /\ all \in Seq(Frame)
    <3> HIDE DEF m
    <3> QED
      BY <2>1, FramesCut
  <2>3. \E k \in 0..Len(all) - 1 : Len(frames[c]) = Len(all) - k
    BY <1>2 DEF BegunInv
  <2> QED
    BY <2>2, <2>3
<1>5. Len(frames[c]) # 0
  BY <1>4
<1>6. frames[c] # <<>>
  BY <1>1, <1>5
<1> QED
  BY <1>1, <1>6, HeadTailProperties

(* FlushLock, a refused or broken write, and a frame put on the wire.      *)
LEMMA WritingStep ==
  ASSUME SessionIInv, NEW c \in Conn, Writing(c), UNCHANGED ownVars
  PROVE  SessionIInv'
<1> USE DEF SessionIInv
<1>1. /\ wpc[c] # "idle"
      /\ UNCHANGED <<in, todo, taken, received, pump, rpc, readErr, pending, readFinal, partial, kpc, kop>>
  BY DEF Writing, FlushLock, FlushRefused, FlushBroken, Flush, AbortMessage, netVars, readerVars,
         controlVars, ownVars
<1>2. CASE FlushLock(c)
  <2>1. /\ wpc' = [wpc EXCEPT ![c] = "write"] /\ UNCHANGED <<out, frames, writeErr>>
    BY <1>2 DEF FlushLock, netVars
  <2>2. SessionTypeOK'
    BY <1>1, <2>1 DEF SessionTypeOK
  <2>3. wpc'[c] = "write" /\ \A d \in Conn : d # c => wpc'[d] = wpc[d]
    BY <2>1 DEF SessionTypeOK
  <2>4. ASSUME NEW d \in Conn PROVE WireInv(d)'
    <3>1. Line(d)' = Line(d)
      BY <1>1, <2>1 DEF Line
    <3>2. \/ wpc'[d] = wpc[d]
          \/ wpc[d] # "idle" /\ wpc'[d] # "idle"
      BY <1>1, <2>3
    <3> QED
      BY <1>1, <2>1, <3>1, <3>2, WireSame
  <2> QED
    BY <1>1, <2>2, <2>3, <2>4, PumpWriter
<1>3. CASE FlushRefused(c) \/ FlushBroken(c)
  <2>1. /\ wpc' = [wpc EXCEPT ![c] = "idle"] /\ frames' = [frames EXCEPT ![c] = <<>>]
        /\ UNCHANGED out
        /\ \/ writeErr[c] # "nil" /\ UNCHANGED writeErr
           \/ writeErr' = [writeErr EXCEPT ![c] = "io"]
    BY <1>3 DEF FlushRefused, FlushBroken, AbortMessage, netVars
  <2>2. <<>> \in Seq(Frame)
    BY EmptySeq
  <2>3. writeErr' \in [Conn -> {"nil", "io", "closeSent"}] /\ writeErr'[c] # "nil"
        /\ \A d \in Conn : d # c => writeErr'[d] = writeErr[d]
    BY <2>1 DEF SessionTypeOK
  <2>4. SessionTypeOK'
    BY <1>1, <2>1, <2>2, <2>3 DEF SessionTypeOK
  <2>5. wpc'[c] = "idle" /\ \A d \in Conn : d # c => wpc'[d] = wpc[d] /\ frames'[d] = frames[d]
    BY <2>1 DEF SessionTypeOK
  <2>6. ASSUME NEW d \in Conn PROVE WireInv(d)'
    <3>1. Line(d)' = Line(d)
      BY <1>1, <2>1 DEF Line
    <3>2. \/ /\ wpc'[d] = wpc[d] /\ frames'[d] = frames[d]
             /\ writeErr'[d] = writeErr[d]
          \/ wpc'[d] = "idle" /\ writeErr'[d] # "nil"
      BY <2>3, <2>5
    <3> QED
      BY <1>1, <3>1, <3>2, WireSame
  <2> QED
    BY <1>1, <2>4, <2>5, <2>6, PumpWriter
<1>4. CASE Flush(c)
  <2> DEFINE next == IF Tail(frames[c]) = <<>> THEN "idle" ELSE "lock"
             f == Head(frames[c])
             rest == Tail(frames[c])
  <2>1. /\ out' = [out EXCEPT ![c] = Append(@, f)]
        /\ frames' = [frames EXCEPT ![c] = rest]
        /\ wpc' = [wpc EXCEPT ![c] = next] /\ UNCHANGED writeErr
    BY <1>4 DEF Flush
  <2>2. taken[Other(c)] # <<>>
    BY <1>1, Others DEF PumpInv
  <2>3. f \in Frame /\ rest \in Seq(Frame)
    BY <1>1, FrameLeft
  <2> HIDE DEF next, f, rest
  <2>4. /\ out'[c] = Append(out[c], f) /\ frames'[c] = rest /\ wpc'[c] = next
        /\ \A d \in Conn : d # c => /\ out'[d] = out[d] /\ frames'[d] = frames[d]
                                    /\ wpc'[d] = wpc[d]
    BY <2>1 DEF SessionTypeOK
  <2>5. SessionTypeOK'
    <3>1. Append(out[c], f) \in Seq(Frame)
      BY <2>3, AppendProperties DEF SessionTypeOK
    <3>2. out' \in [Conn -> Seq(Frame)]
      BY <2>1, <3>1 DEF SessionTypeOK
    <3>3. frames' \in [Conn -> Seq(Frame)]
      BY <2>1, <2>3 DEF SessionTypeOK
    <3>4. wpc' \in [Conn -> {"idle", "lock", "write"}]
      BY <2>1 DEF SessionTypeOK, next
    <3> QED
      BY <1>1, <2>1, <3>2, <3>3, <3>4 DEF SessionTypeOK
  <2>6. ASSUME NEW d \in Conn PROVE WireInv(d)'
    <3>1. CASE d = c
      <4>1. Line(c)' = Append(Line(c), f)
        BY <1>1, <2>3, <2>4, LineAppend
      <4> QED
        BY <1>1, <2>2, <2>4, <3>1, <4>1, WireFlush DEF next, f, rest
    <3>2. CASE d # c
      <4>1. Line(d)' = Line(d)
        BY <1>1, <2>4, <3>2 DEF Line
      <4> QED
        BY <1>1, <2>1, <2>4, <3>2, <4>1, WireSame
    <3> QED
      BY <3>1, <3>2
  <2> QED
    BY <1>1, <2>4, <2>5, <2>6, PumpWriter
<1> QED
  BY <1>2, <1>3, <1>4 DEF Writing

(* A goroutine that reads has no message in hand. *)
LEMMA ReadingPump ==
  ASSUME SessionTypeOK, PumpInv, NEW c \in Conn, rpc[c] = "next",
         UNCHANGED <<taken, pump, wpc>>,
         \A d \in Conn : d # c => /\ rpc'[d] = rpc[d] /\ readFinal'[d] = readFinal[d]
                                  /\ readErr'[d] = readErr[d]
                                  /\ partial'[d] = partial[d] /\ kpc'[d] = kpc[d],
         kpc'[c]["reader"] # "none" => rpc'[c] = "answer",
         rpc'[c] = "answer" => readErr'[c] = "nil",
         rpc'[c] = "message" /\ readErr'[c] = "nil" => readFinal'[c],
         rpc'[c] = "message" \/ (~readFinal'[c] /\ readErr'[c] = "nil") => partial'[c].op \in Data
  PROVE  PumpInv'
<1>1. pump[c] # "write" /\ pump[c] # "signal" /\ wpc[Other(c)] = "idle"
  BY DEF PumpInv
<1> SUFFICES ASSUME NEW d \in Conn
             PROVE  /\ kpc'[d]["reader"] # "none" => rpc'[d] = "answer"
                    /\ rpc'[d] = "answer" => readErr'[d] = "nil"
                    /\ rpc'[d] = "message" /\ readErr'[d] = "nil" => readFinal'[d]
                    /\ rpc'[d] = "message" \/ (~readFinal'[d] /\ readErr'[d] = "nil") =>
                         partial'[d].op \in Data
                    /\ pump'[d] = "write" => rpc'[d] = "message" /\ taken'[d] # <<>>
                    /\ pump'[d] = "signal" => rpc'[d] \in {"message", "failed"}
                    /\ wpc'[Other(d)] # "idle" => pump'[d] = "write"
  BY DEF PumpInv
<1>2. CASE d = c
  BY <1>1, <1>2
<1>3. CASE d # c
  BY <1>3 DEF PumpInv
<1> QED
  BY <1>2, <1>3

(* A frame is read, or the reading ends: no frame is written by it.        *)
LEMMA ReadingStep ==
  ASSUME SessionIInv, NEW c \in Conn, Reading(c), UNCHANGED ownVars
  PROVE  SessionIInv'
<1> USE DEF SessionIInv
<1>1. /\ rpc[c] = "next" /\ UNCHANGED <<out, todo, taken, received, pump, wpc, frames, writeErr>>
  BY DEF Reading, ReadPong, ReadData, ReadLastData, TakeData, ReadPing, ReadClose,
         ReadObjectionable, ReadEnd, Arrived, Answer, netVars, writerVars, ownVars
<1>2. \A d \in Conn : WireInv(d)'
  BY <1>1, WiresSame
<1>3. kpc[c]["reader"] = "none"
  BY <1>1 DEF PumpInv
<1>4. ASSUME Arrived(c), TakeFrame(c)
      PROVE  in' \in [Conn -> Seq(Frame)] /\ Head(in[c]) \in Frame
  <2>1. in[c] \in Seq(Frame) /\ in[c] # <<>>
    BY <1>4 DEF SessionTypeOK, Arrived
  <2>2. Head(in[c]) \in Frame /\ Tail(in[c]) \in Seq(Frame)
    BY <2>1, HeadTailProperties
  <2> QED
    BY <1>4, <2>2 DEF TakeFrame, SessionTypeOK
<1>5. CASE ReadPong(c)
  <2>1. Arrived(c) /\ TakeFrame(c) /\ UNCHANGED <<rpc, readErr, pending, readFinal, partial, kpc, kop>>
    BY <1>5 DEF ReadPong, readerVars, controlVars
  <2>2. SessionTypeOK'
    BY <1>1, <1>4, <2>1 DEF SessionTypeOK
  <2>3. PumpInv'
    BY <1>1, <2>1 DEF PumpInv
  <2> QED
    BY <1>2, <2>2, <2>3
<1>6. CASE ReadData(c) \/ ReadLastData(c)
  <2> DEFINE f == Head(in[c])
             m == Joined(partial[c], f)
  <2>1. /\ Arrived(c) /\ TakeFrame(c) /\ f.op \in Data \cup {"cont"} /\ ~Objectionable(c, f)
        /\ readFinal' = [readFinal EXCEPT ![c] = f.fin]
        /\ partial' = [partial EXCEPT ![c] = m]
        /\ UNCHANGED <<pending, kpc, kop>>
    BY <1>6 DEF ReadData, ReadLastData, TakeData, controlVars
  <2>2. f \in Frame /\ partial[c] \in [op : Data \cup {"none"}, load : Seq(Unit)]
    BY <1>4, <2>1 DEF SessionTypeOK
  <2>3. m.op \in Data /\ m \in [op : Data \cup {"none"}, load : Seq(Unit)]
    <3>1. f.op = "cont" => partial[c].op \in Data
      BY <2>1 DEF Objectionable, Arrived, PumpInv
    <3>2. CASE f.op = "cont"
      <4>1. m = [partial[c] EXCEPT !.load = partial[c].load \o f.load]
        BY <3>2 DEF Joined
      <4>2. partial[c].load \o f.load \in Seq(Unit)
        BY <2>2 DEF Frame
      <4> HIDE DEF f, m
      <4> QED
        BY <2>2, <3>1, <3>2, <4>1, <4>2
    <3>3. CASE f.op # "cont"
      <4>1. m = [op |-> f.op, load |-> f.load]
        BY <3>3 DEF Joined
      <4>2. f.op \in Data /\ f.load \in Seq(Unit)
        BY <2>1, <2>2, <3>3 DEF Frame
      <4> HIDE DEF f, m
      <4> QED
        BY <4>1, <4>2
    <3> QED
      BY <3>2, <3>3
  <2>4. f.fin \in BOOLEAN
    BY <2>2 DEF Frame
  <2>5. /\ rpc' \in [Conn -> {"next", "answer", "message", "failed"}]
        /\ readErr' \in [Conn -> {"nil", "io", "eof", "close", "protocol"}]
        /\ \A d \in Conn : d # c => rpc'[d] = rpc[d] /\ readErr'[d] = readErr[d]
        /\ rpc'[c] # "answer"
        /\ rpc'[c] = "message" /\ readErr'[c] = "nil" => f.fin
    <3>1. CASE ReadData(c)
      <4>1. /\ rpc' = [rpc EXCEPT ![c] = IF f.fin THEN "message" ELSE "next"]
            /\ UNCHANGED readErr
        BY <3>1 DEF ReadData
      <4> HIDE DEF f
      <4> QED
        BY <4>1 DEF SessionTypeOK
    <3>2. CASE ReadLastData(c)
      <4>1. /\ rpc' = [rpc EXCEPT ![c] = "message"]
            /\ readErr' = [readErr EXCEPT ![c] = "eof"]
        BY <3>2 DEF ReadLastData
      <4> HIDE DEF f
      <4> QED
        BY <4>1 DEF SessionTypeOK
    <3> QED
      BY <1>6, <3>1, <3>2
  <2> HIDE DEF f, m
  <2>6. /\ readFinal'[c] = f.fin /\ partial'[c] = m
        /\ \A d \in Conn : d # c => readFinal'[d] = readFinal[d] /\ partial'[d] = partial[d]
    BY <2>1 DEF SessionTypeOK
  <2>7. SessionTypeOK'
    <3>1. readFinal' \in [Conn -> BOOLEAN]
      BY <2>1, <2>4 DEF SessionTypeOK
    <3>2. partial' \in [Conn -> [op : Data \cup {"none"}, load : Seq(Unit)]]
      BY <2>1, <2>3 DEF SessionTypeOK
    <3> QED
      BY <1>1, <1>4, <2>1, <2>5, <3>1, <3>2 DEF SessionTypeOK
  <2>8. PumpInv'
    BY <1>1, <1>3, <2>1, <2>3, <2>5, <2>6, ReadingPump
  <2> QED
    BY <1>2, <2>7, <2>8
<1>7. CASE ReadPing(c) \/ ReadClose(c) \/ ReadObjectionable(c)
  <2>1. PICK op \in Control, err \in {"nil", "close", "protocol"} :
          /\ Arrived(c) /\ TakeFrame(c) /\ rpc' = [rpc EXCEPT ![c] = "answer"]
          /\ pending' = [pending EXCEPT ![c] = err]
          /\ kpc' = [kpc EXCEPT ![c]["reader"] = "lock"]
          /\ kop' = [kop EXCEPT ![c]["reader"] = op]
          /\ UNCHANGED <<readErr, readFinal, partial>>
    BY <1>7 DEF ReadPing, ReadClose, ReadObjectionable, Answer, Control
  <2>2. SessionTypeOK'
    <3>1. rpc' \in [Conn -> {"next", "answer", "message", "failed"}]
      BY <2>1 DEF SessionTypeOK
    <3>2. kpc' \in [Conn -> [Who -> {"none", "lock", "write"}]]
      BY <2>1 DEF SessionTypeOK
    <3>3. kop' \in [Conn -> [Who -> Control]]
      BY <2>1 DEF SessionTypeOK
    <3>4. pending' \in [Conn -> {"nil", "close", "protocol"}]
      BY <2>1 DEF SessionTypeOK
    <3> QED
      BY <1>1, <1>4, <2>1, <3>1, <3>2, <3>3, <3>4 DEF SessionTypeOK
  <2>3. rpc'[c] = "answer" /\ \A d \in Conn : d # c => rpc'[d] = rpc[d] /\ kpc'[d] = kpc[d]
    BY <2>1 DEF SessionTypeOK
  <2>4. readErr[c] = "nil" /\ (~readFinal[c] => partial[c].op \in Data)
    BY <2>1 DEF PumpInv, Arrived
  <2>5. PumpInv'
    BY <1>1, <2>1, <2>3, <2>4, ReadingPump
  <2> QED
    BY <1>2, <2>2, <2>5
<1>8. CASE ReadEnd(c)
  <2>1. PICK err \in {"io", "eof", "close", "protocol"} :
          /\ readErr' = [readErr EXCEPT ![c] = err] /\ rpc' = [rpc EXCEPT ![c] = "failed"]
          /\ UNCHANGED <<in, pending, readFinal, partial, kpc, kop>>
    <3>1. readErr[c] \in {"nil", "io", "eof", "close", "protocol"}
      BY DEF SessionTypeOK
    <3> QED
      BY <1>8, <3>1 DEF ReadEnd, netVars, controlVars
  <2>2. SessionTypeOK'
    BY <1>1, <2>1 DEF SessionTypeOK
  <2>3. /\ rpc'[c] = "failed" /\ readErr'[c] # "nil"
        /\ \A d \in Conn : d # c => rpc'[d] = rpc[d] /\ readErr'[d] = readErr[d]
    BY <2>1 DEF SessionTypeOK
  <2>4. PumpInv'
    BY <1>1, <1>3, <2>1, <2>3, ReadingPump
  <2> QED
    BY <1>2, <2>2, <2>4
<1> QED
  BY <1>5, <1>6, <1>7, <1>8 DEF Reading

(* The reader's own WriteControl returns. *)
LEMMA ReturnStep ==
  ASSUME SessionTypeOK, PumpInv, NEW c \in Conn, NEW e, kpc[c]["reader"] # "none",
         ControlReturns(c, "reader", e), UNCHANGED <<taken, pump>>
  PROVE  /\ kpc' \in [Conn -> [Who -> {"none", "lock", "write"}]]
         /\ rpc' \in [Conn -> {"next", "answer", "message", "failed"}]
         /\ readErr' \in [Conn -> {"nil", "io", "eof", "close", "protocol"}]
         /\ UNCHANGED <<in, wpc, frames, pending, readFinal, partial, kop>>
         /\ PumpInv'
<1>1. /\ kpc' = [kpc EXCEPT ![c]["reader"] = "none"]
      /\ UNCHANGED <<in, wpc, frames, pending, readFinal, partial, kop>>
  BY DEF ControlReturns, writerVars
<1>2. PICK err \in {"nil", "io", "close", "protocol"} :
        /\ readErr' = [readErr EXCEPT ![c] = err]
        /\ rpc' = [rpc EXCEPT ![c] = IF err = "nil" THEN "next" ELSE "failed"]
  <2>1. pending[c] \in {"nil", "close", "protocol"}
    BY DEF SessionTypeOK
  <2> QED
    BY <2>1 DEF ControlReturns
<1>3. "reader" \in Who
  BY DEF Who
<1>4. /\ kpc' \in [Conn -> [Who -> {"none", "lock", "write"}]]
      /\ kpc'[c]["reader"] = "none" /\ \A d \in Conn : d # c => kpc'[d] = kpc[d]
  BY <1>1, <1>3 DEF SessionTypeOK
<1>5. /\ rpc' \in [Conn -> {"next", "answer", "message", "failed"}]
      /\ readErr' \in [Conn -> {"nil", "io", "eof", "close", "protocol"}]
      /\ rpc'[c] \in {"next", "failed"}
      /\ \A d \in Conn : d # c => rpc'[d] = rpc[d] /\ readErr'[d] = readErr[d]
  BY <1>2 DEF SessionTypeOK
<1>6. /\ rpc[c] = "answer" /\ readErr[c] = "nil" /\ pump[c] # "write" /\ pump[c] # "signal"
      /\ wpc[Other(c)] = "idle"
  BY DEF PumpInv
<1>7. PumpInv'
  <2> SUFFICES ASSUME NEW d \in Conn
               PROVE  /\ kpc'[d]["reader"] # "none" => rpc'[d] = "answer"
                      /\ rpc'[d] = "answer" => readErr'[d] = "nil"
                      /\ rpc'[d] = "message" /\ readErr'[d] = "nil" => readFinal'[d]
                      /\ rpc'[d] = "message" \/ (~readFinal'[d] /\ readErr'[d] = "nil") =>
                           partial'[d].op \in Data
                      /\ pump'[d] = "write" => rpc'[d] = "message" /\ taken'[d] # <<>>
                      /\ pump'[d] = "signal" => rpc'[d] \in {"message", "failed"}
                      /\ wpc'[Other(d)] # "idle" => pump'[d] = "write"
    BY DEF PumpInv
  <2>1. CASE d = c
    <3>1. ~readFinal[c] => partial[c].op \in Data
      BY DEF PumpInv
    <3> QED
      BY <1>1, <1>4, <1>5, <1>6, <2>1, <3>1
  <2>2. CASE d # c
    BY <1>1, <1>4, <1>5, <2>2 DEF PumpInv
  <2> QED
    BY <2>1, <2>2
<1> QED
  BY <1>1, <1>4, <1>5, <1>7

(* The answer to a ping or a close frame: it may come between two frames   *)
(* of a message, and does no harm there.                                   *)
LEMMA ControllingStep ==
  ASSUME SessionIInv, NEW c \in Conn, Controlling(c, "reader"), UNCHANGED ownVars
  PROVE  SessionIInv'
<1> USE DEF SessionIInv
<1>1. UNCHANGED <<todo, taken, received, pump>>
  BY DEF ownVars
<1>2. CASE ControlLock(c, "reader")
  <2>1. /\ kpc[c]["reader"] = "lock" /\ kpc' = [kpc EXCEPT ![c]["reader"] = "write"]
        /\ UNCHANGED <<in, out, wpc, frames, writeErr, rpc, readErr, pending, readFinal, partial, kop>>
    BY <1>2 DEF ControlLock, netVars, writerVars, readerVars
  <2>2. SessionTypeOK'
    BY <1>1, <2>1 DEF SessionTypeOK
  <2>3. \A d \in Conn : kpc'[d]["reader"] # "none" => kpc[d]["reader"] # "none"
    BY <2>1 DEF SessionTypeOK, Who
  <2>4. PumpInv'
    BY <1>1, <2>1, <2>3 DEF PumpInv
  <2> QED
    BY <1>1, <2>1, <2>2, <2>4, WiresSame
<1>3. CASE \/ ControlTimeout(c, "reader") \/ ControlRefused(c, "reader")
           \/ ControlBroken(c, "reader")
  <2>1. PICK e : /\ kpc[c]["reader"] # "none" /\ ControlReturns(c, "reader", e) /\ UNCHANGED out
                 /\ UNCHANGED writeErr \/ writeErr' = [writeErr EXCEPT ![c] = "io"]
    <3>1. CASE ControlTimeout(c, "reader")
      BY <3>1 DEF ControlTimeout
    <3>2. CASE ControlRefused(c, "reader")
      BY <3>2 DEF ControlRefused
    <3>3. CASE ControlBroken(c, "reader")
      BY <3>3 DEF ControlBroken
    <3> QED
      BY <1>3, <3>1, <3>2, <3>3
  <2>2. /\ kpc' \in [Conn -> [Who -> {"none", "lock", "write"}]]
        /\ rpc' \in [Conn -> {"next", "answer", "message", "failed"}]
        /\ readErr' \in [Conn -> {"nil", "io", "eof", "close", "protocol"}]
        /\ UNCHANGED <<in, wpc, frames, pending, readFinal, partial, kop>>
        /\ PumpInv'
    BY <1>1, <2>1, ReturnStep
  <2>3. /\ writeErr' \in [Conn -> {"nil", "io", "closeSent"}]
        /\ \A d \in Conn : writeErr'[d] = writeErr[d] \/ writeErr'[d] # "nil"
    BY <2>1 DEF SessionTypeOK
  <2>4. SessionTypeOK'
    BY <1>1, <2>1, <2>2, <2>3 DEF SessionTypeOK
  <2>5. ASSUME NEW d \in Conn PROVE WireInv(d)'
    <3>1. Line(d)' = Line(d)
      BY <1>1, <2>1 DEF Line
    <3> QED
      BY <1>1, <2>2, <2>3, <3>1, WireSame
  <2> QED
    BY <2>2, <2>4, <2>5
<1>4. CASE ControlWrite(c, "reader")
  <2> DEFINE op == kop[c]["reader"]
             f == ControlFrame(c, op)
  <2>1. /\ kpc[c]["reader"] # "none" /\ ControlReturns(c, "reader", "nil")
        /\ out' = [out EXCEPT ![c] = Append(@, f)]
        /\ writeErr' = [writeErr EXCEPT ![c] = IF op = "close" THEN "closeSent" ELSE @]
    BY <1>4 DEF ControlWrite
  <2>2. op \in Control
    BY DEF SessionTypeOK, Who
  <2>3. f \in Frame /\ f.op \in Control
    <3> HIDE DEF op
    <3> QED
      BY <2>2, ControlFrameType
  <2> HIDE DEF f
  <2>4. /\ kpc' \in [Conn -> [Who -> {"none", "lock", "write"}]]
        /\ rpc' \in [Conn -> {"next", "answer", "message", "failed"}]
        /\ readErr' \in [Conn -> {"nil", "io", "eof", "close", "protocol"}]
        /\ UNCHANGED <<in, wpc, frames, pending, readFinal, partial, kop>>
        /\ PumpInv'
    BY <1>1, <2>1, ReturnStep
  <2>5. /\ writeErr' \in [Conn -> {"nil", "io", "closeSent"}]
        /\ \A d \in Conn : writeErr'[d] = writeErr[d] \/ writeErr'[d] # "nil"
    BY <2>1 DEF SessionTypeOK
  <2>6. /\ out'[c] = Append(out[c], f) /\ \A d \in Conn : d # c => out'[d] = out[d]
        /\ out' \in [Conn -> Seq(Frame)]
    <3>1. Append(out[c], f) \in Seq(Frame)
      BY <2>3, AppendProperties DEF SessionTypeOK
    <3> QED
      BY <2>1, <3>1 DEF SessionTypeOK
  <2>7. SessionTypeOK'
    BY <1>1, <2>4, <2>5, <2>6 DEF SessionTypeOK
  <2>8. ASSUME NEW d \in Conn PROVE WireInv(d)'
    <3>1. CASE d = c
      <4>1. Line(c)' = Append(Line(c), f)
        BY <1>1, <2>3, <2>6, LineAppend
      <4> QED
        BY <1>1, <2>3, <2>4, <2>5, <3>1, <4>1, WireControl
    <3>2. CASE d # c
      <4>1. Line(d)' = Line(d)
        BY <1>1, <2>6, <3>2 DEF Line
      <4> QED
        BY <1>1, <2>4, <2>5, <4>1, WireSame
    <3> QED
      BY <3>1, <3>2
  <2> QED
    BY <2>4, <2>7, <2>8
<1> QED
  BY <1>2, <1>3, <1>4 DEF Controlling

-----------------------------------------------------------------------------
(* The specification of the session. *)

(* One case per party.                                                     *)
LEMMA SessionSteps == SessionIInv /\ [WsNext]_wsVars => SessionIInv'
<1> SUFFICES ASSUME SessionIInv, [WsNext]_wsVars PROVE SessionIInv'
  OBVIOUS
<1>1. CASE Handler
  BY <1>1, HandlerStep
<1>2. ASSUME NEW c \in Conn, EndpointSend(c) \/ EndpointReceive(c) \/ EndpointClose(c)
      PROVE  SessionIInv'
  BY <1>2, EndpointStep
<1>3. ASSUME NEW c \in Conn, Pump(c) PROVE SessionIInv'
  BY <1>3, PumpStep
<1>4. ASSUME NEW c \in Conn, ConnSteps(c) PROVE SessionIInv'
  BY <1>4, WritingStep, ReadingStep, ControllingStep DEF ConnSteps
<1>5. CASE UNCHANGED wsVars
  <2>1. UNCHANGED <<in, out, todo, received, frames, taken, wpc, writeErr, rpc, readErr, pending, readFinal, partial,
                    kpc, kop, pump>>
    BY <1>5 DEF wsVars, connVars, ownVars
  <2>2. SessionTypeOK' /\ PumpInv'
    BY <2>1 DEF SessionIInv, SessionTypeOK, PumpInv
  <2> QED
    BY <2>1, <2>2, WiresSame DEF SessionIInv
<1> QED
  BY <1>1, <1>2, <1>3, <1>4, <1>5 DEF WsNext

(* The inductive invariant of the session.                                 *)
THEOREM SessionIInvHolds == WsSpec => []SessionIInv
BY SessionStarts, SessionSteps, PTL DEF WsSpec

(* What the proxy puts on the wire to either endpoint is, for every script *)
(* of the other, whole messages that ReadMessage returned, in order, none  *)
(* twice, each in one piece but for control frames.                        *)
THEOREM OnlyWholeMessagesHolds == WsSpec => []OnlyWholeMessages
<1>1. SessionIInv => OnlyWholeMessages
  <2> SUFFICES ASSUME SessionIInv, NEW c \in Conn
               PROVE  LET fs == received[c] \o out[c]
                          read == taken[Other(c)]
                      IN /\ \E of \in [Ends(fs) -> DOMAIN read] :
                              /\ \A i \in Ends(fs) :
                                   \E b \in 1..i : Carries(fs, b, i, read[of[i]],
                                                           Len(read[of[i]].load))
                              /\ \A i, j \in Ends(fs) : i < j => of[i] < of[j]
                         /\ \A i \in DOMAIN fs : IsData(fs[i]) => (fs[i].op = "cont" <=> Continues(fs, i))
    BY DEF OnlyWholeMessages
  <2>1. WholeInv(c) /\ MarkInv(c)
    BY DEF SessionIInv, WireInv
  <2> QED
    BY <2>1 DEF WholeInv, MarkInv, Line
<1> QED
  BY <1>1, SessionIInvHolds, PTL

-----------------------------------------------------------------------------
(* Nothing follows a close frame. *)

(* Who has written a close frame remembers ErrCloseSent or an error that   *)
(* came before it, and the frames of a message are none.                   *)
SealInv(c) ==
  LET fs == Line(c) IN
  /\ \A i \in DOMAIN fs : fs[i].op = "close" => i = Len(fs) /\ writeErr[c] # "nil"
  /\ \A i \in DOMAIN frames[c] : frames[c][i].op # "close"

CloseInv == \A c \in Conn : SealInv(c)

(* A step that writes no frame and forgets no error.                       *)
LEMMA SealSame ==
  ASSUME NEW c \in Conn, SealInv(c), Line(c)' = Line(c),
         writeErr'[c] = writeErr[c] \/ writeErr'[c] # "nil",
         frames'[c] = frames[c] \/ \A i \in DOMAIN frames'[c] : frames'[c][i].op # "close"
  PROVE  SealInv(c)'
BY DEF SealInv

(* A frame is written while there is no error: there is no close frame     *)
(* before it, and if it is one it leaves ErrCloseSent behind.              *)
LEMMA SealLonger ==
  ASSUME SessionTypeOK, NEW c \in Conn, SealInv(c), writeErr[c] = "nil", NEW f \in Frame,
         Line(c)' = Append(Line(c), f), f.op = "close" => writeErr'[c] # "nil",
         \A i \in DOMAIN frames'[c] : frames'[c][i].op # "close"
  PROVE  SealInv(c)'
<1> DEFINE fs == Line(c)
           gs == Line(c)'
<1>1. fs \in Seq(Frame) /\ gs = Append(fs, f)
  BY LineType
<1>2. \A i \in DOMAIN fs : fs[i].op # "close"
  BY DEF SealInv
<1> HIDE DEF fs, gs
<1>3. /\ Len(fs) \in Nat /\ Len(gs) = Len(fs) + 1 /\ gs[Len(fs) + 1] = f
      /\ DOMAIN fs = 1..Len(fs) /\ DOMAIN gs = 1..(Len(fs) + 1)
      /\ \A i \in 1..Len(fs) : gs[i] = fs[i]
  BY <1>1, Longer
<1>4. ASSUME NEW i \in DOMAIN gs, gs[i].op = "close" PROVE i = Len(gs) /\ writeErr'[c] # "nil"
  <2>1. i = Len(fs) + 1
    BY <1>2, <1>3, <1>4
  <2> QED
    BY <1>3, <1>4, <2>1
<1> QED
  BY <1>4 DEF SealInv, gs

(* The frames of a message are of its type, or continue it.                *)
LEMMA NoCloseFrames ==
  ASSUME NEW c \in Conn, NEW m \in Message
  PROVE  LET all == FramesOf(c, m.op, m.load) IN \A i \in DOMAIN all : all[i].op # "close"
<1> DEFINE all == FramesOf(c, m.op, m.load)
<1>1. Len(all) \in Nat \ {0} /\ all \in Seq(Frame) /\ CutInv(m, all)
  BY FramesCut
<1>2. m.op \in Data
  BY DEF Message
<1> HIDE DEF all
<1>3. DOMAIN all = 1..Len(all)
  BY <1>1
<1>4. \A i \in 1..Len(all) : all[i].op = (IF i = 1 THEN m.op ELSE "cont")
  BY <1>1 DEF CutInv
<1> QED
  BY <1>2, <1>3, <1>4 DEF all, Data

(* Steps that write no frame and begin no message.                         *)
LEMMA SealsSame ==
  ASSUME CloseInv, UNCHANGED <<received, out, writeErr, frames>>
  PROVE  CloseInv'
<1> SUFFICES ASSUME NEW c \in Conn PROVE SealInv(c)'
  BY DEF CloseInv
<1>1. Line(c)' = Line(c)
  BY DEF Line
<1> QED
  BY <1>1, SealSame DEF CloseInv

(* The endpoint takes a frame; WriteMessage begins a message.              *)
LEMMA SealOutside ==
  ASSUME SessionIInv, CloseInv, NEW c \in Conn,
         \/ EndpointSend(c) \/ EndpointReceive(c) \/ EndpointClose(c) \/ Pump(c)
  PROVE  CloseInv'
<1> USE DEF SessionIInv
<1>1. CASE EndpointReceive(c)
  <2>1. /\ out[c] # <<>> /\ received' = [received EXCEPT ![c] = Append(@, Head(out[c]))]
        /\ out' = [out EXCEPT ![c] = Tail(@)] /\ UNCHANGED <<writeErr, frames>>
    BY <1>1 DEF EndpointReceive, writerVars
  <2>2. /\ received'[c] = Append(received[c], Head(out[c])) /\ out'[c] = Tail(out[c])
        /\ \A d \in Conn : d # c => received'[d] = received[d] /\ out'[d] = out[d]
    BY <2>1 DEF SessionTypeOK
  <2>3. ASSUME NEW d \in Conn PROVE SealInv(d)'
    <3>1. Line(d)' = Line(d)
      BY <2>1, <2>2, LineMove DEF Line
    <3> QED
      BY <2>1, <3>1, SealSame DEF CloseInv
  <2> QED
    BY <2>3 DEF CloseInv
<1>2. CASE Forward(c)
  <2> DEFINE d == Other(c)
             all == FramesOf(d, partial[c].op, partial[c].load)
  <2>1. /\ rpc[c] = "message" /\ UNCHANGED <<received, out, writeErr>>
        /\ UNCHANGED frames \/ frames' = [frames EXCEPT ![d] = all]
    BY <1>2 DEF Forward, WriteMessage, netVars
  <2>2. partial[c] \in Message
    BY <2>1 DEF PumpInv, SessionTypeOK, Message
  <2>3. d \in Conn /\ \A i \in DOMAIN all : all[i].op # "close"
    BY <2>2, Others, NoCloseFrames
  <2> HIDE DEF all
  <2>4. ASSUME NEW x \in Conn PROVE SealInv(x)'
    <3>1. Line(x)' = Line(x)
      BY <2>1 DEF Line
    <3>2. frames'[x] = frames[x] \/ frames'[x] = all
      BY <2>1 DEF SessionTypeOK
    <3> QED
      BY <2>1, <2>3, <3>1, <3>2, SealSame DEF CloseInv
  <2> QED
    BY <2>4 DEF CloseInv
<1>3. CASE ~EndpointReceive(c) /\ ~Forward(c)
  <2>1. UNCHANGED <<received, out, writeErr, frames>>
    BY <1>3 DEF EndpointSend, EndpointClose, Pump, ReadFailed, Keep, Written, WriteFailed,
                Signal, ReadNext, netVars, connVars, writerVars
  <2> QED
    BY <2>1, SealsSame
<1> QED
  BY <1>1, <1>2, <1>3

(* A frame of a message is written, or the message is given up.            *)
LEMMA SealWriting ==
  ASSUME SessionIInv, CloseInv, NEW c \in Conn, Writing(c), UNCHANGED ownVars
  PROVE  CloseInv'
<1> USE DEF SessionIInv
<1>1. UNCHANGED received
  BY DEF ownVars
<1>2. CASE FlushLock(c)
  <2>1. UNCHANGED <<out, writeErr, frames>>
    BY <1>2 DEF FlushLock, netVars
  <2> QED
    BY <1>1, <2>1, SealsSame
<1>3. CASE FlushRefused(c) \/ FlushBroken(c)
  <2>1. /\ frames' = [frames EXCEPT ![c] = <<>>] /\ UNCHANGED out
        /\ UNCHANGED writeErr \/ writeErr' = [writeErr EXCEPT ![c] = "io"]
    BY <1>3 DEF FlushRefused, FlushBroken, AbortMessage, netVars
  <2>2. ASSUME NEW d \in Conn PROVE SealInv(d)'
    <3>1. Line(d)' = Line(d)
      BY <1>1, <2>1 DEF Line
    <3>2. frames'[d] = frames[d] \/ frames'[d] = <<>>
      BY <2>1 DEF SessionTypeOK
    <3>3. writeErr'[d] = writeErr[d] \/ writeErr'[d] # "nil"
      BY <2>1 DEF SessionTypeOK
    <3> QED
      BY <3>1, <3>2, <3>3, SealSame DEF CloseInv
  <2> QED
    BY <2>2 DEF CloseInv
<1>4. CASE Flush(c)
  <2> DEFINE f == Head(frames[c])
             rest == Tail(frames[c])
  <2>1. /\ wpc[c] # "idle" /\ writeErr[c] = "nil"
        /\ out' = [out EXCEPT ![c] = Append(@, f)]
        /\ frames' = [frames EXCEPT ![c] = rest] /\ UNCHANGED writeErr
    BY <1>4 DEF Flush
  <2>2. frames[c] \in Seq(Frame) /\ frames[c] # <<>> /\ f \in Frame
    BY <2>1, FrameLeft
  <2>3. \A i \in DOMAIN frames[c] : frames[c][i].op # "close"
    BY DEF CloseInv, SealInv
  <2>4. f.op # "close" /\ \A i \in DOMAIN rest : rest[i].op # "close"
    <3>1. /\ Len(frames[c]) \in Nat \ {0} /\ f = frames[c][1]
          /\ DOMAIN frames[c] = 1..Len(frames[c]) /\ DOMAIN rest = 1..(Len(frames[c]) - 1)
          /\ \A i \in 1..(Len(frames[c]) - 1) : rest[i] = frames[c][i + 1]
      BY <2>2
    <3> HIDE DEF f, rest
    <3>2. \A i \in DOMAIN rest : i + 1 \in DOMAIN frames[c]
      BY <3>1
    <3> QED
      BY <2>3, <3>1, <3>2
  <2> HIDE DEF f, rest
  <2>5. /\ out'[c] = Append(out[c], f) /\ frames'[c] = rest
        /\ \A d \in Conn : d # c => out'[d] = out[d] /\ frames'[d] = frames[d]
    BY <2>1 DEF SessionTypeOK
  <2>6. ASSUME NEW d \in Conn PROVE SealInv(d)'
    <3>1. CASE d = c
      <4>1. Line(c)' = Append(Line(c), f)
        BY <1>1, <2>2, <2>5, LineAppend
      <4> QED
        BY <2>1, <2>2, <2>4, <2>5, <3>1, <4>1, SealLonger DEF CloseInv
    <3>2. CASE d # c
      <4>1. Line(d)' = Line(d)
        BY <1>1, <2>5, <3>2 DEF Line
      <4> QED
        BY <2>1, <2>5, <3>2, <4>1, SealSame DEF CloseInv
    <3> QED
      BY <3>1, <3>2
  <2> QED
    BY <2>6 DEF CloseInv
<1> QED
  BY <1>2, <1>3, <1>4 DEF Writing

(* An answer is written, or not: a close frame leaves ErrCloseSent behind. *)
LEMMA SealControlling ==
  ASSUME SessionIInv, CloseInv, NEW c \in Conn, Controlling(c, "reader"), UNCHANGED ownVars
  PROVE  CloseInv'
<1> USE DEF SessionIInv
<1>1. UNCHANGED <<received, frames>>
  BY DEF ownVars, Controlling, ControlLock, ControlTimeout, ControlRefused, ControlBroken,
         ControlWrite, ControlReturns, writerVars
<1>2. CASE ControlWrite(c, "reader")
  <2> DEFINE op == kop[c]["reader"]
             f == ControlFrame(c, op)
  <2>1. /\ writeErr[c] = "nil" /\ out' = [out EXCEPT ![c] = Append(@, f)]
        /\ writeErr' = [writeErr EXCEPT ![c] = IF op = "close" THEN "closeSent" ELSE @]
    BY <1>2 DEF ControlWrite
  <2>2. op \in Control
    BY DEF SessionTypeOK, Who
  <2>3. f \in Frame /\ f.op = op
    <3> HIDE DEF op
    <3> QED
      BY <2>2, ControlFrameType
  <2> HIDE DEF f, op
  <2>4. /\ out'[c] = Append(out[c], f) /\ \A d \in Conn : d # c => out'[d] = out[d]
        /\ f.op = "close" => writeErr'[c] # "nil"
        /\ \A d \in Conn : d # c => writeErr'[d] = writeErr[d]
    BY <2>1, <2>3 DEF SessionTypeOK
  <2>5. ASSUME NEW d \in Conn PROVE SealInv(d)'
    <3>1. CASE d = c
      <4>1. Line(c)' = Append(Line(c), f)
        BY <1>1, <2>3, <2>4, LineAppend
      <4>2. \A i \in DOMAIN frames'[c] : frames'[c][i].op # "close"
        BY <1>1 DEF CloseInv, SealInv
      <4> QED
        BY <2>1, <2>3, <2>4, <3>1, <4>1, <4>2, SealLonger DEF CloseInv
    <3>2. CASE d # c
      <4>1. Line(d)' = Line(d)
        BY <1>1, <2>4, <3>2 DEF Line
      <4> QED
        BY <1>1, <2>4, <3>2, <4>1, SealSame DEF CloseInv
    <3> QED
      BY <3>1, <3>2
  <2> QED
    BY <2>5 DEF CloseInv
<1>3. CASE ~ControlWrite(c, "reader")
  <2>1. UNCHANGED out /\ (UNCHANGED writeErr \/ writeErr' = [writeErr EXCEPT ![c] = "io"])
    BY <1>3 DEF Controlling, ControlLock, ControlTimeout, ControlRefused, ControlBroken, netVars
  <2>2. ASSUME NEW d \in Conn PROVE SealInv(d)'
    <3>1. Line(d)' = Line(d)
      BY <1>1, <2>1 DEF Line
    <3>2. writeErr'[d] = writeErr[d] \/ writeErr'[d] # "nil"
      BY <2>1 DEF SessionTypeOK
    <3> QED
      BY <1>1, <3>1, <3>2, SealSame DEF CloseInv
  <2> QED
    BY <2>2 DEF CloseInv
<1> QED
  BY <1>2, <1>3

LEMMA CloseInvStep == SessionIInv /\ CloseInv /\ [WsNext]_wsVars => CloseInv'
<1> SUFFICES ASSUME SessionIInv, CloseInv, [WsNext]_wsVars PROVE CloseInv'
  OBVIOUS
<1>1. CASE Handler \/ UNCHANGED wsVars
  <2>1. UNCHANGED <<received, out, writeErr, frames>>
    BY <1>1 DEF Handler, ReceiveStop, CloseTarget, CloseBrowser, CloseConn, connVars,
                writerVars, wsVars, ownVars
  <2> QED
    BY <2>1, SealsSame
<1>2. ASSUME NEW c \in Conn,
             EndpointSend(c) \/ EndpointReceive(c) \/ EndpointClose(c) \/ Pump(c)
      PROVE  CloseInv'
  BY <1>2, SealOutside
<1>3. ASSUME NEW c \in Conn, Reading(c), UNCHANGED ownVars PROVE CloseInv'
  <2>1. UNCHANGED <<received, out, writeErr, frames>>
    BY <1>3 DEF Reading, ReadPong, ReadData, ReadLastData, TakeData, ReadPing, ReadClose,
                ReadObjectionable, ReadEnd, Answer, netVars, writerVars, ownVars
  <2> QED
    BY <2>1, SealsSame
<1>4. ASSUME NEW c \in Conn, ConnSteps(c) PROVE CloseInv'
  BY <1>3, <1>4, SealWriting, SealControlling DEF ConnSteps
<1> QED
  BY <1>1, <1>2, <1>4 DEF WsNext

(* Conn.write and Conn.WriteControl: whichever goroutine gets the token    *)
(* after a close frame was written, in the middle of a message or not,     *)
(* finds ErrCloseSent; an endpoint gets nothing behind its close frame.    *)
THEOREM NothingAfterCloseHolds == WsSpec => []NothingAfterClose
<1>1. WsInit => CloseInv
  <2> SUFFICES ASSUME WsInit, NEW c \in Conn PROVE SealInv(c)
    BY DEF CloseInv
  <2>1. received[c] = <<>> /\ out[c] = <<>> /\ frames[c] = <<>>
    BY DEF WsInit, ConnInit
  <2>2. Line(c) = <<>>
    BY <2>1, ConcatEmptySeq, EmptySeq DEF Line
  <2> QED
    BY <2>1, <2>2 DEF SealInv
<1>2. CloseInv => NothingAfterClose
  BY DEF CloseInv, SealInv, NothingAfterClose, Line
<1> QED
  BY <1>1, <1>2, SessionIInvHolds, CloseInvStep, PTL DEF WsSpec
=============================================================================
