----------------------------- MODULE RelayProofs ------------------------------
(***************************************************************************)
(* What the two Transports guarantee for every number of units, length of  *)
(* the buffer and capacity of the channel.  The lemmas about steps are     *)
(* stated for the relay's actions, not for its specification: TcpProxy and *)
(* Socks5 have the same actions behind a setup of their own.               *)
(***************************************************************************)
EXTENDS Relay, SequenceTheorems, TLAPS

(* Handle starts the Transports once. *)
StartInv ==
  session \in {"setup", "ready"} =>
    \A s \in Side : loop[s] = "off"

(* A Transport reads what was sent, and between reading and writing it     *)
(* holds the last units it has read.  Before it starts there is nothing.   *)
ChunkInv(s) ==
  /\ first[s] + Len(chunk[s]) <= taken[s] /\ taken[s] <= sent[s]
  /\ \A i \in 1..Len(chunk[s]) : chunk[s][i] = taken[s] - Len(chunk[s]) + i
  /\ chunk[s] # <<>> <=> loop[s] = "handle"
  /\ loop[s] = "off" => got[Peer(s)] = <<>>

(* What has arrived was sent before all that is still to be written, and   *)
(* in this order; what a handler made up aside.                            *)
ArrivedInv(s) ==
  /\ \A i \in 1..Len(got[Peer(s)]) :
       got[Peer(s)][i] # Inserted =>
         got[Peer(s)][i] \in Nat /\ got[Peer(s)][i] <= taken[s] - Len(chunk[s])
  /\ \A i, j \in 1..Len(got[Peer(s)]) :
       i < j /\ Inserted \notin {got[Peer(s)][i], got[Peer(s)][j]} =>
         got[Peer(s)][i] < got[Peer(s)][j]

(* Without a handler the units that have arrived follow those read before  *)
(* the start without a gap, and all that was read has arrived as long as   *)
(* the loop goes on and the endpoint receives.                             *)
PrefixInv(s) ==
  LET arrived == first[s] + Len(got[Peer(s)])
  IN /\ \A i \in 1..Len(got[Peer(s)]) : got[Peer(s)][i] = first[s] + i
     /\ arrived + Len(chunk[s]) <= taken[s]
     /\ loop[s] \in {"read", "handle"} /\ peer[Peer(s)] # "closed" =>
          taken[s] = arrived + Len(chunk[s])

DirInv(s) == ChunkInv(s) /\ ArrivedInv(s) /\ (~Intercepts => PrefixInv(s))

RelayIInv == TypeOK /\ StartInv /\ \A s \in Side : DirInv(s)

-----------------------------------------------------------------------------
(* Each side has the other one as its peer. *)
LEMMA Sides ==
  /\ Client \in Side /\ Target \in Side
  /\ \A s \in Side : Peer(s) \in Side /\ Peer(s) # s /\ Peer(Peer(s)) = s
  /\ \A s, q \in Side : q = s \/ q = Peer(s)
BY RelayAssumption DEF Side, Peer

(* What a read of n - m units yields. *)
LEMMA SegmentProperties ==
  ASSUME NEW m \in Nat, NEW n \in Nat, m <= n
  PROVE  /\ Segment(m, n) \in Seq(Units) /\ Len(Segment(m, n)) = n - m
         /\ \A i \in 1..(n - m) : Segment(m, n)[i] = m + i
<1>1. n - m \in Nat
  OBVIOUS
<1>2. Segment(m, n) \in [1..(n - m) -> Units]
  BY DEF Segment, Units
<1> QED
  BY <1>1, <1>2, SeqDef, LenProperties DEF Segment

(* A direction is as it was when its Transport did nothing. *)
LEMMA Frame ==
  ASSUME NEW q \in Side, DirInv(q), RelayIInv,
         first'[q] = first[q], taken'[q] = taken[q], chunk'[q] = chunk[q],
         loop'[q] = loop[q], got'[Peer(q)] = got[Peer(q)],
         sent'[q] \in Nat, sent'[q] >= sent[q],
         peer[Peer(q)] = "closed" => peer'[Peer(q)] = "closed"
  PROVE  DirInv(q)'
<1>1. ChunkInv(q)'
  BY DEF DirInv, ChunkInv, RelayIInv, TypeOK
<1>2. ArrivedInv(q)'
  BY DEF DirInv, ArrivedInv
<1>3. ~Intercepts => PrefixInv(q)'
  BY DEF DirInv, PrefixInv
<1> QED
  BY <1>1, <1>2, <1>3 DEF DirInv

(* The start of the Transports keeps the invariant. *)
LEMMA StartIInv ==
  ASSUME RelayIInv, Start
  PROVE  RelayIInv'
<1>1. /\ session = "ready" /\ session' = "relay"
      /\ loop' = [s \in Side |-> "read"] /\ first' = taken
      /\ UNCHANGED <<sent, peer, reset, conn, taken, chunk, buf, got, stop>>
  BY DEF Start, endpointVars
<1>2. \A s \in Side : loop[s] = "off"
  BY <1>1 DEF RelayIInv, StartInv
<1>3. TypeOK' /\ StartInv'
  BY <1>1 DEF RelayIInv, TypeOK, StartInv
<1>4. ASSUME NEW s \in Side PROVE DirInv(s)'
  <2>1. /\ got[Peer(s)] = <<>> /\ chunk[s] = <<>> /\ taken[s] <= sent[s]
        /\ taken[s] \in Nat
    BY <1>2 DEF RelayIInv, DirInv, ChunkInv, TypeOK
  <2>2. Len(got[Peer(s)]) = 0 /\ Len(chunk[s]) = 0
    BY <2>1
  <2>3. loop'[s] = "read" /\ first'[s] = taken[s]
    BY <1>1
  <2>4. ChunkInv(s)'
    BY <1>1, <2>1, <2>2, <2>3 DEF ChunkInv
  <2>5. ArrivedInv(s)' /\ PrefixInv(s)'
    BY <1>1, <2>1, <2>2, <2>3 DEF ArrivedInv, PrefixInv
  <2> QED
    BY <2>4, <2>5 DEF DirInv
<1> QED
  BY <1>3, <1>4 DEF RelayIInv

(* So do the end of the wait and the closing of the connections. *)
LEMMA EndingIInv ==
  ASSUME RelayIInv, ReceiveStop \/ CloseTarget \/ CloseClient
  PROVE  RelayIInv'
<1>1. /\ session' \in {"ending", "event", "closed"}
      /\ stop' \in {stop, stop - 1} /\ (stop' # stop => stop > 0)
      /\ \/ conn' = conn \/ \E s \in Side : conn' = [conn EXCEPT ![s] = FALSE]
      /\ UNCHANGED <<sent, peer, reset, taken, first, chunk, buf, loop, got>>
  BY Sides DEF ReceiveStop, CloseTarget, CloseClient, endpointVars
<1>2. StartInv'
  BY <1>1 DEF StartInv
<1>3. TypeOK'
  <2>1. conn' \in [Side -> BOOLEAN]
    BY <1>1 DEF RelayIInv, TypeOK
  <2>2. stop' \in 0..StopCap
    BY <1>1, RelayAssumption DEF RelayIInv, TypeOK
  <2> QED
    BY <1>1, <2>1, <2>2 DEF RelayIInv, TypeOK
<1>4. ASSUME NEW s \in Side PROVE DirInv(s)'
  <2>1. sent'[s] \in Nat /\ sent'[s] >= sent[s]
    BY <1>1 DEF RelayIInv, TypeOK
  <2>2. DirInv(s)
    BY DEF RelayIInv
  <2> QED
    BY <1>1, <2>1, <2>2, Frame
<1> QED
  BY <1>2, <1>3, <1>4 DEF RelayIInv

(* A step in which a side sends more, or stops, keeps the invariant, however *)
(* much it sends at once.                                                  *)
LEMMA SentIInv ==
  ASSUME RelayIInv,
         sent' \in [Side -> Nat], \A s \in Side : sent'[s] >= sent[s],
         peer' \in [Side -> {"open", "shut", "closed"}],
         \A s \in Side : peer[s] = "closed" => peer'[s] = "closed",
         reset' \in [Side -> BOOLEAN], UNCHANGED relayVars
  PROVE  RelayIInv'
<1>1. UNCHANGED <<conn, taken, first, chunk, buf, loop, got, stop, session>>
  BY DEF relayVars
<1>2. TypeOK' /\ StartInv'
  BY <1>1 DEF RelayIInv, TypeOK, StartInv
<1>3. ASSUME NEW s \in Side PROVE DirInv(s)'
  BY <1>1, Frame, Sides DEF RelayIInv
<1> QED
  BY <1>2, <1>3 DEF RelayIInv

(* So do the steps of an endpoint in particular. *)
LEMMA EndpointIInv ==
  ASSUME RelayIInv, NEW s \in Side, Endpoint(s)
  PROVE  RelayIInv'
<1>1. /\ sent' \in [Side -> Nat] /\ \A q \in Side : sent'[q] >= sent[q]
      /\ peer' \in [Side -> {"open", "shut", "closed"}]
      /\ \A q \in Side : peer[q] = "closed" => peer'[q] = "closed"
      /\ reset' \in [Side -> BOOLEAN]
      /\ UNCHANGED relayVars
  <2>1. CASE Send(s)
    BY <2>1, SMTT(30) DEF Send, RelayIInv, TypeOK
  <2>2. CASE Shut(s)
    BY <2>2 DEF Shut, RelayIInv, TypeOK
  <2>3. CASE Close(s)
    BY <2>3 DEF Close, RelayIInv, TypeOK
  <2> QED
    BY <2>1, <2>2, <2>3 DEF Endpoint
<1> QED
  BY <1>1, SentIInv

(* Before the Transports start, a proxy that reads some of what a side has *)
(* sent, dials or gives up keeps the invariant: the setup of TcpProxy and  *)
(* of Socks5.                                                              *)
SetupStep ==
  /\ \A s \in Side : loop[s] = "off"
  /\ taken' \in [Side -> Nat]
  /\ \A s \in Side : taken[s] <= taken'[s] /\ taken'[s] <= sent[s]
  /\ conn' \in [Side -> BOOLEAN]
  /\ session' \in {"setup", "ready", "relay", "ending", "event", "closed"}
  /\ UNCHANGED <<endpointVars, reset, first, chunk, buf, loop, got, stop>>

(* What the setup does before the relay keeps its invariant.               *)
LEMMA SetupIInv ==
  ASSUME RelayIInv, SetupStep
  PROVE  RelayIInv'
<1>1. UNCHANGED <<sent, peer, reset, first, chunk, buf, loop, got, stop>>
  BY DEF SetupStep, endpointVars
<1>2. TypeOK' /\ StartInv'
  BY <1>1 DEF SetupStep, RelayIInv, TypeOK, StartInv
<1>3. ASSUME NEW s \in Side PROVE DirInv(s)'
  <2>1. /\ loop[s] = "off" /\ chunk[s] = <<>> /\ got[Peer(s)] = <<>>
        /\ Len(chunk[s]) = 0 /\ Len(got[Peer(s)]) = 0
    BY DEF SetupStep, RelayIInv, DirInv, ChunkInv
  <2>2. /\ first[s] \in Nat /\ taken[s] \in Nat /\ taken'[s] \in Nat
        /\ first[s] <= taken[s] /\ taken[s] <= taken'[s] /\ taken'[s] <= sent[s]
    BY <2>1 DEF SetupStep, RelayIInv, TypeOK, DirInv, ChunkInv
  <2>3. ChunkInv(s)'
    BY <1>1, <2>1, <2>2 DEF ChunkInv
  <2>4. ArrivedInv(s)' /\ PrefixInv(s)'
    BY <1>1, <2>1, <2>2 DEF ArrivedInv, PrefixInv
  <2> QED
    BY <2>3, <2>4 DEF DirInv
<1> QED
  BY <1>2, <1>3 DEF RelayIInv

-----------------------------------------------------------------------------
(* The steps of a Transport. *)

(* A read takes the next units and nothing else.                           *)
LEMMA ReadDataIInv ==
  ASSUME RelayIInv, NEW s \in Side, ReadData(s)
  PROVE  RelayIInv'
<1>1. PICK n \in 1..buf[s] :
        /\ taken[s] + n <= sent[s]
        /\ chunk' = [chunk EXCEPT ![s] = Segment(taken[s], taken[s] + n)]
        /\ taken' = [taken EXCEPT ![s] = @ + n]
        /\ buf' = [buf EXCEPT ![s] = n]
  BY DEF ReadData
<1>2. /\ loop[s] = "read" /\ loop' = [loop EXCEPT ![s] = "handle"]
      /\ UNCHANGED <<sent, peer, reset, conn, first, got, stop, session>>
  BY DEF ReadData, endpointVars
<1>3. /\ taken[s] \in Nat /\ sent[s] \in Nat /\ first[s] \in Nat /\ buf[s] \in 1..BufLen
      /\ n \in Nat \ {0} /\ n \in 1..BufLen
  BY <1>1, RelayAssumption DEF RelayIInv, TypeOK
<1> DEFINE w == Segment(taken[s], taken[s] + n)
<1>4. /\ w \in Seq(Units) /\ Len(w) = n
      /\ \A i \in 1..n : w[i] = taken[s] + i
  <2>1. taken[s] + n \in Nat /\ taken[s] <= taken[s] + n /\ (taken[s] + n) - taken[s] = n
    BY <1>3
  <2> QED
    BY <1>3, <2>1, SegmentProperties
<1> HIDE DEF w
<1>5. /\ chunk' = [chunk EXCEPT ![s] = w] /\ chunk'[s] = w
      /\ taken'[s] = taken[s] + n /\ loop'[s] = "handle"
  BY <1>1, <1>2 DEF w, RelayIInv, TypeOK
<1>6. TypeOK'
  BY <1>1, <1>2, <1>3, <1>4, <1>5, SMTT(30) DEF RelayIInv, TypeOK
<1>7. StartInv'
  BY <1>2 DEF RelayIInv, StartInv
<1>8. DirInv(s)'
  <2>1. chunk[s] = <<>> /\ Len(chunk[s]) = 0 /\ first[s] <= taken[s]
    BY <1>2, <1>3 DEF RelayIInv, DirInv, ChunkInv
  <2>2. taken'[s] - Len(chunk'[s]) = taken[s] - Len(chunk[s])
    BY <1>3, <1>4, <1>5, <2>1
  <2>3. w # <<>>
    BY <1>3, <1>4
  <2>4. ChunkInv(s)'
    BY <1>1, <1>2, <1>3, <1>4, <1>5, <2>1, <2>2, <2>3 DEF ChunkInv
  <2>5. ArrivedInv(s)'
    BY <1>2, <2>2, Zenon DEF RelayIInv, DirInv, ArrivedInv
  <2>6. ASSUME ~Intercepts PROVE PrefixInv(s)'
    <3>1. Len(got[Peer(s)]) \in Nat
      BY Sides, LenProperties DEF RelayIInv, TypeOK
    <3> QED
      BY <1>2, <1>3, <1>4, <1>5, <2>1, <2>6, <3>1, SMTT(30) DEF RelayIInv, DirInv, PrefixInv
  <2> QED
    BY <2>4, <2>5, <2>6 DEF DirInv
<1>9. DirInv(Peer(s))'
  <2> DEFINE q == Peer(s)
  <2>1. q \in Side /\ q # s /\ Peer(q) = s
    BY Sides
  <2>2. /\ taken'[q] = taken[q] /\ chunk'[q] = chunk[q] /\ loop'[q] = loop[q]
    BY <1>1, <1>2, <2>1 DEF RelayIInv, TypeOK
  <2>3. DirInv(q) /\ sent'[q] \in Nat /\ sent'[q] >= sent[q]
    BY <1>2, <2>1 DEF RelayIInv, TypeOK
  <2> HIDE DEF q
  <2>4. DirInv(q)'
    BY <1>2, <2>1, <2>2, <2>3, Frame
  <2> QED
    BY <2>4 DEF q
<1>10. \A q \in Side : DirInv(q)'
  BY <1>8, <1>9, Sides
<1> QED
  BY <1>6, <1>7, <1>10 DEF RelayIInv

(* The end of the stream, an error, and the report of one. *)
LEMMA LoopEndsIInv ==
  ASSUME RelayIInv, NEW s \in Side, ReadEof(s) \/ ReadError(s) \/ Signal(s)
  PROVE  RelayIInv'
<1>1. /\ loop[s] \in {"read", "signal"}
      /\ \E l \in {"signal", "ended"} : loop' = [loop EXCEPT ![s] = l]
      /\ stop' \in {stop, stop + 1} /\ (stop' # stop => stop < StopCap)
      /\ UNCHANGED <<sent, peer, reset, conn, taken, first, chunk, buf, got, session>>
  BY DEF ReadEof, ReadError, Signal, OnErr, endpointVars
<1>2. StartInv'
  BY <1>1 DEF RelayIInv, StartInv
<1>3. TypeOK'
  <2>1. stop' \in 0..StopCap
    BY <1>1, RelayAssumption DEF RelayIInv, TypeOK
  <2>2. loop' \in [Side -> {"off", "read", "handle", "signal", "ended"}]
    BY <1>1 DEF RelayIInv, TypeOK
  <2> QED
    BY <1>1, <2>1, <2>2 DEF RelayIInv, TypeOK
<1>4. ASSUME NEW q \in Side PROVE DirInv(q)'
  <2>1. DirInv(q) /\ sent'[q] \in Nat /\ sent'[q] >= sent[q]
    BY <1>1 DEF RelayIInv, TypeOK
  <2>2. CASE q = s
    <3>1. loop'[q] \in {"signal", "ended"}
      BY <1>1, <2>2 DEF RelayIInv, TypeOK
    <3>2. ChunkInv(q)'
      BY <1>1, <2>1, <2>2, <3>1 DEF DirInv, ChunkInv
    <3>3. ArrivedInv(q)' /\ (~Intercepts => PrefixInv(q)')
      BY <1>1, <2>1, <3>1 DEF DirInv, ArrivedInv, PrefixInv
    <3> QED
      BY <3>2, <3>3 DEF DirInv
  <2>3. CASE q # s
    <3>1. loop'[q] = loop[q]
      BY <1>1, <2>3 DEF RelayIInv, TypeOK
    <3> QED
      BY <1>1, <2>1, <3>1, Frame
  <2> QED
    BY <2>2, <2>3
<1> QED
  BY <1>2, <1>3, <1>4 DEF RelayIInv

(* Handing over w for what was read, or nothing: the common part of Write, *)
(* WriteFail and Intercept.                                                *)
Later(w, n) ==
  /\ \A i \in 1..Len(w) : w[i] # Inserted => w[i] \in Nat /\ n < w[i]
  /\ \A i, j \in 1..Len(w) :
       i < j /\ Inserted \notin {w[i], w[j]} => w[i] < w[j]

HandOver(s, w, l) ==
  /\ loop[s] = "handle" /\ loop' = [loop EXCEPT ![s] = l]
  /\ chunk' = [chunk EXCEPT ![s] = <<>>]
  /\ reset' \in [Side -> BOOLEAN]
  /\ got' \in {got, [got EXCEPT ![Peer(s)] = @ \o w]}
  /\ UNCHANGED <<sent, peer, conn, taken, first, buf, stop, session>>

(* The units that arrive follow those that have arrived. *)
LEMMA ArrivedAfter ==
  ASSUME NEW g \in Seq(Units), NEW w \in Seq(Units), NEW n \in Nat, NEW m \in Nat,
         \A i \in 1..Len(g) : g[i] # Inserted => g[i] \in Nat /\ g[i] <= n,
         \A i, j \in 1..Len(g) :
           i < j /\ Inserted \notin {g[i], g[j]} => g[i] < g[j],
         Later(w, n), \A i \in 1..Len(w) : w[i] # Inserted => w[i] <= m,
         n <= m,
         NEW h, h = g \o w
  PROVE  /\ \A i \in 1..Len(h) : h[i] # Inserted => h[i] \in Nat /\ h[i] <= m
         /\ \A i, j \in 1..Len(h) :
              i < j /\ Inserted \notin {h[i], h[j]} => h[i] < h[j]
<1>1. /\ Len(g) \in Nat /\ Len(w) \in Nat /\ Len(h) = Len(g) + Len(w)
      /\ \A i \in 1..Len(h) : h[i] = IF i <= Len(g) THEN g[i] ELSE w[i - Len(g)]
  BY ConcatProperties, LenProperties
<1>2. ASSUME NEW i \in 1..Len(h), h[i] # Inserted
      PROVE  /\ h[i] \in Nat /\ h[i] <= m
             /\ i <= Len(g) => i \in 1..Len(g) /\ h[i] = g[i] /\ h[i] <= n
             /\ i > Len(g) => i - Len(g) \in 1..Len(w) /\ h[i] = w[i - Len(g)] /\ n < h[i]
  <2>1. CASE i <= Len(g)
    <3>1. i \in 1..Len(g) /\ h[i] = g[i]
      BY <1>1, <2>1
    <3>2. g[i] \in Nat /\ g[i] <= n
      BY <1>2, <3>1
    <3> QED
      BY <2>1, <3>1, <3>2, <1>1
  <2>2. CASE i > Len(g)
    <3>1. i - Len(g) \in 1..Len(w) /\ h[i] = w[i - Len(g)]
      BY <1>1, <2>2
    <3>2. w[i - Len(g)] \in Nat /\ w[i - Len(g)] <= m /\ n < w[i - Len(g)]
      BY <1>2, <3>1 DEF Later
    <3> QED
      BY <2>2, <3>1, <3>2, <1>1
  <2> QED
    BY <2>1, <2>2, <1>1
<1>3. ASSUME NEW i \in 1..Len(h), NEW j \in 1..Len(h), i < j,
             h[i] # Inserted, h[j] # Inserted
      PROVE  h[i] < h[j]
  <2>1. CASE j <= Len(g)
    <3>1. i <= Len(g)
      BY <1>1, <1>3, <2>1
    <3> QED
      BY <1>2, <1>3, <2>1, <3>1
  <2>2. CASE i <= Len(g) /\ j > Len(g)
    BY <1>2, <1>3, <2>2
  <2>3. CASE i > Len(g)
    <3> DEFINE a == i - Len(g)
               b == j - Len(g)
    <3>1. a \in 1..Len(w) /\ b \in 1..Len(w) /\ h[i] = w[a] /\ h[j] = w[b] /\ a < b
      BY <1>1, <1>2, <1>3, <2>3
    <3> HIDE DEF a, b
    <3> QED
      BY <1>3, <3>1 DEF Later
  <2> QED
    BY <1>1, <2>1, <2>2, <2>3
<1> QED
  BY <1>2, <1>3

(* The units that arrive continue those that have arrived. *)
LEMMA PrefixAfter ==
  ASSUME NEW g \in Seq(Units), NEW w \in Seq(Units), NEW f \in Nat, NEW t \in Nat,
         t = f + Len(g) + Len(w),
         \A i \in 1..Len(g) : g[i] = f + i,
         \A i \in 1..Len(w) : w[i] = t - Len(w) + i
  PROVE  t = f + Len(g \o w) /\ \A i \in 1..Len(g \o w) : (g \o w)[i] = f + i
<1>1. Len(g) \in Nat /\ Len(w) \in Nat
  BY LenProperties
<1>2. PICK h : h = g \o w
  OBVIOUS
<1>3. /\ Len(h) = Len(g) + Len(w)
      /\ \A i \in 1..Len(h) : h[i] = IF i <= Len(g) THEN g[i] ELSE w[i - Len(g)]
  BY <1>2, ConcatProperties
<1>4. \A i \in 1..Len(w) : w[i] = f + Len(g) + i
  BY <1>1
<1>5. \A i \in 1..Len(h) : h[i] = f + i
  <2> SUFFICES ASSUME NEW i \in 1..Len(h) PROVE h[i] = f + i
    OBVIOUS
  <2>1. CASE i <= Len(g)
    BY <1>1, <1>3, <2>1
  <2>2. CASE i > Len(g)
    <3>1. i - Len(g) \in 1..Len(w) /\ h[i] = w[i - Len(g)]
      BY <1>1, <1>3, <2>2
    <3>2. w[i - Len(g)] = f + Len(g) + (i - Len(g))
      BY <1>4, <3>1
    <3> QED
      BY <1>1, <3>1, <3>2
  <2> QED
    BY <1>1, <1>3, <2>1, <2>2
<1>6. t = f + Len(h)
  BY <1>1, <1>3
<1> QED
  BY <1>2, <1>5, <1>6, Zenon

(* Handing over keeps the invariant. *)
LEMMA HandOverIInv ==
  ASSUME RelayIInv, NEW s \in Side, NEW w \in Seq(Units),
         NEW l \in {"read", "signal", "ended"}, HandOver(s, w, l),
         Later(w, taken[s] - Len(chunk[s])),
         \A i \in 1..Len(w) : w[i] # Inserted => w[i] <= taken[s],
         ~Intercepts => \/ /\ got' = [got EXCEPT ![Peer(s)] = @ \o w] /\ w = chunk[s]
                           /\ peer[Peer(s)] # "closed"
                        \/ got' = got /\ (peer[Peer(s)] = "closed" \/ l # "read")
  PROVE  RelayIInv'
<1> DEFINE p == Peer(s)
<1>1. p \in Side /\ p # s /\ Peer(p) = s
  BY Sides
<1>2. /\ loop'[s] = l /\ loop'[p] = loop[p]
      /\ chunk'[s] = <<>> /\ chunk'[p] = chunk[p]
      /\ got'[s] = got[s] /\ got'[p] \in {got[p], got[p] \o w}
      /\ UNCHANGED <<sent, peer, conn, taken, first, buf, stop, session>>
  BY <1>1 DEF HandOver, RelayIInv, TypeOK
<1>3. /\ got[p] \in Seq(Units) /\ chunk[s] \in Seq(Units)
      /\ taken[s] \in Nat /\ first[s] \in Nat /\ sent[s] \in Nat
      /\ Len(chunk[s]) \in Nat /\ Len(got[p]) \in Nat
      /\ Len(chunk'[s]) = 0
  BY <1>1, <1>2, LenProperties DEF RelayIInv, TypeOK
<1>4. /\ first[s] + Len(chunk[s]) <= taken[s] /\ taken[s] <= sent[s]
      /\ taken[s] - Len(chunk[s]) \in Nat
      /\ \A i \in 1..Len(chunk[s]) : chunk[s][i] = taken[s] - Len(chunk[s]) + i
  BY <1>3 DEF RelayIInv, DirInv, ChunkInv
<1>5. TypeOK'
  <2>1. got[p] \o w \in Seq(Units)
    BY <1>3, ConcatProperties
  <2>2. got' \in [Side -> Seq(Units)]
    BY <1>1, <2>1 DEF HandOver, RelayIInv, TypeOK
  <2>3. chunk' \in [Side -> Seq(Units)]
    BY EmptySeq DEF HandOver, RelayIInv, TypeOK
  <2> QED
    BY <2>2, <2>3 DEF HandOver, RelayIInv, TypeOK
<1>6. StartInv'
  BY DEF HandOver, RelayIInv, StartInv
<1>7. DirInv(s)'
  <2>1. ChunkInv(s)'
    BY <1>2, <1>3, <1>4, SMTT(30) DEF ChunkInv
  <2>2. ArrivedInv(s)'
    <3>1. /\ \A i \in 1..Len(got[p]) :
               got[p][i] # Inserted => got[p][i] \in Nat /\ got[p][i] <= taken[s] - Len(chunk[s])
          /\ \A i, j \in 1..Len(got[p]) :
               i < j /\ Inserted \notin {got[p][i], got[p][j]} => got[p][i] < got[p][j]
      BY DEF RelayIInv, DirInv, ArrivedInv
    <3>2. taken[s] - Len(chunk[s]) <= taken[s] /\ taken'[s] - Len(chunk'[s]) = taken[s]
      BY <1>2, <1>3
    <3>3. /\ \A i \in 1..Len(got'[p]) :
               got'[p][i] # Inserted => got'[p][i] \in Nat /\ got'[p][i] <= taken[s]
          /\ \A i, j \in 1..Len(got'[p]) :
               i < j /\ Inserted \notin {got'[p][i], got'[p][j]} => got'[p][i] < got'[p][j]
      <4>1. CASE got'[p] = got[p]
        BY <1>3, <1>4, <3>1, <3>2, <4>1
      <4>2. CASE got'[p] = got[p] \o w
        BY <1>3, <1>4, <3>1, <3>2, <4>2, ArrivedAfter
      <4> QED
        BY <1>2, <4>1, <4>2
    <3> QED
      BY <3>2, <3>3, Zenon DEF ArrivedInv
  <2>3. ASSUME ~Intercepts PROVE PrefixInv(s)'
    <3>1. /\ \A i \in 1..Len(got[p]) : got[p][i] = first[s] + i
          /\ first[s] + Len(got[p]) + Len(chunk[s]) <= taken[s]
          /\ peer[p] # "closed" => taken[s] = first[s] + Len(got[p]) + Len(chunk[s])
      BY <2>3 DEF RelayIInv, DirInv, PrefixInv, HandOver
    <3>2. Len(got'[p]) \in Nat /\ first'[s] = first[s] /\ taken'[s] = taken[s]
      BY <1>1, <1>2, <1>5, LenProperties DEF TypeOK
    <3>3. CASE got'[p] = got[p] /\ (peer[p] = "closed" \/ l # "read")
      BY <1>2, <1>3, <3>1, <3>2, <3>3 DEF PrefixInv
    <3>4. CASE got'[p] = got[p] \o w /\ w = chunk[s] /\ peer[p] # "closed"
      <4>1. /\ taken[s] = first[s] + Len(got[p]) + Len(w)
            /\ \A i \in 1..Len(got[p]) : got[p][i] = first[s] + i
            /\ \A i \in 1..Len(w) : w[i] = taken[s] - Len(w) + i
            /\ got'[p] = got[p] \o w
        BY <1>4, <3>1, <3>4, Zenon
      <4>2. /\ taken[s] = first[s] + Len(got'[p])
            /\ \A i \in 1..Len(got'[p]) : got'[p][i] = first[s] + i
        <5> DEFINE g == got[p]
                   f == first[s]
                   t == taken[s]
        <5>1. /\ g \in Seq(Units) /\ f \in Nat /\ t \in Nat
              /\ t = f + Len(g) + Len(w)
              /\ \A i \in 1..Len(g) : g[i] = f + i
              /\ \A i \in 1..Len(w) : w[i] = t - Len(w) + i
          BY <1>3, <4>1, Zenon
        <5> HIDE DEF g, f, t
        <5>2. t = f + Len(g \o w) /\ \A i \in 1..Len(g \o w) : (g \o w)[i] = f + i
          BY <5>1, PrefixAfter
        <5> QED
          BY <4>1, <5>2, Zenon DEF g, f, t
      <4>3. /\ taken'[s] = first'[s] + Len(got'[p]) + Len(chunk'[s])
            /\ first'[s] + Len(got'[p]) + Len(chunk'[s]) <= taken'[s]
        BY <1>3, <3>2, <4>2
      <4> QED
        BY <3>2, <4>2, <4>3, Zenon DEF PrefixInv
    <3>5. got' = [got EXCEPT ![p] = @ \o w] => got'[p] = got[p] \o w
      BY <1>1 DEF RelayIInv, TypeOK
    <3> QED
      BY <2>3, <3>3, <3>4, <3>5
  <2> QED
    BY <2>1, <2>2, <2>3 DEF DirInv
<1>8. DirInv(p)'
  <2>1. DirInv(p) /\ sent'[p] \in Nat /\ sent'[p] >= sent[p]
    BY <1>1, <1>2 DEF RelayIInv, TypeOK
  <2> HIDE DEF p
  <2> QED
    BY <1>1, <1>2, <2>1, Frame
<1>9. \A q \in Side : DirInv(q)'
  BY <1>7, <1>8, Sides
<1> QED
  BY <1>5, <1>6, <1>9 DEF RelayIInv

(* What was read, what is left of it without its first unit, and the same  *)
(* with a unit that a handler made up: all of it is later than what has    *)
(* arrived.                                                                *)
LEMMA ChunkIsLater ==
  ASSUME NEW c \in Seq(Units), c # <<>>, NEW n \in Nat,
         \A i \in 1..Len(c) : c[i] = n + i,
         NEW w \in {c, Tail(c), Append(c, Inserted)}
  PROVE  /\ w \in Seq(Units) /\ Later(w, n)
         /\ \A i \in 1..Len(w) : w[i] # Inserted => w[i] <= n + Len(c)
<1>1. Len(c) \in Nat /\ Len(c) > 0 /\ Inserted \in Units
  BY LenProperties, EmptySeq DEF Units
<1>2. CASE w = c
  <2>1. \A i \in 1..Len(c) : c[i] \in Nat /\ n < c[i] /\ c[i] <= n + Len(c)
    BY <1>1
  <2>2. \A i, j \in 1..Len(c) : i < j => c[i] < c[j]
    BY <1>1
  <2> QED
    BY <1>2, <2>1, <2>2, Zenon DEF Later
<1>3. CASE w = Tail(c)
  <2>1. /\ w \in Seq(Units) /\ Len(w) = Len(c) - 1
        /\ \A i \in 1..Len(w) : w[i] = c[i + 1]
    BY <1>3, HeadTailProperties
  <2>2. \A i \in 1..Len(w) : i + 1 \in 1..Len(c) /\ w[i] = n + i + 1
    BY <1>1, <2>1
  <2>3. \A i \in 1..Len(w) : w[i] \in Nat /\ n < w[i] /\ w[i] <= n + Len(c)
    BY <1>1, <2>1, <2>2
  <2>4. \A i, j \in 1..Len(w) : i < j => w[i] < w[j]
    BY <1>1, <2>1, <2>2
  <2> QED
    BY <2>1, <2>3, <2>4, Zenon DEF Later
<1>4. CASE w = Append(c, Inserted)
  <2>1. /\ w \in Seq(Units) /\ Len(w) = Len(c) + 1
        /\ \A i \in 1..Len(c) : w[i] = c[i]
        /\ w[Len(c) + 1] = Inserted
    BY <1>1, <1>4, AppendProperties
  <2>2. \A i \in 1..Len(w) : i \in 1..Len(c) \/ w[i] = Inserted
    BY <1>1, <2>1
  <2>3. \A i \in 1..Len(c) : w[i] \in Nat /\ n < w[i] /\ w[i] <= n + Len(c)
    BY <1>1, <2>1
  <2>4. \A i, j \in 1..Len(c) : i < j => w[i] < w[j]
    BY <1>1, <2>1
  <2> QED
    BY <2>1, <2>2, <2>3, <2>4, Zenon DEF Later
<1> QED
  BY <1>2, <1>3, <1>4

(* Writing, with or without a handler, and failing to write.               *)
LEMMA WriteIInv ==
  ASSUME RelayIInv, NEW s \in Side, Write(s) \/ WriteFail(s) \/ Intercept(s)
  PROVE  RelayIInv'
<1> DEFINE p == Peer(s)
           c == chunk[s]
           n == taken[s] - Len(c)
<1>1. /\ loop[s] = "handle" /\ chunk' = [chunk EXCEPT ![s] = <<>>]
      /\ UNCHANGED <<sent, peer, conn, taken, first, buf, stop, session>>
  BY DEF Write, WriteFail, Intercept, endpointVars
<1>2. /\ c \in Seq(Units) /\ c # <<>> /\ n \in Nat /\ Len(c) \in Nat
      /\ \A i \in 1..Len(c) : c[i] = n + i
      /\ taken[s] = n + Len(c)
  <2>1. /\ c \in Seq(Units) /\ Len(c) \in Nat /\ taken[s] \in Nat /\ first[s] \in Nat
    BY LenProperties DEF RelayIInv, TypeOK
  <2>2. /\ c # <<>> /\ first[s] + Len(c) <= taken[s]
        /\ \A i \in 1..Len(c) : c[i] = taken[s] - Len(c) + i
    BY <1>1 DEF RelayIInv, DirInv, ChunkInv
  <2> QED
    BY <2>1, <2>2
<1>3. p \in Side
  BY Sides
<1>4. ASSUME NEW w, Arrive(p, w)
      PROVE  /\ reset' \in [Side -> BOOLEAN]
             /\ \/ got' = [got EXCEPT ![p] = @ \o w] /\ peer[p] # "closed"
                \/ got' = got /\ peer[p] = "closed"
  BY <1>3, <1>4 DEF Arrive, RelayIInv, TypeOK
<1>5. CASE Write(s)
  <2>1. Arrive(p, c) /\ loop' = [loop EXCEPT ![s] = "read"]
    BY <1>5 DEF Write, OnHandled, OnErr
  <2>2. HandOver(s, c, "read")
    BY <1>1, <1>4, <2>1 DEF HandOver
  <2>3. Later(c, n) /\ \A i \in 1..Len(c) : c[i] # Inserted => c[i] <= taken[s]
    BY <1>2, ChunkIsLater
  <2> QED
    BY <1>2, <1>4, <2>1, <2>2, <2>3, HandOverIInv
<1>6. CASE WriteFail(s)
  <2>1. loop' = [loop EXCEPT ![s] = "signal"] /\ UNCHANGED <<got, reset>>
    BY <1>6 DEF WriteFail, OnHandled, OnErr
  <2>2. HandOver(s, c, "signal")
    BY <1>1, <2>1 DEF HandOver, RelayIInv, TypeOK
  <2>3. Later(c, n) /\ \A i \in 1..Len(c) : c[i] # Inserted => c[i] <= taken[s]
    BY <1>2, ChunkIsLater
  <2> QED
    BY <1>2, <2>1, <2>2, <2>3, HandOverIInv
<1>7. CASE Intercept(s)
  <2>1. PICK w \in {c, Tail(c), Append(c, Inserted)},
             l \in {"read", "signal", "ended"} :
          /\ Arrive(p, w) \/ UNCHANGED <<reset, got>>
          /\ loop' = [loop EXCEPT ![s] = l]
    BY <1>7 DEF Intercept, OnHandled, OnErr
  <2>2. HandOver(s, w, l) /\ Intercepts
    BY <1>1, <1>4, <1>7, <2>1 DEF HandOver, Intercept, RelayIInv, TypeOK
  <2>3. /\ w \in Seq(Units) /\ Later(w, n)
        /\ \A i \in 1..Len(w) : w[i] # Inserted => w[i] <= taken[s]
    BY <1>2, ChunkIsLater
  <2> QED
    BY <2>2, <2>3, HandOverIInv
<1> QED
  BY <1>5, <1>6, <1>7

(* Every step of a Transport, and every step of Handle, keeps the          *)
(* invariant.                                                              *)
LEMMA TransportIInv ==
  ASSUME RelayIInv, NEW s \in Side, Transport(s)
  PROVE  RelayIInv'
BY ReadDataIInv, LoopEndsIInv, WriteIInv DEF Transport

(* The steps of Handle keep the invariant.                                 *)
LEMMA HandleIInv ==
  ASSUME RelayIInv, Handle
  PROVE  RelayIInv'
BY StartIInv, EndingIInv DEF Handle

(* Nothing changes. *)
LEMMA UnchangedIInv ==
  ASSUME RelayIInv, UNCHANGED vars
  PROVE  RelayIInv'
<1>1. UNCHANGED relayVars /\ UNCHANGED <<sent, peer, reset>>
  BY DEF vars, relayVars
<1>2. sent' \in [Side -> Nat] /\ \A s \in Side : sent'[s] >= sent[s]
  BY <1>1 DEF RelayIInv, TypeOK
<1>3. /\ peer' \in [Side -> {"open", "shut", "closed"}]
      /\ \A s \in Side : peer[s] = "closed" => peer'[s] = "closed"
      /\ reset' \in [Side -> BOOLEAN]
  BY <1>1 DEF RelayIInv, TypeOK
<1> QED
  BY <1>1, <1>2, <1>3, SentIInv

-----------------------------------------------------------------------------
(* Invariants of the relay on its own. *)

(* It holds when a relay begins,                                           *)
LEMMA InitRelayIInv == Init => RelayIInv
<1> SUFFICES ASSUME Init PROVE RelayIInv
  OBVIOUS
<1>1. TypeOK
  BY RelayAssumption, EmptySeq DEF Init, TypeOK
<1>2. StartInv
  BY DEF Init, StartInv
<1>3. ASSUME NEW s \in Side PROVE DirInv(s)
  <2>1. /\ sent[s] = 0 /\ taken[s] = 0 /\ first[s] = 0 /\ chunk[s] = <<>>
        /\ loop[s] = "off" /\ got[Peer(s)] = <<>>
    BY Sides DEF Init
  <2>2. Len(chunk[s]) = 0 /\ Len(got[Peer(s)]) = 0
    BY <2>1
  <2> QED
    BY <2>1, <2>2 DEF DirInv, ChunkInv, ArrivedInv, PrefixInv
<1> QED
  BY <1>1, <1>2, <1>3 DEF RelayIInv

(* every step of the relay and of the endpoints keeps it,                  *)
LEMMA NextRelayIInv == RelayIInv /\ [Next]_vars => RelayIInv'
BY HandleIInv, TransportIInv, EndpointIInv, UnchangedIInv DEF Next

(* and by it what has arrived is in order.                                 *)
LEMMA RelayIInvIncreasing == RelayIInv => Increasing
<1> SUFFICES ASSUME RelayIInv, NEW s \in Side PROVE ArrivedInv(Peer(s))
  BY Sides DEF Increasing, ArrivedInv
<1> QED
  BY Sides DEF RelayIInv, DirInv

(* Transport: whatever a user's handler drops or inserts and however the   *)
(* reads fall, the units that do arrive arrive once and in order, for      *)
(* every number of them and every length of the buffer.                    *)
THEOREM IncreasingHolds == Spec => []Increasing
<1>1. Spec => []RelayIInv
  BY InitRelayIInv, NextRelayIInv, PTL DEF Spec
<1> QED
  BY <1>1, RelayIInvIncreasing, PTL

-----------------------------------------------------------------------------
(* The relay implements Pipe, as long as no handler is registered. *)

(* Pipe has the same sides.                                                *)
LEMMA OtherIsPeer == \A s \in Side : P!Other(s) = Peer(s)
BY Sides DEF P!Other

(* What the mapping makes of sent is a number of units. *)
LEMMA PipeSentType == RelayIInv => PipeSent \in [Side -> Nat]
<1> SUFFICES ASSUME RelayIInv, NEW s \in Side, loop[s] # "off"
             PROVE  sent[s] - first[s] \in Nat
  BY DEF PipeSent
<1>1. sent[s] \in Nat /\ first[s] \in Nat /\ taken[s] \in Nat /\ Len(chunk[s]) \in Nat
  BY LenProperties DEF RelayIInv, TypeOK
<1>2. first[s] + Len(chunk[s]) <= taken[s] /\ taken[s] <= sent[s]
  BY DEF RelayIInv, DirInv, ChunkInv
<1> QED
  BY <1>1, <1>2

(* A step in which nothing arrives is a Send of Pipe, of no units at least. *)
LEMMA NothingArrives ==
  ASSUME RelayIInv, RelayIInv', got' = got,
         \A s \in Side :
           /\ sent'[s] >= sent[s]
           /\ loop[s] # "off" => loop'[s] # "off" /\ first'[s] = first[s]
  PROVE  P!Send
<1>1. /\ PipeSent \in [Side -> Nat] /\ PipeSent' \in [Side -> Nat]
      /\ \A s \in Side : /\ PipeSent[s] = IF loop[s] = "off" THEN 0 ELSE sent[s] - first[s]
                         /\ PipeSent'[s] = IF loop'[s] = "off" THEN 0 ELSE sent'[s] - first'[s]
  <2>1. (PipeSent \in [Side -> Nat])'
    BY PipeSentType, PTL
  <2> QED
    BY <2>1, PipeSentType DEF PipeSent
<1>2. ASSUME NEW s \in Side PROVE PipeSent'[s] >= PipeSent[s]
  <2>1. /\ sent[s] \in Nat /\ sent'[s] \in Nat /\ first[s] \in Nat /\ first'[s] \in Nat
        /\ PipeSent'[s] \in Nat
    BY <1>1 DEF RelayIInv, TypeOK
  <2> QED
    BY <1>1, <2>1
<1>3. PipeGot' = PipeGot
  <2>1. ASSUME NEW s \in Side
        PROVE  [i \in 1..Len(got[s]) |-> got[s][i] - first'[Peer(s)]]
                 = [i \in 1..Len(got[s]) |-> got[s][i] - first[Peer(s)]]
    <3>1. CASE loop[Peer(s)] # "off"
      BY <3>1, Sides
    <3>2. CASE loop[Peer(s)] = "off"
      <4>1. got[s] = <<>>
        BY <3>2, Sides DEF RelayIInv, DirInv, ChunkInv
      <4>2. 1..Len(got[s]) = {}
        BY <4>1
      <4> QED
        BY <4>2
    <3> QED
      BY <3>1, <3>2
  <2> QED
    BY <2>1 DEF PipeGot
<1> QED
  BY <1>1, <1>2, <1>3 DEF P!Send

(* A step in which units arrive at s's peer is a Deliver of Pipe. *)
LEMMA UnitsArrive ==
  ASSUME RelayIInv, RelayIInv', ~Intercepts, NEW s \in Side,
         loop[s] # "off", loop'[s] # "off",
         loop'[Peer(s)] = loop[Peer(s)], UNCHANGED <<sent, first>>,
         got'[s] = got[s], Len(got'[Peer(s)]) >= Len(got[Peer(s)])
  PROVE  P!Deliver(s)
<1> DEFINE p == Peer(s)
           n == Len(got'[p])
<1>1. p \in Side /\ p # s /\ Peer(p) = s /\ P!Other(s) = p /\ \A q \in Side : q \in {s, p}
  BY Sides, OtherIsPeer
<1>2. PipeSent' = PipeSent
  BY <1>1 DEF PipeSent
<1>3. PipeSent[s] = sent[s] - first[s]
  BY DEF PipeSent
<1>4. /\ Len(got[p]) \in Nat /\ n \in Nat /\ sent[s] \in Nat /\ first[s] \in Nat
      /\ taken'[s] \in Nat /\ Len(chunk'[s]) \in Nat
  BY <1>1, LenProperties DEF RelayIInv, TypeOK
<1>5. /\ \A i \in 1..n : got'[p][i] = first[s] + i
      /\ first[s] + n + Len(chunk'[s]) <= taken'[s]
      /\ taken'[s] <= sent[s]
  BY DEF RelayIInv, DirInv, PrefixInv, ChunkInv
<1>6. PipeGot'[p] = P!Stream(n)
  <2>1. PipeGot'[p] = [i \in 1..n |-> got'[p][i] - first[s]]
    BY <1>1 DEF PipeGot
  <2>2. \A i \in 1..n : got'[p][i] - first[s] = i
    BY <1>4, <1>5
  <2> HIDE DEF n, p
  <2> QED
    BY <2>1, <2>2 DEF P!Stream
<1>7. n \in Len(PipeGot[p])..PipeSent[s]
  <2>1. Len(PipeGot[p]) = Len(got[p])
    BY <1>1, <1>4 DEF PipeGot
  <2>2. n <= sent[s] - first[s]
    BY <1>4, <1>5, SMTT(30)
  <2> QED
    BY <1>3, <1>4, <2>1, <2>2
<1>8. PipeGot' = [PipeGot EXCEPT ![p] = PipeGot'[p]]
  <2>1. PipeGot'[s] = PipeGot[s]
    BY <1>1 DEF PipeGot
  <2>2. PipeGot = [q \in Side |-> PipeGot[q]] /\ PipeGot' = [q \in Side |-> PipeGot'[q]]
    BY DEF PipeGot
  <2> QED
    BY <1>1, <2>1, <2>2
<1> QED
  BY <1>1, <1>2, <1>6, <1>7, <1>8 DEF P!Deliver

(* Each step of Transport, of Handle and of an endpoint is one of Pipe. *)
LEMMA TransportPipe ==
  ASSUME RelayIInv, RelayIInv', ~Intercepts, NEW s \in Side, Transport(s)
  PROVE  P!Next
<1>1. /\ \A q \in Side : loop[q] \in {"off", "read", "handle", "signal", "ended"}
      /\ loop[s] # "off" /\ UNCHANGED <<sent, first>>
      /\ \E l \in {"read", "handle", "signal", "ended"} : loop' = [loop EXCEPT ![s] = l]
  BY DEF Transport, ReadData, ReadEof, ReadError, Write, WriteFail, Intercept, Signal,
         OnHandled, OnErr, endpointVars, RelayIInv, TypeOK
<1>2. /\ loop'[s] # "off" /\ loop'[Peer(s)] = loop[Peer(s)]
      /\ \A q \in Side : loop[q] # "off" => loop'[q] # "off"
  <2>1. PICK l \in {"read", "handle", "signal", "ended"} : loop' = [loop EXCEPT ![s] = l]
    BY <1>1
  <2>2. loop \in [Side -> {"off", "read", "handle", "signal", "ended"}] /\ l # "off"
    BY DEF RelayIInv, TypeOK
  <2>3. loop'[s] = l /\ \A q \in Side : q # s => loop'[q] = loop[q]
    BY <2>1, <2>2
  <2> QED
    BY <2>2, <2>3, Sides
<1>3. CASE got' = got
  <2>1. \A q \in Side : sent'[q] >= sent[q]
    BY <1>1 DEF RelayIInv, TypeOK
  <2> QED
    BY <1>1, <1>2, <1>3, <2>1, NothingArrives DEF P!Next
<1>4. CASE got' # got
  <2>1. got' = [got EXCEPT ![Peer(s)] = @ \o chunk[s]]
    BY <1>4 DEF Transport, ReadData, ReadEof, ReadError, Write, WriteFail, Intercept, Signal, Arrive
  <2>2. got'[s] = got[s] /\ got'[Peer(s)] = got[Peer(s)] \o chunk[s]
    BY <2>1, Sides DEF RelayIInv, TypeOK
  <2>3. /\ got[Peer(s)] \in Seq(Units) /\ chunk[s] \in Seq(Units)
        /\ Len(got[Peer(s)]) \in Nat /\ Len(chunk[s]) \in Nat
    BY Sides, LenProperties DEF RelayIInv, TypeOK
  <2>4. Len(got'[Peer(s)]) = Len(got[Peer(s)]) + Len(chunk[s])
    BY <2>2, <2>3, ConcatProperties
  <2>5. Len(got'[Peer(s)]) >= Len(got[Peer(s)])
    <3> DEFINE a == Len(got[Peer(s)])
               b == Len(chunk[s])
               n == Len(got'[Peer(s)])
    <3>1. a \in Nat /\ b \in Nat /\ n = a + b
      BY <2>3, <2>4
    <3> HIDE DEF a, b, n
    <3>2. n >= a
      BY <3>1
    <3> QED
      BY <3>2 DEF a, n
  <2> QED
    BY <1>1, <1>2, <2>2, <2>5, UnitsArrive DEF P!Next
<1> QED
  BY <1>3, <1>4

(* No step of Handle moves a unit.                                         *)
LEMMA HandlePipe ==
  ASSUME RelayIInv, RelayIInv', Handle
  PROVE  P!Next
<1>1. /\ UNCHANGED <<sent, got>>
      /\ \A s \in Side : loop[s] # "off" => loop'[s] # "off" /\ first'[s] = first[s]
  <2>1. CASE Start
    BY <2>1 DEF Start, endpointVars, RelayIInv, StartInv
  <2>2. CASE ReceiveStop \/ CloseTarget \/ CloseClient
    BY <2>2 DEF ReceiveStop, CloseTarget, CloseClient, endpointVars
  <2> QED
    BY <2>1, <2>2 DEF Handle
<1>2. \A s \in Side : sent'[s] >= sent[s]
  BY <1>1 DEF RelayIInv, TypeOK
<1> QED
  BY <1>1, <1>2, NothingArrives DEF P!Next

(* An endpoint sends at most one unit more.                                *)
LEMMA EndpointPipe ==
  ASSUME RelayIInv, RelayIInv', NEW s \in Side, Endpoint(s)
  PROVE  P!Next
<1>1. UNCHANGED <<got, loop, first>> /\ (sent' = sent \/ sent' = [sent EXCEPT ![s] = @ + 1])
  BY DEF Endpoint, Send, Shut, Close, relayVars
<1>2. ASSUME NEW q \in Side PROVE sent'[q] >= sent[q]
  <2>1. sent \in [Side -> Nat] /\ sent[q] \in Nat
    BY DEF RelayIInv, TypeOK
  <2>2. sent'[q] \in {sent[q], sent[q] + 1}
    BY <1>1, <2>1
  <2> QED
    BY <2>1, <2>2
<1> QED
  BY <1>1, <1>2, NothingArrives DEF P!Next

(* Before the start Pipe is in its initial state. *)
LEMMA InitPipe ==
  ASSUME \A s \in Side : loop[s] = "off" /\ got[s] = <<>>
  PROVE  P!Init
<1>1. PipeSent = [s \in Side |-> 0]
  BY DEF PipeSent
<1>2. ASSUME NEW s \in Side
      PROVE  [i \in 1..Len(got[s]) |-> got[s][i] - first[Peer(s)]] = <<>>
  <2>1. 1..Len(got[s]) = {}
    OBVIOUS
  <2> QED
    BY <2>1
<1>3. PipeGot = [s \in Side |-> <<>>]
  BY <1>2 DEF PipeGot
<1> QED
  BY <1>1, <1>3 DEF P!Init

(* The mapping follows the variables it is made of. *)
LEMMA UnchangedPipe ==
  ASSUME UNCHANGED vars
  PROVE  UNCHANGED <<PipeSent, PipeGot>>
BY DEF vars, PipeSent, PipeGot

(* A step of the relay is one of Pipe or leaves it as it is. *)
LEMMA NextPipe ==
  ASSUME ~Intercepts, RelayIInv, RelayIInv', [Next]_vars
  PROVE  [P!Next]_<<PipeSent, PipeGot>>
BY HandlePipe, TransportPipe, EndpointPipe, UnchangedPipe DEF Next

(* So is one of the setup that precedes it. *)
LEMMA SetupPipe ==
  ASSUME RelayIInv, RelayIInv', SetupStep
  PROVE  P!Next
<1>1. \A s \in Side : loop[s] = "off" /\ sent'[s] >= sent[s]
  BY DEF SetupStep, endpointVars, RelayIInv, TypeOK
<1> QED
  BY <1>1, NothingArrives DEF SetupStep, P!Next

(* The two Transports without a handler: each endpoint receives a prefix   *)
(* of what the other one sent after the start, for every number of units,  *)
(* length of the buffer and way the reads fall.                            *)
THEOREM RelayImplementsPipe ==
  ASSUME ~Intercepts
  PROVE  Spec => ImplementsPipe
<1>1. Init => RelayIInv /\ P!Init
  BY InitRelayIInv, InitPipe DEF Init
<1>2. RelayIInv /\ [Next]_vars => RelayIInv'
  BY NextRelayIInv
<1>3. RelayIInv /\ RelayIInv' /\ [Next]_vars => [P!Next]_<<PipeSent, PipeGot>>
  BY NextPipe
<1> QED
  BY <1>1, <1>2, <1>3, PTL DEF Spec, ImplementsPipe, P!Spec
=============================================================================
