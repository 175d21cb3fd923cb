-------------------------- MODULE WsHandshakeProofs --------------------------
(***************************************************************************)
(* What holds of the two handshakes of a WebSocket session, whatever       *)
(* requests and answers there may be: that a dial leaves nothing behind,   *)
(* which requests are served, and what the two sides have agreed on.       *)
(*                                                                         *)
(* For the last two, what the code reads in a header is shown to be what   *)
(* the grammar says, for lines of every length.                            *)
(***************************************************************************)
EXTENDS WsHandshake, SequenceTheorems, WellFoundedInduction, TLAPS

(* The two handshakes. *)

(* What the target sends behind its response. *)
Behind == [n \in 1..target.behind |-> n]

(* The places of the handshakes before the dial, and those of a dial that  *)
(* has a connection.                                                       *)
Setup == {"read", "upgrade", "http", "ignored", "refused", "broken", "headers", "dial", "duplicate"}
Dialling == {"write", "response", "check", "slurp", "relay"}

(* Which connections to the target are open, and which deadlines hold,     *)
(* at each place of the two handshakes.                                    *)
LinksInv ==
  /\ pc \in Setup \cup Dialling \cup {"failed"}
  /\ pc \in Setup => links = {}
  /\ pc \in Dialling => links = {"spare", "conn"}
  /\ pc = "failed" => links \subseteq {"spare"}
  /\ pc \in Dialling \cup {"headers", "dial"} => ~browserDeadline
  /\ pc = "relay" => ~deadline

(* Where the target's response and the frames behind it are: nowhere       *)
(* before it was asked, then on their way, then partly in the reader.      *)
BehindInv ==
  /\ pc \in Setup \cup {"write"} => sent = <<>> /\ ~answered
  /\ pc \in Setup \cup {"write", "response"} =>
       br = <<>> /\ IF sent # <<>> /\ answered THEN \E r : net = <<r>> \o Behind ELSE net = <<>>
  /\ pc \in {"check", "relay"} => sent # <<>> /\ answered /\ br \o net = Behind

(* Both are inductive, whatever the rest of the state.                     *)
DialInv == LinksInv /\ BehindInv

-----------------------------------------------------------------------------
(* A reader that takes in the first of a sequence and some of the rest     *)
(* leaves the rest in order.                                               *)
LEMMA ReadAhead ==
  ASSUME NEW b \in Nat, NEW r, NEW s, s = <<r>> \o [i \in 1..b |-> i], NEW n \in 1..Len(s)
  PROVE  SubSeq(s, 2, n) \o SubSeq(s, n + 1, Len(s)) = [i \in 1..b |-> i]
<1> DEFINE T == Nat \cup {r}
           B == [i \in 1..b |-> i]
<1>1. B \in Seq(T) /\ Len(B) = b /\ \A i \in 1..b : B[i] = i
  OBVIOUS
<1>2. <<r>> \in Seq(T) /\ Len(<<r>>) = 1
  OBVIOUS
<1> HIDE DEF B, T
<1>3. s \in Seq(T) /\ Len(s) = b + 1 /\ \A i \in 1..b : s[i + 1] = i
  <2>1. s \in Seq(T) /\ Len(s) = 1 + b
    BY <1>1, <1>2 DEF B
  <2>2. \A i \in 1..b : s[1 + i] = B[i]
    BY <1>1, <1>2 DEF B
  <2> QED
    BY <1>1, <2>1, <2>2
<1> DEFINE x == SubSeq(s, 2, n)
           y == SubSeq(s, n + 1, Len(s))
<1>4. n \in Nat /\ 1 <= n /\ n <= b + 1
  BY <1>3
<1>5. x \in Seq(T) /\ Len(x) = n - 1 /\ \A i \in 1..(n - 1) : x[i] = i
  <2>1. x \in Seq(T) /\ Len(x) = n - 1
    BY <1>3, <1>4
  <2>2. ASSUME NEW i \in 1..(n - 1) PROVE x[i] = i
    <3>1. x[i] = s[i + 1]
      BY <1>3, <1>4
    <3> QED
      BY <1>3, <1>4, <3>1
  <2> QED
    BY <2>1, <2>2
<1>6. y \in Seq(T) /\ Len(y) = b + 1 - n /\ \A i \in 1..(b + 1 - n) : y[i] = n - 1 + i
  <2>1. y \in Seq(T) /\ Len(y) = b + 1 - n
    BY <1>3, <1>4
  <2>2. ASSUME NEW i \in 1..(b + 1 - n) PROVE y[i] = n - 1 + i
    <3>1. y[i] = s[n + i]
      BY <1>3, <1>4
    <3>2. n - 1 + i \in 1..b /\ (n - 1 + i) + 1 = n + i
      BY <1>4
    <3> QED
      BY <1>3, <3>1, <3>2
  <2> QED
    BY <2>1, <2>2
<1> HIDE DEF x, y
<1>7. x \o y \in Seq(T) /\ Len(x \o y) = b /\ \A i \in 1..b : (x \o y)[i] = i
  <2>1. x \o y \in Seq(T) /\ Len(x \o y) = b
    BY <1>4, <1>5, <1>6
  <2>2. ASSUME NEW i \in 1..b PROVE (x \o y)[i] = i
    <3>1. CASE i <= n - 1
      BY <1>4, <1>5, <1>6, <3>1
    <3>2. CASE i > n - 1
      <4>1. i - (n - 1) \in 1..(b + 1 - n)
        BY <1>4, <3>2
      <4>2. (x \o y)[i] = y[i - (n - 1)]
        BY <1>4, <1>5, <1>6, <3>2
      <4>3. y[i - (n - 1)] = n - 1 + (i - (n - 1))
        BY <1>6, <4>1
      <4>4. n - 1 + (i - (n - 1)) = i
        BY <1>4
      <4> QED
        BY <4>2, <4>3, <4>4, Zenon
    <3>3. i <= n - 1 \/ i > n - 1
      BY <1>4
    <3> QED
      BY <3>1, <3>2, <3>3, Zenon
  <2> QED
    BY <2>1, <2>2
<1>8. x \o y = B
  <2> DEFINE z == x \o y
  <2>a. z \in Seq(T) /\ Len(z) = b /\ \A i \in 1..b : z[i] = i
    BY <1>7
  <2> HIDE DEF z
  <2>1. z = [i \in 1..b |-> z[i]]
    BY <2>a
  <2>2. z = B
    BY <2>a, <2>1 DEF B
  <2> QED
    BY <2>2 DEF z
<1> QED
  BY <1>8 DEF B, x, y

(* At first nothing is open and nothing was sent.                          *)
LEMMA DialStarts == HandshakeInit => DialInv
BY DEF HandshakeInit, DialInv, LinksInv, BehindInv, Setup, Dialling

(* Links and deadlines, group of actions by group of actions.              *)
LEMMA OpenStep ==
  ASSUME DialInv, HandshakeNext
  PROVE  LinksInv'
<1> USE DEF DialInv, LinksInv, Setup, Dialling
<1>1. CASE Classify \/ Ignore \/ Refuse \/ Break \/ Accept \/ RemoveWsHeader
  BY <1>1 DEF Classify, Ignore, Refuse, Break, Accept, RemoveWsHeader, dialVars
<1>2. CASE DialDuplicate \/ NetDial
  BY <1>2 DEF DialDuplicate, NetDial, OnlyDial, dialVars
<1>3. CASE Write \/ TargetAnswers \/ ReadResponse \/ CheckBad
  BY <1>3 DEF Write, TargetAnswers, ReadResponse, CheckBad, OnlyDial, dialVars
<1>4. CASE DialBroken \/ Slurp \/ CheckCompression
  BY <1>4 DEF DialBroken, Slurp, CheckCompression, Abandon, OnlyDial
<1>5. CASE Establish
  BY <1>5 DEF Establish, OnlyDial
<1> QED
  BY <1>1, <1>2, <1>3, <1>4, <1>5 DEF HandshakeNext

(* The response and what follows it.                                       *)
LEMMA BehindStep ==
  ASSUME DialInv, HandshakeNext, target.behind \in Nat
  PROVE  BehindInv'
<1> USE DEF DialInv, LinksInv, Setup, Dialling
<1>0. target' = target /\ Behind' = Behind
  BY DEF HandshakeNext, Classify, Ignore, Refuse, Break, Accept, RemoveWsHeader, DialDuplicate,
         NetDial, Write, TargetAnswers, ReadResponse, CheckBad, DialBroken, Slurp,
         CheckCompression, Establish, OnlyDial, scenario, Behind
<1>1. CASE Classify \/ Ignore \/ Refuse \/ Break \/ Accept \/ RemoveWsHeader
  BY <1>0, <1>1 DEF Classify, Ignore, Refuse, Break, Accept, RemoveWsHeader, dialVars, BehindInv
<1>2. CASE DialDuplicate \/ NetDial
  BY <1>0, <1>2 DEF DialDuplicate, NetDial, OnlyDial, dialVars, BehindInv
<1>3. CASE Write
  <2>1. pc' = "response" /\ br' = <<>> /\ net' = <<>> /\ answered' = answered
    BY <1>3 DEF Write, BehindInv
  <2>2. ~answered
    BY <1>3 DEF Write, BehindInv
  <2> QED
    BY <1>0, <2>1, <2>2 DEF BehindInv
<1>4. CASE TargetAnswers
  <2>1. sent # <<>> /\ ~answered /\ answered' /\ UNCHANGED <<pc, sent, br>>
    BY <1>4 DEF TargetAnswers
  <2>2. \E r : net' = <<r>> \o Behind
    BY <1>4 DEF TargetAnswers, Behind
  <2> QED
    BY <1>0, <2>1, <2>2 DEF BehindInv
<1>5. CASE ReadResponse
  <2>1. PICK n \in 1..Len(net) : br' = SubSeq(net, 2, n) /\ net' = SubSeq(net, n + 1, Len(net))
    BY <1>5 DEF ReadResponse
  <2>2. /\ pc = "response" /\ net # <<>> /\ pc' = "check" /\ UNCHANGED <<sent, answered>>
    BY <1>5 DEF ReadResponse
  <2>3. PICK r : net = <<r>> \o Behind
    BY <2>2 DEF BehindInv
  <2>4. sent # <<>> /\ answered
    BY <2>2 DEF BehindInv
  <2>5. br' \o net' = Behind
    BY <2>1, <2>3, ReadAhead DEF Behind
  <2> QED
    BY <1>0, <2>2, <2>4, <2>5 DEF BehindInv
<1>6. CASE CheckBad \/ DialBroken \/ Slurp \/ CheckCompression
  BY <1>0, <1>6 DEF CheckBad, DialBroken, Slurp, CheckCompression, Abandon, BehindInv
<1>7. CASE Establish
  BY <1>0, <1>7 DEF Establish, BehindInv
<1> QED
  BY <1>1, <1>2, <1>3, <1>4, <1>5, <1>6, <1>7 DEF HandshakeNext

(* Both parts together.                                                    *)
LEMMA DialStays == DialInv /\ [HandshakeNext]_handshakeVars /\ target.behind \in Nat => DialInv'
<1> SUFFICES ASSUME DialInv, [HandshakeNext]_handshakeVars, target.behind \in Nat PROVE DialInv'
  OBVIOUS
<1>1. CASE HandshakeNext
  BY <1>1, OpenStep, BehindStep DEF DialInv
<1>2. CASE UNCHANGED handshakeVars
  BY <1>2 DEF DialInv, LinksInv, BehindInv, Behind, Setup, Dialling, handshakeVars, dialVars, scenario
<1> QED
  BY <1>1, <1>2

(* A Dial that fails leaves no connection but the spare one; one that      *)
(* succeeds leaves no deadline, and all that the target sent behind its    *)
(* response still to be read in order, whatever the target is and however  *)
(* the response is cut into reads.                                         *)
THEOREM DialLeavesNothingHolds == HandshakeSpec => []DialLeavesNothing
<1>1. HandshakeInit => DialInv /\ target \in Target
  BY DialStarts DEF HandshakeInit
<1>2. DialInv /\ target \in Target /\ [HandshakeNext]_handshakeVars => (DialInv /\ target \in Target)'
  <2> SUFFICES ASSUME DialInv, target \in Target, [HandshakeNext]_handshakeVars
               PROVE  DialInv' /\ target' \in Target
    OBVIOUS
  <2>1. target.behind \in Nat
    BY HandshakeAssumption
  <2>2. target' = target
    BY DEF HandshakeNext, Classify, Ignore, Refuse, Break, Accept, RemoveWsHeader, DialDuplicate,
           NetDial, Write, TargetAnswers, ReadResponse, CheckBad, DialBroken, Slurp,
           CheckCompression, Establish, OnlyDial, scenario, handshakeVars
  <2> QED
    BY <2>1, <2>2, DialStays
<1>3. DialInv => DialLeavesNothing
  BY DEF DialInv, LinksInv, BehindInv, Behind, Setup, Dialling, DialLeavesNothing
<1> QED
  BY <1>1, <1>2, <1>3, PTL DEF HandshakeSpec

-----------------------------------------------------------------------------
(* What the handshakes read in a list of tokens. *)

(* A set of naturals that is not empty has a least member. *)
LEMMA LeastNatural ==
  ASSUME NEW T, T \subseteq Nat, T # {}
  PROVE  \E n \in T : \A m \in T : n <= m
<1> DEFINE R == OpToRel(<, Nat)
<1>1. PICK n \in T : \A m \in T : ~(<<m, n>> \in R)
  BY NatLessThanWellFounded, WFMin
<1>2. \A m \in T : <<m, n>> \in R <=> m < n
  BY <1>1 DEF OpToRel
<1> HIDE DEF R
<1>3. n \in Nat /\ \A m \in T : m \in Nat /\ ~(m < n)
  BY <1>1, <1>2
<1> QED
  BY <1>3

(* Min is the least of a set that is not empty. *)
LEMMA MinIs ==
  ASSUME NEW T, T \subseteq Nat, T # {}
  PROVE  Min(T) \in T /\ Min(T) \in Nat /\ \A m \in T : Min(T) <= m
BY LeastNatural DEF Min

(* Max is the greatest of a set that is not empty and has an upper bound. *)
LEMMA MaxIs ==
  ASSUME NEW n \in Nat, NEW T, T \subseteq 0..n, T # {}
  PROVE  Max(T) \in T /\ Max(T) \in 0..n /\ \A m \in T : m <= Max(T)
<1> DEFINE U == {n - m : m \in T}
<1>1. U \subseteq Nat /\ U # {}
  OBVIOUS
<1>2. PICK u \in U : \A m \in U : u <= m
  BY <1>1, LeastNatural
<1>3. PICK x \in T : u = n - x
  OBVIOUS
<1>4. ASSUME NEW m \in T PROVE m <= x
  <2>1. n - m \in U
    OBVIOUS
  <2> QED
    BY <1>2, <1>3, <2>1
<1>5. \E y \in T : \A m \in T : y >= m
  BY <1>4
<1>6. Max(T) \in T /\ \A m \in T : Max(T) >= m
  BY <1>5 DEF Max
<1> QED
  BY <1>6

(* Of an interval it is the end. *)
LEMMA MaxTo ==
  ASSUME NEW n \in Nat, n # 0
  PROVE  Max(1..n) = n /\ 1..n # {} /\ n \in 1..n
<1>1. 1..n \subseteq 0..n /\ n \in 1..n
  OBVIOUS
<1>2. 1..n # {}
  BY <1>1
<1>3. Max(1..n) \in 1..n /\ \A m \in 1..n : m <= Max(1..n)
  BY <1>1, <1>2, MaxIs, Zenon
<1>4. n <= Max(1..n)
  BY <1>1, <1>3
<1>5. Max(1..n) = n
  BY <1>3, <1>4
<1> QED
  BY <1>1, <1>2, <1>5

-----------------------------------------------------------------------------
(* Functions defined by recursion. *)

(* What B says of a place depends on places of a lower rank only. *)
Founded(D, V, r, B) ==
  \A i \in D : \A f, g \in [D -> V] :
    (\A j \in D : r[j] < r[i] => f[j] = g[j]) => B[<<f, i>>] = B[<<g, i>>]

(* f does at every place what B says of it.                                *)
Solves(f, D, B) == \A i \in D : f[i] = B[<<f, i>>]

(* B is the body of a recursion over D with values in V.                   *)
Recursive(D, V, N, r, B) ==
  V # {} /\ N \in Nat /\ r \in [D -> 0..N] /\ B \in [[D -> V] \X D -> V] /\ Founded(D, V, r, B)

(* The order of the natural numbers, as Recursion uses it.                 *)
LEMMA StrictlyLess == \A k, h \in Nat : k <= h /\ k # h => k < h
OBVIOUS

(* A recursion defines a function if what it says of a place depends on    *)
(* places of a lower rank only.                                            *)
LEMMA Recursion ==
  ASSUME NEW D, NEW V, NEW N, NEW r, NEW B, Recursive(D, V, N, r, B)
  PROVE  \E f \in [D -> V] : Solves(f, D, B)
<1> DEFINE Good(n) == \E f \in [D -> V] : \A i \in D : r[i] < n => f[i] = B[<<f, i>>]
           Missing == {n \in Nat : ~Good(n)}
<1>0. V # {} /\ N \in Nat /\ r \in [D -> 0..N] /\ B \in [[D -> V] \X D -> V]
  BY DEF Recursive
<1>f. Founded(D, V, r, B)
  BY DEF Recursive
<1> USE <1>0
<1>1. Missing = {}
  <2> SUFFICES ASSUME Missing # {} PROVE FALSE
    OBVIOUS
  <2>1. PICK m \in Missing : \A n \in Missing : m <= n
    <3>1. Missing \subseteq Nat
      OBVIOUS
    <3> QED
      BY <3>1, LeastNatural
  <2>2. m # 0
    <3>1. PICK x \in V : TRUE
      OBVIOUS
    <3>2. [i \in D |-> x] \in [D -> V]
      OBVIOUS
    <3>3. \A i \in D : ~(r[i] < 0)
      OBVIOUS
    <3>4. Good(0)
      BY <3>2, <3>3
    <3> QED
      BY <2>1, <3>4
  <2> DEFINE h == m - 1
  <2>3. h \in Nat /\ ~(m <= h) /\ m = h + 1
    BY <2>1, <2>2
  <2> HIDE DEF h
  <2>4. PICK f \in [D -> V] : \A i \in D : r[i] < h => f[i] = B[<<f, i>>]
    BY <2>1, <2>3
  <2> DEFINE g == [i \in D |-> IF r[i] = h THEN B[<<f, i>>] ELSE f[i]]
  <2>5. g \in [D -> V] /\ \A i \in D : g[i] = IF r[i] = h THEN B[<<f, i>>] ELSE f[i]
    OBVIOUS
  <2> HIDE DEF g
  <2>6. ASSUME NEW i \in D, r[i] < m PROVE g[i] = B[<<g, i>>]
    <3>1. r[i] \in Nat /\ r[i] <= h
      BY <2>3, <2>6
    <3>2. ASSUME NEW j \in D, r[j] < r[i] PROVE f[j] = g[j]
      <4>1. r[j] # h
        BY <2>3, <3>1, <3>2
      <4> QED
        BY <2>5, <4>1
    <3>3. B[<<f, i>>] = B[<<g, i>>]
      <4>1. \A u, v \in [D -> V] : (\A j \in D : r[j] < r[i] => u[j] = v[j]) => B[<<u, i>>] = B[<<v, i>>]
        BY <1>f, Zenon DEF Founded
      <4> QED
        BY <2>4, <2>5, <3>2, <4>1, Zenon
    <3>4. r[i] # h => r[i] < h
      BY <2>3, <3>1, StrictlyLess, Zenon
    <3> QED
      BY <2>4, <2>5, <3>3, <3>4
  <2>7. Good(m)
    BY <2>5, <2>6
  <2> QED
    BY <2>1, <2>7
<1>2. PICK f \in [D -> V] : \A i \in D : r[i] < N + 1 => f[i] = B[<<f, i>>]
  <2>1. N + 1 \in Nat
    OBVIOUS
  <2> QED
    BY <1>1, <2>1
<1>3. \A i \in D : r[i] < N + 1
  OBVIOUS
<1> QED
  BY <1>2, <1>3 DEF Solves

(* What B says of a place depends on places behind it only.                *)
Ahead(L, V, B) ==
  \A i \in 1..L : \A f, g \in [1..L -> V] :
    (\A j \in 1..L : i < j => f[j] = g[j]) => B[<<f, i>>] = B[<<g, i>>]

(* The same over the places of a line, each looking only ahead. *)
LEMMA Forward ==
  ASSUME NEW L \in Nat, NEW V, V # {}, NEW B \in [[1..L -> V] \X (1..L) -> V],
         Ahead(L, V, B)
  PROVE  \E f \in [1..L -> V] : Solves(f, 1..L, B)
<1> DEFINE D == 1..L
           r == [i \in D |-> L - i]
<1>1. r \in [D -> 0..L]
  OBVIOUS
<1>2. \A i, j \in D : r[j] < r[i] <=> i < j
  OBVIOUS
<1> HIDE DEF r
<1>3. Founded(D, V, r, B)
  BY <1>2, Zenon DEF Founded, Ahead
<1>4. B \in [[D -> V] \X D -> V]
  OBVIOUS
<1> HIDE DEF D
<1>5. \E f \in [D -> V] : Solves(f, D, B)
  <2>1. Recursive(D, V, L, r, B)
    BY <1>1, <1>3, <1>4 DEF Recursive
  <2> QED
    BY <2>1, Recursion, Zenon
<1> QED
  BY <1>5 DEF D

-----------------------------------------------------------------------------
(* What a line is made of. *)

(* A line of a header, as a sequence of lexemes.                           *)
Text == Seq(STRING)

(* What skipSpace passes over, and where it stops. *)
LEMMA SkipSpace ==
  ASSUME NEW s \in Text, NEW i \in Nat, 0 < i, i <= Len(s) + 2
  PROVE  /\ skipSpace(s, i) \in 1..Len(s) + 1
         /\ i <= Len(s) + 1 => i <= skipSpace(s, i)
         /\ \A j \in i..skipSpace(s, i) - 1 : s[j] = Space
         /\ skipSpace(s, i) <= Len(s) => s[skipSpace(s, i)] # Space
<1> DEFINE T == {j \in i..Len(s) : s[j] # Space} \cup {Len(s) + 1}
<1>0. Len(s) \in Nat
  BY DEF Text
<1>1. T \subseteq Nat /\ T # {}
  BY <1>0
<1>2. skipSpace(s, i) = Min(T)
  BY DEF skipSpace
<1>3. Min(T) \in T /\ Min(T) \in Nat /\ \A m \in T : Min(T) <= m
  BY <1>1, MinIs
<1>4. ASSUME NEW j \in i..Min(T) - 1 PROVE s[j] = Space
  <2>1. j \notin T
    BY <1>3
  <2>2. j <= Len(s)
    BY <1>0, <1>3
  <2> QED
    BY <1>0, <2>1, <2>2
<1> QED
  BY <1>0, <1>2, <1>3, <1>4

(* There is only one such place. *)
LEMMA SkipSpaceIs ==
  ASSUME NEW s \in Text, NEW i \in Nat, 0 < i, NEW k \in i..Len(s) + 1,
         \A j \in i..k - 1 : s[j] = Space, k <= Len(s) => s[k] # Space
  PROVE  skipSpace(s, i) = k
<1>0. Len(s) \in Nat
  BY DEF Text
<1> DEFINE t == skipSpace(s, i)
<1>1. /\ t \in 1..Len(s) + 1 /\ i <= t
      /\ \A j \in i..t - 1 : s[j] = Space
      /\ t <= Len(s) => s[t] # Space
  BY <1>0, SkipSpace
<1> HIDE DEF t
<1>2. ~(t < k) /\ ~(k < t)
  BY <1>0, <1>1
<1> QED
  BY <1>0, <1>1, <1>2 DEF t

(* An element of a list: its token is at i and it ends before e. *)
Elem(s, c, i, e) ==
  /\ i \in c + 1..Len(s) /\ IsToken(s[i])
  /\ e \in i + 1..Len(s) + 1 /\ (e <= Len(s) => s[e] = Comma)
  /\ \A j \in c + 1..e - 1 : j # i => s[j] = Space

(* A token is none of the separators. *)
LEMMA TokenIsNoSpace ==
  ASSUME NEW x, IsToken(x)
  PROVE  x # Space /\ x # Comma /\ x # Semicolon /\ x # Equals /\ x # "quoted" /\ x # "open" /\ x # "bad"
BY Zenon DEF IsToken, Separators, Space, Comma, Semicolon, Equals, Colon

(* The separators differ from one another. *)
LEMMA Distinct ==
  /\ Space # Comma /\ Space # Semicolon /\ Space # Equals /\ Comma # Semicolon
  /\ Comma # Equals /\ Semicolon # Equals
  /\ \A x \in {Space, Comma, Semicolon, Equals} : x # "quoted" /\ x # "open" /\ x # "bad"
BY Zenon DEF Space, Comma, Semicolon, Equals

(* The parser takes an element as the grammar has it. *)
LEMMA ParserElement ==
  ASSUME NEW s \in Text, NEW c \in 0..Len(s)
  PROVE  LET t == skipSpace(s, c + 1)
             next == skipSpace(s, t + 1)
         IN /\ t \in c + 1..Len(s) + 1 /\ next \in 1..Len(s) + 1
            /\ t <= Len(s) => next >= t + 1
            /\ TokenAt(s, t) /\ (next > Len(s) \/ s[next] = Comma) => Elem(s, c, t, next)
            /\ \A i, e : Elem(s, c, i, e) =>
                 i = t /\ e = next /\ TokenAt(s, t) /\ (next > Len(s) \/ s[next] = Comma)
<1> DEFINE t == skipSpace(s, c + 1)
           next == skipSpace(s, t + 1)
<1>0. Len(s) \in Nat /\ c \in Nat /\ c <= Len(s)
  BY DEF Text
<1>1. /\ t \in 1..Len(s) + 1 /\ c + 1 <= t
      /\ \A j \in c + 1..t - 1 : s[j] = Space
      /\ t <= Len(s) => s[t] # Space
  BY <1>0, SkipSpace
<1>2. /\ next \in 1..Len(s) + 1 /\ (t + 1 <= Len(s) + 1 => t + 1 <= next)
      /\ \A j \in t + 1..next - 1 : s[j] = Space
      /\ next <= Len(s) => s[next] # Space
  <2>1. t + 1 \in Nat /\ 0 < t + 1 /\ t + 1 <= Len(s) + 2
    BY <1>0, <1>1
  <2> HIDE DEF t
  <2> QED
    BY <2>1, SkipSpace
<1>3. ASSUME NEW i, NEW e, Elem(s, c, i, e)
      PROVE  i = t /\ e = next
  <2>1. /\ i \in c + 1..Len(s) /\ s[i] # Space /\ s[i] # Comma
        /\ e \in i + 1..Len(s) + 1 /\ (e <= Len(s) => s[e] = Comma)
        /\ \A j \in c + 1..e - 1 : j # i => s[j] = Space
    BY <1>3, TokenIsNoSpace DEF Elem
  <2>2. i = t
    BY <1>0, <2>1, SkipSpaceIs
  <2>3. /\ i + 1 \in Nat /\ 0 < i + 1 /\ e \in i + 1..Len(s) + 1
        /\ \A j \in i + 1..e - 1 : s[j] = Space
        /\ e <= Len(s) => s[e] # Space
    BY <1>0, <2>1, Distinct
  <2>4. skipSpace(s, i + 1) = e
    BY <2>3, SkipSpaceIs
  <2> QED
    BY <2>2, <2>4
<1> HIDE DEF t, next
<1>4. ASSUME NEW i, NEW e, Elem(s, c, i, e)
      PROVE  TokenAt(s, t) /\ (next > Len(s) \/ s[next] = Comma)
  <2>1. /\ t \in c + 1..Len(s) /\ IsToken(s[t])
        /\ next \in t + 1..Len(s) + 1 /\ (next <= Len(s) => s[next] = Comma)
    BY <1>3, <1>4 DEF Elem
  <2> QED
    BY <1>0, <2>1 DEF TokenAt
<1>5. ASSUME TokenAt(s, t), next > Len(s) \/ s[next] = Comma
      PROVE  Elem(s, c, t, next)
  <2>1. t \in c + 1..Len(s) /\ IsToken(s[t])
    BY <1>0, <1>1, <1>5 DEF TokenAt
  <2>2. next \in t + 1..Len(s) + 1
    BY <1>0, <1>2, <2>1
  <2>3. ASSUME NEW j \in c + 1..next - 1, j # t PROVE s[j] = Space
    <3>1. j \in c + 1..t - 1 \/ j \in t + 1..next - 1
      BY <1>0, <2>1, <2>2, <2>3
    <3> QED
      BY <1>1, <1>2, <3>1
  <2> QED
    BY <1>5, <2>1, <2>2, <2>3 DEF Elem
<1>6. t \in c + 1..Len(s) + 1 /\ next \in 1..Len(s) + 1 /\ (t <= Len(s) => next >= t + 1)
  BY <1>0, <1>1, <1>2
<1> QED
  BY <1>3, <1>4, <1>5, <1>6 DEF t, next

(* One element is followed by the next, with no comma on the way. *)
LEMMA ElemEnds ==
  ASSUME NEW s \in Text, NEW c \in Cuts(s, Comma), NEW i, NEW e, Elem(s, c, i, e)
  PROVE  /\ c \in 0..Len(s) /\ i \in c + 1..Len(s) /\ e \in i + 1..Len(s) + 1
         /\ e <= Len(s) => e \in Cuts(s, Comma)
         /\ \A d \in Cuts(s, Comma) : c < d => e <= d
         /\ \A k, f : Elem(s, c, k, f) => k = i /\ f = e
<1>0. Len(s) \in Nat /\ DOMAIN s = 1..Len(s)
  BY DEF Text
<1>1. c \in 0..Len(s)
  BY <1>0 DEF Cuts
<1>2. i \in c + 1..Len(s) /\ e \in i + 1..Len(s) + 1
  BY DEF Elem
<1>3. e <= Len(s) => e \in Cuts(s, Comma)
  BY <1>0, <1>1, <1>2 DEF Elem, Cuts
<1>4. ASSUME NEW d \in Cuts(s, Comma), c < d PROVE e <= d
  <2> SUFFICES ASSUME d < e PROVE FALSE
    BY <1>0, <1>1, <1>2 DEF Cuts
  <2>1. d \in 1..Len(s) /\ s[d] = Comma
    BY <1>0, <1>1, <1>4 DEF Cuts
  <2>2. d \in c + 1..e - 1
    BY <1>0, <1>1, <1>2, <1>4, <2>1
  <2>3. d # i /\ Comma # Space
    BY <2>1, TokenIsNoSpace, Distinct DEF Elem
  <2> QED
    BY <2>1, <2>2, <2>3 DEF Elem
<1>5. \A k, f : Elem(s, c, k, f) => k = i /\ f = e
  BY <1>1, ParserElement
<1> QED
  BY <1>1, <1>2, <1>3, <1>4, <1>5

(* A list, read from the cut c on, names a token. *)
Says(s, c, value) ==
  \E last \in Cuts(s, Comma) :
    /\ c <= last
    /\ \A d \in Cuts(s, Comma) : c <= d /\ d <= last => \E i, e : Elem(s, d, i, e)
    /\ \E i, e : Elem(s, last, i, e) /\ Fold(s[i]) = value

(* It does so in its first element or behind it. *)
LEMMA SaysNext ==
  ASSUME NEW s \in Text, NEW c \in Cuts(s, Comma), NEW value
  PROVE  Says(s, c, value) <=>
           \E i, e : Elem(s, c, i, e) /\ (Fold(s[i]) = value \/ (e <= Len(s) /\ Says(s, e, value)))
<1>0. Len(s) \in Nat /\ \A d \in Cuts(s, Comma) : d \in 0..Len(s)
  BY DEF Cuts, Text
<1>1. ASSUME Says(s, c, value)
      PROVE  \E i, e : Elem(s, c, i, e) /\ (Fold(s[i]) = value \/ (e <= Len(s) /\ Says(s, e, value)))
  <2>1. PICK last \in Cuts(s, Comma) :
          /\ c <= last
          /\ \A d \in Cuts(s, Comma) : c <= d /\ d <= last => \E i, e : Elem(s, d, i, e)
          /\ \E i, e : Elem(s, last, i, e) /\ Fold(s[i]) = value
    BY <1>1 DEF Says
  <2>2. CASE last = c
    BY <2>1, <2>2
  <2>3. CASE last # c
    <3>1. PICK i, e : Elem(s, c, i, e)
      BY <1>0, <2>1
    <3>2. e <= last /\ c <= e /\ e <= Len(s)
      BY <1>0, <2>1, <2>3, <3>1, ElemEnds
    <3>3. \A d \in Cuts(s, Comma) : e <= d => c <= d
      BY <1>0, <3>1, <3>2, ElemEnds
    <3>4. Says(s, e, value)
      BY <2>1, <3>2, <3>3 DEF Says
    <3> QED
      BY <3>1, <3>2, <3>4
  <2> QED
    BY <2>2, <2>3
<1>2. ASSUME NEW i, NEW e, Elem(s, c, i, e), Fold(s[i]) = value
      PROVE  Says(s, c, value)
  <2>1. c <= c /\ \A d \in Cuts(s, Comma) : c <= d /\ d <= c => d = c
    BY <1>0
  <2> QED
    BY <1>2, <2>1 DEF Says
<1>3. ASSUME NEW i, NEW e, Elem(s, c, i, e), e <= Len(s), Says(s, e, value)
      PROVE  Says(s, c, value)
  <2>1. PICK last \in Cuts(s, Comma) :
          /\ e <= last
          /\ \A d \in Cuts(s, Comma) : e <= d /\ d <= last => \E k, f : Elem(s, d, k, f)
          /\ \E k, f : Elem(s, last, k, f) /\ Fold(s[k]) = value
    BY <1>3 DEF Says
  <2>2. c < e /\ e \in Nat
    BY <1>0, <1>3, ElemEnds
  <2>3. c <= last
    BY <1>0, <2>1, <2>2
  <2>4. ASSUME NEW d \in Cuts(s, Comma), c <= d, d <= last PROVE \E k, f : Elem(s, d, k, f)
    <3>1. d = c \/ e <= d
      BY <1>0, <1>3, <2>4, ElemEnds
    <3> QED
      BY <1>3, <2>1, <2>4, <3>1
  <2> QED
    BY <2>1, <2>3, <2>4 DEF Says
<1> QED
  BY <1>1, <1>2, <1>3

-----------------------------------------------------------------------------
(* The parser of token lists: what its loop does from i on. *)
ContainsFrom(s, value, from, i) ==
  LET t == skipSpace(s, i)
      next == skipSpace(s, t + 1)
  IN /\ TokenAt(s, t) /\ (next > Len(s) \/ s[next] = Comma)
     /\ Fold(s[t]) = value \/ (next <= Len(s) /\ from[next + 1])

(* It only goes forward. *)
LEMMA ContainsForward ==
  ASSUME NEW s \in Text, NEW value, NEW i \in 1..Len(s) + 1, NEW f, NEW g,
         \A j \in 1..Len(s) + 1 : i < j => f[j] = g[j]
  PROVE  ContainsFrom(s, value, f, i) = ContainsFrom(s, value, g, i)
<1> DEFINE t == skipSpace(s, i)
           next == skipSpace(s, t + 1)
<1>0. Len(s) \in Nat /\ i - 1 \in 0..Len(s) /\ (i - 1) + 1 = i
  BY DEF Text
<1>1. /\ t \in i..Len(s) + 1 /\ next \in 1..Len(s) + 1
      /\ t <= Len(s) => next >= t + 1
  BY <1>0, ParserElement
<1> HIDE DEF t, next
<1>2. TokenAt(s, t) /\ next <= Len(s) => next + 1 \in 1..Len(s) + 1 /\ i < next + 1
  BY <1>0, <1>1 DEF TokenAt
<1>3. TokenAt(s, t) /\ next <= Len(s) => f[next + 1] = g[next + 1]
  BY <1>2
<1> QED
  BY <1>3, Zenon DEF ContainsFrom, t, next

(* There is a function that does so at every place. *)
LEMMA ContainsExists ==
  ASSUME NEW s \in Text, NEW value
  PROVE  \E f : f = [i \in 1..Len(s) + 1 |-> ContainsFrom(s, value, f, i)]
<1> DEFINE L == Len(s) + 1
           B == [x \in [1..L -> BOOLEAN] \X (1..L) |-> ContainsFrom(s, value, x[1], x[2])]
<1>0. L \in Nat
  BY DEF Text
<1>1. \A i \in 1..L : \A f, g : (\A j \in 1..L : i < j => f[j] = g[j]) =>
        ContainsFrom(s, value, f, i) = ContainsFrom(s, value, g, i)
  BY ContainsForward
<1>2. \A i \in 1..L : \A f \in [1..L -> BOOLEAN] : B[<<f, i>>] = ContainsFrom(s, value, f, i)
  OBVIOUS
<1>3. B \in [[1..L -> BOOLEAN] \X (1..L) -> BOOLEAN]
  BY DEF ContainsFrom
<1> HIDE DEF L, B
<1>4. Ahead(L, BOOLEAN, B)
  <2>1. ASSUME NEW i \in 1..L, NEW f \in [1..L -> BOOLEAN], NEW g \in [1..L -> BOOLEAN],
               \A j \in 1..L : i < j => f[j] = g[j]
        PROVE  B[<<f, i>>] = B[<<g, i>>]
    <3>1. ContainsFrom(s, value, f, i) = ContainsFrom(s, value, g, i)
      BY <1>1, <2>1, Zenon
    <3> QED
      BY <1>2, <3>1, Zenon
  <2> QED
    BY <2>1 DEF Ahead
<1>5. PICK f \in [1..L -> BOOLEAN] : Solves(f, 1..L, B)
  BY <1>0, <1>3, <1>4, Forward
<1>6. \A i \in 1..L : f[i] = ContainsFrom(s, value, f, i)
  BY <1>2, <1>5 DEF Solves
<1>7. f = [i \in 1..L |-> ContainsFrom(s, value, f, i)]
  BY <1>6
<1> QED
  BY <1>7 DEF L

(* It finds a token exactly where the list names it. *)
LEMMA ContainsIsSays ==
  ASSUME NEW s \in Text, NEW value
  PROVE  LineContains(s, value) <=> Says(s, 0, value)
<1> DEFINE F == CHOOSE f : f = [i \in 1..Len(s) + 1 |-> ContainsFrom(s, value, f, i)]
<1>0. Len(s) \in Nat /\ \A d \in Cuts(s, Comma) : d \in 0..Len(s)
  BY DEF Text, Cuts
<1>1. F = [i \in 1..Len(s) + 1 |-> ContainsFrom(s, value, F, i)]
  BY ContainsExists
<1>2. LineContains(s, value) = F[1]
  BY Zenon DEF LineContains, ContainsFrom
<1> HIDE DEF F
<1>3. \A i \in 1..Len(s) + 1 : F[i] = ContainsFrom(s, value, F, i)
  BY <1>1
<1> DEFINE Wrong == {m \in Nat : \E c \in Cuts(s, Comma) : m = Len(s) - c /\ ~(F[c + 1] <=> Says(s, c, value))}
<1>4. Wrong = {}
  <2> SUFFICES ASSUME Wrong # {} PROVE FALSE
    OBVIOUS
  <2>1. PICK m \in Wrong : \A n \in Wrong : m <= n
    BY LeastNatural
  <2>2. PICK c \in Cuts(s, Comma) : m = Len(s) - c /\ ~(F[c + 1] <=> Says(s, c, value))
    BY <2>1
  <2> DEFINE t == skipSpace(s, c + 1)
             next == skipSpace(s, t + 1)
  <2>3. /\ TokenAt(s, t) /\ (next > Len(s) \/ s[next] = Comma) => Elem(s, c, t, next)
        /\ \A i, e : Elem(s, c, i, e) =>
             i = t /\ e = next /\ TokenAt(s, t) /\ (next > Len(s) \/ s[next] = Comma)
    BY <1>0, ParserElement
  <2>4. F[c + 1] <=> /\ TokenAt(s, t) /\ (next > Len(s) \/ s[next] = Comma)
                     /\ Fold(s[t]) = value \/ (next <= Len(s) /\ F[next + 1])
    <3>1. c + 1 \in 1..Len(s) + 1
      BY <1>0
    <3> QED
      BY <1>3, <3>1 DEF ContainsFrom
  <2> HIDE DEF t, next
  <2>5. ASSUME Elem(s, c, t, next), next <= Len(s)
        PROVE  F[next + 1] <=> Says(s, next, value)
    <3>1. next \in Cuts(s, Comma) /\ c < next
      BY <1>0, <2>5, ElemEnds
    <3>2. Len(s) - next \in Nat /\ ~(m <= Len(s) - next)
      BY <1>0, <2>2, <3>1
    <3> QED
      BY <2>1, <3>1, <3>2
  <2>6. Says(s, c, value) <=>
          \E i, e : Elem(s, c, i, e) /\ (Fold(s[i]) = value \/ (e <= Len(s) /\ Says(s, e, value)))
    BY SaysNext
  <2>7. F[c + 1] <=> Says(s, c, value)
    <3> DEFINE P == TokenAt(s, t) /\ (next > Len(s) \/ s[next] = Comma)
    <3>1. CASE P
      <4>1. Elem(s, c, t, next)
        BY <2>3, <3>1
      <4>2. Says(s, c, value) <=> Fold(s[t]) = value \/ (next <= Len(s) /\ Says(s, next, value))
        BY <2>3, <2>6, <4>1, Zenon
      <4>3. F[c + 1] <=> Fold(s[t]) = value \/ (next <= Len(s) /\ F[next + 1])
        BY <2>4, <3>1, Zenon
      <4> QED
        BY <2>5, <4>1, <4>2, <4>3, Zenon
    <3>2. CASE ~P
      <4>1. ~F[c + 1] /\ \A i, e : ~Elem(s, c, i, e)
        BY <2>3, <2>4, <3>2, Zenon
      <4> QED
        BY <2>6, <4>1, Zenon
    <3> QED
      BY <3>1, <3>2
  <2> QED
    BY <2>2, <2>7
<1>5. 0 \in Cuts(s, Comma) /\ Len(s) - 0 \in Nat
  BY <1>0 DEF Cuts
<1>6. F[0 + 1] <=> Says(s, 0, value)
  BY <1>4, <1>5
<1> QED
  BY <1>2, <1>6

-----------------------------------------------------------------------------
(* The grammar: trimmed pieces. *)

(* A piece is one token if everything else in it is space. *)
LEMMA TrimOne ==
  ASSUME NEW p \in Text
  PROVE  /\ \A i \in 1..Len(p) : IsToken(p[i]) /\ (\A j \in 1..Len(p) : j # i => p[j] = Space) =>
              OneToken(p) /\ TheToken(p) = p[i]
         /\ OneToken(p) => \E i \in 1..Len(p) : /\ IsToken(p[i]) /\ TheToken(p) = p[i]
                                               /\ \A j \in 1..Len(p) : j # i => p[j] = Space
<1> DEFINE a == skipSpace(p, 1)
           B == {0} \cup {i \in DOMAIN p : p[i] # Space}
           b == Max(B)
<1>0. Len(p) \in Nat /\ DOMAIN p = 1..Len(p)
  BY DEF Text
<1>1. /\ a \in 1..Len(p) + 1 /\ a \in Int
      /\ \A j \in 1..a - 1 : p[j] = Space
      /\ a <= Len(p) => p[a] # Space
  BY <1>0, SkipSpace
<1>2. b \in B /\ b \in 0..Len(p) /\ \A m \in B : m <= b
  <2>1. B \subseteq 0..Len(p) /\ B # {}
    BY <1>0
  <2> HIDE DEF B
  <2> QED
    BY <1>0, <2>1, MaxIs
<1>3. Trim(p) = SubSeq(p, a, b)
  BY DEF Trim
<1>4. b > 0 => p[b] # Space
  BY <1>0, <1>2
<1>5. \A j \in 1..Len(p) : b < j => p[j] = Space
  <2> SUFFICES ASSUME NEW j \in 1..Len(p), b < j, p[j] # Space PROVE FALSE
    OBVIOUS
  <2>1. j \in B
    BY <1>0
  <2> QED
    BY <1>0, <1>2, <2>1
<1> HIDE DEF a, b, B
<1>6. Len(Trim(p)) = (IF a <= b THEN b - a + 1 ELSE 0) /\ (a <= b => Trim(p)[1] = p[a])
  BY <1>0, <1>1, <1>2, <1>3 DEF Text
<1>7. ASSUME NEW i \in 1..Len(p), IsToken(p[i]), \A j \in 1..Len(p) : j # i => p[j] = Space
      PROVE  OneToken(p) /\ TheToken(p) = p[i]
  <2>1. p[i] # Space
    BY <1>7, TokenIsNoSpace
  <2>2. a = i
    BY <1>0, <1>1, <1>7, <2>1
  <2>3. b = i
    BY <1>0, <1>2, <1>4, <1>5, <1>7, <2>1
  <2> QED
    BY <1>0, <1>6, <1>7, <2>2, <2>3 DEF OneToken, TheToken
<1>8. ASSUME OneToken(p)
      PROVE  \E i \in 1..Len(p) : /\ IsToken(p[i]) /\ TheToken(p) = p[i]
                                  /\ \A j \in 1..Len(p) : j # i => p[j] = Space
  <2>1. a = b /\ a \in 1..Len(p)
    <3>1. Len(Trim(p)) = 1
      BY <1>8 DEF OneToken
    <3>2. a <= b /\ b - a + 1 = 1
      BY <1>6, <3>1
    <3> QED
      BY <1>0, <1>1, <1>2, <3>2
  <2>2. IsToken(p[a]) /\ TheToken(p) = p[a]
    BY <1>6, <1>8, <2>1 DEF OneToken, TheToken
  <2>3. \A j \in 1..Len(p) : j # a => p[j] = Space
    BY <1>0, <1>1, <1>5, <2>1
  <2> QED
    BY <2>1, <2>2, <2>3
<1> QED
  BY <1>7, <1>8

(* A piece lies between its cut and the next. *)
LEMMA PieceIs ==
  ASSUME NEW s \in Text, NEW sep, NEW c \in Cuts(s, sep)
  PROVE  \E e \in c + 1..Len(s) + 1 :
           /\ c \in 0..Len(s) /\ (e <= Len(s) => s[e] = sep)
           /\ \A j \in c + 1..e - 1 : s[j] # sep
           /\ \A d \in Cuts(s, sep) : c < d => e <= d
           /\ Piece(s, sep, c) = SubSeq(s, c + 1, e - 1)
           /\ Piece(s, sep, c) \in Text /\ Len(Piece(s, sep, c)) = e - 1 - c
           /\ \A k \in 1..e - 1 - c : Piece(s, sep, c)[k] = s[c + k]
<1> DEFINE T == {i \in Cuts(s, sep) : i > c} \cup {Len(s) + 1}
           e == Min(T)
<1>0. Len(s) \in Nat /\ DOMAIN s = 1..Len(s)
  BY DEF Text
<1>1. c \in 0..Len(s)
  BY <1>0 DEF Cuts
<1>2. T \subseteq Nat /\ T # {}
  BY <1>0 DEF Cuts
<1>3. e \in T /\ e \in Nat /\ \A m \in T : e <= m
  BY <1>2, MinIs
<1>4. e \in c + 1..Len(s) + 1 /\ (e <= Len(s) => s[e] = sep)
  BY <1>0, <1>1, <1>3 DEF Cuts
<1>5. ASSUME NEW j \in c + 1..e - 1 PROVE s[j] # sep
  <2>1. j \in 1..Len(s) /\ j > c /\ ~(e <= j)
    BY <1>0, <1>1, <1>4
  <2>2. j \notin T
    BY <1>3, <2>1
  <2> QED
    BY <1>0, <2>1, <2>2 DEF Cuts
<1>6. \A d \in Cuts(s, sep) : c < d => e <= d
  BY <1>0, <1>1, <1>3 DEF Cuts
<1>7. Piece(s, sep, c) = SubSeq(s, c + 1, e - 1)
  BY DEF Piece
<1> HIDE DEF e, T
<1>8. /\ Piece(s, sep, c) \in Text /\ Len(Piece(s, sep, c)) = e - 1 - c
      /\ \A k \in 1..e - 1 - c : Piece(s, sep, c)[k] = s[c + k]
  BY <1>0, <1>1, <1>4, <1>7 DEF Text
<1> QED
  BY <1>1, <1>4, <1>5, <1>6, <1>7, <1>8

(* A piece that is one token is an element for the parser. *)
LEMMA PieceIsElem ==
  ASSUME NEW s \in Text, NEW c \in Cuts(s, Comma)
  PROVE  LET p == Piece(s, Comma, c)
         IN /\ OneToken(p) <=> \E i, e : Elem(s, c, i, e)
            /\ \A i, e : Elem(s, c, i, e) => TheToken(p) = s[i]
<1> DEFINE p == Piece(s, Comma, c)
<1>0. Len(s) \in Nat
  BY DEF Text
<1>1. PICK e \in c + 1..Len(s) + 1 :
           /\ c \in 0..Len(s) /\ (e <= Len(s) => s[e] = Comma)
           /\ \A j \in c + 1..e - 1 : s[j] # Comma
           /\ \A d \in Cuts(s, Comma) : c < d => e <= d
           /\ p \in Text /\ Len(p) = e - 1 - c
           /\ \A k \in 1..e - 1 - c : p[k] = s[c + k]
  BY PieceIs
<1> HIDE DEF p
<1>2. ASSUME OneToken(p) PROVE \E i : Elem(s, c, i, e)
  <2>1. PICK k \in 1..Len(p) : IsToken(p[k]) /\ \A j \in 1..Len(p) : j # k => p[j] = Space
    BY <1>1, <1>2, TrimOne
  <2>2. c + k \in c + 1..Len(s) /\ IsToken(s[c + k]) /\ e \in (c + k) + 1..Len(s) + 1
    BY <1>0, <1>1, <2>1
  <2>3. ASSUME NEW j \in c + 1..e - 1, j # c + k PROVE s[j] = Space
    <3>1. j - c \in 1..Len(p) /\ j - c # k /\ c + (j - c) = j
      BY <1>0, <1>1, <2>1, <2>3
    <3> QED
      BY <1>1, <2>1, <3>1
  <2>4. Elem(s, c, c + k, e)
    BY <1>1, <2>2, <2>3 DEF Elem
  <2> QED
    BY <2>4
<1>3. ASSUME NEW i, NEW f, Elem(s, c, i, f)
      PROVE  OneToken(p) /\ TheToken(p) = s[i]
  <2>1. /\ i \in c + 1..Len(s) /\ f \in i + 1..Len(s) + 1 /\ IsToken(s[i])
        /\ \A j \in c + 1..f - 1 : j # i => s[j] = Space
        /\ f <= Len(s) => s[f] = Comma
    BY <1>3 DEF Elem
  <2>2. f = e
    <3>1. f <= Len(s) => f \in Cuts(s, Comma) /\ c < f
      BY <1>0, <1>3, ElemEnds
    <3>2. e <= Len(s) => e \in Cuts(s, Comma) /\ c < e
      BY <1>0, <1>1 DEF Cuts, Text
    <3>3. e <= Len(s) => f <= e
      BY <1>3, <3>2, ElemEnds
    <3>4. f <= Len(s) => e <= f
      BY <1>1, <3>1
    <3> QED
      BY <1>0, <1>1, <2>1, <3>3, <3>4
  <2>3. i - c \in 1..Len(p) /\ p[i - c] = s[i]
    BY <1>0, <1>1, <2>1, <2>2
  <2>4. ASSUME NEW j \in 1..Len(p), j # i - c PROVE p[j] = Space
    <3>1. c + j \in c + 1..f - 1 /\ c + j # i /\ j \in 1..e - 1 - c
      BY <1>0, <1>1, <2>1, <2>2, <2>4
    <3> QED
      BY <1>1, <2>1, <3>1
  <2> QED
    BY <1>1, <2>1, <2>3, <2>4, TrimOne
<1> QED
  BY <1>2, <1>3 DEF p

(* So the grammar names the tokens that the elements are. *)
LEMMA GrammarIsSays ==
  ASSUME NEW s \in Text, NEW value
  PROVE  (\E c \in Readable(s, OneToken) : Fold(TheToken(Piece(s, Comma, c))) = value)
         <=> Says(s, 0, value)
<1>0. \A d \in Cuts(s, Comma) : 0 <= d
  BY DEF Cuts, Text
<1>1. \A c : c \in Readable(s, OneToken) <=>
        /\ c \in Cuts(s, Comma)
        /\ \A d \in Cuts(s, Comma) : d <= c => \E i, e : Elem(s, d, i, e)
  BY PieceIsElem DEF Readable
<1>2. \A c \in Readable(s, OneToken) :
        Fold(TheToken(Piece(s, Comma, c))) = value <=>
          \E i, e : Elem(s, c, i, e) /\ Fold(s[i]) = value
  <2> SUFFICES ASSUME NEW c \in Readable(s, OneToken)
               PROVE  Fold(TheToken(Piece(s, Comma, c))) = value <=>
                        \E i, e : Elem(s, c, i, e) /\ Fold(s[i]) = value
    OBVIOUS
  <2>1. c \in Cuts(s, Comma) /\ c <= c
    BY <1>1 DEF Cuts, Text
  <2>2. \E i, e : Elem(s, c, i, e)
    BY <1>1, <2>1
  <2> QED
    BY <2>1, <2>2, PieceIsElem
<1> QED
  BY <1>0, <1>1, <1>2 DEF Says

(* The code's parser of token lists finds exactly what the grammar names.  *)
LEMMA TokenListsParsed ==
  ASSUME NEW header \in Seq(Text), NEW value
  PROVE  tokenListContainsValue(header, value) <=> HasToken(header, value)
<1>1. ASSUME NEW l \in DOMAIN header
      PROVE  LineContains(header[l], value) <=>
               \E c \in Readable(header[l], OneToken) : Fold(TheToken(Piece(header[l], Comma, c))) = value
  <2>1. header[l] \in Text
    OBVIOUS
  <2> QED
    BY <2>1, ContainsIsSays, GrammarIsSays
<1> QED
  BY <1>1 DEF tokenListContainsValue, HasToken

-----------------------------------------------------------------------------
(* Spaces at the ends of a line. *)

(* Trim takes nothing but spaces, and all of them at either end. *)
LEMMA TrimIs ==
  ASSUME NEW s \in Text
  PROVE  /\ Trim(s) \in Text
         /\ Trim(s) # <<>> =>
              \E a \in 1..Len(s) : \E b \in a..Len(s) :
                /\ Len(Trim(s)) = b - a + 1 /\ s[a] # Space /\ s[b] # Space
                /\ \A k \in 1..b - a + 1 : Trim(s)[k] = s[k + a - 1]
                /\ \A j \in 1..Len(s) : j < a \/ b < j => s[j] = Space
         /\ Trim(s) = <<>> => \A j \in 1..Len(s) : s[j] = Space
<1> DEFINE a == skipSpace(s, 1)
           B == {0} \cup {i \in DOMAIN s : s[i] # Space}
           b == Max(B)
<1>0. Len(s) \in Nat /\ DOMAIN s = 1..Len(s)
  BY DEF Text
<1>1. /\ a \in 1..Len(s) + 1 /\ a \in Int
      /\ \A j \in 1..a - 1 : s[j] = Space
      /\ a <= Len(s) => s[a] # Space
  BY <1>0, SkipSpace
<1>2. b \in B /\ b \in 0..Len(s) /\ \A m \in B : m <= b
  <2>1. B \subseteq 0..Len(s) /\ B # {}
    BY <1>0
  <2> HIDE DEF B
  <2> QED
    BY <1>0, <2>1, MaxIs
<1>3. Trim(s) = SubSeq(s, a, b)
  BY DEF Trim
<1>4. b > 0 => s[b] # Space
  BY <1>0, <1>2
<1>5. \A j \in 1..Len(s) : b < j => s[j] = Space
  <2> SUFFICES ASSUME NEW j \in 1..Len(s), b < j, s[j] # Space PROVE FALSE
    OBVIOUS
  <2>1. j \in B
    BY <1>0
  <2> QED
    BY <1>0, <1>2, <2>1
<1> HIDE DEF a, b, B
<1>6. Trim(s) \in Text /\ Len(Trim(s)) = (IF a <= b THEN b - a + 1 ELSE 0)
  BY <1>0, <1>1, <1>2, <1>3 DEF Text
<1>7. ASSUME Trim(s) # <<>> PROVE a \in 1..Len(s) /\ b \in a..Len(s)
  <2>1. Len(Trim(s)) # 0
    BY <1>6, <1>7 DEF Text
  <2> QED
    BY <1>0, <1>1, <1>2, <1>6, <2>1
<1>8. ASSUME Trim(s) # <<>>
      PROVE  \A k \in 1..b - a + 1 : Trim(s)[k] = s[k + a - 1]
  BY <1>0, <1>3, <1>7, <1>8 DEF Text
<1>9. ASSUME Trim(s) # <<>>
      PROVE  \A j \in 1..Len(s) : j < a \/ b < j => s[j] = Space
  BY <1>0, <1>1, <1>2, <1>5
<1>10. ASSUME Trim(s) # <<>>
       PROVE  Len(Trim(s)) = b - a + 1 /\ s[a] # Space /\ s[b] # Space
  BY <1>0, <1>1, <1>4, <1>6, <1>7, <1>10
<1>11. ASSUME Trim(s) = <<>>, NEW j \in 1..Len(s) PROVE s[j] = Space
  <2>1. Len(Trim(s)) = 0
    BY <1>11
  <2>2. ~(a <= b)
    BY <1>0, <1>1, <1>2, <1>6, <2>1
  <2>3. j < a \/ b < j
    BY <1>0, <1>1, <1>2, <2>2
  <2> QED
    BY <1>0, <1>1, <1>5, <2>3
<1> QED
  BY <1>6, <1>7, <1>8, <1>9, <1>10, <1>11

(* They make no difference to a list. *)
LEMMA TrimSays ==
  ASSUME NEW s \in Text, Trim(s) # <<>>, NEW value
  PROVE  Says(Trim(s), 0, value) <=> Says(s, 0, value)
<1> DEFINE t == Trim(s)
<1>0. Len(s) \in Nat /\ t \in Text /\ Len(t) \in Nat /\ DOMAIN s = 1..Len(s) /\ DOMAIN t = 1..Len(t)
  BY TrimIs DEF Text
<1>1. PICK a \in 1..Len(s), b \in 1..Len(s) :
        /\ a <= b /\ Len(t) = b - a + 1
        /\ \A k \in 1..Len(t) : t[k] = s[k + a - 1]
        /\ \A j \in 1..Len(s) : j < a \/ b < j => s[j] = Space
  <2>1. PICK a \in 1..Len(s) : \E b \in a..Len(s) :
                /\ Len(Trim(s)) = b - a + 1 /\ s[a] # Space /\ s[b] # Space
                /\ \A k \in 1..b - a + 1 : Trim(s)[k] = s[k + a - 1]
                /\ \A j \in 1..Len(s) : j < a \/ b < j => s[j] = Space
    BY TrimIs
  <2>2. PICK b \in a..Len(s) :
                /\ Len(Trim(s)) = b - a + 1 /\ s[a] # Space /\ s[b] # Space
                /\ \A k \in 1..b - a + 1 : Trim(s)[k] = s[k + a - 1]
                /\ \A j \in 1..Len(s) : j < a \/ b < j => s[j] = Space
    BY <2>1
  <2>3. b \in 1..Len(s) /\ a <= b
    BY <1>0
  <2> QED
    BY <2>2, <2>3
<1> HIDE DEF t
<1> DEFINE M(c) == IF c = 0 THEN 0 ELSE c + a - 1
           O(e) == IF e <= Len(t) THEN e + a - 1 ELSE Len(s) + 1
           N(e) == IF e <= b THEN e - a + 1 ELSE Len(t) + 1
<1>2. \A c \in Cuts(t, Comma) : c \in 0..Len(t) /\ M(c) \in Cuts(s, Comma) /\ M(c) \in 0..Len(s)
  <2> SUFFICES ASSUME NEW c \in Cuts(t, Comma)
               PROVE  c \in 0..Len(t) /\ M(c) \in Cuts(s, Comma) /\ M(c) \in 0..Len(s)
    OBVIOUS
  <2>1. c = 0 \/ (c \in 1..Len(t) /\ t[c] = Comma)
    BY <1>0 DEF Cuts
  <2>2. CASE c = 0
    BY <1>0, <2>2 DEF Cuts
  <2>3. CASE c \in 1..Len(t) /\ t[c] = Comma
    <3>1. c + a - 1 \in 1..Len(s) /\ s[c + a - 1] = Comma
      BY <1>0, <1>1, <2>3
    <3> QED
      BY <1>0, <2>3, <3>1 DEF Cuts
  <2> QED
    BY <2>1, <2>2, <2>3
<1>3. \A d \in Cuts(s, Comma) : \E c \in Cuts(t, Comma) : M(c) = d
  <2> SUFFICES ASSUME NEW d \in Cuts(s, Comma) PROVE \E c \in Cuts(t, Comma) : M(c) = d
    OBVIOUS
  <2>1. d = 0 \/ (d \in 1..Len(s) /\ s[d] = Comma)
    BY <1>0 DEF Cuts
  <2>2. CASE d = 0
    BY <2>2 DEF Cuts
  <2>3. CASE d \in 1..Len(s) /\ s[d] = Comma
    <3>1. a <= d /\ d <= b
      BY <1>0, <1>1, <2>3, Distinct
    <3>2. d - a + 1 \in 1..Len(t) /\ (d - a + 1) + a - 1 = d
      BY <1>0, <1>1, <3>1, <2>3
    <3>3. t[d - a + 1] = Comma
      BY <1>1, <2>3, <3>2
    <3>4. d - a + 1 \in Cuts(t, Comma) /\ M(d - a + 1) = d
      BY <1>0, <3>2, <3>3 DEF Cuts
    <3> QED
      BY <3>4
  <2> QED
    BY <2>1, <2>2, <2>3
<1>4. \A c, d \in Cuts(t, Comma) : M(c) <= M(d) <=> c <= d
  BY <1>0, <1>1, <1>2
<1>5. ASSUME NEW c \in Cuts(t, Comma), NEW i, NEW e, Elem(t, c, i, e)
      PROVE  Elem(s, M(c), i + a - 1, O(e)) /\ s[i + a - 1] = t[i]
  <2>1. /\ i \in c + 1..Len(t) /\ IsToken(t[i])
        /\ e \in i + 1..Len(t) + 1 /\ (e <= Len(t) => t[e] = Comma)
        /\ \A j \in c + 1..e - 1 : j # i => t[j] = Space
    BY <1>5 DEF Elem
  <2>2. c \in 0..Len(t) /\ M(c) \in 0..Len(s)
    BY <1>2
  <2>3. i + a - 1 \in M(c) + 1..Len(s) /\ s[i + a - 1] = t[i]
    BY <1>0, <1>1, <2>1, <2>2
  <2>4. O(e) \in (i + a - 1) + 1..Len(s) + 1 /\ (O(e) <= Len(s) => s[O(e)] = Comma)
    BY <1>0, <1>1, <2>1, <2>2
  <2>5. ASSUME NEW j \in M(c) + 1..O(e) - 1, j # i + a - 1 PROVE s[j] = Space
    <3>1. CASE j < a \/ b < j
      BY <1>0, <1>1, <2>2, <2>4, <2>5, <3>1
    <3>2. CASE a <= j /\ j <= b
      <4>1. j - a + 1 \in c + 1..e - 1 /\ j - a + 1 # i /\ j - a + 1 \in 1..Len(t)
        BY <1>0, <1>1, <2>1, <2>2, <2>4, <2>5, <3>2
      <4>2. t[j - a + 1] = s[(j - a + 1) + a - 1] /\ (j - a + 1) + a - 1 = j
        BY <1>0, <1>1, <4>1, <2>4, <2>2
      <4> QED
        BY <2>1, <4>1, <4>2
    <3> QED
      BY <1>0, <1>1, <2>2, <2>4, <3>1, <3>2
  <2> QED
    BY <2>1, <2>3, <2>4, <2>5 DEF Elem
<1>6. ASSUME NEW c \in Cuts(t, Comma), NEW i, NEW e, Elem(s, M(c), i, e)
      PROVE  Elem(t, c, i - a + 1, N(e)) /\ t[i - a + 1] = s[i]
  <2>1. /\ i \in M(c) + 1..Len(s) /\ IsToken(s[i]) /\ s[i] # Space
        /\ e \in i + 1..Len(s) + 1 /\ (e <= Len(s) => s[e] = Comma)
        /\ \A j \in M(c) + 1..e - 1 : j # i => s[j] = Space
    BY <1>6, TokenIsNoSpace DEF Elem
  <2>2. c \in 0..Len(t) /\ M(c) \in 0..Len(s)
    BY <1>2
  <2>3. a <= i /\ i <= b
    BY <1>0, <1>1, <2>1, <2>2
  <2>4. e <= Len(s) => e <= b
    BY <1>0, <1>1, <2>1, <2>2, Distinct
  <2>5. i - a + 1 \in c + 1..Len(t) /\ t[i - a + 1] = s[i]
    <3>1. i - a + 1 \in c + 1..Len(t) /\ i - a + 1 \in 1..Len(t)
      BY <1>0, <1>1, <2>1, <2>2, <2>3
    <3>2. (i - a + 1) + a - 1 = i
      BY <1>0, <2>1, <2>2
    <3> QED
      BY <1>1, <3>1, <3>2
  <2>6. N(e) \in (i - a + 1) + 1..Len(t) + 1 /\ (N(e) <= Len(t) => t[N(e)] = Comma)
    <3>1. CASE e <= b
      <4>1. e - a + 1 \in 1..Len(t) /\ (e - a + 1) + a - 1 = e /\ e <= Len(s)
        BY <1>0, <1>1, <2>1, <2>2, <2>3, <3>1
      <4>2. t[e - a + 1] = Comma
        BY <1>1, <2>1, <4>1
      <4> QED
        BY <1>0, <1>1, <2>1, <2>2, <2>3, <3>1, <4>1, <4>2
    <3>2. CASE ~(e <= b)
      BY <1>0, <1>1, <2>1, <2>2, <2>3, <3>2
    <3> QED
      BY <3>1, <3>2
  <2>7. ASSUME NEW j \in c + 1..N(e) - 1, j # i - a + 1 PROVE t[j] = Space
    <3>1. j \in 1..Len(t) /\ j + a - 1 \in M(c) + 1..e - 1 /\ j + a - 1 # i
      BY <1>0, <1>1, <2>1, <2>2, <2>3, <2>4, <2>6, <2>7
    <3> QED
      BY <1>1, <2>1, <3>1
  <2> QED
    BY <2>1, <2>5, <2>6, <2>7 DEF Elem
<1>7. 0 \in Cuts(t, Comma) /\ 0 \in Cuts(s, Comma) /\ \A c \in Cuts(t, Comma) : 0 <= c /\ 0 <= M(c)
  BY <1>0, <1>2 DEF Cuts
<1> HIDE DEF M, N, O
<1>8. ASSUME Says(t, 0, value) PROVE Says(s, 0, value)
  <2>1. PICK last \in Cuts(t, Comma) :
          /\ \A d \in Cuts(t, Comma) : 0 <= d /\ d <= last => \E i, e : Elem(t, d, i, e)
          /\ \E i, e : Elem(t, last, i, e) /\ Fold(t[i]) = value
    BY <1>8 DEF Says
  <2>2. ASSUME NEW d \in Cuts(s, Comma), d <= M(last) PROVE \E i, e : Elem(s, d, i, e)
    <3>1. PICK c \in Cuts(t, Comma) : M(c) = d
      BY <1>3
    <3>2. c <= last /\ 0 <= c
      BY <1>4, <1>7, <2>2, <3>1
    <3>3. \E i, e : Elem(t, c, i, e)
      BY <2>1, <3>2
    <3> QED
      BY <1>5, <3>1, <3>3
  <2>3. \E i, e : Elem(s, M(last), i, e) /\ Fold(s[i]) = value
    BY <1>5, <2>1
  <2>4. M(last) \in Cuts(s, Comma) /\ 0 <= M(last)
    BY <1>2, <1>7
  <2> QED
    BY <2>2, <2>3, <2>4 DEF Says
<1>9. ASSUME Says(s, 0, value) PROVE Says(t, 0, value)
  <2>1. PICK far \in Cuts(s, Comma) :
          /\ \A d \in Cuts(s, Comma) : 0 <= d /\ d <= far => \E i, e : Elem(s, d, i, e)
          /\ \E i, e : Elem(s, far, i, e) /\ Fold(s[i]) = value
    BY <1>9 DEF Says
  <2>2. PICK last \in Cuts(t, Comma) : M(last) = far
    BY <1>3
  <2>3. ASSUME NEW c \in Cuts(t, Comma), c <= last PROVE \E i, e : Elem(t, c, i, e)
    <3>1. M(c) <= far /\ 0 <= M(c) /\ M(c) \in Cuts(s, Comma)
      BY <1>2, <1>4, <1>7, <2>2, <2>3
    <3>2. \E i, e : Elem(s, M(c), i, e)
      BY <2>1, <3>1
    <3> QED
      BY <1>6, <3>2
  <2>4. \E i, e : Elem(t, last, i, e) /\ Fold(t[i]) = value
    BY <1>6, <2>1, <2>2
  <2> QED
    BY <1>7, <2>3, <2>4 DEF Says
<1> QED
  BY <1>8, <1>9 DEF t

(* A line that names something is not blank. *)
LEMMA TrimEmpty == Trim(<<>>) = <<>>
<1>1. <<>> \in Text
  BY DEF Text
<1>2. Trim(<<>>) # <<>> => \E a \in 1..Len(<<>>) : TRUE
  BY <1>1, TrimIs, Zenon
<1>3. Len(<<>>) = 0
  OBVIOUS
<1> QED
  BY <1>2, <1>3

(* Sequences of one element. *)
LEMMA Singleton ==
  ASSUME NEW S, NEW x \in S
  PROVE  <<x>> \in Seq(S) /\ Len(<<x>>) = 1 /\ <<x>>[1] = x
OBVIOUS

(* A sequence of length one is its first element. *)
LEMMA OnlyOne ==
  ASSUME NEW S, NEW s \in Seq(S), Len(s) = 1
  PROVE  s[1] \in S /\ s = <<s[1]>>
<1>1. DOMAIN s = 1..1 /\ 1 \in 1..1
  OBVIOUS
<1>2. s[1] \in S
  BY <1>1, ElementOfSeq
<1>3. <<s[1]>> \in Seq(S) /\ Len(<<s[1]>>) = 1 /\ <<s[1]>>[1] = s[1]
  BY <1>2, Singleton
<1>4. \A i \in 1..Len(s) : s[i] = <<s[1]>>[i]
  <2> TAKE i \in 1..Len(s)
  <2>1. i = 1
    OBVIOUS
  <2> QED
    BY <2>1, <1>3
<1> QED
  BY <1>2, <1>3, <1>4, SeqEqual

(* One that is not empty and no longer than one has a first element. *)
LEMMA AtMostOne ==
  ASSUME NEW S, NEW s \in Seq(S), s # <<>>, Len(s) <= 1
  PROVE  Len(s) = 1 /\ s[1] \in S
<1>1. Len(s) \in Nat /\ Len(s) # 0
  BY EmptySeq
<1>2. Len(s) = 1
  BY <1>1
<1>3. 1 \in 1..Len(s)
  BY <1>2
<1> QED
  BY <1>2, <1>3, ElementOfSeq

(* A header of one line with one lexeme. *)
LEMMA Nested == \A x : <<<<x>>>> # <<>> /\ <<<<x>>>>[1] = <<x>>
OBVIOUS

(* A line that is one token is trimmed already. *)
LEMMA TrimWord == ASSUME NEW x, <<x>> \in Text, IsToken(x) PROVE Trim(<<x>>) = <<x>>
<1> DEFINE s == <<x>>
<1>1. s \in Text /\ Len(s) = 1 /\ s[1] = x
  OBVIOUS
<1> HIDE DEF s
<1>2. OneToken(s) /\ TheToken(s) = x
  <2>1. 1 \in 1..Len(s) /\ \A j \in 1..Len(s) : j = 1
    BY <1>1
  <2> QED
    BY <1>1, <2>1, TrimOne, Zenon
<1>3. Trim(s) \in Text /\ Len(Trim(s)) = 1 /\ Trim(s)[1] = x
  BY <1>1, <1>2, TrimIs DEF OneToken, TheToken
<1>4. Trim(s) = <<x>>
  BY <1>3, OnlyOne, Zenon DEF Text
<1> QED
  BY <1>4 DEF s

-----------------------------------------------------------------------------
(* Requests that the program sees as they were sent, and in which every    *)
(* header is one line;                                                     *)
Exact == Understood /\ Plain(original)

(* and such a request as Upgrade gets to see it.                           *)
Seen ==
  [f \in DOMAIN original |->
     IF f \notin Fields \/ original[f] = <<>> THEN original[f]
     ELSE <<IF secure THEN Trim(original[f][1]) ELSE original[f][1]>>]

(* Inside TLS: what isUpgrade takes for the request of a page.             *)
PageRequest(r) == secure /\ Get(r.upgrade) # <<"websocket">> /\ Get(r.connection) # <<"Upgrade">>

(* What was decided about a plain request was decided as the grammar says. *)
ServedInv ==
  /\ original \in Request
  /\ pc = "read" => request = original
  /\ Exact =>
       /\ pc \in {"upgrade", "http", "ignored", "refused", "headers"} => request = Seen
       /\ pc = "http" => PageRequest(request)
       /\ pc = "ignored" => Get(request.upgrade) = <<>>
       /\ pc = "refused" => Refusal(request) # "none"
       /\ told # <<>> => Proper(original)
       /\ pc = "dial" => \A f \in Fields \ {"protocol"} : request[f] = <<>>
       /\ pc # "duplicate"

(* What HandshakeAssumption says of a request. *)
LEMMA RequestType ==
  ASSUME NEW r \in Request
  PROVE  /\ Fields \cup {"method"} \subseteq DOMAIN r
         /\ \A f \in Fields : r[f] \in Seq(Text)
BY HandshakeAssumption DEF Text

(* The headers of a handshake; the method is none of them. *)
LEMMA FieldsAre ==
  /\ "connection" \in Fields /\ "upgrade" \in Fields /\ "version" \in Fields
  /\ "key" \in Fields /\ "extensions" \in Fields /\ "protocol" \in Fields /\ "method" \notin Fields
BY DEF Fields

(* A plain header is seen as it is but for spaces. *)
LEMMA SeenHeader ==
  ASSUME original \in Request, Plain(original), NEW f \in Fields
  PROVE  /\ original[f] = <<>> => Seen[f] = <<>>
         /\ original[f] # <<>> =>
              /\ original[f][1] \in Text /\ Trim(original[f][1]) # <<>> /\ Len(original[f]) = 1
              /\ Seen[f] = <<IF secure THEN Trim(original[f][1]) ELSE original[f][1]>>
              /\ Get(Seen[f]) # <<>> /\ Get(original[f]) # <<>>
         /\ Seen[f] \in Seq(Text)
<1>1. f \in DOMAIN original /\ original[f] \in Seq(Text)
  BY RequestType
<1>2. Len(original[f]) <= 1 /\ (original[f] # <<>> => Trim(original[f][1]) # <<>>)
  BY DEF Plain
<1>3. ASSUME original[f] # <<>>
      PROVE  original[f][1] \in Text /\ Len(original[f]) = 1
  <2> DEFINE o == original[f]
  <2>1. o \in Seq(Text) /\ Len(o) <= 1 /\ o # <<>>
    BY <1>1, <1>2, <1>3
  <2> HIDE DEF o
  <2>2. Len(o) = 1 /\ o[1] \in Text
    BY <2>1, AtMostOne
  <2> QED
    BY <2>2 DEF o
<1>4. Seen[f] = IF original[f] = <<>> THEN <<>>
                ELSE <<IF secure THEN Trim(original[f][1]) ELSE original[f][1]>>
  BY <1>1 DEF Seen
<1>5. ASSUME original[f] # <<>>
      PROVE  Get(Seen[f]) # <<>> /\ Get(original[f]) # <<>>
  <2>1. original[f][1] # <<>>
    BY <1>2, <1>5, TrimEmpty
  <2> QED
    BY <1>2, <1>4, <1>5, <2>1 DEF Get
<1>6. Seen[f] \in Seq(Text)
  <2>1. original[f] # <<>> => Trim(original[f][1]) \in Text
    BY <1>3, TrimIs
  <2> QED
    BY <1>3, <1>4, <2>1
<1> QED
  BY <1>2, <1>3, <1>4, <1>5, <1>6

(* Upgrade finds a token in what it sees where the grammar has it in what *)
(* was sent.                                                               *)
LEMMA SeenToken ==
  ASSUME original \in Request, Plain(original), NEW f \in Fields, NEW value
  PROVE  tokenListContainsValue(Seen[f], value) <=> HasToken(original[f], value)
<1> DEFINE o == original[f]
           s == Seen[f]
<1>1. o \in Seq(Text) /\ s \in Seq(Text)
  BY RequestType, SeenHeader
<1>2. CASE o = <<>>
  <2>1. s = <<>>
    BY <1>2, SeenHeader
  <2>2. DOMAIN o = {} /\ DOMAIN s = {}
    BY <1>2, <2>1
  <2> QED
    BY <2>2 DEF tokenListContainsValue, HasToken
<1>3. CASE o # <<>>
  <2>1. /\ o[1] \in Text /\ Trim(o[1]) # <<>> /\ DOMAIN o = {1}
        /\ s = <<IF secure THEN Trim(o[1]) ELSE o[1]>>
    BY <1>1, <1>3, SeenHeader
  <2>2. s[1] \in Text /\ DOMAIN s = {1} /\ (s[1] = Trim(o[1]) \/ s[1] = o[1])
    BY <2>1, TrimIs
  <2> HIDE DEF s, o
  <2>3. tokenListContainsValue(s, value) <=> LineContains(s[1], value)
    BY <2>2, Zenon DEF tokenListContainsValue
  <2>4. HasToken(o, value) <=> Says(o[1], 0, value)
    <3>1. HasToken(o, value) <=>
            \E c \in Readable(o[1], OneToken) : Fold(TheToken(Piece(o[1], Comma, c))) = value
      BY <2>1, Zenon DEF HasToken
    <3> QED
      BY <2>1, <3>1, GrammarIsSays
  <2>5. LineContains(s[1], value) <=> Says(s[1], 0, value)
    BY <2>2, ContainsIsSays
  <2>6. Says(s[1], 0, value) <=> Says(o[1], 0, value)
    BY <2>1, <2>2, TrimSays
  <2> QED
    BY <2>3, <2>4, <2>5, <2>6 DEF o, s
<1> QED
  BY <1>2, <1>3

(* Upgrade refuses exactly what is not a handshake. *)
LEMMA SeenProper ==
  ASSUME original \in Request, Plain(original)
  PROVE  Get(Seen.upgrade) # <<>> /\ Refusal(Seen) = "none" <=> Proper(original)
<1>1. "method" \in DOMAIN original /\ Seen["method"] = original["method"]
  BY RequestType, FieldsAre DEF Seen
<1>2. Seen.method = original.method
  BY <1>1
<1>3. /\ tokenListContainsValue(Seen.connection, "upgrade") <=> HasToken(original.connection, "upgrade")
      /\ tokenListContainsValue(Seen.upgrade, "websocket") <=> HasToken(original.upgrade, "websocket")
      /\ tokenListContainsValue(Seen.version, "13") <=> HasToken(original.version, "13")
  BY FieldsAre, SeenToken
<1>4. Get(Seen.key) # <<>> <=> Get(original.key) # <<>>
  BY FieldsAre, SeenHeader DEF Get
<1>5. HasToken(original.upgrade, "websocket") => Get(Seen.upgrade) # <<>>
  <2>1. original.upgrade # <<>> => Get(Seen.upgrade) # <<>>
    BY FieldsAre, SeenHeader
  <2>2. ~HasToken(<<>>, "websocket")
    BY DEF HasToken
  <2> QED
    BY <2>1, <2>2
<1>6. Refusal(Seen) = "none" <=>
        /\ tokenListContainsValue(Seen.connection, "upgrade")
        /\ tokenListContainsValue(Seen.upgrade, "websocket")
        /\ Seen.method = "GET" /\ tokenListContainsValue(Seen.version, "13") /\ Get(Seen.key) # <<>>
  BY DEF Refusal
<1> QED
  BY <1>2, <1>3, <1>4, <1>5, <1>6, Zenon DEF Proper

(* Nothing has been decided at the start. *)
LEMMA ServedStarts == HandshakeInit => ServedInv
<1> SUFFICES ASSUME HandshakeInit PROVE ServedInv
  OBVIOUS
<1>1. original \in Request /\ request = original /\ pc = "read" /\ told = <<>>
  BY DEF HandshakeInit
<1> QED
  BY <1>1 DEF ServedInv

(* In the clear, of a header that is legible the last line is kept.        *)
LEMMA KeptIs ==
  ASSUME original \in Request, Legible(original), NEW f \in Fields, NEW read \in Reads
  PROVE  Kept(f, read) = IF original[f] = <<>> THEN <<>> ELSE <<Last(original[f])>>
<1> DEFINE o == original[f]
           found == {l \in DOMAIN o : <<f, l>> \in DOMAIN read \ original.tight}
<1>1. o \in Seq(Text) /\ Len(o) \in Nat /\ DOMAIN o = 1..Len(o)
  BY RequestType
<1>2. read = [row \in Rows |-> Line(row)]
  BY DEF Reads, Legible
<1>3. \A l \in DOMAIN o : <<f, l>> \in Rows
  BY DEF Rows
<1>4. found = 1..Len(o)
  BY <1>1, <1>2, <1>3 DEF Legible
<1>5. Kept(f, read) = IF found = {} THEN <<>> ELSE <<UpToColon(read[<<f, Max(found)>>])>>
  BY Zenon DEF Kept
<1>6. CASE o = <<>>
  <2>1. found = {}
    BY <1>4, <1>6
  <2> QED
    BY <1>5, <1>6, <2>1
<1>7. CASE o # <<>>
  <2>1. Len(o) # 0
    BY <1>1, <1>7, EmptySeq
  <2>2. Max(found) = Len(o) /\ found # {} /\ Len(o) \in DOMAIN o
    BY <1>1, <1>4, <2>1, MaxTo, Zenon
  <2> HIDE DEF found
  <2>3. read[<<f, Len(o)>>] = o[Len(o)]
    <3>1. <<f, Len(o)>> \in Rows
      BY <1>3, <2>2
    <3>2. Line(<<f, Len(o)>>) = o[Len(o)]
      BY DEF Line
    <3> QED
      BY <1>2, <3>1, <3>2
  <2>4. UpToColon(o[Len(o)]) = o[Len(o)]
    BY <2>2 DEF Legible
  <2> QED
    BY <1>5, <1>7, <2>2, <2>3, <2>4 DEF Last
<1> QED
  BY <1>6, <1>7

(* What Classify makes of the headers of a request that is understood.     *)
LEMMA ClassifyIs ==
  ASSUME original \in Request, Understood, Classify
  PROVE  /\ DOMAIN request' = DOMAIN original
         /\ \A f \in DOMAIN original : request'[f] =
              IF f \notin Fields \/ original[f] = <<>> THEN original[f]
              ELSE IF secure THEN [l \in DOMAIN original[f] |-> Trim(original[f][l])]
              ELSE <<Last(original[f])>>
<1>1. CASE secure
  <2>1. request' = [f \in DOMAIN original |->
                      IF f \notin Fields THEN original[f]
                      ELSE [l \in DOMAIN original[f] |-> Trim(original[f][l])]]
    BY <1>1 DEF Classify
  <2>2. \A f : original[f] = <<>> => [l \in DOMAIN original[f] |-> Trim(original[f][l])] = <<>>
    OBVIOUS
  <2> QED
    BY <1>1, <2>1, <2>2
<1>2. CASE ~secure
  <2>1. PICK read \in Reads :
          request' = [f \in DOMAIN original |-> IF f \in Fields THEN Kept(f, read) ELSE original[f]]
    BY <1>2 DEF Classify
  <2>2. \A f \in Fields : Kept(f, read) = IF original[f] = <<>> THEN <<>> ELSE <<Last(original[f])>>
    BY <1>2, KeptIs DEF Understood
  <2> QED
    BY <1>2, <2>1, <2>2
<1> QED
  BY <1>1, <1>2

(* What the browser's request has become when it is classified. *)
LEMMA ClassifySeen ==
  ASSUME original \in Request, Exact, Classify
  PROVE  request' = Seen
<1>1. DOMAIN request' = DOMAIN original /\ \A f \in DOMAIN original : request'[f] =
       IF f \notin Fields \/ original[f] = <<>> THEN original[f]
       ELSE IF secure THEN [l \in DOMAIN original[f] |-> Trim(original[f][l])]
       ELSE <<Last(original[f])>>
  BY ClassifyIs DEF Exact
<1>2. ASSUME NEW f \in DOMAIN original, f \in Fields, original[f] # <<>>
      PROVE  /\ [l \in DOMAIN original[f] |-> Trim(original[f][l])] = <<Trim(original[f][1])>>
             /\ Last(original[f]) = original[f][1]
  <2> DEFINE o == original[f]
             T(x) == Trim(x)
             m == [l \in DOMAIN o |-> T(o[l])]
  <2>1. o \in Seq(Text) /\ Len(o) = 1
    BY <1>2, RequestType, SeenHeader DEF Exact
  <2> HIDE DEF o, T
  <2>2. DOMAIN o = 1..1 /\ Last(o) = o[1]
    BY <2>1 DEF Last
  <2>3. m = <<T(o[1])>>
    BY <2>2
  <2> QED
    BY <2>2, <2>3 DEF o, T
<1>3. request' = [f \in DOMAIN original |-> request'[f]]
  <2>1. \E g : request' = [f \in DOMAIN original |-> g[f]]
    BY Zenon DEF Classify
  <2> QED
    BY <2>1
<1> QED
  BY <1>1, <1>2, <1>3, Zenon DEF Seen

(* What decides whether a request is served. *)
LEMMA ServedDecided ==
  ASSUME ServedInv, Classify \/ Ignore \/ Refuse \/ Break \/ Accept
  PROVE  ServedInv'
<1>0. original' = original /\ secure' = secure /\ Seen' = Seen
  BY DEF Classify, Ignore, Refuse, Break, Accept, scenario, Seen
<1>1. Exact' = Exact /\ Proper(original)' = Proper(original)
  BY <1>0 DEF Exact, Understood, Legible, Plain, Proper
<1>2. CASE Classify
  <2>1. /\ pc' \in {"upgrade", "http"} /\ pc = "read" /\ told' = told
        /\ pc' = "http" => PageRequest(request)'
    BY <1>0, <1>2 DEF Classify, PageRequest
  <2>2. Exact => request' = Seen
    BY <1>2, ClassifySeen DEF ServedInv
  <2> QED
    BY <1>0, <1>1, <2>1, <2>2 DEF ServedInv
<1>3. CASE Ignore \/ Refuse \/ Break
  BY <1>0, <1>1, <1>3 DEF Ignore, Refuse, Break, ServedInv, Get, Refusal
<1>4. CASE Accept
  <2>1. /\ pc = "upgrade" /\ Get(request.upgrade) # <<>> /\ Refusal(request) = "none"
        /\ pc' = "headers" /\ request' = request
    BY <1>4 DEF Accept
  <2>2. Exact => Proper(original)
    BY <2>1, SeenProper DEF ServedInv, Exact
  <2> QED
    BY <1>0, <1>1, <2>1, <2>2 DEF ServedInv
<1> QED
  BY <1>2, <1>3, <1>4

(* RemoveWsHeader leaves none of the headers the Dialer adds. *)
LEMMA HeadersRemoved ==
  ASSUME ServedInv, RemoveWsHeader
  PROVE  ServedInv'
<1>0. original' = original /\ secure' = secure /\ told' = told /\ pc = "headers" /\ pc' = "dial"
  BY DEF RemoveWsHeader, scenario
<1>1. Exact' = Exact /\ Proper(original)' = Proper(original)
  BY <1>0 DEF Exact, Understood, Legible, Plain, Proper
<1>2. ASSUME Exact, NEW f \in Fields \ {"protocol"} PROVE request'[f] = <<>>
  <2>1. request = Seen /\ original \in Request
    BY <1>0, <1>2 DEF ServedInv
  <2>2. f \in DOMAIN request
    BY <2>1, RequestType DEF Seen
  <2>3. request'[f] = IF Get(request[f]) # <<>> THEN <<>> ELSE request[f]
    BY <2>2 DEF RemoveWsHeader
  <2>4. request[f] = <<>> \/ Get(request[f]) # <<>>
    BY <1>2, <2>1, SeenHeader DEF Exact
  <2> QED
    BY <2>3, <2>4
<1> QED
  BY <1>0, <1>1, <1>2 DEF ServedInv

(* Every step decides as the grammar says, or leaves the decision alone. *)
LEMMA ServedStays == ServedInv /\ [HandshakeNext]_handshakeVars => ServedInv'
<1> SUFFICES ASSUME ServedInv, [HandshakeNext]_handshakeVars PROVE ServedInv'
  OBVIOUS
<1>1. CASE Classify \/ Ignore \/ Refuse \/ Break \/ Accept
  BY <1>1, ServedDecided
<1>2. CASE RemoveWsHeader
  BY <1>2, HeadersRemoved
<1>3. ASSUME original' = original, secure' = secure, request' = request, told' = told,
             pc' \notin {"read", "upgrade", "http", "ignored", "refused", "headers", "dial", "duplicate"}
                \/ pc' = pc
      PROVE  ServedInv'
  <2>1. /\ Exact' = Exact /\ Proper(original)' = Proper(original)
        /\ Seen' = Seen /\ PageRequest(request)' = PageRequest(request)
        /\ Refusal(request)' = Refusal(request)
    BY <1>3 DEF Exact, Understood, Legible, Plain, Proper, Seen, PageRequest, Refusal
  <2> QED
    BY <1>3, <2>1 DEF ServedInv
<1>4. CASE DialDuplicate
  <2>1. pc = "dial" /\ Duplicate /\ pc' = "duplicate" /\ UNCHANGED <<original, secure, told>>
    BY <1>4 DEF DialDuplicate, OnlyDial, scenario
  <2>2. ~Exact
    BY <2>1 DEF ServedInv, Duplicate
  <2>3. ~Exact'
    BY <2>1, <2>2 DEF Exact, Understood, Legible, Plain
  <2> QED
    BY <2>1, <2>3 DEF ServedInv
<1>5. CASE NetDial \/ Write \/ TargetAnswers \/ DialBroken
  BY <1>3, <1>5 DEF NetDial, Write, TargetAnswers, DialBroken, Abandon, OnlyDial, scenario
<1>6. CASE ReadResponse \/ CheckBad \/ Slurp \/ CheckCompression \/ Establish
  BY <1>3, <1>6 DEF ReadResponse, CheckBad, Slurp, CheckCompression, Establish, Abandon, OnlyDial,
                    scenario
<1>7. CASE UNCHANGED handshakeVars
  BY <1>3, <1>7 DEF handshakeVars, scenario
<1> QED
  BY <1>1, <1>2, <1>4, <1>5, <1>6, <1>7 DEF HandshakeNext

(* Whatever requests a browser sends, for lists of every length: among     *)
(* those the program sees as they were sent, with at most one line per     *)
(* header, none of them blank, exactly the proper handshakes are answered  *)
(* with 101, those exempted aside, and the dial of none of these fails for *)
(* a header that was left in it.                                           *)
THEOREM ProperIsServedHolds == HandshakeSpec => []ProperIsServed
<1>1. ServedInv => ProperIsServed
  <2> SUFFICES ASSUME ServedInv, Exact
               PROVE  /\ told # <<>> => Proper(original) /\ pc # "duplicate"
                      /\ pc \in {"ignored", "refused", "http"} /\ Proper(original) =>
                           /\ pc = "http"
                           /\ Trim(Get(original.upgrade)) # <<"websocket">>
                           /\ Trim(Get(original.connection)) # <<"Upgrade">>
    BY Zenon DEF ProperIsServed, Exact
  <2>1. told # <<>> => Proper(original) /\ pc # "duplicate"
    BY DEF ServedInv
  <2>2. ASSUME pc \in {"ignored", "refused", "http"}, Proper(original)
        PROVE  /\ pc = "http"
               /\ Trim(Get(original.upgrade)) # <<"websocket">>
               /\ Trim(Get(original.connection)) # <<"Upgrade">>
    <3>1. request = Seen /\ original \in Request /\ Plain(original)
      BY <2>2 DEF ServedInv, Exact
    <3>2. pc = "http" /\ PageRequest(request)
      BY <2>2, <3>1, SeenProper DEF ServedInv
    <3>3. ASSUME NEW f \in Fields, NEW x, Trim(Get(original[f])) = <<x>>
          PROVE  Get(Seen[f]) = <<x>>
      <4>1. original[f] # <<>>
        BY <3>3, TrimEmpty DEF Get
      <4>2. Seen[f] = <<Trim(original[f][1])>>
        BY <3>1, <3>2, <4>1, SeenHeader DEF PageRequest
      <4> QED
        BY <3>3, <4>1, <4>2 DEF Get
    <3>4. Get(Seen["upgrade"]) # <<"websocket">> /\ Get(Seen["connection"]) # <<"Upgrade">>
      BY <3>1, <3>2 DEF PageRequest
    <3>5. /\ Trim(Get(original["upgrade"])) # <<"websocket">>
          /\ Trim(Get(original["connection"])) # <<"Upgrade">>
      BY <3>3, <3>4, FieldsAre, Zenon
    <3> QED
      BY <3>2, <3>5
  <2> QED
    BY <2>1, <2>2
<1> QED
  BY <1>1, ServedStarts, ServedStays, PTL DEF HandshakeSpec

-----------------------------------------------------------------------------
(* The grammar of extensions, by places: what it says of a piece of a line *)
(* is said of what lies between two places of the line.                    *)

(* What is left of a piece that is trimmed: one lexeme if all others are *)
(* spaces.                                                               *)
LEMMA TrimSingle ==
  ASSUME NEW p \in Text
  PROVE  /\ \A i \in 1..Len(p) : p[i] # Space /\ (\A j \in 1..Len(p) : j # i => p[j] = Space) =>
              Len(Trim(p)) = 1 /\ Trim(p)[1] = p[i]
         /\ Len(Trim(p)) = 1 => \E i \in 1..Len(p) : /\ Trim(p)[1] = p[i]
                                                     /\ \A j \in 1..Len(p) : j # i => p[j] = Space
         /\ Trim(p) = <<>> <=> \A j \in 1..Len(p) : p[j] = Space
<1> DEFINE t == Trim(p)
<1>0. Len(p) \in Nat /\ t \in Text /\ Len(t) \in Nat
  BY TrimIs DEF Text
<1>1. t # <<>> => \E a \in 1..Len(p) : \E b \in a..Len(p) :
                /\ Len(t) = b - a + 1 /\ p[a] # Space /\ p[b] # Space
                /\ \A k \in 1..b - a + 1 : t[k] = p[k + a - 1]
                /\ \A j \in 1..Len(p) : j < a \/ b < j => p[j] = Space
  BY TrimIs
<1>2. t = <<>> => \A j \in 1..Len(p) : p[j] = Space
  BY TrimIs
<1>3. t = <<>> => Len(t) = 0
  OBVIOUS
<1> HIDE DEF t
<1>4. ASSUME NEW i \in 1..Len(p), p[i] # Space, \A j \in 1..Len(p) : j # i => p[j] = Space
      PROVE  Len(t) = 1 /\ t[1] = p[i]
  <2>1. t # <<>>
    BY <1>2, <1>4
  <2>2. PICK a \in 1..Len(p), b \in 1..Len(p) :
          a <= b /\ Len(t) = b - a + 1 /\ p[a] # Space /\ p[b] # Space
          /\ \A k \in 1..b - a + 1 : t[k] = p[k + a - 1]
    BY <1>0, <1>1, <2>1
  <2>3. a = i /\ b = i
    BY <1>4, <2>2
  <2>4. 1 \in 1..b - a + 1 /\ 1 + a - 1 = i /\ b - a + 1 = 1
    BY <2>3
  <2> QED
    BY <2>2, <2>4
<1>5. ASSUME Len(t) = 1
      PROVE  \E i \in 1..Len(p) : t[1] = p[i] /\ \A j \in 1..Len(p) : j # i => p[j] = Space
  <2>1. t # <<>>
    BY <1>3, <1>5
  <2>2. PICK a \in 1..Len(p) : \E b \in a..Len(p) :
          /\ Len(t) = b - a + 1
          /\ \A k \in 1..b - a + 1 : t[k] = p[k + a - 1]
          /\ \A j \in 1..Len(p) : j < a \/ b < j => p[j] = Space
    BY <1>1, <2>1
  <2>6. PICK b \in a..Len(p) :
          /\ Len(t) = b - a + 1
          /\ \A k \in 1..b - a + 1 : t[k] = p[k + a - 1]
          /\ \A j \in 1..Len(p) : j < a \/ b < j => p[j] = Space
    BY <2>2
  <2>7. b - a + 1 = 1
    BY <1>5, <2>6
  <2>8. a \in Int /\ b \in Int
    BY <1>0
  <2>3. a = b /\ 1 \in 1..b - a + 1 /\ 1 + a - 1 = a
    BY <2>7, <2>8
  <2>4. t[1] = p[a]
    BY <2>6, <2>3
  <2>5. \A j \in 1..Len(p) : j # a => p[j] = Space
    BY <2>6, <2>3
  <2> QED
    BY <2>4, <2>5
<1>6. (\A j \in 1..Len(p) : p[j] = Space) => t = <<>>
  BY <1>1
<1> QED
  BY <1>2, <1>4, <1>5, <1>6 DEF t

-----------------------------------------------------------------------------
(* Pieces of pieces: p is what lies between the places a and b of s. *)
Between(p, s, a, b) ==
  /\ a \in 0..Len(s) /\ b \in a + 1..Len(s) + 1
  /\ p \in Text /\ Len(p) = b - 1 - a
  /\ \A k \in 1..b - 1 - a : p[k] = s[a + k]

(* The cuts of a piece are cuts of the whole. *)
LEMMA CutsBetween ==
  ASSUME NEW s \in Text, NEW p, NEW a, NEW b, Between(p, s, a, b), NEW sep
  PROVE  /\ 0 \in Cuts(p, sep)
         /\ \A c \in Cuts(p, sep) : c = 0 \/ (a + c \in a + 1..b - 1 /\ s[a + c] = sep)
         /\ \A c \in Cuts(p, sep) : c \in 0..b - 1 - a
         /\ \A j \in a + 1..b - 1 : s[j] = sep => j - a \in Cuts(p, sep) \ {0} /\ a + (j - a) = j
<1>0. /\ Len(s) \in Nat /\ a \in 0..Len(s) /\ b \in a + 1..Len(s) + 1
      /\ Len(p) = b - 1 - a /\ DOMAIN p = 1..b - 1 - a
      /\ \A k \in 1..b - 1 - a : p[k] = s[a + k]
  BY DEF Between, Text
<1>1. ASSUME NEW c \in Cuts(p, sep), c # 0
      PROVE  a + c \in a + 1..b - 1 /\ s[a + c] = sep /\ c \in 0..b - 1 - a
  <2>1. c \in 1..b - 1 - a /\ p[c] = sep
    BY <1>0, <1>1 DEF Cuts
  <2> QED
    BY <1>0, <2>1
<1>2. ASSUME NEW j \in a + 1..b - 1, s[j] = sep
      PROVE  j - a \in Cuts(p, sep) \ {0} /\ a + (j - a) = j
  <2>1. j - a \in 1..b - 1 - a /\ a + (j - a) = j
    BY <1>0
  <2>2. p[j - a] = sep
    BY <1>0, <1>2, <2>1
  <2> QED
    BY <1>0, <2>1, <2>2 DEF Cuts
<1>3. 0 \in Cuts(p, sep) /\ 0 \in 0..b - 1 - a
  BY <1>0 DEF Cuts
<1> QED
  BY <1>1, <1>2, <1>3

(* A piece of what lies between two places lies between two places. *)
LEMMA PieceBetween ==
  ASSUME NEW s \in Text, NEW p, NEW a, NEW b, Between(p, s, a, b), NEW sep, NEW c \in Cuts(p, sep)
  PROVE  \E e \in a + c + 1..b :
           /\ Between(Piece(p, sep, c), s, a + c, e) /\ (e < b => s[e] = sep)
           /\ \A j \in a + c + 1..e - 1 : s[j] # sep
<1>0. /\ Len(s) \in Nat /\ a \in 0..Len(s) /\ b \in a + 1..Len(s) + 1
      /\ p \in Text /\ Len(p) = b - 1 - a
      /\ \A k \in 1..b - 1 - a : p[k] = s[a + k]
  BY DEF Between, Text
<1>p. p \in Text
  BY DEF Between
<1>1. PICK f \in c + 1..Len(p) + 1 :
           /\ c \in 0..Len(p) /\ (f <= Len(p) => p[f] = sep)
           /\ \A j \in c + 1..f - 1 : p[j] # sep
           /\ \A d \in Cuts(p, sep) : c < d => f <= d
           /\ Piece(p, sep, c) = SubSeq(p, c + 1, f - 1)
           /\ Piece(p, sep, c) \in Text /\ Len(Piece(p, sep, c)) = f - 1 - c
           /\ \A k \in 1..f - 1 - c : Piece(p, sep, c)[k] = p[c + k]
  BY <1>p, PieceIs, Zenon
<1> DEFINE e == a + f
           q == Piece(p, sep, c)
<1> HIDE DEF q
<1>2. e \in a + c + 1..b /\ a + c \in 0..Len(s) /\ e \in (a + c) + 1..Len(s) + 1 /\ e - 1 - (a + c) = f - 1 - c
  BY <1>0, <1>1
<1>3. e < b => s[e] = sep
  BY <1>0, <1>1
<1>4. ASSUME NEW j \in a + c + 1..e - 1 PROVE s[j] # sep
  <2>1. j - a \in c + 1..f - 1 /\ j - a \in 1..b - 1 - a /\ a + (j - a) = j
    BY <1>0, <1>1, <1>2
  <2> QED
    BY <1>0, <1>1, <2>1
<1>5. ASSUME NEW k \in 1..f - 1 - c PROVE q[k] = s[(a + c) + k]
  <2>1. c + k \in 1..b - 1 - a /\ a + (c + k) = (a + c) + k
    BY <1>0, <1>1
  <2> QED
    BY <1>0, <1>1, <2>1 DEF q
<1>6. q \in Text /\ Len(q) = f - 1 - c
  BY <1>1 DEF q
<1>7. Between(q, s, a + c, e)
  BY <1>2, <1>5, <1>6 DEF Between
<1> QED
  BY <1>2, <1>3, <1>4, <1>7 DEF q

(* Between the places a and b are one token, at k, and spaces.             *)
One(s, a, k, b) ==
  k \in a + 1..b - 1 /\ IsToken(s[k]) /\ \A j \in a + 1..b - 1 : j # k => s[j] = Space

(* A value, at v if there is one, and spaces.                              *)
IsValue(x) == IsToken(x) \/ x \in {"quoted", "open"}
Val(s, a, b) ==
  \E v \in a + 1..b : /\ v < b => IsValue(s[v])
                      /\ \A j \in a + 1..b - 1 : j # v => s[j] = Space

(* The name of a parameter, at k, with a value or without.                 *)
Par(s, a, k, b) ==
  \/ One(s, a, k, b)
  \/ \E q \in a + 1..b - 1 : s[q] = Equals /\ One(s, a, k, q) /\ Val(s, q, b)

(* What they consist of. *)
LEMMA ValueIs ==
  ASSUME NEW x, IsValue(x)
  PROVE  x # Space /\ x # Comma /\ x # Semicolon /\ x # Equals
BY TokenIsNoSpace, Distinct DEF IsValue

(* A piece is one token, by the grammar, where the line has it there.      *)
LEMMA OneTokenBetween ==
  ASSUME NEW s \in Text, NEW p, NEW a, NEW b, Between(p, s, a, b)
  PROVE  /\ OneToken(p) <=> \E k : One(s, a, k, b)
         /\ \A k : One(s, a, k, b) => TheToken(p) = s[k]
<1>0. /\ Len(s) \in Nat /\ a \in 0..Len(s) /\ b \in a + 1..Len(s) + 1
      /\ Len(p) = b - 1 - a
      /\ \A k \in 1..b - 1 - a : p[k] = s[a + k]
  BY DEF Between, Text
<1>p. p \in Text
  BY DEF Between
<1>1. ASSUME OneToken(p) PROVE \E k : One(s, a, k, b)
  <2>1. PICK i \in 1..Len(p) : IsToken(p[i]) /\ \A j \in 1..Len(p) : j # i => p[j] = Space
    BY <1>p, <1>1, TrimOne
  <2>2. a + i \in a + 1..b - 1 /\ IsToken(s[a + i])
    BY <1>0, <2>1
  <2>3. ASSUME NEW j \in a + 1..b - 1, j # a + i PROVE s[j] = Space
    <3>1. j - a \in 1..b - 1 - a /\ j - a # i /\ a + (j - a) = j
      BY <1>0, <2>1, <2>3
    <3> QED
      BY <1>0, <2>1, <3>1
  <2>4. One(s, a, a + i, b)
    BY <2>2, <2>3 DEF One
  <2> QED
    BY <2>4
<1>2. ASSUME NEW k, One(s, a, k, b) PROVE OneToken(p) /\ TheToken(p) = s[k]
  <2>1. k \in a + 1..b - 1 /\ IsToken(s[k]) /\ \A j \in a + 1..b - 1 : j # k => s[j] = Space
    BY <1>2 DEF One
  <2>2. k - a \in 1..Len(p) /\ k - a \in 1..b - 1 - a /\ a + (k - a) = k
    BY <1>0, <2>1
  <2>3. p[k - a] = s[k]
    BY <1>0, <2>2
  <2>4. ASSUME NEW j \in 1..Len(p), j # k - a PROVE p[j] = Space
    <3>1. a + j \in a + 1..b - 1 /\ a + j # k /\ j \in 1..b - 1 - a
      BY <1>0, <2>1, <2>4
    <3> QED
      BY <1>0, <2>1, <3>1
  <2> QED
    BY <1>p, <2>1, <2>2, <2>3, <2>4, TrimOne
<1> QED
  BY <1>1, <1>2

(* And it is a value where the line has one, or none.                      *)
LEMMA ValueBetween ==
  ASSUME NEW s \in Text, NEW p, NEW a, NEW b, Between(p, s, a, b)
  PROVE  Value(p) <=> Val(s, a, b)
<1>0. /\ Len(s) \in Nat /\ a \in 0..Len(s) /\ b \in a + 1..Len(s) + 1
      /\ Len(p) = b - 1 - a
      /\ \A k \in 1..b - 1 - a : p[k] = s[a + k]
  BY DEF Between, Text
<1>p. p \in Text
  BY DEF Between
<1> DEFINE v == Trim(p)
<1>v. Value(p) <=> v = <<>> \/ (Len(v) = 1 /\ IsValue(v[1]))
  BY DEF Value, IsValue
<1>t. /\ \A i \in 1..Len(p) : p[i] # Space /\ (\A j \in 1..Len(p) : j # i => p[j] = Space) =>
              Len(v) = 1 /\ v[1] = p[i]
      /\ Len(v) = 1 => \E i \in 1..Len(p) : /\ v[1] = p[i]
                                             /\ \A j \in 1..Len(p) : j # i => p[j] = Space
      /\ v = <<>> <=> \A j \in 1..Len(p) : p[j] = Space
  BY <1>p, TrimSingle
<1> HIDE DEF v
<1>1. ASSUME v = <<>> PROVE Val(s, a, b)
  <2>1. ASSUME NEW j \in a + 1..b - 1 PROVE s[j] = Space
    <3>1. j - a \in 1..b - 1 - a /\ a + (j - a) = j
      BY <1>0
    <3>2. p[j - a] = Space
      BY <1>0, <1>t, <1>1, <3>1
    <3> QED
      BY <1>0, <3>1, <3>2
  <2>2. b \in a + 1..b /\ ~(b < b)
    BY <1>0
  <2> QED
    BY <2>1, <2>2 DEF Val
<1>2. ASSUME Len(v) = 1, IsValue(v[1]) PROVE Val(s, a, b)
  <2>1. PICK i \in 1..Len(p) : v[1] = p[i] /\ \A j \in 1..Len(p) : j # i => p[j] = Space
    BY <1>t, <1>2
  <2>2. a + i \in a + 1..b /\ s[a + i] = p[i]
    BY <1>0, <2>1
  <2>3. ASSUME NEW j \in a + 1..b - 1, j # a + i PROVE s[j] = Space
    <3>1. j - a \in 1..b - 1 - a /\ j - a # i /\ a + (j - a) = j
      BY <1>0, <2>1, <2>3
    <3> QED
      BY <1>0, <2>1, <3>1
  <2> QED
    BY <1>2, <2>1, <2>2, <2>3 DEF Val
<1>3. ASSUME Val(s, a, b) PROVE v = <<>> \/ (Len(v) = 1 /\ IsValue(v[1]))
  <2>1. PICK w \in a + 1..b : /\ w < b => IsValue(s[w])
                              /\ \A j \in a + 1..b - 1 : j # w => s[j] = Space
    BY <1>3 DEF Val
  <2>2. ASSUME NEW j \in 1..Len(p), j # w - a PROVE p[j] = Space
    <3>1. a + j \in a + 1..b - 1 /\ a + j # w /\ j \in 1..b - 1 - a
      BY <1>0, <2>1, <2>2
    <3> QED
      BY <1>0, <2>1, <3>1
  <2>3. CASE w = b
    <3>1. \A j \in 1..Len(p) : j # w - a
      BY <1>0, <2>3
    <3> QED
      BY <1>t, <2>2, <3>1
  <2>4. CASE w # b
    <3>1. w - a \in 1..Len(p) /\ w - a \in 1..b - 1 - a /\ a + (w - a) = w /\ w < b
      BY <1>0, <2>4
    <3>2. p[w - a] = s[w] /\ IsValue(s[w])
      BY <1>0, <2>1, <3>1
    <3>3. p[w - a] # Space
      BY <3>2, ValueIs
    <3>4. Len(v) = 1 /\ v[1] = p[w - a]
      BY <1>t, <2>2, <3>1, <3>3
    <3> QED
      BY <3>2, <3>4
  <2> QED
    BY <2>3, <2>4
<1> QED
  BY <1>v, <1>1, <1>2, <1>3

(* Between the places of a parameter is nothing but tokens, spaces, "=" and *)
(* values.                                                                  *)
LEMMA ParIs ==
  ASSUME NEW s \in Text, NEW a \in Nat, NEW b \in Nat, NEW k, Par(s, a, k, b)
  PROVE  /\ k \in a + 1..b - 1 /\ IsToken(s[k])
         /\ \A j \in a + 1..b - 1 : s[j] # Comma /\ s[j] # Semicolon
<1>1. CASE One(s, a, k, b)
  <2>1. k \in a + 1..b - 1 /\ IsToken(s[k]) /\ \A j \in a + 1..b - 1 : j # k => s[j] = Space
    BY <1>1 DEF One
  <2>2. s[k] # Comma /\ s[k] # Semicolon
    BY <2>1, TokenIsNoSpace
  <2> QED
    BY <2>1, <2>2, Distinct
<1>2. ASSUME NEW q \in a + 1..b - 1, s[q] = Equals, One(s, a, k, q), Val(s, q, b)
      PROVE  /\ k \in a + 1..b - 1 /\ IsToken(s[k])
             /\ \A j \in a + 1..b - 1 : s[j] # Comma /\ s[j] # Semicolon
  <2>1. k \in a + 1..q - 1 /\ IsToken(s[k]) /\ \A j \in a + 1..q - 1 : j # k => s[j] = Space
    BY <1>2 DEF One
  <2>2. s[k] # Comma /\ s[k] # Semicolon
    BY <2>1, TokenIsNoSpace
  <2>3. PICK v \in q + 1..b : /\ v < b => IsValue(s[v])
                              /\ \A j \in q + 1..b - 1 : j # v => s[j] = Space
    BY <1>2 DEF Val
  <2>4. v < b => s[v] # Comma /\ s[v] # Semicolon
    BY <2>3, ValueIs
  <2>5. ASSUME NEW j \in a + 1..b - 1 PROVE s[j] # Comma /\ s[j] # Semicolon
    <3>1. j \in a + 1..q - 1 \/ j = q \/ j \in q + 1..b - 1
      OBVIOUS
    <3>2. CASE j \in a + 1..q - 1
      BY <2>1, <2>2, <3>2, Distinct
    <3>3. CASE j = q
      BY <1>2, <3>3, Distinct
    <3>4. CASE j \in q + 1..b - 1
      <4>1. j = v => v < b
        BY <3>4
      <4> QED
        BY <2>3, <2>4, <3>4, <4>1, Distinct
    <3> QED
      BY <3>1, <3>2, <3>3, <3>4
  <2> QED
    BY <2>1, <2>5
<1> QED
  BY <1>1, <1>2 DEF Par

(* A parameter by the grammar. *)
LEMMA ParameterBetween ==
  ASSUME NEW s \in Text, NEW p, NEW a, NEW b, Between(p, s, a, b)
  PROVE  /\ Parameter(p) <=> \E k : Par(s, a, k, b)
         /\ \A k : Par(s, a, k, b) => TheToken(Piece(p, Equals, 0)) = s[k]
<1>0. Len(s) \in Nat /\ a \in 0..Len(s) /\ b \in a + 1..Len(s) + 1
  BY DEF Between, Text
<1>c. /\ 0 \in Cuts(p, Equals)
      /\ \A c \in Cuts(p, Equals) : c = 0 \/ (a + c \in a + 1..b - 1 /\ s[a + c] = Equals)
      /\ \A c \in Cuts(p, Equals) : c \in 0..b - 1 - a
      /\ \A j \in a + 1..b - 1 : s[j] = Equals => j - a \in Cuts(p, Equals) \ {0} /\ a + (j - a) = j
  BY CutsBetween
<1> DEFINE first == Piece(p, Equals, 0)
           at(c) == Piece(p, Equals, c)
<1>1. PICK e \in a + 1..b : /\ Between(first, s, a, e) /\ (e < b => s[e] = Equals)
                            /\ \A j \in a + 1..e - 1 : s[j] # Equals
  <2>1. a + 0 = a
    BY <1>0
  <2> QED
    BY <1>c, <2>1, PieceBetween
<1>2. ASSUME NEW c \in Cuts(p, Equals)
      PROVE  \E f \in a + c + 1..b : /\ Between(at(c), s, a + c, f) /\ (f < b => s[f] = Equals)
                                     /\ \A j \in a + c + 1..f - 1 : s[j] # Equals
  BY PieceBetween
<1>3. /\ OneToken(first) <=> \E k : One(s, a, k, e)
      /\ \A k : One(s, a, k, e) => TheToken(first) = s[k]
  BY <1>1, OneTokenBetween
<1>4. Parameter(p) <=> /\ OneToken(first)
                       /\ \A c, d \in Cuts(p, Equals) \ {0} : c = d /\ Value(at(c))
  BY DEF Parameter
<1> HIDE DEF first, at
<1>5. ASSUME Parameter(p) PROVE \E k : Par(s, a, k, b)
  <2>1. PICK k : One(s, a, k, e)
    BY <1>3, <1>4, <1>5
  <2>2. CASE e = b
    BY <2>1, <2>2 DEF Par
  <2>3. CASE e # b
    <3>1. e \in a + 1..b - 1 /\ s[e] = Equals
      BY <1>0, <1>1, <2>3
    <3>2. PICK c \in Cuts(p, Equals) \ {0} : a + c = e
      BY <1>c, <3>1
    <3>3. PICK f \in e + 1..b : Between(at(c), s, e, f) /\ (f < b => s[f] = Equals)
      BY <1>2, <3>2
    <3>4. f = b
      <4> SUFFICES ASSUME f # b PROVE FALSE
        OBVIOUS
      <4>1. f \in a + 1..b - 1 /\ s[f] = Equals /\ f # e
        BY <1>0, <1>1, <3>3
      <4>2. PICK d \in Cuts(p, Equals) \ {0} : a + d = f
        BY <1>c, <4>1
      <4> QED
        BY <1>4, <1>5, <3>2, <4>1, <4>2
    <3>5. Value(at(c))
      BY <1>4, <1>5, <3>2
    <3>6. Val(s, e, b)
      BY <3>3, <3>4, <3>5, ValueBetween
    <3> QED
      BY <2>1, <3>1, <3>6 DEF Par
  <2> QED
    BY <2>2, <2>3
<1>6. ASSUME NEW k, One(s, a, k, b) PROVE Parameter(p) /\ TheToken(first) = s[k]
  <2>1. k \in a + 1..b - 1 /\ IsToken(s[k]) /\ \A j \in a + 1..b - 1 : j # k => s[j] = Space
    BY <1>6 DEF One
  <2>2. \A j \in a + 1..b - 1 : s[j] # Equals
    BY <2>1, TokenIsNoSpace, Distinct
  <2>3. e = b
    BY <1>0, <1>1, <2>2
  <2>4. Cuts(p, Equals) \ {0} = {}
    BY <1>c, <2>2
  <2> QED
    BY <1>3, <1>4, <1>6, <2>3, <2>4
<1>7. ASSUME NEW k, NEW q \in a + 1..b - 1, s[q] = Equals, One(s, a, k, q), Val(s, q, b)
      PROVE  Parameter(p) /\ TheToken(first) = s[k]
  <2>1. k \in a + 1..q - 1 /\ IsToken(s[k]) /\ \A j \in a + 1..q - 1 : j # k => s[j] = Space
    BY <1>7 DEF One
  <2>2. \A j \in a + 1..q - 1 : s[j] # Equals
    BY <2>1, TokenIsNoSpace, Distinct
  <2>3. PICK v \in q + 1..b : /\ v < b => IsValue(s[v])
                              /\ \A j \in q + 1..b - 1 : j # v => s[j] = Space
    BY <1>7 DEF Val
  <2>4. ASSUME NEW j \in q + 1..b - 1 PROVE s[j] # Equals
    <3>1. j = v => v < b
      BY <1>0
    <3> QED
      BY <2>3, <3>1, ValueIs, Distinct
  <2>5. e = q
    <3>1. ~(e < q)
      BY <1>0, <1>1, <2>2
    <3>2. ~(q < e)
      BY <1>0, <1>1, <1>7
    <3> QED
      BY <1>0, <1>1, <3>1, <3>2
  <2>6. ASSUME NEW c \in Cuts(p, Equals) \ {0} PROVE a + c = q
    <3>1. a + c \in a + 1..b - 1 /\ s[a + c] = Equals
      BY <1>c
    <3>2. ~(a + c < q) /\ ~(q < a + c)
      BY <1>0, <2>2, <2>4, <3>1
    <3> QED
      BY <1>0, <3>1, <3>2
  <2>7. ASSUME NEW c \in Cuts(p, Equals) \ {0} PROVE Value(at(c))
    <3>1. a + c = q
      BY <2>6
    <3>2. PICK f \in q + 1..b : Between(at(c), s, q, f) /\ (f < b => s[f] = Equals)
      BY <1>2, <3>1
    <3>3. f = b
      BY <1>0, <2>4, <3>2
    <3> QED
      BY <1>7, <3>2, <3>3, ValueBetween
  <2>8. \A c, d \in Cuts(p, Equals) \ {0} : c = d
    BY <1>0, <1>c, <2>6
  <2> QED
    BY <1>3, <1>4, <1>7, <2>5, <2>7, <2>8
<1> QED
  BY <1>5, <1>6, <1>7 DEF Par, first

(* In an element that ends at b: a parameter from the semicolon at d to e, *)
(* with its name at k.                                                     *)
Param(s, d, k, e, b) ==
  s[d] = Semicolon /\ e \in d + 1..b /\ (e < b => s[e] = Semicolon) /\ Par(s, d, k, e)

(* Nothing but parameters from i on.                                       *)
WholeFrom(s, i, b) ==
  /\ i # b => s[i] = Semicolon
  /\ \A d \in i..b - 1 : s[d] = Semicolon => \E k, e : Param(s, d, k, e, b)

(* Their names.                                                            *)
KeysFrom(s, i, b) == {s[k] : k \in {k \in i..b - 1 : \E d \in i..b - 1 : \E e : Param(s, d, k, e, b)}}

(* An extension between a and b: its name at t, its parameters from f on. *)
Ext(s, a, t, f, b) ==
  f \in a + 1..b /\ One(s, a, t, f) /\ WholeFrom(s, f, b)

(* A parameter ends with the next semicolon. *)
LEMMA ParamEnds ==
  ASSUME NEW s \in Text, NEW d \in Nat, NEW b \in Nat, NEW k, NEW e, Param(s, d, k, e, b),
         NEW f \in d + 1..b, f < b => s[f] = Semicolon, \A j \in d + 1..f - 1 : s[j] # Semicolon
  PROVE  e = f
<1>1. e \in d + 1..b /\ (e < b => s[e] = Semicolon) /\ Par(s, d, k, e)
  BY DEF Param
<1>2. \A j \in d + 1..e - 1 : s[j] # Semicolon
  BY <1>1, ParIs
<1>3. ~(e < f) /\ ~(f < e)
  BY <1>1, <1>2
<1> QED
  BY <1>1, <1>3

(* Around one token is neither a comma nor a semicolon.                    *)
LEMMA OneHasNo ==
  ASSUME NEW s, NEW a, NEW b, NEW k, One(s, a, k, b)
  PROVE  \A j \in a + 1..b - 1 : s[j] # Comma /\ s[j] # Semicolon
<1>1. k \in a + 1..b - 1 /\ IsToken(s[k]) /\ \A j \in a + 1..b - 1 : j # k => s[j] = Space
  BY DEF One
<1>2. s[k] # Comma /\ s[k] # Semicolon
  BY <1>1, TokenIsNoSpace
<1> QED
  BY <1>1, <1>2, Distinct

(* An extension by the grammar. *)
LEMMA ExtensionBetween ==
  ASSUME NEW s \in Text, NEW p, NEW a, NEW b, Between(p, s, a, b)
  PROVE  /\ WholeExtension(p) <=> \E t, f : Ext(s, a, t, f, b)
         /\ \A t, f : Ext(s, a, t, f, b) => ExtensionOf(p) = [name |-> s[t], keys |-> KeysFrom(s, f, b)]
<1>0. Len(s) \in Nat /\ a \in 0..Len(s) /\ b \in a + 1..Len(s) + 1
  BY DEF Between, Text
<1>c. /\ 0 \in Cuts(p, Semicolon)
      /\ \A c \in Cuts(p, Semicolon) : c = 0 \/ (a + c \in a + 1..b - 1 /\ s[a + c] = Semicolon)
      /\ \A c \in Cuts(p, Semicolon) : c \in 0..b - 1 - a
      /\ \A j \in a + 1..b - 1 : s[j] = Semicolon => j - a \in Cuts(p, Semicolon) \ {0} /\ a + (j - a) = j
  BY CutsBetween
<1> DEFINE at(c) == Piece(p, Semicolon, c)
           first == at(0)
           key(c) == TheToken(Piece(at(c), Equals, 0))
           C == Cuts(p, Semicolon) \ {0}
<1>1. PICK e \in a + 1..b : /\ Between(first, s, a, e) /\ (e < b => s[e] = Semicolon)
                            /\ \A j \in a + 1..e - 1 : s[j] # Semicolon
  <2>1. a + 0 = a
    BY <1>0
  <2> QED
    BY <1>c, <2>1, PieceBetween
<1>3. /\ OneToken(first) <=> \E k : One(s, a, k, e)
      /\ \A k : One(s, a, k, e) => TheToken(first) = s[k]
  BY <1>1, OneTokenBetween
<1>4. /\ WholeExtension(p) <=> OneToken(first) /\ \A c \in C : Parameter(at(c))
      /\ ExtensionOf(p) = [name |-> TheToken(first), keys |-> {key(c) : c \in C}]
  BY DEF WholeExtension, ExtensionOf
<1>5. ASSUME NEW c \in C
      PROVE  /\ a + c \in a + 1..b - 1 /\ a + c \in e..b - 1 /\ s[a + c] = Semicolon
             /\ Parameter(at(c)) <=> \E k, f : Param(s, a + c, k, f, b)
             /\ \A k, f : Param(s, a + c, k, f, b) => key(c) = s[k]
  <2>1. a + c \in a + 1..b - 1 /\ s[a + c] = Semicolon /\ c \in Nat
    BY <1>c
  <2>2. PICK g \in a + c + 1..b : /\ Between(at(c), s, a + c, g) /\ (g < b => s[g] = Semicolon)
                                  /\ \A j \in a + c + 1..g - 1 : s[j] # Semicolon
    BY PieceBetween
  <2> HIDE DEF at, C
  <2>3. /\ Parameter(at(c)) <=> \E k : Par(s, a + c, k, g)
        /\ \A k : Par(s, a + c, k, g) => key(c) = s[k]
    BY <2>2, ParameterBetween
  <2>4. \A k, f : Param(s, a + c, k, f, b) => f = g
    BY <1>0, <2>1, <2>2, ParamEnds
  <2>5. \A k, f : Param(s, a + c, k, f, b) <=> f = g /\ Par(s, a + c, k, g)
    BY <2>1, <2>2, <2>4 DEF Param
  <2>6. ~(a + c < e)
    BY <1>0, <1>1, <2>1
  <2> HIDE DEF key
  <2>7. a + c \in e..b - 1
    BY <1>0, <1>1, <2>1, <2>6
  <2> QED
    BY <2>1, <2>3, <2>5, <2>7
<1>6. ASSUME NEW d \in e..b - 1, s[d] = Semicolon
      PROVE  \E c \in C : a + c = d
  <2>1. d \in a + 1..b - 1
    BY <1>0, <1>1
  <2>2. d - a \in C /\ a + (d - a) = d
    BY <1>c, <1>6, <2>1
  <2> QED
    BY <2>2
<1> HIDE DEF first, at, key, C
<1>7. WholeFrom(s, e, b) <=> \A c \in C : Parameter(at(c))
  <2>1. e # b => s[e] = Semicolon
    BY <1>0, <1>1
  <2>2. ASSUME WholeFrom(s, e, b), NEW c \in C PROVE Parameter(at(c))
    BY <1>5, <2>2 DEF WholeFrom
  <2>3. ASSUME \A c \in C : Parameter(at(c)), NEW d \in e..b - 1, s[d] = Semicolon
        PROVE  \E k, f : Param(s, d, k, f, b)
    <3>1. PICK c \in C : a + c = d
      BY <1>6, <2>3
    <3> QED
      BY <1>5, <2>3, <3>1
  <2> QED
    BY <2>1, <2>2, <2>3 DEF WholeFrom
<1>8. ASSUME NEW t, NEW f, Ext(s, a, t, f, b) PROVE f = e /\ One(s, a, t, e)
  <2>1. f \in a + 1..b /\ One(s, a, t, f) /\ (f # b => s[f] = Semicolon)
    BY <1>8 DEF Ext, WholeFrom
  <2>2. \A j \in a + 1..f - 1 : s[j] # Semicolon
    BY <2>1, OneHasNo
  <2>3. ~(e < f) /\ ~(f < e)
    BY <1>0, <1>1, <2>1, <2>2
  <2> QED
    BY <1>0, <1>1, <2>1, <2>3
<1>9. WholeExtension(p) <=> \E t, f : Ext(s, a, t, f, b)
  BY <1>1, <1>3, <1>4, <1>7, <1>8 DEF Ext
<1>10. ASSUME NEW t, NEW f, Ext(s, a, t, f, b)
       PROVE  ExtensionOf(p) = [name |-> s[t], keys |-> KeysFrom(s, f, b)]
  <2>1. f = e /\ One(s, a, t, e) /\ WholeFrom(s, e, b)
    BY <1>8, <1>10 DEF Ext
  <2>2. ASSUME NEW c \in C PROVE key(c) \in KeysFrom(s, e, b)
    <3>1. a + c \in e..b - 1 /\ s[a + c] = Semicolon
      BY <1>5
    <3>2. PICK k, g : Param(s, a + c, k, g, b)
      BY <2>1, <3>1 DEF WholeFrom
    <3>3. key(c) = s[k]
      BY <1>5, <3>2
    <3>4. k \in (a + c) + 1..g - 1 /\ g \in (a + c) + 1..b
      BY <1>0, <3>1, <3>2, ParIs DEF Param
    <3>5. k \in e..b - 1
      BY <1>0, <3>1, <3>4
    <3> QED
      BY <3>1, <3>2, <3>3, <3>5 DEF KeysFrom
  <2>3. ASSUME NEW x \in KeysFrom(s, e, b) PROVE \E c \in C : x = key(c)
    <3>1. PICK k, d, g : d \in e..b - 1 /\ x = s[k] /\ Param(s, d, k, g, b)
      BY DEF KeysFrom
    <3>2. s[d] = Semicolon
      BY <3>1 DEF Param
    <3>3. PICK c \in C : a + c = d
      BY <1>6, <3>1, <3>2
    <3> QED
      BY <1>5, <3>1, <3>3
  <2>4. {key(c) : c \in C} = KeysFrom(s, e, b)
    BY <2>2, <2>3
  <2> QED
    BY <1>3, <1>4, <2>1, <2>4
<1> QED
  BY <1>9, <1>10

-----------------------------------------------------------------------------
(* The parser takes a value, and a parameter, as the grammar has them.     *)

(* What ends a parameter. *)
EndsAt(s, e) == e <= Len(s) => s[e] \in {Comma, Semicolon}

(* skipSpace is where SkipSpaceIs puts it. *)
LEMMA SkipTo ==
  ASSUME NEW s \in Text, NEW i \in 1..Len(s) + 1
  PROVE  /\ skipSpace(s, i) \in i..Len(s) + 1
         /\ \A j \in i..skipSpace(s, i) - 1 : s[j] = Space
         /\ skipSpace(s, i) <= Len(s) => s[skipSpace(s, i)] # Space
<1>1. Len(s) \in Nat /\ i \in Nat /\ 0 < i /\ i <= Len(s) + 1 /\ i <= Len(s) + 2
  BY DEF Text
<1> DEFINE t == skipSpace(s, i)
<1>2. /\ t \in 1..Len(s) + 1 /\ i <= t
      /\ \A j \in i..t - 1 : s[j] = Space
      /\ t <= Len(s) => s[t] # Space
  BY <1>1, SkipSpace
<1> HIDE DEF t
<1>3. t \in i..Len(s) + 1
  BY <1>1, <1>2
<1> QED
  BY <1>2, <1>3 DEF t

(* The parser takes the value of a parameter as the grammar has it. *)
LEMMA ParserValue ==
  ASSUME NEW s \in Text, Lexed(s), NEW q \in 1..Len(s)
  PROVE  LET n == nextTokenOrQuoted(s, q)
         IN /\ n \in q + 1..Len(s) + 1 /\ Val(s, q, n)
            /\ \A e \in q + 1..Len(s) + 1 : EndsAt(s, e) /\ Val(s, q, e) => e = n
<1> DEFINE n == nextTokenOrQuoted(s, q)
           v == skipSpace(s, q + 1)
           w == skipSpace(s, v + 1)
<1>0. Len(s) \in Nat /\ DOMAIN s = 1..Len(s)
  BY DEF Text
<1>1. /\ v \in q + 1..Len(s) + 1
      /\ \A j \in q + 1..v - 1 : s[j] = Space
      /\ v <= Len(s) => s[v] # Space
  <2>1. q + 1 \in 1..Len(s) + 1
    BY <1>0
  <2> QED
    BY <2>1, SkipTo
<1>2. v <= Len(s) =>
        /\ w \in v + 1..Len(s) + 1
        /\ \A j \in v + 1..w - 1 : s[j] = Space
        /\ w <= Len(s) => s[w] # Space
  <2>1. v <= Len(s) => v + 1 \in 1..Len(s) + 1
    BY <1>0, <1>1
  <2> HIDE DEF v
  <2> QED
    BY <2>1, SkipTo
<1>3. n = IF v > Len(s) THEN v
          ELSE IF s[v] = "open" THEN Len(s) + 1
          ELSE IF TokenAt(s, v) \/ s[v] = "quoted" THEN w ELSE v
  BY DEF nextTokenOrQuoted
<1> HIDE DEF n, v, w
<1>4. v <= Len(s) /\ s[v] = "open" => w = Len(s) + 1
  <2>1. v <= Len(s) /\ s[v] = "open" => v = Len(s)
    <3>1. v <= Len(s) => v \in DOMAIN s
      BY <1>0, <1>1
    <3> QED
      BY <3>1, Zenon DEF Lexed
  <2> QED
    BY <1>0, <1>2, <2>1
<1>5. n = IF v <= Len(s) /\ IsValue(s[v]) THEN w ELSE v
  BY <1>0, <1>1, <1>3, <1>4 DEF IsValue, TokenAt
<1>6. n \in q + 1..Len(s) + 1 /\ Val(s, q, n)
  <2>1. CASE v <= Len(s) /\ IsValue(s[v])
    <3>1. n = w /\ v \in q + 1..n /\ n \in q + 1..Len(s) + 1
      BY <1>0, <1>1, <1>2, <1>5, <2>1
    <3>2. ASSUME NEW j \in q + 1..n - 1, j # v PROVE s[j] = Space
      <4>1. j \in q + 1..v - 1 \/ j \in v + 1..w - 1
        BY <1>0, <1>1, <3>1, <3>2
      <4> QED
        BY <1>1, <1>2, <2>1, <4>1
    <3> QED
      BY <2>1, <3>1, <3>2 DEF Val
  <2>2. CASE ~(v <= Len(s) /\ IsValue(s[v]))
    <3>1. n = v /\ n \in q + 1..n /\ ~(n < n)
      BY <1>0, <1>1, <1>5, <2>2
    <3> QED
      BY <1>1, <3>1 DEF Val
  <2> QED
    BY <2>1, <2>2
<1>7. ASSUME NEW e \in q + 1..Len(s) + 1, EndsAt(s, e), Val(s, q, e) PROVE e = n
  <2>1. PICK u \in q + 1..e : /\ u < e => IsValue(s[u])
                              /\ \A j \in q + 1..e - 1 : j # u => s[j] = Space
    BY <1>7 DEF Val
  <2>2. /\ e <= Len(s) => s[e] # Space /\ ~IsValue(s[e])
    BY <1>7, ValueIs, Distinct DEF EndsAt
  <2>3. CASE u = e
    <3>1. v = e
      <4>1. ~(v < e)
        BY <1>0, <1>1, <2>1, <2>3
      <4>2. ~(e < v)
        BY <1>0, <1>1, <2>2
      <4> QED
        BY <1>1, <4>1, <4>2
    <3> QED
      BY <1>5, <2>2, <3>1
  <2>4. CASE u # e
    <3>1. u < e /\ u <= Len(s) /\ IsValue(s[u]) /\ s[u] # Space
      BY <1>0, <2>1, <2>4, ValueIs
    <3>2. v = u
      <4>1. ~(v < u)
        BY <1>0, <1>1, <2>1, <3>1
      <4>2. ~(u < v)
        BY <1>0, <1>1, <3>1
      <4> QED
        BY <1>1, <4>1, <4>2
    <3>3. w = e
      <4>1. w \in v + 1..Len(s) + 1
        BY <1>2, <3>1, <3>2
      <4>2. ~(w < e)
        BY <1>0, <1>2, <2>1, <3>1, <3>2, <4>1
      <4>3. ~(e < w)
        BY <1>0, <1>2, <2>2, <3>1, <3>2, <4>1
      <4> QED
        BY <4>1, <4>2, <4>3
    <3> QED
      BY <1>5, <3>1, <3>2, <3>3
  <2> QED
    BY <2>3, <2>4
<1> QED
  BY <1>6, <1>7 DEF n

(* And it takes a parameter as the grammar has it. *)
LEMMA ParserParam ==
  ASSUME NEW s \in Text, Lexed(s), NEW i \in 1..Len(s)
  PROVE  LET k == skipSpace(s, i + 1)
             behind == skipSpace(s, k + 1)
             next == IF behind <= Len(s) /\ s[behind] = Equals THEN nextTokenOrQuoted(s, behind) ELSE behind
         IN /\ TokenAt(s, k) => k \in i + 1..Len(s) /\ next \in k + 1..Len(s) + 1
            /\ TokenAt(s, k) => Par(s, i, k, next)
            /\ \A l : \A e \in i + 1..Len(s) + 1 :
                 EndsAt(s, e) /\ Par(s, i, l, e) => l = k /\ e = next /\ TokenAt(s, k)
<1> DEFINE k == skipSpace(s, i + 1)
           behind == skipSpace(s, k + 1)
           value == nextTokenOrQuoted(s, behind)
           next == IF behind <= Len(s) /\ s[behind] = Equals THEN value ELSE behind
<1>0. Len(s) \in Nat
  BY DEF Text
<1>1. /\ k \in i + 1..Len(s) + 1
      /\ \A j \in i + 1..k - 1 : s[j] = Space
      /\ k <= Len(s) => s[k] # Space
  <2>1. i + 1 \in 1..Len(s) + 1
    BY <1>0
  <2> QED
    BY <2>1, SkipTo
<1>2. k <= Len(s) =>
        /\ behind \in k + 1..Len(s) + 1
        /\ \A j \in k + 1..behind - 1 : s[j] = Space
        /\ behind <= Len(s) => s[behind] # Space
  <2>1. k <= Len(s) => k + 1 \in 1..Len(s) + 1
    BY <1>0, <1>1
  <2> HIDE DEF k
  <2> QED
    BY <2>1, SkipTo
<1>3. behind \in 1..Len(s) =>
        /\ value \in behind + 1..Len(s) + 1 /\ Val(s, behind, value)
        /\ \A e \in behind + 1..Len(s) + 1 : EndsAt(s, e) /\ Val(s, behind, e) => e = value
  <2> HIDE DEF behind
  <2> QED
    BY ParserValue
<1> HIDE DEF k, behind, value
<1>4. ASSUME TokenAt(s, k)
      PROVE  k \in i + 1..Len(s) /\ next \in k + 1..Len(s) + 1 /\ Par(s, i, k, next)
  <2>1. k \in i + 1..Len(s) /\ IsToken(s[k])
    BY <1>0, <1>1, <1>4 DEF TokenAt
  <2>2. One(s, i, k, behind)
    <3>1. ASSUME NEW j \in i + 1..behind - 1, j # k PROVE s[j] = Space
      <4>1. j \in i + 1..k - 1 \/ j \in k + 1..behind - 1
        BY <1>0, <1>2, <2>1, <3>1
      <4> QED
        BY <1>1, <1>2, <2>1, <4>1
    <3>2. k \in i + 1..behind - 1
      BY <1>0, <1>2, <2>1
    <3> QED
      BY <2>1, <3>1, <3>2 DEF One
  <2>3. CASE behind <= Len(s) /\ s[behind] = Equals
    <3>1. behind \in 1..Len(s) /\ next = value
      BY <1>0, <1>2, <2>1, <2>3
    <3>2. value \in behind + 1..Len(s) + 1 /\ Val(s, behind, value)
      BY <1>3, <3>1
    <3>3. behind \in i + 1..value - 1 /\ value \in k + 1..Len(s) + 1
      BY <1>0, <1>2, <2>1, <3>1, <3>2
    <3> QED
      BY <2>1, <2>2, <2>3, <3>1, <3>2, <3>3 DEF Par
  <2>4. CASE ~(behind <= Len(s) /\ s[behind] = Equals)
    BY <1>2, <2>1, <2>2, <2>4 DEF Par
  <2> QED
    BY <2>3, <2>4
<1>5. ASSUME NEW l, NEW e \in i + 1..Len(s) + 1, One(s, i, l, e), e <= Len(s) => s[e] # Space
      PROVE  l = k /\ e = behind /\ TokenAt(s, k)
  <2>1. l \in i + 1..e - 1 /\ IsToken(s[l]) /\ \A j \in i + 1..e - 1 : j # l => s[j] = Space
    BY <1>5 DEF One
  <2>2. s[l] # Space /\ l <= Len(s)
    BY <1>0, <2>1, TokenIsNoSpace
  <2>3. k = l
    <3>1. ~(k < l) /\ ~(l < k)
      BY <1>0, <1>1, <2>1, <2>2
    <3> QED
      BY <1>1, <2>1, <3>1
  <2>4. behind \in k + 1..Len(s) + 1
    BY <1>2, <2>2, <2>3
  <2>5. ~(behind < e)
    BY <1>0, <1>2, <2>1, <2>2, <2>3, <2>4
  <2>6. ~(e < behind)
    BY <1>0, <1>2, <1>5, <2>1, <2>2, <2>3, <2>4
  <2> QED
    BY <2>1, <2>2, <2>3, <2>4, <2>5, <2>6 DEF TokenAt
<1>6. ASSUME NEW l, NEW e \in i + 1..Len(s) + 1, EndsAt(s, e), Par(s, i, l, e)
      PROVE  l = k /\ e = next /\ TokenAt(s, k)
  <2>1. e <= Len(s) => s[e] # Space /\ s[e] # Equals
    BY <1>6, Distinct DEF EndsAt
  <2>2. CASE One(s, i, l, e)
    <3>1. l = k /\ e = behind /\ TokenAt(s, k)
      BY <1>5, <2>1, <2>2
    <3> QED
      BY <2>1, <3>1
  <2>3. ASSUME NEW q \in i + 1..e - 1, s[q] = Equals, One(s, i, l, q), Val(s, q, e)
        PROVE  l = k /\ e = next /\ TokenAt(s, k)
    <3>1. q \in i + 1..Len(s) + 1 /\ q <= Len(s) /\ s[q] # Space
      BY <1>0, <2>3, Distinct
    <3>2. l = k /\ q = behind /\ TokenAt(s, k)
      BY <1>5, <2>3, <3>1
    <3>3. behind \in 1..Len(s) /\ e \in behind + 1..Len(s) + 1
      BY <1>0, <3>1, <3>2
    <3>4. e = value
      BY <1>3, <1>6, <2>3, <3>2, <3>3
    <3> QED
      BY <2>3, <3>1, <3>2, <3>4
  <2> QED
    BY <1>6, <2>2, <2>3 DEF Par
<1> QED
  BY <1>4, <1>6 DEF k, behind, value

-----------------------------------------------------------------------------
(* The parser of parameters.                                               *)

(* Where the parser finds the name of the parameter whose semicolon is at  *)
(* the place i.                                                            *)
KeyAt(s, i) == skipSpace(s, i + 1)

(* What it takes to be behind that parameter.                              *)
NextAt(s, i) ==
  LET k == skipSpace(s, i + 1)
      behind == skipSpace(s, k + 1)
  IN IF behind <= Len(s) /\ s[behind] = Equals THEN nextTokenOrQuoted(s, behind) ELSE behind

(* These are where the grammar has them, if it has a parameter there.      *)
LEMMA ParamAt ==
  ASSUME NEW s \in Text, Lexed(s), NEW i \in 1..Len(s)
  PROVE  /\ TokenAt(s, KeyAt(s, i)) =>
              /\ KeyAt(s, i) \in i + 1..Len(s) /\ NextAt(s, i) \in KeyAt(s, i) + 1..Len(s) + 1
              /\ Par(s, i, KeyAt(s, i), NextAt(s, i))
         /\ \A l : \A e \in i + 1..Len(s) + 1 :
              EndsAt(s, e) /\ Par(s, i, l, e) => l = KeyAt(s, i) /\ e = NextAt(s, i) /\ TokenAt(s, KeyAt(s, i))
BY ParserParam, Zenon DEF KeyAt, NextAt

(* What is from i on is not behind a comma before b, the next one. *)
UpTo(s, i, b) ==
  b \in i..Len(s) + 1 /\ (b <= Len(s) => s[b] = Comma) /\ \A j \in i..b - 1 : s[j] # Comma

(* There are nothing but parameters if there is one and nothing but        *)
(* parameters behind it.                                                   *)
LEMMA WholeNext ==
  ASSUME NEW s \in Text, Lexed(s), NEW i \in 1..Len(s), s[i] = Semicolon, NEW b, UpTo(s, i, b)
  PROVE  LET k == KeyAt(s, i)
             n == NextAt(s, i)
         IN /\ WholeFrom(s, i, b) <=>
                 TokenAt(s, k) /\ EndsAt(s, n) /\ UpTo(s, n, b) /\ WholeFrom(s, n, b)
            /\ WholeFrom(s, i, b) => KeysFrom(s, i, b) = {s[k]} \cup KeysFrom(s, n, b)
            /\ TokenAt(s, k) /\ EndsAt(s, n) => UpTo(s, n, b)
<1> DEFINE k == KeyAt(s, i)
           n == NextAt(s, i)
<1>0. Len(s) \in Nat /\ i \in 1..Len(s) /\ b \in i + 1..Len(s) + 1
      /\ (b <= Len(s) => s[b] = Comma) /\ \A j \in i..b - 1 : s[j] # Comma
  <2>1. b \in i..Len(s) + 1 /\ (b <= Len(s) => s[b] = Comma) /\ \A j \in i..b - 1 : s[j] # Comma
    BY DEF UpTo
  <2>2. Len(s) \in Nat
    BY DEF Text
  <2>3. b # i
    BY <2>1, <2>2, Distinct
  <2> QED
    BY <2>1, <2>2, <2>3
<1>1. TokenAt(s, k) => k \in i + 1..Len(s) /\ n \in k + 1..Len(s) + 1 /\ Par(s, i, k, n)
  BY ParamAt
<1>2. \A l : \A e \in i + 1..Len(s) + 1 : EndsAt(s, e) /\ Par(s, i, l, e) => l = k /\ e = n /\ TokenAt(s, k)
  BY ParamAt
<1> HIDE DEF k, n
<1>3. ASSUME TokenAt(s, k)
      PROVE  /\ k \in i + 1..Len(s) /\ n \in i + 1..Len(s) + 1 /\ Par(s, i, k, n) /\ n <= b /\ k < n
             /\ \A j \in i + 1..n - 1 : s[j] # Comma /\ s[j] # Semicolon
  <2>1. k \in i + 1..Len(s) /\ n \in k + 1..Len(s) + 1 /\ Par(s, i, k, n)
    BY <1>1, <1>3
  <2>2. n \in i + 1..Len(s) + 1 /\ n \in Nat /\ i \in Nat /\ k < n
    BY <1>0, <2>1
  <2>3. \A j \in i + 1..n - 1 : s[j] # Comma /\ s[j] # Semicolon
    BY <2>1, <2>2, ParIs
  <2>4. n <= b
    BY <1>0, <2>2, <2>3
  <2> QED
    BY <2>1, <2>2, <2>3, <2>4
<1>4. ASSUME TokenAt(s, k), EndsAt(s, n) PROVE UpTo(s, n, b)
  BY <1>0, <1>3, <1>4 DEF UpTo
<1>5. ASSUME NEW l, NEW e, Param(s, i, l, e, b)
      PROVE  l = k /\ e = n /\ TokenAt(s, k) /\ EndsAt(s, n)
  <2>1. e \in i + 1..b /\ (e < b => s[e] = Semicolon) /\ Par(s, i, l, e)
    BY <1>5 DEF Param
  <2>2. e \in i + 1..Len(s) + 1 /\ EndsAt(s, e)
    BY <1>0, <2>1 DEF EndsAt
  <2> QED
    BY <1>2, <2>1, <2>2
<1>6. ASSUME WholeFrom(s, i, b)
      PROVE  TokenAt(s, k) /\ EndsAt(s, n) /\ UpTo(s, n, b) /\ WholeFrom(s, n, b)
  <2>1. PICK l, e : Param(s, i, l, e, b)
    BY <1>0, <1>6 DEF WholeFrom
  <2>2. TokenAt(s, k) /\ EndsAt(s, n) /\ e = n
    BY <1>5, <2>1
  <2>3. n # b => s[n] = Semicolon
    BY <1>0, <1>3, <2>1, <2>2 DEF Param
  <2>4. \A d \in n..b - 1 : d \in i..b - 1
    BY <1>0, <1>3, <2>2
  <2>5. WholeFrom(s, n, b)
    BY <1>6, <2>3, <2>4 DEF WholeFrom
  <2> QED
    BY <1>4, <2>2, <2>5
<1>7. ASSUME TokenAt(s, k), EndsAt(s, n), WholeFrom(s, n, b)
      PROVE  Param(s, i, k, n, b)
  <2>1. n # b => s[n] = Semicolon
    BY <1>7 DEF WholeFrom
  <2>2. n \in i + 1..b
    BY <1>0, <1>3, <1>7
  <2> QED
    BY <1>0, <1>3, <1>7, <2>1, <2>2 DEF Param
<1>8. ASSUME TokenAt(s, k), EndsAt(s, n), WholeFrom(s, n, b)
      PROVE  WholeFrom(s, i, b)
  <2>1. ASSUME NEW d \in i..b - 1, s[d] = Semicolon PROVE \E l, e : Param(s, d, l, e, b)
    <3>1. CASE d = i
      BY <1>7, <1>8, <3>1
    <3>2. CASE d # i
      <4>1. d \in n..b - 1
        BY <1>0, <1>3, <1>8, <2>1, <3>2
      <4> QED
        BY <1>8, <2>1, <4>1 DEF WholeFrom
    <3> QED
      BY <3>1, <3>2
  <2> QED
    BY <2>1 DEF WholeFrom
<1>9. ASSUME WholeFrom(s, i, b) PROVE KeysFrom(s, i, b) = {s[k]} \cup KeysFrom(s, n, b)
  <2>1. TokenAt(s, k) /\ EndsAt(s, n) /\ WholeFrom(s, n, b) /\ Param(s, i, k, n, b)
    BY <1>6, <1>7, <1>9
  <2>2. k \in i..b - 1 /\ i \in i..b - 1 /\ n \in i + 1..b /\ k < n
    BY <1>0, <1>3, <2>1
  <2>3. s[k] \in KeysFrom(s, i, b)
    BY <2>1, <2>2 DEF KeysFrom
  <2>4. ASSUME NEW x \in KeysFrom(s, n, b) PROVE x \in KeysFrom(s, i, b)
    <3>1. PICK l, d, e : l \in n..b - 1 /\ d \in n..b - 1 /\ x = s[l] /\ Param(s, d, l, e, b)
      BY DEF KeysFrom
    <3>2. l \in i..b - 1 /\ d \in i..b - 1
      BY <1>0, <2>2, <3>1
    <3> QED
      BY <3>1, <3>2 DEF KeysFrom
  <2>5. ASSUME NEW x \in KeysFrom(s, i, b) PROVE x \in {s[k]} \cup KeysFrom(s, n, b)
    <3>1. PICK l, d, e : l \in i..b - 1 /\ d \in i..b - 1 /\ x = s[l] /\ Param(s, d, l, e, b)
      BY DEF KeysFrom
    <3>2. CASE d = i
      BY <1>5, <3>1, <3>2
    <3>3. CASE d # i
      <4>1. d \in i..b - 1 /\ s[d] = Semicolon /\ Par(s, d, l, e) /\ e \in d + 1..b
        BY <3>1 DEF Param
      <4>2. d \in n..b - 1 /\ d \in Nat /\ e \in Nat
        BY <1>0, <1>3, <2>1, <3>3, <4>1
      <4>3. l \in d + 1..e - 1
        BY <4>1, <4>2, ParIs
      <4>4. l \in n..b - 1
        BY <1>0, <2>2, <4>1, <4>2, <4>3
      <4> QED
        BY <3>1, <4>2, <4>4 DEF KeysFrom
    <3> QED
      BY <3>2, <3>3
  <2> QED
    BY <2>3, <2>4, <2>5
<1> QED
  BY <1>4, <1>6, <1>8, <1>9 DEF k, n

(* The parser of parameters: what its loop does from i on, given what it   *)
(* does from any place on.                                                 *)
ParamsFrom(s, params, i) ==
  IF i > Len(s) \/ s[i] # Semicolon THEN [ok |-> TRUE, keys |-> {}, next |-> i]
  ELSE LET k == skipSpace(s, i + 1)
           behind == skipSpace(s, k + 1)
           next == IF behind <= Len(s) /\ s[behind] = Equals
                   THEN nextTokenOrQuoted(s, behind) ELSE behind
       IN IF ~TokenAt(s, k) \/ (next <= Len(s) /\ s[next] \notin {Comma, Semicolon})
          THEN [ok |-> FALSE, keys |-> {}, next |-> i]
          ELSE [params[next] EXCEPT !.keys = @ \cup {s[k]}]

(* The same, by the names of the places.                                   *)
LEMMA ParamsFromIs ==
  ASSUME NEW s, NEW params, NEW i
  PROVE  ParamsFrom(s, params, i) =
           IF i > Len(s) \/ s[i] # Semicolon THEN [ok |-> TRUE, keys |-> {}, next |-> i]
           ELSE IF ~TokenAt(s, KeyAt(s, i)) \/ (NextAt(s, i) <= Len(s) /\ s[NextAt(s, i)] \notin {Comma, Semicolon})
                THEN [ok |-> FALSE, keys |-> {}, next |-> i]
                ELSE [params[NextAt(s, i)] EXCEPT !.keys = @ \cup {s[KeyAt(s, i)]}]
BY Zenon DEF ParamsFrom, KeyAt, NextAt

(* What the parser of parameters may have read.                            *)
Read(s) == [ok : BOOLEAN, keys : SUBSET STRING, next : 1..Len(s) + 1]

(* What it has read when it has read parameters. *)
LEMMA ParamsStep ==
  ASSUME NEW s \in Text, Lexed(s), NEW i \in 1..Len(s) + 1
  PROVE  LET k == KeyAt(s, i)
             n == NextAt(s, i)
         IN \/ /\ i > Len(s) \/ s[i] # Semicolon
               /\ \A p : ParamsFrom(s, p, i) = [ok |-> TRUE, keys |-> {}, next |-> i]
            \/ /\ i \in 1..Len(s) /\ s[i] = Semicolon /\ ~(TokenAt(s, k) /\ EndsAt(s, n))
               /\ \A p : ParamsFrom(s, p, i) = [ok |-> FALSE, keys |-> {}, next |-> i]
            \/ /\ i \in 1..Len(s) /\ s[i] = Semicolon /\ TokenAt(s, k) /\ EndsAt(s, n)
               /\ k \in i + 1..Len(s) /\ n \in i + 1..Len(s) + 1 /\ s[k] \in STRING
               /\ \A p : ParamsFrom(s, p, i) = [p[n] EXCEPT !.keys = @ \cup {s[k]}]
<1> DEFINE k == KeyAt(s, i)
           n == NextAt(s, i)
<1>0. Len(s) \in Nat /\ \A j \in 1..Len(s) : s[j] \in STRING
  BY DEF Text
<1>1. CASE i > Len(s) \/ s[i] # Semicolon
  BY <1>1, ParamsFromIs
<1>2. CASE i <= Len(s) /\ s[i] = Semicolon
  <2>1. i \in 1..Len(s)
    BY <1>0, <1>2
  <2>2. TokenAt(s, k) => k \in i + 1..Len(s) /\ n \in k + 1..Len(s) + 1
    BY <2>1, ParamAt
  <2>3. EndsAt(s, n) <=> ~(n <= Len(s) /\ s[n] \notin {Comma, Semicolon})
    BY DEF EndsAt
  <2>4. \A p : ParamsFrom(s, p, i) =
          IF ~TokenAt(s, k) \/ (n <= Len(s) /\ s[n] \notin {Comma, Semicolon})
          THEN [ok |-> FALSE, keys |-> {}, next |-> i]
          ELSE [p[n] EXCEPT !.keys = @ \cup {s[k]}]
    <3>1. ~(i > Len(s) \/ s[i] # Semicolon)
      BY <1>0, <1>2, <2>1
    <3> QED
      BY <3>1, ParamsFromIs, Zenon
  <2> HIDE DEF k, n
  <2>5. TokenAt(s, k) => n \in i + 1..Len(s) + 1 /\ s[k] \in STRING
    BY <1>0, <2>1, <2>2
  <2>6. CASE TokenAt(s, k) /\ EndsAt(s, n)
    <3>1. \A p : ParamsFrom(s, p, i) = [p[n] EXCEPT !.keys = @ \cup {s[k]}]
      BY <2>3, <2>4, <2>6, Zenon
    <3> QED
      BY <1>2, <2>1, <2>2, <2>5, <2>6, <3>1, Zenon DEF k, n
  <2>7. CASE ~(TokenAt(s, k) /\ EndsAt(s, n))
    <3>1. \A p : ParamsFrom(s, p, i) = [ok |-> FALSE, keys |-> {}, next |-> i]
      BY <2>3, <2>4, <2>7, Zenon
    <3> QED
      BY <1>2, <2>1, <2>7, <3>1, Zenon DEF k, n
  <2> QED
    BY <2>6, <2>7
<1> QED
  BY <1>0, <1>1, <1>2

(* There is a function that does so at every place. *)
LEMMA ParamsExists ==
  ASSUME NEW s \in Text, Lexed(s)
  PROVE  \E f : f = [i \in 1..Len(s) + 1 |-> ParamsFrom(s, f, i)]
<1> DEFINE L == Len(s) + 1
           V == Read(s)
           B == [x \in [1..L -> V] \X (1..L) |-> ParamsFrom(s, x[1], x[2])]
<1>0. Len(s) \in Nat /\ L \in Nat
  BY DEF Text
<1>1. ASSUME NEW i \in 1..L, NEW f \in [1..L -> V]
      PROVE  ParamsFrom(s, f, i) \in V /\ B[<<f, i>>] = ParamsFrom(s, f, i)
  <2> DEFINE k == KeyAt(s, i)
             n == NextAt(s, i)
  <2>1. B[<<f, i>>] = ParamsFrom(s, f, i)
    OBVIOUS
  <2> HIDE DEF B
  <2>2. \A K : [ok |-> TRUE, keys |-> {}, next |-> i] \in V /\ [ok |-> FALSE, keys |-> {}, next |-> i] \in V
    BY <1>0 DEF Read
  <2>3. ASSUME n \in i + 1..Len(s) + 1, s[k] \in STRING PROVE [f[n] EXCEPT !.keys = @ \cup {s[k]}] \in V
    <3> HIDE DEF k, n
    <3>1. f[n] \in V
      BY <1>0, <2>3
    <3> QED
      BY <2>3, <3>1 DEF Read
  <2>4. ParamsFrom(s, f, i) \in V
    BY <2>2, <2>3, ParamsStep
  <2> QED
    BY <2>1, <2>4
<1>2. ASSUME NEW i \in 1..L, NEW f \in [1..L -> V], NEW g \in [1..L -> V], \A j \in 1..L : i < j => f[j] = g[j]
      PROVE  ParamsFrom(s, f, i) = ParamsFrom(s, g, i)
  <2> DEFINE n == NextAt(s, i)
  <2>1. n \in i + 1..Len(s) + 1 => f[n] = g[n]
    <3> HIDE DEF n
    <3> QED
      BY <1>0, <1>2
  <2>2. \/ \E x : \A p : ParamsFrom(s, p, i) = x
        \/ /\ n \in i + 1..Len(s) + 1
           /\ \A p : ParamsFrom(s, p, i) = [p[n] EXCEPT !.keys = @ \cup {s[KeyAt(s, i)]}]
    BY ParamsStep, Zenon
  <2> QED
    BY <2>1, <2>2, Zenon
<1>3. B \in [[1..L -> V] \X (1..L) -> V]
  BY <1>1
<1>4. Ahead(L, V, B)
  BY <1>1, <1>2 DEF Ahead
<1>5. V # {}
  <2>1. [ok |-> TRUE, keys |-> {}, next |-> 1] \in V
    BY <1>0 DEF Read
  <2> QED
    BY <2>1
<1>b. \A i \in 1..L : \A f \in [1..L -> V] : B[<<f, i>>] = ParamsFrom(s, f, i)
  BY <1>1
<1> HIDE DEF L, V, B
<1>6. PICK f \in [1..L -> V] : Solves(f, 1..L, B)
  BY <1>0, <1>3, <1>4, <1>5, Forward
<1>7. \A i \in 1..L : f[i] = ParamsFrom(s, f, i)
  BY <1>b, <1>6 DEF Solves
<1>8. f = [i \in 1..L |-> ParamsFrom(s, f, i)]
  BY <1>7
<1> QED
  BY <1>8 DEF L

(* All of it is parameters up to the next comma. *)
Complete(s, p) == p.ok /\ (p.next > Len(s) \/ s[p.next] = Comma)

(* P is the parser of parameters.                                          *)
IsParams(s, P) == \A i \in 1..Len(s) + 1 : P[i] = ParamsFrom(s, P, i)

(* What p has read from i on is what the grammar has there.                *)
ParamsAt(s, p, i) ==
  /\ p \in Read(s) /\ i <= p.next
  /\ \A b : UpTo(s, i, b) =>
       /\ Complete(s, p) <=> WholeFrom(s, i, b)
       /\ WholeFrom(s, i, b) => p.next = b /\ p.keys = KeysFrom(s, i, b)

(* Between the places b and b is no parameter. *)
LEMMA NoKeys ==
  ASSUME NEW s \in Text, NEW i \in 1..Len(s) + 1
  PROVE  KeysFrom(s, i, i) = {}
<1>1. i..i - 1 = {}
  BY DEF Text
<1> QED
  BY <1>1 DEF KeysFrom

(* The parser of parameters reads them as the grammar has them. *)
LEMMA ParamsRight ==
  ASSUME NEW s \in Text, Lexed(s), NEW P, IsParams(s, P),
         NEW i \in 1..Len(s) + 1
  PROVE  ParamsAt(s, P[i], i)
<1> DEFINE L == Len(s) + 1
           Wrong == {m \in Nat : \E j \in 1..L : m = L - j /\ ~ParamsAt(s, P[j], j)}
<1>0. Len(s) \in Nat /\ L \in Nat /\ \A j \in 1..L : L - j \in Nat
  BY DEF Text
<1>e. \A j \in 1..L : P[j] = ParamsFrom(s, P, j)
  BY Zenon DEF IsParams
<1>1. Wrong = {}
  <2> SUFFICES ASSUME Wrong # {} PROVE FALSE
    OBVIOUS
  <2>1. PICK m \in Wrong : \A n \in Wrong : m <= n
    BY LeastNatural
  <2>2. PICK j \in 1..L : m = L - j /\ ~ParamsAt(s, P[j], j)
    BY <2>1
  <2>3. \A n \in 1..L : j < n => ParamsAt(s, P[n], n)
    <3> SUFFICES ASSUME NEW n \in 1..L, j < n, ~ParamsAt(s, P[n], n) PROVE FALSE
      OBVIOUS
    <3>1. L - n \in Wrong
      BY <1>0
    <3>2. ~(m <= L - n)
      BY <1>0, <2>2
    <3> QED
      BY <2>1, <3>1, <3>2
  <2> DEFINE k == KeyAt(s, j)
             n == NextAt(s, j)
  <2>4. \/ /\ j > Len(s) \/ s[j] # Semicolon
           /\ P[j] = [ok |-> TRUE, keys |-> {}, next |-> j]
        \/ /\ j \in 1..Len(s) /\ s[j] = Semicolon /\ ~(TokenAt(s, k) /\ EndsAt(s, n))
           /\ P[j] = [ok |-> FALSE, keys |-> {}, next |-> j]
        \/ /\ j \in 1..Len(s) /\ s[j] = Semicolon /\ TokenAt(s, k) /\ EndsAt(s, n)
           /\ k \in j + 1..Len(s) /\ n \in j + 1..Len(s) + 1 /\ s[k] \in STRING
           /\ P[j] = [P[n] EXCEPT !.keys = @ \cup {s[k]}]
    BY <1>e, ParamsStep, Zenon
  <2>5. ASSUME j \in 1..Len(s), s[j] = Semicolon, NEW b, UpTo(s, j, b)
        PROVE  /\ WholeFrom(s, j, b) <=>
                    TokenAt(s, k) /\ EndsAt(s, n) /\ UpTo(s, n, b) /\ WholeFrom(s, n, b)
               /\ WholeFrom(s, j, b) => KeysFrom(s, j, b) = {s[k]} \cup KeysFrom(s, n, b)
               /\ TokenAt(s, k) /\ EndsAt(s, n) => UpTo(s, n, b)
    BY <2>5, WholeNext
  <2> HIDE DEF k, n
  <2> DEFINE p == P[j]
  <2>6. CASE (j > Len(s) \/ s[j] # Semicolon) /\ P[j] = [ok |-> TRUE, keys |-> {}, next |-> j]
    <3>1. p \in Read(s) /\ p.ok /\ p.next = j /\ p.keys = {} /\ j <= p.next
      BY <1>0, <2>6 DEF Read
    <3> HIDE DEF p
    <3>2. ASSUME NEW b, UpTo(s, j, b)
          PROVE  /\ Complete(s, p) <=> b = j
                 /\ WholeFrom(s, j, b) <=> b = j
                 /\ b = j => KeysFrom(s, j, b) = {}
      <4>1. b \in j..Len(s) + 1 /\ (b <= Len(s) => s[b] = Comma) /\ \A l \in j..b - 1 : s[l] # Comma
        BY <3>2 DEF UpTo
      <4>2. Complete(s, p) <=> b = j
        BY <1>0, <3>1, <4>1 DEF Complete
      <4>3. WholeFrom(s, j, b) => b = j
        BY <1>0, <2>6, <4>1 DEF WholeFrom
      <4>4. WholeFrom(s, j, j)
        <5>1. j..j - 1 = {}
          BY <1>0
        <5> QED
          BY <5>1 DEF WholeFrom
      <4>5. KeysFrom(s, j, j) = {}
        BY NoKeys
      <4> QED
        BY <4>2, <4>3, <4>4, <4>5
    <3> QED
      BY <2>2, <3>1, <3>2 DEF ParamsAt, p
  <2>7. CASE /\ j \in 1..Len(s) /\ s[j] = Semicolon /\ ~(TokenAt(s, k) /\ EndsAt(s, n))
             /\ P[j] = [ok |-> FALSE, keys |-> {}, next |-> j]
    <3>1. p \in Read(s) /\ ~p.ok /\ j <= p.next
      BY <1>0, <2>7 DEF Read
    <3> QED
      BY <2>2, <2>5, <2>7, <3>1 DEF ParamsAt, Complete, p
  <2>8. CASE /\ j \in 1..Len(s) /\ s[j] = Semicolon /\ TokenAt(s, k) /\ EndsAt(s, n)
             /\ k \in j + 1..Len(s) /\ n \in j + 1..Len(s) + 1 /\ s[k] \in STRING
             /\ P[j] = [P[n] EXCEPT !.keys = @ \cup {s[k]}]
    <3> DEFINE q == P[n]
    <3>a. n \in j + 1..Len(s) + 1
      BY <2>8, Zenon
    <3>0. n \in 1..L /\ j < n
      BY <1>0, <3>a
    <3>1. ParamsAt(s, q, n)
      BY <2>3, <3>0, Zenon
    <3>2. q \in Read(s) /\ n <= q.next
      BY <3>1 DEF ParamsAt
    <3>3. p = [q EXCEPT !.keys = @ \cup {s[k]}]
      BY <2>8
    <3> HIDE DEF p, q
    <3>4. p \in Read(s) /\ p.ok = q.ok /\ p.next = q.next /\ p.keys = q.keys \cup {s[k]}
      BY <2>8, <3>2, <3>3 DEF Read
    <3>5. ASSUME NEW b, UpTo(s, j, b)
          PROVE  /\ Complete(s, p) <=> WholeFrom(s, j, b)
                 /\ WholeFrom(s, j, b) => p.next = b /\ p.keys = KeysFrom(s, j, b)
      <4>1. /\ UpTo(s, n, b)
            /\ WholeFrom(s, j, b) <=> WholeFrom(s, n, b)
            /\ WholeFrom(s, j, b) => KeysFrom(s, j, b) = {s[k]} \cup KeysFrom(s, n, b)
        BY <2>5, <2>8, <3>5
      <4>2. /\ Complete(s, q) <=> WholeFrom(s, n, b)
            /\ WholeFrom(s, n, b) => q.next = b /\ q.keys = KeysFrom(s, n, b)
        BY <3>1, <4>1 DEF ParamsAt
      <4>3. Complete(s, p) <=> Complete(s, q)
        BY <3>4 DEF Complete
      <4> QED
        BY <3>4, <4>1, <4>2, <4>3
    <3>7. j <= p.next
      <4>1. q.next \in 1..Len(s) + 1
        BY <3>2 DEF Read
      <4> QED
        BY <1>0, <3>0, <3>2, <3>4, <4>1
    <3>6. ParamsAt(s, p, j)
      BY <3>4, <3>5, <3>7 DEF ParamsAt
    <3> QED
      BY <2>2, <3>6 DEF p
  <2> QED
    BY <2>4, <2>6, <2>7, <2>8
<1>2. L - i \notin Wrong /\ L - i \in Nat
  BY <1>0, <1>1
<1> QED
  BY <1>2

-----------------------------------------------------------------------------
(* The parser of extensions.                                               *)

(* The parser of extensions: what its loop does from i on. *)
ExtsFrom(s, params, from, i) ==
  LET t == skipSpace(s, i)
      p == params[skipSpace(s, t + 1)]
  IN IF ~TokenAt(s, t) \/ ~p.ok \/ (p.next <= Len(s) /\ s[p.next] # Comma) THEN <<>>
     ELSE <<[name |-> s[t], keys |-> p.keys]>>
            \o (IF p.next > Len(s) THEN <<>> ELSE from[p.next + 1])

(* Where it goes on behind the name it finds from i on.                    *)
BehindName(s, i) == skipSpace(s, skipSpace(s, i) + 1)

(* It finds a name, and nothing but parameters up to the next comma.       *)
Named(s, P, i) == TokenAt(s, skipSpace(s, i)) /\ Complete(s, P[BehindName(s, i)])

(* The extension it then has, and where that ends.                         *)
Element(s, P, i) == [name |-> s[skipSpace(s, i)], keys |-> P[BehindName(s, i)].keys]
EndOf(s, P, i) == P[BehindName(s, i)].next

(* Extensions.                                                             *)
ElementSet == [name : STRING, keys : SUBSET STRING]

(* The loop, by these names.                                               *)
LEMMA ExtsFromIs ==
  ASSUME NEW s, NEW P, NEW from, NEW i
  PROVE  ExtsFrom(s, P, from, i) =
           LET p == P[BehindName(s, i)]
           IN IF ~TokenAt(s, skipSpace(s, i)) \/ ~p.ok \/ (p.next <= Len(s) /\ s[p.next] # Comma) THEN <<>>
              ELSE <<Element(s, P, i)>>
                     \o (IF EndOf(s, P, i) > Len(s) THEN <<>> ELSE from[EndOf(s, P, i) + 1])
BY Zenon DEF ExtsFrom, BehindName, Element, EndOf

(* A name and what the parser of parameters is asked for behind it. *)
LEMMA NameAt ==
  ASSUME NEW s \in Text, NEW i \in 1..Len(s) + 1, TokenAt(s, skipSpace(s, i))
  PROVE  /\ skipSpace(s, i) \in i..Len(s) /\ IsToken(s[skipSpace(s, i)])
         /\ BehindName(s, i) \in skipSpace(s, i) + 1..Len(s) + 1
         /\ \A j \in i..BehindName(s, i) - 1 : j # skipSpace(s, i) => s[j] = Space
         /\ BehindName(s, i) <= Len(s) => s[BehindName(s, i)] # Space
<1> DEFINE t == skipSpace(s, i)
           f == skipSpace(s, t + 1)
<1>0. Len(s) \in Nat
  BY DEF Text
<1>1. t \in i..Len(s) + 1 /\ \A j \in i..t - 1 : s[j] = Space
  BY SkipTo
<1> HIDE DEF t
<1>2. t \in i..Len(s) /\ IsToken(s[t])
  BY <1>0, <1>1 DEF TokenAt, t
<1>3. /\ f \in t + 1..Len(s) + 1
      /\ \A j \in t + 1..f - 1 : s[j] = Space
      /\ f <= Len(s) => s[f] # Space
  <2>1. t + 1 \in 1..Len(s) + 1
    BY <1>0, <1>2
  <2> QED
    BY <2>1, SkipTo
<1> HIDE DEF f
<1>4. ASSUME NEW j \in i..f - 1, j # t PROVE s[j] = Space
  <2>1. j \in i..t - 1 \/ j \in t + 1..f - 1
    BY <1>0, <1>2, <1>3, <1>4
  <2> QED
    BY <1>1, <1>3, <2>1
<1> QED
  BY <1>2, <1>3, <1>4, Zenon DEF f, t, BehindName

(* The loop stops where it finds no element, takes the last one, or takes  *)
(* one and goes on behind its comma.                                       *)
LEMMA ExtsStep ==
  ASSUME NEW s \in Text, Lexed(s), NEW P, IsParams(s, P), NEW i \in 1..Len(s) + 1
  PROVE  \/ /\ ~Named(s, P, i) /\ \A from : ExtsFrom(s, P, from, i) = <<>>
         \/ /\ Named(s, P, i) /\ EndOf(s, P, i) > Len(s) /\ Element(s, P, i) \in ElementSet
            /\ \A from : ExtsFrom(s, P, from, i) = <<Element(s, P, i)>>
         \/ /\ Named(s, P, i) /\ EndOf(s, P, i) <= Len(s) /\ Element(s, P, i) \in ElementSet
            /\ EndOf(s, P, i) + 1 \in i + 1..Len(s) + 1
            /\ \A from : ExtsFrom(s, P, from, i) = <<Element(s, P, i)>> \o from[EndOf(s, P, i) + 1]
<1> DEFINE t == skipSpace(s, i)
           f == BehindName(s, i)
           p == P[f]
           e == Element(s, P, i)
           n == EndOf(s, P, i)
<1>0. Len(s) \in Nat /\ \A j \in 1..Len(s) : s[j] \in STRING
  BY DEF Text
<1>1. TokenAt(s, t) => t \in i..Len(s) /\ f \in t + 1..Len(s) + 1
  BY NameAt
<1>2. TokenAt(s, t) => p \in Read(s) /\ f <= p.next
  <2> SUFFICES ASSUME TokenAt(s, t) PROVE p \in Read(s) /\ f <= p.next
    OBVIOUS
  <2> HIDE DEF t, f
  <2>1. f \in 1..Len(s) + 1
    BY <1>0, <1>1
  <2> QED
    BY <2>1, ParamsRight DEF ParamsAt
<1>3. e = [name |-> s[t], keys |-> p.keys] /\ n = p.next
  BY Zenon DEF Element, EndOf
<1>4. \A from : ExtsFrom(s, P, from, i) =
        IF ~TokenAt(s, t) \/ ~p.ok \/ (p.next <= Len(s) /\ s[p.next] # Comma) THEN <<>>
        ELSE <<e>> \o (IF n > Len(s) THEN <<>> ELSE from[n + 1])
  BY ExtsFromIs, Zenon
<1>5. Named(s, P, i) <=> TokenAt(s, t) /\ p.ok /\ (p.next > Len(s) \/ s[p.next] = Comma)
  BY Zenon DEF Named, Complete
<1> HIDE DEF t, f, p, e, n
<1>6. ASSUME TokenAt(s, t) PROVE p.next \in i + 1..Len(s) + 1 /\ e \in ElementSet
  <2>1. p \in Read(s) /\ f <= p.next /\ s[t] \in STRING
    BY <1>0, <1>1, <1>2, <1>6
  <2>2. p.next \in 1..Len(s) + 1 /\ p.keys \in SUBSET STRING
    BY <2>1 DEF Read
  <2>3. e \in ElementSet
    BY <1>3, <2>1, <2>2 DEF ElementSet
  <2> QED
    BY <1>0, <1>1, <1>6, <2>1, <2>2, <2>3
<1>7. CASE ~Named(s, P, i)
  <2>1. ~TokenAt(s, t) \/ ~p.ok \/ (p.next <= Len(s) /\ s[p.next] # Comma)
    <3>1. TokenAt(s, t) => p.next \in Nat
      BY <1>6
    <3> QED
      BY <1>0, <1>5, <1>7, <3>1
  <2>2. \A from : ExtsFrom(s, P, from, i) = <<>>
    BY <1>4, <2>1, Zenon
  <2> QED
    BY <1>7, <2>2
<1>8. CASE Named(s, P, i)
  <2>1. TokenAt(s, t) /\ n \in i + 1..Len(s) + 1 /\ e \in ElementSet
    BY <1>3, <1>5, <1>6, <1>8
  <2>2. ~(~TokenAt(s, t) \/ ~p.ok \/ (p.next <= Len(s) /\ s[p.next] # Comma))
    BY <1>0, <1>3, <1>5, <1>8, <2>1
  <2>3. \A from : ExtsFrom(s, P, from, i) = <<e>> \o (IF n > Len(s) THEN <<>> ELSE from[n + 1])
    BY <1>4, <2>2, Zenon
  <2>4. <<e>> \o <<>> = <<e>>
    OBVIOUS
  <2>5. CASE n > Len(s)
    <3>1. \A from : ExtsFrom(s, P, from, i) = <<e>>
      BY <2>3, <2>4, <2>5, Zenon
    <3> QED
      BY <1>8, <2>1, <2>5, <3>1, Zenon DEF e, n
  <2>6. CASE ~(n > Len(s))
    <3>1. \A from : ExtsFrom(s, P, from, i) = <<e>> \o from[n + 1]
      BY <2>3, <2>6, Zenon
    <3>2. n <= Len(s) /\ n + 1 \in i + 1..Len(s) + 1
      BY <1>0, <2>1, <2>6
    <3> QED
      BY <1>8, <2>1, <3>1, <3>2, Zenon DEF e, n
  <2> QED
    BY <2>5, <2>6
<1> QED
  BY <1>7, <1>8

(* There is a function that does so at every place. *)
LEMMA ExtsExists ==
  ASSUME NEW s \in Text, Lexed(s), NEW P, IsParams(s, P)
  PROVE  \E f : f = [i \in 1..Len(s) + 1 |-> ExtsFrom(s, P, f, i)]
<1> DEFINE L == Len(s) + 1
           V == Seq(ElementSet)
           B == [x \in [1..L -> V] \X (1..L) |-> ExtsFrom(s, P, x[1], x[2])]
<1>0. Len(s) \in Nat /\ L \in Nat
  BY DEF Text
<1>1. ASSUME NEW i \in 1..L, NEW f \in [1..L -> V]
      PROVE  ExtsFrom(s, P, f, i) \in V /\ B[<<f, i>>] = ExtsFrom(s, P, f, i)
  <2> DEFINE n == EndOf(s, P, i) + 1
             e == Element(s, P, i)
  <2>1. B[<<f, i>>] = ExtsFrom(s, P, f, i)
    OBVIOUS
  <2> HIDE DEF B
  <2>2. \/ ExtsFrom(s, P, f, i) = <<>>
        \/ e \in ElementSet /\ ExtsFrom(s, P, f, i) = <<e>>
        \/ e \in ElementSet /\ n \in i + 1..L /\ ExtsFrom(s, P, f, i) = <<e>> \o f[n]
    BY ExtsStep, Zenon
  <2> HIDE DEF n, e
  <2>3. ASSUME n \in i + 1..L PROVE f[n] \in V
    BY <1>0, <2>3
  <2>5. \A x \in ElementSet : \A w \in Seq(ElementSet) : <<x>> \in V /\ <<x>> \o w \in V
    OBVIOUS
  <2>6. <<>> \in V
    OBVIOUS
  <2>4. ExtsFrom(s, P, f, i) \in V
    BY <2>2, <2>3, <2>5, <2>6, Zenon
  <2> QED
    BY <2>1, <2>4
<1>2. ASSUME NEW i \in 1..L, NEW f \in [1..L -> V], NEW g \in [1..L -> V], \A j \in 1..L : i < j => f[j] = g[j]
      PROVE  ExtsFrom(s, P, f, i) = ExtsFrom(s, P, g, i)
  <2> DEFINE n == EndOf(s, P, i) + 1
  <2>1. n \in i + 1..Len(s) + 1 => f[n] = g[n]
    <3> HIDE DEF n
    <3> QED
      BY <1>0, <1>2
  <2>2. \/ \E x : \A h : ExtsFrom(s, P, h, i) = x
        \/ /\ n \in i + 1..Len(s) + 1
           /\ \A h : ExtsFrom(s, P, h, i) = <<Element(s, P, i)>> \o h[n]
    BY ExtsStep, Zenon
  <2> QED
    BY <2>1, <2>2, Zenon
<1>3. B \in [[1..L -> V] \X (1..L) -> V]
  BY <1>1
<1>4. Ahead(L, V, B)
  BY <1>1, <1>2 DEF Ahead
<1>5. V # {}
  <2>1. <<>> \in V
    OBVIOUS
  <2> QED
    BY <2>1
<1>b. \A i \in 1..L : \A f \in [1..L -> V] : B[<<f, i>>] = ExtsFrom(s, P, f, i)
  BY <1>1
<1> HIDE DEF L, V, B
<1>6. PICK f \in [1..L -> V] : Solves(f, 1..L, B)
  BY <1>0, <1>3, <1>4, <1>5, Forward
<1>7. \A i \in 1..L : f[i] = ExtsFrom(s, P, f, i)
  BY <1>b, <1>6 DEF Solves
<1>8. f = [i \in 1..L |-> ExtsFrom(s, P, f, i)]
  BY <1>7
<1> QED
  BY <1>8 DEF L

(* The parser of extensions reads an element as the grammar has it. *)
LEMMA ElementRight ==
  ASSUME NEW s \in Text, Lexed(s), NEW P, IsParams(s, P), NEW c \in Cuts(s, Comma)
  PROVE  LET x == Piece(s, Comma, c)
             n == EndOf(s, P, c + 1)
         IN /\ WholeExtension(x) <=> Named(s, P, c + 1)
            /\ Named(s, P, c + 1) =>
                 /\ ExtensionOf(x) = Element(s, P, c + 1)
                 /\ n \in c + 1..Len(s) + 1 /\ (n <= Len(s) => n \in Cuts(s, Comma))
                 /\ \A d \in Cuts(s, Comma) : c < d => n <= d
<1> DEFINE x == Piece(s, Comma, c)
           i == c + 1
           t == skipSpace(s, i)
           f == BehindName(s, i)
           p == P[f]
<1>0. Len(s) \in Nat /\ DOMAIN s = 1..Len(s)
  BY DEF Text
<1>1. PICK b \in c + 1..Len(s) + 1 :
           /\ c \in 0..Len(s) /\ (b <= Len(s) => s[b] = Comma)
           /\ \A j \in c + 1..b - 1 : s[j] # Comma
           /\ \A d \in Cuts(s, Comma) : c < d => b <= d
           /\ x = SubSeq(s, c + 1, b - 1)
           /\ x \in Text /\ Len(x) = b - 1 - c
           /\ \A k \in 1..b - 1 - c : x[k] = s[c + k]
  BY PieceIs, Zenon
<1>2. Between(x, s, c, b)
  BY <1>1 DEF Between
<1>3. /\ WholeExtension(x) <=> \E l, g : Ext(s, c, l, g, b)
      /\ \A l, g : Ext(s, c, l, g, b) => ExtensionOf(x) = [name |-> s[l], keys |-> KeysFrom(s, g, b)]
  BY <1>2, ExtensionBetween
<1>4. i \in 1..Len(s) + 1
  BY <1>0, <1>1
<1>5. TokenAt(s, t) =>
        /\ t \in i..Len(s) /\ IsToken(s[t])
        /\ f \in t + 1..Len(s) + 1
        /\ \A j \in i..f - 1 : j # t => s[j] = Space
        /\ f <= Len(s) => s[f] # Space
  BY <1>4, NameAt
<1>6. /\ t \in i..Len(s) + 1
      /\ \A j \in i..t - 1 : s[j] = Space
      /\ t <= Len(s) => s[t] # Space
  BY <1>4, SkipTo
<1>n. /\ Named(s, P, i) <=> TokenAt(s, t) /\ Complete(s, p)
      /\ Element(s, P, i) = [name |-> s[t], keys |-> p.keys]
      /\ EndOf(s, P, i) = p.next
  BY Zenon DEF Named, Element, EndOf
<1> HIDE DEF x, t, f, p
<1>7. ASSUME TokenAt(s, t) PROVE ParamsAt(s, p, f)
  <2>1. f \in 1..Len(s) + 1
    BY <1>0, <1>4, <1>5, <1>7
  <2> QED
    BY <2>1, ParamsRight DEF p
<1>8. ASSUME TokenAt(s, t)
      PROVE  One(s, c, t, f) /\ f \in c + 1..b /\ UpTo(s, f, b)
  <2>1. /\ t \in c + 1..Len(s) /\ f \in t + 1..Len(s) + 1 /\ IsToken(s[t])
        /\ \A j \in c + 1..f - 1 : j # t => s[j] = Space
    BY <1>5, <1>8
  <2>2. t \in c + 1..f - 1
    BY <1>0, <1>1, <2>1
  <2>3. One(s, c, t, f)
    BY <2>1, <2>2 DEF One
  <2>4. \A j \in c + 1..f - 1 : s[j] # Comma
    BY <2>3, OneHasNo
  <2>5. f \in c + 1..b
    BY <1>0, <1>1, <2>1, <2>4
  <2>6. UpTo(s, f, b)
    BY <1>0, <1>1, <2>5 DEF UpTo
  <2> QED
    BY <2>3, <2>5, <2>6
<1>9. ASSUME TokenAt(s, t)
      PROVE  /\ Complete(s, p) <=> WholeFrom(s, f, b)
             /\ WholeFrom(s, f, b) => p.next = b /\ p.keys = KeysFrom(s, f, b)
  BY <1>7, <1>8, <1>9 DEF ParamsAt
<1>10. ASSUME NEW l, NEW g, Ext(s, c, l, g, b) PROVE TokenAt(s, t) /\ l = t /\ g = f
  <2>1. g \in c + 1..b /\ One(s, c, l, g) /\ (g # b => s[g] = Semicolon)
    BY <1>10 DEF Ext, WholeFrom
  <2>2. l \in c + 1..g - 1 /\ IsToken(s[l]) /\ \A j \in c + 1..g - 1 : j # l => s[j] = Space
    BY <2>1 DEF One
  <2>3. s[l] # Space /\ l <= Len(s)
    BY <1>0, <1>1, <2>1, <2>2, TokenIsNoSpace
  <2>4. t = l
    <3>1. ~(t < l) /\ ~(l < t)
      BY <1>0, <1>1, <1>6, <2>1, <2>2, <2>3
    <3> QED
      BY <1>0, <1>1, <1>6, <2>2, <3>1
  <2>5. TokenAt(s, t)
    BY <2>2, <2>3, <2>4 DEF TokenAt
  <2>6. g <= Len(s) => s[g] # Space
    <3>1. g <= Len(s) => s[g] \in {Comma, Semicolon}
      BY <1>0, <1>1, <2>1
    <3> QED
      BY <3>1, Distinct
  <2>7. f = g
    <3>1. f \in t + 1..Len(s) + 1 /\ (f <= Len(s) => s[f] # Space)
          /\ \A j \in c + 1..f - 1 : j # t => s[j] = Space
      BY <1>5, <2>5
    <3>2. ~(f < g)
      BY <1>0, <1>1, <2>1, <2>2, <2>4, <3>1
    <3>3. ~(g < f)
      BY <1>0, <1>1, <2>1, <2>2, <2>4, <2>6, <3>1
    <3> QED
      BY <1>0, <1>1, <2>1, <2>2, <2>4, <3>1, <3>2, <3>3
  <2> QED
    BY <2>4, <2>5, <2>7
<1>11. ASSUME Named(s, P, i)
       PROVE  Ext(s, c, t, f, b) /\ p.next = b /\ p.keys = KeysFrom(s, f, b)
  BY <1>n, <1>8, <1>9, <1>11 DEF Ext
<1>12. WholeExtension(x) <=> Named(s, P, i)
  <2>1. ASSUME WholeExtension(x) PROVE Named(s, P, i)
    <3>1. PICK l, g : Ext(s, c, l, g, b)
      BY <1>3, <2>1
    <3>2. TokenAt(s, t) /\ WholeFrom(s, f, b)
      BY <1>10, <3>1 DEF Ext
    <3> QED
      BY <1>n, <1>9, <3>2
  <2> QED
    BY <1>3, <1>11, <2>1
<1>13. ASSUME Named(s, P, i)
       PROVE  ExtensionOf(x) = Element(s, P, i) /\ EndOf(s, P, i) = b
  BY <1>n, <1>3, <1>11, <1>13
<1>14. b <= Len(s) => b \in Cuts(s, Comma)
  BY <1>0, <1>1 DEF Cuts
<1> QED
  BY <1>1, <1>12, <1>13, <1>14 DEF x

(* What the grammar reads from the cut c on. *)
ReadableFrom(s, c) ==
  {d \in Cuts(s, Comma) : /\ c <= d
                          /\ \A e \in Cuts(s, Comma) : c <= e /\ e <= d => WholeExtension(Piece(s, Comma, e))}
(* The extensions it reads there.                                          *)
ReadFrom(s, c) == {ExtensionOf(Piece(s, Comma, d)) : d \in ReadableFrom(s, c)}

(* The first element and what is behind it. *)
LEMMA ReadNext ==
  ASSUME NEW s \in Text, NEW c \in Cuts(s, Comma)
  PROVE  /\ ~WholeExtension(Piece(s, Comma, c)) => ReadFrom(s, c) = {}
         /\ WholeExtension(Piece(s, Comma, c)) =>
              \A n \in c + 1..Len(s) + 1 :
                (\A d \in Cuts(s, Comma) : c < d => n <= d) =>
                  /\ n > Len(s) => ReadFrom(s, c) = {ExtensionOf(Piece(s, Comma, c))}
                  /\ n \in Cuts(s, Comma) => ReadFrom(s, c) = {ExtensionOf(Piece(s, Comma, c))} \cup ReadFrom(s, n)
<1> DEFINE W(d) == WholeExtension(Piece(s, Comma, d))
           X(d) == ExtensionOf(Piece(s, Comma, d))
<1>0. Len(s) \in Nat /\ c \in 0..Len(s) /\ \A d \in Cuts(s, Comma) : d \in 0..Len(s)
  BY DEF Text, Cuts
<1>r. \A d, e : d \in ReadableFrom(s, e) <=>
        /\ d \in Cuts(s, Comma) /\ e <= d
        /\ \A u \in Cuts(s, Comma) : e <= u /\ u <= d => W(u)
  BY Zenon DEF ReadableFrom
<1>x. \A e : ReadFrom(s, e) = {X(d) : d \in ReadableFrom(s, e)}
  BY Zenon DEF ReadFrom
<1> HIDE DEF W, X
<1>1. ASSUME ~W(c) PROVE ReadFrom(s, c) = {}
  <2>1. \A d : d \notin ReadableFrom(s, c)
    BY <1>0, <1>r, <1>1
  <2> QED
    BY <1>x, <2>1
<1>2. ASSUME W(c), NEW n \in c + 1..Len(s) + 1, \A d \in Cuts(s, Comma) : c < d => n <= d
      PROVE  /\ n > Len(s) => ReadFrom(s, c) = {X(c)}
             /\ n \in Cuts(s, Comma) => ReadFrom(s, c) = {X(c)} \cup ReadFrom(s, n)
  <2>1. \A u \in Cuts(s, Comma) : c <= u => u = c \/ n <= u
    BY <1>0, <1>2
  <2>2. c \in ReadableFrom(s, c)
    BY <1>0, <1>2, <1>r
  <2>3. ASSUME n > Len(s) PROVE ReadableFrom(s, c) = {c}
    <3>1. ASSUME NEW d \in ReadableFrom(s, c) PROVE d = c
      <4>1. d \in Cuts(s, Comma) /\ c <= d
        BY <1>r
      <4>2. d \in 0..Len(s) /\ (d = c \/ n <= d)
        BY <1>0, <2>1, <4>1
      <4> QED
        BY <1>0, <1>2, <2>3, <4>2
    <3> QED
      BY <2>2, <3>1
  <2>4. ASSUME n \in Cuts(s, Comma) PROVE ReadableFrom(s, c) = {c} \cup ReadableFrom(s, n)
    <3>1. ASSUME NEW d \in ReadableFrom(s, c), d # c PROVE d \in ReadableFrom(s, n)
      <4>1. n <= d /\ d \in Cuts(s, Comma)
        BY <1>0, <1>r, <2>1, <3>1
      <4>2. \A u \in Cuts(s, Comma) : n <= u => c <= u
        BY <1>0, <1>2
      <4> QED
        BY <1>r, <3>1, <4>1, <4>2
    <3>2. ASSUME NEW d \in ReadableFrom(s, n) PROVE d \in ReadableFrom(s, c)
      <4>1. n <= d /\ d \in Cuts(s, Comma) /\ \A u \in Cuts(s, Comma) : n <= u /\ u <= d => W(u)
        BY <1>r, <3>2
      <4>2. c <= d
        BY <1>0, <1>2, <4>1
      <4>3. \A u \in Cuts(s, Comma) : c <= u /\ u <= d => W(u)
        BY <1>2, <2>1, <4>1
      <4> QED
        BY <1>r, <4>1, <4>2, <4>3
    <3> QED
      BY <2>2, <3>1, <3>2
  <2>5. n > Len(s) => ReadFrom(s, c) = {X(c)}
    BY <1>x, <2>3
  <2>6. n \in Cuts(s, Comma) => ReadFrom(s, c) = {X(c)} \cup ReadFrom(s, n)
    <3> SUFFICES ASSUME n \in Cuts(s, Comma) PROVE ReadFrom(s, c) = {X(c)} \cup ReadFrom(s, n)
      OBVIOUS
    <3>1. ReadFrom(s, c) = {X(d) : d \in {c} \cup ReadableFrom(s, n)}
      BY <1>x, <2>4
    <3>2. ReadFrom(s, n) = {X(d) : d \in ReadableFrom(s, n)}
      BY <1>x
    <3> QED
      BY <3>1, <3>2
  <2> QED
    BY <2>5, <2>6
<1> QED
  BY <1>1, <1>2 DEF W, X

(* What a concatenation holds. *)
LEMMA RangeConcat ==
  ASSUME NEW S, NEW u \in Seq(S), NEW w \in Seq(S)
  PROVE  u \o w \in Seq(S) /\ Range(u \o w) = Range(u) \cup Range(w)
<1>0. Len(u) \in Nat /\ Len(w) \in Nat /\ DOMAIN u = 1..Len(u) /\ DOMAIN w = 1..Len(w)
  OBVIOUS
<1>1. /\ u \o w \in Seq(S) /\ DOMAIN (u \o w) = 1..Len(u) + Len(w)
      /\ \A i \in 1..Len(u) : (u \o w)[i] = u[i]
      /\ \A i \in 1..Len(w) : (u \o w)[Len(u) + i] = w[i]
  OBVIOUS
<1> DEFINE v == u \o w
<1> HIDE DEF v
<1>2. ASSUME NEW i \in DOMAIN v PROVE v[i] \in Range(u) \cup Range(w)
  <2>1. CASE i <= Len(u)
    BY <1>0, <1>1, <2>1 DEF Range, v
  <2>2. CASE ~(i <= Len(u))
    <3>1. i - Len(u) \in 1..Len(w) /\ Len(u) + (i - Len(u)) = i
      BY <1>0, <1>1, <2>2 DEF v
    <3> QED
      BY <1>0, <1>1, <3>1 DEF Range, v
  <2> QED
    BY <2>1, <2>2
<1>3. ASSUME NEW i \in DOMAIN u PROVE u[i] \in Range(v)
  <2>1. i \in DOMAIN v /\ v[i] = u[i]
    BY <1>0, <1>1 DEF v
  <2> QED
    BY <2>1 DEF Range
<1>4. ASSUME NEW i \in DOMAIN w PROVE w[i] \in Range(v)
  <2>1. Len(u) + i \in DOMAIN v /\ v[Len(u) + i] = w[i]
    BY <1>0, <1>1 DEF v
  <2> QED
    BY <2>1 DEF Range
<1>5. Range(v) = Range(u) \cup Range(w)
  BY <1>2, <1>3, <1>4 DEF Range
<1> QED
  BY <1>1, <1>5 DEF v

(* What a sequence of one holds.                                           *)
LEMMA RangeOne == \A x : Range(<<x>>) = {x} /\ Range(<<>>) = {}
BY DEF Range

(* F is the parser of extensions.                                          *)
IsExts(s, P, F) == \A i \in 1..Len(s) + 1 : F[i] = ExtsFrom(s, P, F, i)

(* The parser of extensions reads what the grammar reads. *)
LEMMA ExtsRight ==
  ASSUME NEW s \in Text, Lexed(s), NEW P, IsParams(s, P), NEW F, IsExts(s, P, F)
  PROVE  F[1] \in Seq(ElementSet) /\ Range(F[1]) = ReadFrom(s, 0)
<1> DEFINE Right(c) == F[c + 1] \in Seq(ElementSet) /\ Range(F[c + 1]) = ReadFrom(s, c)
           Wrong == {m \in Nat : \E c \in Cuts(s, Comma) : m = Len(s) - c /\ ~Right(c)}
<1>0. Len(s) \in Nat /\ \A d \in Cuts(s, Comma) : d \in 0..Len(s)
  BY DEF Text, Cuts
<1>1. Wrong = {}
  <2> SUFFICES ASSUME Wrong # {} PROVE FALSE
    OBVIOUS
  <2>1. PICK m \in Wrong : \A n \in Wrong : m <= n
    <3>1. Wrong \subseteq Nat
      OBVIOUS
    <3> QED
      BY <3>1, LeastNatural
  <2>2. PICK c \in Cuts(s, Comma) : m = Len(s) - c /\ ~Right(c)
    BY <2>1
  <2>3. ASSUME NEW d \in Cuts(s, Comma), c < d PROVE Right(d)
    <3>1. Len(s) - d \in Nat /\ ~(m <= Len(s) - d)
      BY <1>0, <2>2, <2>3
    <3> QED
      BY <2>1, <3>1
  <2> DEFINE i == c + 1
             x == Piece(s, Comma, c)
             n == EndOf(s, P, i)
             e == Element(s, P, i)
  <2>4. i \in 1..Len(s) + 1 /\ c \in 0..Len(s)
    BY <1>0
  <2>5. F[i] = ExtsFrom(s, P, F, i)
    BY <2>4, Zenon DEF IsExts
  <2>6. \/ ~Named(s, P, i) /\ F[i] = <<>>
        \/ Named(s, P, i) /\ n > Len(s) /\ e \in ElementSet /\ F[i] = <<e>>
        \/ Named(s, P, i) /\ n <= Len(s) /\ e \in ElementSet /\ F[i] = <<e>> \o F[n + 1]
    BY <2>4, <2>5, ExtsStep, Zenon
  <2>7. /\ WholeExtension(x) <=> Named(s, P, i)
        /\ Named(s, P, i) => /\ ExtensionOf(x) = e
                             /\ n \in c + 1..Len(s) + 1 /\ (n <= Len(s) => n \in Cuts(s, Comma))
                             /\ \A d \in Cuts(s, Comma) : c < d => n <= d
    BY ElementRight
  <2>8. /\ ~WholeExtension(x) => ReadFrom(s, c) = {}
        /\ WholeExtension(x) =>
             \A k \in c + 1..Len(s) + 1 :
               (\A d \in Cuts(s, Comma) : c < d => k <= d) =>
                 /\ k > Len(s) => ReadFrom(s, c) = {ExtensionOf(x)}
                 /\ k \in Cuts(s, Comma) => ReadFrom(s, c) = {ExtensionOf(x)} \cup ReadFrom(s, k)
    BY ReadNext
  <2> HIDE DEF x, n, e, i
  <2>9. Right(c) <=> F[i] \in Seq(ElementSet) /\ Range(F[i]) = ReadFrom(s, c)
    BY DEF i
  <2> HIDE DEF Right
  <2>10. CASE ~Named(s, P, i) /\ F[i] = <<>>
    <3>1. <<>> \in Seq(ElementSet)
      OBVIOUS
    <3> QED
      BY <2>2, <2>7, <2>8, <2>9, <2>10, <3>1, RangeOne, Zenon
  <2>11. CASE Named(s, P, i) /\ n > Len(s) /\ e \in ElementSet /\ F[i] = <<e>>
    <3>1. <<e>> \in Seq(ElementSet)
      BY <2>11
    <3>2. ReadFrom(s, c) = {e}
      BY <2>7, <2>8, <2>11, Zenon
    <3> QED
      BY <2>2, <2>9, <2>11, <3>1, <3>2, RangeOne, Zenon
  <2>12. CASE Named(s, P, i) /\ n <= Len(s) /\ e \in ElementSet /\ F[i] = <<e>> \o F[n + 1]
    <3>1. n \in Cuts(s, Comma) /\ c < n /\ n \in c + 1..Len(s) + 1
      <4>1. n \in Cuts(s, Comma) /\ n \in c + 1..Len(s) + 1
        BY <2>7, <2>12, Zenon
      <4> QED
        BY <2>4, <4>1
    <3>2. ReadFrom(s, c) = {e} \cup ReadFrom(s, n)
      BY <2>7, <2>8, <2>12, <3>1, Zenon
    <3>3. F[n + 1] \in Seq(ElementSet) /\ Range(F[n + 1]) = ReadFrom(s, n)
      BY <2>3, <3>1, Zenon DEF Right
    <3>4. <<e>> \in Seq(ElementSet)
      BY <2>12
    <3>5. <<e>> \o F[n + 1] \in Seq(ElementSet) /\ Range(<<e>> \o F[n + 1]) = {e} \cup ReadFrom(s, n)
      <4> DEFINE u == <<e>>
                 w == F[n + 1]
      <4>1. u \in Seq(ElementSet) /\ w \in Seq(ElementSet)
        BY <3>3, <3>4
      <4>2. Range(u) = {e}
        BY RangeOne, Zenon
      <4>3. Range(w) = ReadFrom(s, n)
        BY <3>3
      <4> HIDE DEF u, w
      <4>4. u \o w \in Seq(ElementSet) /\ Range(u \o w) = Range(u) \cup Range(w)
        BY <4>1, RangeConcat
      <4>5. u \o w \in Seq(ElementSet) /\ Range(u \o w) = {e} \cup ReadFrom(s, n)
        BY <4>2, <4>3, <4>4, Zenon
      <4> QED
        BY <4>5 DEF u, w
    <3> QED
      BY <2>2, <2>9, <2>12, <3>2, <3>5, Zenon
  <2> QED
    BY <2>6, <2>10, <2>11, <2>12
<1>2. 0 \in Cuts(s, Comma) /\ Len(s) - 0 \in Nat
  BY <1>0 DEF Cuts
<1>3. F[0 + 1] \in Seq(ElementSet) /\ Range(F[0 + 1]) = ReadFrom(s, 0)
  BY <1>1, <1>2
<1> QED
  BY <1>3

-----------------------------------------------------------------------------
(* Lines and headers.                                                      *)

(* The extensions of a line are those that the grammar reads in it. *)
LEMMA LineExtensionsRight ==
  ASSUME NEW s \in Text, Lexed(s)
  PROVE  /\ LineExtensions(s) \in Seq(ElementSet)
         /\ Range(LineExtensions(s)) = {ExtensionOf(Piece(s, Comma, c)) : c \in Readable(s, WholeExtension)}
<1> DEFINE P == CHOOSE f : f = [i \in 1..Len(s) + 1 |-> ParamsFrom(s, f, i)]
           F == CHOOSE f : f = [i \in 1..Len(s) + 1 |-> ExtsFrom(s, P, f, i)]
<1>1. P = [i \in 1..Len(s) + 1 |-> ParamsFrom(s, P, i)]
  BY ParamsExists
<1>2. LineExtensions(s) = F[1]
  BY Zenon DEF LineExtensions, ParamsFrom, ExtsFrom
<1> HIDE DEF P
<1>3. IsParams(s, P)
  BY <1>1 DEF IsParams
<1>4. F = [i \in 1..Len(s) + 1 |-> ExtsFrom(s, P, F, i)]
  BY <1>3, ExtsExists
<1> HIDE DEF F
<1>5. IsExts(s, P, F)
  BY <1>4 DEF IsExts
<1>6. F[1] \in Seq(ElementSet) /\ Range(F[1]) = ReadFrom(s, 0)
  BY <1>3, <1>5, ExtsRight
<1>7. ReadableFrom(s, 0) = Readable(s, WholeExtension)
  <2>1. \A d \in Cuts(s, Comma) : 0 <= d
    BY DEF Cuts, Text
  <2> QED
    BY <2>1, Zenon DEF ReadableFrom, Readable
<1> QED
  BY <1>2, <1>6, <1>7 DEF ReadFrom

(* The parser of a header: what it has read up to the line l. *)
LinesUpTo(header, upTo, l) ==
  IF l = 0 THEN <<>> ELSE upTo[l - 1] \o LineExtensions(header[l])

(* In every line an open string is at the end.                             *)
WellLexed(header) == header \in Seq(Text) /\ \A l \in DOMAIN header : Lexed(header[l])

(* There is a function that does so at every line.                         *)
LEMMA LinesExist ==
  ASSUME NEW header, WellLexed(header)
  PROVE  \E f : f = [l \in 0..Len(header) |-> LinesUpTo(header, f, l)]
<1> DEFINE N == Len(header)
           D == 0..N
           V == Seq(ElementSet)
           r == [l \in D |-> l]
           B == [x \in [D -> V] \X D |-> LinesUpTo(header, x[1], x[2])]
<1>0. N \in Nat /\ DOMAIN header = 1..N
  BY DEF WellLexed
<1>l. \A l \in 1..N : LineExtensions(header[l]) \in V
  BY <1>0, LineExtensionsRight DEF WellLexed
<1>1. ASSUME NEW l \in D, NEW f \in [D -> V]
      PROVE  LinesUpTo(header, f, l) \in V /\ B[<<f, l>>] = LinesUpTo(header, f, l)
  <2>1. B[<<f, l>>] = LinesUpTo(header, f, l)
    OBVIOUS
  <2> HIDE DEF B
  <2>2. CASE l = 0
    <3>1. <<>> \in V
      OBVIOUS
    <3> QED
      BY <2>1, <2>2, <3>1 DEF LinesUpTo
  <2>3. CASE l # 0
    <3>1. l \in 1..N /\ f[l - 1] \in V
      BY <1>0, <2>3
    <3>2. LineExtensions(header[l]) \in V
      BY <1>l, <3>1
    <3>3. LinesUpTo(header, f, l) = f[l - 1] \o LineExtensions(header[l])
      BY <2>3 DEF LinesUpTo
    <3>4. f[l - 1] \o LineExtensions(header[l]) \in V
      BY <3>1, <3>2
    <3> QED
      BY <2>1, <3>3, <3>4
  <2> QED
    BY <2>2, <2>3
<1>2. ASSUME NEW l \in D, NEW f \in [D -> V], NEW g \in [D -> V], \A j \in D : j < l => f[j] = g[j]
      PROVE  LinesUpTo(header, f, l) = LinesUpTo(header, g, l)
  <2>1. l # 0 => l - 1 \in D /\ l - 1 < l
    BY <1>0
  <2> QED
    BY <1>2, <2>1 DEF LinesUpTo
<1>3. B \in [[D -> V] \X D -> V]
  BY <1>1
<1>4. r \in [D -> 0..N] /\ \A l \in D : r[l] = l
  BY <1>0
<1>5. V # {}
  <2>1. <<>> \in V
    OBVIOUS
  <2> QED
    BY <2>1
<1>b. \A l \in D : \A f \in [D -> V] : B[<<f, l>>] = LinesUpTo(header, f, l)
  BY <1>1
<1> HIDE DEF D, V, B, r
<1>6. Founded(D, V, r, B)
  BY <1>2, <1>4, <1>b DEF Founded
<1>7. Recursive(D, V, N, r, B)
  BY <1>0, <1>3, <1>4, <1>5, <1>6 DEF Recursive
<1>8. PICK f \in [D -> V] : Solves(f, D, B)
  BY <1>7, Recursion
<1>9. \A l \in D : f[l] = LinesUpTo(header, f, l)
  BY <1>b, <1>8 DEF Solves
<1>10. f = [l \in D |-> LinesUpTo(header, f, l)]
  BY <1>9
<1> QED
  BY <1>10 DEF D

(* The parser of extensions finds exactly what the grammar names. *)
LEMMA ExtensionsParsed ==
  ASSUME NEW header, WellLexed(header)
  PROVE  /\ parseExtensions(header) \in Seq(ElementSet)
         /\ Range(parseExtensions(header)) = Extensions(header)
<1> DEFINE N == Len(header)
           U == CHOOSE f : f = [l \in 0..Len(header) |-> LinesUpTo(header, f, l)]
           X(l) == Range(LineExtensions(header[l]))
           Right(l) == U[l] \in Seq(ElementSet) /\ Range(U[l]) = UNION {X(k) : k \in 1..l}
           Wrong == {l \in 0..N : ~Right(l)}
<1>0. N \in Nat /\ DOMAIN header = 1..N
  BY DEF WellLexed
<1>l. \A l \in 1..N : LineExtensions(header[l]) \in Seq(ElementSet)
  BY <1>0, LineExtensionsRight DEF WellLexed
<1>1. U = [l \in 0..N |-> LinesUpTo(header, U, l)]
  BY LinesExist
<1>2. parseExtensions(header) = U[N]
  BY Zenon DEF parseExtensions, LinesUpTo
<1> HIDE DEF U
<1>3. \A l \in 0..N : U[l] = LinesUpTo(header, U, l)
  BY <1>1
<1>r. \A l : Right(l) <=> U[l] \in Seq(ElementSet) /\ Range(U[l]) = UNION {X(k) : k \in 1..l}
  BY Zenon
<1> HIDE DEF X, Right
<1>4. Wrong = {}
  <2> SUFFICES ASSUME Wrong # {} PROVE FALSE
    OBVIOUS
  <2>1. PICK l \in Wrong : \A n \in Wrong : l <= n
    <3>1. Wrong \subseteq Nat
      BY <1>0
    <3> QED
      BY <3>1, LeastNatural
  <2>2. l \in 0..N /\ ~Right(l) /\ U[l] = LinesUpTo(header, U, l)
    BY <1>3, <2>1
  <2>3. CASE l = 0
    <3>1. U[0] = <<>>
      BY <2>2, <2>3, Zenon DEF LinesUpTo
    <3>2. UNION {X(k) : k \in 1..0} = {}
      OBVIOUS
    <3>3. <<>> \in Seq(ElementSet)
      OBVIOUS
    <3> QED
      BY <1>r, <2>2, <2>3, <3>1, <3>2, <3>3, RangeOne, Zenon
  <2>4. CASE l # 0
    <3> DEFINE h == l - 1
               u == U[h]
               w == LineExtensions(header[l])
    <3>1. h \in 0..N /\ l \in 1..N /\ ~(l <= h) /\ \A k : k \in 1..l <=> k = l \/ k \in 1..h
      BY <1>0, <2>2, <2>4
    <3>2. Right(h)
      BY <2>1, <3>1
    <3>3. U[l] = u \o w
      BY <2>2, <2>4, Zenon DEF LinesUpTo
    <3> HIDE DEF h
    <3>4. u \in Seq(ElementSet) /\ Range(u) = UNION {X(k) : k \in 1..h}
      BY <1>r, <3>2, Zenon
    <3>5. w \in Seq(ElementSet) /\ Range(w) = X(l)
      BY <1>l, <3>1, Zenon DEF X
    <3> HIDE DEF u, w
    <3>6. u \o w \in Seq(ElementSet) /\ Range(u \o w) = Range(u) \cup Range(w)
      BY <3>4, <3>5, RangeConcat
    <3>7. UNION {X(k) : k \in 1..l} = X(l) \cup UNION {X(k) : k \in 1..h}
      BY <3>1
    <3>8. Range(U[l]) = UNION {X(k) : k \in 1..l} /\ U[l] \in Seq(ElementSet)
      BY <3>3, <3>4, <3>5, <3>6, <3>7
    <3> QED
      BY <1>r, <2>2, <3>8, Zenon
  <2> QED
    BY <2>3, <2>4
<1>5. Right(N)
  BY <1>0, <1>4
<1> DEFINE Y(l) == {ExtensionOf(Piece(header[l], Comma, c)) : c \in Readable(header[l], WholeExtension)}
<1>6. ASSUME NEW l \in 1..N PROVE X(l) = Y(l)
  <2>1. header[l] \in Text /\ Lexed(header[l])
    BY <1>0 DEF WellLexed
  <2> QED
    BY <2>1, LineExtensionsRight, Zenon DEF X
<1>8. Extensions(header) = UNION {Y(l) : l \in DOMAIN header}
  BY Zenon DEF Extensions
<1> HIDE DEF Y
<1>7. Extensions(header) = UNION {X(l) : l \in 1..N}
  BY <1>0, <1>6, <1>8
<1> QED
  BY <1>2, <1>5, <1>7, <1>r, Zenon

(* A header that is not there has no extensions. *)
LEMMA NoExtensions == parseExtensions(<<>>) = <<>>
<1>1. WellLexed(<<>>)
  BY DEF WellLexed
<1>2. Range(parseExtensions(<<>>)) = Extensions(<<>>) /\ parseExtensions(<<>>) \in Seq(ElementSet)
  BY <1>1, ExtensionsParsed
<1>3. Extensions(<<>>) = {}
  BY DEF Extensions
<1> QED
  BY <1>2, <1>3 DEF Range

-----------------------------------------------------------------------------
(* The subprotocol.                                                        *)

(* A line of one offer.                                                    *)
NoComma(s) == \A j \in 1..Len(s) : s[j] # Comma

(* A line without commas is its only piece. *)
LEMMA OnePiece ==
  ASSUME NEW s \in Text, NoComma(s)
  PROVE  Piece(s, Comma, 0) = s /\ Cuts(s, Comma) = {0} /\ Offered(s) = {Trim(s)}
<1>0. Len(s) \in Nat /\ DOMAIN s = 1..Len(s)
  BY DEF Text
<1>1. Cuts(s, Comma) = {0}
  BY <1>0 DEF Cuts, NoComma
<1> DEFINE p == Piece(s, Comma, 0)
<1>2. PICK e \in 0 + 1..Len(s) + 1 :
           /\ 0 \in 0..Len(s) /\ (e <= Len(s) => s[e] = Comma)
           /\ \A j \in 0 + 1..e - 1 : s[j] # Comma
           /\ \A d \in Cuts(s, Comma) : 0 < d => e <= d
           /\ p = SubSeq(s, 0 + 1, e - 1)
           /\ p \in Text /\ Len(p) = e - 1 - 0
           /\ \A k \in 1..e - 1 - 0 : p[k] = s[0 + k]
  BY <1>1, PieceIs
<1> HIDE DEF p
<1>3. e = Len(s) + 1
  BY <1>0, <1>2 DEF NoComma
<1>4. p \in Text /\ Len(p) = Len(s) /\ \A k \in 1..Len(s) : p[k] = s[k]
  BY <1>0, <1>2, <1>3
<1>5. p = s
  BY <1>4, SeqEqual DEF Text
<1>6. Offered(s) = {Trim(p)}
  BY <1>1, Zenon DEF Offered, p
<1> QED
  BY <1>1, <1>5, <1>6 DEF p

(* A line that is one of its own offers is the only one. *)
LEMMA OwnOffer ==
  ASSUME NEW s \in Text, s # <<>>, s \in Offered(s)
  PROVE  NoComma(s) /\ Trim(s) = s
<1>0. Len(s) \in Nat /\ Len(s) # 0
  BY EmptySeq DEF Text
<1>1. PICK c \in Cuts(s, Comma) : s = Trim(Piece(s, Comma, c))
  BY DEF Offered
<1> DEFINE p == Piece(s, Comma, c)
<1>2. PICK e \in c + 1..Len(s) + 1 :
           /\ c \in 0..Len(s) /\ (e <= Len(s) => s[e] = Comma)
           /\ \A j \in c + 1..e - 1 : s[j] # Comma
           /\ \A d \in Cuts(s, Comma) : c < d => e <= d
           /\ p = SubSeq(s, c + 1, e - 1)
           /\ p \in Text /\ Len(p) = e - 1 - c
           /\ \A k \in 1..e - 1 - c : p[k] = s[c + k]
  BY PieceIs
<1>3. s = Trim(p)
  BY <1>1
<1> HIDE DEF p
<1>4. PICK a \in 1..Len(p) : \E b \in a..Len(p) : Len(Trim(p)) = b - a + 1
  <2>1. p \in Text /\ Trim(p) # <<>>
    BY <1>2, <1>3
  <2> QED
    BY <2>1, TrimIs
<1>5. PICK b \in a..Len(p) : Len(s) = b - a + 1
  BY <1>3, <1>4
<1>6. c = 0 /\ e = Len(s) + 1
  BY <1>0, <1>2, <1>5
<1>7. NoComma(s)
  BY <1>0, <1>2, <1>6 DEF NoComma
<1>8. p = s
  BY <1>6, <1>7, OnePiece DEF p
<1> QED
  BY <1>3, <1>7, <1>8

(* A line without spaces at its ends is trimmed. *)
LEMMA TrimTrimmed ==
  ASSUME NEW s \in Text, s # <<>>, s[1] # Space, s[Len(s)] # Space
  PROVE  Trim(s) = s
<1>0. Len(s) \in Nat /\ Len(s) # 0
  BY EmptySeq DEF Text
<1> DEFINE t == Trim(s)
<1>1. t \in Text /\ (t = <<>> => \A j \in 1..Len(s) : s[j] = Space)
  BY TrimIs
<1>2. t # <<>>
  BY <1>0, <1>1
<1>3. PICK a \in 1..Len(s) : \E b \in a..Len(s) :
                /\ Len(t) = b - a + 1 /\ s[a] # Space /\ s[b] # Space
                /\ \A k \in 1..b - a + 1 : t[k] = s[k + a - 1]
                /\ \A j \in 1..Len(s) : j < a \/ b < j => s[j] = Space
  BY <1>2, TrimIs
<1> HIDE DEF t
<1>4. PICK b \in a..Len(s) :
                /\ Len(t) = b - a + 1
                /\ \A k \in 1..b - a + 1 : t[k] = s[k + a - 1]
                /\ \A j \in 1..Len(s) : j < a \/ b < j => s[j] = Space
  BY <1>3
<1>5. a = 1 /\ b = Len(s)
  <2>1. 1 \in 1..Len(s) /\ Len(s) \in 1..Len(s)
    BY <1>0
  <2>2. ~(1 < a) /\ ~(b < Len(s))
    BY <1>4, <2>1
  <2> QED
    BY <1>0, <2>2
<1>6. Len(t) = Len(s) /\ \A k \in 1..Len(s) : t[k] = s[k]
  BY <1>0, <1>4, <1>5
<1>7. t = s
  BY <1>1, <1>6, SeqEqual DEF Text
<1> QED
  BY <1>7 DEF t

(* What Trim leaves has no spaces at its ends, and the commas of the line. *)
LEMMA TrimKeeps ==
  ASSUME NEW s \in Text
  PROVE  Trim(Trim(s)) = Trim(s) /\ (NoComma(Trim(s)) <=> NoComma(s))
<1> DEFINE t == Trim(s)
<1>0. Len(s) \in Nat /\ t \in Text /\ Len(t) \in Nat
  BY TrimIs DEF Text
<1>1. t = <<>> => \A j \in 1..Len(s) : s[j] = Space
  BY TrimIs
<1>2. CASE t = <<>>
  <2>1. NoComma(s)
    BY <1>1, <1>2, Distinct DEF NoComma
  <2>2. NoComma(<<>>)
    BY DEF NoComma
  <2> QED
    BY <1>2, <2>1, <2>2, TrimEmpty
<1>3. CASE t # <<>>
  <2>3. PICK a \in 1..Len(s) : \E b \in a..Len(s) :
                /\ Len(t) = b - a + 1 /\ s[a] # Space /\ s[b] # Space
                /\ \A k \in 1..b - a + 1 : t[k] = s[k + a - 1]
                /\ \A j \in 1..Len(s) : j < a \/ b < j => s[j] = Space
    BY <1>3, TrimIs
  <2> HIDE DEF t
  <2>4. PICK b \in a..Len(s) :
                /\ Len(t) = b - a + 1 /\ s[a] # Space /\ s[b] # Space
                /\ \A k \in 1..b - a + 1 : t[k] = s[k + a - 1]
                /\ \A j \in 1..Len(s) : j < a \/ b < j => s[j] = Space
    BY <2>3
  <2>5. t[1] = s[a] /\ t[Len(t)] = s[b]
    <3>1. 1 \in 1..b - a + 1 /\ b - a + 1 \in 1..b - a + 1 /\ 1 + a - 1 = a /\ (b - a + 1) + a - 1 = b
      BY <1>0
    <3> QED
      BY <2>4, <3>1
  <2>6. Trim(t) = t
    BY <1>0, <1>3, <2>4, <2>5, TrimTrimmed
  <2>7. ASSUME NoComma(s) PROVE NoComma(t)
    <3>1. ASSUME NEW k \in 1..Len(t) PROVE t[k] # Comma
      <4>1. k + a - 1 \in 1..Len(s) /\ k \in 1..b - a + 1
        BY <1>0, <2>4
      <4> QED
        BY <2>4, <2>7, <4>1 DEF NoComma
    <3> QED
      BY <3>1 DEF NoComma
  <2>8. ASSUME NoComma(t) PROVE NoComma(s)
    <3>1. ASSUME NEW j \in 1..Len(s) PROVE s[j] # Comma
      <4>1. CASE j < a \/ b < j
        BY <2>4, <4>1, Distinct
      <4>2. CASE ~(j < a \/ b < j)
        <5>1. j - a + 1 \in 1..b - a + 1 /\ (j - a + 1) + a - 1 = j
          BY <1>0, <4>2
        <5>2. t[j - a + 1] = s[j] /\ j - a + 1 \in 1..Len(t)
          BY <2>4, <5>1
        <5> QED
          BY <2>8, <5>2 DEF NoComma
      <4> QED
        BY <4>1, <4>2
    <3> QED
      BY <3>1 DEF NoComma
  <2> QED
    BY <2>6, <2>7, <2>8 DEF t
<1> QED
  BY <1>2, <1>3

(* Which subprotocol the browser is told, given the line it is chosen from: *)
(* the whole line if that is one of its offers.                             *)
OwnOf(line) == IF Trim(line) # <<>> /\ line \in Offered(line) THEN line ELSE <<>>

(* It was offered, as the line was sent.                                    *)
LEMMA OwnIsOffered ==
  ASSUME NEW o \in Text, NEW line \in {o, Trim(o)}, OwnOf(line) # <<>>
  PROVE  OwnOf(line) = line /\ line \in Offered(o) /\ NoComma(o)
<1>1. line \in Text /\ Trim(line) # <<>> /\ line \in Offered(line) /\ OwnOf(line) = line /\ line # <<>>
  BY TrimIs DEF OwnOf
<1>2. NoComma(line) /\ Trim(line) = line
  BY <1>1, OwnOffer
<1>3. NoComma(o) /\ Trim(o) = line
  BY <1>2, TrimKeeps
<1> QED
  BY <1>1, <1>3, OnePiece

(* The target's choice among the offers of a line is what the browser is   *)
(* told, which is nothing only for several offers or a padded one.         *)
LEMMA ChoiceIsOwn ==
  ASSUME NEW o \in Text, NEW line, NEW s \in BOOLEAN, line = IF s THEN Trim(o) ELSE o,
         NEW p \in Offered(o), p # <<>>
  PROVE  \/ p = OwnOf(line)
         \/ OwnOf(line) = <<>> /\ (Comma \in Range(o) \/ (~s /\ Padded(line)))
<1>0. Len(o) \in Nat /\ DOMAIN o = 1..Len(o)
  BY DEF Text
<1>1. ~NoComma(o) => Comma \in Range(o)
  BY <1>0 DEF NoComma, Range
<1>2. CASE OwnOf(line) # <<>>
  <2>1. OwnOf(line) = line /\ line \in Offered(o) /\ NoComma(o)
    BY <1>2, OwnIsOffered
  <2> QED
    BY <2>1, OnePiece
<1>3. CASE OwnOf(line) = <<>> /\ NoComma(o)
  <2>1. p = Trim(o)
    BY <1>3, OnePiece
  <2>2. CASE s
    <3>1. line = p /\ line \in Text
      BY <2>1, <2>2, TrimIs
    <3>2. NoComma(line) /\ Trim(line) = line
      BY <1>3, <2>1, <3>1, TrimKeeps
    <3>3. OwnOf(line) = line
      BY <3>1, <3>2, OnePiece DEF OwnOf
    <3> QED
      BY <3>1, <3>3
  <2>3. CASE ~s
    <3>1. line = o /\ Trim(o) # <<>> /\ Offered(o) = {Trim(o)} /\ o # <<>>
      BY <1>3, <2>1, <2>3, OnePiece, TrimEmpty
    <3>2. Trim(o) # o
      BY <1>3, <3>1 DEF OwnOf
    <3>3. o[1] = Space \/ o[Len(o)] = Space
      BY <3>1, <3>2, TrimTrimmed
    <3>4. Padded(line)
      BY <3>1, <3>3 DEF Padded, Last
    <3> QED
      BY <1>3, <2>3, <3>4
  <2> QED
    BY <2>2, <2>3
<1> QED
  BY <1>1, <1>2, <1>3

-----------------------------------------------------------------------------
(* What the two agree on.                                                  *)

(* The offers as the server is to hear them, if they are understood. *)
Heard ==
  IF original.protocol = <<>> THEN <<>>
  ELSE IF secure THEN [l \in DOMAIN original.protocol |-> Trim(original.protocol[l])]
  ELSE <<Last(original.protocol)>>

(* What the browser offered and was told, up to the end of the dial. *)
HeardInv ==
  /\ original \in Request /\ target \in Target /\ DOMAIN request = DOMAIN original
  /\ pc = "read" => request = original /\ told = <<>>
  /\ pc # "read" /\ Understood => request.protocol = Heard
  /\ told # <<>> => Get(told[1].protocol) = OwnOf(Get(request.protocol))
  /\ pc \in {"headers", "dial"} \cup Dialling => told # <<>>
  /\ pc \in Dialling => request.extensions = <<>>

(* A response can be read, and agrees to no extension that a target on     *)
(* this package was not offered.                                           *)
Sane(r) ==
  WellLexed(r.extensions) /\ (target.mood = "upgrader" => r.extensions = <<>> \/ r.status # 101)

(* What the target was asked, has answered, and has been taken to agree to. *)
AnswerInv ==
  /\ sent # <<>> => sent[1].extensions = <<>>
  /\ pc \in Setup \cup {"write", "response"} => resp = <<>>
  /\ resp = <<>> /\ net # <<>> => Sane(net[1])
  /\ resp # <<>> => Sane(resp[1])
  /\ pc \in {"check", "slurp", "relay"} => resp # <<>>
  /\ pc = "relay" =>
       /\ ~BadHandshake /\ ~InvalidCompression
       /\ agreed = <<[protocol |-> Get(resp[1].protocol), compression |-> Deflating # {}]>>

(* The inductive invariant.                                                *)
NegInv == HeardInv /\ AnswerInv

-----------------------------------------------------------------------------
(* The server has one subprotocol, the line of the offers itself. *)
LEMMA SelectIs ==
  ASSUME NEW r, NEW c
  PROVE  selectSubprotocol([protocols |-> <<Get(r.protocol)>>, compression |-> c], r) = OwnOf(Get(r.protocol))
<1> DEFINE line == Get(r.protocol)
           u == [protocols |-> <<line>>, compression |-> c]
           common == {n \in DOMAIN u.protocols : u.protocols[n] \in Subprotocols(r)}
<1>1. DOMAIN u.protocols = {1} /\ u.protocols[1] = line
  OBVIOUS
<1>2. line \in Subprotocols(r) <=> Trim(line) # <<>> /\ line \in Offered(line)
  BY DEF Subprotocols, Offered
<1>3. selectSubprotocol(u, r) = IF common = {} THEN <<>> ELSE u.protocols[Min(common)]
  BY Zenon DEF selectSubprotocol
<1> HIDE DEF line, u
<1>4. common = {} \/ common = {1}
  BY <1>1
<1>5. Min({1}) = 1
  <2>1. {1} \subseteq Nat /\ {1} # {}
    OBVIOUS
  <2> QED
    BY <2>1, MinIs
<1>6. common = {1} <=> line \in Subprotocols(r)
  BY <1>1
<1>7. selectSubprotocol(u, r) = IF line \in Subprotocols(r) THEN line ELSE <<>>
  <2> HIDE DEF common
  <2>1. CASE common = {1}
    <3>1. common # {}
      BY <2>1
    <3> QED
      BY <1>1, <1>3, <1>5, <1>6, <2>1, <3>1
  <2>2. CASE common = {}
    <3>1. common # {1}
      BY <2>2
    <3> QED
      BY <1>3, <1>6, <2>2, <3>1
  <2> QED
    BY <1>4, <2>1, <2>2
<1> QED
  BY <1>2, <1>7 DEF OwnOf, line, u

(* What Accept tells the browser. *)
LEMMA ToldIs ==
  ASSUME Accept
  PROVE  told' # <<>> /\ Get(told'[1].protocol) = OwnOf(Get(request.protocol))
<1> DEFINE u == [protocols |-> <<Get(request.protocol)>>, compression |-> FALSE]
           p == selectSubprotocol(u, request)
           w == Switching(u, request)
<1>1. told' = <<w>>
  BY DEF Accept
<1>2. p = OwnOf(Get(request.protocol))
  BY SelectIs
<1>3. w.protocol = IF p = <<>> THEN <<>> ELSE <<p>>
  BY DEF Switching
<1> HIDE DEF u, p, w
<1>4. told' # <<>> /\ told'[1] = w
  BY <1>1
<1>5. Get(w.protocol) = p
  BY <1>3 DEF Get
<1> QED
  BY <1>2, <1>4, <1>5

(* It holds at first.                                                      *)
LEMMA NegStarts == HandshakeInit => NegInv
<1> SUFFICES ASSUME HandshakeInit PROVE NegInv
  OBVIOUS
<1>1. /\ original \in Request /\ target \in Target /\ request = original /\ pc = "read"
      /\ told = <<>> /\ sent = <<>> /\ net = <<>> /\ resp = <<>>
  BY DEF HandshakeInit
<1> QED
  BY <1>1 DEF NegInv, HeardInv, AnswerInv, Dialling

(* The browser's side. *)
LEMMA HeardDecided ==
  ASSUME HeardInv, Classify \/ Ignore \/ Refuse \/ Break \/ Accept
  PROVE  HeardInv'
<1>0. /\ original' = original /\ secure' = secure /\ target' = target /\ Heard' = Heard
      /\ Understood' = Understood
  BY DEF Classify, Ignore, Refuse, Break, Accept, scenario, Heard, Understood, Legible
<1>1. CASE Classify
  <2>1. pc = "read" /\ pc' \in {"upgrade", "http"} /\ told' = told /\ told = <<>>
    BY <1>1 DEF Classify, HeardInv
  <2>2. DOMAIN request' = DOMAIN original
    BY <1>1, Zenon DEF Classify
  <2>3. ASSUME Understood PROVE request'.protocol = Heard
    <3>1. "protocol" \in DOMAIN original /\ "protocol" \in Fields /\ original \in Request
      BY RequestType, FieldsAre DEF HeardInv
    <3>2. request'["protocol"] = IF original["protocol"] = <<>> THEN original["protocol"]
            ELSE IF secure THEN [l \in DOMAIN original["protocol"] |-> Trim(original["protocol"][l])]
            ELSE <<Last(original["protocol"])>>
      BY <1>1, <2>3, <3>1, ClassifyIs
    <3> QED
      BY <3>2, Zenon DEF Heard
  <2> QED
    BY <1>0, <2>1, <2>2, <2>3 DEF HeardInv, Dialling
<1>2. CASE Ignore \/ Refuse \/ Break
  <2>1. pc = "upgrade" /\ pc' \in {"ignored", "refused", "broken"} /\ UNCHANGED <<told, request>>
    BY <1>2 DEF Ignore, Refuse, Break
  <2> QED
    BY <1>0, <2>1 DEF HeardInv, Dialling
<1>3. CASE Accept
  <2>1. pc = "upgrade" /\ pc' = "headers" /\ request' = request
    BY <1>3 DEF Accept
  <2> QED
    BY <1>0, <1>3, <2>1, ToldIs DEF HeardInv, Dialling
<1> QED
  BY <1>1, <1>2, <1>3

(* The headers that are removed are not the offers; and nothing is dialled *)
(* before the extensions are gone.                                         *)
LEMMA HeardDialled ==
  ASSUME HeardInv, RemoveWsHeader \/ DialDuplicate \/ NetDial
  PROVE  HeardInv'
<1>0. /\ original' = original /\ secure' = secure /\ target' = target /\ Heard' = Heard
      /\ told' = told /\ Understood' = Understood
  BY DEF RemoveWsHeader, DialDuplicate, NetDial, OnlyDial, scenario, Heard, Understood, Legible
<1>1. CASE RemoveWsHeader
  <2>1. pc = "headers" /\ pc' = "dial"
    BY <1>1 DEF RemoveWsHeader
  <2>2. request' = [f \in DOMAIN request |->
       IF f \in Fields \ {"protocol"} /\ Get(request[f]) # <<>> THEN <<>> ELSE request[f]]
    BY <1>1 DEF RemoveWsHeader
  <2>3. "protocol" \in DOMAIN request
    BY RequestType, FieldsAre DEF HeardInv
  <2>4. request'.protocol = request.protocol /\ DOMAIN request' = DOMAIN request
    BY <2>2, <2>3
  <2> QED
    BY <1>0, <2>1, <2>4 DEF HeardInv, Dialling
<1>2. CASE DialDuplicate
  <2>1. pc = "dial" /\ pc' = "duplicate" /\ request' = request
    BY <1>2 DEF DialDuplicate, OnlyDial
  <2> QED
    BY <1>0, <2>1 DEF HeardInv, Dialling
<1>3. CASE NetDial
  <2>1. pc = "dial" /\ pc' \in {"write", "failed"} /\ request' = request /\ ~Duplicate
    BY <1>3 DEF NetDial, OnlyDial
  <2>2. request["extensions"] = <<>>
    BY <2>1, FieldsAre DEF Duplicate
  <2> QED
    BY <1>0, <2>1, <2>2 DEF HeardInv, Dialling
<1> QED
  BY <1>1, <1>2, <1>3

(* No step changes what the browser was told.                              *)
LEMMA HeardStays == HeardInv /\ [HandshakeNext]_handshakeVars => HeardInv'
<1> SUFFICES ASSUME HeardInv, [HandshakeNext]_handshakeVars PROVE HeardInv'
  OBVIOUS
<1>1. CASE Classify \/ Ignore \/ Refuse \/ Break \/ Accept
  BY <1>1, HeardDecided
<1>2. CASE RemoveWsHeader \/ DialDuplicate \/ NetDial
  BY <1>2, HeardDialled
<1>3. ASSUME UNCHANGED <<original, secure, target, request, told>>,
             pc' = pc \/ (pc \in Dialling /\ pc' \in Dialling \cup {"failed"})
      PROVE  HeardInv'
  <2>1. Heard' = Heard /\ Understood' = Understood
    BY <1>3 DEF Heard, Understood, Legible
  <2> QED
    BY <1>3, <2>1 DEF HeardInv, Dialling
<1>4. CASE Write \/ TargetAnswers \/ DialBroken
  BY <1>3, <1>4 DEF Write, TargetAnswers, DialBroken, Abandon, OnlyDial, scenario, Dialling
<1>5. CASE ReadResponse \/ CheckBad \/ Slurp \/ CheckCompression \/ Establish
  BY <1>3, <1>5 DEF ReadResponse, CheckBad, Slurp, CheckCompression, Establish, Abandon, OnlyDial,
                    scenario, Dialling
<1>6. CASE UNCHANGED handshakeVars
  BY <1>3, <1>6 DEF handshakeVars, scenario
<1> QED
  BY <1>1, <1>2, <1>4, <1>5, <1>6 DEF HandshakeNext

(* What HandshakeAssumption says of a target. *)
LEMMA TargetType ==
  ASSUME NEW t \in Target
  PROVE  WellLexed(t.resp.extensions) /\ "status" \in DOMAIN t.resp
BY HandshakeAssumption DEF WellLexed, Text

(* A target on this package that was offered no extension agrees to none.  *)
LEMMA AnswerIsSane ==
  ASSUME NegInv, TargetAnswers
  PROVE  net' # <<>> /\ Sane(net'[1])
<1> DEFINE w == Switching(target.u, sent[1])
           bad == [target.resp EXCEPT !.status = 400]
           r == IF target.mood = "foreign" THEN target.resp
                ELSE IF Refusal(sent[1]) # "none" THEN bad ELSE w
           more == [n \in 1..target.behind |-> n]
<1>0. target \in Target /\ target.behind \in Nat
  BY HandshakeAssumption DEF NegInv, HeardInv
<1>1. net' = <<r>> \o more
  BY Zenon DEF TargetAnswers
<1>2. sent[1].extensions = <<>>
  BY DEF TargetAnswers, NegInv, AnswerInv
<1>3. w.extensions = <<>>
  <2>1. parseExtensions(sent[1].extensions) = <<>>
    BY <1>2, NoExtensions, Zenon
  <2>2. ~Compress(target.u, sent[1])
    BY <2>1, RangeOne DEF Compress
  <2> QED
    BY <2>2 DEF Switching
<1>4. WellLexed(target.resp.extensions) /\ "status" \in DOMAIN target.resp
  BY <1>0, TargetType
<1>5. bad.status = 400 /\ bad.extensions = target.resp.extensions
  BY <1>4
<1>6. WellLexed(<<>>)
  BY DEF WellLexed
<1> HIDE DEF w, bad
<1>7. Sane(r)
  <2>1. 400 # 101
    OBVIOUS
  <2>2. target.mood = "foreign" => target.mood # "upgrader"
    OBVIOUS
  <2>3. CASE target.mood = "foreign"
    BY <1>4, <2>2, <2>3 DEF Sane
  <2>4. CASE target.mood # "foreign" /\ Refusal(sent[1]) # "none"
    <3>1. r = bad
      BY <2>4, Zenon
    <3>2. WellLexed(bad.extensions) /\ bad.status # 101
      BY <1>4, <1>5
    <3> QED
      BY <3>1, <3>2, Zenon DEF Sane
  <2>5. CASE target.mood # "foreign" /\ Refusal(sent[1]) = "none"
    <3>1. r = w
      BY <2>5, Zenon
    <3>2. WellLexed(w.extensions)
      BY <1>3, <1>6
    <3> QED
      BY <1>3, <3>1, <3>2, Zenon DEF Sane
  <2> QED
    BY <2>3, <2>4, <2>5
<1> HIDE DEF r
<1>8. net' # <<>> /\ net'[1] = r
  <2>1. <<r>> \in Seq({r} \cup Nat) /\ more \in Seq({r} \cup Nat)
    BY <1>0
  <2> HIDE DEF more
  <2> QED
    BY <1>1, <2>1
<1> QED
  BY <1>7, <1>8

(* The target's side. *)
LEMMA AnswerStays == NegInv /\ [HandshakeNext]_handshakeVars => AnswerInv'
<1> SUFFICES ASSUME NegInv, [HandshakeNext]_handshakeVars PROVE AnswerInv'
  OBVIOUS
<1>0. HeardInv /\ AnswerInv
  BY DEF NegInv
<1>1. ASSUME UNCHANGED <<target, sent, net, resp, agreed>>,
             \/ pc' = pc \/ pc' = "failed"
             \/ pc \in Setup /\ pc' \in Setup \cup {"write"}
             \/ pc = "check" /\ pc' = "slurp"
      PROVE  AnswerInv'
  <2>1. BadHandshake' = BadHandshake /\ Deflating' = Deflating /\ InvalidCompression' = InvalidCompression
    BY <1>1 DEF BadHandshake, Deflating, InvalidCompression
  <2>2. \A r : Sane(r)' <=> Sane(r)
    BY <1>1 DEF Sane
  <2> QED
    BY <1>0, <1>1, <2>1, <2>2 DEF AnswerInv, Setup
<1>2. CASE Classify \/ Ignore \/ Refuse \/ Break \/ Accept \/ RemoveWsHeader
  BY <1>1, <1>2 DEF Classify, Ignore, Refuse, Break, Accept, RemoveWsHeader, scenario, dialVars, Setup
<1>3. CASE DialDuplicate \/ NetDial \/ DialBroken
  BY <1>1, <1>3 DEF DialDuplicate, NetDial, DialBroken, Abandon, OnlyDial, scenario, dialVars, Setup
<1>4. CASE CheckBad \/ Slurp \/ CheckCompression
  BY <1>1, <1>4 DEF CheckBad, Slurp, CheckCompression, Abandon, OnlyDial, scenario, dialVars
<1>5. CASE UNCHANGED handshakeVars
  BY <1>1, <1>5 DEF handshakeVars, scenario, dialVars
<1>6. CASE Write
  <2>1. /\ pc = "write" /\ pc' = "response" /\ UNCHANGED <<target, net, resp, agreed>>
        /\ sent' = <<[request EXCEPT !.method = "GET", !.upgrade = <<<<"websocket">>>>,
                        !.connection = <<<<"Upgrade">>>>, !.version = <<<<"13">>>>,
                        !.key = <<<<"challenge">>>>]>>
    BY <1>6 DEF Write, OnlyDial, scenario
  <2>2. "extensions" \in DOMAIN request /\ request.extensions = <<>>
    BY <1>0, <2>1, RequestType, FieldsAre DEF HeardInv, Dialling
  <2>3. sent'[1].extensions = <<>>
    BY <2>1, <2>2
  <2>4. \A r : Sane(r)' <=> Sane(r)
    BY <2>1 DEF Sane
  <2>5. pc' = "response" /\ resp = <<>> /\ resp' = <<>> /\ net' = net
    BY <1>0, <2>1 DEF AnswerInv
  <2> QED
    BY <1>0, <2>3, <2>4, <2>5 DEF AnswerInv, Setup
<1>7. CASE TargetAnswers
  <2>1. UNCHANGED <<target, sent, resp, agreed, pc>>
    BY <1>7 DEF TargetAnswers, OnlyDial, scenario
  <2>2. net' # <<>> /\ Sane(net'[1])
    BY <1>7, AnswerIsSane
  <2>3. BadHandshake' = BadHandshake /\ Deflating' = Deflating /\ InvalidCompression' = InvalidCompression
    BY <2>1 DEF BadHandshake, Deflating, InvalidCompression
  <2>4. \A r : Sane(r)' <=> Sane(r)
    BY <2>1 DEF Sane
  <2> QED
    BY <1>0, <2>1, <2>2, <2>3, <2>4 DEF AnswerInv
<1>8. CASE ReadResponse
  <2>1. /\ pc = "response" /\ net # <<>> /\ resp' = <<net[1]>> /\ pc' = "check"
        /\ UNCHANGED <<target, sent>>
    BY <1>8 DEF ReadResponse, OnlyDial, scenario
  <2>2. resp = <<>> /\ Sane(net[1])
    BY <1>0, <2>1 DEF AnswerInv
  <2>3. resp' # <<>> /\ resp'[1] = net[1]
    BY <2>1
  <2>4. \A r : Sane(r)' <=> Sane(r)
    BY <2>1 DEF Sane
  <2> QED
    BY <1>0, <2>1, <2>2, <2>3, <2>4 DEF AnswerInv, Setup
<1>9. CASE Establish
  <2>1. /\ pc = "check" /\ pc' = "relay" /\ ~BadHandshake /\ ~InvalidCompression
        /\ UNCHANGED <<target, sent, net, resp>>
        /\ agreed' = <<[protocol |-> Get(resp[1].protocol), compression |-> Deflating # {}]>>
    BY <1>9 DEF Establish, OnlyDial, scenario
  <2>2. BadHandshake' = BadHandshake /\ Deflating' = Deflating /\ InvalidCompression' = InvalidCompression
    BY <2>1 DEF BadHandshake, Deflating, InvalidCompression
  <2>3. \A r : Sane(r)' <=> Sane(r)
    BY <2>1 DEF Sane
  <2>4. agreed' = <<[protocol |-> Get(resp'[1].protocol), compression |-> Deflating' # {}]>>
    BY <2>1, <2>2
  <2> QED
    BY <1>0, <2>1, <2>2, <2>3, <2>4 DEF AnswerInv, Setup
<1> QED
  BY <1>2, <1>3, <1>4, <1>5, <1>6, <1>7, <1>8, <1>9 DEF HandshakeNext

(* The parser agrees to compression where the grammar has it. *)
LEMMA CompressionAgrees ==
  ASSUME resp # <<>>, WellLexed(resp[1].extensions), ~InvalidCompression
  PROVE  Deflating # {} <=>
           \E e \in Extensions(resp[1].extensions) :
             e.name = "permessage-deflate" /\ NoTakeover \subseteq e.keys
<1> DEFINE p == parseExtensions(resp[1].extensions)
<1>1. p \in Seq(ElementSet) /\ Range(p) = Extensions(resp[1].extensions)
  BY ExtensionsParsed
<1>2. /\ Deflating = {n \in DOMAIN p : p[n].name = "permessage-deflate"}
      /\ Deflating # {} => NoTakeover \subseteq p[Min(Deflating)].keys
  BY Zenon DEF Deflating, InvalidCompression
<1> HIDE DEF p
<1>3. ASSUME Deflating # {}
      PROVE  \E e \in Range(p) : e.name = "permessage-deflate" /\ NoTakeover \subseteq e.keys
  <2>1. Deflating \subseteq Nat
    BY <1>1, <1>2
  <2>2. Min(Deflating) \in Deflating
    BY <1>3, <2>1, MinIs
  <2>3. /\ Min(Deflating) \in DOMAIN p /\ p[Min(Deflating)].name = "permessage-deflate"
        /\ NoTakeover \subseteq p[Min(Deflating)].keys
    BY <1>2, <1>3, <2>2
  <2> QED
    BY <2>3 DEF Range
<1>4. ASSUME NEW e \in Range(p), e.name = "permessage-deflate" PROVE Deflating # {}
  BY <1>2, <1>4 DEF Range
<1> QED
  BY <1>1, <1>3, <1>4

(* The browser and the target have agreed as the grammar says. *)
LEMMA NegImplies == NegInv => NegotiationAgrees
<1> SUFFICES ASSUME NegInv, pc = "relay" PROVE NegotiationAgrees
  BY DEF NegotiationAgrees
<1> DEFINE own == Get(told[1].protocol)
           peer == agreed[1]
           line == Get(request.protocol)
           offers == original.protocol
           r == resp[1]
<1>1. /\ original \in Request /\ (Understood => request.protocol = Heard) /\ own = OwnOf(line)
  BY DEF NegInv, HeardInv, Dialling
<1>2. /\ resp # <<>> /\ Sane(r) /\ ~BadHandshake /\ ~InvalidCompression
      /\ agreed = <<[protocol |-> Get(r.protocol), compression |-> Deflating # {}]>>
  BY DEF NegInv, AnswerInv
<1>3. peer.compression <=> Deflating # {}
  <2>1. \A x : <<x>>[1] = x
    OBVIOUS
  <2>2. peer = [protocol |-> Get(r.protocol), compression |-> Deflating # {}]
    BY <1>2, <2>1, Zenon
  <2> HIDE DEF peer
  <2> QED
    BY <2>2
<1> HIDE DEF own, peer
<1>4. peer.compression <=>
        \E e \in Extensions(resp[1].extensions) : e.name = "permessage-deflate" /\ NoTakeover \subseteq e.keys
  BY <1>2, <1>3, CompressionAgrees DEF Sane
<1>5. target.mood = "upgrader" => ~peer.compression
  <2> SUFFICES ASSUME target.mood = "upgrader" PROVE Deflating = {}
    BY <1>3
  <2>1. r.extensions = <<>>
    BY <1>2 DEF Sane, BadHandshake
  <2>2. DOMAIN parseExtensions(r.extensions) = {}
    BY <2>1, NoExtensions
  <2> QED
    BY <2>2 DEF Deflating
<1>6. offers \in Seq(Text)
  BY <1>1, RequestType, FieldsAre
<1> HIDE DEF offers
<1>7. Heard = IF offers = <<>> THEN <<>> ELSE IF secure THEN [l \in DOMAIN offers |-> Trim(offers[l])]
                                         ELSE <<Last(offers)>>
  BY Zenon DEF Heard, offers
<1>8. ASSUME Understood, offers # <<>>
      PROVE  \E l \in DOMAIN offers : line \in {offers[l], Trim(offers[l])}
                                      /\ (secure => l = 1 /\ line = Trim(offers[l])) /\ (~secure => l = Len(offers) /\ line = offers[l])
  <2>1. Len(offers) \in Nat \ {0} /\ DOMAIN offers = 1..Len(offers)
    BY <1>6, <1>8, EmptySeq
  <2>2. CASE secure
    <3>1. request.protocol = [l \in DOMAIN offers |-> Trim(offers[l])]
      BY <1>1, <1>7, <1>8, <2>2
    <3>2. 1 \in DOMAIN offers
      BY <2>1
    <3>3. request.protocol # <<>> /\ request.protocol[1] = Trim(offers[1])
      BY <3>1, <3>2
    <3> QED
      BY <2>2, <3>2, <3>3 DEF Get
  <2>3. CASE ~secure
    <3>1. request.protocol = <<Last(offers)>>
      BY <1>1, <1>7, <1>8, <2>3
    <3>2. line = Last(offers)
      BY <3>1 DEF Get
    <3> QED
      BY <2>1, <2>3, <3>2 DEF Last
  <2> QED
    BY <2>2, <2>3
<1>9. ASSUME Understood, offers = <<>> PROVE line = <<>>
  BY <1>1, <1>7, <1>9 DEF Get
<1> HIDE DEF line
<1>10. Offers(original) = UNION {Offered(offers[l]) : l \in DOMAIN offers}
  BY Zenon DEF Offers, offers
<1>11. ASSUME Understood, own # <<>> PROVE own \in Offers(original)
  <2>1. offers # <<>>
    <3>1. OwnOf(<<>>) = <<>>
      BY DEF OwnOf
    <3> QED
      BY <1>1, <1>9, <1>11, <3>1
  <2>2. PICK l \in DOMAIN offers : line \in {offers[l], Trim(offers[l])}
    BY <1>8, <1>11, <2>1
  <2>3. offers[l] \in Text
    BY <1>6
  <2>4. OwnOf(line) = line /\ line \in Offered(offers[l])
    BY <1>1, <1>11, <2>2, <2>3, OwnIsOffered
  <2> QED
    BY <1>1, <1>10, <2>4
<1>12. ASSUME Understood, peer.protocol \in Offers(original) \ {<<>>}
       PROVE  \/ peer.protocol = own \/ Len(offers) > 1
              \/ own = <<>> /\ (Comma \in Range(Get(offers)) \/ (~secure /\ Padded(line)))
  <2>1. PICK k \in DOMAIN offers : peer.protocol \in Offered(offers[k])
    BY <1>10, <1>12
  <2>2. Len(offers) \in Nat \ {0} /\ DOMAIN offers = 1..Len(offers) /\ offers # <<>>
    BY <1>6, <2>1
  <2> SUFFICES ASSUME ~(Len(offers) > 1)
               PROVE  \/ peer.protocol = own
                      \/ own = <<>> /\ (Comma \in Range(Get(offers)) \/ (~secure /\ Padded(line)))
    OBVIOUS
  <2>3. \A l \in DOMAIN offers : l = 1
    BY <2>2
  <2>4. k = 1 /\ Get(offers) = offers[1] /\ offers[1] \in Text
    BY <1>6, <2>1, <2>2, <2>3 DEF Get
  <2>5. line = IF secure THEN Trim(offers[1]) ELSE offers[1]
    BY <1>8, <1>12, <2>2, <2>3
  <2> DEFINE s == secure = TRUE
  <2>6. line = IF s THEN Trim(offers[1]) ELSE offers[1]
    BY <2>5
  <2> QED
    BY <1>1, <1>12, <2>1, <2>4, <2>6, ChoiceIsOwn
<1> QED
  BY <1>4, <1>5, <1>11, <1>12, Zenon DEF NegotiationAgrees, own, peer, line, offers

(* Whenever the session begins, the browser was told no subprotocol that   *)
(* it did not offer, and the target has the same one if it chose among the *)
(* offers, unless there were several lines of them, or the browser was     *)
(* told none since its line had several or, in the clear, was padded.  The *)
(* proxy compresses towards the target exactly where the grammar has that  *)
(* in the answer, and never with a target on this package.                 *)
THEOREM NegotiationAgreesHolds == HandshakeSpec => []NegotiationAgrees
<1>1. NegInv /\ [HandshakeNext]_handshakeVars => NegInv'
  BY HeardStays, AnswerStays DEF NegInv
<1> QED
  BY <1>1, NegStarts, NegImplies, PTL DEF HandshakeSpec
=============================================================================
