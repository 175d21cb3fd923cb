---------------------------- MODULE WsReaderProofs ----------------------------
(***************************************************************************)
(* What the reading side of a connection guarantees for every stream of    *)
(* frames, wherever it is cut, every limit and size of integers, keys and  *)
(* words, and every way an application reads.                              *)
(***************************************************************************)
EXTENDS WsReader, SequenceTheorems, WellFoundedInduction, TLAPS

-----------------------------------------------------------------------------
(* Sequences, and induction over the natural numbers. *)

IsPlaces(off, ss) ==
  /\ off \in [1..Len(ss) + 1 -> Nat]
  /\ off[1] = 0
  /\ \A i \in 1..Len(ss) : off[i + 1] = off[i] + Len(ss[i])

Places(ss) == CHOOSE off : IsPlaces(off, ss)

-----------------------------------------------------------------------------
(* Induction *)

(* A set of naturals that is not empty has a least member. *)
LEMMA LeastNatural ==
  ASSUME NEW T, T \subseteq Nat, T # {}
  PROVE  \E n \in T : \A m \in T : n <= m
<1> DEFINE R == OpToRel(<, Nat)
<1>1. PICK n \in T : \A m \in T : ~(<<m, n>> \in R)
  BY NatLessThanWellFounded, WFMin
<1>2. \A m \in T : <<m, n>> \in R <=> m < n
  BY <1>1 DEF OpToRel
<1> HIDE DEF R
<1>3. n \in Nat /\ \A m \in T : m \in Nat /\ ~(m < n)
  BY <1>1, <1>2
<1>4. \A m \in T : n <= m
  BY <1>3
<1> QED
  BY <1>1, <1>4

(* A set of naturals with 0 and, with a number, the next one is all of them. *)
LEMMA Induction ==
  ASSUME NEW T, T \subseteq Nat, 0 \in T, \A n \in T : n + 1 \in T
  PROVE  T = Nat
<1> SUFFICES ASSUME Nat \ T # {} PROVE FALSE
  OBVIOUS
<1>1. PICK n \in Nat \ T : \A m \in Nat \ T : n <= m
  BY LeastNatural
<1>2. n - 1 \in Nat /\ n - 1 \notin Nat \ T
  BY <1>1
<1> QED
  BY <1>1, <1>2

-----------------------------------------------------------------------------
(* FlattenSeq *)

(* A sequence of sequences has members and lengths. *)
LEMMA MemberType ==
  ASSUME NEW T, NEW ss \in Seq(Seq(T))
  PROVE  Len(ss) \in Nat /\ \A i \in 1..Len(ss) : ss[i] \in Seq(T) /\ Len(ss[i]) \in Nat
<1>1. Len(ss) \in Nat /\ \A i \in 1..Len(ss) : ss[i] \in Seq(T)
  OBVIOUS
<1>2. \A i \in 1..Len(ss) : Len(ss[i]) \in Nat
  BY <1>1
<1> QED
  BY <1>1, <1>2

(* The places are natural numbers, and grow by the lengths. *)
LEMMA PlacesType ==
  ASSUME NEW T, NEW ss \in Seq(Seq(T)), NEW off, IsPlaces(off, ss)
  PROVE  /\ \A i \in 1..Len(ss) + 1 : off[i] \in Nat
         /\ off[1] = 0
         /\ \A i \in 1..Len(ss) : off[i + 1] = off[i] + Len(ss[i])
BY DEF IsPlaces

(* Every sequence of sequences has them. *)
LEMMA PlacesExist ==
  ASSUME NEW T, NEW ss \in Seq(Seq(T))
  PROVE  IsPlaces(Places(ss), ss)
<1> DEFINE Good(k) == \E off \in [1..k + 1 -> Nat] :
                        off[1] = 0 /\ \A i \in 1..k : off[i + 1] = off[i] + Len(ss[i])
           Upto == {k \in Nat : k <= Len(ss) => Good(k)}
<1>1. 0 \in Upto
  <2> DEFINE off == [i \in 1..0 + 1 |-> 0]
  <2>1. off \in [1..0 + 1 -> Nat] /\ off[1] = 0 /\ \A i \in 1..0 : off[i + 1] = off[i] + Len(ss[i])
    OBVIOUS
  <2> QED
    BY <2>1
<1>2. ASSUME NEW k \in Upto PROVE k + 1 \in Upto
  <2>a. Len(ss) \in Nat /\ k \in Nat
    BY MemberType
  <2> HIDE DEF Good
  <2> SUFFICES ASSUME k + 1 <= Len(ss) PROVE Good(k + 1)
    BY <2>a
  <2>b. Good(k)
    BY <2>a
  <2> USE DEF Good
  <2>1. PICK off \in [1..k + 1 -> Nat] :
          off[1] = 0 /\ \A i \in 1..k : off[i + 1] = off[i] + Len(ss[i])
    BY <2>b
  <2> DEFINE new == [i \in 1..(k + 1) + 1 |-> IF i <= k + 1 THEN off[i] ELSE off[k + 1] + Len(ss[k + 1])]
  <2>2. k + 1 \in 1..Len(ss) /\ Len(ss[k + 1]) \in Nat /\ off[k + 1] \in Nat
    BY <2>a, MemberType
  <2>3. new \in [1..(k + 1) + 1 -> Nat] /\ new[1] = 0
    BY <2>1, <2>2
  <2>4. ASSUME NEW i \in 1..k + 1 PROVE new[i + 1] = new[i] + Len(ss[i])
    <3>1. CASE i = k + 1
      BY <3>1
    <3>2. CASE i # k + 1
      <4>1. i \in 1..k /\ i + 1 <= k + 1
        BY <3>2
      <4> QED
        BY <2>1, <4>1
    <3> QED
      BY <3>1, <3>2
  <2> HIDE DEF new
  <2> QED
    BY <2>3, <2>4
<1> HIDE DEF Good
<1>3. Upto = Nat
  <2> HIDE DEF Upto
  <2> QED
    BY <1>1, <1>2, Induction DEF Upto
<1>4. Good(Len(ss))
  BY <1>3
<1> QED
  BY <1>4 DEF Places, IsPlaces, Good

(* A recursive function over 1..n is what its equation says. *)
LEMMA FlattenExists ==
  ASSUME NEW ss, NEW n \in Nat, n > 0
  PROVE  \E f : f = [i \in 1..n |-> IF i = 1 THEN ss[i] ELSE f[i - 1] \o ss[i]]
<1> DEFINE Good(k) == \E f : f = [i \in 1..k |-> IF i = 1 THEN ss[i] ELSE f[i - 1] \o ss[i]]
           Upto == {k \in Nat : Good(k)}
<1>1. 0 \in Upto
  <2> DEFINE f == [i \in 1..0 |-> 0]
  <2>1. f = [i \in 1..0 |-> IF i = 1 THEN ss[i] ELSE f[i - 1] \o ss[i]]
    OBVIOUS
  <2> QED
    BY <2>1
<1>2. ASSUME NEW k \in Upto PROVE k + 1 \in Upto
  <2>1. PICK f : f = [i \in 1..k |-> IF i = 1 THEN ss[i] ELSE f[i - 1] \o ss[i]]
    OBVIOUS
  <2> DEFINE g == [i \in 1..(k + 1) |-> IF i = 1 /\ k = 0 THEN ss[1]
                                        ELSE IF i = k + 1 THEN f[k] \o ss[k + 1] ELSE f[i]]
  <2>2. ASSUME NEW i \in 1..(k + 1)
        PROVE  g[i] = IF i = 1 THEN ss[i] ELSE g[i - 1] \o ss[i]
    <3>1. CASE i = k + 1 /\ k # 0
      <4>1. i - 1 = k /\ i - 1 \in 1..(k + 1) /\ i - 1 # k + 1 /\ i # 1
        BY <3>1
      <4>2. g[i - 1] = f[k]
        BY <3>1, <4>1
      <4> QED
        BY <3>1, <4>1, <4>2
    <3>2. CASE i # k + 1
      <4>1. i \in 1..k /\ k # 0
        BY <3>2
      <4>2. g[i] = f[i] /\ (i # 1 => i - 1 \in 1..k /\ g[i - 1] = f[i - 1])
        BY <3>2, <4>1
      <4>3. f[i] = IF i = 1 THEN ss[i] ELSE f[i - 1] \o ss[i]
        BY <2>1, <4>1
      <4> QED
        BY <4>2, <4>3
    <3>3. CASE k = 0
      BY <3>3
    <3> QED
      BY <3>1, <3>2, <3>3
  <2>3. g = [i \in 1..(k + 1) |-> IF i = 1 THEN ss[i] ELSE g[i - 1] \o ss[i]]
    <3> HIDE DEF g
    <3>1. g = [i \in 1..(k + 1) |-> g[i]]
      BY DEF g
    <3> QED
      BY <2>2, <3>1
  <2> HIDE DEF g
  <2>4. Good(k + 1)
    BY <2>3
  <2> HIDE DEF Good
  <2> QED
    BY <2>4
<1> HIDE DEF Good
<1>3. Upto = Nat
  <2> HIDE DEF Upto
  <2> QED
    BY <1>1, <1>2, Induction DEF Upto
<1>4. Good(n)
  BY <1>3
<1> QED
  BY <1>4 DEF Good

(* FlattenSeq is what its recursive function says. *)
LEMMA FlattenEquation ==
  ASSUME NEW T, NEW ss \in Seq(Seq(T)), ss # <<>>
  PROVE  \E f : /\ f = [i \in 1..Len(ss) |-> IF i = 1 THEN ss[i] ELSE f[i - 1] \o ss[i]]
                /\ FlattenSeq(ss) = f[Len(ss)]
<1>0. Len(ss) \in Nat /\ Len(ss) > 0
  OBVIOUS
<1> DEFINE F == CHOOSE f : f = [i \in 1..Len(ss) |-> IF i = 1 THEN ss[i] ELSE f[i - 1] \o ss[i]]
<1>1. F = [i \in 1..Len(ss) |-> IF i = 1 THEN ss[i] ELSE F[i - 1] \o ss[i]]
  BY <1>0, FlattenExists
<1>2. FlattenSeq(ss) = F[Len(ss)]
  <2>1. Len(ss) # 0
    BY <1>0
  <2> QED
    BY <2>1, Zenon DEF FlattenSeq
<1> QED
  BY <1>1, <1>2

(* The places never go back, and stay over empty members. *)
LEMMA PlacesMonotone ==
  ASSUME NEW T, NEW ss \in Seq(Seq(T)), NEW off, IsPlaces(off, ss),
         NEW i \in 1..Len(ss) + 1, NEW j \in i..Len(ss) + 1
  PROVE  /\ off[i] <= off[j]
         /\ (\A k \in i..j - 1 : ss[k] = <<>>) => off[i] = off[j]
<1> DEFINE Good(b) == /\ off[i] <= off[i + b]
                      /\ (\A k \in i..i + b - 1 : ss[k] = <<>>) => off[i] = off[i + b]
           Upto == {b \in Nat : i + b <= Len(ss) + 1 => Good(b)}
<1>0. Len(ss) \in Nat /\ i \in Nat /\ j \in Nat /\ i <= j /\ j <= Len(ss) + 1 /\ 1 <= i
  BY MemberType
<1>a. \A n \in 1..Len(ss) + 1 : off[n] \in Nat
  BY PlacesType
<1>b. \A n \in 1..Len(ss) :
        off[n + 1] = off[n] + Len(ss[n]) /\ Len(ss[n]) \in Nat /\ (ss[n] = <<>> => Len(ss[n]) = 0)
  BY PlacesType, MemberType
<1>1. 0 \in Upto
  BY <1>0, <1>a
<1>2. ASSUME NEW b \in Upto PROVE b + 1 \in Upto
  <2>a. b \in Nat
    OBVIOUS
  <2> SUFFICES ASSUME i + (b + 1) <= Len(ss) + 1 PROVE Good(b + 1)
    BY <2>a
  <2>1. i + b \in 1..Len(ss) /\ i + (b + 1) = (i + b) + 1 /\ i + b <= Len(ss) + 1
    BY <1>0, <2>a
  <2>b. Good(b)
    BY <2>1
  <2> HIDE DEF Upto
  <2>2. off[i + (b + 1)] = off[i + b] + Len(ss[i + b])
    BY <1>b, <2>1
  <2>3. off[i + b] \in Nat /\ off[i] \in Nat /\ Len(ss[i + b]) \in Nat
    BY <1>0, <1>a, <1>b, <2>1
  <2>4. off[i] <= off[i + (b + 1)]
    BY <2>b, <2>2, <2>3
  <2>5. ASSUME \A k \in i..i + (b + 1) - 1 : ss[k] = <<>> PROVE off[i] = off[i + (b + 1)]
    <3>1. \A k \in i..i + b - 1 : k \in i..i + (b + 1) - 1
      BY <1>0, <2>a
    <3>2. i + b \in i..i + (b + 1) - 1
      BY <1>0, <2>a
    <3>3. off[i] = off[i + b]
      BY <2>5, <2>b, <3>1
    <3>4. Len(ss[i + b]) = 0
      BY <1>b, <2>1, <2>5, <3>2
    <3> QED
      BY <2>2, <2>3, <3>3, <3>4
  <2> QED
    BY <2>4, <2>5
<1> HIDE DEF Good
<1>3. Upto = Nat
  <2> HIDE DEF Upto
  <2> QED
    BY <1>1, <1>2, Induction DEF Upto
<1>4. j - i \in Nat /\ i + (j - i) = j
  BY <1>0
<1>5. Good(j - i)
  BY <1>0, <1>3, <1>4
<1>6. i + (j - i) - 1 = j - 1
  BY <1>0
<1> QED
  BY <1>4, <1>5, <1>6 DEF Good

(* Length and members of a concatenation. *)
LEMMA Concat ==
  ASSUME NEW T, NEW s \in Seq(T), NEW t \in Seq(T)
  PROVE  /\ s \o t \in Seq(T) /\ Len(s \o t) = Len(s) + Len(t) /\ Len(s) \in Nat /\ Len(t) \in Nat
         /\ \A i \in 1..Len(s) : (s \o t)[i] = s[i]
         /\ \A i \in 1..Len(t) : (s \o t)[Len(s) + i] = t[i]
OBVIOUS

(* A flattened sequence has its members one behind the other. *)
LEMMA FlattenProperties ==
  ASSUME NEW T, NEW ss \in Seq(Seq(T)), NEW off, IsPlaces(off, ss)
  PROVE  /\ FlattenSeq(ss) \in Seq(T)
         /\ Len(FlattenSeq(ss)) = off[Len(ss) + 1]
         /\ \A i \in 1..Len(ss) : \A j \in 1..Len(ss[i]) : FlattenSeq(ss)[off[i] + j] = ss[i][j]
<1>0. Len(ss) \in Nat /\ \A i \in 1..Len(ss) : ss[i] \in Seq(T) /\ Len(ss[i]) \in Nat
  BY MemberType
<1>a. /\ \A i \in 1..Len(ss) + 1 : off[i] \in Nat
      /\ off[1] = 0
      /\ \A i \in 1..Len(ss) : off[i + 1] = off[i] + Len(ss[i])
  BY PlacesType
<1>1. CASE ss = <<>>
  <2>1. FlattenSeq(ss) = <<>>
    <3>1. Len(ss) = 0
      BY <1>1
    <3> QED
      BY <1>1, <3>1, Zenon DEF FlattenSeq
  <2>2. Len(ss) = 0 /\ off[Len(ss) + 1] = 0
    BY <1>1, <1>a
  <2>3. \A i \in 1..Len(ss) : FALSE
    BY <2>2
  <2> QED
    BY <2>1, <2>2, <2>3
<1>2. CASE ss # <<>>
  <2>1. PICK f : /\ f = [i \in 1..Len(ss) |-> IF i = 1 THEN ss[i] ELSE f[i - 1] \o ss[i]]
                 /\ FlattenSeq(ss) = f[Len(ss)]
    BY <1>2, FlattenEquation
  <2> DEFINE Good(k) == /\ f[k] \in Seq(T)
                        /\ Len(f[k]) = off[k + 1]
                        /\ \A i \in 1..k : \A j \in 1..Len(ss[i]) : f[k][off[i] + j] = ss[i][j]
             Upto == {k \in Nat : k \in 1..Len(ss) => Good(k)}
  <2>2. 0 \in Upto
    OBVIOUS
  <2>3. ASSUME NEW k \in Upto PROVE k + 1 \in Upto
    <3>k. k \in Nat
      OBVIOUS
    <3> SUFFICES ASSUME k + 1 \in 1..Len(ss) PROVE Good(k + 1)
      BY <3>k, SMTT(30)
    <3>a. ss[k + 1] \in Seq(T) /\ Len(ss[k + 1]) \in Nat /\ off[k + 1] \in Nat
          /\ off[(k + 1) + 1] = off[k + 1] + Len(ss[k + 1])
      BY <1>0, <1>a, <3>k
    <3>1. CASE k = 0
      <4>1. f[1] = ss[1]
        BY <2>1, <3>1
      <4>2. off[1] = 0 /\ off[2] = Len(ss[1]) /\ ss[1] \in Seq(T)
        BY <3>1, <3>a, <1>a
      <4>3. ASSUME NEW j \in 1..Len(ss[1]) PROVE f[1][off[1] + j] = ss[1][j]
        BY <4>1, <4>2
      <4>4. Good(1)
        BY <4>1, <4>2, <4>3
      <4> QED
        BY <3>1, <4>4
    <3>2. CASE k # 0
      <4>0. k \in 1..Len(ss)
        BY <1>0, <3>2, <3>k
      <4>1. Good(k)
        BY <4>0
      <4> HIDE DEF Upto
      <4>a. f[k] \in Seq(T) /\ Len(f[k]) = off[k + 1]
        BY <4>1
      <4>b. \A i \in 1..k : \A j \in 1..Len(ss[i]) : f[k][off[i] + j] = ss[i][j]
        BY <4>1
      <4>c. k + 1 # 1 /\ (k + 1) - 1 = k
        BY <3>2, <3>k
      <4> HIDE DEF Good
      <4>2. f[k + 1] = f[k] \o ss[k + 1]
        BY <2>1, <4>c
      <4>d. /\ f[k] \o ss[k + 1] \in Seq(T)
            /\ Len(f[k] \o ss[k + 1]) = Len(f[k]) + Len(ss[k + 1])
            /\ \A i \in 1..Len(f[k]) : (f[k] \o ss[k + 1])[i] = f[k][i]
            /\ \A i \in 1..Len(ss[k + 1]) : (f[k] \o ss[k + 1])[Len(f[k]) + i] = ss[k + 1][i]
        <5> DEFINE u == f[k]
                   v == ss[k + 1]
        <5>1. u \in Seq(T) /\ v \in Seq(T)
          BY <3>a, <4>a
        <5> HIDE DEF u, v
        <5>2. /\ u \o v \in Seq(T) /\ Len(u \o v) = Len(u) + Len(v)
              /\ \A i \in 1..Len(u) : (u \o v)[i] = u[i]
              /\ \A i \in 1..Len(v) : (u \o v)[Len(u) + i] = v[i]
          BY <5>1, Concat
        <5> QED
          BY <5>2 DEF u, v
      <4>4. f[k + 1] \in Seq(T) /\ Len(f[k + 1]) = off[(k + 1) + 1]
        BY <3>a, <4>a, <4>2, <4>d
      <4>5. ASSUME NEW i \in 1..k + 1, NEW j \in 1..Len(ss[i])
            PROVE  f[k + 1][off[i] + j] = ss[i][j]
        <5>1. CASE i = k + 1
          <6>1. off[i] + j = Len(f[k]) + j /\ j \in 1..Len(ss[k + 1])
            BY <4>a, <5>1
          <6> QED
            BY <4>2, <4>d, <5>1, <6>1
        <5>2. CASE i # k + 1
          <6>0. i \in 1..k /\ i \in 1..Len(ss) /\ i + 1 \in 1..Len(ss) + 1 /\ k + 1 \in i + 1..Len(ss) + 1
            BY <1>0, <3>k, <4>0, <5>2
          <6>1. off[i + 1] <= off[k + 1]
            BY <6>0, PlacesMonotone
          <6>2. off[i] + Len(ss[i]) <= off[k + 1] /\ Len(ss[i]) \in Nat /\ off[i] \in Nat
            BY <1>0, <1>a, <6>0, <6>1
          <6>5. off[i] + j \in 1..Len(f[k])
            <7>1. j \in Nat /\ 1 <= j /\ j <= Len(ss[i])
              BY <6>2
            <7>2. off[i] + j \in Nat /\ 1 <= off[i] + j /\ off[i] + j <= off[k + 1]
              BY <3>a, <6>2, <7>1, SMTT(30)
            <7> QED
              BY <4>a, <7>2, <3>a
          <6>6. f[k][off[i] + j] = ss[i][j]
            BY <4>b, <6>0
          <6> QED
            BY <4>2, <4>d, <6>5, <6>6
        <5> QED
          BY <5>1, <5>2
      <4> QED
        BY <4>4, <4>5 DEF Good
    <3> QED
      BY <3>1, <3>2
  <2> HIDE DEF Good
  <2>4. Upto = Nat
    <3> HIDE DEF Upto
    <3> QED
      BY <2>2, <2>3, Induction DEF Upto
  <2>5. Good(Len(ss))
    <3>1. Len(ss) \in Nat /\ Len(ss) \in 1..Len(ss)
      BY <1>0, <1>2
    <3> QED
      BY <2>4, <3>1
  <2> QED
    BY <2>1, <2>5 DEF Good
<1> QED
  BY <1>1, <1>2

-----------------------------------------------------------------------------
(* The units of a stream. *)

Unit == [of : Nat, part : {"head", "length", "key", "byte"}, n : Nat]
UnitLists == [i \in DOMAIN frames |-> UnitsOf(frames[i], i)]
UnitPlaces == Places(UnitLists)

(* A frame's units: its head, Header(f) - 1 more, and its bytes. *)
LEMMA UnitsOfFrame ==
  ASSUME NEW f \in Frame, NEW i \in Nat
  PROVE  /\ UnitsOf(f, i) \in Seq(Unit)
         /\ Header(f) \in Nat /\ Header(f) >= 1 /\ f.have \in Nat /\ f.len \in Nat
         /\ Len(UnitsOf(f, i)) = Header(f) + f.have
         /\ UnitsOf(f, i)[1] = [of |-> i, part |-> "head", n |-> 0]
         /\ \A k \in 1..f.have :
              UnitsOf(f, i)[Header(f) + k] = [of |-> i, part |-> "byte", n |-> k - 1]
<1> DEFINE unit(part, n) == [of |-> i, part |-> part, n |-> n]
           a == <<unit("head", 0)>>
           b == IF f.form = "short" THEN <<>> ELSE <<unit("length", 0)>>
           c == IF f.masked THEN <<unit("key", 0)>> ELSE <<>>
           d == [n \in 1..f.have |-> unit("byte", n - 1)]
<1>1. UnitsOf(f, i) = ((a \o b) \o c) \o d
  BY DEF UnitsOf
<1>2. f.have \in Nat /\ f.len \in Nat
  BY ReaderAssumption DEF Frame
<1>3. \A p \in {"head", "length", "key", "byte"} : \A n \in Nat : unit(p, n) \in Unit
  BY DEF Unit
<1>4. a \in Seq(Unit) /\ Len(a) = 1 /\ a[1] = unit("head", 0)
  BY <1>3
<1>5. b \in Seq(Unit) /\ Len(b) = IF f.form = "short" THEN 0 ELSE 1
  BY <1>3
<1>6. c \in Seq(Unit) /\ Len(c) = IF f.masked THEN 1 ELSE 0
  BY <1>3
<1>7. d \in Seq(Unit) /\ Len(d) = f.have /\ \A k \in 1..f.have : d[k] = unit("byte", k - 1)
  BY <1>2, <1>3
<1> HIDE DEF a, b, c, d
<1>8. a \o b \in Seq(Unit) /\ Len(a \o b) = Len(a) + Len(b) /\ (a \o b)[1] = a[1]
  <2>1. Len(a) \in Nat /\ 1 \in 1..Len(a)
    BY <1>4
  <2>2. a \in Seq(Unit) /\ b \in Seq(Unit)
    BY <1>4, <1>5
  <2>3. /\ a \o b \in Seq(Unit) /\ Len(a \o b) = Len(a) + Len(b)
        /\ \A k \in 1..Len(a) : (a \o b)[k] = a[k]
    BY <2>2, Concat
  <2> QED
    BY <2>1, <2>3
<1>9. (a \o b) \o c \in Seq(Unit) /\ Len((a \o b) \o c) = Len(a) + Len(b) + Len(c)
      /\ ((a \o b) \o c)[1] = a[1]
  BY <1>4, <1>5, <1>6, <1>8
<1> DEFINE e == (a \o b) \o c
<1>10. Header(f) = Len(e) /\ Len(e) >= 1 /\ Len(e) \in Nat
  BY <1>4, <1>5, <1>6, <1>9 DEF Header
<1>11. e \in Seq(Unit) /\ e[1] = a[1]
  BY <1>9
<1> HIDE DEF e
<1>12. /\ e \o d \in Seq(Unit) /\ Len(e \o d) = Len(e) + Len(d)
       /\ (e \o d)[1] = e[1]
       /\ \A k \in 1..Len(d) : (e \o d)[Len(e) + k] = d[k]
  <2>1. 1 \in 1..Len(e)
    BY <1>10
  <2> QED
    BY <1>7, <1>11, <2>1, Concat
<1> QED
  BY <1>1, <1>2, <1>4, <1>7, <1>10, <1>11, <1>12 DEF e

(* The frames of a scenario, and where their units lie in what is sent. *)
LEMMA Scenario ==
  ASSUME frames \in Stream
  PROVE  /\ frames \in Seq(Frame) /\ Len(frames) \in Nat
         /\ \A i \in 1..Len(frames) :
              /\ frames[i] \in Frame
              /\ frames[i].len \in Nat /\ frames[i].have \in Nat
              /\ frames[i].have <= frames[i].len
              /\ i < Len(frames) => frames[i].have = frames[i].len
              /\ frames[i].form # "long" => frames[i].len <= MaxInt
              /\ frames[i].len <= 2 * MaxInt + 1
<1>1. frames \in Seq(Frame)
  BY ReaderAssumption
<1>2. Len(frames) \in Nat /\ \A i \in 1..Len(frames) : frames[i] \in Frame
  BY <1>1
<1>3. \A f \in Frame : f.len \in 0..2 * MaxInt + 1 /\ f.have \in Nat
  BY DEF Frame
<1>4. \A f \in Frame : f.len \in Nat /\ f.len <= 2 * MaxInt + 1
  BY <1>3, ReaderAssumption
<1> QED
  BY <1>1, <1>2, <1>3, <1>4, ReaderAssumption

(* Every frame gives a sequence of units. *)
LEMMA UnitListsType ==
  ASSUME frames \in Stream
  PROVE  UnitLists \in Seq(Seq(Unit)) /\ Len(UnitLists) = Len(frames)
         /\ \A i \in 1..Len(frames) : UnitLists[i] = UnitsOf(frames[i], i)
<1>1. DOMAIN frames = 1..Len(frames) /\ Len(frames) \in Nat
  BY Scenario
<1>2. \A i \in 1..Len(frames) : UnitsOf(frames[i], i) \in Seq(Unit)
  <2>1. ASSUME NEW i \in 1..Len(frames) PROVE UnitsOf(frames[i], i) \in Seq(Unit)
    <3>1. frames[i] \in Frame /\ i \in Nat
      BY Scenario
    <3> QED
      BY <3>1, UnitsOfFrame
  <2> QED
    BY <2>1
<1> QED
  BY <1>1, <1>2 DEF UnitLists

(* Where the units of a frame are in the stream. *)
LEMMA UnitsAt ==
  ASSUME frames \in Stream
  PROVE  /\ UnitPlaces[1] = 0 /\ Len(Units(frames)) = UnitPlaces[Len(frames) + 1]
         /\ Units(frames) \in Seq(Unit)
         /\ \A i \in 1..Len(frames) + 1 : UnitPlaces[i] \in Nat
         /\ \A i \in 1..Len(frames) :
              LET f == frames[i]
              IN /\ Header(f) \in Nat /\ Header(f) >= 1
                 /\ UnitPlaces[i + 1] = UnitPlaces[i] + Header(f) + f.have
                 /\ Units(frames)[UnitPlaces[i] + 1] = [of |-> i, part |-> "head", n |-> 0]
                 /\ \A k \in 1..f.have :
                      Units(frames)[UnitPlaces[i] + Header(f) + k]
                        = [of |-> i, part |-> "byte", n |-> k - 1]
<1>1. UnitLists \in Seq(Seq(Unit)) /\ Len(UnitLists) = Len(frames)
      /\ \A i \in 1..Len(frames) : UnitLists[i] = UnitsOf(frames[i], i)
  BY UnitListsType
<1>2. Units(frames) = FlattenSeq(UnitLists)
  BY DEF Units, UnitLists
<1>3. IsPlaces(UnitPlaces, UnitLists)
  BY <1>1, PlacesExist DEF UnitPlaces
<1>4. /\ Units(frames) \in Seq(Unit)
      /\ Len(Units(frames)) = UnitPlaces[Len(frames) + 1]
      /\ \A i \in 1..Len(frames) : \A j \in 1..Len(UnitLists[i]) :
           Units(frames)[UnitPlaces[i] + j] = UnitLists[i][j]
  BY <1>1, <1>2, <1>3, FlattenProperties
<1>5. /\ \A i \in 1..Len(frames) + 1 : UnitPlaces[i] \in Nat
      /\ UnitPlaces[1] = 0
      /\ \A i \in 1..Len(frames) : UnitPlaces[i + 1] = UnitPlaces[i] + Len(UnitLists[i])
  BY <1>1, <1>3, PlacesType
<1>6. ASSUME NEW i \in 1..Len(frames)
      PROVE  LET f == frames[i]
             IN /\ Header(f) \in Nat /\ Header(f) >= 1
                /\ UnitPlaces[i + 1] = UnitPlaces[i] + Header(f) + f.have
                /\ Units(frames)[UnitPlaces[i] + 1] = [of |-> i, part |-> "head", n |-> 0]
                /\ \A k \in 1..f.have :
                     Units(frames)[UnitPlaces[i] + Header(f) + k]
                       = [of |-> i, part |-> "byte", n |-> k - 1]
  <2> DEFINE f == frames[i]
             u == UnitLists[i]
  <2>0. f \in Frame /\ i \in Nat
    BY Scenario
  <2>1. /\ Header(f) \in Nat /\ Header(f) >= 1 /\ f.have \in Nat
        /\ Len(u) = Header(f) + f.have
        /\ u[1] = [of |-> i, part |-> "head", n |-> 0]
        /\ \A k \in 1..f.have : u[Header(f) + k] = [of |-> i, part |-> "byte", n |-> k - 1]
    BY <1>1, <2>0, UnitsOfFrame
  <2>2. \A j \in 1..Len(u) : Units(frames)[UnitPlaces[i] + j] = u[j]
    BY <1>4
  <2>3. UnitPlaces[i + 1] = UnitPlaces[i] + Len(u) /\ UnitPlaces[i] \in Nat
    BY <1>5
  <2> HIDE DEF u, f
  <2>4. UnitPlaces[i + 1] = UnitPlaces[i] + Header(f) + f.have
    BY <2>1, <2>3
  <2>5. 1 \in 1..Len(u)
    BY <2>1
  <2>6. \A k \in 1..f.have : Header(f) + k \in 1..Len(u) /\ UnitPlaces[i] + Header(f) + k = UnitPlaces[i] + (Header(f) + k)
    BY <2>1, <2>3
  <2>7. Units(frames)[UnitPlaces[i] + 1] = u[1]
    BY <2>2, <2>5
  <2>8. \A k \in 1..f.have : Units(frames)[UnitPlaces[i] + Header(f) + k] = u[Header(f) + k]
    BY <2>2, <2>6
  <2>9. \A k \in 1..f.have : Units(frames)[UnitPlaces[i] + Header(f) + k] = [of |-> i, part |-> "byte", n |-> k - 1]
    BY <2>1, <2>8
  <2>10. Units(frames)[UnitPlaces[i] + 1] = [of |-> i, part |-> "head", n |-> 0]
    BY <2>1, <2>7
  <2> QED
    BY <2>1, <2>4, <2>9, <2>10 DEF f
<1> QED
  BY <1>4, <1>5, <1>6

-----------------------------------------------------------------------------
(* The payload of a message. *)

Byte == Nat \X Nat
Loads(i) == [j \in 1..Len(frames) |-> IF j \in Parts(i) THEN BytesOf(j) ELSE <<>>]
PayloadPlaces(i) == Places(Loads(i))

-----------------------------------------------------------------------------
(* Frames *)

(* No message is open before the first frame. *)
LEMMA OpenFirst == Open(1) = FALSE
BY DEF Open, DataBefore

(* The greatest of a set of integers is the one that no other exceeds. *)
LEMMA MaxIs ==
  ASSUME NEW S, S \subseteq Int, NEW x \in S, \A y \in S : y <= x
  PROVE  Max(S) = x
<1>1. \A y \in S : y \in Int /\ x >= y
  OBVIOUS
<1>2. Max(S) \in S /\ \A y \in S : Max(S) >= y
  BY <1>1 DEF Max
<1>3. Max(S) \in Int /\ x \in Int /\ Max(S) >= x /\ Max(S) <= x
  BY <1>1, <1>2
<1> QED
  BY <1>3

(* The least of a set of natural numbers. *)
LEMMA MinIs ==
  ASSUME NEW S, S \subseteq Nat, S # {}
  PROVE  Min(S) \in S /\ \A y \in S : Min(S) <= y
BY LeastNatural DEF Min

(* A frame of data decides whether a message is open behind it, others do  *)
(* not.                                                                    *)
LEMMA OpenNext ==
  ASSUME NEW i \in Nat, i >= 1
  PROVE  Open(i + 1) = IF Data(frames[i]) THEN ~frames[i].fin ELSE Open(i)
<1>1. CASE Data(frames[i])
  <2>1. i \in DataBefore(i + 1)
    BY <1>1 DEF DataBefore
  <2>2. \A y \in DataBefore(i + 1) : y \in Int /\ y <= i
    BY DEF DataBefore
  <2>3. Max(DataBefore(i + 1)) = i
    BY <2>1, <2>2, MaxIs
  <2> QED
    BY <1>1, <2>1, <2>3 DEF Open
<1>2. CASE ~Data(frames[i])
  <2>1. DataBefore(i + 1) = DataBefore(i)
    BY <1>2 DEF DataBefore
  <2> QED
    BY <1>2, <2>1 DEF Open
<1> QED
  BY <1>1, <1>2

(* The frames of a message: those of data up to the one that ends it. *)
LEMMA PartsAre ==
  ASSUME Len(frames) \in Nat, NEW i \in Nat, NEW j \in Nat
  PROVE  j \in Parts(i) <=> /\ i <= j /\ j <= Len(frames) /\ Data(frames[j])
                            /\ \A k \in i..j - 1 : ~(Data(frames[k]) /\ frames[k].fin)
<1>1. CASE Ends(i) = {}
  <2>1. \A k \in i..Len(frames) : ~(Data(frames[k]) /\ frames[k].fin)
    BY <1>1 DEF Ends
  <2>2. Parts(i) = {n \in i..Len(frames) : Data(frames[n])}
    BY <1>1 DEF Parts
  <2>3. j <= Len(frames) => \A k \in i..j - 1 : k \in i..Len(frames)
    OBVIOUS
  <2> QED
    BY <2>1, <2>2, <2>3
<1>2. CASE Ends(i) # {}
  <2> DEFINE m == Min(Ends(i))
  <2>1. m \in Ends(i) /\ \A y \in Ends(i) : m <= y
    <3>1. Ends(i) \subseteq Nat
      BY DEF Ends
    <3> QED
      BY <1>2, <3>1, MinIs
  <2>2. m \in Nat /\ i <= m /\ m <= Len(frames) /\ Data(frames[m]) /\ frames[m].fin
    BY <2>1 DEF Ends
  <2>3. Parts(i) = {n \in i..m : Data(frames[n])}
    BY <1>2 DEF Parts
  <2>4. \A k \in i..Len(frames) : Data(frames[k]) /\ frames[k].fin => m <= k
    BY <2>1 DEF Ends
  <2> HIDE DEF m
  <2>5. ASSUME i <= j, j <= m
        PROVE  \A k \in i..j - 1 : ~(Data(frames[k]) /\ frames[k].fin)
    BY <2>2, <2>4, <2>5
  <2>6. ASSUME i <= j, m < j PROVE m \in i..j - 1
    BY <2>2, <2>6
  <2> QED
    BY <2>2, <2>3, <2>5, <2>6
<1> QED
  BY <1>1, <1>2

-----------------------------------------------------------------------------
(* Payloads *)

(* The bytes of a frame are numbered. *)
LEMMA BytesOfFrame ==
  ASSUME NEW j \in Nat, frames[j].have \in Nat
  PROVE  /\ BytesOf(j) \in Seq(Byte) /\ Len(BytesOf(j)) = frames[j].have
         /\ \A n \in 1..frames[j].have : BytesOf(j)[n] = <<j, n - 1>>
<1> DEFINE h == frames[j].have
<1>1. BytesOf(j) = [n \in 1..h |-> <<j, n - 1>>]
  BY DEF BytesOf
<1>2. \A n \in 1..h : <<j, n - 1>> \in Byte
  BY DEF Byte
<1> HIDE DEF h
<1>3. h \in Nat
  BY DEF h
<1>4. /\ BytesOf(j) \in Seq(Byte) /\ Len(BytesOf(j)) = h
      /\ \A n \in 1..h : BytesOf(j)[n] = <<j, n - 1>>
  BY <1>1, <1>2, <1>3
<1> QED
  BY <1>4 DEF h

(* Every frame gives a sequence of bytes to a payload, which may be empty. *)
LEMMA LoadsType ==
  ASSUME frames \in Stream, NEW i \in Nat
  PROVE  Loads(i) \in Seq(Seq(Byte)) /\ Len(Loads(i)) = Len(frames)
<1>1. Len(frames) \in Nat /\ \A j \in 1..Len(frames) : BytesOf(j) \in Seq(Byte)
  BY Scenario, BytesOfFrame
<1>2. \A j \in 1..Len(frames) : (IF j \in Parts(i) THEN BytesOf(j) ELSE <<>>) \in Seq(Byte)
  BY <1>1
<1> QED
  BY <1>1, <1>2 DEF Loads

(* Where the bytes of a frame are in a payload. *)
LEMMA PayloadAt ==
  ASSUME frames \in Stream, NEW i \in Nat
  PROVE  /\ Payload(i) \in Seq(Byte)
         /\ Len(Payload(i)) = PayloadPlaces(i)[Len(frames) + 1]
         /\ \A j \in 1..Len(frames) + 1 : PayloadPlaces(i)[j] \in Nat
         /\ \A j \in 1..Len(frames) :
              /\ PayloadPlaces(i)[j + 1] = PayloadPlaces(i)[j] + (IF j \in Parts(i) THEN frames[j].have ELSE 0)
              /\ j \in Parts(i) =>
                   \A n \in 1..frames[j].have : Payload(i)[PayloadPlaces(i)[j] + n] = <<j, n - 1>>
         /\ PayloadPlaces(i)[1] = 0
<1>0. Len(frames) \in Nat /\ \A j \in 1..Len(frames) : frames[j].have \in Nat
  BY Scenario
<1>1. \A j \in 1..Len(frames) :
        /\ BytesOf(j) \in Seq(Byte) /\ Len(BytesOf(j)) = frames[j].have
        /\ \A n \in 1..frames[j].have : BytesOf(j)[n] = <<j, n - 1>>
  BY <1>0, BytesOfFrame
<1>2. \A j \in 1..Len(frames) :
        Loads(i)[j] = IF j \in Parts(i) THEN BytesOf(j) ELSE <<>>
  BY DEF Loads
<1>3. Loads(i) \in Seq(Seq(Byte)) /\ Len(Loads(i)) = Len(frames)
  BY LoadsType
<1>4. IsPlaces(PayloadPlaces(i), Loads(i))
  BY <1>3, PlacesExist DEF PayloadPlaces
<1>5. Payload(i) = FlattenSeq(Loads(i))
  BY DEF Payload, Loads
<1>6. /\ Payload(i) \in Seq(Byte)
      /\ Len(Payload(i)) = PayloadPlaces(i)[Len(frames) + 1]
      /\ \A j \in 1..Len(frames) : \A n \in 1..Len(Loads(i)[j]) :
           Payload(i)[PayloadPlaces(i)[j] + n] = Loads(i)[j][n]
  BY <1>3, <1>4, <1>5, FlattenProperties
<1>7. /\ \A j \in 1..Len(frames) + 1 : PayloadPlaces(i)[j] \in Nat
      /\ PayloadPlaces(i)[1] = 0
      /\ \A j \in 1..Len(frames) : PayloadPlaces(i)[j + 1] = PayloadPlaces(i)[j] + Len(Loads(i)[j])
  BY <1>3, <1>4, PlacesType
<1>8. ASSUME NEW j \in 1..Len(frames)
      PROVE  /\ PayloadPlaces(i)[j + 1] = PayloadPlaces(i)[j] + (IF j \in Parts(i) THEN frames[j].have ELSE 0)
             /\ j \in Parts(i) =>
                  \A n \in 1..frames[j].have : Payload(i)[PayloadPlaces(i)[j] + n] = <<j, n - 1>>
  <2>1. Len(Loads(i)[j]) = IF j \in Parts(i) THEN frames[j].have ELSE 0
    BY <1>1, <1>2
  <2>2. PayloadPlaces(i)[j + 1] = PayloadPlaces(i)[j] + Len(Loads(i)[j])
    BY <1>7
  <2>3. ASSUME j \in Parts(i), NEW n \in 1..frames[j].have
        PROVE  Payload(i)[PayloadPlaces(i)[j] + n] = <<j, n - 1>>
    <3>1. Loads(i)[j] = BytesOf(j) /\ Len(Loads(i)[j]) = frames[j].have
      BY <1>1, <1>2, <2>3
    <3>2. Payload(i)[PayloadPlaces(i)[j] + n] = Loads(i)[j][n]
      BY <1>6, <3>1
    <3> QED
      BY <1>1, <3>1, <3>2
  <2> QED
    BY <2>1, <2>2, <2>3
<1> QED
  BY <1>6, <1>7, <1>8

(* The places in a payload grow, and stay over frames that are no part. *)
LEMMA PayloadOver ==
  ASSUME frames \in Stream, NEW i \in Nat,
         NEW j \in 1..Len(frames) + 1, NEW k \in j..Len(frames) + 1
  PROVE  /\ PayloadPlaces(i)[j] <= PayloadPlaces(i)[k]
         /\ (\A n \in j..k - 1 : n \notin Parts(i)) => PayloadPlaces(i)[j] = PayloadPlaces(i)[k]
<1>0. Len(frames) \in Nat /\ \A n \in 1..Len(frames) : frames[n].have \in Nat
  BY Scenario
<1>1. Loads(i) \in Seq(Seq(Byte)) /\ Len(Loads(i)) = Len(frames)
  BY LoadsType
<1>2. IsPlaces(PayloadPlaces(i), Loads(i))
  BY <1>1, PlacesExist DEF PayloadPlaces
<1>3. /\ PayloadPlaces(i)[j] <= PayloadPlaces(i)[k]
      /\ (\A n \in j..k - 1 : Loads(i)[n] = <<>>) => PayloadPlaces(i)[j] = PayloadPlaces(i)[k]
  BY <1>1, <1>2, PlacesMonotone
<1>4. \A n \in j..k - 1 : n \in 1..Len(frames)
  BY <1>0
<1>5. \A n \in 1..Len(frames) : n \notin Parts(i) => Loads(i)[n] = <<>>
  BY DEF Loads
<1> QED
  BY <1>3, <1>4, <1>5

-----------------------------------------------------------------------------
(* Modular arithmetic, keys and lengths, what frames claim. *)

(* Division *)
LEMMA ModUnique ==
  ASSUME NEW k \in Nat, k > 0, NEW m \in Int, NEW r \in 0..k - 1, NEW s \in 0..k - 1,
         r = m * k + s
  PROVE  r = s
<1>1. m >= 1 => m * k >= k
  OBVIOUS
<1>2. m <= -1 => m * k <= -k
  OBVIOUS
<1>3. m * k < k /\ m * k > -k
  OBVIOUS
<1>4. m = 0
  BY <1>1, <1>2, <1>3
<1> QED
  BY <1>4

(* Multiples of the modulus do not matter. *)
LEMMA ModShift ==
  ASSUME NEW k \in Nat, k > 0, NEW a \in Int, NEW q \in Int
  PROVE  (a + q * k) % k = a % k
<1> DEFINE b == a + q * k
           x == a \div k
           y == b \div k
           r == b % k
           s == a % k
<1>1. b \in Int /\ x \in Int /\ y \in Int /\ r \in 0..k - 1 /\ s \in 0..k - 1
  OBVIOUS
<1>2. a = x * k + s
  OBVIOUS
<1>3. b = y * k + r
  <2> HIDE DEF b
  <2> QED
    BY <1>1
<1>4. b = a + q * k
  OBVIOUS
<1> HIDE DEF b, x, y, r, s
<1>5. r = (x + q - y) * k + s
  <2>1. (x + q - y) * k = x * k + q * k - y * k
    BY <1>1
  <2> QED
    BY <1>1, <1>2, <1>3, <1>4, <2>1
<1>6. x + q - y \in Int
  BY <1>1
<1>7. r = s
  BY <1>1, <1>5, <1>6, ModUnique
<1> QED
  BY <1>7 DEF r, s, b

(* However they lie between words, n bytes are masked with the key bytes  *)
(* that follow each other from pos on.                                    *)
LEMMA KeyPlacesAre ==
  ASSUME NEW pos \in Nat, NEW n \in Nat, NEW align \in 0..WordSize - 1, NEW i \in 0..n - 1
  PROVE  KeyPlaces(pos, n, align)[i] = (pos + i) % KeyLen
<1> DEFINE head == IF align = 0 THEN 0 ELSE WordSize - align
           words == (n - head) \div WordSize
           body == words * WordSize
           word == [j \in 0..WordSize - 1 |-> (pos + head + j) % KeyLen]
           w == WordSize \div KeyLen
<1>1. KeyLen \in Nat /\ KeyLen > 0 /\ WordSize \in Nat /\ WordSize > 0 /\ WordSize % KeyLen = 0
  BY ReaderAssumption
<1>2. w \in Int /\ WordSize = w * KeyLen
  BY <1>1
<1>3. head \in Nat
  BY <1>1
<1>4. words \in Int /\ body = words * WordSize /\ body \in Int
  <2> HIDE DEF head
  <2> QED
    BY <1>1, <1>3
<1>5. KeyPlaces(pos, n, align)[i] =
        IF n < 2 * WordSize THEN (pos + i) % KeyLen
        ELSE IF i < head THEN (pos + i) % KeyLen
        ELSE IF i < head + body THEN word[(i - head) % WordSize]
        ELSE (pos + i - body) % KeyLen
  BY DEF KeyPlaces
<1> HIDE DEF w, head
<1>6. ASSUME ~(i < head), i < head + body
      PROVE  word[(i - head) % WordSize] = (pos + i) % KeyLen
  <2> DEFINE r == (i - head) % WordSize
             q == (i - head) \div WordSize
  <2>1. r \in 0..WordSize - 1 /\ q \in Int /\ i - head = q * WordSize + r
    BY <1>1, <1>3, <1>6
  <2> HIDE DEF r, q
  <2>2. word[r] = (pos + head + r) % KeyLen
    BY <2>1
  <2>3. pos + head + r \in Int /\ q * w \in Int
    BY <1>2, <1>3, <2>1
  <2>4. q * WordSize = (q * w) * KeyLen
    BY <1>1, <1>2, <2>1
  <2>5. pos + i = (pos + head + r) + (q * w) * KeyLen
    <3> DEFINE p == q * WordSize
    <3>1. p \in Int /\ r \in Int /\ i \in Int /\ i - head = p + r
      BY <1>1, <2>1
    <3> HIDE DEF p
    <3>2. pos + i = (pos + head + r) + p
      BY <1>3, <3>1
    <3> QED
      BY <2>4, <3>2 DEF p
  <2>6. ((pos + head + r) + (q * w) * KeyLen) % KeyLen = (pos + head + r) % KeyLen
    BY <1>1, <2>3, ModShift
  <2> QED
    BY <2>2, <2>5, <2>6 DEF r
<1> HIDE DEF words, word
<1>7. (pos + i - body) % KeyLen = (pos + i) % KeyLen
  <2>1. (-words) * w \in Int /\ pos + i \in Int
    BY <1>2, <1>4
  <2>2. body = (words * w) * KeyLen
    BY <1>1, <1>2, <1>4
  <2>3. pos + i - body = (pos + i) + ((-words) * w) * KeyLen
    <3>1. ((-words) * w) * KeyLen = -((words * w) * KeyLen)
      BY <1>1, <1>2, <1>4
    <3> QED
      BY <1>4, <2>1, <2>2, <3>1
  <2>4. ((pos + i) + ((-words) * w) * KeyLen) % KeyLen = (pos + i) % KeyLen
    BY <1>1, <2>1, ModShift
  <2> QED
    BY <2>3, <2>4
<1> HIDE DEF body
<1> QED
  BY <1>5, <1>6, <1>7

(* A sum of two lengths, read as a signed integer. *)
LEMMA SignedIs ==
  ASSUME NEW n \in 0..2 * MaxInt + 1
  PROVE  /\ Signed(n) < 0 <=> n > MaxInt
         /\ n <= MaxInt => Signed(n) = n
<1>1. MaxInt \in Nat
  BY ReaderAssumption
<1> DEFINE m == 2 * MaxInt + 2
<1>2. n % m = n
  <2>1. n \in Nat /\ m \in Nat /\ n < m
    BY <1>1
  <2> HIDE DEF m
  <2>2. n % m \in 0..m - 1 /\ n = (n \div m) * m + (n % m) /\ n \div m \in Int
    BY <2>1
  <2>3. n % m = (-(n \div m)) * m + n /\ n \in 0..m - 1 /\ -(n \div m) \in Int /\ m > 0
    BY <2>1, <2>2
  <2> QED
    BY <2>1, <2>2, <2>3, ModUnique
<1>3. Signed(n) = IF n > MaxInt THEN n - m ELSE n
  BY <1>2 DEF Signed
<1> QED
  BY <1>1, <1>3

(* What the frames of data from i to j claim grows by what each claims. *)
Claim(k) == IF Data(frames[k]) THEN frames[k].len ELSE 0
Sums(i, j) == CHOOSE sum : sum = [k \in 0..j |-> IF k < i THEN 0 ELSE sum[k - 1] + Claim(k)]

(* The recursive function of Claimed exists. *)
LEMMA SumsExist ==
  ASSUME NEW i \in Nat, i >= 1, NEW j \in Nat
  PROVE  Sums(i, j) = [k \in 0..j |-> IF k < i THEN 0 ELSE Sums(i, j)[k - 1] + Claim(k)]
<1> DEFINE Eq(f, n) == f = [k \in 0..n |-> IF k < i THEN 0 ELSE f[k - 1] + Claim(k)]
           Upto == {n \in Nat : \E f : Eq(f, n)}
<1>1. 0 \in Upto
  <2> DEFINE f == [k \in 0..0 |-> 0]
  <2>1. Eq(f, 0)
    OBVIOUS
  <2> HIDE DEF Eq, f
  <2> QED
    BY <2>1
<1>2. ASSUME NEW n \in Upto PROVE n + 1 \in Upto
  <2>0. n \in Nat
    OBVIOUS
  <2>1. PICK f : Eq(f, n)
    OBVIOUS
  <2> DEFINE g == [k \in 0..n + 1 |-> IF k < i THEN 0 ELSE f[k - 1] + Claim(k)]
  <2> HIDE DEF Upto
  <2>2. ASSUME NEW k \in 0..n PROVE g[k] = f[k]
    <3>1. k \in 0..n + 1
      BY <2>0
    <3> QED
      BY <2>1, <3>1
  <2>3. ASSUME NEW k \in 0..n + 1 PROVE g[k] = IF k < i THEN 0 ELSE g[k - 1] + Claim(k)
    <3>1. CASE k < i
      BY <3>1
    <3>2. CASE ~(k < i)
      <4>1. k - 1 \in 0..n
        BY <2>0, <3>2
      <4>2. g[k - 1] = f[k - 1]
        BY <2>2, <4>1
      <4> QED
        BY <3>2, <4>2
    <3> QED
      BY <3>1, <3>2
  <2>4. g = [k \in 0..n + 1 |-> IF k < i THEN 0 ELSE g[k - 1] + Claim(k)]
    <3>1. g = [k \in 0..n + 1 |-> g[k]]
      OBVIOUS
    <3> HIDE DEF g
    <3> QED
      BY <2>3, <3>1
  <2> HIDE DEF g
  <2>5. Eq(g, n + 1)
    BY <2>4
  <2> HIDE DEF Eq
  <2> QED
    BY <2>0, <2>5 DEF Upto
<1>3. Upto = Nat
  <2> HIDE DEF Upto
  <2> QED
    BY <1>1, <1>2, Induction DEF Upto
<1>4. \E f : Eq(f, j)
  <2> HIDE DEF Eq
  <2> QED
    BY <1>3
<1> QED
  BY <1>4, Zenon DEF Sums

(* Its values do not depend on how far it goes. *)
LEMMA SumsAgree ==
  ASSUME NEW i \in Nat, i >= 1, NEW j \in Nat, NEW n \in Nat, NEW k \in Nat, k <= j, k <= n
  PROVE  Sums(i, j)[k] = Sums(i, n)[k]
<1> DEFINE Upto == {x \in Nat : x <= j /\ x <= n => Sums(i, j)[x] = Sums(i, n)[x]}
           f == Sums(i, j)
           g == Sums(i, n)
<1>a. \A x \in 0..j : f[x] = IF x < i THEN 0 ELSE f[x - 1] + Claim(x)
  <2>1. f = [x \in 0..j |-> IF x < i THEN 0 ELSE f[x - 1] + Claim(x)]
    BY SumsExist
  <2> HIDE DEF f
  <2> QED
    BY <2>1
<1>b. \A x \in 0..n : g[x] = IF x < i THEN 0 ELSE g[x - 1] + Claim(x)
  <2>1. g = [x \in 0..n |-> IF x < i THEN 0 ELSE g[x - 1] + Claim(x)]
    BY SumsExist
  <2> HIDE DEF g
  <2> QED
    BY <2>1
<1> HIDE DEF f, g
<1>1. 0 \in Upto
  BY <1>a, <1>b DEF f, g
<1>2. ASSUME NEW x \in Upto PROVE x + 1 \in Upto
  <2>1. x \in Nat /\ (x <= j /\ x <= n => f[x] = g[x])
    BY DEF f, g
  <2> HIDE DEF Upto
  <2>2. ASSUME x + 1 <= j, x + 1 <= n PROVE f[x + 1] = g[x + 1]
    <3>1. x + 1 \in 0..j /\ x + 1 \in 0..n /\ (x + 1) - 1 = x /\ f[x] = g[x]
      BY <2>1, <2>2
    <3> QED
      BY <1>a, <1>b, <3>1
  <2> QED
    BY <2>1, <2>2 DEF Upto, f, g
<1>3. Upto = Nat
  <2> HIDE DEF Upto
  <2> QED
    BY <1>1, <1>2, Induction DEF Upto
<1> QED
  BY <1>3

(* What frames claim, frame by frame. *)
LEMMA ClaimedIs ==
  ASSUME NEW i \in Nat, i >= 1, NEW j \in Nat
  PROVE  /\ j < i => Claimed(i, j) = 0
         /\ j + 1 >= i => Claimed(i, j + 1) = Claimed(i, j) + Claim(j + 1)
<1>0. \A x \in Nat : Claimed(i, x) = Sums(i, x)[x]
  BY Zenon DEF Claimed, Sums, Claim
<1>1. \A n \in Nat : \A x \in 0..n :
        Sums(i, n)[x] = IF x < i THEN 0 ELSE Sums(i, n)[x - 1] + Claim(x)
  <2> SUFFICES ASSUME NEW n \in Nat
               PROVE  \A x \in 0..n :
                        Sums(i, n)[x] = IF x < i THEN 0 ELSE Sums(i, n)[x - 1] + Claim(x)
    OBVIOUS
  <2> DEFINE f == Sums(i, n)
  <2>1. f = [x \in 0..n |-> IF x < i THEN 0 ELSE f[x - 1] + Claim(x)]
    BY SumsExist
  <2> HIDE DEF f
  <2>2. \A x \in 0..n : f[x] = IF x < i THEN 0 ELSE f[x - 1] + Claim(x)
    BY <2>1
  <2> QED
    BY <2>2 DEF f
<1>2. Sums(i, j + 1)[j] = Sums(i, j)[j]
  BY SumsAgree
<1>3. j + 1 \in 0..j + 1 /\ (j + 1) - 1 = j /\ j \in 0..j /\ j + 1 \in Nat
  OBVIOUS
<1>4. ASSUME j + 1 >= i PROVE Claimed(i, j + 1) = Claimed(i, j) + Claim(j + 1)
  <2>1. Sums(i, j + 1)[j + 1] = Sums(i, j + 1)[j] + Claim(j + 1)
    BY <1>1, <1>3, <1>4
  <2> QED
    BY <1>0, <1>2, <1>3, <2>1
<1>5. ASSUME j < i PROVE Claimed(i, j) = 0
  BY <1>0, <1>1, <1>3, <1>5
<1> QED
  BY <1>4, <1>5

(* It is a natural number. *)
LEMMA ClaimedType ==
  ASSUME frames \in Stream, NEW i \in Nat, i >= 1, NEW j \in Nat, j <= Len(frames)
  PROVE  Claimed(i, j) \in Nat
<1>0. Len(frames) \in Nat /\ \A k \in 1..Len(frames) : Claim(k) \in Nat
  BY Scenario DEF Claim
<1> DEFINE Upto == {x \in Nat : x <= Len(frames) => Claimed(i, x) \in Nat}
<1>1. 0 \in Upto
  BY ClaimedIs
<1>2. ASSUME NEW x \in Upto PROVE x + 1 \in Upto
  <2>1. x \in Nat /\ (x <= Len(frames) => Claimed(i, x) \in Nat)
    OBVIOUS
  <2> HIDE DEF Upto
  <2>2. ASSUME x + 1 <= Len(frames) PROVE Claimed(i, x + 1) \in Nat
    <3>1. x + 1 \in 1..Len(frames) /\ x <= Len(frames) /\ x + 1 \in Nat
      BY <1>0, <2>1, <2>2
    <3>2. CASE x + 1 < i
      <4>1. Claimed(i, x + 1) = 0
        BY <2>1, <3>1, <3>2, ClaimedIs
      <4> QED
        BY <4>1
    <3>3. CASE x + 1 >= i
      <4>1. Claimed(i, x + 1) = Claimed(i, x) + Claim(x + 1)
        BY <2>1, <3>3, ClaimedIs
      <4> QED
        BY <1>0, <2>1, <3>1, <4>1
    <3> QED
      BY <2>1, <3>2, <3>3
  <2> QED
    BY <2>1, <2>2 DEF Upto
<1>3. Upto = Nat
  <2> HIDE DEF Upto
  <2> QED
    BY <1>1, <1>2, Induction DEF Upto
<1> QED
  BY <1>3

-----------------------------------------------------------------------------
(* The invariant. *)

Message == [start : Nat, bytes : Seq(Byte), done : BOOLEAN]

ReaderTypeOK ==
  /\ frames \in Stream /\ isServer \in BOOLEAN /\ readLimit \in Limits
  /\ stream \in Seq(Unit)
  /\ readRemaining \in Nat /\ readFinal \in BOOLEAN /\ readLength \in Nat
  /\ readMaskPos \in Nat /\ keyOf \in Nat /\ at \in 0..Len(frames)
  /\ readErr \in {"none", "protocol", "limit", "unexpected EOF", "EOF", "close", "write"}
  /\ reader \in BOOLEAN /\ pc \in {"app", "NextReader", "Read"} /\ room \in Nat
  /\ messages \in Seq(Message)
  /\ told \in {"none", "protocol", "too big", "close"}
  /\ readErrCount \in Nat

(* The place of the unit that is read next. *)
NextPlace ==
  IF at = 0 THEN 0
  ELSE UnitPlaces[at] + Header(frames[at]) + (frames[at].len - readRemaining)

(* What is left of the stream lies where the fields of the frame that is   *)
(* being read say.                                                         *)
StreamInv ==
  readErr = "none" =>
    /\ at = 0 => readRemaining = 0
    /\ at > 0 => /\ readRemaining <= frames[at].len
                 /\ ~Data(frames[at]) => readRemaining = 0
    /\ NextPlace + Len(stream) <= Len(Units(frames))
    /\ \A i \in 1..Len(stream) : stream[i] = Units(frames)[NextPlace + i]

(* What was read before was legal, and readFinal tells whether the last    *)
(* frame of data ended a message.                                          *)
LegalInv ==
  readErr = "none" =>
    /\ \A i \in 1..at : Legal(i)
    /\ readFinal <=> ~Open(at + 1)

(* The key, and the place in it, of the frame that is being read.          *)
MaskInv ==
  readErr = "none" /\ isServer /\ readRemaining > 0 =>
    keyOf = at /\ readMaskPos = (frames[at].len - readRemaining) % KeyLen

(* The messages an application was given, in their order. *)
BeginsUpTo(i) == {j \in 1..i : frames[j].op \in Start}
OrderInv ==
  /\ \A m \in 1..Len(messages) :
       /\ messages[m].start \in BeginsUpTo(at)
       /\ m > 1 => messages[m - 1].start < messages[m].start
  /\ readErr = "none" =>
       \A j \in BeginsUpTo(at) : Len(messages) > 0 /\ j <= messages[Len(messages)].start

(* What they have of each. *)
BytesInv ==
  \A m \in 1..Len(messages) :
    LET d == messages[m]
    IN /\ Len(d.bytes) <= Len(Payload(d.start))
       /\ \A k \in 1..Len(d.bytes) :
            d.bytes[k] = Payload(d.start)[k] /\ \A i \in 1..d.bytes[k][1] : Legal(i)

(* How much they have of the one that is being read: all up to the next    *)
(* byte of the frame, none of its frames but the last being the final one. *)
Final(j) == Data(frames[j]) /\ frames[j].fin
CurrentInv ==
  /\ pc = "Read" => reader
  /\ pc = "NextReader" => ~reader
  /\ reader => Len(messages) > 0
  /\ reader /\ readErr = "none" =>
       LET d == messages[Len(messages)]
       IN /\ ~d.done
          /\ readFinal <=> \E j \in d.start..at : Final(j)
          /\ \A j \in d.start..at : Final(j) => \A k \in j + 1..at : ~Data(frames[k])
          /\ Len(d.bytes) =
               IF Data(frames[at])
               THEN PayloadPlaces(d.start)[at] + (frames[at].len - readRemaining)
               ELSE PayloadPlaces(d.start)[at + 1]

(* io.EOF was deserved, and a message that has not ended was not finished. *)
DoneInv ==
  /\ EndMeansWhole
  /\ readErr = "none" /\ ~readFinal =>
       Len(messages) > 0 /\ ~messages[Len(messages)].done

(* readLength is what the frames of the message claim, or of the one that  *)
(* was abandoned and of the one begun after it.                            *)
LengthInv ==
  readErr = "none" =>
    /\ readLength <= MaxInt /\ (readLimit > 0 => readLength <= readLimit)
    /\ told = "none"
    /\ reader => Len(messages[Len(messages)].bytes) + readRemaining <= readLength
    /\ pc = "NextReader" /\ readLength > 0 => ~messages[Len(messages)].done
    /\ readLength > 0 =>
         \E m \in 1..Len(messages) :
           /\ readLength <= Claimed(messages[m].start, at)
           /\ m = Len(messages) \/ ~messages[m].done

ReaderIInv ==
  /\ ReaderTypeOK /\ StreamInv /\ LegalInv /\ MaskInv /\ OrderInv
  /\ BytesInv /\ CurrentInv /\ DoneInv /\ LengthInv /\ LimitHolds

-----------------------------------------------------------------------------
(* The state as the invariant describes it. *)

(* What was sent, and what it means, stays. *)
LEMMA SentStays ==
  ASSUME inputs' = inputs
  PROVE  /\ frames' = frames /\ isServer' = isServer /\ readLimit' = readLimit
         /\ \A i : Open(i)' = Open(i) /\ Legal(i)' = Legal(i)
         /\ \A i : Ends(i)' = Ends(i) /\ Parts(i)' = Parts(i)
         /\ \A i : Payload(i)' = Payload(i) /\ PayloadPlaces(i)' = PayloadPlaces(i)
         /\ \A i : Whole(i)' = Whole(i)
         /\ \A i, j : Claimed(i, j)' = Claimed(i, j)
         /\ Units(frames)' = Units(frames) /\ UnitPlaces' = UnitPlaces
         /\ \A i : BeginsUpTo(i)' = BeginsUpTo(i) /\ Final(i)' = Final(i)
<1>1. frames' = frames /\ isServer' = isServer /\ readLimit' = readLimit
  BY DEF inputs
<1>2. \A i : DataBefore(i)' = DataBefore(i)
  BY <1>1 DEF DataBefore
<1>3. \A i : Open(i)' = Open(i)
  BY <1>1, <1>2 DEF Open
<1>4. \A i : Legal(i)' = Legal(i)
  BY <1>1, <1>3 DEF Legal
<1>5. \A i : Ends(i)' = Ends(i)
  BY <1>1 DEF Ends
<1>6. \A i : Parts(i)' = Parts(i)
  BY <1>1, <1>5 DEF Parts
<1>7. \A j : BytesOf(j)' = BytesOf(j)
  BY <1>1 DEF BytesOf
<1>8. \A i : Payload(i)' = Payload(i)
  BY <1>1, <1>6, <1>7 DEF Payload
<1>9. \A i : PayloadPlaces(i)' = PayloadPlaces(i)
  <2>1. \A i : Loads(i)' = Loads(i)
    BY <1>1, <1>6, <1>7 DEF Loads
  <2> QED
    BY <2>1 DEF PayloadPlaces
<1>10. \A i : Whole(i)' = Whole(i)
  BY <1>1, <1>5, <1>6 DEF Whole
<1>11. \A i, j : Claimed(i, j)' = Claimed(i, j)
  BY <1>1 DEF Claimed
<1>12. Units(frames)' = Units(frames) /\ UnitPlaces' = UnitPlaces
  BY <1>1 DEF Units, UnitPlaces, UnitLists
<1>13. \A i : BeginsUpTo(i)' = BeginsUpTo(i) /\ Final(i)' = Final(i)
  BY <1>1 DEF BeginsUpTo, Final
<1> QED
  BY <1>1, <1>3, <1>4, <1>5, <1>6, <1>8, <1>9, <1>10, <1>11, <1>12, <1>13

(* What is left of a sequence behind its first members. *)
LEMMA FromIs ==
  ASSUME NEW T, NEW s \in Seq(T), NEW n \in Nat, n <= Len(s)
  PROVE  /\ From(s, n) \in Seq(T) /\ Len(From(s, n)) = Len(s) - n
         /\ \A i \in 1..Len(s) - n : From(s, n)[i] = s[n + i]
<1>1. From(s, n) = SubSeq(s, n + 1, Len(s)) /\ Len(s) \in Nat
  BY DEF From
<1>2. /\ SubSeq(s, n + 1, Len(s)) \in Seq(T)
      /\ Len(SubSeq(s, n + 1, Len(s))) = IF n + 1 <= Len(s) THEN Len(s) - (n + 1) + 1 ELSE 0
      /\ \A i \in 1..Len(s) - (n + 1) + 1 : SubSeq(s, n + 1, Len(s))[i] = s[n + 1 + i - 1]
  <2>1. \A i \in n + 1..Len(s) : s[i] \in T
    BY <1>1
  <2>2. n + 1 \in Int /\ Len(s) \in Int
    BY <1>1
  <2> QED
    BY <1>1, <2>1, <2>2
<1> QED
  BY <1>1, <1>2

(* What the type invariant says, in the form the proofs use. *)
LEMMA TypeFacts ==
  ASSUME ReaderTypeOK
  PROVE  /\ frames \in Stream /\ Len(frames) \in Nat /\ at \in Nat /\ at <= Len(frames)
         /\ at \in 0..Len(frames) /\ readLimit \in Nat
         /\ stream \in Seq(Unit) /\ Len(stream) \in Nat
         /\ readRemaining \in Nat /\ readLength \in Nat /\ readMaskPos \in Nat
         /\ messages \in Seq(Message) /\ Len(messages) \in Nat
         /\ \A m \in 1..Len(messages) :
              /\ messages[m].start \in Nat /\ messages[m].bytes \in Seq(Byte)
              /\ Len(messages[m].bytes) \in Nat /\ messages[m].done \in BOOLEAN
<1>1. frames \in Stream /\ at \in 0..Len(frames) /\ stream \in Seq(Unit)
      /\ messages \in Seq(Message)
      /\ readRemaining \in Nat /\ readLength \in Nat /\ readMaskPos \in Nat
  BY DEF ReaderTypeOK
<1>2. Len(frames) \in Nat /\ Len(messages) \in Nat /\ Len(stream) \in Nat
  BY <1>1, Scenario
<1>3. \A m \in 1..Len(messages) : messages[m] \in Message
  BY <1>1
<1>4. \A d \in Message : d.start \in Nat /\ d.bytes \in Seq(Byte) /\ d.done \in BOOLEAN
                        /\ Len(d.bytes) \in Nat
  BY DEF Message
<1>5. readLimit \in Nat
  <2>1. readLimit \in Limits
    BY DEF ReaderTypeOK
  <2>2. Limits \subseteq 0..MaxInt /\ MaxInt \in Nat
    BY ReaderAssumption
  <2> QED
    BY <2>1, <2>2
<1> QED
  BY <1>1, <1>2, <1>3, <1>4, <1>5

(* The state in which advanceFrame runs. *)
LEMMA RestIs ==
  ASSUME ReaderTypeOK, StreamInv, readErr = "none", readRemaining <= Len(stream)
  PROVE  /\ Rest \in Seq(Unit) /\ Len(Rest) = Len(stream) - readRemaining
         /\ Rest # <<>> =>
              /\ at + 1 \in 1..Len(frames)
              /\ NextPlace + readRemaining = UnitPlaces[at + 1]
              /\ Rest[1] = [of |-> at + 1, part |-> "head", n |-> 0]
              /\ UnitPlaces[at + 1] + Len(Rest) <= Len(Units(frames))
              /\ \A i \in 1..Len(Rest) : Rest[i] = Units(frames)[UnitPlaces[at + 1] + i]
<1>1. /\ frames \in Stream /\ stream \in Seq(Unit) /\ readRemaining \in Nat /\ at \in 0..Len(frames)
      /\ Len(stream) \in Nat /\ Len(frames) \in Nat /\ at \in Nat
  BY TypeFacts
<1>2. /\ Rest \in Seq(Unit) /\ Len(Rest) = Len(stream) - readRemaining
      /\ \A i \in 1..Len(stream) - readRemaining : Rest[i] = stream[readRemaining + i]
  BY <1>1, FromIs DEF Rest
<1>3. /\ at = 0 => readRemaining = 0
      /\ at > 0 => readRemaining <= frames[at].len
      /\ NextPlace + Len(stream) <= Len(Units(frames))
      /\ \A i \in 1..Len(stream) : stream[i] = Units(frames)[NextPlace + i]
  BY DEF StreamInv
<1> DEFINE p == NextPlace + readRemaining
<1>4. /\ UnitPlaces[1] = 0 /\ Len(Units(frames)) = UnitPlaces[Len(frames) + 1]
      /\ \A i \in 1..Len(frames) + 1 : UnitPlaces[i] \in Nat
      /\ \A i \in 1..Len(frames) : /\ Header(frames[i]) \in Nat
                                   /\ UnitPlaces[i + 1] = UnitPlaces[i] + Header(frames[i]) + frames[i].have
                                   /\ Units(frames)[UnitPlaces[i] + 1] = [of |-> i, part |-> "head", n |-> 0]
  BY <1>1, UnitsAt
<1>5. \A i \in 1..Len(frames) : /\ frames[i].len \in Nat /\ frames[i].have \in Nat
                                /\ frames[i].have <= frames[i].len
                                /\ i < Len(frames) => frames[i].have = frames[i].len
  BY <1>1, Scenario
<1>6. NextPlace \in Nat
  <2>1. CASE at = 0
    BY <2>1 DEF NextPlace
  <2>2. CASE at # 0
    <3>1. at \in 1..Len(frames) /\ at \in 1..Len(frames) + 1 /\ at > 0
      BY <1>1, <2>2
    <3>2. UnitPlaces[at] \in Nat /\ Header(frames[at]) \in Nat /\ frames[at].len - readRemaining \in Nat
      <4>1. UnitPlaces[at] \in Nat /\ Header(frames[at]) \in Nat
        BY <1>4, <3>1
      <4>2. frames[at].len \in Nat /\ readRemaining <= frames[at].len
        BY <1>3, <1>5, <3>1
      <4>3. frames[at].len - readRemaining \in Nat
        BY <1>1, <4>2
      <4> QED
        BY <4>1, <4>3
    <3> QED
      BY <2>2, <3>2 DEF NextPlace
  <2> QED
    BY <2>1, <2>2
<1>7. ASSUME Rest # <<>> PROVE at + 1 \in 1..Len(frames) /\ p = UnitPlaces[at + 1]
  <2>0. Len(Rest) >= 1 /\ p + 1 <= Len(Units(frames)) /\ p \in Nat
    <3>1. Len(Rest) >= 1
      BY <1>2, <1>7
    <3>2. Len(stream) >= readRemaining + 1
      BY <1>1, <1>2, <3>1
    <3>3. Len(Units(frames)) \in Nat
      BY <1>1, <1>4
    <3> QED
      BY <1>1, <1>3, <1>6, <3>1, <3>2, <3>3
  <2>1. CASE at = 0
    <3>1. p = 0 /\ UnitPlaces[at + 1] = 0
      BY <1>3, <1>4, <2>1 DEF NextPlace
    <3>2. Len(frames) # 0
      BY <1>4, <2>0, <3>1
    <3> QED
      BY <1>1, <2>1, <3>1, <3>2
  <2>2. CASE at # 0
    <3>1. at \in 1..Len(frames) /\ at \in 1..Len(frames) + 1 /\ at > 0
      BY <1>1, <2>2
    <3>2. UnitPlaces[at] \in Nat /\ Header(frames[at]) \in Nat /\ frames[at].len \in Nat /\ frames[at].have \in Nat
      BY <1>4, <1>5, <3>1
    <3>3. p = UnitPlaces[at] + Header(frames[at]) + frames[at].len
      BY <1>1, <2>2, <3>2 DEF NextPlace
    <3>4. UnitPlaces[at + 1] = UnitPlaces[at] + Header(frames[at]) + frames[at].have
      BY <1>4, <3>1
    <3>5. at # Len(frames)
      <4> SUFFICES ASSUME at = Len(frames) PROVE FALSE
        OBVIOUS
      <4>1. Len(Units(frames)) = UnitPlaces[at] + Header(frames[at]) + frames[at].have
        BY <1>4, <3>4
      <4>2. frames[at].have <= frames[at].len
        BY <1>5, <3>1
      <4> HIDE DEF p
      <4> QED
        BY <2>0, <3>2, <3>3, <4>1, <4>2, SMTT(30)
    <3>6. at < Len(frames) /\ frames[at].have = frames[at].len
      BY <1>1, <1>5, <3>1, <3>5
    <3> QED
      BY <1>1, <3>3, <3>4, <3>6
  <2> QED
    BY <2>1, <2>2
<1>8. \A i \in 1..Len(Rest) : Rest[i] = Units(frames)[p + i]
  <2> SUFFICES ASSUME NEW i \in 1..Len(Rest) PROVE Rest[i] = Units(frames)[p + i]
    OBVIOUS
  <2>1. i \in 1..Len(stream) - readRemaining /\ readRemaining + i \in 1..Len(stream)
    BY <1>1, <1>2
  <2>2. Rest[i] = stream[readRemaining + i] /\ stream[readRemaining + i] = Units(frames)[NextPlace + (readRemaining + i)]
    BY <1>2, <1>3, <2>1
  <2>3. NextPlace + (readRemaining + i) = p + i
    BY <1>1, <1>6, <2>1
  <2> QED
    BY <2>2, <2>3
<1>9. p + Len(Rest) <= Len(Units(frames))
  BY <1>1, <1>2, <1>3, <1>6
<1>10. ASSUME Rest # <<>> PROVE Rest[1] = [of |-> at + 1, part |-> "head", n |-> 0]
  <2>1. Len(Rest) >= 1 /\ 1 \in 1..Len(Rest)
    BY <1>2, <1>10
  <2> HIDE DEF p
  <2> QED
    BY <1>4, <1>7, <1>8, <1>10, <2>1
<1> HIDE DEF p
<1>11. NextPlace + readRemaining = p
  BY DEF p
<1> QED
  BY <1>2, <1>7, <1>8, <1>9, <1>10, <1>11

-----------------------------------------------------------------------------
(* What advanceFrame makes sure of. *)

(* The head of a frame is not refused. *)
LEMMA HeadIs ==
  ASSUME NEW s, NEW i, s # <<>>, s[1].of = i, s[1].part = "head", HeaderError(s) = "none"
  PROVE  LET f == frames[i]
         IN /\ ~HeadError(f) /\ f.masked = isServer /\ ~(Len(s) < Header(f))
            /\ f.form = "long" => ~(Signed(f.len) < 0)
<1> DEFINE f == frames[i]
<1>1. HeaderError(s) =
        IF HeadError(f) THEN "protocol"
        ELSE IF f.form # "short" /\ Len(s) < 2 THEN "unexpected EOF"
        ELSE IF f.form = "long" /\ Signed(f.len) < 0 THEN "limit"
        ELSE IF f.masked # isServer THEN "protocol"
        ELSE IF Len(s) < Header(f) THEN "unexpected EOF"
        ELSE "none"
  BY DEF HeaderError
<1> HIDE DEF f
<1> QED
  BY <1>1 DEF f

(* What advanceFrame has made sure of when it does not fail. *)
LEMMA FrameIsLegal ==
  ASSUME ReaderTypeOK, StreamInv, LegalInv, LengthInv, readErr = "none",
         FrameError(Rest) = "none"
  PROVE  LET f == frames[at + 1]
         IN /\ readRemaining <= Len(stream) /\ Rest # <<>> /\ Rest[1].of = at + 1
            /\ at + 1 \in 1..Len(frames)
            /\ Header(f) <= Len(Rest) /\ (~Data(f) => Header(f) + f.len <= Len(Rest))
            /\ Legal(at + 1)
            /\ f.op \in Start => readFinal
            /\ f.op = "cont" => ~readFinal
            /\ Data(f) => /\ readLength + f.len <= MaxInt
                          /\ readLimit > 0 => readLength + f.len <= readLimit
<1> DEFINE f == frames[at + 1]
<1>0. /\ frames \in Stream /\ readRemaining \in Nat /\ Len(stream) \in Nat /\ readLength \in Nat
      /\ at \in Nat /\ MaxInt \in Nat
  BY TypeFacts, ReaderAssumption
<1>1. readRemaining <= Len(stream)
  BY <1>0 DEF FrameError
<1>2. HeaderError(Rest) = "none"
  <2>1. HeaderError(Rest) # "none" => FrameError(Rest) = HeaderError(Rest)
    BY <1>0, <1>1 DEF FrameError
  <2> QED
    BY <2>1
<1>3. Rest # <<>>
  BY <1>2 DEF HeaderError
<1>4. /\ at + 1 \in 1..Len(frames) /\ Rest[1].of = at + 1 /\ Rest[1].part = "head"
      /\ Len(Rest) \in Nat
  BY <1>0, <1>1, <1>3, RestIs
<1>5. /\ ~HeadError(f) /\ f.masked = isServer /\ ~(Len(Rest) < Header(f))
      /\ f.form = "long" => ~(Signed(f.len) < 0)
  BY <1>2, <1>3, <1>4, HeadIs
<1>6. /\ f.len \in Nat /\ f.len <= 2 * MaxInt + 1 /\ Header(f) \in Nat
      /\ f.form # "long" => f.len <= MaxInt
  BY <1>0, <1>4, Scenario, UnitsAt
<1>7. f.len <= MaxInt
  <2>1. f.len \in 0..2 * MaxInt + 1
    BY <1>0, <1>6
  <2>2. Signed(f.len) < 0 <=> f.len > MaxInt
    BY <2>1, SignedIs
  <2> QED
    BY <1>0, <1>5, <1>6, <2>2
<1>8. FrameError(Rest) =
        IF Data(f) THEN LimitError(f)
        ELSE IF Len(Rest) < Header(f) + f.len THEN "unexpected EOF"
        ELSE IF f.op = "badclose" THEN "protocol"
        ELSE IF f.op = "close" THEN "close" ELSE "none"
  <2>1. ~(Len(stream) < readRemaining)
    BY <1>0, <1>1
  <2> QED
    BY <1>2, <1>4, <2>1 DEF FrameError
<1> HIDE DEF f
<1>9. ASSUME ~Data(f) PROVE Header(f) + f.len <= Len(Rest)
  <2>1. ~(Len(Rest) < Header(f) + f.len)
    BY <1>8, <1>9
  <2> QED
    BY <1>4, <1>6, <2>1
<1>10. ASSUME Data(f)
       PROVE  readLength + f.len <= MaxInt /\ (readLimit > 0 => readLength + f.len <= readLimit)
  <2>1. LimitError(f) = "none"
    BY <1>8, <1>10
  <2>2. readLength <= MaxInt
    BY DEF LengthInv
  <2>3. readLength + f.len \in 0..2 * MaxInt + 1
    BY <1>0, <1>6, <1>7, <2>2
  <2> DEFINE n == readLength + f.len
  <2>4. (Signed(n) < 0 <=> n > MaxInt) /\ (n <= MaxInt => Signed(n) = n)
    BY <2>3, SignedIs
  <2>5. ~(Signed(n) < 0) /\ ~(readLimit > 0 /\ Signed(n) > readLimit)
    BY <2>1 DEF LimitError
  <2>6. readLimit \in Nat
    BY TypeFacts
  <2>7. n \in Nat
    BY <1>0, <1>6
  <2> HIDE DEF n
  <2>8. n <= MaxInt /\ (readLimit > 0 => n <= readLimit)
    BY <1>0, <2>4, <2>5, <2>6, <2>7
  <2> QED
    BY <2>8 DEF n
<1>11. /\ f.op \in Start => readFinal
       /\ f.op = "cont" => ~readFinal
  BY <1>5 DEF HeadError
<1>12. Legal(at + 1)
  <2>1. readFinal <=> ~Open(at + 1)
    BY DEF LegalInv
  <2>2. /\ ~f.rsv /\ f.masked = isServer /\ f.op \in Start \cup Control \cup {"cont"}
        /\ f.op \in Control => f.form = "short" /\ f.fin
        /\ f.op \in Start => readFinal
        /\ f.op = "cont" => ~readFinal
    BY <1>5 DEF HeadError
  <2>3. Data(f) <=> f.op \in Start \/ f.op = "cont"
    BY DEF Data
  <2>4. f.op \in Start => f.op # "cont"
    BY DEF Start
  <2> QED
    BY <2>1, <2>2, <2>3, <2>4 DEF Legal, f
<1> QED
  BY <1>0, <1>1, <1>3, <1>4, <1>5, <1>6, <1>9, <1>10, <1>11, <1>12 DEF f

-----------------------------------------------------------------------------
(* Steps, and type correctness. *)

(* What is unmasked is a sequence of bytes. *)
LEMMA UnmaskedType ==
  ASSUME ReaderTypeOK, NEW n \in Nat, n <= Len(stream), NEW align
  PROVE  Unmasked(n, align) \in Seq(Byte) /\ Len(Unmasked(n, align)) = n
<1>1. \A i \in 1..n : stream[i] \in Unit
  BY TypeFacts
<1>2. \A u \in Unit : <<u.of, u.n>> \in Byte
  BY DEF Unit, Byte
<1>3. <<0, 0>> \in Byte
  BY DEF Byte
<1> DEFINE clean(i) == IF ~isServer THEN ~frames[stream[i].of].masked
                       ELSE /\ frames[stream[i].of].masked /\ stream[i].of = keyOf
                            /\ KeyPlaces(readMaskPos, n, align)[i - 1] = stream[i].n % KeyLen
           seen(i) == IF stream[i].part = "byte" /\ clean(i) THEN <<stream[i].of, stream[i].n>>
                      ELSE <<0, 0>>
<1>4. Unmasked(n, align) = [i \in 1..n |-> seen(i)]
  BY DEF Unmasked
<1>5. \A i \in 1..n : seen(i) \in Byte
  BY <1>1, <1>2, <1>3
<1> HIDE DEF seen
<1> QED
  BY <1>4, <1>5

(* The frame that an error is about. *)
LEMMA FailsAt ==
  ASSUME ReaderTypeOK, StreamInv, AdvanceFails
  PROVE  /\ readErr = "none" /\ readErr' # "none" /\ inputs' = inputs
         /\ at' \in 0..Len(frames) /\ at <= at'
         /\ \/ Rest = <<>> /\ at' = at
            \/ /\ Rest # <<>> /\ at' = at + 1 /\ Rest[1].of = at + 1 /\ Rest[1].part = "head"
               /\ readRemaining <= Len(stream)
<1>0. readErr = "none" /\ readErr' # "none" /\ inputs' = inputs
  <2>1. readErr = "none" /\ inputs' = inputs
    BY DEF AdvanceFails, Advancing
  <2>2. \E e : e # "none" /\ readErr' = IF e = "too big" THEN "limit" ELSE e
    BY DEF AdvanceFails
  <2> QED
    BY <2>1, <2>2
<1>1. at' = IF Rest = <<>> THEN at ELSE Rest[1].of
  BY DEF AdvanceFails
<1>2. at \in Nat /\ at \in 0..Len(frames) /\ Len(stream) \in Nat /\ readRemaining \in Nat
  BY TypeFacts
<1>3. Rest # <<>> => readRemaining <= Len(stream)
  <2>1. ASSUME ~(readRemaining <= Len(stream)) PROVE Rest = <<>>
    <3>1. readRemaining + 1 > Len(stream)
      BY <1>2, <2>1
    <3>2. SubSeq(stream, readRemaining + 1, Len(stream)) = <<>>
      BY <1>2, <3>1, SubSeqEmpty
    <3> QED
      BY <3>2 DEF Rest, From
  <2> QED
    BY <2>1
<1>4. Rest # <<>> => at + 1 \in 1..Len(frames) /\ Rest[1] = [of |-> at + 1, part |-> "head", n |-> 0]
  BY <1>0, <1>3, RestIs
<1> QED
  BY <1>0, <1>1, <1>2, <1>3, <1>4

(* Length and members of a sequence with one more. *)
LEMMA AppendIs ==
  ASSUME NEW T, NEW s \in Seq(T), NEW x \in T
  PROVE  /\ Append(s, x) \in Seq(T) /\ Len(Append(s, x)) = Len(s) + 1
         /\ \A i \in 1..Len(s) : Append(s, x)[i] = s[i]
         /\ Append(s, x)[Len(s) + 1] = x
OBVIOUS

(* The frame that is begun. *)
LEMMA AdvanceFrameIs ==
  ASSUME ReaderTypeOK, StreamInv, LegalInv, LengthInv, AdvanceFrame
  PROVE  LET f == frames[at + 1]
         IN /\ readErr = "none" /\ readErr' = "none" /\ inputs' = inputs /\ at' = at + 1
            /\ keyOf' = (IF f.masked THEN at' ELSE keyOf)
            /\ readMaskPos' = (IF f.masked THEN 0 ELSE readMaskPos)
            /\ Data(f) => /\ stream' = From(Rest, Header(f))
                          /\ readRemaining' = f.len /\ readFinal' = f.fin
                          /\ readLength' = readLength + f.len
            /\ ~Data(f) => /\ stream' = From(Rest, Header(f) + f.len)
                           /\ readRemaining' = 0 /\ readFinal' = readFinal /\ readLength' = readLength
            /\ pc = "NextReader" /\ f.op \in Start =>
                 /\ pc' = "app" /\ reader' = TRUE
                 /\ messages' = Append(messages, [start |-> at + 1, bytes |-> <<>>, done |-> FALSE])
            /\ ~(pc = "NextReader" /\ f.op \in Start) =>
                 pc' = pc /\ reader' = reader /\ messages' = messages
            /\ room' = room /\ told' = told /\ readErrCount' = readErrCount
<1>1. readErr = "none" /\ FrameError(Rest) = "none"
  BY DEF AdvanceFrame, Advancing
<1>2. Rest[1].of = at + 1
  BY <1>1, FrameIsLegal
<1>3. at' = at + 1
  BY <1>2 DEF AdvanceFrame
<1> QED
  BY <1>1, <1>3 DEF AdvanceFrame

(* Length and members of a sequence with one changed. *)
LEMMA ExceptIs ==
  ASSUME NEW T, NEW s \in Seq(T), NEW c \in 1..Len(s), NEW x \in T
  PROVE  /\ [s EXCEPT ![c] = x] \in Seq(T) /\ Len([s EXCEPT ![c] = x]) = Len(s)
         /\ [s EXCEPT ![c] = x][c] = x
         /\ \A m \in 1..Len(s) : m # c => [s EXCEPT ![c] = x][m] = s[m]
OBVIOUS

Changed(c, b, e) == [messages EXCEPT ![c].bytes = b, ![c].done = e]

(* One message changed. *)
LEMMA MessageSet ==
  ASSUME ReaderTypeOK, NEW c \in 1..Len(messages), NEW b \in Seq(Byte), NEW e \in BOOLEAN
  PROVE  /\ Changed(c, b, e) \in Seq(Message) /\ Len(Changed(c, b, e)) = Len(messages)
         /\ \A m \in 1..Len(messages) : m # c => Changed(c, b, e)[m] = messages[m]
         /\ Changed(c, b, e)[c].start = messages[c].start
         /\ Changed(c, b, e)[c].bytes = b /\ Changed(c, b, e)[c].done = e
<1>1. messages \in Seq(Message) /\ messages[c] \in Message /\ Len(messages) \in Nat
  BY TypeFacts
<1> DEFINE new == [messages[c] EXCEPT !.bytes = b, !.done = e]
           ms == [messages EXCEPT ![c] = new]
<1>2. new \in Message /\ new.start = messages[c].start /\ new.bytes = b /\ new.done = e
  BY <1>1 DEF Message
<1>3. Changed(c, b, e) = ms
  <2>1. DOMAIN messages = 1..Len(messages)
    BY <1>1
  <2> QED
    BY <1>1, <2>1 DEF Changed
<1> HIDE DEF new
<1>4. ms \in Seq(Message) /\ Len(ms) = Len(messages) /\ ms[c] = new
      /\ \A m \in 1..Len(messages) : m # c => ms[m] = messages[m]
  <2>1. c \in 1..Len(messages) /\ messages \in Seq(Message) /\ new \in Message
    BY <1>1, <1>2
  <2>2. ms \in Seq(Message)
    BY <2>1
  <2>3. Len(ms) = Len(messages) /\ ms[c] = new
    BY <2>1
  <2>4. \A m \in 1..Len(messages) : m # c => ms[m] = messages[m]
    BY <2>1
  <2> QED
    BY <2>2, <2>3, <2>4
<1> HIDE DEF ms
<1> QED
  BY <1>2, <1>3, <1>4

(* Some bytes are read. *)
LEMMA ReadBytesIs ==
  ASSUME ReaderTypeOK, CurrentInv, ReadBytes
  PROVE  /\ readErr = "none" /\ reader /\ inputs' = inputs /\ readRemaining > 0
         /\ Current \in 1..Len(messages) /\ Len(messages) > 0
         /\ UNCHANGED <<readFinal, readLength, keyOf, at, reader, told, readErrCount, room>>
         /\ pc' = "app"
         /\ \E n \in Nat, align \in 0..WordSize - 1, end \in BOOLEAN :
              /\ n >= 1 /\ n <= Len(stream) /\ n <= readRemaining /\ (end => n = Len(stream))
              /\ messages' \in Seq(Message) /\ Len(messages') = Len(messages)
              /\ \A m \in 1..Len(messages) : m # Current => messages'[m] = messages[m]
              /\ messages'[Current].start = messages[Current].start
              /\ messages'[Current].bytes = messages[Current].bytes \o Unmasked(n, align)
              /\ messages'[Current].done = (end /\ n = readRemaining)
              /\ stream' = From(stream, n) /\ readRemaining' = readRemaining - n
              /\ readMaskPos' = IF isServer THEN MaskedTo(readMaskPos, n) ELSE readMaskPos
              /\ readErr' = IF ~end THEN "none" ELSE IF n = readRemaining THEN "EOF" ELSE "unexpected EOF"
<1>1. /\ readErr = "none" /\ reader /\ inputs' = inputs /\ readRemaining > 0
      /\ UNCHANGED <<readFinal, readLength, keyOf, at, reader, told, readErrCount, room>>
      /\ pc' = "app"
  BY DEF ReadBytes, OnlyRead, CurrentInv
<1>2. Current \in 1..Len(messages) /\ Len(messages) > 0
  BY <1>1, TypeFacts DEF CurrentInv, Current
<1>3. PICK n \in 1..Least(Least(room, readRemaining), Len(stream)), align \in 0..WordSize - 1, end \in BOOLEAN :
        /\ end => n = Len(stream)
        /\ messages' = [messages EXCEPT ![Current].bytes = @ \o Unmasked(n, align),
                          ![Current].done = end /\ n = readRemaining]
        /\ stream' = From(stream, n) /\ readRemaining' = readRemaining - n
        /\ readMaskPos' = IF isServer THEN MaskedTo(readMaskPos, n) ELSE readMaskPos
        /\ readErr' = CASE ~end -> "none"
                        [] end /\ n = readRemaining -> "EOF"
                        [] OTHER -> "unexpected EOF"
  BY DEF ReadBytes
<1>4. n \in Nat /\ n >= 1 /\ n <= Len(stream) /\ n <= readRemaining
  <2>1. room \in Nat /\ readRemaining \in Nat /\ Len(stream) \in Nat
    BY TypeFacts DEF ReaderTypeOK
  <2>2. n \in Nat /\ n >= 1
    BY <2>1 DEF Least
  <2>3. Least(Least(room, readRemaining), Len(stream)) <= Len(stream)
        /\ Least(Least(room, readRemaining), Len(stream)) <= readRemaining
        /\ Least(Least(room, readRemaining), Len(stream)) \in Nat
    BY <2>1 DEF Least
  <2> QED
    BY <2>1, <2>2, <2>3
<1> DEFINE b == messages[Current].bytes \o Unmasked(n, align)
           e == end /\ n = readRemaining
<1>5. b \in Seq(Byte)
  <2>1. Unmasked(n, align) \in Seq(Byte) /\ messages[Current].bytes \in Seq(Byte)
    BY <1>2, <1>4, UnmaskedType, TypeFacts
  <2> QED
    BY <2>1
<1>6. messages' = [messages EXCEPT ![Current].bytes = b, ![Current].done = e]
  BY <1>3
<1>7. e \in BOOLEAN
  OBVIOUS
<1> HIDE DEF b, e
<1>8. /\ messages' \in Seq(Message) /\ Len(messages') = Len(messages)
      /\ \A m \in 1..Len(messages) : m # Current => messages'[m] = messages[m]
      /\ messages'[Current].start = messages[Current].start
      /\ messages'[Current].bytes = b /\ messages'[Current].done = e
  <2>1. messages' = Changed(Current, b, e)
    BY <1>6 DEF Changed
  <2> QED
    BY <1>2, <1>5, <1>7, <2>1, MessageSet
<1>9. readErr' = IF ~end THEN "none" ELSE IF n = readRemaining THEN "EOF" ELSE "unexpected EOF"
  BY <1>3
<1> QED
  BY <1>1, <1>2, <1>3, <1>4, <1>8, <1>9 DEF b, e

(* The end of a message is read. *)
LEMMA ReadEndIs ==
  ASSUME ReaderTypeOK, CurrentInv, ReadEnd
  PROVE  /\ readErr = "none" /\ reader /\ readRemaining = 0 /\ readFinal
         /\ Current \in 1..Len(messages) /\ Len(messages) > 0
         /\ UNCHANGED <<inputs, stream, frameVars, readErr, room, told, readErrCount>>
         /\ pc' = "app" /\ ~reader'
         /\ messages' \in Seq(Message) /\ Len(messages') = Len(messages)
         /\ \A m \in 1..Len(messages) : m # Current => messages'[m] = messages[m]
         /\ messages'[Current].start = messages[Current].start
         /\ messages'[Current].bytes = messages[Current].bytes
         /\ messages'[Current].done = TRUE
<1>1. /\ readErr = "none" /\ reader /\ readRemaining = 0 /\ readFinal
      /\ UNCHANGED <<inputs, stream, frameVars, readErr, room, told, readErrCount>>
      /\ pc' = "app" /\ ~reader'
  BY DEF ReadEnd, CurrentInv
<1>2. Current \in 1..Len(messages) /\ Len(messages) > 0
  BY <1>1, TypeFacts DEF CurrentInv, Current
<1>3. messages \in Seq(Message) /\ messages[Current] \in Message /\ messages[Current].bytes \in Seq(Byte)
  BY <1>2, TypeFacts
<1>4. messages' = [messages EXCEPT ![Current].bytes = messages[Current].bytes, ![Current].done = TRUE]
  <2>1. messages' = [messages EXCEPT ![Current].done = TRUE]
    BY DEF ReadEnd
  <2>2. [messages[Current] EXCEPT !.done = TRUE]
          = [messages[Current] EXCEPT !.bytes = messages[Current].bytes, !.done = TRUE]
    BY <1>3 DEF Message
  <2>3. DOMAIN messages = 1..Len(messages)
    BY <1>3
  <2> QED
    BY <1>2, <2>1, <2>2, <2>3
<1>5. /\ messages' \in Seq(Message) /\ Len(messages') = Len(messages)
      /\ \A m \in 1..Len(messages) : m # Current => messages'[m] = messages[m]
      /\ messages'[Current].start = messages[Current].start
      /\ messages'[Current].bytes = messages[Current].bytes
      /\ messages'[Current].done = TRUE
  <2> DEFINE e == TRUE
             b == messages[Current].bytes
  <2>1. messages' = Changed(Current, b, e) /\ e \in BOOLEAN /\ b \in Seq(Byte)
    BY <1>3, <1>4 DEF Changed
  <2> HIDE DEF e, b
  <2>2. /\ messages' \in Seq(Message) /\ Len(messages') = Len(messages)
        /\ \A m \in 1..Len(messages) : m # Current => messages'[m] = messages[m]
        /\ messages'[Current].start = messages[Current].start
        /\ messages'[Current].bytes = b /\ messages'[Current].done = e
    BY <1>2, <2>1, MessageSet
  <2> QED
    BY <2>2 DEF e, b
<1> QED
  BY <1>1, <1>2, <1>5

(* Every step keeps the types. *)
LEMMA TypeStep ==
  ASSUME ReaderIInv, [ReaderNext]_readerVars
  PROVE  ReaderTypeOK'
<1> USE DEF ReaderIInv
<1>0. MaxInt \in Nat /\ KeyLen \in Nat /\ KeyLen > 0
  BY ReaderAssumption
<1>i. ASSUME inputs' = inputs
      PROVE  frames' \in Stream /\ isServer' \in BOOLEAN /\ readLimit' \in Limits /\ frames' = frames
  BY <1>i DEF ReaderTypeOK, inputs
<1>1. CASE AdvanceFails
  <2>1. at' \in 0..Len(frames) /\ inputs' = inputs
    BY <1>1, FailsAt
  <2>2. readErr' \in {"none", "protocol", "limit", "unexpected EOF", "EOF", "close", "write"}
    <3>1. PICK e \in {FrameError(Rest), "write"} : readErr' = IF e = "too big" THEN "limit" ELSE e
      BY <1>1 DEF AdvanceFails
    <3>2. \A s : HeaderError(s) \in {"none", "protocol", "limit", "unexpected EOF"}
      BY DEF HeaderError
    <3>3. \A f : LimitError(f) \in {"none", "limit", "too big"}
      BY DEF LimitError
    <3>4. FrameError(Rest) \in {"none", "protocol", "limit", "unexpected EOF", "too big", "EOF", "close"}
      BY <3>2, <3>3 DEF FrameError
    <3> QED
      BY <3>1, <3>4
  <2>3. told' \in {"none", "protocol", "too big", "close"}
    BY <1>1 DEF AdvanceFails, ReaderTypeOK
  <2>4. readErrCount' \in Nat /\ pc' = "app"
    <3>1. readErrCount \in Nat
      BY DEF ReaderTypeOK
    <3>2. readErrCount' = readErrCount + (IF pc = "NextReader" THEN 1 ELSE 0) /\ pc' = "app"
      BY <1>1 DEF AdvanceFails
    <3> QED
      BY <3>1, <3>2
  <2>5. UNCHANGED <<stream, readRemaining, readFinal, readLength, readMaskPos, keyOf,
                    reader, room, messages>>
    BY <1>1 DEF AdvanceFails
  <2> QED
    BY <1>i, <2>1, <2>2, <2>3, <2>4, <2>5 DEF ReaderTypeOK
<1>2. CASE AdvanceFrame
  <2> DEFINE f == frames[at + 1]
  <2>1. /\ readRemaining <= Len(stream) /\ Rest # <<>> /\ at + 1 \in 1..Len(frames)
        /\ Header(f) <= Len(Rest) /\ (~Data(f) => Header(f) + f.len <= Len(Rest))
    BY <1>2, FrameIsLegal DEF AdvanceFrame, Advancing
  <2>2. Rest \in Seq(Unit) /\ readLength \in Nat /\ frames \in Stream /\ at \in Nat
    BY <1>2, <2>1, RestIs, TypeFacts DEF AdvanceFrame, Advancing
  <2>3. f.len \in Nat /\ Header(f) \in Nat /\ f.fin \in BOOLEAN
    BY <2>1, <2>2, Scenario, UnitsAt DEF Frame
  <2> HIDE DEF f
  <2>4. From(Rest, Header(f)) \in Seq(Unit)
        /\ (~Data(f) => From(Rest, Header(f) + f.len) \in Seq(Unit))
    BY <2>1, <2>2, <2>3, FromIs
  <2>5. inputs' = inputs /\ at' \in 0..Len(frames) /\ stream' \in Seq(Unit) /\ readRemaining' \in Nat
        /\ readFinal' \in BOOLEAN /\ readLength' \in Nat /\ keyOf' \in Nat /\ readMaskPos' \in Nat
    <3>1. inputs' = inputs /\ at' = at + 1
      BY <1>2, AdvanceFrameIs
    <3>2. at' \in 0..Len(frames) /\ at' \in Nat
      BY <2>1, <2>2, <3>1
    <3>3. keyOf' \in Nat /\ readMaskPos' \in Nat
      <4>1. keyOf' = (IF f.masked THEN at' ELSE keyOf) /\ readMaskPos' = (IF f.masked THEN 0 ELSE readMaskPos)
        BY <1>2, AdvanceFrameIs DEF f
      <4>2. keyOf \in Nat /\ readMaskPos \in Nat
        BY DEF ReaderTypeOK
      <4> QED
        BY <3>2, <4>1, <4>2
    <3>4. CASE Data(f)
      <4>1. /\ stream' = From(Rest, Header(f)) /\ readRemaining' = f.len /\ readFinal' = f.fin
            /\ readLength' = readLength + f.len
        BY <1>2, <3>4, AdvanceFrameIs DEF f
      <4> QED
        BY <2>2, <2>3, <2>4, <3>1, <3>2, <3>3, <4>1
    <3>5. CASE ~Data(f)
      <4>1. /\ stream' = From(Rest, Header(f) + f.len) /\ readRemaining' = 0 /\ readFinal' = readFinal
            /\ readLength' = readLength
        BY <1>2, <3>5, AdvanceFrameIs DEF f
      <4> QED
        BY <2>2, <2>4, <3>1, <3>2, <3>3, <3>5, <4>1 DEF ReaderTypeOK
    <3> QED
      BY <3>4, <3>5
  <2>6. messages' \in Seq(Message) /\ pc' \in {"app", "NextReader", "Read"} /\ reader' \in BOOLEAN
    <3>1. [start |-> at + 1, bytes |-> <<>>, done |-> FALSE] \in Message
      BY <2>2 DEF Message
    <3>2. Append(messages, [start |-> at + 1, bytes |-> <<>>, done |-> FALSE]) \in Seq(Message)
      BY <3>1, TypeFacts
    <3> QED
      BY <1>2, <3>2, AdvanceFrameIs DEF ReaderTypeOK, f
  <2> QED
    BY <1>2, <1>i, <2>5, <2>6 DEF ReaderTypeOK, AdvanceFrame
<1>3. CASE NextReader
  BY <1>3, <1>i DEF NextReader, ReaderTypeOK
<1>4. CASE NextReaderAgain
  <2>1. readErrCount' \in Nat
    <3>1. readErrCount \in Nat
      BY DEF ReaderTypeOK
    <3> QED
      BY <1>4, <3>1 DEF NextReaderAgain
  <2> QED
    BY <1>4, <1>i, <2>1 DEF NextReaderAgain, ReaderTypeOK
<1>5. CASE Read
  <2>1. room' \in Nat
    BY <1>5 DEF Read
  <2> QED
    BY <1>5, <1>i, <2>1, Zenon DEF Read, OnlyRead, ReaderTypeOK
<1>6. CASE ReadBytes
  <2>1. PICK n \in Nat : /\ n >= 1 /\ n <= Len(stream) /\ n <= readRemaining
                         /\ messages' \in Seq(Message)
                         /\ stream' = From(stream, n) /\ readRemaining' = readRemaining - n
                         /\ readMaskPos' = (IF isServer THEN MaskedTo(readMaskPos, n) ELSE readMaskPos)
                         /\ readErr' \in {"none", "EOF", "unexpected EOF"}
    BY <1>6, ReadBytesIs
  <2>2. stream' \in Seq(Unit)
    BY <2>1, FromIs, TypeFacts
  <2>3. readRemaining' \in Nat
    <3>1. readRemaining \in Nat
      BY TypeFacts
    <3>2. n \in Nat /\ n <= readRemaining /\ readRemaining' = readRemaining - n
      BY <2>1
    <3> QED
      BY <3>1, <3>2
  <2>4. readMaskPos' \in Nat
    <3>1. readMaskPos \in Nat
      BY TypeFacts
    <3>2. (readMaskPos + n) % KeyLen \in Nat
      BY <1>0, <3>1
    <3> QED
      BY <2>1, <3>1, <3>2 DEF MaskedTo
  <2>5. inputs' = inputs /\ pc' = "app"
        /\ UNCHANGED <<readFinal, readLength, keyOf, at, reader, told, readErrCount, room>>
    BY <1>6, ReadBytesIs
  <2> QED
    BY <1>i, <2>1, <2>2, <2>3, <2>4, <2>5 DEF ReaderTypeOK
<1>7. CASE ReadCut
  BY <1>7, <1>i DEF ReadCut, OnlyRead, ReaderTypeOK
<1>8. CASE ReadEnd
  <2>1. messages' \in Seq(Message)
    BY <1>8, ReadEndIs
  <2> QED
    BY <1>8, <1>i, <2>1 DEF ReadEnd, frameVars, ReaderTypeOK
<1>9. CASE UNCHANGED readerVars
  BY <1>9, <1>i DEF readerVars, inputs, frameVars, ReaderTypeOK
<1> QED
  BY <1>1, <1>2, <1>3, <1>4, <1>5, <1>6, <1>7, <1>8, <1>9 DEF ReaderNext

-----------------------------------------------------------------------------
(* The stream. *)

(* The place of the unit that is read next is a natural number. *)
LEMMA NextPlaceType ==
  ASSUME ReaderTypeOK, StreamInv, readErr = "none"
  PROVE  NextPlace \in Nat
<1>1. frames \in Stream /\ at \in 0..Len(frames) /\ Len(frames) \in Nat /\ readRemaining \in Nat
  BY TypeFacts
<1>2. CASE at = 0
  BY <1>2 DEF NextPlace
<1>3. CASE at # 0
  <2>1. at \in 1..Len(frames) /\ at \in 1..Len(frames) + 1 /\ at > 0
    BY <1>1, <1>3
  <2>2. UnitPlaces[at] \in Nat /\ Header(frames[at]) \in Nat
    BY <1>1, <2>1, UnitsAt
  <2>3. frames[at].len \in Nat /\ readRemaining <= frames[at].len
    BY <1>1, <2>1, Scenario DEF StreamInv
  <2>4. frames[at].len - readRemaining \in Nat
    BY <1>1, <2>3
  <2> QED
    BY <1>3, <2>2, <2>4 DEF NextPlace
<1> QED
  BY <1>2, <1>3

(* Every step keeps what is left of the stream where the fields say. *)
LEMMA StreamStep ==
  ASSUME ReaderIInv, [ReaderNext]_readerVars
  PROVE  StreamInv'
<1> USE DEF ReaderIInv
<1>s. ASSUME UNCHANGED <<inputs, stream, readRemaining, at, readErr>> PROVE StreamInv'
  <2>1. frames' = frames /\ Units(frames)' = Units(frames) /\ UnitPlaces' = UnitPlaces
    BY <1>s, SentStays
  <2>2. NextPlace' = NextPlace
    BY <1>s, <2>1 DEF NextPlace, Header
  <2> QED
    BY <1>s, <2>1, <2>2 DEF StreamInv, Data
<1>1. CASE AdvanceFails
  BY <1>1, FailsAt DEF StreamInv
<1>2. CASE AdvanceFrame
  <2> DEFINE f == frames[at + 1]
             h == IF Data(f) THEN Header(f) ELSE Header(f) + f.len
             p == UnitPlaces[at + 1]
             U == Units(frames)
  <2>0. readErr = "none" /\ frames \in Stream /\ at \in Nat /\ inputs' = inputs /\ at' = at + 1 /\ readErr' = "none"
    BY <1>2, AdvanceFrameIs, TypeFacts
  <2>1. /\ readRemaining <= Len(stream) /\ Rest # <<>> /\ at + 1 \in 1..Len(frames)
        /\ Header(f) <= Len(Rest) /\ (~Data(f) => Header(f) + f.len <= Len(Rest))
    BY <1>2, FrameIsLegal DEF AdvanceFrame, Advancing
  <2>2. /\ Rest \in Seq(Unit) /\ p + Len(Rest) <= Len(U)
        /\ \A i \in 1..Len(Rest) : Rest[i] = U[p + i]
    BY <2>0, <2>1, RestIs
  <2>3. f.len \in Nat /\ Header(f) \in Nat /\ p \in Nat /\ Len(Rest) \in Nat /\ Len(U) \in Nat
    <3>1. f.len \in Nat
      BY <2>0, <2>1, Scenario
    <3>2. at + 1 \in 1..Len(frames) + 1
      BY <2>0, <2>1
    <3>3. Header(f) \in Nat /\ p \in Nat /\ U \in Seq(Unit)
      BY <2>0, <2>1, <3>2, UnitsAt
    <3> QED
      BY <2>2, <3>1, <3>3
  <2>4. stream' = From(Rest, h) /\ readRemaining' = IF Data(f) THEN f.len ELSE 0
    BY <1>2, AdvanceFrameIs
  <2>5. frames' = frames /\ Units(frames)' = U /\ UnitPlaces' = UnitPlaces
    BY <2>0, SentStays
  <2>6. NextPlace' = p + Header(f) + (f.len - readRemaining')
    <3>1. at' # 0
      BY <2>0
    <3> QED
      BY <2>0, <2>5, <3>1 DEF NextPlace, Header
  <2> HIDE DEF f, p, U
  <2>8. h \in Nat /\ h <= Len(Rest) /\ NextPlace' = p + h
    BY <2>1, <2>3, <2>4, <2>6
  <2> HIDE DEF h
  <2>9. /\ Len(stream') = Len(Rest) - h
        /\ \A i \in 1..Len(Rest) - h : stream'[i] = Rest[h + i]
    BY <2>2, <2>4, <2>8, FromIs
  <2>10. NextPlace' + Len(stream') <= Len(U)
    BY <2>2, <2>3, <2>8, <2>9
  <2>11. \A i \in 1..Len(stream') : stream'[i] = U[NextPlace' + i]
    <3> SUFFICES ASSUME NEW i \in 1..Len(stream') PROVE stream'[i] = U[NextPlace' + i]
      OBVIOUS
    <3>1. i \in 1..Len(Rest) - h /\ h + i \in 1..Len(Rest) /\ p + (h + i) = (p + h) + i
      BY <2>3, <2>8, <2>9
    <3> QED
      BY <2>2, <2>8, <2>9, <3>1
  <2>12. frames'[at'] = f
    BY <2>0, <2>5 DEF f
  <2>13. at' # 0 /\ readRemaining' <= f.len /\ (~Data(f) => readRemaining' = 0)
    BY <2>0, <2>3, <2>4
  <2>14. frames'[at'].len = f.len /\ Data(frames[at])' = Data(f)
    BY <2>12 DEF Data
  <2> QED
    BY <2>5, <2>10, <2>11, <2>13, <2>14 DEF StreamInv, U
<1>3. CASE NextReader
  BY <1>3, <1>s DEF NextReader
<1>4. CASE NextReaderAgain
  BY <1>4, <1>s DEF NextReaderAgain
<1>5. CASE Read
  BY <1>5, <1>s DEF Read, OnlyRead
<1>6. CASE ReadBytes
  <2>1. readErr = "none" /\ inputs' = inputs /\ at' = at /\ readRemaining > 0
    BY <1>6, ReadBytesIs
  <2>2. PICK n \in Nat : /\ n >= 1 /\ n <= Len(stream) /\ n <= readRemaining
                         /\ stream' = From(stream, n) /\ readRemaining' = readRemaining - n
    BY <1>6, ReadBytesIs
  <2>3. frames' = frames /\ Units(frames)' = Units(frames) /\ UnitPlaces' = UnitPlaces
    BY <2>1, SentStays
  <2>4. stream \in Seq(Unit) /\ Len(stream) \in Nat /\ readRemaining \in Nat /\ at \in 0..Len(frames) /\ frames \in Stream
        /\ Len(frames) \in Nat
    BY TypeFacts
  <2>5. /\ Len(stream') = Len(stream) - n
        /\ \A i \in 1..Len(stream) - n : stream'[i] = stream[n + i]
    BY <2>2, <2>4, FromIs
  <2>6. /\ at # 0 /\ readRemaining <= frames[at].len /\ Data(frames[at])
        /\ NextPlace + Len(stream) <= Len(Units(frames))
        /\ \A i \in 1..Len(stream) : stream[i] = Units(frames)[NextPlace + i]
    <3>1. at # 0
      BY <2>1 DEF StreamInv
    <3>2. at > 0
      BY <2>4, <3>1
    <3> QED
      BY <2>1, <3>1, <3>2 DEF StreamInv
  <2>7. /\ frames[at].len \in Nat /\ UnitPlaces[at] \in Nat /\ Header(frames[at]) \in Nat
        /\ Len(Units(frames)) \in Nat
    <3>1. at \in 1..Len(frames) /\ at \in 1..Len(frames) + 1
      BY <2>4, <2>6
    <3>2. UnitPlaces[at] \in Nat /\ Header(frames[at]) \in Nat /\ Units(frames) \in Seq(Unit)
      BY <2>4, <3>1, UnitsAt
    <3>3. frames[at].len \in Nat
      BY <2>4, <3>1, Scenario
    <3> QED
      BY <3>2, <3>3
  <2>8. NextPlace' = NextPlace + n /\ NextPlace \in Nat
    <3>1. NextPlace' = UnitPlaces[at] + Header(frames[at]) + (frames[at].len - readRemaining')
      BY <2>1, <2>3, <2>6 DEF NextPlace, Header
    <3>2. NextPlace = UnitPlaces[at] + Header(frames[at]) + (frames[at].len - readRemaining)
      BY <2>6 DEF NextPlace
    <3> DEFINE a == UnitPlaces[at]
               b == Header(frames[at])
               c == frames[at].len
    <3>3. readRemaining' = readRemaining - n /\ n <= readRemaining
      BY <2>2
    <3>4. a \in Nat /\ b \in Nat /\ c \in Nat /\ readRemaining <= c
      BY <2>6, <2>7
    <3> HIDE DEF a, b, c
    <3>5. NextPlace' = a + b + (c - readRemaining') /\ NextPlace = a + b + (c - readRemaining)
      BY <3>1, <3>2 DEF a, b, c
    <3> QED
      BY <2>4, <3>3, <3>4, <3>5
  <2>9. NextPlace' + Len(stream') <= Len(Units(frames))
    BY <2>2, <2>4, <2>5, <2>6, <2>7, <2>8
  <2>10. \A i \in 1..Len(stream') : stream'[i] = Units(frames)[NextPlace' + i]
    <3> SUFFICES ASSUME NEW i \in 1..Len(stream') PROVE stream'[i] = Units(frames)[NextPlace' + i]
      OBVIOUS
    <3>1. i \in 1..Len(stream) - n /\ n + i \in 1..Len(stream) /\ NextPlace + (n + i) = (NextPlace + n) + i
      BY <2>2, <2>4, <2>5, <2>8
    <3> QED
      BY <2>5, <2>6, <2>8, <3>1
  <2>11. readRemaining' <= frames[at].len
    BY <2>2, <2>4, <2>6, <2>7
  <2>12. Data(frames[at])' = Data(frames[at]) /\ frames'[at'].len = frames[at].len
    BY <2>1, <2>3 DEF Data
  <2> QED
    BY <2>1, <2>3, <2>6, <2>9, <2>10, <2>11, <2>12 DEF StreamInv
<1>7. CASE ReadCut
  BY <1>7 DEF ReadCut, StreamInv
<1>8. CASE ReadEnd
  BY <1>8, <1>s DEF ReadEnd, frameVars
<1>9. CASE UNCHANGED readerVars
  BY <1>9, <1>s DEF readerVars, frameVars
<1> QED
  BY <1>1, <1>2, <1>3, <1>4, <1>5, <1>6, <1>7, <1>8, <1>9 DEF ReaderNext

(* What the units of the frame that is being read are, and that it has *)
(* been sent whole when all of it has been read.                       *)
LEMMA FrameBytes ==
  ASSUME ReaderTypeOK, StreamInv, readErr = "none", at # 0
  PROVE  LET f == frames[at]
             k == f.len - readRemaining
         IN /\ at \in 1..Len(frames) /\ f.len \in Nat /\ f.have \in Nat /\ k \in Nat
            /\ f.have <= f.len /\ (at < Len(frames) => f.have = f.len)
            /\ at = Len(frames) => k + Len(stream) <= f.have
            /\ \A i \in 1..Len(stream) : i <= readRemaining =>
                 k + i <= f.have /\ stream[i] = [of |-> at, part |-> "byte", n |-> k + i - 1]
<1> DEFINE f == frames[at]
           k == f.len - readRemaining
           U == Units(frames)
           p == UnitPlaces[at]
<1>1. /\ frames \in Stream /\ at \in 1..Len(frames) /\ Len(frames) \in Nat /\ readRemaining \in Nat
      /\ Len(stream) \in Nat /\ at > 0
  BY TypeFacts
<1>2. /\ f.len \in Nat /\ f.have \in Nat /\ f.have <= f.len /\ (at < Len(frames) => f.have = f.len)
  BY <1>1, Scenario
<1>3. /\ readRemaining <= f.len /\ NextPlace + Len(stream) <= Len(U)
      /\ \A i \in 1..Len(stream) : stream[i] = U[NextPlace + i]
      /\ NextPlace = p + Header(f) + k
  BY <1>1 DEF StreamInv, NextPlace
<1>4. k \in Nat
  BY <1>1, <1>2, <1>3
<1>5. /\ p \in Nat /\ Header(f) \in Nat /\ Len(U) = UnitPlaces[Len(frames) + 1]
      /\ UnitPlaces[at + 1] = p + Header(f) + f.have
      /\ \A n \in 1..f.have : U[p + Header(f) + n] = [of |-> at, part |-> "byte", n |-> n - 1]
  <2>1. at \in 1..Len(frames) + 1
    BY <1>1
  <2> QED
    BY <1>1, <2>1, UnitsAt
<1> HIDE DEF f, U, p
<1>6. at = Len(frames) => k + Len(stream) <= f.have
  <2> SUFFICES ASSUME at = Len(frames) PROVE k + Len(stream) <= f.have
    OBVIOUS
  <2>1. Len(U) = p + Header(f) + f.have
    BY <1>5
  <2> HIDE DEF k
  <2> QED
    BY <1>1, <1>2, <1>3, <1>4, <1>5, <2>1, SMTT(30)
<1>7. ASSUME NEW i \in 1..Len(stream), i <= readRemaining
      PROVE  k + i <= f.have /\ stream[i] = [of |-> at, part |-> "byte", n |-> k + i - 1]
  <2>1. i \in Nat /\ i >= 1 /\ i <= Len(stream)
    BY <1>1
  <2>2. k + i <= f.have
    <3>1. k + i <= f.len
      BY <1>1, <1>2, <1>7, <2>1
    <3> HIDE DEF k
    <3> QED
      BY <1>1, <1>2, <1>4, <1>6, <2>1, <3>1
  <2> HIDE DEF k
  <2>3. k + i \in 1..f.have /\ NextPlace + i = p + Header(f) + (k + i)
    BY <1>2, <1>3, <1>4, <1>5, <2>1, <2>2
  <2>4. stream[i] = U[p + Header(f) + (k + i)]
    BY <1>3, <1>7, <2>3
  <2>5. U[p + Header(f) + (k + i)] = [of |-> at, part |-> "byte", n |-> (k + i) - 1]
    BY <1>5, <2>3
  <2> QED
    BY <1>4, <1>5, <2>1, <2>2, <2>4, <2>5
<1> QED
  BY <1>1, <1>2, <1>4, <1>6, <1>7 DEF f

-----------------------------------------------------------------------------
(* Legality, the key and the order of messages. *)

(* Every step leaves legal frames only behind, and readFinal right. *)
LEMMA LegalStep ==
  ASSUME ReaderIInv, [ReaderNext]_readerVars
  PROVE  LegalInv'
<1> USE DEF ReaderIInv
<1>s. ASSUME UNCHANGED <<inputs, readFinal, at>>, readErr' = "none" => readErr = "none" PROVE LegalInv'
  <2>1. (\A i : Legal(i)' = Legal(i)) /\ \A i : Open(i)' = Open(i)
    BY <1>s, SentStays
  <2>2. at' = at /\ readFinal' = readFinal
    BY <1>s
  <2>3. (at + 1)' = at + 1
    BY <2>2
  <2>4. Open(at + 1)' = Open(at + 1)
    <3>1. ASSUME NEW i, i = at + 1, i = at' + 1 PROVE Open(at + 1)' = Open(at + 1)
      BY <2>1, <3>1 DEF Open
    <3> QED
      BY <2>1, <2>2 DEF Open
  <2> QED
    BY <1>s, <2>1, <2>2, <2>4 DEF LegalInv
<1>1. CASE AdvanceFails
  BY <1>1, FailsAt DEF LegalInv
<1>2. CASE AdvanceFrame
  <2>1. /\ readErr = "none" /\ inputs' = inputs /\ at' = at + 1 /\ at \in Nat
        /\ readFinal' = IF Data(frames[at + 1]) THEN frames[at + 1].fin ELSE readFinal
    BY <1>2, AdvanceFrameIs, TypeFacts
  <2>2. Legal(at + 1)
    BY <1>2, FrameIsLegal DEF AdvanceFrame, Advancing
  <2>3. (\A i : Legal(i)' = Legal(i)) /\ (\A i : Open(i)' = Open(i))
    BY <2>1, SentStays
  <2>4. \A i \in 1..at' : Legal(i)
    BY <2>1, <2>2 DEF LegalInv
  <2>5. readFinal' <=> ~Open(at' + 1)
    <3>1. Open((at + 1) + 1) = IF Data(frames[at + 1]) THEN ~frames[at + 1].fin ELSE Open(at + 1)
      BY <2>1, OpenNext
    <3>2. readFinal <=> ~Open(at + 1)
      BY <2>1 DEF LegalInv
    <3> QED
      BY <2>1, <3>1, <3>2
  <2> QED
    BY <2>3, <2>4, <2>5 DEF LegalInv
<1>3. CASE NextReader
  BY <1>3, <1>s DEF NextReader
<1>4. CASE NextReaderAgain
  BY <1>4, <1>s DEF NextReaderAgain
<1>5. CASE Read
  BY <1>5, <1>s DEF Read, OnlyRead
<1>6. CASE ReadBytes
  BY <1>6, <1>s DEF ReadBytes, OnlyRead
<1>7. CASE ReadCut
  BY <1>7 DEF ReadCut, LegalInv
<1>8. CASE ReadEnd
  BY <1>8, <1>s DEF ReadEnd, frameVars
<1>9. CASE UNCHANGED readerVars
  BY <1>9, <1>s DEF readerVars, frameVars
<1> QED
  BY <1>1, <1>2, <1>3, <1>4, <1>5, <1>6, <1>7, <1>8, <1>9 DEF ReaderNext

(* A remainder, moved on. *)
LEMMA ModMore ==
  ASSUME NEW a \in Nat, NEW n \in Nat
  PROVE  ((a % KeyLen) + n) % KeyLen = (a + n) % KeyLen /\ a % KeyLen \in Nat
<1>1. KeyLen \in Nat /\ KeyLen > 0
  BY ReaderAssumption
<1> DEFINE q == a \div KeyLen
           r == a % KeyLen
<1>2. q \in Int /\ r \in Nat /\ a = q * KeyLen + r
  BY <1>1
<1> HIDE DEF q, r
<1>3. a + n = (r + n) + q * KeyLen /\ r + n \in Int
  <2> DEFINE p == q * KeyLen
  <2>1. p \in Int /\ a = p + r
    BY <1>1, <1>2
  <2> HIDE DEF p
  <2>2. a + n = (r + n) + p /\ r + n \in Int
    BY <1>2, <2>1
  <2> QED
    BY <2>2 DEF p
<1>4. ((r + n) + q * KeyLen) % KeyLen = (r + n) % KeyLen
  BY <1>1, <1>2, <1>3, ModShift
<1> QED
  BY <1>2, <1>3, <1>4 DEF r

(* Every step keeps key and place in it right. *)
LEMMA MaskStep ==
  ASSUME ReaderIInv, [ReaderNext]_readerVars
  PROVE  MaskInv'
<1> USE DEF ReaderIInv
<1>s. ASSUME UNCHANGED <<inputs, readRemaining, readMaskPos, keyOf, at, readErr>> PROVE MaskInv'
  BY <1>s DEF MaskInv, inputs
<1>1. CASE AdvanceFails
  BY <1>1, FailsAt DEF MaskInv
<1>2. CASE AdvanceFrame
  <2> DEFINE f == frames[at + 1]
  <2>1. /\ readErr = "none" /\ inputs' = inputs /\ at' = at + 1 /\ at \in Nat
        /\ keyOf' = IF f.masked THEN at' ELSE keyOf
        /\ readMaskPos' = IF f.masked THEN 0 ELSE readMaskPos
        /\ readRemaining' = IF Data(f) THEN f.len ELSE 0
    BY <1>2, AdvanceFrameIs, TypeFacts
  <2>2. Legal(at + 1) /\ at + 1 \in 1..Len(frames)
    BY <1>2, FrameIsLegal DEF AdvanceFrame, Advancing
  <2>3. f.len \in Nat
    BY <2>2, Scenario, TypeFacts
  <2>4. f.masked = isServer /\ frames' = frames /\ isServer' = isServer
    BY <2>1, <2>2 DEF Legal, inputs
  <2>5. KeyLen \in Nat /\ KeyLen > 0 /\ 0 % KeyLen = 0
    BY ReaderAssumption
  <2>6. ASSUME isServer', readRemaining' > 0
        PROVE  keyOf' = at' /\ readMaskPos' = (frames'[at'].len - readRemaining') % KeyLen
    <3>1. readRemaining' = f.len /\ frames'[at'] = f
      BY <2>1, <2>4, <2>6
    <3>2. frames'[at'].len - readRemaining' = 0
      BY <2>3, <3>1
    <3> QED
      BY <2>1, <2>4, <2>5, <2>6, <3>2
  <2> QED
    BY <2>6 DEF MaskInv
<1>3. CASE NextReader
  BY <1>3, <1>s DEF NextReader
<1>4. CASE NextReaderAgain
  BY <1>4, <1>s DEF NextReaderAgain
<1>5. CASE Read
  BY <1>5, <1>s DEF Read, OnlyRead
<1>6. CASE ReadBytes
  <2>1. readErr = "none" /\ inputs' = inputs /\ at' = at /\ keyOf' = keyOf /\ readRemaining > 0
    BY <1>6, ReadBytesIs
  <2>2. PICK n \in Nat : /\ n <= readRemaining /\ readRemaining' = readRemaining - n
                         /\ readMaskPos' = (IF isServer THEN MaskedTo(readMaskPos, n) ELSE readMaskPos)
    BY <1>6, ReadBytesIs
  <2>3. at # 0 /\ readRemaining \in Nat
    BY <2>1, TypeFacts DEF StreamInv
  <2>4. frames[at].len \in Nat /\ frames[at].len - readRemaining \in Nat
    BY <2>1, <2>3, FrameBytes
  <2>5. ASSUME isServer
        PROVE  keyOf = at /\ readMaskPos' = (frames[at].len - readRemaining') % KeyLen
    <3> DEFINE l == frames[at].len
               k == l - readRemaining
    <3>1. keyOf = at /\ readMaskPos = k % KeyLen
      BY <2>1, <2>5 DEF MaskInv
    <3>2. readMaskPos' = (readMaskPos + n) % KeyLen
      BY <2>2, <2>5 DEF MaskedTo
    <3>3. k \in Nat /\ l \in Nat
      BY <2>4
    <3> HIDE DEF l
    <3>4. l - readRemaining' = k + n
      BY <2>2, <2>3, <3>3
    <3> HIDE DEF k
    <3>5. ((k % KeyLen) + n) % KeyLen = (k + n) % KeyLen
      BY <3>3, ModMore
    <3> QED
      BY <3>1, <3>2, <3>4, <3>5 DEF l
  <2>6. frames' = frames /\ isServer' = isServer
    BY <2>1 DEF inputs
  <2> QED
    BY <2>1, <2>5, <2>6 DEF MaskInv
<1>7. CASE ReadCut
  BY <1>7 DEF ReadCut, MaskInv
<1>8. CASE ReadEnd
  BY <1>8, <1>s DEF ReadEnd, frameVars
<1>9. CASE UNCHANGED readerVars
  BY <1>9, <1>s DEF readerVars, frameVars
<1> QED
  BY <1>1, <1>2, <1>3, <1>4, <1>5, <1>6, <1>7, <1>8, <1>9 DEF ReaderNext

(* Every step keeps the messages in order. *)
LEMMA OrderStep ==
  ASSUME ReaderIInv, [ReaderNext]_readerVars
  PROVE  OrderInv'
<1> USE DEF ReaderIInv
<1>0. Len(messages) \in Nat /\ at \in Nat
  BY TypeFacts
<1>t. \A i, j : i <= j /\ i \in Nat /\ j \in Nat => BeginsUpTo(i) \subseteq BeginsUpTo(j)
  BY DEF BeginsUpTo
<1>s. ASSUME inputs' = inputs, at' \in Nat, at <= at', at' = at \/ readErr' # "none",
             readErr' = "none" => readErr = "none",
             Len(messages') = Len(messages),
             \A m \in 1..Len(messages) : messages'[m].start = messages[m].start
      PROVE  OrderInv'
  <2>1. \A i : BeginsUpTo(i)' = BeginsUpTo(i)
    BY <1>s, SentStays
  <2>2. BeginsUpTo(at)' = BeginsUpTo(at')
    BY <1>s DEF BeginsUpTo, inputs
  <2>3. BeginsUpTo(at) \subseteq BeginsUpTo(at')
    BY <1>0, <1>s, <1>t
  <2>4. \A m \in 1..Len(messages) : m > 1 => m - 1 \in 1..Len(messages)
    BY <1>0
  <2>5. /\ \A m \in 1..Len(messages) :
             /\ messages'[m].start \in BeginsUpTo(at')
             /\ m > 1 => messages'[m - 1].start < messages'[m].start
    BY <1>s, <2>3, <2>4 DEF OrderInv
  <2>6. ASSUME readErr' = "none", NEW j \in BeginsUpTo(at')
        PROVE  Len(messages) > 0 /\ j <= messages'[Len(messages)].start
    <3>1. Len(messages) > 0 /\ j <= messages[Len(messages)].start
      BY <1>s, <2>6 DEF OrderInv
    <3>2. Len(messages) \in 1..Len(messages)
      BY <1>0, <3>1
    <3> QED
      BY <1>s, <3>1, <3>2
  <2> QED
    BY <1>s, <2>2, <2>5, <2>6 DEF OrderInv
<1>1. CASE AdvanceFails
  <2>1. messages' = messages
    BY <1>1 DEF AdvanceFails
  <2>2. inputs' = inputs /\ at' \in 0..Len(frames) /\ at <= at' /\ readErr' # "none"
    BY <1>1, FailsAt
  <2>3. at' \in Nat
    BY <2>2, TypeFacts
  <2> QED
    BY <1>s, <2>1, <2>2, <2>3
<1>2. CASE AdvanceFrame
  <2> DEFINE f == frames[at + 1]
             new == [start |-> at + 1, bytes |-> <<>>, done |-> FALSE]
             n == Len(messages)
  <2>1. readErr = "none" /\ inputs' = inputs /\ at' = at + 1 /\ at' \in Nat
    BY <1>0, <1>2, AdvanceFrameIs
  <2>2. BeginsUpTo(at)' = BeginsUpTo(at + 1) /\ BeginsUpTo(at) \subseteq BeginsUpTo(at + 1)
    BY <2>1, <1>0, <1>t DEF BeginsUpTo, inputs
  <2>a. /\ \A m \in 1..n : /\ messages[m].start \in BeginsUpTo(at)
                           /\ m > 1 => messages[m - 1].start < messages[m].start
        /\ \A j \in BeginsUpTo(at) : n > 0 /\ j <= messages[n].start
    BY <2>1 DEF OrderInv
  <2>3. CASE f.op \in Start
    <3>1. pc = "NextReader" /\ at + 1 \in BeginsUpTo(at + 1)
      <4>1. readFinal
        BY <1>2, <2>3, FrameIsLegal DEF AdvanceFrame, Advancing
      <4> QED
        BY <1>0, <1>2, <2>3, <4>1 DEF AdvanceFrame, Advancing, BeginsUpTo
    <3>2. messages' = Append(messages, new)
      BY <1>2, <2>3, <3>1, AdvanceFrameIs
    <3>3. Len(messages') = n + 1 /\ (\A m \in 1..n : messages'[m] = messages[m]) /\ messages'[n + 1].start = at + 1
      BY <3>2, TypeFacts
    <3>4. BeginsUpTo(at + 1) = BeginsUpTo(at) \cup {at + 1}
      BY <1>0, <3>1 DEF BeginsUpTo
    <3>5. \A m \in 1..n : messages[m].start < at + 1
      <4>1. \A j \in BeginsUpTo(at) : j < at + 1
        BY <1>0 DEF BeginsUpTo
      <4> QED
        BY <2>a, <4>1
    <3>6. ASSUME NEW m \in 1..n + 1
          PROVE  /\ messages'[m].start \in BeginsUpTo(at + 1)
                 /\ m > 1 => messages'[m - 1].start < messages'[m].start
      <4>1. CASE m = n + 1
        <5>1. m > 1 => m - 1 = n /\ n \in 1..n
          BY <1>0, <4>1
        <5> QED
          BY <3>1, <3>3, <3>5, <4>1, <5>1
      <4>2. CASE m # n + 1
        <5>1. m \in 1..n /\ (m > 1 => m - 1 \in 1..n)
          BY <1>0, <4>2
        <5> QED
          BY <2>2, <2>a, <3>3, <5>1
      <4> QED
        BY <4>1, <4>2
    <3>7. \A j \in BeginsUpTo(at + 1) : j <= messages'[n + 1].start
      BY <1>0, <3>3 DEF BeginsUpTo
    <3> QED
      BY <1>0, <2>2, <3>3, <3>6, <3>7 DEF OrderInv
  <2>4. CASE f.op \notin Start
    <3>1. messages' = messages
      BY <1>2, <2>4, AdvanceFrameIs
    <3>2. BeginsUpTo(at + 1) = BeginsUpTo(at)
      BY <1>0, <2>4 DEF BeginsUpTo
    <3> QED
      BY <2>2, <2>a, <3>1, <3>2 DEF OrderInv
  <2> QED
    BY <2>3, <2>4
<1>3. CASE NextReader
  BY <1>0, <1>3, <1>s DEF NextReader
<1>4. CASE NextReaderAgain
  BY <1>0, <1>4, <1>s DEF NextReaderAgain
<1>5. CASE Read
  BY <1>0, <1>5, <1>s DEF Read, OnlyRead
<1>6. CASE ReadBytes
  <2>1. readErr = "none" /\ inputs' = inputs /\ at' = at /\ Len(messages') = Len(messages)
        /\ (\A m \in 1..Len(messages) : m # Current => messages'[m] = messages[m])
        /\ messages'[Current].start = messages[Current].start
    BY <1>6, ReadBytesIs
  <2>2. \A m \in 1..Len(messages) : messages'[m].start = messages[m].start
    BY <2>1
  <2> QED
    BY <1>0, <1>s, <2>1, <2>2
<1>7. CASE ReadCut
  <2>1. inputs' = inputs /\ at' = at /\ messages' = messages /\ readErr' # "none"
    BY <1>7 DEF ReadCut, OnlyRead
  <2> QED
    BY <1>0, <1>s, <2>1
<1>8. CASE ReadEnd
  <2>1. readErr = "none" /\ inputs' = inputs /\ at' = at /\ Len(messages') = Len(messages)
        /\ (\A m \in 1..Len(messages) : m # Current => messages'[m] = messages[m])
        /\ messages'[Current].start = messages[Current].start
    BY <1>8, ReadEndIs DEF frameVars
  <2>2. \A m \in 1..Len(messages) : messages'[m].start = messages[m].start
    BY <2>1
  <2> QED
    BY <1>0, <1>s, <2>1, <2>2
<1>9. CASE UNCHANGED readerVars
  BY <1>0, <1>9, <1>s DEF readerVars, frameVars
<1> QED
  BY <1>1, <1>2, <1>3, <1>4, <1>5, <1>6, <1>7, <1>8, <1>9 DEF ReaderNext

-----------------------------------------------------------------------------
(* Bytes. *)

(* The message that is being read has begun, and its frames so far are the *)
(* frames of data since.                                                   *)
LEMMA CurrentParts ==
  ASSUME ReaderIInv, reader, readErr = "none"
  PROVE  LET s == messages[Current].start
         IN /\ Current \in 1..Len(messages) /\ s \in 1..at /\ at \in 1..Len(frames)
            /\ frames[s].op \in Start
            /\ \A j \in s..at : j \in Parts(s) <=> Data(frames[j])
<1> USE DEF ReaderIInv
<1> DEFINE s == messages[Current].start
<1>0. Len(messages) \in Nat /\ at \in Nat /\ at <= Len(frames) /\ Len(frames) \in Nat
  BY TypeFacts
<1>1. Current \in 1..Len(messages) /\ Current = Len(messages)
  BY <1>0 DEF CurrentInv, Current
<1>2. s \in 1..at /\ frames[s].op \in Start
  BY <1>1 DEF OrderInv, BeginsUpTo
<1>3. at \in 1..Len(frames)
  BY <1>0, <1>2
<1>4. \A j \in s..at : Final(j) => \A k \in j + 1..at : ~Data(frames[k])
  BY <1>1 DEF CurrentInv
<1> HIDE DEF s
<1>5. ASSUME NEW j \in s..at PROVE j \in Parts(s) <=> Data(frames[j])
  <2>1. s \in Nat /\ j \in Nat /\ s <= j /\ j <= Len(frames)
    BY <1>0, <1>2
  <2>2. ASSUME Data(frames[j]), NEW k \in s..j - 1 PROVE ~(Data(frames[k]) /\ frames[k].fin)
    <3>1. k \in s..at /\ j \in k + 1..at
      BY <1>0, <1>2, <2>1
    <3> QED
      BY <1>4, <2>2, <3>1 DEF Final
  <2> QED
    BY <1>0, <2>1, <2>2, PartsAre
<1> QED
  BY <1>1, <1>2, <1>3, <1>5 DEF s

(* The bytes of the stream, unmasked. *)
LEMMA UnmaskedIs ==
  ASSUME ReaderIInv, readErr = "none", readRemaining > 0,
         NEW n \in Nat, n <= Len(stream), n <= readRemaining, NEW align \in 0..WordSize - 1,
         NEW q \in 1..n
  PROVE  Unmasked(n, align)[q] = <<at, frames[at].len - readRemaining + q - 1>>
<1> USE DEF ReaderIInv
<1> DEFINE k == frames[at].len - readRemaining
           u == stream[q]
<1>1. at \in 1..Len(frames) /\ at # 0 /\ Len(stream) \in Nat /\ readRemaining \in Nat
  BY TypeFacts DEF StreamInv
<1>2. q \in 1..Len(stream) /\ q <= readRemaining /\ q \in Nat /\ q >= 1
  BY <1>1
<1>3. k \in Nat /\ u = [of |-> at, part |-> "byte", n |-> k + q - 1]
  BY <1>1, <1>2, FrameBytes
<1>4. frames[at].masked = isServer
  BY <1>1 DEF LegalInv, Legal
<1>5. isServer => keyOf = at /\ readMaskPos = k % KeyLen
  BY DEF MaskInv
<1>6. u.of = at /\ u.part = "byte" /\ u.n = k + q - 1
  BY <1>3
<1>7. isServer => KeyPlaces(readMaskPos, n, align)[q - 1] = u.n % KeyLen
  <2> SUFFICES ASSUME isServer PROVE KeyPlaces(readMaskPos, n, align)[q - 1] = u.n % KeyLen
    OBVIOUS
  <2>1. readMaskPos \in Nat /\ q - 1 \in 0..n - 1 /\ q - 1 \in Nat
    BY <1>2, TypeFacts
  <2>2. KeyPlaces(readMaskPos, n, align)[q - 1] = (readMaskPos + (q - 1)) % KeyLen
    BY <2>1, KeyPlacesAre
  <2> HIDE DEF k, u
  <2>3. ((k % KeyLen) + (q - 1)) % KeyLen = (k + (q - 1)) % KeyLen
    BY <1>3, <2>1, ModMore
  <2>4. k + (q - 1) = k + q - 1
    BY <1>2, <1>3
  <2> QED
    BY <1>5, <1>6, <2>2, <2>3, <2>4
<1> DEFINE clean == IF ~isServer THEN ~frames[u.of].masked
                    ELSE /\ frames[u.of].masked /\ u.of = keyOf
                         /\ KeyPlaces(readMaskPos, n, align)[q - 1] = u.n % KeyLen
<1>8. Unmasked(n, align)[q] = IF u.part = "byte" /\ clean THEN <<u.of, u.n>> ELSE <<0, 0>>
  BY DEF Unmasked
<1> HIDE DEF u, k
<1>9. clean
  <2>1. frames[u.of].masked = isServer
    BY <1>4, <1>6
  <2>2. isServer \in BOOLEAN
    BY DEF ReaderTypeOK
  <2> QED
    BY <1>5, <1>6, <1>7, <2>1, <2>2
<1> HIDE DEF clean
<1>10. Unmasked(n, align)[q] = <<at, k + q - 1>>
  BY <1>6, <1>8, <1>9
<1> QED
  BY <1>10 DEF k

(* The bytes that are appended to a message are the next of its payload. *)
LEMMA NextBytes ==
  ASSUME ReaderIInv, readErr = "none", reader, readRemaining > 0
  PROVE  LET d == messages[Current]
             k == frames[at].len - readRemaining
         IN /\ Data(frames[at]) /\ k \in Nat
            /\ Len(d.bytes) = PayloadPlaces(d.start)[at] + k
            /\ at \in Parts(d.start)
            /\ \A q \in Nat : q >= 1 /\ k + q <= frames[at].have =>
                 /\ Len(d.bytes) + q <= Len(Payload(d.start))
                 /\ Payload(d.start)[Len(d.bytes) + q] = <<at, k + q - 1>>
<1> USE DEF ReaderIInv
<1> DEFINE d == messages[Current]
           k == frames[at].len - readRemaining
           s == d.start
           h == frames[at].have
<1>0. /\ frames \in Stream /\ Len(frames) \in Nat
  BY TypeFacts
<1>1. Current \in 1..Len(messages) /\ s \in 1..at /\ at \in 1..Len(frames)
      /\ \A j \in s..at : j \in Parts(s) <=> Data(frames[j])
  BY CurrentParts
<1>2. Data(frames[at]) /\ at # 0
  BY <1>0, <1>1 DEF StreamInv
<1>3. at \in Parts(s)
  BY <1>1, <1>2
<1>4. k \in Nat /\ h \in Nat
  BY <1>2, FrameBytes
<1>5. Len(d.bytes) = PayloadPlaces(s)[at] + k
  BY <1>2 DEF CurrentInv, Current
<1>6. s \in Nat /\ at \in 1..Len(frames) + 1 /\ at + 1 \in 1..Len(frames) + 1 /\ Len(frames) + 1 \in at + 1..Len(frames) + 1
  BY <1>0, <1>1
<1>7. /\ PayloadPlaces(s)[at] \in Nat /\ PayloadPlaces(s)[at + 1] = PayloadPlaces(s)[at] + h
      /\ Len(Payload(s)) = PayloadPlaces(s)[Len(frames) + 1]
      /\ \A n \in 1..h : Payload(s)[PayloadPlaces(s)[at] + n] = <<at, n - 1>>
  BY <1>0, <1>1, <1>3, <1>6, PayloadAt
<1>8. PayloadPlaces(s)[at + 1] <= PayloadPlaces(s)[Len(frames) + 1]
  BY <1>0, <1>6, PayloadOver
<1>p. PayloadPlaces(s)[Len(frames) + 1] \in Nat
  <2>1. Len(frames) + 1 \in 1..Len(frames) + 1
    BY <1>0
  <2> QED
    BY <1>0, <1>6, <2>1, PayloadAt
<1> DEFINE p == PayloadPlaces(s)[at]
           l == Len(d.bytes)
<1> HIDE DEF d, k, h, p, l, s
<1>9. ASSUME NEW q \in Nat, q >= 1, k + q <= h
      PROVE  l + q <= Len(Payload(s)) /\ Payload(s)[l + q] = <<at, k + q - 1>>
  <2>1. p \in Nat /\ l = p + k
    BY <1>5, <1>7 DEF p, l
  <2>2. k + q \in 1..h /\ l + q = p + (k + q)
    BY <1>4, <1>9, <2>1
  <2>3. Payload(s)[p + (k + q)] = <<at, (k + q) - 1>>
    BY <1>7, <2>2 DEF p
  <2>4. Len(Payload(s)) \in Nat /\ p + h <= Len(Payload(s))
    BY <1>7, <1>8, <1>p DEF p
  <2>5. l + q <= Len(Payload(s))
    BY <1>4, <1>9, <2>1, <2>2, <2>4
  <2> QED
    BY <1>4, <2>2, <2>3, <2>5
<1> QED
  BY <1>2, <1>3, <1>4, <1>5, <1>9 DEF d, s, h, l, k

(* Every step leaves messages with bytes of their payloads only. *)
LEMMA BytesStep ==
  ASSUME ReaderIInv, [ReaderNext]_readerVars
  PROVE  BytesInv'
<1> USE DEF ReaderIInv
<1> DEFINE Good(d) == /\ Len(d.bytes) <= Len(Payload(d.start))
                      /\ \A k \in 1..Len(d.bytes) :
                           d.bytes[k] = Payload(d.start)[k] /\ \A i \in 1..d.bytes[k][1] : Legal(i)
<1>0. \A m \in 1..Len(messages) : Good(messages[m])
  BY DEF BytesInv
<1>p. ASSUME inputs' = inputs, \A m \in 1..Len(messages') : Good(messages'[m])
      PROVE  BytesInv'
  <2>1. (\A i : Payload(i)' = Payload(i)) /\ (\A i : Legal(i)' = Legal(i))
    BY <1>p, SentStays
  <2> QED
    BY <1>p, <2>1 DEF BytesInv
<1>n. Len(messages) \in Nat
  BY TypeFacts
<1>s. ASSUME inputs' = inputs, Len(messages') = Len(messages),
             \A m \in 1..Len(messages) : messages'[m].start = messages[m].start
                                         /\ messages'[m].bytes = messages[m].bytes
      PROVE  BytesInv'
  <2>1. \A m \in 1..Len(messages') : Good(messages'[m])
    BY <1>0, <1>s
  <2> HIDE DEF Good
  <2> QED
    BY <1>p, <1>s, <2>1
<1>1. CASE AdvanceFails
  BY <1>1, <1>s DEF AdvanceFails
<1>2. CASE AdvanceFrame
  <2> DEFINE new == [start |-> at + 1, bytes |-> <<>>, done |-> FALSE]
  <2>1. inputs' = inputs /\ (messages' = messages \/ messages' = Append(messages, new))
    BY <1>2, AdvanceFrameIs
  <2>2. CASE messages' = messages
    BY <1>s, <2>1, <2>2
  <2>3. CASE messages' = Append(messages, new)
    <3>1. Len(messages') = Len(messages) + 1 /\ (\A m \in 1..Len(messages) : messages'[m] = messages[m])
          /\ messages'[Len(messages) + 1] = new
      BY <2>3, TypeFacts
    <3>2. Good(new)
      <4>1. Payload(at + 1) \in Seq(Byte)
        <5>1. frames \in Stream /\ at + 1 \in Nat
          BY TypeFacts
        <5> QED
          BY <5>1, PayloadAt
      <4>2. new.bytes = <<>> /\ new.start = at + 1
        OBVIOUS
      <4>3. Len(Payload(at + 1)) >= 0
        BY <4>1
      <4> QED
        BY <4>2, <4>3
    <3>3. \A m \in 1..Len(messages') : m \in 1..Len(messages) \/ m = Len(messages) + 1
      BY <1>n, <3>1
    <3> HIDE DEF Good, new
    <3>4. \A m \in 1..Len(messages') : Good(messages'[m])
      BY <1>0, <3>1, <3>2, <3>3
    <3> QED
      BY <1>p, <2>1, <3>4
  <2> QED
    BY <2>1, <2>2, <2>3
<1>3. CASE NextReader
  BY <1>3, <1>s DEF NextReader
<1>4. CASE NextReaderAgain
  BY <1>4, <1>s DEF NextReaderAgain
<1>5. CASE Read
  BY <1>5, <1>s DEF Read, OnlyRead
<1>6. CASE ReadBytes
  <2> DEFINE d == messages[Current]
             e == messages'[Current]
             k == frames[at].len - readRemaining
  <2>1. readErr = "none" /\ reader /\ inputs' = inputs /\ readRemaining > 0 /\ Current \in 1..Len(messages)
    BY <1>6, ReadBytesIs
  <2>2. PICK n \in Nat, align \in 0..WordSize - 1 :
              /\ n >= 1 /\ n <= Len(stream) /\ n <= readRemaining
              /\ Len(messages') = Len(messages)
              /\ \A m \in 1..Len(messages) : m # Current => messages'[m] = messages[m]
              /\ e.start = d.start /\ e.bytes = d.bytes \o Unmasked(n, align)
    BY <1>6, ReadBytesIs
  <2>3. d.bytes \in Seq(Byte) /\ Unmasked(n, align) \in Seq(Byte) /\ Len(Unmasked(n, align)) = n
    BY <2>1, <2>2, UnmaskedType, TypeFacts
  <2>4. /\ Len(e.bytes) = Len(d.bytes) + n /\ Len(d.bytes) \in Nat
        /\ \A q \in 1..Len(d.bytes) : e.bytes[q] = d.bytes[q]
        /\ \A q \in 1..n : e.bytes[Len(d.bytes) + q] = Unmasked(n, align)[q]
    <3> DEFINE a == d.bytes
               b == Unmasked(n, align)
    <3>1. a \in Seq(Byte) /\ b \in Seq(Byte) /\ Len(b) = n /\ e.bytes = a \o b
      BY <2>2, <2>3
    <3> HIDE DEF a, b
    <3>2. Len(a \o b) = Len(a) + Len(b) /\ Len(a) \in Nat
      BY <3>1
    <3>3. \A q \in 1..Len(a) : (a \o b)[q] = a[q]
      BY <3>1
    <3>4. \A q \in 1..Len(b) : (a \o b)[Len(a) + q] = b[q]
      BY <3>1
    <3> QED
      BY <3>1, <3>2, <3>3, <3>4 DEF a, b
  <2>5. \A q \in 1..n : Unmasked(n, align)[q] = <<at, k + q - 1>>
    BY <2>1, <2>2, UnmaskedIs
  <2>6. \A q \in 1..n : k + q <= frames[at].have
    <3>1. at # 0 /\ Len(stream) \in Nat
      BY <2>1, TypeFacts DEF StreamInv
    <3>2. \A q \in 1..n : q \in 1..Len(stream) /\ q <= readRemaining
      BY <2>2, <3>1, TypeFacts
    <3> QED
      BY <2>1, <3>1, <3>2, FrameBytes
  <2>7. \A q \in Nat : q >= 1 /\ k + q <= frames[at].have =>
                 /\ Len(d.bytes) + q <= Len(Payload(d.start))
                 /\ Payload(d.start)[Len(d.bytes) + q] = <<at, k + q - 1>>
    BY <2>1, NextBytes
  <2>8. \A i \in 1..at : Legal(i)
    BY <2>1 DEF LegalInv
  <2>9. Good(d)
    BY <1>0, <2>1
  <2> HIDE DEF d, e, k
  <2>10. Len(e.bytes) <= Len(Payload(e.start))
    <3>1. n \in 1..n
      BY <2>2
    <3> QED
      BY <2>2, <2>4, <2>6, <2>7, <3>1
  <2>11. ASSUME NEW j \in 1..Len(e.bytes)
         PROVE  e.bytes[j] = Payload(e.start)[j] /\ \A i \in 1..e.bytes[j][1] : Legal(i)
    <3>1. CASE j \in 1..Len(d.bytes)
      BY <2>2, <2>4, <2>9, <3>1
    <3>2. CASE j \notin 1..Len(d.bytes)
      <4>1. PICK q \in 1..n : j = Len(d.bytes) + q
        <5>1. j - Len(d.bytes) \in 1..n /\ j = Len(d.bytes) + (j - Len(d.bytes))
          BY <2>4, <3>2
        <5> QED
          BY <5>1
      <4>2. e.bytes[j] = <<at, k + q - 1>>
        BY <2>4, <2>5, <4>1
      <4>3. Payload(e.start)[j] = <<at, k + q - 1>>
        BY <2>2, <2>6, <2>7, <4>1
      <4>4. e.bytes[j][1] = at
        BY <4>2
      <4> QED
        BY <2>8, <4>2, <4>3, <4>4
    <3> QED
      BY <3>1, <3>2
  <2>12. Good(e)
    BY <2>10, <2>11
  <2> HIDE DEF Good
  <2>13. \A m \in 1..Len(messages') : Good(messages'[m])
    BY <1>0, <2>2, <2>12 DEF e
  <2> QED
    BY <1>p, <2>1, <2>13
<1>7. CASE ReadCut
  BY <1>7, <1>s DEF ReadCut, OnlyRead
<1>8. CASE ReadEnd
  <2>1. inputs' = inputs /\ Len(messages') = Len(messages)
        /\ (\A m \in 1..Len(messages) : m # Current => messages'[m] = messages[m])
        /\ messages'[Current].start = messages[Current].start
        /\ messages'[Current].bytes = messages[Current].bytes
    BY <1>8, ReadEndIs
  <2>2. \A m \in 1..Len(messages) : messages'[m].start = messages[m].start
                                    /\ messages'[m].bytes = messages[m].bytes
    BY <2>1
  <2> QED
    BY <1>s, <2>1, <2>2
<1>9. CASE UNCHANGED readerVars
  BY <1>9, <1>s DEF readerVars
<1> QED
  BY <1>1, <1>2, <1>3, <1>4, <1>5, <1>6, <1>7, <1>8, <1>9 DEF ReaderNext

-----------------------------------------------------------------------------
(* The message that is being read. *)

(* The payload of a message begins with its first frame. *)
LEMMA PayloadBegins ==
  ASSUME frames \in Stream, NEW s \in 1..Len(frames)
  PROVE  PayloadPlaces(s)[s] = 0
<1>0. Len(frames) \in Nat /\ s \in Nat /\ 1 \in 1..Len(frames) + 1 /\ s \in 1..Len(frames) + 1
  BY Scenario
<1>1. \A n \in 1..s - 1 : n \notin Parts(s)
  <2>1. \A n \in 1..s - 1 : n \in Nat /\ ~(s <= n)
    BY <1>0
  <2> QED
    BY <1>0, <2>1, PartsAre
<1>2. PayloadPlaces(s)[1] = PayloadPlaces(s)[s]
  BY <1>0, <1>1, PayloadOver
<1> QED
  BY <1>0, <1>2, PayloadAt

(* All of the frame that is being read has been read. *)
LEMMA FrameRead ==
  ASSUME ReaderIInv, readErr = "none", at # 0, readRemaining = 0
  PROVE  frames[at].have = frames[at].len
<1> USE DEF ReaderIInv
<1>1. /\ frames[at].len \in Nat /\ frames[at].have \in Nat /\ frames[at].have <= frames[at].len
      /\ (at < Len(frames) => frames[at].have = frames[at].len)
      /\ at = Len(frames) => frames[at].len - readRemaining + Len(stream) <= frames[at].have
  BY FrameBytes
<1>2. Len(stream) \in Nat /\ Len(frames) \in Nat /\ at \in 0..Len(frames)
  BY TypeFacts
<1> QED
  BY <1>1, <1>2

CurrentIs(d, a, final, left) ==
  /\ ~d.done
  /\ final <=> \E j \in d.start..a : Final(j)
  /\ \A j \in d.start..a : Final(j) => \A k \in j + 1..a : ~Data(frames[k])
  /\ Len(d.bytes) =
       IF Data(frames[a]) THEN PayloadPlaces(d.start)[a] + (frames[a].len - left)
       ELSE PayloadPlaces(d.start)[a + 1]

(* Every step keeps the length of the message that is being read right. *)
LEMMA CurrentStep ==
  ASSUME ReaderIInv, [ReaderNext]_readerVars
  PROVE  CurrentInv'
<1> USE DEF ReaderIInv
<1>n. Len(messages) \in Nat /\ at \in Nat /\ frames \in Stream /\ Len(frames) \in Nat
  BY TypeFacts
<1>c. reader /\ readErr = "none" => CurrentIs(messages[Len(messages)], at, readFinal, readRemaining)
  BY DEF CurrentInv, CurrentIs
<1>q. ASSUME pc' = "Read" => reader', pc' = "NextReader" => ~reader', reader' => Len(messages') > 0,
             reader' /\ readErr' = "none" =>
               inputs' = inputs /\ CurrentIs(messages'[Len(messages')], at', readFinal', readRemaining')
      PROVE  CurrentInv'
  <2>1. CASE ~(reader' /\ readErr' = "none")
    BY <1>q, <2>1 DEF CurrentInv
  <2>2. CASE reader' /\ readErr' = "none"
    <3>1. frames' = frames /\ (\A i : Final(i)' = Final(i)) /\ (\A i : PayloadPlaces(i)' = PayloadPlaces(i))
      BY <1>q, <2>2, SentStays
    <3>2. CurrentIs(messages'[Len(messages')], at', readFinal', readRemaining')
      BY <1>q, <2>2
    <3> QED
      BY <1>q, <3>1, <3>2 DEF CurrentInv, CurrentIs, Data
  <2> QED
    BY <2>1, <2>2
<1>s. ASSUME UNCHANGED <<inputs, reader, messages, readErr, at, readFinal, readRemaining>>,
             pc' = pc \/ pc' = "app" \/ (pc' = "Read" /\ reader)
      PROVE  CurrentInv'
  <2>1. pc' = "Read" => reader'
    BY <1>s DEF CurrentInv
  <2>2. pc' = "NextReader" => ~reader'
    BY <1>s DEF CurrentInv
  <2>3. reader' => Len(messages') > 0
    BY <1>s DEF CurrentInv
  <2> QED
    BY <1>c, <1>q, <1>s, <2>1, <2>2, <2>3
<1>1. CASE AdvanceFails
  <2>1. readErr' # "none" /\ pc' = "app" /\ reader' = reader /\ messages' = messages
    BY <1>1, FailsAt DEF AdvanceFails
  <2> QED
    BY <1>q, <2>1 DEF CurrentInv
<1>2. CASE AdvanceFrame
  <2> DEFINE f == frames[at + 1]
             new == [start |-> at + 1, bytes |-> <<>>, done |-> FALSE]
             n == Len(messages)
  <2>1. readErr = "none" /\ inputs' = inputs /\ at' = at + 1
    BY <1>2, AdvanceFrameIs
  <2>2. at + 1 \in 1..Len(frames) /\ (f.op \in Start => readFinal)
    BY <1>2, FrameIsLegal DEF AdvanceFrame, Advancing
  <2>3. pc = "NextReader" \/ (pc = "Read" /\ readRemaining = 0 /\ ~readFinal)
    BY <1>2 DEF AdvanceFrame, Advancing
  <2>4. f.len \in Nat
    BY <1>n, <2>2, Scenario
  <2>5. CASE pc = "NextReader" /\ f.op \in Start
    <3>1. pc' = "app" /\ messages' = Append(messages, new) /\ Data(f) /\ readRemaining' = f.len /\ readFinal' = f.fin
      BY <1>2, <2>5, AdvanceFrameIs DEF Data
    <3>2. Len(messages') = n + 1 /\ messages'[n + 1] = new
      BY <3>1, TypeFacts
    <3>3. PayloadPlaces(at + 1)[at + 1] = 0
      BY <1>n, <2>2, PayloadBegins
    <3>4. CurrentIs(new, at + 1, f.fin, f.len)
      <4>1. \A j \in at + 1..at + 1 : j = at + 1
        BY <1>n
      <4>2. \A k \in (at + 1) + 1..at + 1 : FALSE
        BY <1>n
      <4>3. f.fin <=> \E j \in at + 1..at + 1 : Final(j)
        <5>1. at + 1 \in at + 1..at + 1
          BY <1>n
        <5> QED
          BY <3>1, <4>1, <5>1 DEF Final
      <4>4. Len(<<>>) = 0 /\ 0 = 0 + (f.len - f.len)
        BY <2>4
      <4>5. new.start = at + 1 /\ new.bytes = <<>> /\ new.done = FALSE
        OBVIOUS
      <4> HIDE DEF new
      <4>6. \A j \in new.start..at + 1 : \A k \in j + 1..at + 1 : FALSE
        BY <4>1, <4>2, <4>5
      <4>7. Len(new.bytes) = IF Data(frames[at + 1]) THEN PayloadPlaces(new.start)[at + 1] + (frames[at + 1].len - f.len)
                             ELSE PayloadPlaces(new.start)[(at + 1) + 1]
        BY <3>1, <3>3, <4>4, <4>5
      <4> QED
        BY <4>3, <4>5, <4>6, <4>7 DEF CurrentIs
    <3> HIDE DEF new
    <3> QED
      BY <1>n, <1>q, <2>1, <3>1, <3>2, <3>4
  <2>6. CASE ~(pc = "NextReader" /\ f.op \in Start)
    <3> DEFINE d == messages[n]
               s == d.start
    <3>1. pc' = pc /\ reader' = reader /\ messages' = messages
      BY <1>2, <2>6, AdvanceFrameIs
    <3>2. ASSUME reader
          PROVE  CurrentIs(d, at + 1, readFinal', readRemaining')
      <4>1. ~readFinal /\ readRemaining = 0
        BY <2>3, <3>2 DEF CurrentInv
      <4>2. CurrentIs(d, at, readFinal, readRemaining)
        BY <1>c, <2>1, <3>2
      <4>3. s \in 1..at /\ at \in 1..Len(frames) /\ (\A j \in s..at : j \in Parts(s) <=> Data(frames[j]))
        BY <2>1, <3>2, CurrentParts DEF Current
      <4>4. \A j \in s..at : ~Final(j)
        BY <4>1, <4>2 DEF CurrentIs
      <4>5. \A j \in s..at + 1 : j \in s..at \/ j = at + 1
        BY <1>n, <4>3
      <4>6. at # 0 /\ frames[at].have = frames[at].len /\ frames[at].len \in Nat /\ s \in Nat /\ at + 1 \in s..at + 1
            /\ at \in s..at
        BY <2>1, <4>1, <4>3, <1>n, FrameRead, Scenario
      <4>7. /\ PayloadPlaces(s)[at] \in Nat
            /\ PayloadPlaces(s)[at + 1] = PayloadPlaces(s)[at] + (IF at \in Parts(s) THEN frames[at].have ELSE 0)
        <5>1. at \in 1..Len(frames) + 1
          BY <1>n, <4>3
        <5> QED
          BY <1>n, <4>3, <4>6, <5>1, PayloadAt
      <4>8. Len(d.bytes) = PayloadPlaces(s)[at + 1]
        <5>1. at \in Parts(s) <=> Data(frames[at])
          BY <4>3, <4>6
        <5>2. Len(d.bytes) = IF Data(frames[at]) THEN PayloadPlaces(s)[at] + (frames[at].len - readRemaining)
                             ELSE PayloadPlaces(s)[at + 1]
          BY <4>2 DEF CurrentIs
        <5> QED
          BY <4>1, <4>6, <4>7, <5>1, <5>2
      <4>9. \A j \in s..at + 1 : Final(j) => j = at + 1
        BY <4>4, <4>5
      <4>10. \A k \in (at + 1) + 1..at + 1 : FALSE
        BY <1>n
      <4>11. ~d.done
        BY <4>2 DEF CurrentIs
      <4>12. CASE Data(f)
        <5>1. readRemaining' = f.len /\ readFinal' = f.fin
          BY <1>2, <4>12, AdvanceFrameIs
        <5>2. readFinal' <=> \E j \in s..at + 1 : Final(j)
          BY <4>6, <4>9, <4>12, <5>1 DEF Final
        <5>3. PayloadPlaces(s)[at + 1] + (f.len - f.len) = PayloadPlaces(s)[at + 1]
          BY <2>4, <4>6, <4>7
        <5> HIDE DEF d
        <5> QED
          BY <4>8, <4>9, <4>10, <4>11, <4>12, <5>1, <5>2, <5>3 DEF CurrentIs
      <4>13. CASE ~Data(f)
        <5>1. readFinal' = readFinal
          BY <1>2, <4>13, AdvanceFrameIs
        <5>2. \A j \in s..at + 1 : ~Final(j)
          BY <4>9, <4>13 DEF Final
        <5>3. at + 1 \notin Parts(s)
          <6>1. at + 1 \in Nat
            BY <1>n
          <6> QED
            BY <1>n, <4>6, <4>13, <6>1, PartsAre
        <5>4. PayloadPlaces(s)[(at + 1) + 1] = PayloadPlaces(s)[at + 1]
          <6>1. at + 1 \in 1..Len(frames) + 1
            BY <2>2, <1>n
          <6>2. PayloadPlaces(s)[at + 1] \in Nat
            BY <1>n, <4>6, <6>1, PayloadAt
          <6>3. PayloadPlaces(s)[(at + 1) + 1] = PayloadPlaces(s)[at + 1] + 0
            BY <1>n, <2>2, <4>6, <5>3, PayloadAt
          <6> QED
            BY <6>2, <6>3
        <5> HIDE DEF d
        <5> QED
          BY <4>1, <4>8, <4>11, <4>13, <5>1, <5>2, <5>4 DEF CurrentIs
      <4> QED
        BY <4>12, <4>13
    <3>3. (pc' = "Read" => reader') /\ (pc' = "NextReader" => ~reader') /\ (reader' => Len(messages') > 0)
      BY <3>1 DEF CurrentInv
    <3> QED
      BY <1>q, <2>1, <3>1, <3>2, <3>3
  <2> QED
    BY <2>5, <2>6
<1>3. CASE NextReader
  BY <1>3, <1>q DEF NextReader
<1>4. CASE NextReaderAgain
  BY <1>4, <1>q DEF NextReaderAgain
<1>5. CASE Read
  BY <1>5, <1>s DEF Read, OnlyRead
<1>6. CASE ReadBytes
  <2> DEFINE d == messages[Current]
             e == messages'[Current]
             k == frames[at].len - readRemaining
  <2>1. readErr = "none" /\ reader /\ inputs' = inputs /\ readRemaining > 0 /\ Current \in 1..Len(messages)
        /\ pc' = "app" /\ at' = at /\ readFinal' = readFinal /\ Len(messages) > 0
    BY <1>6, ReadBytesIs
  <2>2. PICK n \in Nat, align \in 0..WordSize - 1, end \in BOOLEAN :
              /\ n >= 1 /\ n <= Len(stream) /\ n <= readRemaining
              /\ Len(messages') = Len(messages)
              /\ e.start = d.start /\ e.bytes = d.bytes \o Unmasked(n, align)
              /\ e.done = (end /\ n = readRemaining)
              /\ readRemaining' = readRemaining - n
              /\ readErr' = IF ~end THEN "none" ELSE IF n = readRemaining THEN "EOF" ELSE "unexpected EOF"
    BY <1>6, ReadBytesIs
  <2>3. ASSUME readErr' = "none" PROVE CurrentIs(e, at, readFinal, readRemaining')
    <3>1. ~end /\ ~e.done
      BY <2>2, <2>3
    <3>2. CurrentIs(d, at, readFinal, readRemaining) /\ Data(frames[at])
      BY <1>c, <2>1, NextBytes DEF Current
    <3>3. Len(e.bytes) = Len(d.bytes) + n
      <4>1. d.bytes \in Seq(Byte) /\ Unmasked(n, align) \in Seq(Byte) /\ Len(Unmasked(n, align)) = n
        BY <2>1, <2>2, UnmaskedType, TypeFacts
      <4> DEFINE a == d.bytes
                 b == Unmasked(n, align)
      <4>2. a \in Seq(Byte) /\ b \in Seq(Byte) /\ Len(b) = n /\ e.bytes = a \o b
        BY <2>2, <4>1
      <4> HIDE DEF a, b
      <4>3. Len(a \o b) = Len(a) + Len(b)
        BY <4>2
      <4> QED
        BY <4>2, <4>3 DEF a
    <3>4. Len(d.bytes) = PayloadPlaces(d.start)[at] + k /\ k \in Nat
      BY <2>1, NextBytes
    <3>5. PayloadPlaces(d.start)[at] \in Nat /\ frames[at].len \in Nat /\ readRemaining \in Nat
      <4>1. at \in 1..Len(frames) /\ at \in 1..Len(frames) + 1 /\ d.start \in Nat
        BY <1>n, <2>1, CurrentParts
      <4> QED
        BY <1>n, <4>1, PayloadAt, Scenario, TypeFacts
    <3>6. Len(e.bytes) = PayloadPlaces(e.start)[at] + (frames[at].len - readRemaining')
      <4> DEFINE p == PayloadPlaces(d.start)[at]
                 l == frames[at].len
      <4>1. Len(e.bytes) = p + (l - readRemaining) + n /\ readRemaining' = readRemaining - n
        BY <2>2, <3>3, <3>4
      <4>2. p \in Nat /\ l \in Nat /\ readRemaining \in Nat
        BY <3>5
      <4> HIDE DEF p, l
      <4>3. Len(e.bytes) = p + (l - readRemaining')
        BY <4>1, <4>2
      <4> QED
        BY <2>2, <4>3 DEF p, l
    <3> HIDE DEF e, d
    <3> QED
      BY <2>2, <3>1, <3>2, <3>6 DEF CurrentIs
  <2> HIDE DEF e
  <2> QED
    BY <1>q, <2>1, <2>2, <2>3 DEF e, Current
<1>7. CASE ReadCut
  <2>1. readErr' # "none" /\ pc' = "app" /\ reader' = reader /\ messages' = messages
    BY <1>7 DEF ReadCut, OnlyRead
  <2> QED
    BY <1>q, <2>1 DEF CurrentInv
<1>8. CASE ReadEnd
  BY <1>8, <1>q DEF ReadEnd
<1>9. CASE UNCHANGED readerVars
  BY <1>9, <1>s DEF readerVars, frameVars
<1> QED
  BY <1>1, <1>2, <1>3, <1>4, <1>5, <1>6, <1>7, <1>8, <1>9 DEF ReaderNext

-----------------------------------------------------------------------------
(* The end of a message. *)

(* Behind the last frame of a message there is nothing more of it. *)
LEMMA EndIsWhole ==
  ASSUME ReaderIInv, reader, readErr = "none", readFinal,
         Data(frames[at]) => frames[at].have = frames[at].len
  PROVE  LET s == messages[Current].start
         IN Whole(s) /\ Len(Payload(s)) = PayloadPlaces(s)[at + 1]
<1> USE DEF ReaderIInv
<1> DEFINE s == messages[Current].start
<1>0. frames \in Stream /\ Len(frames) \in Nat
  BY TypeFacts
<1>1. s \in 1..at /\ at \in 1..Len(frames) /\ Current = Len(messages)
  BY CurrentParts DEF Current
<1>2. PICK e \in s..at : Final(e)
  BY DEF CurrentInv, Current
<1> HIDE DEF s
<1>3. e \in Ends(s) /\ Ends(s) # {} /\ s \in Nat /\ e <= at /\ e \in Nat /\ s <= e
  BY <1>0, <1>1, <1>2 DEF Ends, Final
<1>4. ASSUME NEW j \in Parts(s) PROVE j \in 1..at /\ Data(frames[j])
  <2>0. j \in Nat
    BY <1>3 DEF Parts
  <2>1. s <= j /\ Data(frames[j]) /\ \A k \in s..j - 1 : ~(Data(frames[k]) /\ frames[k].fin)
    BY <1>0, <1>3, <2>0, PartsAre
  <2>2. ~(e \in s..j - 1)
    BY <1>2, <2>1 DEF Final
  <2> QED
    BY <1>1, <1>3, <2>0, <2>1, <2>2
<1>5. Whole(s)
  <2>1. \A j \in 1..at - 1 : frames[j].have = frames[j].len
    <3>1. \A j \in 1..at - 1 : j \in 1..Len(frames) /\ j < Len(frames)
      BY <1>0, <1>1
    <3> QED
      BY <1>0, <3>1, Scenario
  <2>2. \A j \in Parts(s) : j \in 1..at - 1 \/ (j = at /\ Data(frames[at]))
    BY <1>1, <1>4
  <2> QED
    BY <1>3, <2>1, <2>2 DEF Whole
<1>6. \A n \in at + 1..Len(frames) + 1 - 1 : n \notin Parts(s)
  <2>1. \A n \in at + 1..Len(frames) + 1 - 1 : n \notin 1..at
    BY <1>0, <1>1
  <2> QED
    BY <1>4, <2>1
<1>7. at + 1 \in 1..Len(frames) + 1 /\ Len(frames) + 1 \in at + 1..Len(frames) + 1
  BY <1>0, <1>1
<1>8. PayloadPlaces(s)[at + 1] = PayloadPlaces(s)[Len(frames) + 1]
  <2>1. \A j \in 1..Len(frames) + 1 : \A k \in j..Len(frames) + 1 :
          (\A n \in j..k - 1 : n \notin Parts(s)) => PayloadPlaces(s)[j] = PayloadPlaces(s)[k]
    BY <1>0, <1>3, PayloadOver
  <2> DEFINE j == at + 1
             k == Len(frames) + 1
  <2>2. j \in 1..Len(frames) + 1 /\ k \in j..Len(frames) + 1 /\ \A n \in j..k - 1 : n \notin Parts(s)
    BY <1>6, <1>7
  <2>3. PayloadPlaces(s)[j] = PayloadPlaces(s)[k]
    <3> HIDE DEF j, k
    <3> QED
      BY <2>1, <2>2
  <2> QED
    BY <2>3
<1>9. Len(Payload(s)) = PayloadPlaces(s)[Len(frames) + 1]
  BY <1>0, <1>3, PayloadAt
<1> QED
  BY <1>5, <1>8, <1>9 DEF s

(* Sequences are the same if lengths and members are. *)
LEMMA SameSequence ==
  ASSUME NEW T, NEW a \in Seq(T), NEW b \in Seq(T), Len(a) = Len(b),
         \A i \in 1..Len(a) : a[i] = b[i]
  PROVE  a = b
OBVIOUS

EndIs(ms, m, c, err, left, a) ==
  ms[m].done => \/ Whole(ms[m].start) /\ ms[m].bytes = Payload(ms[m].start)
                \/ m = c /\ err = "EOF" /\ left = <<>> /\ ~frames[a].fin

(* Every step that ends a message does so rightly. *)
LEMMA DoneStep ==
  ASSUME ReaderIInv, [ReaderNext]_readerVars, BytesInv', ReaderTypeOK'
  PROVE  DoneInv'
<1> USE DEF ReaderIInv
<1>n. Len(messages) \in Nat /\ at \in Nat /\ frames \in Stream /\ Len(frames) \in Nat
      /\ DOMAIN messages = 1..Len(messages)
  BY TypeFacts
<1>t. messages' \in Seq(Message) /\ DOMAIN messages' = 1..Len(messages') /\ Len(messages') \in Nat
  <2>1. messages' \in Seq(Message)
    BY DEF ReaderTypeOK
  <2> QED
    BY <2>1
<1>e. \A m \in 1..Len(messages) : EndIs(messages, m, Current, readErr, stream, at)
  BY <1>n DEF DoneInv, EndMeansWhole, EndIs
<1>p. ASSUME inputs' = inputs,
             \A m \in 1..Len(messages') : EndIs(messages', m, Len(messages'), readErr', stream', at'),
             readErr' = "none" /\ ~readFinal' => Len(messages') > 0 /\ ~messages'[Len(messages')].done
      PROVE  DoneInv'
  <2>1. frames' = frames /\ (\A i : Whole(i)' = Whole(i)) /\ (\A i : Payload(i)' = Payload(i))
    BY <1>p, SentStays
  <2>2. EndMeansWhole'
    <3> SUFFICES ASSUME NEW m \in 1..Len(messages'), messages'[m].done
                 PROVE  \/ Whole(messages'[m].start) /\ messages'[m].bytes = Payload(messages'[m].start)
                        \/ m = Len(messages') /\ readErr' = "EOF" /\ stream' = <<>> /\ ~frames[at'].fin
      BY <1>t, <2>1 DEF EndMeansWhole, Current
    <3> QED
      BY <1>p DEF EndIs
  <2> QED
    BY <1>p, <2>2 DEF DoneInv
<1>s. ASSUME inputs' = inputs, messages' = messages,
             readErr = "none" \/ UNCHANGED <<readErr, stream, at>>,
             readErr' = "none" => readErr = "none" /\ readFinal' = readFinal
      PROVE  DoneInv'
  <2>1. ASSUME NEW m \in 1..Len(messages) PROVE EndIs(messages', m, Len(messages'), readErr', stream', at')
    BY <1>e, <1>s DEF EndIs, Current
  <2> QED
    BY <1>p, <1>s, <2>1 DEF DoneInv
<1>w. ASSUME readErr = "none", NEW m \in 1..Len(messages), messages[m].done
      PROVE  Whole(messages[m].start) /\ messages[m].bytes = Payload(messages[m].start)
  BY <1>e, <1>w DEF EndIs
<1>1. CASE AdvanceFails
  BY <1>1, <1>s, FailsAt DEF AdvanceFails
<1>2. CASE AdvanceFrame
  <2> DEFINE f == frames[at + 1]
             new == [start |-> at + 1, bytes |-> <<>>, done |-> FALSE]
             n == Len(messages)
  <2>1. readErr = "none" /\ inputs' = inputs /\ readErr' = "none"
    BY <1>2, AdvanceFrameIs
  <2>2. /\ f.op \in Start => readFinal
        /\ f.op = "cont" => ~readFinal
    BY <1>2, FrameIsLegal DEF AdvanceFrame, Advancing
  <2>3. CASE pc = "NextReader" /\ f.op \in Start
    <3>1. messages' = Append(messages, new)
      BY <1>2, <2>3, AdvanceFrameIs
    <3>2. Len(messages') = n + 1 /\ messages'[n + 1] = new /\ \A m \in 1..n : messages'[m] = messages[m]
      BY <3>1, TypeFacts
    <3>3. ~new.done
      OBVIOUS
    <3> HIDE DEF new
    <3>4. ASSUME NEW m \in 1..Len(messages') PROVE EndIs(messages', m, Len(messages'), readErr', stream', at')
      <4>1. m \in 1..n \/ m = n + 1
        BY <1>n, <3>2
      <4> QED
        BY <1>w, <2>1, <3>2, <3>3, <4>1 DEF EndIs
    <3> QED
      BY <1>n, <1>p, <2>1, <3>2, <3>3, <3>4
  <2>4. CASE ~(pc = "NextReader" /\ f.op \in Start)
    <3>1. messages' = messages
      BY <1>2, <2>4, AdvanceFrameIs
    <3>2. ASSUME ~readFinal' PROVE ~readFinal
      <4>1. CASE Data(f)
        <5>1. f.op # "cont" => f.op \in Start
          BY <4>1 DEF Data
        <5>2. f.op \in Start => FALSE
          BY <1>2, <2>2, <2>4 DEF AdvanceFrame, Advancing
        <5> QED
          BY <2>2, <5>1, <5>2
      <4>2. CASE ~Data(f)
        BY <1>2, <3>2, <4>2, AdvanceFrameIs
      <4> QED
        BY <4>1, <4>2
    <3>3. \A m \in 1..Len(messages') : EndIs(messages', m, Len(messages'), readErr', stream', at')
      BY <1>w, <2>1, <3>1 DEF EndIs
    <3> QED
      BY <1>p, <2>1, <3>1, <3>2, <3>3 DEF DoneInv
  <2> QED
    BY <2>3, <2>4
<1>3. CASE NextReader
  BY <1>3, <1>s DEF NextReader
<1>4. CASE NextReaderAgain
  BY <1>4, <1>s DEF NextReaderAgain
<1>5. CASE Read
  BY <1>5, <1>s DEF Read, OnlyRead
<1>6. CASE ReadBytes
  <2> DEFINE d == messages[Current]
             e == messages'[Current]
             k == frames[at].len - readRemaining
  <2>1. readErr = "none" /\ reader /\ inputs' = inputs /\ readRemaining > 0 /\ Current \in 1..Len(messages)
        /\ at' = at /\ readFinal' = readFinal /\ Current = Len(messages) /\ Len(messages) > 0
    BY <1>6, ReadBytesIs DEF Current
  <2>2. PICK n \in Nat, align \in 0..WordSize - 1, end \in BOOLEAN :
              /\ n >= 1 /\ n <= Len(stream) /\ n <= readRemaining /\ (end => n = Len(stream))
              /\ Len(messages') = Len(messages)
              /\ \A m \in 1..Len(messages) : m # Current => messages'[m] = messages[m]
              /\ e.start = d.start /\ e.bytes = d.bytes \o Unmasked(n, align)
              /\ e.done = (end /\ n = readRemaining)
              /\ stream' = From(stream, n)
              /\ readErr' = IF ~end THEN "none" ELSE IF n = readRemaining THEN "EOF" ELSE "unexpected EOF"
    BY <1>6, ReadBytesIs
  <2>3. at # 0 /\ readRemaining \in Nat /\ Len(stream) \in Nat /\ stream \in Seq(Unit)
    BY <2>1, TypeFacts DEF StreamInv
  <2>4. ASSUME e.done, readFinal
        PROVE  Whole(e.start) /\ e.bytes = Payload(e.start)
    <3>1. n = readRemaining /\ n = Len(stream)
      BY <2>2, <2>4
    <3>2. frames[at].have = frames[at].len
      <4>1. /\ frames[at].len \in Nat /\ frames[at].have \in Nat /\ frames[at].have <= frames[at].len
            /\ (at < Len(frames) => frames[at].have = frames[at].len)
            /\ at = Len(frames) => frames[at].len - readRemaining + Len(stream) <= frames[at].have
        BY <2>1, <2>3, FrameBytes
      <4>2. at \in 0..Len(frames)
        BY TypeFacts
      <4> QED
        BY <1>n, <2>3, <3>1, <4>1, <4>2
    <3>3. Whole(d.start) /\ Len(Payload(d.start)) = PayloadPlaces(d.start)[at + 1]
      BY <2>1, <2>4, <3>2, EndIsWhole
    <3>4. d.start \in 1..at /\ at \in 1..Len(frames) /\ at \in 1..Len(frames) + 1 /\ d.start \in Nat
      BY <1>n, <2>1, CurrentParts
    <3>5. at \in Parts(d.start) /\ Len(d.bytes) = PayloadPlaces(d.start)[at] + k
      BY <2>1, NextBytes
    <3>6. PayloadPlaces(d.start)[at] \in Nat
          /\ PayloadPlaces(d.start)[at + 1] = PayloadPlaces(d.start)[at] + frames[at].have
          /\ Payload(d.start) \in Seq(Byte)
      BY <1>n, <3>4, <3>5, PayloadAt
    <3>7. Len(e.bytes) = Len(d.bytes) + n /\ e.bytes \in Seq(Byte)
      <4>1. d.bytes \in Seq(Byte) /\ Unmasked(n, align) \in Seq(Byte) /\ Len(Unmasked(n, align)) = n
        BY <2>1, <2>2, UnmaskedType, TypeFacts
      <4> DEFINE a == d.bytes
                 b == Unmasked(n, align)
      <4>2. a \in Seq(Byte) /\ b \in Seq(Byte) /\ Len(b) = n /\ e.bytes = a \o b
        BY <2>2, <4>1
      <4> HIDE DEF a, b
      <4>3. Len(a \o b) = Len(a) + Len(b) /\ a \o b \in Seq(Byte)
        BY <4>2
      <4> QED
        BY <4>2, <4>3 DEF a
    <3>8. Len(e.bytes) = Len(Payload(e.start))
      <4>0. frames[at].len \in Nat
        BY <1>n, <3>4, Scenario
      <4> DEFINE p == PayloadPlaces(d.start)[at]
                 l == frames[at].len
      <4>1. Len(e.bytes) = p + (l - readRemaining) + readRemaining /\ Len(Payload(e.start)) = p + l
        BY <2>2, <3>1, <3>2, <3>3, <3>5, <3>6, <3>7
      <4>2. p \in Nat /\ l \in Nat
        BY <3>6, <4>0
      <4> HIDE DEF p, l
      <4> QED
        BY <2>3, <4>1, <4>2
    <3>9. \A i \in 1..Len(e.bytes) : e.bytes[i] = Payload(e.start)[i]
      <4>1. \A i : Payload(i)' = Payload(i)
        BY <2>1, SentStays
      <4>2. Current \in 1..Len(messages')
        BY <2>1, <2>2
      <4> QED
        BY <4>1, <4>2 DEF BytesInv
    <3>10. Payload(e.start) \in Seq(Byte) /\ e.bytes \in Seq(Byte)
      BY <2>2, <3>6, <3>7
    <3> HIDE DEF e
    <3>11. e.bytes = Payload(e.start)
      BY <3>8, <3>9, <3>10, SameSequence
    <3> QED
      BY <2>2, <3>3, <3>11
  <2>5. ASSUME e.done, ~readFinal
        PROVE  readErr' = "EOF" /\ stream' = <<>> /\ ~frames[at'].fin
    <3>1. end /\ n = readRemaining /\ n = Len(stream) /\ readErr' = "EOF"
      BY <2>2, <2>5
    <3>2. stream' = <<>>
      <4> DEFINE t == From(stream, n)
      <4>1. Len(t) = 0 /\ t \in Seq(Unit)
        BY <2>3, <3>1, FromIs
      <4>2. stream' = t
        BY <2>2
      <4> HIDE DEF t
      <4>3. t = <<>>
        BY <4>1
      <4> QED
        BY <4>2, <4>3
    <3>3. Data(frames[at])
      BY <2>1, NextBytes
    <3>4. Open(at + 1) = ~frames[at].fin
      <4>1. at \in Nat /\ at >= 1
        BY <1>n, <2>3
      <4> QED
        BY <3>3, <4>1, OpenNext
    <3>5. ~frames[at].fin
      BY <2>1, <2>5, <3>4 DEF LegalInv
    <3> QED
      BY <2>1, <3>1, <3>2, <3>5
  <2> HIDE DEF d
  <2>6. ASSUME NEW m \in 1..Len(messages') PROVE EndIs(messages', m, Len(messages'), readErr', stream', at')
    <3>1. CASE m = Current
      BY <2>1, <2>2, <2>4, <2>5, <3>1 DEF EndIs
    <3>2. CASE m # Current
      BY <1>w, <2>1, <2>2, <3>2 DEF EndIs
    <3> QED
      BY <3>1, <3>2
  <2>7. readErr' = "none" => ~e.done
    BY <2>2
  <2> QED
    BY <1>p, <2>1, <2>2, <2>6, <2>7
<1>7. CASE ReadCut
  BY <1>7, <1>s DEF ReadCut, OnlyRead
<1>8. CASE ReadEnd
  <2> DEFINE d == messages[Current]
             s == d.start
  <2>1. /\ readErr = "none" /\ reader /\ readRemaining = 0 /\ readFinal
        /\ Current \in 1..Len(messages) /\ Current = Len(messages) /\ Len(messages) > 0
        /\ inputs' = inputs /\ readErr' = "none" /\ readFinal' = readFinal
        /\ Len(messages') = Len(messages)
        /\ \A m \in 1..Len(messages) : m # Current => messages'[m] = messages[m]
        /\ messages'[Current].start = s
        /\ messages'[Current].bytes = d.bytes
    BY <1>8, ReadEndIs DEF frameVars, Current
  <2>2. s \in 1..at /\ at \in 1..Len(frames) /\ (\A j \in s..at : j \in Parts(s) <=> Data(frames[j]))
    BY <2>1, CurrentParts
  <2>3. frames[at].have = frames[at].len /\ frames[at].len \in Nat
    <3>1. at # 0 /\ frames[at].len \in Nat
      BY <1>n, <2>2, Scenario
    <3> QED
      BY <2>1, <3>1, FrameRead
  <2>4. Whole(s) /\ Len(Payload(s)) = PayloadPlaces(s)[at + 1]
    BY <2>1, <2>3, EndIsWhole
  <2>5. Len(d.bytes) = PayloadPlaces(s)[at + 1]
    <3>1. Len(d.bytes) = IF Data(frames[at]) THEN PayloadPlaces(s)[at] + (frames[at].len - readRemaining)
                         ELSE PayloadPlaces(s)[at + 1]
      BY <2>1 DEF CurrentInv
    <3>2. at \in s..at /\ at \in 1..Len(frames) + 1 /\ s \in Nat
      BY <1>n, <2>2
    <3>3. PayloadPlaces(s)[at] \in Nat
          /\ PayloadPlaces(s)[at + 1] = PayloadPlaces(s)[at] + (IF at \in Parts(s) THEN frames[at].have ELSE 0)
      BY <1>n, <2>2, <3>2, PayloadAt
    <3> QED
      BY <2>1, <2>2, <2>3, <3>1, <3>2, <3>3
  <2>6. d.bytes = Payload(s)
    <3>1. d.bytes \in Seq(Byte) /\ Payload(s) \in Seq(Byte)
      <4>1. s \in Nat
        BY <1>n, <2>2
      <4> QED
        BY <1>n, <2>1, <4>1, PayloadAt, TypeFacts
    <3>2. \A i \in 1..Len(d.bytes) : d.bytes[i] = Payload(s)[i]
      BY <2>1 DEF BytesInv
    <3> HIDE DEF d, s
    <3> QED
      BY <2>4, <2>5, <3>1, <3>2, SameSequence
  <2> HIDE DEF d, s
  <2>7. ASSUME NEW m \in 1..Len(messages') PROVE EndIs(messages', m, Len(messages'), readErr', stream', at')
    <3>1. CASE m = Current
      BY <2>1, <2>4, <2>6, <3>1 DEF EndIs
    <3>2. CASE m # Current
      BY <1>w, <2>1, <3>2 DEF EndIs
    <3> QED
      BY <3>1, <3>2
  <2> QED
    BY <1>p, <2>1, <2>7
<1>9. CASE UNCHANGED readerVars
  BY <1>9, <1>s DEF readerVars, frameVars
<1> QED
  BY <1>1, <1>2, <1>3, <1>4, <1>5, <1>6, <1>7, <1>8, <1>9 DEF ReaderNext

-----------------------------------------------------------------------------
(* The limit. *)

(* A length is refused for what frame a and the frames of a message, the   *)
(* last one or one that was not read to its end, claim.                    *)
Deserved(ms, a) ==
  \/ frames[a].form = "long" /\ Signed(frames[a].len) < 0
  \/ \E i \in BeginsUpTo(a) :
       /\ Claimed(i, a) > MaxInt \/ (readLimit > 0 /\ Claimed(i, a) > readLimit)
       /\ i = Max(BeginsUpTo(a)) \/ \E m \in DOMAIN ms : ms[m].start = i /\ ~ms[m].done

(* One frame more. *)
LEMMA ClaimMore ==
  ASSUME frames \in Stream, NEW i \in Nat, i >= 1, NEW a \in Nat, a + 1 \in 1..Len(frames), i <= a + 1
  PROVE  /\ Claimed(i, a + 1) = Claimed(i, a) + (IF Data(frames[a + 1]) THEN frames[a + 1].len ELSE 0)
         /\ Claimed(i, a) \in Nat /\ Claimed(i, a + 1) \in Nat /\ frames[a + 1].len \in Nat
<1>1. Claimed(i, a + 1) = Claimed(i, a) + Claim(a + 1)
  BY ClaimedIs
<1>2. a <= Len(frames) /\ a + 1 <= Len(frames) /\ frames[a + 1].len \in Nat
  BY Scenario
<1> QED
  BY <1>1, <1>2, ClaimedType DEF Claim

(* What the frames of a message claim when frame at + 1 has been added.    *)
LEMMA Adds ==
  ASSUME ReaderIInv, Advancing, at + 1 \in 1..Len(frames), Data(frames[at + 1]),
         frames[at + 1].op \in Start => readFinal,
         frames[at + 1].op = "cont" => ~readFinal
  PROVE  \E i \in BeginsUpTo(at + 1) :
           /\ Claimed(i, at + 1) >= readLength + frames[at + 1].len /\ Claimed(i, at + 1) \in Nat
           /\ i = Max(BeginsUpTo(at + 1)) \/ \E m \in 1..Len(messages) : messages[m].start = i /\ ~messages[m].done
<1> USE DEF ReaderIInv
<1> DEFINE f == frames[at + 1]
           n == Len(messages)
<1>0. /\ frames \in Stream /\ Len(frames) \in Nat /\ at \in Nat /\ n \in Nat /\ readLength \in Nat
      /\ readErr = "none" /\ (readFinal => pc = "NextReader")
  BY TypeFacts DEF Advancing
<1>1. f.op = "cont" \/ f.op \in Start
  BY DEF Data
<1>2. \A j \in BeginsUpTo(at) : j \in Nat /\ j >= 1 /\ j <= at /\ j <= at + 1
  BY <1>0 DEF BeginsUpTo
<1>3. BeginsUpTo(at) \subseteq BeginsUpTo(at + 1) /\ BeginsUpTo(at + 1) \subseteq BeginsUpTo(at) \cup {at + 1}
  BY <1>0 DEF BeginsUpTo
<1>4. \A m \in 1..n : messages[m].start \in BeginsUpTo(at)
  BY DEF OrderInv
<1>5. ASSUME NEW m \in 1..n, readLength <= Claimed(messages[m].start, at)
      PROVE  LET i == messages[m].start
             IN Claimed(i, at + 1) >= readLength + f.len /\ Claimed(i, at + 1) \in Nat /\ i \in BeginsUpTo(at + 1)
  <2> DEFINE i == messages[m].start
  <2>1. i \in Nat /\ i >= 1 /\ i <= at + 1 /\ i \in BeginsUpTo(at + 1)
    BY <1>2, <1>3, <1>4
  <2>2. Claimed(i, at + 1) = Claimed(i, at) + f.len /\ Claimed(i, at) \in Nat /\ f.len \in Nat /\ Claimed(i, at + 1) \in Nat
    BY <1>0, <2>1, ClaimMore
  <2> HIDE DEF f
  <2> QED
    BY <1>0, <1>5, <2>1, <2>2
<1>6. CASE readLength = 0 /\ f.op \in Start
  <2>1. at + 1 \in BeginsUpTo(at + 1) /\ BeginsUpTo(at + 1) \subseteq Int /\ \A y \in BeginsUpTo(at + 1) : y <= at + 1
    BY <1>0, <1>6 DEF BeginsUpTo
  <2>2. Max(BeginsUpTo(at + 1)) = at + 1
    BY <2>1, MaxIs
  <2>3. Claimed(at + 1, at + 1) = Claimed(at + 1, at) + f.len /\ f.len \in Nat /\ Claimed(at + 1, at + 1) \in Nat
    <3>1. at + 1 \in Nat /\ at + 1 >= 1 /\ at + 1 <= at + 1
      BY <1>0
    <3> QED
      BY <1>0, <3>1, ClaimMore DEF Data
  <2>4. Claimed(at + 1, at) = 0
    BY <1>0, ClaimedIs
  <2> HIDE DEF f
  <2>5. Claimed(at + 1, at + 1) >= readLength + f.len
    BY <1>6, <2>3, <2>4
  <2> QED
    BY <2>1, <2>2, <2>3, <2>5 DEF f
<1>7. CASE readLength = 0 /\ f.op \notin Start
  <2>1. n \in 1..n /\ ~messages[n].done
    BY <1>0, <1>1, <1>7 DEF DoneInv
  <2>2. readLength <= Claimed(messages[n].start, at)
    <3>1. messages[n].start \in Nat /\ messages[n].start >= 1
      BY <1>2, <1>4, <2>1
    <3>2. Claimed(messages[n].start, at) \in Nat
      BY <1>0, <3>1, TypeFacts, ClaimedType
    <3> QED
      BY <1>7, <3>2
  <2> QED
    BY <1>5, <2>1, <2>2
<1>8. CASE readLength # 0
  <2>0. readLength > 0
    BY <1>0, <1>8
  <2>1. PICK m \in 1..n : readLength <= Claimed(messages[m].start, at) /\ (m = n \/ ~messages[m].done)
    BY <1>0, <2>0 DEF LengthInv
  <2>2. CASE ~messages[m].done
    BY <1>5, <2>1, <2>2
  <2>3. CASE m = n /\ f.op \in Start
    <3>1. ~messages[m].done
      BY <1>0, <2>0, <2>3 DEF LengthInv
    <3> QED
      BY <1>5, <2>1, <3>1
  <2>4. CASE m = n /\ f.op \notin Start
    <3>1. BeginsUpTo(at + 1) = BeginsUpTo(at)
      BY <1>0, <1>3, <2>4 DEF BeginsUpTo
    <3> DEFINE i == messages[m].start
    <3>2. i \in BeginsUpTo(at + 1) /\ BeginsUpTo(at + 1) \subseteq Int /\ \A y \in BeginsUpTo(at + 1) : y <= i
      BY <1>0, <1>2, <1>4, <2>4, <3>1 DEF OrderInv
    <3>3. i = Max(BeginsUpTo(at + 1))
      <4> HIDE DEF i
      <4> QED
        BY <3>2, MaxIs
    <3> QED
      BY <1>5, <2>1, <3>3
  <2> QED
    BY <2>1, <2>2, <2>3, <2>4
<1> QED
  BY <1>6, <1>7, <1>8

(* How advanceFrame comes to fail with ErrReadLimit. *)
LEMMA FailsLimit ==
  ASSUME ReaderIInv, AdvanceFails, readErr' = "limit"
  PROVE  LET f == frames[at + 1]
         IN /\ at' = at + 1 /\ at + 1 \in 1..Len(frames) /\ Data(f)
            /\ (f.op \in Start => readFinal) /\ (f.op = "cont" => ~readFinal)
            /\ \/ f.form = "long" /\ Signed(f.len) < 0 /\ f.len > MaxInt
               \/ readLength + f.len > MaxInt
               \/ readLimit > 0 /\ readLength + f.len > readLimit /\ told' # "none"
<1> USE DEF ReaderIInv
<1> DEFINE f == frames[at + 1]
<1>0. /\ frames \in Stream /\ readRemaining \in Nat /\ Len(stream) \in Nat /\ readLength \in Nat
      /\ at \in Nat /\ MaxInt \in Nat /\ readLimit \in Nat /\ readErr = "none"
  BY TypeFacts, ReaderAssumption DEF AdvanceFails, Advancing
<1>1. PICK e \in {FrameError(Rest), "write"} :
        /\ e # "none" /\ (e = "write" => FrameError(Rest) = "none" /\ frames[Rest[1].of].op = "ping")
        /\ readErr' = IF e = "too big" THEN "limit" ELSE e
        /\ told' = IF e \in {"protocol", "too big", "close"} THEN e ELSE told
  BY DEF AdvanceFails
<1>2. FrameError(Rest) = e /\ e \in {"limit", "too big"}
  BY <1>1
<1>3. ~(Len(stream) < readRemaining) /\ readRemaining <= Len(stream)
  <2>1. Len(stream) < readRemaining => FrameError(Rest) = "EOF"
    BY DEF FrameError
  <2>2. ~(Len(stream) < readRemaining)
    BY <1>2, <2>1
  <2> QED
    BY <1>0, <2>2
<1>4. Rest # <<>>
  <2>1. Rest = <<>> => FrameError(Rest) = "unexpected EOF"
    BY <1>3 DEF FrameError, HeaderError
  <2> QED
    BY <1>2, <2>1
<1>5. /\ at + 1 \in 1..Len(frames) /\ Rest[1].of = at + 1 /\ Rest[1].part = "head"
      /\ at' = at + 1 /\ Len(Rest) \in Nat
  <2>1. at' = at + 1
    BY <1>4, FailsAt
  <2> QED
    BY <1>0, <1>3, <1>4, <2>1, RestIs
<1>6. /\ f.len \in Nat /\ f.len \in 0..2 * MaxInt + 1
      /\ f.form # "long" => f.len <= MaxInt
  BY <1>0, <1>5, Scenario
<1>7. Signed(f.len) < 0 <=> f.len > MaxInt
  BY <1>6, SignedIs
<1>8. HeaderError(Rest) =
        IF HeadError(f) THEN "protocol"
        ELSE IF f.form # "short" /\ Len(Rest) < 2 THEN "unexpected EOF"
        ELSE IF f.form = "long" /\ Signed(f.len) < 0 THEN "limit"
        ELSE IF f.masked # isServer THEN "protocol"
        ELSE IF Len(Rest) < Header(f) THEN "unexpected EOF"
        ELSE "none"
  BY <1>4, <1>5 DEF HeaderError
<1>9. HeaderError(Rest) # "none" => FrameError(Rest) = HeaderError(Rest)
  BY <1>3 DEF FrameError
<1>90. HeaderError(Rest) = "none" =>
       FrameError(Rest) =
         IF Data(f) THEN LimitError(f)
         ELSE IF Len(Rest) < Header(f) + f.len THEN "unexpected EOF"
         ELSE IF f.op = "badclose" THEN "protocol"
         ELSE IF f.op = "close" THEN "close" ELSE "none"
  BY <1>3, <1>5 DEF FrameError
<1> HIDE DEF f
<1>10. ~HeadError(f) => (f.op \in Start => readFinal) /\ (f.op = "cont" => ~readFinal)
  BY DEF HeadError
<1>11. CASE HeaderError(Rest) # "none"
  <2>1. HeaderError(Rest) = "limit" \/ HeaderError(Rest) = "too big"
    BY <1>2, <1>9, <1>11
  <2>2. ~HeadError(f) /\ f.form = "long" /\ Signed(f.len) < 0
    BY <1>8, <1>11, <2>1
  <2>3. Data(f)
    BY <2>2 DEF HeadError, Data
  <2> QED
    BY <1>5, <1>7, <1>10, <2>2, <2>3 DEF f
<1>12. CASE HeaderError(Rest) = "none"
  <2>1. ~HeadError(f) /\ (f.form = "long" => ~(Signed(f.len) < 0))
    BY <1>8, <1>12
  <2>2. Data(f) /\ LimitError(f) = e
    <3>1. CASE Data(f)
      BY <1>2, <1>90, <1>12, <3>1
    <3>2. CASE ~Data(f)
      <4>1. FrameError(Rest) \in {"unexpected EOF", "protocol", "close", "none"}
        BY <1>90, <1>12, <3>2
      <4> QED
        BY <1>2, <4>1
    <3> QED
      BY <3>1, <3>2
  <2> DEFINE n == readLength + f.len
  <2>3. n \in Nat /\ n \in 0..2 * MaxInt + 1
    <3>1. readLength <= MaxInt
      BY <1>0 DEF LengthInv
    <3>2. f.len <= MaxInt
      BY <1>0, <1>6, <1>7, <2>1
    <3> QED
      BY <1>0, <1>6, <3>1, <3>2
  <2>4. (Signed(n) < 0 <=> n > MaxInt) /\ (n <= MaxInt => Signed(n) = n)
    BY <2>3, SignedIs
  <2>5. Signed(n) < 0 \/ (readLimit > 0 /\ Signed(n) > readLimit /\ e = "too big")
    BY <1>2, <2>2 DEF LimitError
  <2>6. e = "too big" => told' # "none"
    BY <1>1
  <2> HIDE DEF n
  <2>7. n > MaxInt \/ (readLimit > 0 /\ n > readLimit /\ told' # "none")
    <3>1. CASE n > MaxInt
      BY <3>1
    <3>2. CASE n <= MaxInt
      <4>1. ~(Signed(n) < 0) /\ Signed(n) = n
        BY <1>0, <2>3, <2>4, <3>2
      <4>2. readLimit > 0 /\ n > readLimit /\ e = "too big"
        BY <2>5, <4>1
      <4> QED
        BY <2>6, <4>2
    <3> QED
      BY <1>0, <2>3, <3>1, <3>2
  <2> QED
    BY <1>5, <1>10, <2>1, <2>2, <2>7 DEF f, n
<1> QED
  BY <1>11, <1>12

LimitIs(ms, a, err, t) ==
  /\ \A m \in DOMAIN ms : readLimit > 0 => Len(ms[m].bytes) <= readLimit
  /\ err = "limit" => Deserved(ms, a)
  /\ err = "limit" /\ t = "none" => \E i \in BeginsUpTo(a) : Claimed(i, a) > MaxInt

(* Every step keeps to the limit, and refuses for a reason. *)
LEMMA LimitStep ==
  ASSUME ReaderIInv, [ReaderNext]_readerVars, ReaderTypeOK'
  PROVE  LimitHolds'
<1> USE DEF ReaderIInv
<1>n. /\ Len(messages) \in Nat /\ at \in Nat /\ frames \in Stream /\ Len(frames) \in Nat
      /\ DOMAIN messages = 1..Len(messages) /\ readLimit \in Nat /\ readLength \in Nat /\ MaxInt \in Nat
  BY TypeFacts, ReaderAssumption
<1>t. DOMAIN messages' = 1..Len(messages') /\ Len(messages') \in Nat
  <2>1. messages' \in Seq(Message)
    BY DEF ReaderTypeOK
  <2> QED
    BY <2>1
<1>l. LimitIs(messages, at, readErr, told)
  BY DEF LimitHolds, LimitIs, Deserved, BeginsUpTo
<1>p. ASSUME inputs' = inputs, LimitIs(messages', at', readErr', told')
      PROVE  LimitHolds'
  <2>1. frames' = frames /\ readLimit' = readLimit /\ (\A i, j : Claimed(i, j)' = Claimed(i, j))
    BY <1>p, SentStays
  <2>2. \A n : Signed(n)' = Signed(n)
    BY DEF Signed
  <2> QED
    BY <1>p, <2>1, <2>2 DEF LimitHolds, LimitIs, Deserved, BeginsUpTo
<1>s. ASSUME UNCHANGED <<inputs, messages, at, told, readErr>> PROVE LimitHolds'
  BY <1>l, <1>p, <1>s
<1>b. ASSUME inputs' = inputs, readErr' # "limit",
             \A m \in 1..Len(messages') : readLimit > 0 => Len(messages'[m].bytes) <= readLimit
      PROVE  LimitHolds'
  BY <1>b, <1>p, <1>t DEF LimitIs
<1>1. CASE AdvanceFails
  <2>1. messages' = messages /\ inputs' = inputs
    BY <1>1, FailsAt DEF AdvanceFails
  <2>2. CASE readErr' # "limit"
    BY <1>b, <1>l, <1>n, <2>1, <2>2 DEF LimitIs
  <2>3. CASE readErr' = "limit"
    <3> DEFINE f == frames[at + 1]
               T == BeginsUpTo(at + 1)
    <3>1. /\ at' = at + 1 /\ at + 1 \in 1..Len(frames) /\ Data(f)
          /\ (f.op \in Start => readFinal) /\ (f.op = "cont" => ~readFinal)
          /\ \/ f.form = "long" /\ Signed(f.len) < 0 /\ f.len > MaxInt
             \/ readLength + f.len > MaxInt
             \/ readLimit > 0 /\ readLength + f.len > readLimit /\ told' # "none"
      BY <1>1, <2>3, FailsLimit
    <3>2. Advancing
      BY <1>1 DEF AdvanceFails
    <3>3. PICK i \in T :
            /\ Claimed(i, at + 1) >= readLength + f.len /\ Claimed(i, at + 1) \in Nat
            /\ i = Max(T) \/ \E m \in 1..Len(messages) : messages[m].start = i /\ ~messages[m].done
      BY <3>1, <3>2, Adds
    <3>4. f.len \in Nat
      BY <1>n, <3>1, Scenario
    <3> HIDE DEF T, f
    <3>5. f.len > MaxInt \/ readLength + f.len > MaxInt => Claimed(i, at + 1) > MaxInt
      BY <1>n, <3>3, <3>4
    <3>6. readLength + f.len > readLimit => Claimed(i, at + 1) > readLimit
      BY <1>n, <3>3, <3>4
    <3>7. Deserved(messages, at + 1)
      <4>1. CASE f.form = "long" /\ Signed(f.len) < 0
        BY <4>1 DEF Deserved, f
      <4>2. CASE Claimed(i, at + 1) > MaxInt \/ (readLimit > 0 /\ Claimed(i, at + 1) > readLimit)
        BY <1>n, <3>3, <4>2 DEF Deserved, T
      <4> QED
        BY <3>1, <3>5, <3>6, <4>1, <4>2
    <3>8. told' = "none" => \E x \in T : Claimed(x, at + 1) > MaxInt
      BY <3>1, <3>3, <3>5
    <3> QED
      BY <1>l, <1>p, <2>1, <3>1, <3>7, <3>8 DEF LimitIs, T
  <2> QED
    BY <2>2, <2>3
<1>2. CASE AdvanceFrame
  <2> DEFINE f == frames[at + 1]
             new == [start |-> at + 1, bytes |-> <<>>, done |-> FALSE]
             n == Len(messages)
  <2>1. readErr' = "none" /\ inputs' = inputs
    BY <1>2, AdvanceFrameIs
  <2>2. \A m \in 1..n : readLimit > 0 => Len(messages[m].bytes) <= readLimit
    BY <1>l, <1>n DEF LimitIs
  <2>3. CASE pc = "NextReader" /\ f.op \in Start
    <3>1. messages' = Append(messages, new)
      BY <1>2, <2>3, AdvanceFrameIs
    <3>2. Len(messages') = n + 1 /\ messages'[n + 1] = new /\ \A m \in 1..n : messages'[m] = messages[m]
      BY <3>1, TypeFacts
    <3>3. Len(new.bytes) = 0
      OBVIOUS
    <3> HIDE DEF new
    <3>4. ASSUME NEW m \in 1..Len(messages'), readLimit > 0 PROVE Len(messages'[m].bytes) <= readLimit
      <4>1. m \in 1..n \/ m = n + 1
        BY <1>n, <3>2
      <4> QED
        BY <1>n, <2>2, <3>2, <3>3, <3>4, <4>1
    <3> QED
      BY <1>b, <2>1, <3>4
  <2>4. CASE ~(pc = "NextReader" /\ f.op \in Start)
    <3>1. messages' = messages
      BY <1>2, <2>4, AdvanceFrameIs
    <3> QED
      BY <1>b, <2>1, <2>2, <3>1
  <2> QED
    BY <2>3, <2>4
<1>3. CASE NextReader
  BY <1>3, <1>s DEF NextReader
<1>4. CASE NextReaderAgain
  BY <1>4, <1>s DEF NextReaderAgain
<1>5. CASE Read
  BY <1>5, <1>s DEF Read, OnlyRead
<1>6. CASE ReadBytes
  <2> DEFINE c == Current
             b == messages[c].bytes
  <2>1. /\ readErr = "none" /\ reader /\ inputs' = inputs /\ c \in 1..Len(messages) /\ c = Len(messages)
    BY <1>6, ReadBytesIs DEF Current
  <2>2. PICK k \in Nat, align \in 0..WordSize - 1, end \in BOOLEAN :
          /\ k <= Len(stream) /\ k <= readRemaining /\ Len(messages') = Len(messages)
          /\ \A m \in 1..Len(messages) : m # c => messages'[m] = messages[m]
          /\ messages'[c].bytes = b \o Unmasked(k, align)
          /\ readErr' = IF ~end THEN "none" ELSE IF k = readRemaining THEN "EOF" ELSE "unexpected EOF"
    BY <1>6, ReadBytesIs
  <2>3. Len(b) + readRemaining <= readLength /\ (readLimit > 0 => readLength <= readLimit)
    BY <2>1 DEF LengthInv
  <2>4. Len(messages'[c].bytes) = Len(b) + k /\ Len(b) \in Nat /\ readRemaining \in Nat
    <3> DEFINE u == Unmasked(k, align)
    <3>1. b \in Seq(Byte) /\ u \in Seq(Byte) /\ Len(u) = k /\ readRemaining \in Nat /\ messages'[c].bytes = b \o u
      BY <2>1, <2>2, UnmaskedType, TypeFacts
    <3> HIDE DEF b, u
    <3> QED
      BY <3>1
  <2>5. readErr' # "limit"
    BY <2>2
  <2> HIDE DEF c, b
  <2>6. ASSUME NEW m \in 1..Len(messages'), readLimit > 0 PROVE Len(messages'[m].bytes) <= readLimit
    <3>1. CASE m = c
      <4> DEFINE l == Len(b)
      <4>0. k \in Nat /\ k <= readRemaining /\ readRemaining \in Nat /\ l \in Nat
            /\ l + readRemaining <= readLength /\ readLength <= readLimit
        BY <2>2, <2>3, <2>4, <2>6
      <4>1. l + k <= readLimit
        <5> HIDE DEF l
        <5> QED
          BY <1>n, <4>0
      <4> QED
        BY <2>4, <3>1, <4>1
    <3>2. CASE m # c
      BY <1>l, <1>n, <2>2, <2>6, <3>2 DEF LimitIs
    <3> QED
      BY <3>1, <3>2
  <2> QED
    BY <1>b, <2>1, <2>5, <2>6
<1>7. CASE ReadCut
  BY <1>7, <1>b, <1>l, <1>n DEF ReadCut, OnlyRead, LimitIs
<1>8. CASE ReadEnd
  <2> DEFINE c == Current
  <2>1. /\ readErr' = "none" /\ inputs' = inputs /\ Len(messages') = Len(messages)
        /\ \A m \in 1..Len(messages) : m # c => messages'[m] = messages[m]
        /\ messages'[c].bytes = messages[c].bytes
    BY <1>8, ReadEndIs
  <2> HIDE DEF c
  <2>2. ASSUME NEW m \in 1..Len(messages'), readLimit > 0 PROVE Len(messages'[m].bytes) <= readLimit
    <3>1. messages'[m].bytes = messages[m].bytes
      BY <2>1
    <3> QED
      BY <1>l, <1>n, <2>1, <2>2, <3>1 DEF LimitIs
  <2> QED
    BY <1>b, <2>1, <2>2
<1>9. CASE UNCHANGED readerVars
  <2>1. inputs' = inputs /\ messages' = messages /\ at' = at /\ told' = told /\ readErr' = readErr
    BY <1>9 DEF readerVars, frameVars
  <2> QED
    BY <1>s, <2>1
<1> QED
  BY <1>1, <1>2, <1>3, <1>4, <1>5, <1>6, <1>7, <1>8, <1>9 DEF ReaderNext

LengthIs(ms, a, r, c, left, len) ==
  /\ len <= MaxInt /\ (readLimit > 0 => len <= readLimit)
  /\ r => Len(ms[Len(ms)].bytes) + left <= len
  /\ c = "NextReader" /\ len > 0 => ~ms[Len(ms)].done
  /\ len > 0 => \E m \in 1..Len(ms) : len <= Claimed(ms[m].start, a) /\ (m = Len(ms) \/ ~ms[m].done)

(* Every step keeps readLength what frames claim. *)
LEMMA LengthStep ==
  ASSUME ReaderIInv, [ReaderNext]_readerVars
  PROVE  LengthInv'
<1> USE DEF ReaderIInv
<1>n. /\ Len(messages) \in Nat /\ at \in Nat /\ frames \in Stream /\ Len(frames) \in Nat
      /\ readLimit \in Nat /\ readLength \in Nat /\ MaxInt \in Nat /\ readRemaining \in Nat
      /\ reader \in BOOLEAN
  BY TypeFacts, ReaderAssumption DEF ReaderTypeOK
<1>l. readErr = "none" => told = "none" /\ LengthIs(messages, at, reader, pc, readRemaining, readLength)
  BY DEF LengthInv, LengthIs
<1>p. ASSUME inputs' = inputs, told' = "none",
             LengthIs(messages', at', reader', pc', readRemaining', readLength')
      PROVE  LengthInv'
  <2>1. readLimit' = readLimit /\ (\A i, j : Claimed(i, j)' = Claimed(i, j))
    BY <1>p, SentStays
  <2> QED
    BY <1>p, <2>1 DEF LengthInv, LengthIs
<1>e. ASSUME readErr' # "none" PROVE LengthInv'
  BY <1>e DEF LengthInv
<1>z. ASSUME readErr = "none", inputs' = inputs, told' = told, ~reader', readLength' = 0
      PROVE  LengthInv'
  BY <1>l, <1>n, <1>p, <1>z DEF LengthIs
<1>1. CASE AdvanceFails
  BY <1>1, <1>e, FailsAt
<1>2. CASE AdvanceFrame
  <2> DEFINE f == frames[at + 1]
             new == [start |-> at + 1, bytes |-> <<>>, done |-> FALSE]
             n == Len(messages)
  <2>1. readErr = "none" /\ inputs' = inputs /\ at' = at + 1 /\ told' = "none" /\ Advancing
    BY <1>2, <1>l, AdvanceFrameIs DEF AdvanceFrame
  <2>2. /\ at + 1 \in 1..Len(frames)
        /\ (f.op \in Start => readFinal) /\ (f.op = "cont" => ~readFinal)
        /\ Data(f) => /\ readLength + f.len <= MaxInt
                      /\ readLimit > 0 => readLength + f.len <= readLimit
    BY <1>2, <2>1, FrameIsLegal DEF AdvanceFrame
  <2>3. f.len \in Nat
    BY <1>n, <2>2, Scenario
  <2>4. LengthIs(messages, at, reader, pc, readRemaining, readLength)
    BY <1>l, <2>1
  <2>5. \A m \in 1..n : messages[m].start \in Nat /\ messages[m].start >= 1 /\ messages[m].start <= at + 1
    <3>1. \A m \in 1..n : messages[m].start \in BeginsUpTo(at)
      BY DEF OrderInv
    <3> QED
      BY <1>n, <3>1 DEF BeginsUpTo
  <2>6. \A m \in 1..n :
          /\ Claimed(messages[m].start, at) \in Nat
          /\ Claimed(messages[m].start, at + 1) = Claimed(messages[m].start, at) + (IF Data(f) THEN f.len ELSE 0)
    BY <1>n, <2>2, <2>5, ClaimMore
  <2>7. readLength' = readLength + (IF Data(f) THEN f.len ELSE 0) /\ readRemaining' = (IF Data(f) THEN f.len ELSE 0)
    BY <1>2, <1>n, AdvanceFrameIs
  <2> HIDE DEF f
  <2> DEFINE added == IF Data(f) THEN f.len ELSE 0
  <2>8. added \in Nat /\ readLength + added <= MaxInt /\ (readLimit > 0 => readLength + added <= readLimit)
    <3>1. CASE Data(f)
      BY <2>2, <2>3, <3>1 DEF f
    <3>2. CASE ~Data(f)
      BY <1>n, <2>4, <3>2 DEF LengthIs
    <3> QED
      BY <3>1, <3>2
  <2>9. CASE pc = "NextReader" /\ f.op \in Start
    <3>1. messages' = Append(messages, new) /\ Data(f) /\ reader' = TRUE /\ pc' = "app"
      BY <1>2, <2>9, AdvanceFrameIs DEF Data, f
    <3>2. Len(messages') = n + 1 /\ messages'[n + 1] = new /\ \A m \in 1..n : messages'[m] = messages[m]
      BY <3>1, TypeFacts
    <3>3. Len(new.bytes) = 0 /\ new.start = at + 1
      OBVIOUS
    <3> HIDE DEF new
    <3>4. Len(messages'[n + 1].bytes) + added <= readLength + added
      BY <1>n, <2>8, <3>2, <3>3
    <3>5. \E m \in 1..n + 1 : readLength + added <= Claimed(messages'[m].start, at + 1) /\ (m = n + 1 \/ ~messages'[m].done)
      <4>1. CASE readLength = 0
        <5>1. Claimed(at + 1, at + 1) = Claimed(at + 1, at) + added
          <6>1. at + 1 \in Nat /\ at + 1 >= 1 /\ at + 1 <= at + 1
            BY <1>n
          <6> QED
            BY <1>n, <2>2, <6>1, ClaimMore DEF f
        <5>2. Claimed(at + 1, at) = 0
          BY <1>n, ClaimedIs
        <5>3. readLength + added <= Claimed(messages'[n + 1].start, at + 1)
          BY <2>8, <3>2, <3>3, <4>1, <5>1, <5>2
        <5> QED
          BY <1>n, <5>3
      <4>2. CASE readLength # 0
        <5>1. PICK m \in 1..n : readLength <= Claimed(messages[m].start, at) /\ (m = n \/ ~messages[m].done)
          BY <1>n, <2>4, <4>2 DEF LengthIs
        <5>2. ~messages[m].done
          BY <1>n, <2>4, <2>9, <4>2, <5>1 DEF LengthIs
        <5>3. m \in 1..n + 1 /\ messages'[m] = messages[m]
          BY <1>n, <3>2
        <5>4. readLength + added <= Claimed(messages[m].start, at + 1)
          <6> DEFINE x == Claimed(messages[m].start, at)
          <6>1. x \in Nat /\ Claimed(messages[m].start, at + 1) = x + added /\ readLength <= x
            BY <2>6, <5>1 DEF f
          <6> HIDE DEF x, added
          <6> QED
            BY <1>n, <2>8, <6>1
        <5> QED
          BY <5>2, <5>3, <5>4
      <4> QED
        BY <4>1, <4>2
    <3> QED
      BY <1>p, <2>1, <2>7, <2>8, <3>1, <3>2, <3>4, <3>5 DEF LengthIs
  <2>10. CASE ~(pc = "NextReader" /\ f.op \in Start)
    <3>1. messages' = messages /\ pc' = pc /\ reader' = reader
      BY <1>2, <2>10, AdvanceFrameIs DEF f
    <3>2. ASSUME reader PROVE Len(messages[n].bytes) + added <= readLength + added
      <4>1. pc # "NextReader"
        BY <3>2 DEF CurrentInv
      <4>2. readRemaining = 0
        BY <2>1, <4>1 DEF Advancing
      <4>3. n \in 1..n
        BY <1>n, <3>2 DEF CurrentInv
      <4> DEFINE l == Len(messages[n].bytes)
      <4>4. l \in Nat /\ l + readRemaining <= readLength
        BY <2>4, <3>2, <4>3, TypeFacts DEF LengthIs
      <4> HIDE DEF l, added
      <4>5. l + added <= readLength + added
        BY <1>n, <2>8, <4>2, <4>4
      <4> QED
        BY <4>5 DEF l
    <3>3. ASSUME readLength = 0, added > 0
          PROVE  n \in 1..n /\ ~messages[n].done
      <4>1. Data(f)
        BY <3>3
      <4>2. f.op = "cont"
        BY <2>1, <2>2, <2>10, <4>1 DEF Data, Advancing, f
      <4>3. ~readFinal
        BY <2>2, <4>2 DEF f
      <4> QED
        BY <1>n, <2>1, <4>3 DEF DoneInv
    <3>4. ASSUME readLength + added > 0
          PROVE  \E m \in 1..n : readLength + added <= Claimed(messages[m].start, at + 1) /\ (m = n \/ ~messages[m].done)
      <4>0. \E m \in 1..n : readLength <= Claimed(messages[m].start, at) /\ (m = n \/ ~messages[m].done)
        <5>1. CASE readLength = 0
          <6>1. n \in 1..n
            BY <2>8, <3>3, <3>4, <5>1
          <6>2. readLength <= Claimed(messages[n].start, at)
            BY <2>6, <5>1, <6>1
          <6> QED
            BY <6>1, <6>2
        <5>2. CASE readLength # 0
          BY <1>n, <2>4, <5>2 DEF LengthIs
        <5> QED
          BY <5>1, <5>2
      <4>1. PICK m \in 1..n : readLength <= Claimed(messages[m].start, at) /\ (m = n \/ ~messages[m].done)
        BY <4>0
      <4> DEFINE x == Claimed(messages[m].start, at)
      <4>2. x \in Nat /\ Claimed(messages[m].start, at + 1) = x + added /\ readLength <= x
        BY <2>6, <4>1 DEF f
      <4>3. readLength + added <= x + added
        <5> HIDE DEF x, added
        <5> QED
          BY <1>n, <2>8, <4>2
      <4> QED
        BY <4>1, <4>2, <4>3
    <3>5. pc = "NextReader" /\ readLength + added > 0 => ~messages[n].done
      <4>1. CASE readLength = 0
        BY <2>8, <3>3, <4>1
      <4>2. CASE readLength # 0
        BY <1>n, <2>4, <4>2 DEF LengthIs
      <4> QED
        BY <4>1, <4>2
    <3> QED
      BY <1>p, <2>1, <2>7, <2>8, <3>1, <3>2, <3>4, <3>5 DEF LengthIs
  <2> QED
    BY <2>9, <2>10
<1>3. CASE NextReader
  BY <1>3, <1>z DEF NextReader
<1>4. CASE NextReaderAgain
  BY <1>4, <1>e DEF NextReaderAgain
<1>5. CASE Read
  <2>1. UNCHANGED <<inputs, messages, at, reader, readRemaining, readLength, told>> /\ readErr = "none" /\ pc' = "Read"
    BY <1>5 DEF Read, OnlyRead
  <2> QED
    BY <1>l, <1>p, <2>1 DEF LengthIs
<1>6. CASE ReadBytes
  <2> DEFINE c == Current
             b == messages[c].bytes
  <2>1. /\ readErr = "none" /\ reader /\ inputs' = inputs /\ c \in 1..Len(messages) /\ c = Len(messages)
        /\ UNCHANGED <<readLength, at, reader, told>> /\ pc' = "app" /\ \A m \in 1..Len(messages) : messages[m].done \in BOOLEAN
    BY <1>6, ReadBytesIs, TypeFacts DEF Current
  <2>2. PICK k \in Nat, align \in 0..WordSize - 1, end \in BOOLEAN :
          /\ k <= Len(stream) /\ k <= readRemaining /\ Len(messages') = Len(messages)
          /\ \A m \in 1..Len(messages) : m # c => messages'[m] = messages[m]
          /\ messages'[c].bytes = b \o Unmasked(k, align)
          /\ messages'[c].start = messages[c].start
          /\ readRemaining' = readRemaining - k
    BY <1>6, ReadBytesIs
  <2>3. Len(b) + readRemaining <= readLength
    BY <2>1 DEF LengthInv
  <2>4. Len(messages'[c].bytes) = Len(b) + k /\ Len(b) \in Nat
    <3> DEFINE u == Unmasked(k, align)
    <3>1. b \in Seq(Byte) /\ u \in Seq(Byte) /\ Len(u) = k /\ messages'[c].bytes = b \o u
      BY <2>1, <2>2, UnmaskedType, TypeFacts
    <3> HIDE DEF b, u
    <3> QED
      BY <3>1
  <2>5. Len(messages'[c].bytes) + readRemaining' <= readLength
    <3> DEFINE l == Len(b)
    <3>1. l \in Nat /\ l + readRemaining <= readLength /\ readRemaining' = readRemaining - k /\ k \in Nat
          /\ Len(messages'[c].bytes) = l + k
      BY <2>2, <2>3, <2>4
    <3> HIDE DEF l
    <3> QED
      BY <1>n, <3>1
  <2>6. ASSUME readLength > 0
        PROVE  \E m \in 1..Len(messages) : readLength <= Claimed(messages'[m].start, at) /\ (m = Len(messages) \/ ~messages'[m].done)
    <3>1. PICK m \in 1..Len(messages) : readLength <= Claimed(messages[m].start, at) /\ (m = Len(messages) \/ ~messages[m].done)
      BY <1>l, <2>1, <2>6 DEF LengthIs
    <3>2. messages'[m].start = messages[m].start /\ (m # c => messages'[m].done = messages[m].done)
      BY <2>2
    <3> QED
      BY <2>1, <3>1, <3>2
  <2>7. readErr = "none" /\ told' = "none" /\ readLength <= MaxInt /\ (readLimit > 0 => readLength <= readLimit)
    BY <1>l, <2>1 DEF LengthIs
  <2> HIDE DEF b
  <2> QED
    BY <1>p, <2>1, <2>2, <2>5, <2>6, <2>7 DEF LengthIs
<1>7. CASE ReadCut
  BY <1>7, <1>e DEF ReadCut
<1>8. CASE ReadEnd
  <2> DEFINE c == Current
  <2>1. /\ readErr = "none" /\ inputs' = inputs /\ Len(messages') = Len(messages) /\ c = Len(messages)
        /\ \A m \in 1..Len(messages) : m # c => messages'[m] = messages[m]
        /\ messages'[c].start = messages[c].start
        /\ UNCHANGED <<readLength, at, told>> /\ pc' = "app" /\ ~reader'
    BY <1>8, ReadEndIs DEF frameVars, Current
  <2>2. ASSUME readLength > 0
        PROVE  \E m \in 1..Len(messages) : readLength <= Claimed(messages'[m].start, at) /\ (m = Len(messages) \/ ~messages'[m].done)
    <3>1. PICK m \in 1..Len(messages) : readLength <= Claimed(messages[m].start, at) /\ (m = Len(messages) \/ ~messages[m].done)
      BY <1>l, <2>1, <2>2 DEF LengthIs
    <3>2. messages'[m].start = messages[m].start /\ (m # c => messages'[m].done = messages[m].done)
      BY <2>1
    <3> QED
      BY <2>1, <3>1, <3>2
  <2>3. told' = "none" /\ readLength <= MaxInt /\ (readLimit > 0 => readLength <= readLimit)
    BY <1>l, <2>1 DEF LengthIs
  <2> QED
    BY <1>p, <2>1, <2>2, <2>3 DEF LengthIs
<1>9. CASE UNCHANGED readerVars
  <2>1. UNCHANGED <<inputs, messages, at, reader, readRemaining, readLength, told, readErr, pc>>
    BY <1>9 DEF readerVars, frameVars
  <2> QED
    BY <1>e, <1>l, <1>p, <2>1
<1> QED
  BY <1>1, <1>2, <1>3, <1>4, <1>5, <1>6, <1>7, <1>8, <1>9 DEF ReaderNext

-----------------------------------------------------------------------------
(* The theorems. *)

(* The invariant holds at the start. *)
LEMMA ReaderStarts ==
  ASSUME ReaderInit
  PROVE  ReaderIInv
<1>1. PICK cut \in 0..Len(Units(frames)) : stream = SubSeq(Units(frames), 1, cut)
  BY DEF ReaderInit
<1>2. /\ frames \in Stream /\ isServer \in BOOLEAN /\ readLimit \in Limits
      /\ readRemaining = 0 /\ readFinal = TRUE /\ readLength = 0 /\ readMaskPos = 0
      /\ readErr = "none" /\ keyOf = 0 /\ at = 0 /\ reader = FALSE
      /\ pc = "app" /\ room = 0 /\ messages = <<>> /\ told = "none" /\ readErrCount = 0
  BY DEF ReaderInit
<1>3. Units(frames) \in Seq(Unit) /\ Len(frames) \in Nat /\ Len(Units(frames)) \in Nat
  BY <1>2, UnitsAt, Scenario
<1>4. stream \in Seq(Unit) /\ Len(stream) = cut /\ \A i \in 1..cut : stream[i] = Units(frames)[i]
  <2> DEFINE u == Units(frames)
  <2> HIDE DEF u
  <2>1. /\ SubSeq(u, 1, cut) \in Seq(Unit) /\ Len(SubSeq(u, 1, cut)) = cut
        /\ \A i \in 1..cut : SubSeq(u, 1, cut)[i] = u[i]
    BY <1>1, <1>3 DEF u
  <2> QED
    BY <1>1, <2>1 DEF u
<1>5. messages \in Seq(Message) /\ Len(messages) = 0
  BY <1>2
<1>6. ReaderTypeOK
  <2>1. at \in 0..Len(frames)
    BY <1>2, <1>3
  <2>2. /\ stream \in Seq(Unit) /\ messages \in Seq(Message)
        /\ readRemaining \in Nat /\ readLength \in Nat /\ readMaskPos \in Nat /\ keyOf \in Nat
        /\ room \in Nat /\ readErrCount \in Nat
    <3> HIDE DEF Unit, Message
    <3> QED
      BY <1>2, <1>4, <1>5
  <2> QED
    BY <1>2, <2>1, <2>2 DEF ReaderTypeOK
<1>7. StreamInv
  <2>1. NextPlace = 0
    BY <1>2 DEF NextPlace
  <2>2. \A i \in 1..Len(stream) : stream[i] = Units(frames)[0 + i]
    BY <1>1, <1>4
  <2> QED
    BY <1>1, <1>2, <1>3, <1>4, <2>1, <2>2 DEF StreamInv
<1>8. LegalInv
  <2>1. ~Open(at + 1)
    BY <1>2, OpenFirst
  <2> QED
    BY <1>2, <2>1 DEF LegalInv
<1>9. MaskInv
  BY <1>2 DEF MaskInv
<1>10. OrderInv
  BY <1>2, <1>5 DEF OrderInv, BeginsUpTo
<1>11. BytesInv
  BY <1>5 DEF BytesInv
<1>12. CurrentInv
  BY <1>2 DEF CurrentInv
<1>13. DoneInv
  BY <1>2, <1>5 DEF DoneInv, EndMeansWhole
<1>14. LengthInv
  <2>1. MaxInt \in Nat /\ readLimit \in Nat
    BY <1>6, TypeFacts, ReaderAssumption
  <2> QED
    BY <1>2, <2>1 DEF LengthInv
<1>15. LimitHolds
  BY <1>2 DEF LimitHolds
<1> QED
  BY <1>6, <1>7, <1>8, <1>9, <1>10, <1>11, <1>12, <1>13, <1>14, <1>15 DEF ReaderIInv

(* Every step keeps it. *)
LEMMA ReaderStays ==
  ASSUME ReaderIInv, [ReaderNext]_readerVars
  PROVE  ReaderIInv'
<1>1. ReaderTypeOK' /\ BytesInv'
  BY TypeStep, BytesStep
<1> QED
  BY <1>1, StreamStep, LegalStep, MaskStep, OrderStep, CurrentStep, DoneStep, LengthStep, LimitStep
  DEF ReaderIInv

(* The invariant of the proofs holds: of the stream, the key, the fields   *)
(* of the frame being read, and what the application has got.              *)
THEOREM ReaderIInvHolds == ReaderSpec => []ReaderIInv
BY ReaderStarts, ReaderStays, PTL DEF ReaderSpec

(* A beginning of the payload, byte by byte, is a prefix of it. *)
LEMMA IInvGivesDelivered ==
  ASSUME ReaderIInv
  PROVE  DeliveredIsSent
<1> USE DEF ReaderIInv
<1>1. frames \in Stream /\ Len(frames) \in Nat /\ DOMAIN messages = 1..Len(messages)
  BY TypeFacts
<1> SUFFICES ASSUME NEW m \in 1..Len(messages)
             PROVE  LET d == messages[m]
                    IN /\ frames[d.start].op \in Start /\ (m > 1 => messages[m - 1].start < d.start)
                       /\ IsPrefix(d.bytes, Payload(d.start))
                       /\ \A b \in Range(d.bytes) : \A i \in 1..b[1] : Legal(i)
  BY <1>1, Zenon DEF DeliveredIsSent
<1> DEFINE b == messages[m].bytes
           s == messages[m].start
           p == Payload(s)
<1>2. s \in BeginsUpTo(at) /\ (m > 1 => messages[m - 1].start < s)
  BY DEF OrderInv
<1>3. frames[s].op \in Start /\ s \in Nat
  BY <1>2, TypeFacts DEF BeginsUpTo
<1>4. Len(b) <= Len(p) /\ \A k \in 1..Len(b) : b[k] = p[k] /\ \A i \in 1..b[k][1] : Legal(i)
  BY DEF BytesInv
<1>5. b \in Seq(Byte) /\ p \in Seq(Byte)
  BY <1>1, <1>3, PayloadAt, TypeFacts
<1>6. IsPrefix(b, p)
  <2> HIDE DEF b, p
  <2>1. /\ SubSeq(b, 1, Len(b)) \in Seq(Byte) /\ Len(SubSeq(b, 1, Len(b))) = Len(b)
        /\ \A k \in 1..Len(b) : SubSeq(b, 1, Len(b))[k] = b[k]
    BY <1>5
  <2>2. /\ SubSeq(p, 1, Len(b)) \in Seq(Byte) /\ Len(SubSeq(p, 1, Len(b))) = Len(b)
        /\ \A k \in 1..Len(b) : SubSeq(p, 1, Len(b))[k] = p[k]
    BY <1>4, <1>5
  <2>3. SubSeq(b, 1, Len(b)) = SubSeq(p, 1, Len(b))
    <3> DEFINE x == SubSeq(b, 1, Len(b))
               y == SubSeq(p, 1, Len(b))
    <3>1. x \in Seq(Byte) /\ y \in Seq(Byte) /\ Len(x) = Len(y) /\ \A k \in 1..Len(x) : x[k] = y[k]
      BY <1>4, <2>1, <2>2
    <3> HIDE DEF x, y
    <3>2. x = y
      BY <3>1, SameSequence
    <3> QED
      BY <3>2 DEF x, y
  <2> QED
    BY <1>4, <2>3 DEF IsPrefix
<1>7. ASSUME NEW x \in Range(b) PROVE \A i \in 1..x[1] : Legal(i)
  <2>1. PICK k \in DOMAIN b : x = b[k]
    BY DEF Range
  <2>2. k \in 1..Len(b)
    <3> HIDE DEF b
    <3> QED
      BY <1>5, <2>1
  <2> QED
    BY <1>4, <2>1, <2>2
<1> QED
  BY <1>2, <1>3, <1>6, <1>7

(* However streams are cut, fragmented and read, what an application gets  *)
(* of a message is a beginning of what was sent, unmasked, behind legal    *)
(* frames only (advanceFrame, messageReader.Read, maskBytes).              *)
THEOREM DeliveredIsSentHolds == ReaderSpec => []DeliveredIsSent
<1>1. ReaderIInv => DeliveredIsSent
  BY IInvGivesDelivered
<1> QED
  BY <1>1, ReaderIInvHolds, PTL

(* io.EOF from Read means that the message is whole, but for the one case  *)
(* that EndMeansWhole names (messageReader.Read).                          *)
THEOREM EndMeansWholeHolds == ReaderSpec => []EndMeansWhole
<1>1. ReaderIInv => EndMeansWhole
  BY DEF ReaderIInv, DoneInv
<1> QED
  BY <1>1, ReaderIInvHolds, PTL

(* No message is read beyond the limit, and ErrReadLimit is deserved       *)
(* (advanceFrame, SetReadLimit).                                           *)
THEOREM LimitHoldsAlways == ReaderSpec => []LimitHolds
<1>1. ReaderIInv => LimitHolds
  BY DEF ReaderIInv
<1> QED
  BY <1>1, ReaderIInvHolds, PTL
===============================================================================
