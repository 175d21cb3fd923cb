------------------------- MODULE CertificateProofs --------------------------
(***************************************************************************)
(* What the two modules about certificates guarantee: CertCache for every  *)
(* number of callers and hosts, RootCertificate for every number of        *)
(* generations and of kills.                                               *)
(***************************************************************************)
EXTENDS CertCache, RootCertificate, TLAPS

-----------------------------------------------------------------------------
(* The certificate cache. *)


(* The caller between its Lock and its Unlock holds the mutex. *)
MutexInv ==
  \A c \in Caller : pc[c] \in {"locked", "inserting"} => lock = c

(* A caller inserts only for a host that has no entry yet, and no later     *)
(* assignment replaces its entry.                                          *)
EntryInv ==
  \A c \in Caller :
    /\ pc[c] = "inserting" => /\ HostOf(c) # NoHost
                              /\ mapping[HostOf(c)] = NoCaller
    /\ Owner(c) => /\ HostOf(c) # NoHost
                   /\ mapping[HostOf(c)] = c

(* Entries are filed under the host they were created for. *)
FiledInv ==
  \A h \in Host : mapping[h] # NoCaller => HostOf(mapping[h]) = h

(* The pointer a caller keeps is to its own entry while it generates, and  *)
(* to one for its host while it waits.                                     *)
HeldInv ==
  \A c \in Caller :
    /\ pc[c] \in {"callback", "done", "read"} => held[c] = c
    /\ pc[c] = "waiting" => /\ held[c] \in Caller
                            /\ HostOf(held[c]) = HostOf(c)

(* An entry's certificate is issued to the entry's host. *)
CertInv ==
  \A c \in Caller : cert[c] # NoHost => cert[c] = HostOf(c)

IInv ==
  /\ TypeOK
  /\ MutexInv
  /\ EntryInv
  /\ FiledInv
  /\ HeldInv
  /\ CertInv
  /\ CertMatchesHost
  /\ CrashNeedsTwoHosts

-----------------------------------------------------------------------------
(* The initial states satisfy the inductive invariant. *)
LEMMA InitIInv == Init => IInv
<1> SUFFICES ASSUME Init PROVE IInv
  OBVIOUS
<1>1. TypeOK
  BY CacheAssumption DEF Init, TypeOK, PC
<1>2. MutexInv /\ EntryInv /\ HeldInv
  BY DEF Init, MutexInv, EntryInv, HeldInv, Owner
<1>3. FiledInv /\ CertInv /\ CertMatchesHost /\ CrashNeedsTwoHosts
  BY DEF Init, FiledInv, CertInv, CertMatchesHost, CrashNeedsTwoHosts
<1> QED
  BY <1>1, <1>2, <1>3 DEF IInv

(* The host of a name is a host or none. *)
LEMMA HostOfType ==
  ASSUME TypeOK, NEW c \in Caller
  PROVE  HostOf(c) \in Host \cup {NoHost}
BY CacheAssumption DEF TypeOK, HostOf

(* No step of the cache leaves the inductive invariant. *)
LEMMA NextIInv == IInv /\ [Next]_vars => IInv'
<1> SUFFICES ASSUME IInv, [Next]_vars PROVE IInv'
  OBVIOUS
<1> USE CacheAssumption, HostOfType
<1>1. ASSUME NEW c \in Caller, ~crashed, Call(c) PROVE IInv'
  <2> HostOf(c)' = HostOf(c) /\ \A d \in Caller : HostOf(d)' = HostOf(d)
    BY <1>1 DEF Call, HostOf
  <2>1. TypeOK'
    BY <1>1 DEF IInv, TypeOK, PC, Call, Goto
  <2>2. MutexInv'
    BY <1>1 DEF IInv, TypeOK, PC, MutexInv, Call, Goto
  <2>3. EntryInv'
    BY <1>1 DEF IInv, TypeOK, PC, EntryInv, Owner, MutexInv, Call, Goto
  <2>4. FiledInv'
    BY <1>1 DEF IInv, TypeOK, PC, FiledInv, EntryInv, Call, Goto
  <2>5. HeldInv'
    BY <1>1 DEF IInv, TypeOK, PC, HeldInv, Owner, EntryInv, Call, Goto
  <2>6. CertInv'
    BY <1>1 DEF IInv, TypeOK, PC, CertInv, HeldInv, Call, Goto
  <2>7. CertMatchesHost'
    BY <1>1 DEF IInv, TypeOK, PC, CertMatchesHost, CertInv, HeldInv, EntryInv, Owner, Call, Goto
  <2>8. CrashNeedsTwoHosts'
    BY <1>1 DEF IInv, TypeOK, PC, CrashNeedsTwoHosts, EntryInv, Owner, Call, Goto
  <2> QED BY <2>1, <2>2, <2>3, <2>4, <2>5, <2>6, <2>7, <2>8 DEF IInv
<1>2. ASSUME NEW c \in Caller, ~crashed, Lock(c) PROVE IInv'
  <2> HostOf(c)' = HostOf(c) /\ \A d \in Caller : HostOf(d)' = HostOf(d)
    BY <1>2 DEF Lock, HostOf
  <2>1. TypeOK'
    BY <1>2 DEF IInv, TypeOK, PC, Lock, Goto
  <2>2. MutexInv'
    BY <1>2 DEF IInv, TypeOK, PC, MutexInv, Lock, Goto
  <2>3. EntryInv'
    BY <1>2 DEF IInv, TypeOK, PC, EntryInv, Owner, MutexInv, Lock, Goto
  <2>4. FiledInv'
    BY <1>2 DEF IInv, TypeOK, PC, FiledInv, EntryInv, Lock, Goto
  <2>5. HeldInv'
    BY <1>2 DEF IInv, TypeOK, PC, HeldInv, Owner, EntryInv, Lock, Goto
  <2>6. CertInv'
    BY <1>2 DEF IInv, TypeOK, PC, CertInv, HeldInv, Lock, Goto
  <2>7. CertMatchesHost'
    BY <1>2 DEF IInv, TypeOK, PC, CertMatchesHost, CertInv, HeldInv, EntryInv, Owner, Lock, Goto
  <2>8. CrashNeedsTwoHosts'
    BY <1>2 DEF IInv, TypeOK, PC, CrashNeedsTwoHosts, EntryInv, Owner, Lock, Goto
  <2> QED BY <2>1, <2>2, <2>3, <2>4, <2>5, <2>6, <2>7, <2>8 DEF IInv
<1>3. ASSUME NEW c \in Caller, ~crashed, SplitError(c) PROVE IInv'
  <2> HostOf(c)' = HostOf(c) /\ \A d \in Caller : HostOf(d)' = HostOf(d)
    BY <1>3 DEF SplitError, HostOf
  <2>1. TypeOK'
    BY <1>3 DEF IInv, TypeOK, PC, SplitError, Goto
  <2>2. MutexInv'
    BY <1>3 DEF IInv, TypeOK, PC, MutexInv, SplitError, Goto
  <2>3. EntryInv'
    BY <1>3 DEF IInv, TypeOK, PC, EntryInv, Owner, MutexInv, SplitError, Goto
  <2>4. FiledInv'
    BY <1>3 DEF IInv, TypeOK, PC, FiledInv, EntryInv, SplitError, Goto
  <2>5. HeldInv'
    BY <1>3 DEF IInv, TypeOK, PC, HeldInv, Owner, EntryInv, SplitError, Goto
  <2>6. CertInv'
    BY <1>3 DEF IInv, TypeOK, PC, CertInv, HeldInv, SplitError, Goto
  <2>7. CertMatchesHost'
    BY <1>3 DEF IInv, TypeOK, PC, CertMatchesHost, CertInv, HeldInv, EntryInv, Owner, SplitError, Goto
  <2>8. CrashNeedsTwoHosts'
    BY <1>3 DEF IInv, TypeOK, PC, CrashNeedsTwoHosts, EntryInv, Owner, SplitError, Goto
  <2> QED BY <2>1, <2>2, <2>3, <2>4, <2>5, <2>6, <2>7, <2>8 DEF IInv
<1>4. ASSUME NEW c \in Caller, ~crashed, Hit(c) PROVE IInv'
  <2> HostOf(c)' = HostOf(c) /\ \A d \in Caller : HostOf(d)' = HostOf(d)
    BY <1>4 DEF Hit, HostOf
  <2>1. TypeOK'
    BY <1>4 DEF IInv, TypeOK, PC, Hit, Goto
  <2>2. MutexInv'
    BY <1>4 DEF IInv, TypeOK, PC, MutexInv, Hit, Goto
  <2>3. EntryInv'
    BY <1>4 DEF IInv, TypeOK, PC, EntryInv, Owner, MutexInv, Hit, Goto
  <2>4. FiledInv'
    BY <1>4 DEF IInv, TypeOK, PC, FiledInv, EntryInv, Hit, Goto
  <2>5. HeldInv'
    BY <1>4 DEF IInv, TypeOK, PC, HeldInv, FiledInv, Hit, Goto
  <2>6. CertInv'
    BY <1>4 DEF IInv, TypeOK, PC, CertInv, HeldInv, Hit, Goto
  <2>7. CertMatchesHost'
    BY <1>4 DEF IInv, TypeOK, PC, CertMatchesHost, CertInv, HeldInv, EntryInv, Owner, Hit, Goto
  <2>8. CrashNeedsTwoHosts'
    BY <1>4 DEF IInv, TypeOK, PC, CrashNeedsTwoHosts, EntryInv, Owner, Hit, Goto
  <2> QED BY <2>1, <2>2, <2>3, <2>4, <2>5, <2>6, <2>7, <2>8 DEF IInv
<1>5. ASSUME NEW c \in Caller, ~crashed, BeginInsert(c) PROVE IInv'
  <2> HostOf(c)' = HostOf(c) /\ \A d \in Caller : HostOf(d)' = HostOf(d)
    BY <1>5 DEF BeginInsert, HostOf
  <2>1. TypeOK'
    BY <1>5 DEF IInv, TypeOK, PC, BeginInsert, Goto
  <2>2. MutexInv'
    BY <1>5 DEF IInv, TypeOK, PC, MutexInv, BeginInsert, Goto
  <2>3. EntryInv'
    BY <1>5 DEF IInv, TypeOK, PC, EntryInv, Owner, MutexInv, BeginInsert, Goto
  <2>4. FiledInv'
    BY <1>5 DEF IInv, TypeOK, PC, FiledInv, EntryInv, BeginInsert, Goto
  <2>5. HeldInv'
    BY <1>5 DEF IInv, TypeOK, PC, HeldInv, Owner, EntryInv, BeginInsert, Goto
  <2>6. CertInv'
    BY <1>5 DEF IInv, TypeOK, PC, CertInv, HeldInv, BeginInsert, Goto
  <2>7. CertMatchesHost'
    BY <1>5 DEF IInv, TypeOK, PC, CertMatchesHost, CertInv, HeldInv, EntryInv, Owner, BeginInsert, Goto
  <2>8. CrashNeedsTwoHosts'
    BY <1>5 DEF IInv, TypeOK, PC, CrashNeedsTwoHosts, EntryInv, Owner, BeginInsert, Goto
  <2> QED BY <2>1, <2>2, <2>3, <2>4, <2>5, <2>6, <2>7, <2>8 DEF IInv
<1>6. ASSUME NEW c \in Caller, ~crashed, EndInsert(c) PROVE IInv'
  <2> HostOf(c)' = HostOf(c) /\ \A d \in Caller : HostOf(d)' = HostOf(d)
    BY <1>6 DEF EndInsert, HostOf
  <2>1. TypeOK'
    BY <1>6 DEF IInv, TypeOK, PC, EndInsert, Goto
  <2>2. MutexInv'
    BY <1>6 DEF IInv, TypeOK, PC, MutexInv, EndInsert, Goto
  <2>3. EntryInv'
    BY <1>6 DEF IInv, TypeOK, PC, EntryInv, Owner, MutexInv, EndInsert, Goto
  <2>4. FiledInv'
    BY <1>6 DEF IInv, TypeOK, PC, FiledInv, EntryInv, EndInsert, Goto
  <2>5. HeldInv'
    BY <1>6 DEF IInv, TypeOK, PC, HeldInv, Owner, EntryInv, EndInsert, Goto
  <2>6. CertInv'
    BY <1>6 DEF IInv, TypeOK, PC, CertInv, HeldInv, EndInsert, Goto
  <2>7. CertMatchesHost'
    BY <1>6 DEF IInv, TypeOK, PC, CertMatchesHost, CertInv, HeldInv, EntryInv, Owner, EndInsert, Goto
  <2>8. CrashNeedsTwoHosts'
    BY <1>6 DEF IInv, TypeOK, PC, CrashNeedsTwoHosts, EntryInv, Owner, EndInsert, Goto
  <2> QED BY <2>1, <2>2, <2>3, <2>4, <2>5, <2>6, <2>7, <2>8 DEF IInv
<1>7. ASSUME NEW c \in Caller, ~crashed, ReadAction(c) PROVE IInv'
  <2> HostOf(c)' = HostOf(c) /\ \A d \in Caller : HostOf(d)' = HostOf(d)
    BY <1>7 DEF ReadAction, HostOf
  <2>1. TypeOK'
    BY <1>7 DEF IInv, TypeOK, PC, EntryInv, Owner, ReadAction, Goto
  <2>2. MutexInv'
    BY <1>7 DEF IInv, TypeOK, PC, MutexInv, ReadAction, Goto
  <2>3. EntryInv'
    BY <1>7 DEF IInv, TypeOK, PC, EntryInv, Owner, MutexInv, ReadAction, Goto
  <2>4. FiledInv'
    BY <1>7 DEF IInv, TypeOK, PC, FiledInv, EntryInv, ReadAction, Goto
  <2>5. HeldInv'
    BY <1>7 DEF IInv, TypeOK, PC, HeldInv, Owner, EntryInv, ReadAction, Goto
  <2>6. CertInv'
    BY <1>7 DEF IInv, TypeOK, PC, CertInv, HeldInv, ReadAction, Goto
  <2>7. CertMatchesHost'
    BY <1>7 DEF IInv, TypeOK, PC, CertMatchesHost, CertInv, HeldInv, EntryInv, Owner, ReadAction, Goto
  <2>8. CrashNeedsTwoHosts'
    BY <1>7 DEF IInv, TypeOK, PC, CrashNeedsTwoHosts, EntryInv, Owner, ReadAction, Goto
  <2> QED BY <2>1, <2>2, <2>3, <2>4, <2>5, <2>6, <2>7, <2>8 DEF IInv
<1>8. ASSUME NEW c \in Caller, ~crashed, Callback(c) PROVE IInv'
  <2> HostOf(c)' = HostOf(c) /\ \A d \in Caller : HostOf(d)' = HostOf(d)
    BY <1>8 DEF Callback, HostOf
  <2>1. TypeOK'
    BY <1>8 DEF IInv, TypeOK, PC, HeldInv, Callback, Goto
  <2>2. MutexInv'
    BY <1>8 DEF IInv, TypeOK, PC, MutexInv, Callback, Goto
  <2>3. EntryInv'
    BY <1>8 DEF IInv, TypeOK, PC, EntryInv, Owner, MutexInv, Callback, Goto
  <2>4. FiledInv'
    BY <1>8 DEF IInv, TypeOK, PC, FiledInv, EntryInv, Callback, Goto
  <2>5. HeldInv'
    BY <1>8 DEF IInv, TypeOK, PC, HeldInv, Owner, EntryInv, Callback, Goto
  <2>6. CertInv'
    BY <1>8 DEF IInv, TypeOK, PC, CertInv, HeldInv, Callback, Goto
  <2>7. CertMatchesHost'
    BY <1>8 DEF IInv, TypeOK, PC, CertMatchesHost, CertInv, HeldInv, EntryInv, Owner, Callback, Goto
  <2>8. CrashNeedsTwoHosts'
    BY <1>8 DEF IInv, TypeOK, PC, CrashNeedsTwoHosts, EntryInv, Owner, Callback, Goto
  <2> QED BY <2>1, <2>2, <2>3, <2>4, <2>5, <2>6, <2>7, <2>8 DEF IInv
<1>9. ASSUME NEW c \in Caller, ~crashed, Done(c) PROVE IInv'
  <2> HostOf(c)' = HostOf(c) /\ \A d \in Caller : HostOf(d)' = HostOf(d)
    BY <1>9 DEF Done, HostOf
  <2>1. TypeOK'
    BY <1>9 DEF IInv, TypeOK, PC, Done, Goto
  <2>2. MutexInv'
    BY <1>9 DEF IInv, TypeOK, PC, MutexInv, Done, Goto
  <2>3. EntryInv'
    BY <1>9 DEF IInv, TypeOK, PC, EntryInv, Owner, MutexInv, Done, Goto
  <2>4. FiledInv'
    BY <1>9 DEF IInv, TypeOK, PC, FiledInv, EntryInv, Done, Goto
  <2>5. HeldInv'
    BY <1>9 DEF IInv, TypeOK, PC, HeldInv, Owner, EntryInv, Done, Goto
  <2>6. CertInv'
    BY <1>9 DEF IInv, TypeOK, PC, CertInv, HeldInv, Done, Goto
  <2>7. CertMatchesHost'
    BY <1>9 DEF IInv, TypeOK, PC, CertMatchesHost, CertInv, HeldInv, EntryInv, Owner, Done, Goto
  <2>8. CrashNeedsTwoHosts'
    BY <1>9 DEF IInv, TypeOK, PC, CrashNeedsTwoHosts, EntryInv, Owner, Done, Goto
  <2> QED BY <2>1, <2>2, <2>3, <2>4, <2>5, <2>6, <2>7, <2>8 DEF IInv
<1>10. ASSUME NEW c \in Caller, ~crashed, ReadResult(c) PROVE IInv'
  <2> HostOf(c)' = HostOf(c) /\ \A d \in Caller : HostOf(d)' = HostOf(d)
    BY <1>10 DEF ReadResult, HostOf
  <2>1. TypeOK'
    BY <1>10 DEF IInv, TypeOK, PC, EntryInv, Owner, ReadResult, Goto
  <2>2. MutexInv'
    BY <1>10 DEF IInv, TypeOK, PC, MutexInv, ReadResult, Goto
  <2>3. EntryInv'
    BY <1>10 DEF IInv, TypeOK, PC, EntryInv, Owner, MutexInv, ReadResult, Goto
  <2>4. FiledInv'
    BY <1>10 DEF IInv, TypeOK, PC, FiledInv, EntryInv, ReadResult, Goto
  <2>5. HeldInv'
    BY <1>10 DEF IInv, TypeOK, PC, HeldInv, Owner, EntryInv, ReadResult, Goto
  <2>6. CertInv'
    BY <1>10 DEF IInv, TypeOK, PC, CertInv, HeldInv, ReadResult, Goto
  <2>7. CertMatchesHost'
    BY <1>10 DEF IInv, TypeOK, PC, CertMatchesHost, CertInv, HeldInv, EntryInv, Owner, ReadResult, Goto
  <2>8. CrashNeedsTwoHosts'
    BY <1>10 DEF IInv, TypeOK, PC, CrashNeedsTwoHosts, EntryInv, Owner, ReadResult, Goto
  <2> QED BY <2>1, <2>2, <2>3, <2>4, <2>5, <2>6, <2>7, <2>8 DEF IInv
<1>11. ASSUME NEW c \in Caller, ~crashed, Wait(c) PROVE IInv'
  <2> HostOf(c)' = HostOf(c) /\ \A d \in Caller : HostOf(d)' = HostOf(d)
    BY <1>11 DEF Wait, HostOf
  <2>1. TypeOK'
    BY <1>11 DEF IInv, TypeOK, PC, HeldInv, Wait, Goto
  <2>2. MutexInv'
    BY <1>11 DEF IInv, TypeOK, PC, MutexInv, Wait, Goto
  <2>3. EntryInv'
    BY <1>11 DEF IInv, TypeOK, PC, EntryInv, Owner, MutexInv, Wait, Goto
  <2>4. FiledInv'
    BY <1>11 DEF IInv, TypeOK, PC, FiledInv, EntryInv, Wait, Goto
  <2>5. HeldInv'
    BY <1>11 DEF IInv, TypeOK, PC, HeldInv, Owner, EntryInv, Wait, Goto
  <2>6. CertInv'
    BY <1>11 DEF IInv, TypeOK, PC, CertInv, HeldInv, Wait, Goto
  <2>7. CertMatchesHost'
    BY <1>11 DEF IInv, TypeOK, PC, CertMatchesHost, CertInv, HeldInv, EntryInv, Owner, Wait, Goto
  <2>8. CrashNeedsTwoHosts'
    BY <1>11 DEF IInv, TypeOK, PC, CrashNeedsTwoHosts, EntryInv, Owner, Wait, Goto
  <2> QED BY <2>1, <2>2, <2>3, <2>4, <2>5, <2>6, <2>7, <2>8 DEF IInv
<1>12. ASSUME NEW c \in Caller, ~crashed, MapRace(c) PROVE IInv'
  <2> HostOf(c)' = HostOf(c) /\ \A d \in Caller : HostOf(d)' = HostOf(d)
    BY <1>12 DEF MapRace, HostOf
  <2>1. TypeOK'
    BY <1>12 DEF IInv, TypeOK, PC, MapRace, Goto
  <2>2. MutexInv'
    BY <1>12 DEF IInv, TypeOK, PC, MutexInv, MapRace, Goto
  <2>3. EntryInv'
    BY <1>12 DEF IInv, TypeOK, PC, EntryInv, Owner, MutexInv, MapRace, Goto
  <2>4. FiledInv'
    BY <1>12 DEF IInv, TypeOK, PC, FiledInv, EntryInv, MapRace, Goto
  <2>5. HeldInv'
    BY <1>12 DEF IInv, TypeOK, PC, HeldInv, Owner, EntryInv, MapRace, Goto
  <2>6. CertInv'
    BY <1>12 DEF IInv, TypeOK, PC, CertInv, HeldInv, MapRace, Goto
  <2>7. CertMatchesHost'
    BY <1>12 DEF IInv, TypeOK, PC, CertMatchesHost, CertInv, HeldInv, EntryInv, Owner, MapRace, Goto
  <2>8. CrashNeedsTwoHosts'
    BY <1>12 DEF IInv, TypeOK, PC, CrashNeedsTwoHosts, EntryInv, Owner, MapRace, Goto
  <2> QED BY <2>1, <2>2, <2>3, <2>4, <2>5, <2>6, <2>7, <2>8 DEF IInv
<1>13. CASE UNCHANGED vars
  BY <1>13 DEF vars, IInv, TypeOK, PC, MutexInv, EntryInv, FiledInv, HeldInv,
    CertInv, CertMatchesHost, CrashNeedsTwoHosts, Owner, HostOf
<1> QED
  BY <1>1, <1>2, <1>3, <1>4, <1>5, <1>6, <1>7, <1>8, <1>9, <1>10, <1>11, <1>12, <1>13 DEF Next, Step

(* TypeOK and the inductive invariant hold in every reachable state. *)
LEMMA Invariant == Spec => []IInv
<1>1. Init => IInv
  BY InitIInv
<1>2. IInv /\ [Next]_vars => IInv'
  BY NextIInv
<1> QED
  BY <1>1, <1>2, PTL DEF Spec

(* The variables keep their types, for any callers, names and hosts. *)
THEOREM TypeCorrect == Spec => []TypeOK
<1>1. IInv => TypeOK
  BY DEF IInv
<1> QED
  BY <1>1, Invariant, PTL

(* However many callers ask for a host at once, one of them generates its  *)
(* certificate (GetCertificate, and the comment on its lookup).            *)
THEOREM SingleFlightHolds == Spec => []SingleFlight
<1>1. IInv => SingleFlight
  BY DEF IInv, EntryInv, SingleFlight
<1> QED
  BY <1>1, Invariant, PTL

(* No call is answered with the certificate of another host. *)
THEOREM CertMatchesHostHolds == Spec => []CertMatchesHost
<1>1. IInv => CertMatchesHost
  BY DEF IInv
<1> QED
  BY <1>1, Invariant, PTL

(* Calls for one host alone never trip the concurrent map access check. *)
THEOREM CrashNeedsTwoHostsHolds == Spec => []CrashNeedsTwoHosts
<1>1. IInv => CrashNeedsTwoHosts
  BY DEF IInv
<1> QED
  BY <1>1, Invariant, PTL

-----------------------------------------------------------------------------
(* How the calls for one host end: alike, and without certificate and      *)
(* error only behind a generation that failed.                             *)


(* An entry's creator has come past the insertion, the counter of its      *)
(* WaitGroup is zero only once the generation is over, and a generation    *)
(* that is over has left a certificate or an error.                        *)
EntryPhase ==
  \A h \in Host : mapping[h] # NoCaller =>
    /\ pc[mapping[h]] \in {"generating", "callback", "done", "read", "returned"}
    /\ wg[mapping[h]] = 0 => pc[mapping[h]] \in {"read", "returned"}
    /\ pc[mapping[h]] \in {"done", "read", "returned"} /\ cert[mapping[h]] = NoHost
         => err[mapping[h]]

(* A caller waits for the entry of its host. *)
WaitPhase ==
  \A c \in Caller : pc[c] = "waiting" =>
    HostOf(c) \in Host /\ held[c] = mapping[HostOf(c)]

(* A call has failed on its name, or returned what its host's entry holds, *)
(* its error included if it created the entry.                             *)
Served(c) ==
  /\ HostOf(c) \in Host /\ mapping[HostOf(c)] \in Caller
  /\ pc[mapping[HostOf(c)]] \in {"read", "returned"}
  /\ held[c] = mapping[HostOf(c)]
  /\ result[c].cert = cert[held[c]]
  /\ held[c] = c => result[c].err = err[c]

ResultPhase ==
  \A c \in Caller : pc[c] = "returned" =>
    \/ HostOf(c) = NoHost /\ result[c] = [cert |-> NoHost, err |-> TRUE]
    \/ Served(c)

OutcomeInv == EntryPhase /\ WaitPhase /\ ResultPhase

-----------------------------------------------------------------------------
(* Nobody has an outcome at first.                                         *)
LEMMA InitOutcomeInv == Init => OutcomeInv
BY DEF Init, OutcomeInv, EntryPhase, WaitPhase, ResultPhase

(* No step of the cache leaves it. *)
LEMMA NextOutcomeInv == IInv /\ OutcomeInv /\ [Next]_vars => OutcomeInv'
<1> SUFFICES ASSUME IInv, OutcomeInv, [Next]_vars PROVE OutcomeInv'
  OBVIOUS
<1> USE CacheAssumption, HostOfType
<1>1. ASSUME NEW c \in Caller, ~crashed, Call(c) PROVE OutcomeInv'
  <2> HostOf(c)' = HostOf(c) /\ \A d \in Caller : HostOf(d)' = HostOf(d)
    BY <1>1 DEF Call, HostOf
  <2>1. EntryPhase'
    BY <1>1 DEF IInv, TypeOK, PC, OutcomeInv, EntryPhase, EntryInv, FiledInv, HeldInv, Owner, Call, Goto
  <2>2. WaitPhase'
    BY <1>1 DEF IInv, TypeOK, PC, OutcomeInv, WaitPhase, EntryInv, HeldInv, Call, Goto
  <2>3. ResultPhase'
    BY <1>1 DEF IInv, TypeOK, PC, OutcomeInv, EntryPhase, WaitPhase, ResultPhase, Served, EntryInv, HeldInv, Owner, Call, Goto
  <2> QED BY <2>1, <2>2, <2>3 DEF OutcomeInv
<1>2. ASSUME NEW c \in Caller, ~crashed, Lock(c) PROVE OutcomeInv'
  <2> HostOf(c)' = HostOf(c) /\ \A d \in Caller : HostOf(d)' = HostOf(d)
    BY <1>2 DEF Lock, HostOf
  <2>1. EntryPhase'
    BY <1>2 DEF IInv, TypeOK, PC, OutcomeInv, EntryPhase, EntryInv, FiledInv, HeldInv, Owner, Lock, Goto
  <2>2. WaitPhase'
    BY <1>2 DEF IInv, TypeOK, PC, OutcomeInv, WaitPhase, EntryInv, HeldInv, Lock, Goto
  <2>3. ResultPhase'
    BY <1>2 DEF IInv, TypeOK, PC, OutcomeInv, EntryPhase, WaitPhase, ResultPhase, Served, EntryInv, HeldInv, Owner, Lock, Goto
  <2> QED BY <2>1, <2>2, <2>3 DEF OutcomeInv
<1>3. ASSUME NEW c \in Caller, ~crashed, SplitError(c) PROVE OutcomeInv'
  <2> HostOf(c)' = HostOf(c) /\ \A d \in Caller : HostOf(d)' = HostOf(d)
    BY <1>3 DEF SplitError, HostOf
  <2>1. EntryPhase'
    BY <1>3 DEF IInv, TypeOK, PC, OutcomeInv, EntryPhase, EntryInv, FiledInv, HeldInv, Owner, SplitError, Goto
  <2>2. WaitPhase'
    BY <1>3 DEF IInv, TypeOK, PC, OutcomeInv, WaitPhase, EntryInv, HeldInv, SplitError, Goto
  <2>3. ResultPhase'
    <3>1. \A d \in Caller \ {c} : HostOf(d)' = HostOf(d) /\ pc'[d] = pc[d] /\ held'[d] = held[d] /\ result'[d] = result[d]
      BY <1>3 DEF IInv, TypeOK, SplitError, Goto
    <3>2. mapping' = mapping /\ cert' = cert /\ err' = err /\ held' = held /\ pc' \in [Caller -> PC] /\ pc'[c] = "returned"
      BY <1>3 DEF IInv, TypeOK, PC, SplitError, Goto
    <3>3. \A d \in Caller \ {c} : Served(d) => Served(d)'
      BY <1>3, <3>1, <3>2 DEF Served, SplitError
    <3>4. HostOf(c)' = NoHost /\ result'[c] = [cert |-> NoHost, err |-> TRUE]
      BY <1>3 DEF IInv, TypeOK, SplitError
    <3> QED
      BY <3>1, <3>3, <3>4 DEF OutcomeInv, ResultPhase
  <2> QED BY <2>1, <2>2, <2>3 DEF OutcomeInv
<1>4. ASSUME NEW c \in Caller, ~crashed, Hit(c) PROVE OutcomeInv'
  <2> HostOf(c)' = HostOf(c) /\ \A d \in Caller : HostOf(d)' = HostOf(d)
    BY <1>4 DEF Hit, HostOf
  <2>1. EntryPhase'
    BY <1>4 DEF IInv, TypeOK, PC, OutcomeInv, EntryPhase, EntryInv, FiledInv, HeldInv, Owner, Hit, Goto
  <2>2. WaitPhase'
    BY <1>4 DEF IInv, TypeOK, PC, OutcomeInv, WaitPhase, EntryInv, HeldInv, Hit, Goto
  <2>3. ResultPhase'
    BY <1>4 DEF IInv, TypeOK, PC, OutcomeInv, EntryPhase, WaitPhase, ResultPhase, Served, EntryInv, HeldInv, Owner, Hit, Goto
  <2> QED BY <2>1, <2>2, <2>3 DEF OutcomeInv
<1>5. ASSUME NEW c \in Caller, ~crashed, BeginInsert(c) PROVE OutcomeInv'
  <2> HostOf(c)' = HostOf(c) /\ \A d \in Caller : HostOf(d)' = HostOf(d)
    BY <1>5 DEF BeginInsert, HostOf
  <2>1. EntryPhase'
    BY <1>5 DEF IInv, TypeOK, PC, OutcomeInv, EntryPhase, EntryInv, FiledInv, HeldInv, Owner, BeginInsert, Goto
  <2>2. WaitPhase'
    BY <1>5 DEF IInv, TypeOK, PC, OutcomeInv, WaitPhase, EntryInv, HeldInv, BeginInsert, Goto
  <2>3. ResultPhase'
    BY <1>5 DEF IInv, TypeOK, PC, OutcomeInv, EntryPhase, WaitPhase, ResultPhase, Served, EntryInv, HeldInv, Owner, BeginInsert, Goto
  <2> QED BY <2>1, <2>2, <2>3 DEF OutcomeInv
<1>6. ASSUME NEW c \in Caller, ~crashed, EndInsert(c) PROVE OutcomeInv'
  <2> HostOf(c)' = HostOf(c) /\ \A d \in Caller : HostOf(d)' = HostOf(d)
    BY <1>6 DEF EndInsert, HostOf
  <2>1. EntryPhase'
    BY <1>6 DEF IInv, TypeOK, PC, OutcomeInv, EntryPhase, EntryInv, FiledInv, HeldInv, Owner, EndInsert, Goto
  <2>2. WaitPhase'
    BY <1>6 DEF IInv, TypeOK, PC, OutcomeInv, WaitPhase, EntryInv, HeldInv, EndInsert, Goto
  <2>3. ResultPhase'
    BY <1>6 DEF IInv, TypeOK, PC, OutcomeInv, EntryPhase, WaitPhase, ResultPhase, Served, EntryInv, HeldInv, Owner, EndInsert, Goto
  <2> QED BY <2>1, <2>2, <2>3 DEF OutcomeInv
<1>7. ASSUME NEW c \in Caller, ~crashed, ReadAction(c) PROVE OutcomeInv'
  <2> HostOf(c)' = HostOf(c) /\ \A d \in Caller : HostOf(d)' = HostOf(d)
    BY <1>7 DEF ReadAction, HostOf
  <2>1. EntryPhase'
    BY <1>7 DEF IInv, TypeOK, PC, OutcomeInv, EntryPhase, EntryInv, FiledInv, HeldInv, Owner, ReadAction, Goto
  <2>2. WaitPhase'
    BY <1>7 DEF IInv, TypeOK, PC, OutcomeInv, WaitPhase, EntryInv, HeldInv, ReadAction, Goto
  <2>3. ResultPhase'
    BY <1>7 DEF IInv, TypeOK, PC, OutcomeInv, EntryPhase, WaitPhase, ResultPhase, Served, EntryInv, HeldInv, Owner, ReadAction, Goto
  <2> QED BY <2>1, <2>2, <2>3 DEF OutcomeInv
<1>8. ASSUME NEW c \in Caller, ~crashed, Callback(c) PROVE OutcomeInv'
  <2> HostOf(c)' = HostOf(c) /\ \A d \in Caller : HostOf(d)' = HostOf(d)
    BY <1>8 DEF Callback, HostOf
  <2>1. EntryPhase'
    <3>1. held[c] = c /\ HostOf(c) \in Host /\ mapping[HostOf(c)] = c
      BY <1>8 DEF IInv, TypeOK, EntryInv, HeldInv, Owner, Callback
    <3>2. /\ mapping' = mapping /\ wg' = wg
          /\ pc'[c] = "done" /\ pc[c] = "callback"
          /\ \A d \in Caller \ {c} : pc'[d] = pc[d] /\ cert'[d] = cert[d] /\ (err[d] => err'[d])
      BY <1>8, <3>1 DEF IInv, TypeOK, PC, Callback, Goto
    <3>3. cert'[c] = NoHost => err'[c]
      <4> PICK ok \in BOOLEAN : /\ cert' = [cert EXCEPT ![c] = IF ok THEN HostOf(c) ELSE NoHost]
                                 /\ err' = [err EXCEPT ![c] = ~ok]
        BY <1>8, <3>1 DEF Callback
      <4> QED
        BY <3>1 DEF IInv, TypeOK
    <3>4. \A h \in Host : mapping[h] \in Caller \cup {NoCaller}
      BY DEF IInv, TypeOK
    <3> QED
      BY <3>1, <3>2, <3>3, <3>4 DEF OutcomeInv, EntryPhase
  <2>2. WaitPhase'
    BY <1>8 DEF IInv, TypeOK, PC, OutcomeInv, WaitPhase, EntryInv, HeldInv, Callback, Goto
  <2>3. ResultPhase'
    BY <1>8 DEF IInv, TypeOK, PC, OutcomeInv, EntryPhase, WaitPhase, ResultPhase, Served, EntryInv, HeldInv, Owner, Callback, Goto
  <2> QED BY <2>1, <2>2, <2>3 DEF OutcomeInv
<1>9. ASSUME NEW c \in Caller, ~crashed, Done(c) PROVE OutcomeInv'
  <2> HostOf(c)' = HostOf(c) /\ \A d \in Caller : HostOf(d)' = HostOf(d)
    BY <1>9 DEF Done, HostOf
  <2>1. EntryPhase'
    BY <1>9 DEF IInv, TypeOK, PC, OutcomeInv, EntryPhase, EntryInv, FiledInv, HeldInv, Owner, Done, Goto
  <2>2. WaitPhase'
    BY <1>9 DEF IInv, TypeOK, PC, OutcomeInv, WaitPhase, EntryInv, HeldInv, Done, Goto
  <2>3. ResultPhase'
    BY <1>9 DEF IInv, TypeOK, PC, OutcomeInv, EntryPhase, WaitPhase, ResultPhase, Served, EntryInv, HeldInv, Owner, Done, Goto
  <2> QED BY <2>1, <2>2, <2>3 DEF OutcomeInv
<1>10. ASSUME NEW c \in Caller, ~crashed, ReadResult(c) PROVE OutcomeInv'
  <2> HostOf(c)' = HostOf(c) /\ \A d \in Caller : HostOf(d)' = HostOf(d)
    BY <1>10 DEF ReadResult, HostOf
  <2>1. EntryPhase'
    BY <1>10 DEF IInv, TypeOK, PC, OutcomeInv, EntryPhase, EntryInv, FiledInv, HeldInv, Owner, ReadResult, Goto
  <2>2. WaitPhase'
    BY <1>10 DEF IInv, TypeOK, PC, OutcomeInv, WaitPhase, EntryInv, HeldInv, ReadResult, Goto
  <2>3. ResultPhase'
    <3>1. \A d \in Caller \ {c} : HostOf(d)' = HostOf(d) /\ pc'[d] = pc[d] /\ held'[d] = held[d] /\ result'[d] = result[d]
      BY <1>10 DEF IInv, TypeOK, ReadResult, Goto
    <3>2. mapping' = mapping /\ cert' = cert /\ err' = err /\ held' = held /\ pc' \in [Caller -> PC] /\ pc'[c] = "returned"
      BY <1>10 DEF IInv, TypeOK, PC, ReadResult, Goto
    <3>3. \A d \in Caller \ {c} : Served(d) => Served(d)'
      BY <1>10, <3>1, <3>2 DEF Served, ReadResult
    <3>4. Served(c)'
      <4>1. HostOf(c) \in Host /\ mapping[HostOf(c)] = c /\ held[c] = c
        BY <1>10 DEF IInv, TypeOK, EntryInv, HeldInv, Owner, ReadResult
      <4>2. result'[c].cert = cert[c] /\ result'[c].err = err[c]
        BY <1>10, <4>1 DEF IInv, TypeOK, ReadResult
      <4> QED
        BY <3>2, <4>1, <4>2 DEF Served
    <3> QED
      BY <3>1, <3>3, <3>4 DEF OutcomeInv, ResultPhase
  <2> QED BY <2>1, <2>2, <2>3 DEF OutcomeInv
<1>11. ASSUME NEW c \in Caller, ~crashed, Wait(c) PROVE OutcomeInv'
  <2> HostOf(c)' = HostOf(c) /\ \A d \in Caller : HostOf(d)' = HostOf(d)
    BY <1>11 DEF Wait, HostOf
  <2>1. EntryPhase'
    BY <1>11 DEF IInv, TypeOK, PC, OutcomeInv, EntryPhase, EntryInv, FiledInv, HeldInv, Owner, Wait, Goto
  <2>2. WaitPhase'
    BY <1>11 DEF IInv, TypeOK, PC, OutcomeInv, WaitPhase, EntryInv, HeldInv, Wait, Goto
  <2>3. ResultPhase'
    <3>1. \A d \in Caller \ {c} : HostOf(d)' = HostOf(d) /\ pc'[d] = pc[d] /\ held'[d] = held[d] /\ result'[d] = result[d]
      BY <1>11 DEF IInv, TypeOK, Wait, Goto
    <3>2. mapping' = mapping /\ cert' = cert /\ err' = err /\ held' = held /\ pc' \in [Caller -> PC] /\ pc'[c] = "returned"
      BY <1>11 DEF IInv, TypeOK, PC, Wait, Goto
    <3>3. \A d \in Caller \ {c} : Served(d) => Served(d)'
      BY <1>11, <3>1, <3>2 DEF Served, Wait
    <3>4. Served(c)'
      <4>1. HostOf(c) \in Host /\ held[c] = mapping[HostOf(c)] /\ held[c] \in Caller
        BY <1>11 DEF IInv, OutcomeInv, WaitPhase, HeldInv, Wait
      <4>2. pc[held[c]] \in {"read", "returned"}
        BY <1>11, <4>1 DEF OutcomeInv, EntryPhase, Wait
      <4>3. held[c] # c /\ pc'[held[c]] = pc[held[c]]
        BY <1>11, <4>2 DEF IInv, TypeOK, Wait, Goto
      <4>4. result'[c].cert = cert[held[c]]
        BY <1>11 DEF IInv, TypeOK, Wait
      <4> QED
        BY <3>2, <4>1, <4>2, <4>3, <4>4 DEF Served
    <3> QED
      BY <3>1, <3>3, <3>4 DEF OutcomeInv, ResultPhase
  <2> QED BY <2>1, <2>2, <2>3 DEF OutcomeInv
<1>12. ASSUME NEW c \in Caller, ~crashed, MapRace(c) PROVE OutcomeInv'
  <2> HostOf(c)' = HostOf(c) /\ \A d \in Caller : HostOf(d)' = HostOf(d)
    BY <1>12 DEF MapRace, HostOf
  <2>1. EntryPhase'
    BY <1>12 DEF IInv, TypeOK, PC, OutcomeInv, EntryPhase, EntryInv, FiledInv, HeldInv, Owner, MapRace, Goto
  <2>2. WaitPhase'
    BY <1>12 DEF IInv, TypeOK, PC, OutcomeInv, WaitPhase, EntryInv, HeldInv, MapRace, Goto
  <2>3. ResultPhase'
    BY <1>12 DEF IInv, TypeOK, PC, OutcomeInv, EntryPhase, WaitPhase, ResultPhase, Served, EntryInv, HeldInv, Owner, MapRace, Goto
  <2> QED BY <2>1, <2>2, <2>3 DEF OutcomeInv
<1>13. CASE UNCHANGED vars
  BY <1>13 DEF vars, OutcomeInv, EntryPhase, WaitPhase, ResultPhase, Served, HostOf
<1> QED
  BY <1>1, <1>2, <1>3, <1>4, <1>5, <1>6, <1>7, <1>8, <1>9, <1>10, <1>11, <1>12, <1>13 DEF Next, Step

(* So what the outcomes say holds always.                                  *)
LEMMA OutcomeInvariant == Spec => []OutcomeInv
<1>1. Init => OutcomeInv
  BY InitOutcomeInv
<1>2. IInv /\ OutcomeInv /\ [Next]_vars => OutcomeInv'
  BY NextOutcomeInv
<1> QED
  BY <1>1, <1>2, Invariant, PTL DEF Spec

(* All calls for a host return the certificate of its one generation, or   *)
(* all return none (GetCertificate; the entry is published before it is    *)
(* filled, and read without the lock).                                     *)
THEOREM AgreementHolds == Spec => []Agreement
<1>1. IInv /\ OutcomeInv => Agreement
  BY CacheAssumption DEF OutcomeInv, ResultPhase, Served, Agreement
<1> QED
  BY <1>1, Invariant, OutcomeInvariant, PTL

(* A call that returns (nil, nil) did not create its host's entry, and the *)
(* generation of the one that did failed (the hit path returns nil for     *)
(* the entry's error).                                                     *)
THEOREM NilOnlyAfterFailureHolds == Spec => []NilOnlyAfterFailure
<1>1. IInv /\ OutcomeInv => NilOnlyAfterFailure
  <2> SUFFICES ASSUME IInv, OutcomeInv, NEW c \in Caller, pc[c] = "returned",
                      result[c] = [cert |-> NoHost, err |-> FALSE]
               PROVE  held[c] \in Caller \ {c} /\ err[held[c]]
    BY DEF NilOnlyAfterFailure
  <2>1. Served(c)
    BY DEF OutcomeInv, ResultPhase
  <2>2. cert[held[c]] = NoHost /\ held[c] \in Caller
    BY <2>1 DEF Served
  <2>3. err[held[c]]
    BY <2>1, <2>2, CacheAssumption DEF OutcomeInv, EntryPhase, Served
  <2>4. held[c] # c
    <3> SUFFICES ASSUME held[c] = c PROVE FALSE
      OBVIOUS
    <3>1. result[c].err = err[c]
      BY <2>1 DEF Served
    <3>2. result[c].err = FALSE
      OBVIOUS
    <3> QED
      BY <2>3, <3>1, <3>2
  <2> QED
    BY <2>2, <2>3, <2>4
<1> QED
  BY <1>1, Invariant, OutcomeInvariant, PTL

-----------------------------------------------------------------------------
(* The root certificate. *)


Blocks == {Block(n) : n \in Nat}
Contents == {Absent, Torn, Mixed} \cup Blocks
Files == [crt : Contents, key : Contents]

RootTypeOK ==
  /\ disk \in Files /\ pair \in Files /\ Cert \in Files
  /\ phase \in {"off", "init", "open", "write", "parse", "serving"}
  /\ todo \in {<<>>, <<"crt">>, <<"key", "crt">>}
  /\ gen \in Nat /\ installed \in Nat

(* The certificate is written from nothing, and a torn one was killed or   *)
(* could not be written.                                                   *)
CrtInv ==
  /\ disk.crt # Mixed
  /\ disk.crt = Torn => \/ {<<"torn", "crt">>, <<"unwritten", "crt">>} \cap faults # {}
                        \/ phase = "write" /\ todo = <<"crt">>

(* A whole certificate has its key beside it. *)
KeyInv ==
  disk.crt \in Blocks =>
    \/ disk.key = disk.crt
    \/ <<"unwritten", "key">> \in faults
    \/ disk.key = Absent /\ <<"removed", "key">> \in faults

(* While a pair is written there is no certificate yet, and once it is the *)
(* certificate's turn the key is in its file.                              *)
WritingInv ==
  phase \in {"open", "write"} =>
    /\ pair.crt \in Blocks /\ pair.key = pair.crt
    /\ todo # <<>>
    /\ disk.crt = IF phase = "write" /\ todo = <<"crt">> THEN Torn ELSE Absent
    /\ todo = <<"crt">> => disk.key = pair.key \/ <<"unwritten", "key">> \in faults

(* The pair that is parsed, and then used, is a certificate with its key,  *)
(* and the one on the disk.                                                *)
UseInv ==
  /\ phase = "parse" =>
       /\ pair.crt \in Blocks
       /\ pair.key = pair.crt \/ <<"unwritten", "key">> \in faults
       /\ pair.crt = disk.crt \/ <<"unwritten", "crt">> \in faults
  /\ Cert # Nil =>
       /\ phase = "serving" /\ Cert.crt \in Blocks
       /\ Cert.key = Cert.crt \/ <<"unwritten", "key">> \in faults
       /\ Cert.crt = disk.crt \/ <<"unwritten", "crt">> \in faults
  /\ phase = "serving" /\ Cert = Nil =>
       {<<"generation", "failed">>, <<"unwritten", "key">>} \cap faults # {}

(* What a client installed is what the disk holds. *)
InstalledInv ==
  installed # 0 =>
    \/ disk.crt = Block(installed)
    \/ {<<"removed", "crt">>, <<"unwritten", "crt">>} \cap faults # {}

RootIInv ==
  /\ RootTypeOK /\ CrtInv /\ KeyInv /\ WritingInv /\ UseInv /\ InstalledInv
  /\ KillsAreHarmless

-----------------------------------------------------------------------------
(* The contents of a file are told apart, and a block names its pair. *)
LEMMA ContentsDiffer ==
  /\ Absent # Torn /\ Absent # Mixed /\ Torn # Mixed
  /\ \A n \in Nat : /\ Block(n) \in Blocks /\ Block(n).gen = n
                    /\ Block(n) \notin {Absent, Torn, Mixed}
BY DEF Absent, Torn, Mixed, Block, Blocks

(* A pair of blocks, and no pair, are what the files may hold. *)
LEMMA Pairs ==
  /\ Nil \in Files /\ Nil.crt = Absent /\ Nil.key = Absent
  /\ \A n \in Nat : /\ Pair(n) \in Files
                    /\ Pair(n).crt = Block(n) /\ Pair(n).key = Block(n)
BY DEF Nil, Pair, Files, Contents, Blocks

(* The two values todo has while there is a file to write. *)
LEMMA TodoSteps ==
  /\ Head(<<"crt">>) = "crt" /\ Tail(<<"crt">>) = <<>>
  /\ Head(<<"key", "crt">>) = "key" /\ Tail(<<"key", "crt">>) = <<"crt">>
  /\ <<>> # <<"crt">> /\ <<"crt">> # <<"key", "crt">> /\ <<>> # <<"key", "crt">>
OBVIOUS

(* The initial states satisfy the inductive invariant. *)
LEMMA InitRootIInv == RootInit => RootIInv
<1> SUFFICES ASSUME RootInit PROVE RootIInv
  OBVIOUS
<1>1. gen \in Nat /\ disk \in {Nil, Pair(gen)}
  BY DEF RootInit
<1>2. RootTypeOK
  BY <1>1, Pairs DEF RootInit, RootTypeOK
<1>3. disk.crt # Torn /\ disk.crt # Mixed /\ disk.key = disk.crt
  BY <1>1, Pairs, ContentsDiffer
<1>4. CrtInv /\ KeyInv
  BY <1>3 DEF CrtInv, KeyInv
<1>5. WritingInv /\ UseInv /\ InstalledInv /\ KillsAreHarmless
  BY DEF RootInit, WritingInv, UseInv, InstalledInv, KillsAreHarmless
<1> QED
  BY <1>2, <1>4, <1>5 DEF RootIInv

-----------------------------------------------------------------------------
(* The steps of the world around the process keep the invariant. *)
LEMMA WorldIInv ==
  ASSUME RootIInv, Start \/ Kill \/ Remove("crt") \/ Remove("key")
  PROVE  RootIInv'
<1> USE DEF RootIInv
<1>1. CASE Start
  <2>1. RootTypeOK'
    BY <1>1, Pairs DEF Start, RootTypeOK
  <2>2. CrtInv' /\ KeyInv' /\ WritingInv' /\ InstalledInv' /\ KillsAreHarmless'
    BY <1>1 DEF Start, CrtInv, KeyInv, WritingInv, InstalledInv, KillsAreHarmless
  <2>3. UseInv'
    BY <1>1 DEF Start, UseInv
  <2> QED
    BY <2>1, <2>2, <2>3
<1>2. CASE Kill
  <2>1. /\ faults \subseteq faults'
        /\ phase = "write" /\ todo = <<"crt">> => <<"torn", "crt">> \in faults'
    BY <1>2, TodoSteps DEF Kill, Fault
  <2>2. RootTypeOK' /\ phase' = "off" /\ Cert' = Nil
    BY <1>2, Pairs DEF Kill, RootTypeOK
  <2>3. CrtInv' /\ KeyInv' /\ WritingInv' /\ UseInv' /\ InstalledInv'
    BY <1>2, <2>1, <2>2 DEF Kill, CrtInv, KeyInv, WritingInv, UseInv, InstalledInv
  <2>4. KillsAreHarmless'
    BY <1>2, <2>1 DEF Kill, KillsAreHarmless
  <2> QED
    BY <2>2, <2>3, <2>4
<1>3. ASSUME NEW f \in {"crt", "key"}, Remove(f) PROVE RootIInv'
  <2>1. /\ faults \subseteq faults' /\ <<"removed", f>> \in faults'
        /\ phase = "off" /\ UNCHANGED <<phase, todo, gen, pair, Cert, answer, installed, died, kills>>
    BY <1>3 DEF Remove, Fault
  <2>2. /\ disk' \in Files
        /\ disk'.crt = IF f = "crt" THEN Absent ELSE disk.crt
        /\ disk'.key = IF f = "key" THEN Absent ELSE disk.key
    <3>1. /\ f \in {"crt", "key"} /\ disk \in Files /\ Absent \in Contents
          /\ disk' = [disk EXCEPT ![f] = Absent]
      BY <1>3 DEF Remove, RootTypeOK, Contents
    <3>2. CASE f = "crt"
      BY <3>1, <3>2 DEF Files
    <3>3. CASE f = "key"
      BY <3>1, <3>3 DEF Files
    <3> QED
      BY <3>1, <3>2, <3>3
  <2>3. RootTypeOK'
    BY <2>1, <2>2 DEF RootTypeOK
  <2>4. CrtInv' /\ KeyInv'
    BY <2>1, <2>2, ContentsDiffer DEF CrtInv, KeyInv, Blocks
  <2>5. WritingInv' /\ UseInv' /\ InstalledInv' /\ KillsAreHarmless'
    BY <2>1, <2>2 DEF WritingInv, UseInv, InstalledInv, KillsAreHarmless
  <2> QED
    BY <2>3, <2>4, <2>5
<1> QED
  BY <1>1, <1>2, <1>3

(* Reading, generating and failing to generate keep the invariant. *)
LEMMA InitStepIInv ==
  ASSUME RootIInv, Generate \/ GenerateFail \/ Read
  PROVE  RootIInv'
<1> USE DEF RootIInv
<1>1. CASE Generate
  <2>1. /\ gen' \in Nat /\ pair' = Pair(gen') /\ todo' = <<"key", "crt">> /\ phase' = "open"
        /\ phase = "init" /\ disk.crt = Absent
        /\ UNCHANGED <<disk, died, faults, Cert, answer, installed, kills>>
    BY <1>1 DEF Generate, Order, OnlyInit, RootTypeOK
  <2>2. RootTypeOK'
    BY <2>1, Pairs DEF RootTypeOK
  <2>3. CrtInv' /\ KeyInv' /\ UseInv' /\ InstalledInv' /\ KillsAreHarmless'
    BY <2>1, ContentsDiffer DEF CrtInv, KeyInv, UseInv, InstalledInv, KillsAreHarmless
  <2>4. WritingInv'
    BY <2>1, Pairs, ContentsDiffer, TodoSteps DEF WritingInv
  <2> QED
    BY <2>2, <2>3, <2>4
<1>2. CASE GenerateFail
  <2>1. /\ faults \subseteq faults' /\ <<"generation", "failed">> \in faults'
        /\ phase = "init" /\ phase' = "serving"
        /\ UNCHANGED <<disk, todo, gen, pair, died, Cert, answer, installed, kills>>
    BY <1>2 DEF GenerateFail, Fault, OnlyInit
  <2>2. RootTypeOK'
    BY <2>1 DEF RootTypeOK
  <2>3. CrtInv' /\ KeyInv' /\ WritingInv' /\ UseInv' /\ InstalledInv' /\ KillsAreHarmless'
    BY <2>1 DEF CrtInv, KeyInv, WritingInv, UseInv, InstalledInv, KillsAreHarmless
  <2> QED
    BY <2>2, <2>3
<1>3. CASE Read
  <2>1. /\ phase = "init" /\ disk.crt # Absent /\ pair' = disk
        /\ UNCHANGED <<disk, todo, gen, answer, installed, faults, kills>>
    BY <1>3 DEF Read
  <2>2. CASE {disk.crt, disk.key} \cap {Absent, Torn} # {}
    <3>1. phase' = "off" /\ Cert' = Nil /\ died' = "init"
      BY <1>3, <2>2 DEF Read, Died
    <3>2. RootTypeOK'
      BY <2>1, <3>1, Pairs DEF RootTypeOK
    <3>3. CrtInv' /\ KeyInv' /\ WritingInv' /\ UseInv' /\ InstalledInv'
      BY <2>1, <3>1 DEF CrtInv, KeyInv, WritingInv, UseInv, InstalledInv
    <3>4. faults \cap {<<"torn", "crt">>, <<"unwritten", "crt">>,
                       <<"unwritten", "key">>, <<"removed", "key">>} # {}
      <4>1. disk.crt = Torn \/ disk.crt \in Blocks
        BY <2>1 DEF RootTypeOK, Files, Contents, CrtInv
      <4>2. disk.crt \in Blocks => disk.key # disk.crt
        BY <2>2, ContentsDiffer DEF Blocks
      <4> QED
        BY <2>1, <4>1, <4>2 DEF CrtInv, KeyInv
    <3>5. KillsAreHarmless'
      BY <2>1, <3>1, <3>4 DEF KillsAreHarmless
    <3> QED
      BY <3>2, <3>3, <3>5
  <2>3. CASE {disk.crt, disk.key} \cap {Absent, Torn} = {}
    <3>1. phase' = "parse" /\ UNCHANGED <<Cert, died>>
      BY <1>3, <2>3 DEF Read
    <3>2. RootTypeOK'
      BY <2>1, <3>1 DEF RootTypeOK
    <3>3. CrtInv' /\ KeyInv' /\ WritingInv' /\ InstalledInv' /\ KillsAreHarmless'
      BY <2>1, <3>1 DEF CrtInv, KeyInv, WritingInv, InstalledInv, KillsAreHarmless
    <3>4. disk.crt \in Blocks /\ disk.key # Absent
      BY <2>3 DEF RootTypeOK, Files, Contents, CrtInv
    <3>5. UseInv'
      BY <2>1, <3>1, <3>4 DEF UseInv, KeyInv
    <3> QED
      BY <3>2, <3>3, <3>5
  <2> QED
    BY <2>2, <2>3
<1> QED
  BY <1>1, <1>2, <1>3

(* Opening and writing the two files keeps the invariant. *)
LEMMA WriteStepIInv ==
  ASSUME RootIInv, Open \/ Write \/ WriteFail
  PROVE  RootIInv'
<1> USE DEF RootIInv
<1> DEFINE f == Head(todo)
<1>1. /\ phase \in {"open", "write"} /\ disk \in Files /\ pair \in Files
      /\ todo \in {<<"crt">>, <<"key", "crt">>}
      /\ f = IF todo = <<"crt">> THEN "crt" ELSE "key"
      /\ Tail(todo) = IF todo = <<"crt">> THEN <<>> ELSE <<"crt">>
  BY TodoSteps DEF Open, Write, WriteFail, RootTypeOK, WritingInv
<1> HIDE DEF f
<1>2. CASE Open
  <2>1. /\ phase = "open" /\ phase' = "write"
        /\ UNCHANGED <<todo, gen, pair, died, faults, Cert, answer, installed, kills>>
    BY <1>2 DEF Open, OnlyInit
  <2>2. PICK c \in {Torn, Mixed, disk[f]} :
          disk' = [disk EXCEPT ![f] = c] /\ (disk[f] = Absent => c = Torn)
    BY <1>2 DEF Open, f
  <2>3. /\ disk' \in Files
        /\ disk'.crt = IF f = "crt" THEN Torn ELSE disk.crt
        /\ disk'.key = IF f = "key" THEN c ELSE disk.key
    <3>1. f \in {"crt", "key"} /\ c \in Contents /\ (f = "crt" => disk[f] = Absent)
      BY <1>1, <2>1 DEF Files, Contents, WritingInv
    <3>2. CASE f = "crt"
      BY <1>1, <2>2, <3>1, <3>2 DEF Files
    <3>3. CASE f = "key"
      BY <1>1, <2>2, <3>1, <3>3 DEF Files
    <3> QED
      BY <3>1, <3>2, <3>3
  <2>4. RootTypeOK'
    BY <2>1, <2>3 DEF RootTypeOK
  <2>5. disk.crt = Absent
    BY <2>1 DEF WritingInv
  <2>6. CrtInv' /\ KeyInv'
    BY <1>1, <2>1, <2>3, <2>5, ContentsDiffer DEF CrtInv, KeyInv, Blocks
  <2>7. UseInv' /\ InstalledInv' /\ KillsAreHarmless'
    BY <1>1, <2>1, <2>3, <2>5, ContentsDiffer
    DEF UseInv, InstalledInv, KillsAreHarmless, RootTypeOK
  <2>8. WritingInv'
    BY <1>1, <2>1, <2>3, <2>5, TodoSteps DEF WritingInv
  <2> QED
    BY <2>4, <2>6, <2>7, <2>8
<1>3. CASE Write
  <2>1. /\ phase = "write" /\ disk' = [disk EXCEPT ![f] = pair[f]]
        /\ todo' = Tail(todo) /\ phase' = IF todo' = <<>> THEN "parse" ELSE "open"
        /\ UNCHANGED <<gen, pair, died, faults, Cert, answer, installed, kills>>
    BY <1>3 DEF Write, NextFile, OnlyInit, f
  <2>2. /\ disk' \in Files
        /\ disk'.crt = IF f = "crt" THEN pair.crt ELSE disk.crt
        /\ disk'.key = IF f = "key" THEN pair.key ELSE disk.key
    <3>1. f \in {"crt", "key"} /\ pair[f] \in Contents
      BY <1>1 DEF Files
    <3>2. CASE f = "crt"
      BY <1>1, <2>1, <3>1, <3>2 DEF Files
    <3>3. CASE f = "key"
      BY <1>1, <2>1, <3>1, <3>3 DEF Files
    <3> QED
      BY <3>1, <3>2, <3>3
  <2>3. RootTypeOK'
    BY <1>1, <2>1, <2>2 DEF RootTypeOK
  <2>4. /\ pair.crt \in Blocks /\ pair.key = pair.crt
        /\ todo = <<"crt">> => disk.crt = Torn
        /\ todo = <<"crt">> => disk.key = pair.key \/ <<"unwritten", "key">> \in faults
        /\ todo # <<"crt">> => disk.crt = Absent
    BY <2>1 DEF WritingInv
  <2>5. CrtInv' /\ KeyInv'
    BY <1>1, <2>1, <2>2, <2>4, ContentsDiffer DEF CrtInv, KeyInv, Blocks
  <2>6. WritingInv'
    BY <1>1, <2>1, <2>2, <2>4, TodoSteps DEF WritingInv
  <2>7. UseInv'
    BY <1>1, <2>1, <2>2, <2>4, TodoSteps DEF UseInv
  <2>8. InstalledInv' /\ KillsAreHarmless'
    BY <1>1, <2>1, <2>2, <2>4, ContentsDiffer
    DEF InstalledInv, KillsAreHarmless, RootTypeOK
  <2> QED
    BY <2>3, <2>5, <2>6, <2>7, <2>8
<1>4. CASE WriteFail
  <2>1. /\ faults \subseteq faults' /\ <<"unwritten", f>> \in faults'
        /\ todo' = Tail(todo) /\ phase' = IF todo' = <<>> THEN "parse" ELSE "open"
        /\ UNCHANGED <<disk, gen, pair, died, Cert, answer, installed, kills>>
    BY <1>4 DEF WriteFail, Fault, NextFile, OnlyInit, f
  <2>2. RootTypeOK'
    BY <1>1, <2>1 DEF RootTypeOK
  <2>3. CrtInv' /\ KeyInv' /\ InstalledInv' /\ KillsAreHarmless'
    BY <1>1, <2>1 DEF CrtInv, KeyInv, InstalledInv, KillsAreHarmless
  <2>4. WritingInv'
    BY <1>1, <2>1, TodoSteps DEF WritingInv
  <2>5. UseInv'
    BY <1>1, <2>1, TodoSteps DEF UseInv, WritingInv
  <2> QED
    BY <2>2, <2>3, <2>4, <2>5
<1> QED
  BY <1>2, <1>3, <1>4

(* Parsing the pair, and using it for requests, keeps the invariant. *)
LEMMA UseStepIInv ==
  ASSUME RootIInv, Parse \/ GeneratePem \/ ServeCert
  PROVE  RootIInv'
<1> USE DEF RootIInv
<1>1. CASE Parse
  <2>1. /\ phase = "parse" /\ phase' = "serving" /\ Cert' = IF pair.key = Mixed THEN Nil ELSE pair
        /\ UNCHANGED <<disk, todo, gen, pair, answer, installed, died, faults, kills>>
    BY <1>1 DEF Parse
  <2>2. RootTypeOK'
    BY <2>1, Pairs DEF RootTypeOK
  <2>3. CrtInv' /\ KeyInv' /\ WritingInv' /\ InstalledInv' /\ KillsAreHarmless'
    BY <2>1 DEF CrtInv, KeyInv, WritingInv, InstalledInv, KillsAreHarmless
  <2>4. pair.key = Mixed => pair.key # pair.crt
    BY <2>1, ContentsDiffer DEF UseInv, Blocks
  <2>5. pair # Nil
    BY <2>1, Pairs, ContentsDiffer DEF UseInv, Blocks
  <2>6. UseInv'
    BY <2>1, <2>4, <2>5 DEF UseInv
  <2> QED
    BY <2>2, <2>3, <2>6
<1>2. CASE GeneratePem \/ ServeCert
  <2>1. /\ phase = "serving" /\ UNCHANGED <<disk, todo, gen, pair, faults, kills>>
    BY <1>2 DEF GeneratePem, ServeCert
  <2>2. CASE Cert = Nil
    <3>1. /\ phase' = "off" /\ Cert' = Nil /\ died' = "request"
          /\ UNCHANGED <<answer, installed>>
      BY <1>2, <2>2 DEF GeneratePem, ServeCert, Died
    <3>2. RootTypeOK'
      BY <2>1, <3>1, Pairs DEF RootTypeOK
    <3>3. CrtInv' /\ KeyInv' /\ WritingInv' /\ UseInv' /\ InstalledInv'
      BY <2>1, <3>1 DEF CrtInv, KeyInv, WritingInv, UseInv, InstalledInv
    <3>4. KillsAreHarmless'
      BY <2>1, <2>2, <3>1 DEF KillsAreHarmless, UseInv
    <3> QED
      BY <3>2, <3>3, <3>4
  <2>3. CASE Cert # Nil
    <3>1. /\ UNCHANGED <<phase, Cert, died>>
          /\ answer' \in {answer, IF Cert.key = Cert.crt THEN "signed" ELSE "useless"}
          /\ installed' \in {installed, Cert.crt.gen}
      BY <1>2, <2>3 DEF GeneratePem, ServeCert
    <3>2. PICK n \in Nat : Cert.crt = Block(n)
      BY <2>3 DEF UseInv, Blocks
    <3>3. Cert.crt.gen \in Nat /\ Cert.crt = Block(Cert.crt.gen)
      BY <3>2, ContentsDiffer
    <3>4. RootTypeOK'
      BY <2>1, <3>1, <3>3 DEF RootTypeOK
    <3>5. CrtInv' /\ KeyInv' /\ WritingInv' /\ UseInv'
      BY <2>1, <3>1 DEF CrtInv, KeyInv, WritingInv, UseInv
    <3>6. InstalledInv'
      BY <2>1, <2>3, <3>1, <3>3 DEF InstalledInv, UseInv
    <3>7. KillsAreHarmless'
      BY <2>1, <2>3, <3>1 DEF KillsAreHarmless, UseInv
    <3> QED
      BY <3>4, <3>5, <3>6, <3>7
  <2> QED
    BY <2>2, <2>3
<1> QED
  BY <1>1, <1>2

-----------------------------------------------------------------------------
(* Every step keeps the invariant, a step that changes nothing included. *)
LEMMA NextRootIInv == RootIInv /\ [RootNext]_rootVars => RootIInv'
<1> SUFFICES ASSUME RootIInv, [RootNext]_rootVars PROVE RootIInv'
  OBVIOUS
<1>1. CASE RootNext
  BY <1>1, WorldIInv, InitStepIInv, WriteStepIInv, UseStepIInv DEF RootNext
<1>2. CASE UNCHANGED rootVars
  BY <1>2 DEF rootVars, RootIInv, RootTypeOK, CrtInv, KeyInv, WritingInv, UseInv,
              InstalledInv, KillsAreHarmless
<1> QED
  BY <1>1, <1>2

(* The inductive invariant holds in every reachable state. *)
LEMMA RootInvariant == RootSpec => []RootIInv
<1> QED
  BY InitRootIInv, NextRootIInv, PTL DEF RootSpec

(* Certificate.Init: killing the process is harmless but for the time      *)
(* cert.crt is being written, for any number of kills.                     *)
THEOREM KillsAreHarmlessHolds == RootSpec => []KillsAreHarmless
<1>1. RootIInv => KillsAreHarmless
  BY DEF RootIInv
<1> QED
  BY <1>1, RootInvariant, PTL

(* The root that a client installed is the one every later run works with, *)
(* for any number of generations, unless cert.crt was removed or could not *)
(* be written.                                                             *)
THEOREM RootIsStableHolds == RootSpec => []RootIsStable
<1>1. RootIInv => RootIsStable
  BY DEF RootIInv, InstalledInv, UseInv, RootIsStable
<1> QED
  BY <1>1, RootInvariant, PTL
=============================================================================
