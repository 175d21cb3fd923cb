------------------------------ MODULE CertCache ------------------------------
(***************************************************************************)
(* The certificate cache of src/Core/Cache.go: Storage.GetCertificate and  *)
(* Storage.do, called by one goroutine per TLS connection.                 *)
(*                                                                         *)
(* The mutex guards the lookup and the insertion; the generation of the    *)
(* certificate and both reads of the map after it run without the lock.    *)
(* An action (a cache entry) is identified by the caller that creates it,  *)
(* so two entries for one host would be two distinct values here.  A       *)
(* certificate is abstracted to the host it is issued to.                  *)
(***************************************************************************)
CONSTANTS
  Caller,     \* goroutines; each makes one GetCertificate call
  Name,       \* what callers pass: a host name, "host:port", an address
  Host,       \* the hosts certificates are issued to
  NoHost,     \* no host (the name does not split), no certificate (nil)
  NoCaller,   \* nobody
  SplitHost   \* the host net.SplitHostPort yields for a name, or NoHost

ASSUME CacheAssumption ==
  /\ NoHost \notin Host
  /\ NoCaller \notin Caller
  /\ SplitHost \in [Name -> Host \cup {NoHost}]

VARIABLES
  pc,         \* where each caller is
  name,       \* the name each caller passed
  lock,       \* the holder of Storage.lock
  mapping,    \* Storage.mapping: host -> entry
  held,       \* the entry a caller has a pointer to
  wg,         \* the WaitGroup counter of each entry
  cert, err,  \* action.cert and action.err of each entry
  result,     \* what each call returned
  crashed     \* the Go runtime stopped the process (concurrent map access)

vars == <<pc, name, lock, mapping, held, wg, cert, err, result,
          crashed>>

PC == {"idle", "lock", "locked", "inserting", "generating", "callback",
       "done", "read", "waiting", "returned"}

HostOf(c) == SplitHost[name[c]]

TypeOK ==
  /\ pc \in [Caller -> PC]
  /\ name \in [Caller -> Name]
  /\ lock \in Caller \cup {NoCaller}
  /\ mapping \in [Host -> Caller \cup {NoCaller}]
  /\ held \in [Caller -> Caller \cup {NoCaller}]
  /\ wg \in [Caller -> {0, 1}]
  /\ cert \in [Caller -> Host \cup {NoHost}]
  /\ err \in [Caller -> BOOLEAN]
  /\ result \in [Caller -> [cert : Host \cup {NoHost}, err : BOOLEAN]]
  /\ crashed \in BOOLEAN

Init ==
  /\ pc = [c \in Caller |-> "idle"]
  /\ name \in [Caller -> Name]
  /\ lock = NoCaller
  /\ mapping = [h \in Host |-> NoCaller]
  /\ held = [c \in Caller |-> NoCaller]
  /\ wg = [c \in Caller |-> 0]
  /\ cert = [c \in Caller |-> NoHost]
  /\ err = [c \in Caller |-> FALSE]
  /\ result = [c \in Caller |-> [cert |-> NoHost, err |-> FALSE]]
  /\ crashed = FALSE

-----------------------------------------------------------------------------
Goto(c, l) == pc' = [pc EXCEPT ![c] = l]

(* A connection handler calls GetCertificate. *)
Call(c) ==
  /\ pc[c] = "idle"
  /\ Goto(c, "lock")
  /\ UNCHANGED <<name, lock, mapping, held, wg, cert, err, result, crashed>>

(* Mutant: the mutex does not exclude. *)
LockNotExclusive(c) ==
  /\ pc[c] = "lock"
  /\ lock' = c
  /\ Goto(c, "locked")
  /\ UNCHANGED <<name, mapping, held, wg, cert, err, result, crashed>>

Lock(c) ==
  /\ pc[c] = "lock"
  /\ lock = NoCaller
  /\ lock' = c
  /\ Goto(c, "locked")
  /\ UNCHANGED <<name, mapping, held, wg, cert, err, result, crashed>>

(* SplitHostPort fails: the call returns the error and leaves the mutex    *)
(* locked, because only the two later paths unlock it.                     *)
SplitError(c) ==
  /\ pc[c] = "locked"
  /\ HostOf(c) = NoHost
  /\ result' = [result EXCEPT ![c] = [cert |-> NoHost, err |-> TRUE]]
  /\ Goto(c, "returned")
  /\ UNCHANGED <<name, lock, mapping, held, wg, cert, err, crashed>>

(* Mutant: the hit path returns without unlocking. *)
HitKeepsLock(c) ==
  /\ pc[c] = "locked"
  /\ HostOf(c) # NoHost
  /\ mapping[HostOf(c)] # NoCaller
  /\ held' = [held EXCEPT ![c] = mapping[HostOf(c)]]
  /\ Goto(c, "waiting")
  /\ UNCHANGED <<name, lock, mapping, wg, cert, err, result, crashed>>

(* The host has an entry: take the pointer, unlock, wait for it. *)
Hit(c) ==
  /\ pc[c] = "locked"
  /\ HostOf(c) # NoHost
  /\ mapping[HostOf(c)] # NoCaller
  /\ held' = [held EXCEPT ![c] = mapping[HostOf(c)]]
  /\ lock' = NoCaller
  /\ Goto(c, "waiting")
  /\ UNCHANGED <<name, mapping, wg, cert, err, result, crashed>>

(* The host has no entry: the assignment to the map begins. *)
BeginInsert(c) ==
  /\ pc[c] = "locked"
  /\ HostOf(c) # NoHost
  /\ mapping[HostOf(c)] = NoCaller
  /\ Goto(c, "inserting")
  /\ UNCHANGED <<name, lock, mapping, held, wg, cert, err, result, crashed>>

(* Mutant: the entry is published without wg.Add(1). *)
EndInsertNoAdd(c) ==
  /\ pc[c] = "inserting"
  /\ mapping' = [mapping EXCEPT ![HostOf(c)] = c]
  /\ lock' = NoCaller
  /\ Goto(c, "generating")
  /\ UNCHANGED <<name, held, wg, cert, err, result, crashed>>

(* Mutant: wg.Add(2). *)
EndInsertTwice(c) ==
  /\ pc[c] = "inserting"
  /\ mapping' = [mapping EXCEPT ![HostOf(c)] = c]
  /\ wg' = [wg EXCEPT ![c] = 2]
  /\ lock' = NoCaller
  /\ Goto(c, "generating")
  /\ UNCHANGED <<name, held, cert, err, result, crashed>>

(* The assignment ends; wg.Add(1) and the unlock follow it. *)
EndInsert(c) ==
  /\ pc[c] = "inserting"
  /\ mapping' = [mapping EXCEPT ![HostOf(c)] = c]
  /\ wg' = [wg EXCEPT ![c] = 1]
  /\ lock' = NoCaller
  /\ Goto(c, "generating")
  /\ UNCHANGED <<name, held, cert, err, result, crashed>>

(* The unlocked lookup i.mapping[host] that yields the entry and its        *)
(* function.                                                               *)
ReadAction(c) ==
  /\ pc[c] = "generating"
  /\ held' = [held EXCEPT ![c] = mapping[HostOf(c)]]
  /\ Goto(c, "callback")
  /\ UNCHANGED <<name, lock, mapping, wg, cert, err, result, crashed>>

(* Mutant: the generating function closes over a host variable that another *)
(* caller overwrites.                                                      *)
CallbackSharedHost(c) ==
  /\ pc[c] = "callback"
  /\ \E d \in Caller : cert' = [cert EXCEPT ![held[c]] = HostOf(d)]
  /\ Goto(c, "done")
  /\ UNCHANGED <<name, lock, mapping, held, wg, err, result, crashed>>

(* The function of GetAction: a certificate for the entry's host, or an    *)
(* error from GeneratePem or X509KeyPair and no certificate.               *)
Callback(c) ==
  /\ pc[c] = "callback"
  /\ \E ok \in BOOLEAN :
       /\ cert' = [cert EXCEPT ![held[c]] =
                     IF ok THEN HostOf(held[c]) ELSE NoHost]
       /\ err' = [err EXCEPT ![held[c]] = ~ok]
  /\ Goto(c, "done")
  /\ UNCHANGED <<name, lock, mapping, held, wg, result, crashed>>

(* The deferred wg.Done. *)
Done(c) ==
  /\ pc[c] = "done"
  /\ wg' = [wg EXCEPT ![held[c]] = 0]
  /\ Goto(c, "read")
  /\ UNCHANGED <<name, lock, mapping, held, cert, err, result, crashed>>

(* Mutant: the caller that generates drops the error, as the waiters do. *)
ReadResultDropsErr(c) ==
  /\ pc[c] = "read"
  /\ result' = [result EXCEPT ![c] =
                  [cert |-> cert[mapping[HostOf(c)]], err |-> FALSE]]
  /\ Goto(c, "returned")
  /\ UNCHANGED <<name, lock, mapping, held, wg, cert, err, crashed>>

(* The second unlocked lookup, for the values the call returns. *)
ReadResult(c) ==
  /\ pc[c] = "read"
  /\ result' = [result EXCEPT ![c] = [cert |-> cert[mapping[HostOf(c)]],
                                      err  |-> err[mapping[HostOf(c)]]]]
  /\ Goto(c, "returned")
  /\ UNCHANGED <<name, lock, mapping, held, wg, cert, err, crashed>>

(* wg.Wait returns; the entry's error is not looked at. *)
Wait(c) ==
  /\ pc[c] = "waiting"
  /\ wg[held[c]] = 0
  /\ result' = [result EXCEPT ![c] = [cert |-> cert[held[c]], err |-> FALSE]]
  /\ Goto(c, "returned")
  /\ UNCHANGED <<name, lock, mapping, held, wg, cert, err, crashed>>

(* An unlocked lookup meets an assignment in progress.  The lookup may     *)
(* still return the entry (ReadAction, ReadResult), or the Go runtime      *)
(* detects the concurrent access and stops the process.                    *)
MapRace(c) ==
  /\ pc[c] \in {"generating", "read"}
  /\ \E d \in Caller : pc[d] = "inserting"
  /\ crashed' = TRUE
  /\ UNCHANGED <<pc, name, lock, mapping, held, wg, cert, err, result>>

-----------------------------------------------------------------------------
(* What a call does once it is made. *)
Step(c) ==
  \/ Lock(c) \/ SplitError(c) \/ Hit(c) \/ BeginInsert(c) \/ EndInsert(c)
  \/ ReadAction(c) \/ Callback(c) \/ Done(c) \/ ReadResult(c) \/ Wait(c)

Next == ~crashed /\ \E c \in Caller : Call(c) \/ Step(c) \/ MapRace(c)

Spec == Init /\ [][Next]_vars

(* A goroutine that can run does run.  A call takes the mutex once, so weak *)
(* fairness is enough for Lock.                                            *)
FairSpec == Spec /\ \A c \in Caller : WF_vars(~crashed /\ Step(c))

-----------------------------------------------------------------------------
(* The caller inserted an entry and generates, or will, its certificate. *)
Owner(c) ==
  pc[c] \in {"generating", "callback", "done", "read"}

(* "对相同域名的并发,同一时刻只生成一个证书": callers of one host never both      *)
(* generate its certificate, and the one that does owns the host's entry.  *)
SingleFlight ==
  \A c \in Caller : Owner(c) =>
    /\ mapping[HostOf(c)] = c
    /\ \A d \in Caller : Owner(d) /\ HostOf(d) = HostOf(c) => d = c

(* A call that returns a certificate returns one issued to the host of the *)
(* name it was given, whoever generated it.                                *)
CertMatchesHost ==
  \A c \in Caller :
    result[c].cert # NoHost => result[c].cert = HostOf(c)

(* All calls for one host return the same certificate, or all return none: *)
(* nobody reads the entry before it is filled, and a failed generation is  *)
(* never tried again.                                                      *)
Agreement ==
  \A c, d \in Caller :
    pc[c] = "returned" /\ pc[d] = "returned" /\ HostOf(c) = HostOf(d)
      => result[c].cert = result[d].cert

(* A call that returns neither a certificate nor an error waited for       *)
(* another call's generation and that generation failed (ProxyTcp.Handle   *)
(* and SslReceiveSend meet this nil in their type assertions).             *)
NilOnlyAfterFailure ==
  \A c \in Caller :
    pc[c] = "returned" /\ result[c] = [cert |-> NoHost, err |-> FALSE]
      => held[c] \in Caller \ {c} /\ err[held[c]]

(* A burst of connections to one host cannot stop the process: the         *)
(* concurrent map access takes calls for two different hosts.              *)
CrashNeedsTwoHosts ==
  crashed => \E c, d \in Caller :
               /\ pc[c] \in {"generating", "read"}
               /\ pc[d] = "inserting"
               /\ HostOf(c) # HostOf(d)

(* The mutex stays locked for ever: a call whose name did not split holds  *)
(* it and has returned.                                                    *)
Wedged ==
  \E c \in Caller : lock = c /\ pc[c] = "returned" /\ HostOf(c) = NoHost

(* Every call returns, unless the process was stopped or an earlier call   *)
(* with a name that does not split left the mutex locked; one that waits   *)
(* for an entry is released even then: the rest of the generation takes no *)
(* lock, and its deferred Done runs when it fails too.                     *)
EveryCallReturns ==
  \A c \in Caller :
    /\ pc[c] = "lock" ~> (pc[c] = "returned" \/ crashed \/ Wedged)
    /\ pc[c] = "waiting" ~> (pc[c] = "returned" \/ crashed)
=============================================================================
