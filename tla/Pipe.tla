-------------------------------- MODULE Pipe ---------------------------------
(***************************************************************************)
(* What a relayed connection promises its two endpoints: each receives a   *)
(* prefix of what the other one sent, in order, without gaps, repetitions  *)
(* or insertions.  Units of data are named by their position in the        *)
(* stream that carries them.  Delivery may stop for good at any moment.    *)
(***************************************************************************)
EXTENDS Naturals, Sequences

CONSTANT Side

VARIABLES
  sent,   \* how many units each side has sent
  got     \* the units each side has received

Other(s) == CHOOSE p \in Side : p # s

Stream(n) == [i \in 1..n |-> i]

Init ==
  /\ sent = [s \in Side |-> 0]
  /\ got = [s \in Side |-> <<>>]

Send ==
  /\ sent' \in [Side -> Nat]
  /\ \A s \in Side : sent'[s] >= sent[s]
  /\ UNCHANGED got

Deliver(s) ==
  /\ got'[Other(s)] \in {Stream(n) : n \in Len(got[Other(s)])..sent[s]}
  /\ got' = [got EXCEPT ![Other(s)] = got'[Other(s)]]
  /\ UNCHANGED sent

Next == Send \/ \E s \in Side : Deliver(s)

Spec == Init /\ [][Next]_<<sent, got>>
=============================================================================
