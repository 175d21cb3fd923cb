---------------------------- MODULE RootCertificate ----------------------------
(***************************************************************************)
(* The root certificate and its key over runs of the process: Main's init, *)
(* Certificate.Init, the two files it reads or writes, and what is made of *)
(* the pair.  The process may be killed between any two writes, every      *)
(* error of a write is ignored, and the user may remove files in between.  *)
(*                                                                         *)
(* A pair is named by the number of its generation.  A file is absent, a   *)
(* block (the first in it is of that generation), torn (a beginning of a   *)
(* block, nothing included), or mixed (such a beginning over the block of  *)
(* an older file, which is opened without truncation).                     *)
(***************************************************************************)
EXTENDS Naturals, Sequences, FiniteSets

CONSTANTS MaxGen, MaxKills  \* bounds: pairs generated, times the process is killed

ASSUME RootAssumption == {MaxGen, MaxKills} \subseteq Nat

VARIABLES
  disk,      \* cert.crt and cert.key
  phase,     \* "off", "init", "open" or "write" a file, "parse", "serving"
  todo,      \* the files still to be written
  gen,       \* generations so far
  pair,      \* the blocks Init goes on with
  Cert,      \* the package variable: the pair, or Nil
  answer,    \* of GeneratePem: "none", "signed", "useless"
  installed, \* the root a client first got from the proxy; 0 for none
  died,      \* where the process panicked, if it did
  faults,    \* what went wrong so far
  kills

rootVars == <<disk, phase, todo, gen, pair, Cert, answer, installed, died, faults, kills>>

Block(n) == [is |-> "block", gen |-> n]
Absent == [is |-> "absent", gen |-> 0]
Torn == [is |-> "torn", gen |-> 0]
Mixed == [is |-> "mixed", gen |-> 0]
Nil == [crt |-> Absent, key |-> Absent]
Pair(n) == [crt |-> Block(n), key |-> Block(n)]

(* A directory without the files, or with the pair of the repository. *)
RootInit ==
  /\ gen \in 0..1 /\ disk = IF gen = 0 THEN Nil ELSE Pair(gen)
  /\ phase = "off" /\ todo = <<>> /\ pair = Nil /\ Cert = Nil
  /\ answer = "none" /\ installed = 0 /\ died = "no" /\ faults = {} /\ kills = 0

Fault(what, where) == faults' = faults \cup {<<what, where>>}
Died(where) == phase' = "off" /\ Cert' = Nil /\ died' = where

-----------------------------------------------------------------------------
(* The world around the process. *)

Start ==
  /\ phase = "off"
  /\ phase' = "init" /\ pair' = Nil /\ todo' = <<>> /\ answer' = "none"
  /\ UNCHANGED <<disk, gen, Cert, installed, died, faults, kills>>

Kill ==
  /\ phase # "off" /\ kills < MaxKills
  /\ kills' = kills + 1 /\ phase' = "off" /\ Cert' = Nil
  /\ IF phase = "write" /\ Head(todo) = "crt" THEN Fault("torn", "crt") ELSE UNCHANGED faults
  /\ UNCHANGED <<disk, todo, gen, pair, answer, installed, died>>

(* The user removes a file, each once. *)
Remove(f) ==
  /\ phase = "off" /\ disk[f] # Absent /\ <<"removed", f>> \notin faults
  /\ disk' = [disk EXCEPT ![f] = Absent] /\ Fault("removed", f)
  /\ UNCHANGED <<phase, todo, gen, pair, Cert, answer, installed, died, kills>>

-----------------------------------------------------------------------------
(* Certificate.Init: both files are read if there is a cert.crt, otherwise *)
(* a pair is generated and written, the key first.                         *)

OnlyInit == UNCHANGED <<Cert, answer, installed, kills>>

(* Mutant: the certificate is written first. *)
CrtFirst == <<"crt", "key">>

Order == <<"key", "crt">>

(* Mutant: a pair is generated when either file is missing. *)
GenerateEither ==
  /\ phase = "init" /\ Absent \in {disk.crt, disk.key} /\ gen < MaxGen
  /\ gen' = gen + 1 /\ pair' = Pair(gen') /\ todo' = Order /\ phase' = "open"
  /\ OnlyInit /\ UNCHANGED <<disk, died, faults>>

Generate ==
  /\ phase = "init" /\ disk.crt = Absent /\ gen < MaxGen
  /\ gen' = gen + 1 /\ pair' = Pair(gen') /\ todo' = Order /\ phase' = "open"
  /\ OnlyInit /\ UNCHANGED <<disk, died, faults>>

(* Init returns an error, which Main logs: the proxy serves without a root. *)
GenerateFail ==
  /\ phase = "init" /\ disk.crt = Absent
  /\ phase' = "serving" /\ Fault("generation", "failed")
  /\ OnlyInit /\ UNCHANGED <<disk, todo, gen, pair, died>>

(* The bytes of a block that was not found are asked for. *)
Read ==
  /\ phase = "init" /\ disk.crt # Absent
  /\ pair' = disk
  /\ IF {disk.crt, disk.key} \cap {Absent, Torn} # {}
     THEN Died("init") ELSE phase' = "parse" /\ UNCHANGED <<Cert, died>>
  /\ UNCHANGED <<disk, todo, gen, answer, installed, faults, kills>>

(* An existing file keeps its old bytes behind the ones written so far. *)
Open ==
  /\ phase = "open" /\ phase' = "write"
  /\ LET f == Head(todo)
     IN \E c \in IF disk[f] = Absent THEN {Torn} ELSE {disk[f], Mixed} :
          disk' = [disk EXCEPT ![f] = c]
  /\ OnlyInit /\ UNCHANGED <<todo, gen, pair, died, faults>>

NextFile == todo' = Tail(todo) /\ phase' = IF todo' = <<>> THEN "parse" ELSE "open"

Write ==
  /\ phase = "write"
  /\ disk' = [disk EXCEPT ![Head(todo)] = pair[Head(todo)]] /\ NextFile
  /\ OnlyInit /\ UNCHANGED <<gen, pair, died, faults>>

(* The file cannot be opened, or not be written to its end. *)
WriteFail ==
  /\ phase \in {"open", "write"}
  /\ Fault("unwritten", Head(todo)) /\ NextFile
  /\ OnlyInit /\ UNCHANGED <<disk, gen, pair, died>>

(* A block whose contents do not parse is an error again.  Whether the key *)
(* is the certificate's is not looked at.                                  *)
Parse ==
  /\ phase = "parse" /\ phase' = "serving"
  /\ Cert' = IF pair.key = Mixed THEN Nil ELSE pair
  /\ UNCHANGED <<disk, todo, gen, pair, answer, installed, died, faults, kills>>

-----------------------------------------------------------------------------
(* What the handlers do with the package variable. *)

(* GeneratePem for a host: x509 refuses a key that is not the issuer's.    *)
GeneratePem ==
  /\ phase = "serving"
  /\ IF Cert = Nil THEN Died("request") /\ UNCHANGED answer
     ELSE /\ answer' = IF Cert.key = Cert.crt THEN "signed" ELSE "useless"
          /\ UNCHANGED <<phase, Cert, died>>
  /\ UNCHANGED <<disk, todo, gen, pair, installed, faults, kills>>

(* A client asks for /tls, and installs what it gets. *)
ServeCert ==
  /\ phase = "serving" /\ installed = 0
  /\ IF Cert = Nil THEN Died("request") /\ UNCHANGED installed
     ELSE installed' = Cert.crt.gen /\ UNCHANGED <<phase, Cert, died>>
  /\ UNCHANGED <<disk, todo, gen, pair, answer, faults, kills>>

RootNext ==
  \/ Start \/ Kill \/ Remove("crt") \/ Remove("key")
  \/ Generate \/ GenerateFail \/ Read \/ Open \/ Write \/ WriteFail \/ Parse
  \/ GeneratePem \/ ServeCert

RootSpec == RootInit /\ [][RootNext]_rootVars

-----------------------------------------------------------------------------
(* Killing the process is harmless, whenever it happens, except while      *)
(* cert.crt is being written: the next start finds both files whole, or    *)
(* writes both, and its key is the certificate's.  What else stops a start *)
(* is a write that failed unnoticed or a key that was removed; what makes  *)
(* certificates useless is a key that could not be written; and a request  *)
(* meets no root only if none could be generated or the key was not        *)
(* written.                                                                *)
KillsAreHarmless ==
  /\ died = "init" => faults \cap {<<"torn", "crt">>, <<"unwritten", "crt">>,
                                   <<"unwritten", "key">>, <<"removed", "key">>} # {}
  /\ answer = "useless" => <<"unwritten", "key">> \in faults
  /\ died = "request" => faults \cap {<<"generation", "failed">>, <<"unwritten", "key">>} # {}

(* The root that clients have installed is the one every later run works   *)
(* with, unless cert.crt was removed or could not be written.              *)
RootIsStable ==
  installed # 0 /\ Cert # Nil =>
    Cert.crt = Block(installed) \/ {<<"removed", "crt">>, <<"unwritten", "crt">>} \cap faults # {}
=============================================================================
