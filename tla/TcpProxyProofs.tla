---------------------------- MODULE TcpProxyProofs ----------------------------
(***************************************************************************)
(* Whatever the peek, the dial, the certificate and the handshake do, what *)
(* follows them is the relay: the invariant of RelayProofs holds from the  *)
(* first byte of the connection on, and the connection implements Pipe.    *)
(***************************************************************************)
EXTENDS TcpProxy, RelayProofs

(* Nothing runs but the setup as long as it lasts. *)
LEMMA SetupIsSetupStep ==
  ASSUME RelayIInv, Setup
  PROVE  SetupStep
<1>1. \A s \in Side : loop[s] = "off"
  BY DEF Setup, RelayIInv, StartInv
<1>2. /\ session' \in {"setup", "ready", "relay", "ending", "event", "closed"}
      /\ UNCHANGED <<endpointVars, reset, first, chunk, buf, loop, got, stop>>
  BY DEF Setup, Peek, PeekFail, Dispatch, ResolveFail, Dial, DialFail, Certificate,
         CertificateFail, CertificateRace, HandshakeRead, HandshakeOk, HandshakeFail,
         UnchangedInSetup, Leave
<1>3. conn' \in [Side -> BOOLEAN]
  <2>1. conn' = conn \/ conn' = [conn EXCEPT ![Target] = TRUE]
    BY DEF Setup, Peek, PeekFail, Dispatch, ResolveFail, Dial, DialFail, Certificate,
           CertificateFail, CertificateRace, HandshakeRead, HandshakeOk, HandshakeFail
  <2> QED
    BY <2>1 DEF RelayIInv, TypeOK
<1>4. /\ taken' \in [Side -> Nat]
      /\ \A s \in Side : taken[s] <= taken'[s] /\ taken'[s] <= sent[s]
  <2>1. /\ taken \in [Side -> Nat] /\ sent \in [Side -> Nat]
        /\ \A s \in Side : taken[s] <= sent[s]
    BY DEF RelayIInv, TypeOK, DirInv, ChunkInv
  <2>2. CASE Peek \/ HandshakeRead
    <3>1. PICK n \in 1..MaxSent[Client] : Take(n)
      BY <2>2 DEF Peek, HandshakeRead
    <3>2. n \in Nat /\ taken[Client] + n <= sent[Client]
      BY <3>1, Sides, RelayAssumption DEF Take
    <3>3. taken' = [taken EXCEPT ![Client] = @ + n]
      BY <3>1 DEF Take
    <3> QED
      BY <2>1, <3>2, <3>3, Sides
  <2>3. CASE taken' = taken
    BY <2>1, <2>3
  <2> QED
    BY <2>2, <2>3 DEF Setup, PeekFail, Dispatch, ResolveFail, Dial, DialFail, Certificate,
                      CertificateFail, CertificateRace, HandshakeOk, HandshakeFail
<1> QED
  BY <1>1, <1>2, <1>3, <1>4 DEF SetupStep

(* After it every step is one of the relay. *)
LEMMA RelayStepIsNext == RelayStep => Next
BY Sides DEF RelayStep, Next, Endpoint

(* The invariant holds before the peek.                                    *)
LEMMA TcpInitIInv == TcpInit => RelayIInv /\ P!Init
<1> SUFFICES ASSUME TcpInit PROVE RelayIInv /\ P!Init
  OBVIOUS
<1>1. TypeOK
  BY RelayAssumption, EmptySeq DEF TcpInit, TypeOK
<1>2. StartInv
  BY DEF TcpInit, StartInv
<1>3. ASSUME NEW s \in Side PROVE DirInv(s)
  <2>1. /\ sent[s] = 0 /\ taken[s] = 0 /\ first[s] = 0 /\ chunk[s] = <<>>
        /\ loop[s] = "off" /\ got[Peer(s)] = <<>>
    BY Sides DEF TcpInit
  <2>2. Len(chunk[s]) = 0 /\ Len(got[Peer(s)]) = 0
    BY <2>1
  <2> QED
    BY <2>1, <2>2 DEF DirInv, ChunkInv, ArrivedInv, PrefixInv
<1>4. P!Init
  BY InitPipe DEF TcpInit
<1> QED
  BY <1>1, <1>2, <1>3, <1>4 DEF RelayIInv

(* The invariant of the relay holds of the whole connection. *)
LEMMA TcpNextIInv == RelayIInv /\ [TcpNext]_tcpVars => RelayIInv'
<1> SUFFICES ASSUME RelayIInv, [TcpNext]_tcpVars PROVE RelayIInv'
  OBVIOUS
<1>1. CASE Setup
  BY <1>1, SetupIsSetupStep, SetupIInv
<1>2. CASE RelayStep
  BY <1>2, RelayStepIsNext, NextRelayIInv
<1>3. CASE UNCHANGED vars
  BY <1>3, UnchangedIInv
<1> QED
  BY <1>1, <1>2, <1>3 DEF TcpNext, LeaveLocked, tcpVars

(* ProxyTcp.Handle, for every number of units, length of the buffer and of *)
(* a ClientHello: whatever the peek and a failed handshake consume and     *)
(* however the setup ends, what each endpoint receives is a prefix of what *)
(* the other one sent after it.                                            *)
THEOREM TcpPipe ==
  ASSUME ~Intercepts
  PROVE  TcpSpec => TcpImplementsPipe
<1>1. TcpInit => RelayIInv /\ P!Init
  BY TcpInitIInv
<1>2. RelayIInv /\ [TcpNext]_tcpVars => RelayIInv'
  BY TcpNextIInv
<1>3. ASSUME RelayIInv, RelayIInv', [TcpNext]_tcpVars
      PROVE  [P!Next]_<<PipeSent, PipeGot>>
  <2>1. CASE Setup
    BY <1>3, <2>1, SetupIsSetupStep, SetupPipe
  <2>2. CASE RelayStep
    BY <1>3, <2>2, RelayStepIsNext, NextPipe
  <2>3. CASE UNCHANGED vars
    BY <2>3, UnchangedPipe
  <2> QED
    BY <1>3, <2>1, <2>2, <2>3 DEF TcpNext, LeaveLocked, tcpVars
<1> QED
  BY <1>1, <1>2, <1>3, PTL DEF TcpSpec, TcpImplementsPipe, ImplementsPipe, P!Spec
=============================================================================
