------------------------------ MODULE TcpProxy -------------------------------
(***************************************************************************)
(* One connection that ProxyServer.handle classifies as plain TCP: the     *)
(* peek at its first bytes, ProxyTcp.Handle up to its go statements, and   *)
(* the relay of module Relay.                                              *)
(*                                                                         *)
(* The peek fills the bufio.Reader of ConnPeer; everything after it reads  *)
(* the connection itself, so what the peek took is not seen again.  The    *)
(* client may embed a TLS ClientHello in what it sends: HelloLen units     *)
(* that start at position HelloAt.                                         *)
(***************************************************************************)
EXTENDS Relay

CONSTANTS
  PeekLen,    \* units reader.Peek waits for (3 bytes)
  HeaderLen,  \* units from which tls tells whether a record begins (5 bytes)
  HelloAt,    \* where the client's ClientHello begins, 0 if it sends none
  HelloLen    \* its length

ASSUME TcpAssumption ==
  /\ PeekLen \in Nat \ {0} /\ HeaderLen \in Nat \ {0}
  /\ HelloAt \in Nat /\ HelloLen \in Nat /\ HelloLen >= HeaderLen

VARIABLES
  stage,    \* where handle and Handle are while session = "setup"
  peeked,   \* units in the bufio.Reader
  tls,      \* the handshake succeeded: i.ConnPeer.conn is the tls.Conn
  locked,   \* a name that does not split has left the cache's mutex locked
  crashed   \* the process panicked

tcpVars == <<vars, stage, peeked, tls, locked, crashed>>

TcpInit ==
  /\ sent = [s \in Side |-> 0]
  /\ peer = [s \in Side |-> "open"]
  /\ reset = [s \in Side |-> FALSE]
  /\ conn = [s \in Side |-> s = Client]
  /\ taken = [s \in Side |-> 0]
  /\ first = [s \in Side |-> 0]
  /\ chunk = [s \in Side |-> <<>>]
  /\ buf = [s \in Side |-> BufLen]
  /\ loop = [s \in Side |-> "off"]
  /\ got = [s \in Side |-> <<>>]
  /\ stop = 0
  /\ session = "setup"
  /\ stage = "peek"
  /\ peeked = 0
  /\ tls = FALSE
  /\ locked \in BOOLEAN
  /\ crashed = FALSE

-----------------------------------------------------------------------------
(* What setup steps leave alone. *)
UnchangedInSetup ==
  UNCHANGED <<endpointVars, reset, first, chunk, buf, loop, got, stop>>

(* The client's stream ended or broke with all that had arrived read. *)
ClientGone ==
  reset[Client] \/ (peer[Client] # "open" /\ taken[Client] = sent[Client])

(* The proxy reads n more units of the client. *)
Take(n) ==
  /\ ~reset[Client] /\ taken[Client] + n <= sent[Client]
  /\ taken' = [taken EXCEPT ![Client] = @ + n]

(* Leave the setup for one of the states of session. *)
Leave(next) == session' = next /\ stage' = "past"

(* reader.Peek(3): reads until it has that many; a read takes whatever has *)
(* arrived.                                                                *)
Peek ==
  /\ stage = "peek" /\ peeked < PeekLen
  /\ \E n \in 1..MaxSent[Client] : Take(n) /\ peeked' = peeked + n
  /\ UnchangedInSetup /\ UNCHANGED <<conn, session, stage, tls, crashed>>

(* The stream ends before that: handle returns. *)
PeekFail ==
  /\ stage = "peek" /\ peeked < PeekLen /\ ClientGone
  /\ Leave("event")
  /\ UnchangedInSetup /\ UNCHANGED <<conn, taken, peeked, tls, crashed>>

(* The first byte selects ProxyTcp. *)
Dispatch ==
  /\ stage = "peek" /\ peeked >= PeekLen
  /\ stage' = "dial"
  /\ UnchangedInSetup
  /\ UNCHANGED <<conn, taken, session, peeked, tls, crashed>>

(* The address of the target does not resolve: Handle returns. *)
ResolveFail ==
  /\ stage = "dial"
  /\ Leave("event")
  /\ UnchangedInSetup /\ UNCHANGED <<conn, taken, peeked, tls, crashed>>

Dial ==
  /\ stage = "dial"
  /\ conn' = [conn EXCEPT ![Target] = TRUE]
  /\ stage' = "cert"
  /\ UnchangedInSetup /\ UNCHANGED <<taken, session, peeked, tls, crashed>>

(* The dial fails.  The Close of the connection was deferred before the    *)
(* error is looked at, and the connection is a nil *TCPConn: the return    *)
(* panics, in a goroutine that does not recover.                           *)
DialFail ==
  /\ stage = "dial"
  /\ crashed' = TRUE
  /\ UnchangedInSetup /\ UNCHANGED <<conn, taken, session, stage, peeked, tls>>

(* GetCertificate takes the mutex of the cache first and yields a          *)
(* certificate.                                                            *)
Certificate ==
  /\ stage = "cert" /\ ~locked
  /\ stage' = "hello"
  /\ UnchangedInSetup
  /\ UNCHANGED <<conn, taken, session, peeked, tls, crashed>>

(* Mutant: without a certificate the deferred Close is skipped. *)
CertificateFailLeaks ==
  /\ stage = "cert" /\ ~locked
  /\ Leave("event")
  /\ UnchangedInSetup /\ UNCHANGED <<conn, taken, peeked, tls, crashed>>

(* It yields an error, or nil (module CertCache): Handle returns. *)
CertificateFail ==
  /\ stage = "cert" /\ ~locked
  /\ Leave("ending")
  /\ UnchangedInSetup /\ UNCHANGED <<conn, taken, peeked, tls, crashed>>

(* It reads the map of the cache again without the lock, while another     *)
(* call writes to it: the Go runtime ends the process.                     *)
CertificateRace ==
  /\ stage = "cert" /\ ~locked
  /\ crashed' = TRUE
  /\ UnchangedInSetup /\ UNCHANGED <<conn, taken, session, stage, peeked, tls>>

(* What the handshake has read; whether that is the start of a hello. *)
Heard == taken[Client] - peeked
Intact == HelloAt = peeked + 1

(* Handshake reads the connection, with no deadline, until it has a record *)
(* header and, if that begins a ClientHello, all of it.                    *)
HandshakeRead ==
  /\ stage = "hello"
  /\ Heard < IF Intact THEN HelloLen ELSE HeaderLen
  /\ \E n \in 1..MaxSent[Client] : Take(n)
  /\ UnchangedInSetup /\ UNCHANGED <<conn, session, stage, peeked, tls, crashed>>

HandshakeOk ==
  /\ stage = "hello" /\ Intact /\ Heard = HelloLen
  /\ tls' = TRUE
  /\ Leave("ready")
  /\ UnchangedInSetup /\ UNCHANGED <<conn, taken, peeked, crashed>>

(* Mutant: a stream that ends during the handshake is waited for. *)
HandshakeFailOnlyBad ==
  /\ stage = "hello"
  /\ ~Intact /\ Heard >= HeaderLen
  /\ Leave("ready")
  /\ UnchangedInSetup /\ UNCHANGED <<conn, taken, peeked, tls, crashed>>

(* What the client sent is no ClientHello, or its stream ended first.  The *)
(* relay starts all the same, on the bare connection.                      *)
HandshakeFail ==
  /\ stage = "hello"
  /\ (~Intact /\ Heard >= HeaderLen) \/ ClientGone
  /\ Leave("ready")
  /\ UnchangedInSetup /\ UNCHANGED <<conn, taken, peeked, tls, crashed>>

Setup ==
  /\ session = "setup"
  /\ \/ Peek \/ PeekFail \/ Dispatch \/ ResolveFail \/ Dial \/ DialFail
     \/ Certificate \/ CertificateFail \/ CertificateRace
     \/ HandshakeRead \/ HandshakeOk \/ HandshakeFail
  /\ UNCHANGED locked

(* A client that speaks TLS sends nothing after its ClientHello until the  *)
(* handshake is over.                                                      *)
ClientMaySend ==
  HelloAt > 0 /\ sent[Client] >= HelloAt + HelloLen - 1 => tls

RelayStep ==
  /\ \/ Handle
     \/ \E s \in Side : Transport(s) \/ Shut(s) \/ Close(s)
     \/ ClientMaySend /\ Send(Client)
     \/ Send(Target)
  /\ UNCHANGED <<stage, peeked, tls, locked, crashed>>

(* Another connection asks the cache for a name that does not split into a *)
(* host and a port: GetCertificate returns without its Unlock.             *)
LeaveLocked ==
  /\ locked' = TRUE
  /\ UNCHANGED <<vars, stage, peeked, tls, crashed>>

TcpNext == ~crashed /\ (Setup \/ RelayStep \/ LeaveLocked)

TcpSpec == TcpInit /\ [][TcpNext]_tcpVars

(* Every step of the proxy's goroutines; dialling and generating a         *)
(* certificate take a bounded time.                                        *)
TcpFairSpec ==
  /\ TcpSpec
  /\ WF_tcpVars(~crashed /\ Setup)
  /\ WF_tcpVars(~crashed /\ Handle
                /\ UNCHANGED <<stage, peeked, tls, locked, crashed>>)
  /\ \A s \in Side : WF_tcpVars(~crashed /\ Transport(s)
                                /\ UNCHANGED <<stage, peeked, tls, locked, crashed>>)

-----------------------------------------------------------------------------
(* The relay is a pipe for all that follows the units the peek and a       *)
(* failed handshake consumed, TLS or not.                                  *)
TcpImplementsPipe == ImplementsPipe

(* The setup ends in the relay or with both connections closed, whatever   *)
(* step of it fails.  It waits for ever only for a client that is still    *)
(* connected and has not sent enough for the peek or the handshake to      *)
(* decide, neither of which has a deadline, or for a mutex of the cache    *)
(* that a call of another connection left locked.  The process dies in it  *)
(* of nothing but the nil connection of a failed dial and the cache's      *)
(* unlocked read.                                                          *)
SetupEnds ==
  session = "setup" ~>
    \/ session = "relay"
    \/ session = "closed" /\ \A s \in Side : ~conn[s]
    \/ crashed /\ \/ stage = "dial" /\ ~conn[Target]
                  \/ stage = "cert"
    \/ peer[Client] = "open" /\ \/ stage = "peek" /\ sent[Client] < PeekLen
                                \/ stage = "hello" /\ taken[Client] = sent[Client]
    \/ stage = "cert" /\ locked
=============================================================================
