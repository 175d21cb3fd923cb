# shermie-proxy: models, checks and proofs

TLA+ models of the proxy in `src/`, the TLC configurations that check them and TLAPS proofs about most of them: the
server, the certificate cache, the root certificate, the relay with the TCP and SOCKS5 proxies around it, the HTTP
proxy and the WebSocket connection. All line numbers are those of `src/Core/...` unless a path is given. `PROJECT.json`
holds the same information for tools: which definition models which lines, which run checks which property, and for
every property a mutation of the code's model that the run must catch.

    tlasany M.tla                          parse
    tlc -workers 2 -config X.cfg M         check one run
    tlapm XProofs.tla                      check the proofs of one module

## 1. Inventory

The program listens on one port. Every connection gets a goroutine, `ProxyServer.handle`, which looks at the first byte
and hands the connection to one of three handlers. What is hard is the interleaving of goroutines that share a
connection, a channel, a lock or a map, the order in which things are closed, reads that return less than was asked
for, and waits without a deadline. The one thing that is persisted is the root certificate with its key, in two files.

| Component | State | Operations | Interacts with |
|---|---|---|---|
| Server (`ProxyServer.go`) | listener, five acceptors, registered events | `Start`, `Stop`, `MultiListen`, `handle` (peek 3 bytes, dispatch, deferred close event and `Close`) | starts every handler; owns the client's connection |
| Certificate cache (`Cache.go`) | mutex, map host → entry, per entry a WaitGroup, certificate, error | `GetCertificate`, `do` | called by ProxyTcp and ProxyHttp from any number of goroutines; calls `Certificate.GeneratePem` |
| Stream relay (`Transport` in `ProxyTcp.go`, `ProxySocks5.go`) | per direction a buffer; one channel `stop` | read, hand to the user's event, write, report | two goroutines and the waiting `Handle` |
| TCP proxy (`ProxyTcp.go`) | target connection, TLS or bare client connection | resolve, dial, certificate, TLS handshake, relay | cache, relay |
| SOCKS5 proxy (`ProxySocks5.go`) | position in the handshake, target | greeting, request, address, port, dial, reply, relay | relay; buffered reader of the server |
| HTTP proxy (`ProxyHttp.go`) | request, response, target, `tls` flag, deadline | `Handle`, `handleRequest`, `handleSslRequest`, `SslReceiveSend`, `handleWsHandshakeErr`, `handleWsRequest`, `DialContext` | cache, Upgrader, Dialer, two `Conn`s |
| WebSocket connection (`Websocket/Conn.go`, `Mask.go`) | write token `mu`, sticky `writeErr`, permanent `readErr`; of the frame being read `readRemaining`, `readFinal`, `readLength`, key and place in it; buffers | `WriteMessage`, `WriteControl`, `NextReader`, `Read` and the handlers they call | used by up to three goroutines at once |
| WebSocket handshakes (`Websocket/Server.go`, `Client.go`, `Util.go`; `RemoveWsHeader` of the HTTP proxy) | the headers, deadlines of both connections, what the response's reader holds | `Upgrade`, `Dial`, the header parsers | set up the `Conn`s |
| Certificate authority (`Certificate.go`, `init` of `Main.go`) | `cert.crt`, `cert.key`, the package variable `Cert` | `Init`, `GenerateRootPemFile`, `GeneratePem` | the cache and `/tls` use `Cert` |
| Compression, prepared messages, joining, JSON, outgoing proxies, logging, system utilities, the rest of `Main.go` | | unused by the program, or I/O | see section 8 |

What is hard in each, and what makes it correct:

- **Cache.** Many connections to one host arrive at once. The entry is published under the lock, but filled in without
  it, and the map is read without it (line 61). Correct: one generation per host, everyone who asked for the host gets
  that one's certificate, nobody waits for ever. The code falls short in two ways the model keeps: an unsplittable name
  leaves the mutex locked (46-47), and the unlocked read can meet another host's insertion, which stops a Go program.
- **Relay.** Two loops, one channel, one receiver; the first report ends the session, the second may find nobody. The
  buffer is shortened to each read and never restored (ProxyTcp 77). Correct: a pipe per direction (no loss, no
  repetition, no reordering up to the end), the end of the session reaches both loops, and the close event fires.
- **TCP proxy.** What the peek took is not seen again, so the relay is a pipe only for what follows it. Each setup step
  can fail with a connection open. Correct: nothing is left open; the setup ends.
- **SOCKS5.** A dozen short reads, each of which may return less; two replies on each path, the second before or after
  a dial. Correct: the handshake takes exactly the request, replies come in order, nothing is relayed before success.
- **HTTP.** Test dial, certificate, handshake, upgrade and second dial each fail on their own, after the client was told
  something. Correct: at most one answer, the one that belongs to the request, nothing of the target left open, and
  known places to wait.
- **Server.** Five acceptors share a listener, an Accept that fails is repeated for ever, a handler may panic, `Stop`
  does not stop anything. Correct: each connection is handled once and gets a connect and a close event in that order,
  and the service goes on as long as a descriptor is free.
- **Handshakes.** The browser's request is examined twice (which of page and handshake it is, then whether it is a good
  one) by different rules, is answered before the target is dialled, and passed on in parts. Correct: proper handshakes
  and no others are accepted, what is accepted can be dialled, no deadline and no connection is left over, no frame
  behind the response is lost, and the two sides agree on a subprotocol and on compression.
- **Reading frames.** Lengths overflow, streams end anywhere, an application reads in pieces and may leave a message.
  Correct: what is delivered was sent, io.EOF means the end of the message, the limit is neither passed nor imagined.
- **Root certificate.** Two files, written in pieces, their presence told by one, errors ignored. Correct: a restart
  finds the pair it left, or makes a new one; the root that users installed stays.
- **WebSocket.** The writer's fragments, the reader's answers to pings and close frames, and control frames of the
  application share a token. Correct: one writer at a time, whole messages, nothing after a close frame, a close
  ends both sides, and writers that fill the network in both directions do not wait for each other for ever.

The full list of hazards, each at its line and with the properties that watch it, is `hazards` in `PROJECT.json`.

## 2. Modules

    Pipe                      abstract: two prefixes
      ^ refinement
    Relay                     two Transports, a channel, Handle's wait and the closing
      ^ EXTENDS      ^ EXTENDS
    TcpProxy        Socks5    the handlers up to their go statements, composed with the relay

    WsConn                    connections as a set, one token each
      ^ EXTENDS      ^ EXTENDS
    WsLink          WsRelay   two back to back / one session of the HTTP proxy
    WsReader                  the reader of one connection, byte by byte
    HeaderTokens              parsers of header lists, and the grammar they implement
      ^ EXTENDS
    WsHandshake               both handshakes of a session: between HttpProxy and WsRelay
    HttpProxy                 one HTTP connection; the handshakes are a flag and the session is one state
    ProxyServer               Start, Stop, acceptors, events; a handler is one state
    RootCertificate           the two files over kills and restarts
    CertCache                 the cache; HttpProxy and TcpProxy know a call to it as "certificate or not",
                              and its mutex as a flag
    MC<module>                constants for TLC

    CertificateProofs         theorems about CertCache and RootCertificate
    ProxyServerProofs         theorems about ProxyServer and HttpProxy
    WsReaderProofs            theorems about WsReader
    WebSocketProofs           theorems about WsLink and WsRelay
    WsHandshakeProofs         theorems about HeaderTokens and WsHandshake
    RelayProofs               theorems about Relay and the lemmas about its actions
      ^ EXTENDS
    TcpProxyProofs, Socks5Proofs
                              the same for the handlers around it, which only add their setup

**CertCache** has one action per atomic step of `GetCertificate` and `do`: `Lock`, `SplitError`, `Hit`, `BeginInsert`
and `EndInsert` (a map assignment is not atomic against an unlocked read), `ReadAction`, `Callback` (the generation,
which succeeds or fails), `Done` (the deferred `wg.Done`), `ReadResult`, `Wait`; `MapRace` is the runtime stopping the
process. A cache entry is identified by the caller that created it, so two entries for one host would be two values.

**Relay** is the pair of `Transport` goroutines. `EofSignals` and `StopCap` are what differs between the two copies of
the code: ProxyTcp leaves its loop on EOF without a report and has a channel of two, ProxySocks5 reports EOF and has a
channel of one. `ReadData` takes from 1 to `buf` units; `buf` is then that number (`buff = buff[:n]`). `Intercept` is a
user's handler that keeps, shortens or lengthens the data or returns an error, and may write to the other side itself
and overlook that this failed; `Write` writes all of it or is broken by a closed or reset connection. `ReceiveStop`,
`CloseTarget`, `CloseClient` are `Handle` after its go statements and the two deferred closes, in order, each a step on
its own. Endpoints send, shut one direction, or close.

**TcpProxy** adds `Peek`, `Dispatch`, `ResolveFail`, `Dial`, `DialFail` (the deferred `Close` of a nil connection
panics), `Certificate`, `CertificateFail`, `CertificateRace` (the unlocked read of the cache meets another connection's
insertion, and Go ends the process), `HandshakeRead`, `HandshakeOk`, `HandshakeFail`. Of the cache it keeps one flag,
`locked`: `LeaveLocked` is a call of another connection that returned without its Unlock (Cache 46), after which the
three certificate actions are blocked. **Socks5** adds `Fill` (the network hands the `bufio.Reader` all or part of what
was sent) and one action per field of the handshake. Both replace the relay's first state by the setup and use its
actions unchanged otherwise.

**WsConn** has three parties per connection. The writer: `WriteMessage`, `FlushLock`, `Flush`, `FlushRefused` (a sticky
error), `FlushBroken`, `AbortMessage`. The reader: `ReadData`, `ReadLastData` (the last bytes of a frame that come with
io.EOF, Conn 1026-1032), `ReadPong`, `ReadPing`, `ReadClose`, `ReadObjectionable`, `ReadEnd`; an answer it owes is a
`WriteControl` of its own. Control frames: `WriteControl`, `ControlLock`, `ControlTimeout`, `ControlRefused`,
`ControlBroken`, `ControlWrite`. Frames are atomic on the wire because the token is held for each.

**WsRelay** puts two such connections between two endpoints that follow no rules, with the two goroutines of
`handleWsRequest` and its channel; `CloseTarget` and `CloseBrowser` are what follows its wait. A failed write is
reported but does not end the loop (lines 403-405, 427-429), a failed read does both. **HttpProxy** is everything
before that session: one action per step of the handlers, over every kind of request and target. `ask` is what a client
does: what it sends and how its tunnel begins (a TLS hello, a part of one, something else, nothing), whether it
finishes its body (`ends`) and takes its answer (`takes`), and what the parser for handshakes in the clear makes of its
lines (`clear`). `target` is how the target behaves (it answers, breaks off in the body, stalls in it, refuses, accepts
and is silent, does not even take a body) and how it delimits and encodes its response. `late` is the deadline of 60
seconds in a tunnel: `Deliver` is the write of an answer that it may cut or precede, `ReadBody` and `CutBody` the read
of the client's body, whose error is dropped. `Content` and `WriteResponse` are `ReadResponseBody`, whose error is
dropped too, and `Response.Write`, which goes by the length the response came with. `locked`, `LeaveLocked` and
`CertificateRace` are as in TcpProxy.

**WsReader** takes the other cut through `Conn`: the stream is units (heads, length fields, keys, bytes), and
`AdvanceFrame` / `AdvanceFails` are `advanceFrame` with every check in its order, `NextReader`, `Read`, `ReadBytes`,
`ReadCut`, `ReadEnd` the calls an application makes. `KeyPlaces` is `maskBytes`: which byte of the key each byte meets,
for any alignment of the buffer. `MaxInt` is the largest length, behind which sums wrap as int64 does.

**HeaderTokens** has the parsers of `Util.go` as recursive functions over lexemes, each reading on where the last one
stopped, and beside them the grammar, which cuts a line at its commas, an extension at its semicolons and a parameter
at its `=` and asks of each piece whether it is whole. **WsHandshake** follows one handshake: `Classify` (what the HTTP
side makes of the request: over TLS what `http.ReadRequest` returns; in the clear what one read took in, `Reads`, of
which the lines are split at ": " by hand, `UpToColon`, and the last of each header stays, `Kept`), `Ignore`, `Refuse`,
`Break` and `Accept` (`Upgrade`), `RemoveWsHeader`, then `Dial` as `DialDuplicate`, `NetDial`, `Write`, `ReadResponse`,
`CheckBad`, `Slurp`, `CheckCompression`, `Establish`, each with the deferred close when it fails. `TargetAnswers` is
the target, which may use this package too, in which case it runs the same `Refusal` and `Switching`.

**ProxyServer** has `Start` and `Stop`, `Accept`, `AcceptFail`, `Retry`, `Spawn` per acceptor and, per connection,
`ConnectEvent`, the peek (`Dispatch`, `PeekFail`), the handler as one state that may dial, end or panic, `CloseEvent`
and `Close`. **RootCertificate** has `Start`, `Read` or `Generate`, then `Open`, `Write` and `WriteFail` for each file in
`Order`, `Parse`, and what requests do with `Cert`; `Kill` may come between any two of them, `Remove` while the process
is down.

In every module, definitions marked `Mutant` are not part of the specification: each is a plausible bug, named in
`PROJECT.json` beside the property that must notice it.

## 3. Runs

| Run | Module, cfg | What it asks |
|---|---|---|
| `cert_cache` | MCCertCache | three callers, two hosts, four names: `TypeOK`, `SingleFlight`, `CertMatchesHost`, `Agreement` (all calls for a host end alike), `NilOnlyAfterFailure`, `CrashNeedsTwoHosts`; `EveryCallReturns` unless the process stopped or the mutex was left locked, and callers that only wait for an entry even then |
| `relay_intercept` | MCRelay, `_Intercept` | a handler that drops, adds or fails: what arrives is still in order and not repeated (`Increasing`), and once `Handle` moves on both goroutines end (`NoGoroutineLeft`) |
| `tcp_proxy` | MCTcpProxy | peek, dispatch, setup and relay together: `TcpImplementsPipe` (refinement of `Pipe`), `SetupEnds` (in the relay, or with nothing left open, but for the waits and the deaths it names), `EventuallyDelivered`, `ErrorCloses` |
| `socks5` | MCSocks5 | nine requests, good and bad, whole or in pieces, patient or eager clients: `HandshakeTakesTheRequest`, `RepliesInOrder`, `NoDataBeforeSuccess`, `S5ImplementsPipe`, `RequestDecided`, `StreamEndCloses` |
| `ws_link` | MCWsLink | two users of `Conn` back to back, room for one frame each way: `MessageIntegrity`, `NoProtocolError`, `CloseEndsBoth`, `WriteReturns` |
| `ws_reader` | MCWsReader | streams of good and bad frames cut anywhere, read in pieces: `DeliveredIsSent`, `EndMeansWhole`, `LimitHolds` |
| `ws_handshake` | MCWsHandshake | requests with one or two headers out of the ordinary, in one read or in pieces, targets of every kind: `ProperIsServed`, `DialLeavesNothing`, `NegotiationAgrees` |
| `ws_relay` | MCWsRelay | a session with fragments, pings, closes, broken rules, failing handlers: `OnlyWholeMessages`, `NothingAfterClose` (a close frame is the last an endpoint gets), `EndOfEitherCloses`, `GoroutinesEnd` |
| `http_proxy` | MCHttpProxy | 122 requests × 24 targets, the cache's mutex left locked at any time: `AnswersMatch`, `OnlySparesLeft`, `HandleMovesOn` |
| `proxy_server` | MCProxyServer | three connections, two acceptors, two descriptors: `HandledOnce`, `OnlyFullServerStarves` |
| `root_certificate` | MCRootCertificate | runs of the process with kills, failed writes and removed files: `KillsAreHarmless`, `RootIsStable` |

One run ends in a counterexample. It checks a comment the code does not live up to:

| Run | Sentence | What the code does |
|---|---|---|
| `socks5_port` | `ProxySocks5.go:171`: big-endian port | one byte of the port has arrived: the other is taken as zero (173) |

Several properties hold because they name what the code does instead of what one might expect of it. These exceptions
are the results a maintainer should look at first:

- `ErrorCloses`: after both endpoints of a TCP session have closed in order, both loops have ended and `Handle` waits
  for ever, so the close event (`Main.go:55`) does not come (ProxyTcp 104).
- `TcpImplementsPipe`: only from the first byte behind the peek on; the peeked ones are lost (ProxyServer 187).
- A handler that changes the length of data it passes on ends the session (ProxyTcp 98); `Increasing` and
  `NoGoroutineLeft` hold all the same.
- `SetupEnds`, `HandleMovesOn`: once one connection has asked for a name that does not split, every later TCP session and
  tunnel waits for ever for its certificate, since the mutex stays locked (Cache 46); before, the cache's unlocked read
  may end the process (61).
- `AnswersMatch`: an edited or decompressed response may be cut (ProxyHttp 119), and so is one whose target breaks off
  (117, 153: the error is dropped, and without a length the client takes what came for all of it), or that the 60 seconds
  of a tunnel (267) interrupt; a refused WebSocket handshake is answered into a recorder nobody reads (ProxyHttp 342),
  although `Websocket/Server.go:120` says it is answered.
- `OnlySparesLeft`: of a response to a range request that is labelled gzip and is not, the body is neither read to its
  end nor closed (148), so the connection to the target stays.
- `HandleMovesOn`: a client that sends its hello behind its CONNECT and the proxy wait for each other (ProxyHttp 254), as
  they do over a hello that is not finished; outright, a client that does not finish its body (99) or take its answer
  keeps the handler; a target that never takes a request's body does so too. A request in the clear panics when its
  first line has no space (309), no header is written exactly `Host` (347), its `Content-Length` is negative or more
  than is there (318), or it comes in two pieces.
- `ProperIsServed`: inside TLS a handshake whose `Upgrade` and `Connection` are both written another way is taken for a
  page request (281); a header whose first line is blank survives `RemoveWsHeader` and fails the dial (487). In the clear
  a line without a space behind its colon is passed over, a value is cut at a ": " within it (301-305), and only what
  one read of crypto/tls took in, hardly more than half a KiB, is looked at (264): `Legible` says what of a
  request is read as it was sent, and nothing is claimed of others.
- `MessageIntegrity`: the last message can be a beginning only, reported without an error, when the stream ends exactly
  with a frame that is not the last of its message and the connection says so together with its last bytes (Conn 1026).
- `NegotiationAgrees`: the browser is told no subprotocol when its line has more than one offer, the same one twice
  included, while the target is offered all (340).
- `EndMeansWhole`: when the connection reports its end together with the last byte of a frame, a message that is not
  complete looks complete (Conn 1026).
- `LimitHolds`: what is left of an abandoned message counts against the next one (Conn 977), and an overflowing length
  is refused without the close frame an over-long one gets (895).
- `OnlyFullServerStarves`: clients that send fewer than three bytes keep descriptors for good.
- `KillsAreHarmless`: a process killed while it writes `cert.crt` leaves a file that stops every later start, in a panic
  (Certificate 55); a key that could not be written, next to an older one, makes every later certificate useless; and
  after a failed `Init` the program serves until the first request for a certificate stops it (`Main.go:16`).

Deadlock is checked in `root_certificate` only: the other models are of one session, or of a fixed set of calls, which
ends; where it may stop is what the liveness properties say.

## 4. Bounds, and why they are enough

- *CertCache*: three callers are a generator, a waiter and a bystander with another host, name or a bad name; two of
  any role occur too. The theorems of section 6 remove the bound for safety, as they do for every
  module with a run: the bounds below matter for liveness, and as the place where an invariant was tried before it was
  proved.
- *Relay, TcpProxy, Socks5*: units are positions in a stream, so any loss, repetition or swap is visible as a wrong
  number. `BufLen = 2` with three units makes a short read followed by a longer rest, which is where a shrunken buffer
  shows; the two directions are asymmetric so that either ends first. Lengths of protocol elements are scaled down
  (peek 2, TLS header 2, an address 2 or 1), what is compared is only which comes first; in `socks5` the peek keeps its
  three bytes against a greeting of three. In `MCTcpProxy.cfg` the ClientHello lies behind the peek.
- *WsConn*: `WriteBuf = 1` makes every client message of two units two frames, so another writer can fall between;
  `NetCap = 1` lets both writers fill the network at once. Two messages of the server and one of the client (two frames)
  with one ping or close each are the least with which both writers are stuck while both readers owe an answer: without
  the timer of `WriteControl` the run finds that deadlock (`WriteReturns`). `ReadBuf = 1` lets every frame with data be
  read past the buffer, which is when its end can come with io.EOF.
- *WsRelay*: three scripts of endpoint frames, one per way a session goes: a fragmented message with a ping inside, two
  messages against a target that closes, and a protocol error. Handlers may drop or fail at each message. `StopCap` is
  the code's 2.
- *WsReader*: 13 streams, each with its masks as they should be and the other way round, cut at every unit. `MaxInt` is
  7, so two frames overflow; keys and words of two bytes and reads of up to five reach the byte
  loop before, the word loop, and the byte loop behind, at either alignment; a limit of four is met exactly, passed by
  one frame, by a sum, and by the rest of an abandoned message.
- *WsHandshake*: every header of the handshake in each of the ways a branch tells apart (missing, empty, blank, folded,
  padded, in a list, malformed, in two lines), alone and together with another `Upgrade`, offer or extension; in the
  clear also a colon within a value, with and without a space behind it, each header with a second line that has no
  space behind its colon, and reads that end at any line or within one; two frames behind the target's response.
- *ProxyServer*: two acceptors can hold one connection each and fail at once; with two descriptors one session with a
  target, or two silent clients, fill the server while the third waits.
- *RootCertificate*: three generations and three kills: a generation can be killed, repeated, served, lost and repeated.
  Each file is removed at most once.
- *HttpProxy*: no bound but the one request per connection that the code has; headers and bodies are reduced to what
  the handlers branch on, and the combinations that no branch tells apart are left out of `MCAsk`; targets are all of
  `TargetType`. What is taken for granted of the environment: a target answers a request only when it has it whole, and
  with 101 only an upgrade; handlers of the user return; an answer without a body fits a socket's buffer, so that only
  `Deliver` waits for the client; and behind a request in the clear nothing is in the same read that looks like a header.

## 5. Fairness, and why the code justifies it

Each goroutine of the proxy is weakly fair: the Go scheduler runs what can run, and system calls on ready connections
return. Endpoints, users and applications are not fair: they may stop at any time, except that endpoints of an open
connection take what is written to them (a receiver that never reads would stop TCP itself), and an application of
`WsLink` reads until an error, as `Conn`'s documentation asks. Dials, lookups and certificate generation end, well or
badly. The strong fairness on `FlushLock` says that a goroutine that waits for the token `mu`, a channel, gets it if it
is given back again and again: Go's channels queue their receivers in order. Timers pass when they are waited for
(`ControlTimeout`, HTTP timeouts). Where the code has no timeout (`hello`, a test dial over TLS, the dial of a ws
target, the peek, a body and an answer outside a tunnel, the cache's mutex) the action is not enabled and the
properties name the wait. In `ProxyServer` an acceptor is weakly fair and its `Accept` strongly: errors of Accept pass,
but may come any number of times before. `WsReader`, `WsHandshake` and `RootCertificate` have safety properties only
and state no fairness.

## 6. What is proved

Every theorem holds for every value of the constants its module's assumptions allow, and those allow all values the code
can have: any set of callers, connections or requests, any length of a stream or a message, any size of a buffer, a
channel or the network. The assumptions give the constants their types and say which values are told apart; none
restricts a behaviour. What more a theorem supposes is said with it. TLC found each inductive invariant to hold
with the constants of its module's run, quantifiers over Nat bounded.

### The certificate cache

From the one assumption `CacheAssumption` (`NoHost` and `NoCaller` are no host and no caller, `SplitHost` is a function
to hosts or `NoHost`), `CertificateProofs` proves:

| Theorem | States |
|---|---|
| `TypeCorrect` | `Spec => []TypeOK` |
| `SingleFlightHolds` | `Spec => []SingleFlight`: one generation per host, by the owner of the entry |
| `CertMatchesHostHolds` | `Spec => []CertMatchesHost`: a certificate is for the host asked for |
| `CrashNeedsTwoHostsHolds` | `Spec => []CrashNeedsTwoHosts`: concurrent map access takes two different hosts |
| `AgreementHolds` | `Spec => []Agreement`: all calls for a host return the same certificate, or none does |
| `NilOnlyAfterFailureHolds` | `Spec => []NilOnlyAfterFailure`: (nil, nil) is returned only behind another call's failed generation |

None is inductive on its own. A second generator could arise if two callers were past the lookup at once, so
`MutexInv` says that the holder is unique from `Lock` to the end of the insertion; then `EntryInv` says that who is
inserting found no entry and that an entry, once there, stays its creator's. `SingleFlight` follows from `EntryInv`
alone: two owners of one host would both be `mapping[host]`. For `CertMatchesHost` one follows a certificate from the
generation to the result: it is for the host of the entry's creator (`CertInv`), the entry is filed under that host
(`FiledInv`), and the pointer a caller keeps across `Unlock` and `Wait` is to an entry of its own host (`HeldInv`).
`CrashNeedsTwoHosts` needs `EntryInv`: a reader of the map owns an entry of its host, so an inserter is at another.
`IInv` is the conjunction; `InitIInv`, `NextIInv` (one step per action, one sub-step per conjunct) and `Invariant`
combine it with PTL.

The last two theorems need more of the entry's life, which `OutcomeInv` adds on top of `IInv`: the WaitGroup's counter
is zero only once the generation is over and has left a certificate or an error (`EntryPhase`), a waiter's entry is the
one in the map (`WaitPhase`), and what a call returned is what that entry still holds (`ResultPhase`), because nobody
writes to it after the generation. Two calls for one host then read the same, final entry; the creator also returns its
error, so only a waiter can return neither.

### The root certificate

`CertificateProofs` also proves, for any number of generated pairs and of kills, without using any assumption:

| Theorem | States |
|---|---|
| `KillsAreHarmlessHolds` | `RootSpec => []KillsAreHarmless`: only a kill while cert.crt is written, or a fault that is named, spoils a later start |
| `RootIsStableHolds` | `RootSpec => []RootIsStable`: the root a client installed is the one of every later run |

Both speak of what happens to a pair long after it was written, so the invariant `RootIInv` follows it. While a pair is
written there is no whole certificate, and when the certificate's turn comes its key is in place (`WritingInv`); hence a
whole certificate has its key beside it unless a write failed or the key was removed (`KeyInv`), and a torn one is being
written or goes back to a fault (`CrtInv`). The pair a start reads is then a certificate with its key and stays the one
on the disk (`UseInv`), and with it what clients installed (`InstalledInv`). `WorldIInv`, `InitStepIInv`, `WriteStepIInv`
and `UseStepIInv` show that each group of actions keeps it.

### The server

`ProxyServerProofs`, from `ServerAssumption`:

| Theorem | States |
|---|---|
| `HandledOnceHolds` | `ServerSpec => []HandledOnce`: a connection is with one acceptor or one handler at a time, and gets its connect and its close event once each, in that order |

The acceptors share the listener's queue, so what has to be excluded is that a connection is in it twice, or in it and in
somebody's hands: `QueueInv` (what is in the queue is in nobody's hands, and in it once) and `HeldInv` (what is
held is in exactly one acceptor's variable, with a witness for every held connection). `EventsInv` says that a
connection's events are a function of how far its goroutine has come (`EventsAt`), whatever the others do. `IdleInv` is
needed for `Start`. One conjunct of the assumption came from the proof: `acceptor` holds a connection or one of "off",
"accept", "error", so no connection may have one of these names.

### The relay and the handlers around it

`RelayProofs`, `TcpProxyProofs` and `Socks5Proofs`, from `RelayAssumption`, `TcpAssumption` and `Socks5Assumption`:

| Theorem | States |
|---|---|
| `IncreasingHolds` | `Spec => []Increasing`: whatever handlers drop, add or refuse, what arrives is in order and not repeated |
| `RelayImplementsPipe` | if `~Intercepts`, `Spec => P!Spec`: the two loops and the endpoints implement `Pipe` |
| `TcpPipe` | if `~Intercepts`, `TcpSpec => TcpImplementsPipe`: so they do behind the peek, the dial and the TLS handshake |
| `HandshakeTakesTheRequestHolds` | `S5Spec => []HandshakeTakesTheRequest`: when messages arrive whole and the client waits for the replies, a handshake that reaches the relay has taken the greeting and the request and nothing else |
| `NoDataBeforeSuccessHolds` | `S5Spec => []NoDataBeforeSuccess`: nothing is relayed before the success reply |
| `RepliesInOrderHolds` | `S5Spec => RepliesInOrder`: the method first, then at most one more, success only with an open target and failure only without |
| `S5Pipe` | if `~Intercepts`, `S5Spec => S5ImplementsPipe` |

`~Intercepts` says that no user's handler changes the data; with one, what arrives is not a prefix of what was sent, and
`Increasing`, which needs no hypothesis, is what is left. The runs of `TcpProxy` and `Socks5` have `Intercepts = FALSE`
too. The refinements are of `Pipe`'s safety part: initial states map to initial states, and every step to a step or a
stutter.

`Increasing` looks at what arrived only, which says nothing of what comes next. `RelayIInv` therefore relates the four
places a unit can be: what is in a Transport's hands is the last of what it has read, and it has read no more than was
sent (`ChunkInv`); all that arrived is older (`ArrivedInv`); and without handlers what arrived is what was read, from the
start and without a gap, as long as the loop runs and the endpoint receives (`PrefixInv`). The condition is not
decoration: what is written to an endpoint that has closed is lost, and the loop may notice only at its next write.
`StartInv` says that loops do not run before `Start`, so that `first`, the place where the relay began, is set once.

The lemmas are about actions and not about `Spec`. `SetupStep` says what a step before the relay may do to its
variables (take from the client's stream, open and close connections, end the session, be ready) and `SetupIInv`,
`SetupPipe`, `NextRelayIInv` and `NextPipe` do the rest; the handlers only show that each of their setup actions is a
`SetupStep`, and need neither an invariant of the relay nor a refinement argument of their own.

For SOCKS5 `S5IInv` adds where the handshake is: which replies were sent up to each step (`AnswerInv`), that a target
is open at the success reply and never together with a failure (`TargetInv`), that a client that waits for replies has
sent whole messages only (`SentInv`), and hence that each step of the handshake starts where the last field ended
(`TakenInv`). The last two are where the property could break: the reads have no length check, so a message that comes
in pieces or ahead of its turn is taken differently, and `HandshakeTakesTheRequest` is about the clients for which it
is not.

### The HTTP proxy

`ProxyServerProofs`, from `HttpAssumption`:

| Theorem | States |
|---|---|
| `AnswersMatchHolds` | `HttpSpec => []AnswersMatch`: for every request and target at most the answers that belong to them, cut or short only for the causes the property names |
| `OnlySparesLeftHolds` | `HttpSpec => []OnlySparesLeft`: of the connections to the target only the spare one that `DialContext` dials and drops outlives the handler, and that of a response labelled gzip that is not |

The replies of a connection name no cause, so `ReplyInv` says of each one, at its place in the sequence, what request
and target it can be for (`Fits`, and for an answer that is cut `CutFits`, which holds once it has because nothing
takes back an edit or a deadline that has passed: `Keeps`); `OpeningInv` says how many there are at each place of
`Handle`, so that no path replies twice, and `WayInv` what the branches taken to a place have established, which is
what the next reply relies on. `LinksInv` gives, for each kind of connection to the target, the only places where it is
open: the deferred closes are right when no path leaves those places otherwise, as the one with a body that does not
decode does.

### Two WebSocket connections back to back

`WebSocketProofs`, from `WsConnAssumption` and `WsLinkAssumption` (two connections, one of them a server's):

| Theorem | States |
|---|---|
| `MessageIntegrityHolds` | `LinkSpec => []MessageIntegrity`: what is read is what was written, message by message, with any control frames between the fragments; only the last message can be a beginning, when the end of the stream is reported with the last bytes of a frame inside it |
| `NoProtocolErrorHolds` | `LinkSpec => []NoProtocolError`: no connection of this package objects to a frame of another |

The first two are proved together, since a reader that fails without cause would lose messages and one that accepts a
wrong frame would corrupt them. The reader sees a message in pieces it did not choose, and frames of three writers. The
invariant `StreamInv` states what ties the two ends: a *place* is a pair (messages passed, fragments passed of the
next), and as long as the reader has not failed there is a sequence of places, one for each gap between frames on their
way (in the network and in the other side's buffer), that begins where the reader is (`ReadsAt`), ends where the writer
is (`WritesAt`), and in which each frame is a control frame that stays in place or the next piece of the message, which
moves on (`Passes`). So every write appends one place and every read drops one (`StreamPut`, `StreamTaken`); crossing
the network only moves a frame between the two parts of the way (`QueueMove`). `NextFrame` says that the frame in front
is none the reader objects to, which gives `NoProtocolError`, and the place in front gives what it has to deliver,
which gives `GotInv` and from it `MessageIntegrity`. All this is said of a reader without an error (`Live`); one with
an error takes no frame any more, and what it may still hand up is, by `HandsUp`, the message it is at, or a beginning
of it when its last frame said that more was to come. That the error is remembered is what keeps a message that was cut
the last one. The pieces are computed by dividing the length by `WriteBuf`; `Cuts` is the arithmetic and `Pieces` says
that they make up the message, the empty one included. `PartyInv` holds the small facts about who may be doing what.

### A WebSocket session of the proxy

`WebSocketProofs`, from `WsConnAssumption` and `WsRelayAssumption`:

| Theorem | States |
|---|---|
| `SessionIInvHolds` | `WsSpec => []SessionIInv`: the inductive invariant, which says what each frame on the wire is part of |
| `OnlyWholeMessagesHolds` | `WsSpec => []OnlyWholeMessages`: whatever the endpoints send and the handlers drop or break, what the proxy puts on the wire to either of them is, but for control frames, whole messages it has read from the other, each once, in order and in one piece, with at most one unfinished message at the end |
| `NothingAfterCloseHolds` | `WsSpec => []NothingAfterClose`: a close frame is the last frame an endpoint is sent, received or still on its way |

Here the endpoints follow no rules, so there is no stream to compare with as in `WsLink`: what is compared is what
`ReadMessage` returned (`taken`) with what was written (`Line`, in the network or received). `WholeInv` gives to every
frame that ends a message the message it ends and the frame at which that one begins, between which the payload is found
again piece by piece (`Carries`), in the order of reading. By itself it does not survive the next write, for two reasons.
The next final frame must end a *later* message than all before: hence `of[i] < Len(read)` while a message is in hand,
and `PumpInv`, by which a message is in hand only while the goroutine that read it is at its write. And the frame must
continue the right message: `BegunInv` says that the first k frames of the message in hand, and no others behind the last
end, have been written, the rest being what the writer still has (`CutInv` is what cuts a message into frames), and
`HandInv` that a writer who is idle without an error has left nothing open. The sticky error is what this hangs on: a
message that was given up halfway stays open, and only because every later write fails does nothing else get appended to
it. `MarkInv`, that exactly the frames which continue a message are marked so, needs the same. `SessionIInv` also holds
on the run `ws_relay`.

`NothingAfterClose` speaks of the frames on the wire, and three parties write them with only a token between them. Its
invariant `CloseInv` ties them to the sticky error: where there is a close frame on the way it is the last one *and* the
connection has a write error, and none of the frames a writer still holds is one. It is `WriteControl` that has to
establish this (`SealControlling`), by setting `ErrCloseSent` before it gives the token back; the mutant that forgets it
is found by the run, with a writer in the middle of a message.

### The handshake with the target

`WsHandshakeProofs`, from `HandshakeAssumption`:

| Theorem | States |
|---|---|
| `DialLeavesNothingHolds` | `HandshakeSpec => []DialLeavesNothing`: a failed dial leaves no connection but the spare one; a successful one leaves no deadline, and every frame behind the response is still to be read, in order |

`LinksInv` names the connections and deadlines at each place of the two handshakes. `BehindInv` follows the target's
response from the request to the reader; when it has been read, what the reader took in with it and what is still in the
network make up what the target sent behind it. `ReadAhead` is the sequence argument: wherever the read ends, nothing is
lost between the two.

### Who is served

`WsHandshakeProofs`, from the same assumption:

| Theorem | States |
|---|---|
| `ProperIsServedHolds` | `HandshakeSpec => []ProperIsServed`: of the plain requests, if they came in TLS or are legible in the clear, exactly the handshakes as the grammar has them are answered with 101, what is taken for a page request inside TLS aside, and no header of theirs is left in the way of the dial |

The property compares what `Upgrade` decides with the grammar of the headers, so the argument is about
`tokenListContainsValue` first. Its loop is the recursive function `from` of `LineContains`. That the recursion defines
a function at all is `ContainsExists`, an instance of `Forward`: a recursion over the places of a line that only looks
ahead has a solution. `Forward` follows from `Recursion`, by the least stage at which a partial solution is missing
(`LeastNatural`; the library's theorems about recursive functions take operators as parameters, which the provers
cannot instantiate). What the loop computes is `Says`: there is a beginning of the line that is elements only (`Elem`:
a token, spaces around it, a comma or the end behind), the last of which is the value. `ContainsIsSays` shows it of the
parser and `GrammarIsSays` of the pieces between commas, so the two agree (`TokenListsParsed`) on lines of every
length, well formed or not. `TrimSays` adds that the spaces around a line make no difference, which is needed because a
line inside TLS has been trimmed and one in the clear has not.

`ClassifyIs` says what `Classify` makes of a request: every line trimmed in TLS, and in the clear the last line of each
header as it was sent, provided it is legible (`KeptIs`: the one read has every line, each splits behind its header's
name and nowhere else). `ServedInv` is the inductive invariant: until the headers are removed the request is `Seen`,
the one line of each header trimmed or not; what was decided is what the checks say of it; and from then on none of the
Dialer's own headers is left, by which it is never a duplicate. Its last part was false at first, and so was the
property: a line of spaces is not empty where it was sent, is empty once trimmed, and is then passed over by
`RemoveWsHeader`. The runs have such lines since, and the property names them.

### What the two agree on

`WsHandshakeProofs`, from the same assumption:

| Theorem | States |
|---|---|
| `NegotiationAgreesHolds` | `HandshakeSpec => []NegotiationAgrees`: if the handshake came in TLS or is legible in the clear, the browser is told only a subprotocol it offered and the target has the same one but for the cases the property names; and the proxy compresses towards the target exactly if the response says so by the grammar, which a target on this package never does |

What `HandshakeAssumption` says of a response is its type and one fact of the lexer: an unclosed quoted string takes in
the rest of its line, so the lexeme for one is the last of its line (`Lexed`). Without it the theorem is false: a parser
that stops at the open string and a grammar that goes on behind it see different extensions.

Compression is decided by `parseExtensions`, whose recursion over the parameters of an extension lies inside one over
the extensions of a line, inside one over the lines of the header. `ParamsExists`, `ExtsExists` and `LinesExist` say that
each defines a function. The grammar is stated on pieces of pieces of a line, the parser on places in it, so the lemmas
up to `ExtensionBetween` restate the grammar by places: `Par(s, a, k, b)` says that between the places `a` and `b` there
is a parameter whose name is at `k`, and `ParameterBetween` that this is what the grammar says of the piece there. From
the last place back to the first, `ParamsRight` then shows that the inner loop takes all parameters of an extension or
refuses it, `ElementRight` that it names the extension and its keys as the grammar does, and `ExtsRight` that the outer
loop reads every extension up to the first that is malformed. Together they are `ExtensionsParsed`: on every header, the
parser finds exactly the extensions of the grammar.

`NegInv` is the inductive invariant. `HeardInv` keeps what the browser was told and what the target was asked tied to
the offers as they came: trimmed inside TLS, only the last line in the clear. `AnswerInv` keeps what was agreed tied to
the response: the request had no extensions, so a target on this package agrees to none when it answers 101, and what
the Dialer took from a response is what it parses from it. The property alone is not inductive because it speaks only
of the end, long after the request was rewritten. The rest is about one line of offers: the server chooses the whole
line if that is one of its own offers (`OwnOf`), which is then one that came from the browser (`OwnIsOffered`) and the
only one a target can choose (`ChoiceIsOwn`).

### The reader of one WebSocket connection

`WsReaderProofs`, from `WsReaderAssumption`:

| Theorem | States |
|---|---|
| `ReaderIInvHolds` | the inductive invariant `ReaderIInv` |
| `DeliveredIsSentHolds` | `ReaderSpec => []DeliveredIsSent`: every byte an application gets is the one sent at that place, unmasked with the right byte of the key, however the stream is cut into reads and the reads into words |
| `EndMeansWholeHolds` | `ReaderSpec => []EndMeansWhole`: io.EOF means that the message was complete, but for the case the property names |
| `LimitHoldsAlways` | `ReaderSpec => []LimitHolds`: no message passes the limit, and none is refused for it without need |

The three are about a stream that the code sees only through a few integers, so the invariant says what these mean in
terms of the stream: `StreamInv` and `CurrentInv` put the reader at a place in it, with `readRemaining` what is left of
the frame there; `LegalInv` says which frames it has accepted, `MaskInv` that the place in the key is the place in the
frame modulo the key's length, `OrderInv` and `BytesInv` that what was delivered are the bytes up to that place,
`DoneInv` what the end of a message says about the frames passed, and `LengthInv` what `readLength` counts, which is
where the wrap-around matters: a sum that would pass `MaxInt` is refused before it is stored. The frame in which a byte
lies, and the first frame of a message, are found as least elements of sets of naturals (one lemma, by induction over
Nat), because the stream has no bound.

Proving these corrected the models in one respect. The checks of `advanceFrame` and of `Upgrade` were a `CASE` with
overlapping guards, of which TLC takes the first but whose value TLA+ leaves open; they are `IF ... ELSE IF` now, in the
order of the code.

### Only model-checked

Liveness, in every module: fairness and ENABLED are beyond the prover. Every safety invariant of the runs is a theorem,
and so is every action property and the refinement of `Pipe`: what the runs check and no theorem states is liveness.

## 7. Plan

Done: all modules of section 2 with their runs, and a proof of every safety invariant that a run checks. What is left
of the properties is liveness, which needs a prover with fairness.

What could still be modelled: prepared messages and `NextWriter` used piecemeal, were the program to use them, and the
address `DialContext` chooses.

## 8. Not modelled, and why

Cryptography (what is in a key or a certificate); compression (the proxy never negotiates it), prepared messages,
`Join` and the JSON helpers (not called by the proxy); the outgoing-proxy dialers (a bundled copy of
golang.org/x/net/proxy, `Dialer.Proxy` is never set); logging, the Windows registry and certificate store, port
probing, flags (I/O). Within the modelled components: which headers of a page request are removed or rewritten
(`RemoveHeader` among them), the choice of an address by `DialContext` (what a failed lookup dials, ProxyHttp 448) and
the upstream proxy, the client's view of keep-alive after the one response (131), Nagle and the local address,
deadlines that an application of `Conn` may set, an application that goes on with a reader `NextReader` has superseded
(it gets io.EOF, Conn 1011-1013; by Conn 962 there is at most one open reader, and the program uses `ReadMessage`
only), two processes that share a directory, and the contents of messages. Whether a handshake in the clear names its
host, and whether its first line and its length make sense, is part of `HttpProxy` (`clear`) and not of `WsHandshake`.
