----------------------------- MODULE ProxyServer ------------------------------
(***************************************************************************)
(* The server around the protocol handlers: Start, Stop, the acceptors of  *)
(* MultiListen and one goroutine per connection in handle.  What a handler *)
(* does is in modules TcpProxy, Socks5 and HttpProxy; here it may take a   *)
(* second descriptor for its target, end, or, for two of them, panic.      *)
(*                                                                         *)
(* The process has FdLimit descriptors for connections.  Accept fails when *)
(* none is left, or when the operating system reports an error of the      *)
(* network, and leaves the queue of the listener as it is.                 *)
(***************************************************************************)
EXTENDS Naturals, Sequences, FiniteSetsExt

CONSTANTS
  Conn,      \* the connections clients open
  Acceptor,  \* the goroutines of MultiListen
  Handler,   \* the protocols clients may speak
  FdLimit    \* descriptors the process may use for connections

ASSUME ServerAssumption ==
  /\ Handler \subseteq {"http", "socks5", "tcp"}
  /\ FdLimit \in Nat \ {0} /\ Acceptor # {}
  /\ Conn \cap {"off", "accept", "error"} = {}  \* what else acceptor may be

VARIABLES
  starter,   \* the caller of Start: "idle", "serving" (in select{}), "failed"
  stopped,   \* Stop has been called
  acceptor,  \* "off", "accept", "error", or the connection it holds
  backlog,   \* the listener's queue
  state,     \* where a connection, and its goroutine, is
  dialled,   \* the connections whose handler holds one to the target
  events,    \* the events the application has seen, per connection
  panicked   \* the process panicked

serverVars == <<starter, stopped, acceptor, backlog, state, dialled, events, panicked>>

ServerInit ==
  /\ starter = "idle" /\ stopped = FALSE
  /\ acceptor = [a \in Acceptor |-> "off"] /\ backlog = <<>>
  /\ state = [c \in Conn |-> "new"] /\ dialled = {}
  /\ events = [c \in Conn |-> <<>>] /\ panicked = FALSE

Move(c, l) == state' = [state EXCEPT ![c] = l]
Fire(c, e) == events' = [events EXCEPT ![c] = Append(@, e)]
Holding == {"held", "begin", "peek", "event", "close"} \cup Handler
Fds == Quantify(Conn, LAMBDA c : state[c] \in Holding) + Cardinality(dialled)

-----------------------------------------------------------------------------
(* The clients and the application. *)

Connect(c) ==
  /\ state[c] = "new" /\ starter = "serving"
  /\ Move(c, "queued") /\ backlog' = Append(backlog, c)
  /\ UNCHANGED <<starter, stopped, acceptor, dialled, events, panicked>>

(* ListenTCP fails when the port is taken; otherwise MultiListen starts    *)
(* the acceptors and Start blocks for good.                                *)
Start ==
  /\ starter = "idle"
  /\ \/ starter' = "failed" /\ UNCHANGED acceptor
     \/ starter' = "serving" /\ acceptor' = [a \in Acceptor |-> "accept"]
  /\ UNCHANGED <<stopped, backlog, state, dialled, events, panicked>>

(* Mutant: Stop makes every further Accept fail, and the acceptors end. *)
StopEndsAcceptors ==
  /\ ~stopped /\ stopped' = TRUE
  /\ acceptor' = [a \in Acceptor |->
                    IF acceptor[a] \in Conn THEN acceptor[a] ELSE "off"]
  /\ UNCHANGED <<starter, backlog, state, dialled, events, panicked>>

(* Stop resets the system's proxy setting and leaves the listener alone. *)
Stop ==
  /\ ~stopped /\ stopped' = TRUE
  /\ UNCHANGED <<starter, acceptor, backlog, state, dialled, events, panicked>>

-----------------------------------------------------------------------------
(* MultiListen. *)

At(a, l) == acceptor' = [acceptor EXCEPT ![a] = l]
OnlyAcceptor == UNCHANGED <<starter, stopped, dialled, events, panicked>>

Accept(a) ==
  /\ acceptor[a] = "accept" /\ backlog # <<>> /\ Fds < FdLimit
  /\ At(a, Head(backlog)) /\ backlog' = Tail(backlog)
  /\ Move(Head(backlog), "held")
  /\ OnlyAcceptor

(* Accept returns an error: out of descriptors, or one of the network. *)
AcceptFail(a) ==
  /\ acceptor[a] = "accept" /\ backlog # <<>>
  /\ At(a, "error") /\ UNCHANGED <<backlog, state>> /\ OnlyAcceptor

(* The loop goes on, after a timeout with a pause, otherwise at once. *)
Retry(a) ==
  /\ acceptor[a] = "error"
  /\ At(a, "accept") /\ UNCHANGED <<backlog, state>> /\ OnlyAcceptor

(* go i.handle(conn) *)
Spawn(a) ==
  /\ acceptor[a] \in Conn
  /\ Move(acceptor[a], "begin") /\ At(a, "accept")
  /\ UNCHANGED backlog /\ OnlyAcceptor

Accepting(a) == Accept(a) \/ AcceptFail(a) \/ Retry(a) \/ Spawn(a)

-----------------------------------------------------------------------------
(* handle. *)

OnlyHandle == UNCHANGED <<starter, stopped, acceptor, backlog>>

ConnectEvent(c) ==
  /\ state[c] = "begin"
  /\ Fire(c, "connect") /\ Move(c, "peek")
  /\ OnlyHandle /\ UNCHANGED <<dialled, panicked>>

(* Peek waits, without a deadline, for three bytes of the client; the      *)
(* first selects the handler.                                              *)
Dispatch(c) ==
  /\ state[c] = "peek" /\ \E h \in Handler : Move(c, h)
  /\ OnlyHandle /\ UNCHANGED <<dialled, events, panicked>>

(* Mutant: a connection that sends too little is closed without an event. *)
PeekFailNoEvent(c) ==
  /\ state[c] = "peek" /\ Move(c, "close")
  /\ OnlyHandle /\ UNCHANGED <<dialled, events, panicked>>

(* The client closes before it has sent three. *)
PeekFail(c) ==
  /\ state[c] = "peek" /\ Move(c, "event")
  /\ OnlyHandle /\ UNCHANGED <<dialled, events, panicked>>

(* process.Handle: a connection to the target, the end of the session, or  *)
(* a panic (TcpProxy: a dial that fails; HttpProxy: a handshake in the     *)
(* clear that cannot be taken apart), which runs the deferred function and *)
(* takes the process with it.                                              *)
Dial(c) ==
  /\ state[c] \in Handler /\ c \notin dialled /\ Fds < FdLimit
  /\ dialled' = dialled \cup {c}
  /\ OnlyHandle /\ UNCHANGED <<state, events, panicked>>

SessionEnd(c) ==
  /\ state[c] \in Handler
  /\ dialled' = dialled \ {c} /\ Move(c, "event")
  /\ OnlyHandle /\ UNCHANGED <<events, panicked>>

Panic(c) ==
  /\ state[c] \in Handler \ {"socks5"} /\ c \notin dialled
  /\ Fire(c, "close") /\ Move(c, "closed") /\ panicked' = TRUE
  /\ OnlyHandle /\ UNCHANGED dialled

(* The deferred function: the close event while the connection is open.    *)
CloseEvent(c) ==
  /\ state[c] = "event"
  /\ Fire(c, "close") /\ Move(c, "close")
  /\ OnlyHandle /\ UNCHANGED <<dialled, panicked>>

Close(c) ==
  /\ state[c] = "close" /\ Move(c, "closed")
  /\ OnlyHandle /\ UNCHANGED <<dialled, events, panicked>>

Handling(c) == ConnectEvent(c) \/ CloseEvent(c) \/ Close(c)
Session(c) == Dispatch(c) \/ PeekFail(c) \/ Dial(c) \/ SessionEnd(c) \/ Panic(c)

ServerNext ==
  /\ ~panicked
  /\ \/ Start \/ Stop
     \/ \E a \in Acceptor : Accepting(a)
     \/ \E c \in Conn : Connect(c) \/ Handling(c) \/ Session(c)

ServerSpec == ServerInit /\ [][ServerNext]_serverVars

(* Goroutines run; Accept does not fail for ever while there is something  *)
(* to accept and a descriptor for it.  A client need not send anything,    *)
(* nor a session end.                                                      *)
ServerFairSpec ==
  /\ ServerSpec
  /\ \A a \in Acceptor : WF_serverVars(~panicked /\ Accepting(a))
                         /\ SF_serverVars(~panicked /\ Accept(a))
  /\ \A c \in Conn : WF_serverVars(~panicked /\ Handling(c))

-----------------------------------------------------------------------------
(* However the five acceptors and the handlers interleave and whatever     *)
(* Accept reports, a connection is in the hands of exactly one goroutine,  *)
(* and its events are the connect event and then the close event, once     *)
(* each, also when its handler panics; it is closed after the second.      *)
HandledOnce ==
  \A c \in Conn :
    /\ Quantify(Acceptor, LAMBDA a : acceptor[a] = c) =
         IF state[c] = "held" THEN 1 ELSE 0
    /\ events[c] = CASE state[c] \in {"new", "queued", "held", "begin"} -> <<>>
                     [] state[c] \in {"close", "closed"} -> <<"connect", "close">>
                     [] OTHER -> <<"connect">>

(* A connection is left waiting for good only when every descriptor is in  *)
(* the hands of sessions that do not end and of clients that send fewer    *)
(* than three bytes, for whom no deadline is set; errors of Accept and a   *)
(* call of Stop do not end the service.                                    *)
OnlyFullServerStarves ==
  \A c \in Conn :
    <>[](state[c] = "queued" /\ ~panicked) =>
      <>[](Fds = FdLimit /\ \A d \in Conn :
             state[d] \in Holding => state[d] \in {"peek"} \cup Handler)
=============================================================================
