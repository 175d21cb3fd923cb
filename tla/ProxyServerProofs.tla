-------------------------- MODULE ProxyServerProofs --------------------------
(***************************************************************************)
(* What ProxyServer guarantees for every number of connections and of      *)
(* acceptors, and every limit of descriptors; and what the handler that    *)
(* most of them get, ProxyHttp.Handle, does for every set of requests and  *)
(* of targets: the client gets the one answer that belongs to its request, *)
(* and no connection to the target outlives the handler but for the spare  *)
(* one and that of a response that could not be decoded.                   *)
(***************************************************************************)
EXTENDS ProxyServer, HttpProxy, FiniteSetTheorems, SequenceTheorems, TLAPS

(* Where a connection may be.                                              *)
Places == {"new", "queued", "closed"} \cup Holding

(* The types.                                                              *)
ServerTypeOK ==
  /\ acceptor \in [Acceptor -> {"off", "accept", "error"} \cup Conn]
  /\ backlog \in Seq(Conn)
  /\ state \in [Conn -> Places]
  /\ events \in [Conn -> Seq({"connect", "close"})]

(* Before Start no acceptor runs. *)
IdleInv == starter = "idle" => \A a \in Acceptor : acceptor[a] = "off"

(* The listener's queue holds connections that nobody has accepted, each   *)
(* once.                                                                   *)
QueueInv ==
  /\ \A i \in 1..Len(backlog) : state[backlog[i]] = "queued"
  /\ \A i, j \in 1..Len(backlog) : backlog[i] = backlog[j] => i = j

(* Two acceptors do not hold the same connection, and the connections that *)
(* are held are those in an acceptor's hands.                              *)
HeldInv ==
  /\ \A a, b \in Acceptor : acceptor[a] \in Conn /\ acceptor[a] = acceptor[b] => a = b
  /\ \A a \in Acceptor : acceptor[a] \in Conn => state[acceptor[a]] = "held"
  /\ \A c \in Conn : state[c] = "held" => \E a \in Acceptor : acceptor[a] = c

(* The events of a connection that is at l.                                *)
EventsAt(l) ==
  CASE l \in {"new", "queued", "held", "begin"} -> <<>>
    [] l \in {"close", "closed"} -> <<"connect", "close">>
    [] OTHER -> <<"connect">>

(* The events of a connection tell how far its goroutine is. *)
EventsInv == \A c \in Conn : events[c] = EventsAt(state[c])

(* The inductive invariant of the server.                                  *)
ServerIInv == ServerTypeOK /\ IdleInv /\ QueueInv /\ HeldInv /\ EventsInv

-----------------------------------------------------------------------------
(* The places of a connection are told apart, whatever the handlers are.   *)
LEMMA PlacesDiffer ==
  /\ Handler \cap {"new", "queued", "held", "begin", "peek", "event", "close", "closed"} = {}
  /\ \A h \in Handler : h \in Places /\ EventsAt(h) = <<"connect">>
BY ServerAssumption DEF Places, Holding, EventsAt

(* The events of the two places before and after an event, and that firing *)
(* one leads from the first to the second.                                 *)
LEMMA EventsSteps ==
  /\ EventsAt("new") = <<>> /\ EventsAt("queued") = <<>>
  /\ EventsAt("held") = <<>> /\ EventsAt("begin") = <<>>
  /\ EventsAt("peek") = <<"connect">> /\ EventsAt("event") = <<"connect">>
  /\ EventsAt("close") = <<"connect", "close">>
  /\ EventsAt("closed") = <<"connect", "close">>
  /\ Append(<<>>, "connect") = <<"connect">>
  /\ Append(<<"connect">>, "close") = <<"connect", "close">>
  /\ \A l : EventsAt(l) \in Seq({"connect", "close"})
<1>1. /\ EventsAt("new") = <<>> /\ EventsAt("queued") = <<>>
      /\ EventsAt("held") = <<>> /\ EventsAt("begin") = <<>>
  BY DEF EventsAt
<1>2. EventsAt("peek") = <<"connect">> /\ EventsAt("event") = <<"connect">>
  BY DEF EventsAt
<1>3. /\ EventsAt("close") = <<"connect", "close">>
      /\ EventsAt("closed") = <<"connect", "close">>
  BY DEF EventsAt
<1>4. /\ Append(<<>>, "connect") = <<"connect">>
      /\ Append(<<"connect">>, "close") = <<"connect", "close">>
  <2>1. Append(<<>>, "connect") = <<"connect">>
    BY AppendProperties
  <2>2. Append(<<"connect">>, "close") = <<"connect", "close">>
    <3> DEFINE s == Append(<<"connect">>, "close")
               t == <<"connect", "close">>
    <3>1. s \in Seq({"connect", "close"}) /\ Len(s) = 2 /\ s[1] = "connect" /\ s[2] = "close"
      BY AppendProperties
    <3>2. t \in Seq({"connect", "close"}) /\ Len(t) = 2 /\ t[1] = "connect" /\ t[2] = "close"
      OBVIOUS
    <3> HIDE DEF s, t
    <3>3. \A i \in 1..Len(s) : s[i] = t[i]
      BY <3>1, <3>2
    <3>4. s = t
      BY <3>1, <3>2, <3>3, SeqEqual
    <3> QED
      BY <3>4 DEF s, t
  <2> QED
    BY <2>1, <2>2
<1>5. \A l : EventsAt(l) \in {<<>>, <<"connect">>, <<"connect", "close">>}
  BY DEF EventsAt
<1>6. {<<>>, <<"connect">>, <<"connect", "close">>} \subseteq Seq({"connect", "close"})
  OBVIOUS
<1> QED
  BY <1>1, <1>2, <1>3, <1>4, <1>5, <1>6

(* The initial states satisfy the inductive invariant. *)
LEMMA InitServerIInv == ServerInit => ServerIInv
<1> SUFFICES ASSUME ServerInit PROVE ServerIInv
  OBVIOUS
<1>1. ServerTypeOK /\ IdleInv /\ QueueInv
  BY DEF ServerInit, ServerTypeOK, IdleInv, QueueInv, Places
<1>2. HeldInv
  BY ServerAssumption DEF ServerInit, HeldInv
<1>3. EventsInv
  BY EventsSteps DEF ServerInit, EventsInv
<1> QED
  BY <1>1, <1>2, <1>3 DEF ServerIInv

(* Start, and a client that connects, keep the invariant. *)
LEMMA ClientIInv ==
  ASSUME ServerIInv, Start \/ Stop \/ \E c \in Conn : Connect(c)
  PROVE  ServerIInv'
<1> USE DEF ServerIInv
<1>1. CASE Start
  <2>1. /\ starter = "idle" /\ starter' # "idle"
        /\ acceptor' \in {acceptor, [a \in Acceptor |-> "accept"]}
        /\ UNCHANGED <<backlog, state, events>>
    BY <1>1 DEF Start
  <2>2. \A a \in Acceptor : acceptor[a] \notin Conn /\ acceptor'[a] \notin Conn
    BY <2>1, ServerAssumption DEF IdleInv
  <2>3. ServerTypeOK' /\ IdleInv'
    BY <2>1 DEF ServerTypeOK, IdleInv
  <2>4. QueueInv' /\ EventsInv'
    BY <2>1 DEF QueueInv, EventsInv
  <2>5. HeldInv'
    BY <2>1, <2>2 DEF HeldInv
  <2> QED
    BY <2>3, <2>4, <2>5
<1>2. CASE Stop
  BY <1>2 DEF Stop, ServerTypeOK, IdleInv, QueueInv, HeldInv, EventsInv
<1>3. ASSUME NEW c \in Conn, Connect(c) PROVE ServerIInv'
  <2>1. /\ state[c] = "new" /\ starter = "serving"
        /\ state' = [state EXCEPT ![c] = "queued"] /\ backlog' = Append(backlog, c)
        /\ UNCHANGED <<starter, acceptor, events>>
    BY <1>3 DEF Connect, Move
  <2>2. /\ backlog' \in Seq(Conn) /\ Len(backlog') = Len(backlog) + 1
        /\ \A i \in 1..Len(backlog) : backlog'[i] = backlog[i]
        /\ backlog'[Len(backlog) + 1] = c
    BY <2>1, AppendProperties DEF ServerTypeOK
  <2>3. ServerTypeOK' /\ IdleInv'
    BY <2>1, <2>2 DEF ServerTypeOK, IdleInv, Places
  <2>4. \A i \in 1..Len(backlog) : backlog[i] \in Conn /\ backlog[i] # c
    BY <2>1, ElementOfSeq DEF QueueInv, ServerTypeOK
  <2>5. \A i \in 1..Len(backlog') : i = Len(backlog) + 1 \/ i \in 1..Len(backlog)
    BY <2>2, LenProperties DEF ServerTypeOK
  <2>6. QueueInv'
    BY <2>1, <2>2, <2>4, <2>5 DEF QueueInv, ServerTypeOK
  <2>7. HeldInv'
    BY <2>1 DEF HeldInv, ServerTypeOK
  <2>8. EventsInv'
    BY <2>1, EventsSteps DEF EventsInv, ServerTypeOK
  <2> QED
    BY <2>3, <2>6, <2>7, <2>8
<1> QED
  BY <1>1, <1>2, <1>3

(* The steps of an acceptor keep the invariant. *)
LEMMA AcceptingIInv ==
  ASSUME ServerIInv, NEW a \in Acceptor, Accepting(a)
  PROVE  ServerIInv'
<1> USE DEF ServerIInv
<1>1. CASE Accept(a)
  <2> DEFINE c == Head(backlog)
  <2>1. /\ acceptor[a] = "accept" /\ backlog # <<>>
        /\ acceptor' = [acceptor EXCEPT ![a] = c]
        /\ backlog' = Tail(backlog) /\ state' = [state EXCEPT ![c] = "held"]
        /\ UNCHANGED <<starter, events>>
    BY <1>1 DEF Accept, At, Move, OnlyAcceptor
  <2>2. /\ c \in Conn /\ c = backlog[1] /\ 1 \in 1..Len(backlog)
        /\ backlog' \in Seq(Conn) /\ Len(backlog') = Len(backlog) - 1
        /\ \A i \in 1..Len(backlog') : /\ backlog'[i] = backlog[i + 1]
                                       /\ i + 1 \in 1..Len(backlog) /\ i + 1 # 1
    BY <2>1, HeadTailProperties, LenProperties, EmptySeq DEF ServerTypeOK
  <2> HIDE DEF c
  <2>3. state[c] = "queued"
    BY <2>2 DEF QueueInv
  <2>4. \A i \in 1..Len(backlog') : backlog'[i] # c /\ state'[backlog'[i]] = "queued"
    BY <2>1, <2>2, ElementOfSeq DEF QueueInv, ServerTypeOK
  <2>5. ServerTypeOK' /\ IdleInv'
    BY <2>1, <2>2 DEF ServerTypeOK, IdleInv, Places, Holding
  <2>6. QueueInv'
    <3>1. ASSUME NEW i \in 1..Len(backlog'), NEW j \in 1..Len(backlog'),
                 backlog'[i] = backlog'[j]
          PROVE  i = j
      <4>1. i + 1 = j + 1
        BY <2>2, <3>1 DEF QueueInv
      <4> QED
        BY <4>1
    <3> QED
      BY <2>4, <3>1 DEF QueueInv
  <2>7. HeldInv'
    <3>1. \A b \in Acceptor : acceptor[b] # c
      BY <2>2, <2>3 DEF HeldInv
    <3>2. \A b \in Acceptor : acceptor'[b] = IF b = a THEN c ELSE acceptor[b]
      BY <2>1 DEF ServerTypeOK
    <3>3. \A d \in Conn : state'[d] = IF d = c THEN "held" ELSE state[d]
      BY <2>1, <2>2 DEF ServerTypeOK
    <3>4. \A d \in Conn : state'[d] = "held" => \E b \in Acceptor : acceptor'[b] = d
      <4> SUFFICES ASSUME NEW d \in Conn, state'[d] = "held"
                   PROVE  \E b \in Acceptor : acceptor'[b] = d
        OBVIOUS
      <4>1. CASE d = c
        BY <3>2, <4>1
      <4>2. CASE d # c
        <5>1. PICK b \in Acceptor : acceptor[b] = d
          BY <3>3, <4>2 DEF HeldInv
        <5>2. b # a
          BY <2>1, <5>1, ServerAssumption
        <5> QED
          BY <3>2, <5>1, <5>2
      <4> QED
        BY <4>1, <4>2
    <3> QED
      BY <3>1, <3>2, <3>3, <3>4 DEF HeldInv
  <2>8. EventsInv'
    BY <2>1, <2>2, <2>3, EventsSteps DEF EventsInv, ServerTypeOK
  <2> QED
    BY <2>5, <2>6, <2>7, <2>8
<1>2. CASE AcceptFail(a) \/ Retry(a)
  <2>1. /\ acceptor[a] \in {"accept", "error"}
        /\ \E l \in {"accept", "error"} : acceptor' = [acceptor EXCEPT ![a] = l]
        /\ UNCHANGED <<starter, backlog, state, events>>
    BY <1>2 DEF AcceptFail, Retry, At, OnlyAcceptor
  <2>2. ServerTypeOK' /\ IdleInv'
    BY <2>1 DEF ServerTypeOK, IdleInv
  <2>3. QueueInv' /\ EventsInv'
    BY <2>1 DEF QueueInv, EventsInv
  <2>4. \A b \in Acceptor, d \in Conn : acceptor'[b] = d <=> acceptor[b] = d
    BY <2>1, ServerAssumption DEF ServerTypeOK
  <2>5. HeldInv'
    BY <2>1, <2>4 DEF HeldInv
  <2> QED
    BY <2>2, <2>3, <2>5
<1>3. CASE Spawn(a)
  <2> DEFINE c == acceptor[a]
  <2>1. /\ c \in Conn
        /\ acceptor' = [acceptor EXCEPT ![a] = "accept"]
        /\ state' = [state EXCEPT ![c] = "begin"]
        /\ UNCHANGED <<starter, backlog, events>>
    BY <1>3 DEF Spawn, At, Move, OnlyAcceptor
  <2>2. state[c] = "held"
    BY <2>1 DEF HeldInv
  <2>3. ServerTypeOK' /\ IdleInv'
    BY <2>1, ServerAssumption DEF ServerTypeOK, IdleInv, Places, Holding
  <2>4. \A b \in Acceptor, d \in Conn :
          acceptor'[b] = d <=> acceptor[b] = d /\ b # a
    BY <2>1, ServerAssumption DEF ServerTypeOK
  <2>5. \A d \in Conn : state'[d] = IF d = c THEN "begin" ELSE state[d]
    BY <2>1 DEF ServerTypeOK
  <2>6. QueueInv'
    BY <2>1, <2>2, <2>5, ElementOfSeq DEF QueueInv, ServerTypeOK
  <2>7. HeldInv'
    BY <2>1, <2>4, <2>5 DEF HeldInv
  <2>8. EventsInv'
    BY <2>1, <2>2, <2>5, EventsSteps DEF EventsInv
  <2> QED
    BY <2>3, <2>6, <2>7, <2>8
<1> QED
  BY <1>1, <1>2, <1>3 DEF Accepting

(* The steps of handle, and of a protocol's handler, keep the invariant:   *)
(* they begin and end outside the queue and the acceptors' hands.          *)
LEMMA HandleIInv ==
  ASSUME ServerIInv, NEW c \in Conn, Handling(c) \/ Session(c)
  PROVE  ServerIInv'
<1> USE DEF ServerIInv
<1>1. UNCHANGED <<starter, acceptor, backlog>>
  BY DEF Handling, Session, ConnectEvent, CloseEvent, Close, Dispatch, PeekFail, Dial,
         SessionEnd, Panic, OnlyHandle
<1>2. CASE Dial(c)
  BY <1>1, <1>2 DEF Dial, ServerTypeOK, IdleInv, QueueInv, HeldInv, EventsInv
<1>3. CASE ~Dial(c)
  <2>1. PICK l \in Places :
          /\ state[c] \notin {"queued", "held"} /\ l \notin {"queued", "held"}
          /\ state' = [state EXCEPT ![c] = l]
          /\ events' = [events EXCEPT ![c] = EventsAt(l)]
    <3>1. events[c] = EventsAt(state[c]) /\ events = [events EXCEPT ![c] = events[c]]
      BY DEF EventsInv, ServerTypeOK
    <3>2. CASE ConnectEvent(c)
      BY <3>1, <3>2, EventsSteps DEF ConnectEvent, Fire, Move, Places, Holding
    <3>3. CASE Dispatch(c)
      BY <3>1, <3>3, EventsSteps, PlacesDiffer DEF Dispatch, Move
    <3>4. CASE PeekFail(c)
      BY <3>1, <3>4, EventsSteps DEF PeekFail, Move, Places, Holding
    <3>5. CASE SessionEnd(c)
      BY <3>1, <3>5, EventsSteps, PlacesDiffer DEF SessionEnd, Move, Places, Holding
    <3>6. CASE Panic(c)
      BY <3>1, <3>6, EventsSteps, PlacesDiffer DEF Panic, Fire, Move, Places
    <3>7. CASE CloseEvent(c)
      BY <3>1, <3>7, EventsSteps DEF CloseEvent, Fire, Move, Places, Holding
    <3>8. CASE Close(c)
      BY <3>1, <3>8, EventsSteps DEF Close, Move, Places
    <3> QED
      BY <1>3, <3>2, <3>3, <3>4, <3>5, <3>6, <3>7, <3>8 DEF Handling, Session
  <2>2. \A d \in Conn : state'[d] = IF d = c THEN l ELSE state[d]
    BY <2>1 DEF ServerTypeOK
  <2>3. EventsInv'
    BY <2>1, <2>2 DEF EventsInv, ServerTypeOK
  <2>4. ServerTypeOK' /\ IdleInv'
    BY <1>1, <2>1, EventsSteps DEF ServerTypeOK, IdleInv
  <2>5. QueueInv' /\ HeldInv'
    BY <1>1, <2>1, <2>2, ElementOfSeq DEF QueueInv, HeldInv, ServerTypeOK
  <2> QED
    BY <2>3, <2>4, <2>5
<1> QED
  BY <1>2, <1>3

-----------------------------------------------------------------------------
(* Every step keeps the invariant, a step that changes nothing included. *)
LEMMA NextServerIInv == ServerIInv /\ [ServerNext]_serverVars => ServerIInv'
<1> SUFFICES ASSUME ServerIInv, [ServerNext]_serverVars PROVE ServerIInv'
  OBVIOUS
<1>1. CASE ServerNext
  BY <1>1, ClientIInv, AcceptingIInv, HandleIInv DEF ServerNext
<1>2. CASE UNCHANGED serverVars
  BY <1>2 DEF serverVars, ServerIInv, ServerTypeOK, IdleInv, QueueInv, HeldInv, EventsInv
<1> QED
  BY <1>1, <1>2

(* The inductive invariant gives the number of acceptors that hold a       *)
(* connection.                                                             *)
LEMMA ServerIInvHandledOnce == ServerIInv => HandledOnce
<1> SUFFICES ASSUME ServerIInv, NEW c \in Conn
             PROVE  /\ Quantify(Acceptor, LAMBDA a : acceptor[a] = c) =
                         IF state[c] = "held" THEN 1 ELSE 0
                    /\ events[c] = EventsAt(state[c])
  BY DEF HandledOnce, EventsAt
<1> DEFINE H == {a \in Acceptor : acceptor[a] = c}
<1>1. Quantify(Acceptor, LAMBDA a : acceptor[a] = c) = Cardinality(H)
  BY DEF Quantify
<1>2. CASE state[c] = "held"
  <2>1. PICK a \in Acceptor : acceptor[a] = c
    BY <1>2 DEF ServerIInv, HeldInv
  <2>2. H = {a}
    BY <2>1 DEF ServerIInv, HeldInv
  <2> QED
    BY <1>1, <1>2, <2>2, FS_Singleton DEF ServerIInv, EventsInv
<1>3. CASE state[c] # "held"
  <2>1. H = {}
    BY <1>3 DEF ServerIInv, HeldInv
  <2> QED
    BY <1>1, <1>3, <2>1, FS_EmptySet DEF ServerIInv, EventsInv
<1> QED
  BY <1>2, <1>3

(* MultiListen and handle: a connection is in the hands of exactly one     *)
(* goroutine, and has its two events once each, in order, for any number   *)
(* of acceptors and connections.                                           *)
THEOREM HandledOnceHolds == ServerSpec => []HandledOnce
<1>1. ServerSpec => []ServerIInv
  BY InitServerIInv, NextServerIInv, PTL DEF ServerSpec
<1> QED
  BY <1>1, ServerIInvHandledOnce, PTL

-----------------------------------------------------------------------------
(* ProxyHttp.Handle. *)

(* What the client may be sent.                                            *)
ReplyType == {"502", "tunnel", "101", "cert", "page", "short", "cut"}

(* The types.                                                              *)
HttpTypeOK ==
  /\ ask \in Ask /\ target \in Target
  /\ pc \in {"read", "test", "established", "certificate", "hello", "inner", "upgrade", "wsdial",
             "relay", "request", "transport", "response", "event", "closed"}

(* When an answer may be cut.                                              *)
CutFits ==
  \/ secure /\ late
  \/ /\ ask.kind # "cert" /\ target.form # "unknown"
     /\ \/ "response" \in edited
        \/ target.mood = "breaks" \/ target.form \in {"gzip", "badGzip"}

(* Whether r may be the i-th reply to this client. *)
Fits(r, i) ==
  /\ r \in {"502", "tunnel"} <=> ask.connect /\ i = 1
  /\ r = "tunnel" => target.mood # "refuses"
  /\ r = "101" => ask.connect /\ ask.kind = "upgrade" /\ ask.valid
  /\ r = "cert" => ask.kind = "cert"
  /\ r \in {"page", "short"} => ask.kind # "cert"
  /\ r = "cut" => CutFits
  /\ r = "short" => target.mood = "breaks" \/ target.form = "badGzip"

(* Each reply fits where it is, and 502 is the last.                       *)
ReplyInv ==
  /\ replies \in Seq(ReplyType)
  /\ Len(replies) <= IF ask.connect THEN 2 ELSE 1
  /\ \A i \in 1..Len(replies) :
       Fits(replies[i], i) /\ (replies[i] = "502" => Len(replies) = 1)

(* How far the replies are while Handle runs, unless the client has gone,  *)
(* and is sent no more.                                                    *)
OpeningInv ==
  /\ pc \in {"read", "test", "established"} => replies = <<>>
  /\ ~crashed /\ pc \in {"certificate", "hello", "inner", "upgrade", "request", "transport", "response"} =>
       gone \/ replies = IF ask.connect THEN <<"tunnel">> ELSE <<>>

(* What the way to each place of Handle has established. *)
WayInv ==
  /\ pc \in {"test", "established", "certificate", "hello", "inner", "upgrade"} => ask.connect
  /\ pc = "established" => Reachable
  /\ pc = "upgrade" => ask.kind = "upgrade"
  /\ pc \in {"transport", "response"} => ask.kind # "cert"

(* Which connections to the target are open where. *)
LinksInv ==
  \A l \in links :
    \/ l = "spare"
    \/ l = "test" /\ pc = "established"
    \/ l = "ws" /\ pc = "relay"
    \/ l = "request" /\ \/ pc = "response"
                        \/ pc \in {"event", "closed"} /\ target.form = "badGzip"

(* The inductive invariant of the handler.                                 *)
HttpIInv == HttpTypeOK /\ ReplyInv /\ OpeningInv /\ WayInv /\ LinksInv

-----------------------------------------------------------------------------
(* What a step keeps: the scenario, and what may excuse a cut answer.      *)
Keeps ==
  /\ UNCHANGED <<ask, target>>
  /\ edited \subseteq edited' /\ (secure => secure') /\ (late => late')

(* One reply more. *)

(* The replies before r.                                                   *)
Before(r) == IF ask.connect /\ r \notin {"502", "tunnel"} THEN <<"tunnel">> ELSE <<>>

(* A step without a reply leaves the replies right,                        *)
LEMMA NoReply ==
  ASSUME ReplyInv, Keeps, UNCHANGED replies
  PROVE  ReplyInv'
BY DEF ReplyInv, Fits, CutFits, Keeps

(* and so does one that sends a reply that fits.                           *)
LEMMA ReplyKeeps ==
  ASSUME ReplyInv, Keeps,
         NEW r \in ReplyType, Reply(r),
         ~gone => replies = Before(r) /\ Fits(r, Len(Before(r)) + 1)'
  PROVE  ReplyInv'
<1>1. CASE gone
  BY <1>1, NoReply DEF Reply
<1>2. CASE ~gone
  <2>1. /\ replies \in Seq(ReplyType) /\ Len(replies) \in Nat
        /\ Len(replies) = IF ask.connect /\ r \notin {"502", "tunnel"} THEN 1 ELSE 0
        /\ \A i \in 1..Len(replies) : replies[i] = "tunnel" /\ Fits(replies[i], i)
    BY <1>2 DEF Before, ReplyInv
  <2>2. /\ replies' \in Seq(ReplyType) /\ Len(replies') = Len(replies) + 1
        /\ \A i \in 1..Len(replies) : replies'[i] = replies[i]
        /\ replies'[Len(replies) + 1] = r
    <3>1. PICK s : s = Append(replies, r)
      OBVIOUS
    <3>2. replies' = s
      BY <1>2, <3>1 DEF Reply
    <3>3. /\ s \in Seq(ReplyType) /\ Len(s) = Len(replies) + 1
          /\ \A i \in 1..Len(replies) : s[i] = replies[i]
          /\ s[Len(replies) + 1] = r
      BY <2>1, <3>1, AppendProperties
    <3> QED
      BY <3>2, <3>3
  <2>3. PICK k : k = Len(replies) + 1
    OBVIOUS
  <2>6. Fits(r, k)'
    BY <1>2, <2>1, <2>3 DEF Fits, Before, Keeps
  <2>4. ASSUME NEW i \in 1..Len(replies')
        PROVE  Fits(replies[i], i)' /\ (replies'[i] = "502" => Len(replies') = 1)
    <3>1. CASE i \in 1..Len(replies)
      <4>1. replies'[i] = "tunnel" /\ Fits("tunnel", i)
        BY <2>1, <2>2, <3>1
      <4> QED
        BY <4>1 DEF Fits, Keeps
    <3>2. CASE i = k
      <4>1. replies'[i] = r /\ Fits(r, i)'
        BY <2>2, <2>3, <2>6, <3>2 DEF Fits
      <4> QED
        BY <2>1, <2>2, <4>1 DEF Fits
    <3> QED
      BY <2>1, <2>2, <2>3, <3>1, <3>2
  <2>5. Len(replies') <= IF ask'.connect THEN 2 ELSE 1
    BY <2>1, <2>2 DEF Keeps
  <2> QED
    BY <2>2, <2>4, <2>5 DEF ReplyInv
<1> QED
  BY <1>1, <1>2

-----------------------------------------------------------------------------
(* Each step keeps the invariant. *)

(* The invariant holds at first,                                           *)
LEMMA HttpInitIInv == HttpInit => HttpIInv
<1> SUFFICES ASSUME HttpInit PROVE HttpIInv
  OBVIOUS
<1>1. replies = <<>> /\ Len(replies) = 0 /\ replies \in Seq(ReplyType)
  BY EmptySeq DEF HttpInit
<1> QED
  BY <1>1 DEF HttpInit, HttpIInv, HttpTypeOK, ReplyInv, OpeningInv, WayInv, LinksInv

(* The steps that send no reply. *)
LEMMA SilentIInv ==
  ASSUME HttpIInv, ~crashed,
         \/ Send \/ Leave \/ LeaveLocked \/ ReadRequest \/ TestDial \/ Certificate \/ CertificateRace
         \/ Handshake \/ HandshakeFail \/ HandshakePlain \/ ReadInner
         \/ UpgradeRefused \/ UpgradeBroken \/ WsDial \/ WsDialFail \/ Relayed
         \/ HandleRequest \/ Transport \/ TransportFail \/ CloseClient
  PROVE  HttpIInv'
<1>1. /\ Keeps /\ UNCHANGED replies
      /\ gone => gone'
      /\ HttpTypeOK /\ ReplyInv /\ OpeningInv /\ WayInv /\ LinksInv
  <2>1. /\ UNCHANGED <<ask, target, replies>> /\ (secure => secure') /\ (gone => gone')
    BY DEF Send, Leave, LeaveLocked, ReadRequest, TestDial, Certificate, CertificateRace, Handshake,
           HandshakeFail, HandshakePlain, ReadInner, UpgradeRefused, UpgradeBroken, WsDial, WsDialFail,
           Relayed, HandleRequest, Transport, TransportFail, CloseClient, clientVars
  <2>2. edited \subseteq edited' /\ (late => late')
    <3>1. CASE HandleRequest
      <4>1. edited \subseteq edited'
        BY <3>1 DEF HandleRequest
      <4>2. UNCHANGED late \/ late' = (late \/ ~gone)
        BY <3>1, Zenon DEF HandleRequest, ReadBody, CutBody
      <4>3. late => late'
        BY <4>2, Zenon
      <4> QED
        BY <4>1, <4>3
    <3>2. CASE ~HandleRequest
      <4>1. UNCHANGED <<edited, late>>
        BY <3>2 DEF Send, Leave, LeaveLocked, ReadRequest, TestDial, Certificate, CertificateRace,
           Handshake, HandshakeFail, HandshakePlain, ReadInner, UpgradeRefused, UpgradeBroken, WsDial,
           WsDialFail, Relayed, Transport, TransportFail, CloseClient
      <4> QED
        BY <4>1
    <3> QED
      BY <3>1, <3>2
  <2> QED
    BY <2>1, <2>2 DEF HttpIInv, Keeps
<1>2. ReplyInv'
  BY <1>1, NoReply
<1>3. CASE Send \/ Leave \/ LeaveLocked \/ CertificateRace
  BY <1>1, <1>2, <1>3 DEF Send, Leave, LeaveLocked, CertificateRace, clientVars, Keeps,
     HttpIInv, HttpTypeOK, OpeningInv, WayInv, LinksInv, Reachable
<1>4. CASE ReadRequest \/ TestDial \/ Certificate
  BY <1>1, <1>2, <1>4 DEF ReadRequest, TestDial, Certificate, Goto, Quit, clientVars, Keeps,
     HttpIInv, HttpTypeOK, OpeningInv, WayInv, LinksInv, Reachable
<1>5. CASE Handshake \/ HandshakeFail \/ HandshakePlain \/ ReadInner
  BY <1>1, <1>2, <1>5 DEF Handshake, HandshakeFail, HandshakePlain, ReadInner, Goto, Quit, clientVars,
     Keeps, HttpIInv, HttpTypeOK, OpeningInv, WayInv, LinksInv, Reachable
<1>6. CASE UpgradeRefused \/ UpgradeBroken \/ Relayed \/ CloseClient
  BY <1>1, <1>2, <1>6 DEF UpgradeRefused, UpgradeBroken, Relayed, CloseClient, ReturnError, Goto, Quit,
     clientVars, Keeps, HttpIInv, HttpTypeOK, OpeningInv, WayInv, LinksInv, Reachable
<1>7. CASE WsDial \/ WsDialFail
  BY <1>1, <1>2, <1>7 DEF WsDial, WsDialFail, DialContext, DialContextFails, Goto, Quit, clientVars,
     Keeps, HttpIInv, HttpTypeOK, OpeningInv, WayInv, LinksInv, Reachable
<1>8. CASE HandleRequest \/ Transport \/ TransportFail
  BY <1>1, <1>2, <1>8 DEF HandleRequest, Transport, TransportFail, DialContext, DialContextFails, Goto,
     Quit, clientVars, Keeps, HttpIInv, HttpTypeOK, OpeningInv, WayInv, LinksInv, Reachable
<1> QED
  BY <1>3, <1>4, <1>5, <1>6, <1>7, <1>8

(* An answer at the end of handleRequest.  What is sent for r is r, a cut  *)
(* answer, or nothing.                                                     *)
LEMMA DeliverKeeps ==
  ASSUME ReplyInv, Keeps, NEW r \in {"cert", "page", "short", "cut"}, Deliver(r),
         gone \/ replies = IF ask.connect THEN <<"tunnel">> ELSE <<>>,
         r \in {"page", "short"} => ask.kind # "cert",
         r = "cert" => ask.kind = "cert",
         r = "cut" => CutFits',
         r = "short" => target.mood = "breaks" \/ target.form = "badGzip"
  PROVE  ReplyInv'
<1>1. Len(<<>>) = 0 /\ Len(<<"tunnel">>) = 1
  OBVIOUS
<1>2. CASE Reply(r)
  <2>1. /\ r \in ReplyType /\ (~gone => replies = Before(r))
        /\ Fits(r, Len(Before(r)) + 1)'
    BY <1>1 DEF Before, Fits, Keeps, ReplyType
  <2> QED
    BY <1>2, <2>1, ReplyKeeps
<1>3. CASE secure /\ late' /\ Reply("cut")
  <2>1. /\ "cut" \in ReplyType /\ (~gone => replies = Before("cut"))
        /\ Fits("cut", Len(Before("cut")) + 1)'
    BY <1>1, <1>3 DEF Before, Fits, CutFits, Keeps, ReplyType
  <2> QED
    BY <1>3, <2>1, ReplyKeeps
<1>4. CASE UNCHANGED replies
  BY <1>4, NoReply
<1> QED
  BY <1>2, <1>3, <1>4 DEF Deliver

(* The steps that send one. *)
LEMMA ReplyingIInv ==
  ASSUME HttpIInv, ~crashed,
         \/ TestDialFail \/ Established \/ Upgrade \/ UpgradeNoUrl
         \/ ServeCert \/ HandleResponse
  PROVE  HttpIInv'
<1>1. /\ Keeps /\ UNCHANGED gone
      /\ HttpTypeOK /\ ReplyInv /\ OpeningInv /\ WayInv /\ LinksInv
  <2>1. UNCHANGED <<ask, target, secure, gone>>
    BY DEF TestDialFail, Established, Upgrade, UpgradeNoUrl, ServeCert, HandleResponse, clientVars
  <2>2. edited \subseteq edited'
    BY DEF TestDialFail, Established, Upgrade, UpgradeNoUrl, ServeCert, HandleResponse
  <2>3. late => late'
    BY DEF TestDialFail, Established, Upgrade, UpgradeNoUrl, ServeCert, HandleResponse, WriteResponse,
           Deliver
  <2> QED
    BY <2>1, <2>2, <2>3 DEF HttpIInv, Keeps
<1>2. /\ Len(<<>>) = 0 /\ Len(<<"tunnel">>) = 1
      /\ Append(<<>>, "tunnel") = <<"tunnel">>
  OBVIOUS
<1>3. CASE TestDialFail
  <2>1. /\ ask.connect /\ replies = <<>> /\ pc' = "event" /\ UNCHANGED links /\ Reply("502")
        /\ pc = "test"
    BY <1>1, <1>3 DEF TestDialFail, Quit, OpeningInv, WayInv
  <2>2. ReplyInv'
    BY <1>1, <1>2, <2>1, ReplyKeeps DEF Before, Fits, ReplyType, Keeps
  <2> QED
    BY <1>1, <2>1, <2>2 DEF HttpIInv, HttpTypeOK, OpeningInv, WayInv, LinksInv, Keeps
<1>4. CASE Established
  <2>1. /\ ask.connect /\ replies = <<>> /\ Reply("tunnel")
        /\ target.mood # "refuses" /\ links' = links \ {"test"} /\ pc = "established"
        /\ pc' \in {"certificate", "event"}
    BY <1>1, <1>4 DEF Established, Quit, Goto, OpeningInv, WayInv, Reachable
  <2>2. ReplyInv'
    BY <1>1, <1>2, <2>1, ReplyKeeps DEF Before, Fits, ReplyType, Keeps
  <2>3. ~gone => replies' = <<"tunnel">>
    BY <1>2, <2>1 DEF Reply
  <2> QED
    BY <1>1, <2>1, <2>2, <2>3 DEF HttpIInv, HttpTypeOK, OpeningInv, WayInv, LinksInv, Keeps
<1>5. CASE Upgrade \/ UpgradeNoUrl
  <2>1. /\ ask.connect /\ ask.kind = "upgrade" /\ ask.valid /\ pc = "upgrade"
        /\ gone \/ replies = <<"tunnel">>
        /\ UNCHANGED links /\ Reply("101")
        /\ \/ pc' = "wsdial"
           \/ pc' = "upgrade" /\ crashed'
    <3>1. /\ pc = "upgrade" /\ ask.valid /\ UNCHANGED links /\ Reply("101")
          /\ \/ pc' = "wsdial"
             \/ pc' = "upgrade" /\ crashed'
      BY <1>5 DEF Upgrade, UpgradeNoUrl, Goto
    <3>2. ask.connect /\ ask.kind = "upgrade" /\ (gone \/ replies = <<"tunnel">>)
      BY <1>1, <3>1 DEF OpeningInv, WayInv
    <3> QED
      BY <3>1, <3>2
  <2>2. ReplyInv'
    BY <1>1, <1>2, <2>1, ReplyKeeps DEF Before, Fits, ReplyType, Keeps
  <2> QED
    BY <1>1, <2>1, <2>2 DEF HttpIInv, HttpTypeOK, OpeningInv, WayInv, LinksInv, Keeps
<1>6. CASE ServeCert
  <2>1. /\ ask.kind = "cert" /\ pc = "request" /\ pc' = "event"
        /\ gone \/ replies = IF ask.connect THEN <<"tunnel">> ELSE <<>>
        /\ UNCHANGED links /\ Deliver("cert")
    BY <1>1, <1>6 DEF ServeCert, Quit, OpeningInv
  <2>2. ReplyInv'
    BY <1>1, <2>1, DeliverKeeps
  <2> QED
    BY <1>1, <2>1, <2>2 DEF HttpIInv, HttpTypeOK, OpeningInv, WayInv, LinksInv, Keeps
<1>7. CASE HandleResponse
  <2>1. /\ ask.kind # "cert" /\ pc = "response" /\ pc' = "event"
        /\ gone \/ replies = IF ask.connect THEN <<"tunnel">> ELSE <<>>
        /\ links' = links \ {"request"} \/ (target.form = "badGzip" /\ UNCHANGED links)
        /\ \/ WriteResponse(FALSE)
           \/ WriteResponse(TRUE) /\ edited' = edited \cup {"response"}
           \/ UNCHANGED replies
    BY <1>1, <1>7 DEF HandleResponse, Quit, OpeningInv, WayInv
  <2>2. ReplyInv'
    <3>1. ASSUME NEW edit \in BOOLEAN, WriteResponse(edit), edit => "response" \in edited'
          PROVE  ReplyInv'
      <4>1. CASE Deliver(Content(edit))
        <5>1. /\ Content(edit) \in {"page", "short"}
              /\ Content(edit) = "short" => target.mood = "breaks" \/ target.form = "badGzip"
          BY DEF Content
        <5> QED
          BY <1>1, <2>1, <4>1, <5>1, DeliverKeeps
      <4>2. CASE /\ target.form # "unknown"
                 /\ edit \/ target.mood = "breaks" \/ target.form # "known"
                 /\ Deliver("cut")
        <5>1. CutFits'
          <6>1. target.form \in {"known", "unknown", "gzip", "badGzip"}
            BY <1>1, HttpAssumption DEF HttpTypeOK, TargetType
          <6> QED
            BY <1>1, <2>1, <3>1, <4>2, <6>1 DEF CutFits, Keeps
        <5> QED
          BY <1>1, <2>1, <4>2, <5>1, DeliverKeeps
      <4> QED
        BY <3>1, <4>1, <4>2 DEF WriteResponse
    <3>2. CASE UNCHANGED replies
      BY <1>1, <3>2, NoReply
    <3>3. CASE WriteResponse(FALSE)
      BY <3>1, <3>3
    <3>4. CASE WriteResponse(TRUE) /\ edited' = edited \cup {"response"}
      BY <3>1, <3>4
    <3> QED
      BY <2>1, <3>2, <3>3, <3>4
  <2> QED
    BY <1>1, <2>1, <2>2 DEF HttpIInv, HttpTypeOK, OpeningInv, WayInv, LinksInv, Keeps
<1> QED
  BY <1>3, <1>4, <1>5, <1>6, <1>7

(* Every step keeps the invariant,                                         *)
LEMMA HttpNextIInv == HttpIInv /\ [HttpNext]_httpVars => HttpIInv'
<1> SUFFICES ASSUME HttpIInv, [HttpNext]_httpVars PROVE HttpIInv'
  OBVIOUS
<1>1. CASE HttpNext
  BY <1>1, SilentIInv, ReplyingIInv DEF HttpNext, Handle
<1>2. CASE UNCHANGED httpVars
  <2>1. ReplyInv'
    BY <1>2, NoReply DEF HttpIInv, httpVars, clientVars, Keeps
  <2> QED
    BY <1>2, <2>1 DEF HttpIInv, HttpTypeOK, OpeningInv, WayInv, LinksInv, Reachable, httpVars, clientVars
<1> QED
  BY <1>1, <1>2

(* so it holds always.                                                     *)
LEMMA HttpInvariant == HttpSpec => []HttpIInv
BY HttpInitIInv, HttpNextIInv, PTL DEF HttpSpec

-----------------------------------------------------------------------------
(* ProxyHttp.Handle answers at most once behind the tunnel, and with what  *)
(* belongs to the request, whatever request, target and moment of leaving. *)
THEOREM AnswersMatchHolds == HttpSpec => []AnswersMatch
<1>1. ASSUME HttpIInv PROVE AnswersMatch
  <2> DEFINE answer == IF ask.connect THEN SubSeq(replies, 2, Len(replies)) ELSE replies
             n == Len(replies)
  <2>1. /\ replies \in Seq(ReplyType) /\ n \in Nat
        /\ n <= IF ask.connect THEN 2 ELSE 1
        /\ \A i \in 1..n : Fits(replies[i], i) /\ (replies[i] = "502" => n = 1)
        /\ \A r : Told(r) <=> \E i \in 1..n : replies[i] = r
    BY <1>1 DEF HttpIInv, ReplyInv, Told
  <2>2. /\ Len(answer) = IF ask.connect /\ n > 0 THEN n - 1 ELSE n
        /\ answer # <<>> <=> Len(answer) > 0
        /\ replies # <<>> <=> n > 0
    <3>3. \A s \in Seq(ReplyType) : s # <<>> <=> Len(s) > 0
      BY EmptySeq, LenProperties
    <3>1. CASE ~ask.connect
      BY <2>1, <3>1, <3>3
    <3>2. CASE ask.connect
      <4>1. n \in Nat /\ n <= 2
        BY <2>1, <3>2
      <4>2. SubSeq(replies, 2, n) \in Seq(ReplyType) /\ Len(SubSeq(replies, 2, n)) = IF 2 <= n THEN n - 1 ELSE 0
        BY <2>1, <4>1, SubSeqProperties
      <4> QED
        <5>1. answer \in Seq(ReplyType) /\ Len(answer) = IF 2 <= n THEN n - 1 ELSE 0
          BY <3>2, <4>2
        <5> HIDE DEF answer, n
        <5>2. Len(answer) = IF n > 0 THEN n - 1 ELSE n
          BY <4>1, <5>1
        <5>3. replies # <<>> <=> n > 0
          BY <2>1, <3>3 DEF n
        <5> QED
          BY <3>2, <3>3, <5>1, <5>2, <5>3
    <3> QED
      BY <3>1, <3>2
  <2> HIDE DEF answer, n
  <2>3. ask.connect /\ replies # <<>> =>
          replies[1] \in {"502", "tunnel"} /\ (replies[1] = "502" => answer = <<>>)
    BY <2>1, <2>2 DEF Fits
  <2>4. Len(answer) <= 1
    BY <2>1, <2>2
  <2>5. Told("101") => ask.connect /\ ask.kind = "upgrade" /\ ask.valid
    BY <2>1 DEF Fits
  <2>6. /\ Told("cert") => ask.kind = "cert"
        /\ Told("page") \/ Told("short") => ask.kind # "cert"
    BY <2>1 DEF Fits
  <2>7. Told("cut") => CutFits
    BY <2>1 DEF Fits
  <2>8. Told("short") => target.mood = "breaks" \/ target.form = "badGzip"
    BY <2>1 DEF Fits
  <2>9. Told("tunnel") => target.mood # "refuses"
    BY <2>1 DEF Fits
  <2> QED
    BY <2>3, <2>4, <2>5, <2>6, <2>7, <2>8, <2>9, Zenon DEF AnswersMatch, CutFits, answer
<1> QED
  BY <1>1, HttpInvariant, PTL

(* ProxyHttp.Handle returns with every connection to the target closed but *)
(* the one DialContext drops, and that of a response it could not decode.  *)
THEOREM OnlySparesLeftHolds == HttpSpec => []OnlySparesLeft
<1>1. HttpIInv => OnlySparesLeft
  BY DEF HttpIInv, LinksInv, OnlySparesLeft
<1> QED
  BY <1>1, HttpInvariant, PTL
=============================================================================
