----------------------------- MODULE WsHandshake ------------------------------
(***************************************************************************)
(* The two handshakes of a WebSocket session through the proxy: what the   *)
(* browser asks for is examined and answered (SslReceiveSend,              *)
(* handleWsRequest, Upgrader.Upgrade), its headers are passed on           *)
(* (RemoveWsHeader), the target is dialled (Dialer.DialContext) and its    *)
(* answer examined.  The target may be built on the same package or be     *)
(* anything else.  Module HttpProxy has the way here, WsRelay the peer. *)
(*                                                                         *)
(* The program sets Subprotocols and CheckOrigin of its Upgrader, and      *)
(* TLSClientConfig, HandshakeTimeout (wss only) and NetDialContext of its  *)
(* Dialer.  A subprotocol is written as the line that names it.            *)
(***************************************************************************)
EXTENDS HeaderTokens

CONSTANTS
  Request, \* what browsers may send: method, headers, frames behind it (early)
           \* and, in the clear, how it is written and read (whole, tight)
  Target   \* mood, u (its Upgrader), resp (its answer), frames behind it (behind)

(* A line of a header is what comes behind ": ", or behind ":" alone in a   *)
(* line <<f, l>> of tight.  whole: the one read that the program makes in   *)
(* the clear takes in the request to its end, and no line of a body.        *)
Fields == {"connection", "upgrade", "version", "key", "extensions", "protocol"}

ASSUME HandshakeAssumption ==
  /\ \A r \in Request :
       /\ Fields \cup {"method"} \subseteq DOMAIN r /\ r.early \in BOOLEAN /\ r.whole \in BOOLEAN
       /\ r.tight \subseteq Fields \X Nat
       /\ \A f \in Fields : r[f] \in Seq(Seq(STRING))
  /\ \A t \in Target :
       /\ t.mood \in {"upgrader", "foreign", "silent", "hangsUp", "refuses"} /\ t.behind \in Nat
       /\ {"status", "extensions"} \subseteq DOMAIN t.resp
       /\ t.resp.extensions \in Seq(Seq(STRING)) /\ \A l \in DOMAIN t.resp.extensions : Lexed(t.resp.extensions[l])

VARIABLES
  request,  \* the browser's, then as the target is to get it
  secure,   \* it came through TLS
  target,
  original, \* the request as it came
  pc,
  told,     \* the response the browser was sent, as a sequence of at most one
  browserDeadline, \* the connection to the browser has a deadline
  links, deadline, \* connections to the target; the last one has a deadline
  sent,     \* the request the target was sent, likewise
  answered, \* the target has answered
  net, br,  \* what is on its way from the target, and read into conn.br
  resp,     \* the response, likewise
  agreed    \* subprotocol and compression of the target's connection, likewise

scenario == <<secure, target, original>>
dialVars == <<links, deadline, sent, answered, net, br, resp, agreed>>
handshakeVars == <<scenario, request, pc, told, browserDeadline, dialVars>>

(* Header.Get: the first line, or nothing. *)
Get(header) == IF header = <<>> THEN <<>> ELSE header[1]
Padded(line) == line # <<>> /\ Space \in {line[1], Last(line)}

HandshakeInit ==
  /\ original \in Request /\ secure \in BOOLEAN /\ target \in Target
  /\ request = original /\ pc = "read" /\ told = <<>> /\ browserDeadline = TRUE
  /\ links = {} /\ deadline = FALSE /\ sent = <<>> /\ answered = FALSE
  /\ net = <<>> /\ br = <<>> /\ resp = <<>> /\ agreed = <<>>

-----------------------------------------------------------------------------
(* The server side: Upgrader.Upgrade.                                      *)

(* Which the client offers; their order makes no difference. *)
Subprotocols(r) ==
  LET line == Get(r.protocol)
  IN IF Trim(line) = <<>> THEN {} ELSE {Trim(Piece(line, Comma, c)) : c \in Cuts(line, Comma)}

(* Mutant: the client's first choice, whether this side has it or not. *)
FirstOffer(u, r) ==
  IF Subprotocols(r) = {} THEN <<>> ELSE Trim(Piece(Get(r.protocol), Comma, 0))

(* The first of the server's list that the client offers. *)
selectSubprotocol(u, r) ==
  LET common == {n \in DOMAIN u.protocols : u.protocols[n] \in Subprotocols(r)}
  IN IF common = {} THEN <<>> ELSE u.protocols[Min(common)]

(* The checks, in the order of the code; CheckOrigin always agrees. *)
Refusal(r) ==
  IF ~tokenListContainsValue(r.connection, "upgrade") THEN "connection"
  ELSE IF ~tokenListContainsValue(r.upgrade, "websocket") THEN "upgrade"
  ELSE IF r.method # "GET" THEN "method"
  ELSE IF ~tokenListContainsValue(r.version, "13") THEN "version"
  ELSE IF Get(r.key) = <<>> THEN "key"
  ELSE "none"

Compress(u, r) ==
  u.compression /\ \E e \in Range(parseExtensions(r.extensions)) : e.name = "permessage-deflate"

Deflate == <<"permessage-deflate", ";", " ", "server_no_context_takeover",
             ";", " ", "client_no_context_takeover">>

Switching(u, r) ==
  [status |-> 101, upgrade |-> <<<<"websocket">>>>, connection |-> <<<<"Upgrade">>>>,
   accept |-> Get(r.key),
   protocol |-> LET p == selectSubprotocol(u, r) IN IF p = <<>> THEN <<>> ELSE <<p>>,
   extensions |-> IF Compress(u, r) THEN <<Deflate>> ELSE <<>>, stalls |-> FALSE]

-----------------------------------------------------------------------------
(* The browser's handshake. *)

(* In the clear the program makes its own of the bytes of one read.  The   *)
(* lines that may be among them, by header and number,                     *)
Rows == UNION {{f} \X DOMAIN original[f] : f \in Fields}
Line(row) == original[row[1]][row[2]]

(* what may be there of a line that is not all there, a token that is cut  *)
(* being another one,                                                      *)
Torn(s) ==
  {SubSeq(s, 1, k) : k \in 0..Len(s)} \cup {Append(SubSeq(s, 1, k), "part") : k \in 0..Len(s) - 1}

(* and what is there of all of them: the first ones of each header, the    *)
(* last one of some header torn, unless the read took in the request.      *)
Reads ==
  LET begun == {got \in SUBSET Rows : \A row \in got : \A l \in 1..row[2] : <<row[1], l>> \in got}
      whole(got) == [row \in got |-> Line(row)]
      torn(got, last) == {[whole(got) EXCEPT ![last] = t] : t \in Torn(Line(last))}
      ends(got) == {row \in got : <<row[1], row[2] + 1>> \notin got}
  IN IF original.whole THEN {whole(Rows)}
     ELSE UNION {{whole(got)} \cup UNION {torn(got, last) : last \in ends(got)} : got \in begun}

(* A line is split at ": ", and its second part kept. *)
UpToColon(s) ==
  LET splits == {i \in 1..Len(s) - 1 : s[i] = Colon /\ s[i + 1] = Space}
  IN SubSeq(s, 1, Min(splits \cup {Len(s) + 1}) - 1)

(* Of a header the last line that can be split stays. *)
Kept(f, read) ==
  LET found == {l \in DOMAIN original[f] : <<f, l>> \in DOMAIN read \ original.tight}
  IN IF found = {} THEN <<>> ELSE <<UpToColon(read[<<f, Max(found)>>])>>

(* In TLS http.ReadRequest trims the lines, and the headers decide,        *)
(* exactly as they are written, whether it is a handshake; in the clear    *)
(* handleWsHandshakeErr takes everything for one.                          *)
Classify ==
  /\ pc = "read"
  /\ \/ /\ secure
        /\ request' = [f \in DOMAIN original |->
             IF f \notin Fields THEN original[f]
             ELSE [l \in DOMAIN original[f] |-> Trim(original[f][l])]]
        /\ pc' = IF Get(request'.upgrade) = <<"websocket">> \/ Get(request'.connection) = <<"Upgrade">>
                 THEN "upgrade" ELSE "http"
     \/ /\ ~secure
        /\ \E read \in Reads :
             request' = [f \in DOMAIN original |-> IF f \in Fields THEN Kept(f, read) ELSE original[f]]
        /\ pc' = "upgrade"
  /\ UNCHANGED <<scenario, told, browserDeadline, dialVars>>

(* No Upgrade header: handleWsRequest returns. *)
Ignore ==
  /\ pc = "upgrade" /\ Get(request.upgrade) = <<>>
  /\ pc' = "ignored"
  /\ UNCHANGED <<scenario, request, told, browserDeadline, dialVars>>

Refuse ==
  /\ pc = "upgrade" /\ Get(request.upgrade) # <<>> /\ Refusal(request) # "none"
  /\ pc' = "refused"
  /\ UNCHANGED <<scenario, request, told, browserDeadline, dialVars>>

(* Frames behind the request are in the reader when it came through TLS;   *)
(* or the response cannot be written.  Upgrade closes the connection.      *)
Break ==
  /\ pc = "upgrade" /\ Get(request.upgrade) # <<>> /\ Refusal(request) = "none"
  /\ pc' = "broken"
  /\ browserDeadline' = (secure /\ request.early)
  /\ UNCHANGED <<scenario, request, told, dialVars>>

Accept ==
  /\ pc = "upgrade" /\ Get(request.upgrade) # <<>> /\ Refusal(request) = "none"
  /\ ~(secure /\ request.early)
  /\ told' = <<Switching([protocols |-> <<Get(request.protocol)>>,
                           compression |-> FALSE], request)>>
  /\ browserDeadline' = FALSE
  /\ pc' = "headers"
  /\ UNCHANGED <<scenario, request, dialVars>>

-----------------------------------------------------------------------------
(* The client side: RemoveWsHeader and Dialer.DialContext. *)

(* Mutant: one header is missing from the list. *)
RemoveWsHeaderButVersion ==
  /\ pc = "headers"
  /\ request' = [f \in DOMAIN request |->
       IF f \in Fields \ {"protocol", "version"} /\ Get(request[f]) # <<>> THEN <<>> ELSE request[f]]
  /\ pc' = "dial"
  /\ UNCHANGED <<scenario, told, browserDeadline, dialVars>>

(* A header goes when Get finds something in it. *)
RemoveWsHeader ==
  /\ pc = "headers"
  /\ request' = [f \in DOMAIN request |->
       IF f \in Fields \ {"protocol"} /\ Get(request[f]) # <<>> THEN <<>> ELSE request[f]]
  /\ pc' = "dial"
  /\ UNCHANGED <<scenario, told, browserDeadline, dialVars>>

OnlyDial == UNCHANGED <<scenario, request, told, browserDeadline>>

(* The request is put together; headers of its own may not be there yet. *)
Duplicate == \E f \in Fields \ {"protocol"} : request[f] # <<>>

DialDuplicate ==
  /\ pc = "dial" /\ Duplicate
  /\ pc' = "duplicate"
  /\ OnlyDial /\ UNCHANGED dialVars

(* netDial: ProxyHttp.DialContext dials twice; a deadline with wss only. *)
NetDial ==
  /\ pc = "dial" /\ ~Duplicate
  /\ IF target.mood = "refuses"
     THEN pc' = "failed" /\ UNCHANGED <<links, deadline>>
     ELSE \/ /\ pc' = "write" /\ links' = {"spare", "conn"} /\ deadline' = secure
          \/ /\ pc' = "failed" /\ links' = {"spare"} /\ UNCHANGED deadline
  /\ OnlyDial /\ UNCHANGED <<sent, answered, net, br, resp, agreed>>

(* The deferred Close of a dial that fails. *)
Abandon == pc' = "failed" /\ links' = links \ {"conn"}

(* The TLS handshake, then req.Write. *)
Write ==
  /\ pc = "write" /\ ~(secure /\ target.mood = "silent")
  /\ sent' = <<[request EXCEPT !.method = "GET", !.upgrade = <<<<"websocket">>>>,
                  !.connection = <<<<"Upgrade">>>>, !.version = <<<<"13">>>>,
                  !.key = <<<<"challenge">>>>]>>
  /\ pc' = "response"
  /\ OnlyDial /\ UNCHANGED <<links, deadline, answered, net, br, resp, agreed>>

(* The target reads it and answers; what it sends next may follow at once. *)
TargetAnswers ==
  /\ sent # <<>> /\ ~answered /\ target.mood \in {"upgrader", "foreign"}
  /\ answered' = TRUE
  /\ LET r == IF target.mood = "foreign" THEN target.resp
              ELSE IF Refusal(sent[1]) # "none" THEN [target.resp EXCEPT !.status = 400]
              ELSE Switching(target.u, sent[1])
     IN net' = <<r>> \o [n \in 1..target.behind |-> n]
  /\ OnlyDial /\ UNCHANGED <<pc, links, deadline, sent, br, resp, agreed>>

(* The connection breaks, the deadline passes, or the target hangs up. *)
DialBroken ==
  /\ pc \in {"write", "response", "slurp"}
  /\ deadline \/ target.mood # "silent"
  /\ Abandon
  /\ OnlyDial /\ UNCHANGED <<deadline, sent, answered, net, br, resp, agreed>>

(* Mutant: the response is read through a reader of its own. *)
ReadResponseAside ==
  /\ pc = "response" /\ net # <<>>
  /\ \E n \in 1..Len(net) : net' = SubSeq(net, n + 1, Len(net))
  /\ resp' = <<net[1]>> /\ pc' = "check"
  /\ OnlyDial /\ UNCHANGED <<links, deadline, sent, answered, br, agreed>>

(* http.ReadResponse on conn.br, which may take in more than the response. *)
ReadResponse ==
  /\ pc = "response" /\ net # <<>>
  /\ \E n \in 1..Len(net) : br' = SubSeq(net, 2, n) /\ net' = SubSeq(net, n + 1, Len(net))
  /\ resp' = <<net[1]>> /\ pc' = "check"
  /\ OnlyDial /\ UNCHANGED <<links, deadline, sent, answered, agreed>>

EqualFold(line, value) == Len(line) = 1 /\ Fold(line[1]) = value
BadHandshake ==
  \/ resp[1].status # 101 \/ resp[1].accept # Get(sent[1].key)
  \/ ~EqualFold(Get(resp[1].upgrade), "websocket")
  \/ ~EqualFold(Get(resp[1].connection), "upgrade")

Deflating == {n \in DOMAIN parseExtensions(resp[1].extensions) :
                parseExtensions(resp[1].extensions)[n].name = "permessage-deflate"}
NoTakeover == {"server_no_context_takeover", "client_no_context_takeover"}
InvalidCompression ==
  /\ Deflating # {}
  /\ ~(NoTakeover \subseteq parseExtensions(resp[1].extensions)[Min(Deflating)].keys)

(* Not the answer it should be: some of its body is read, then failure. *)
CheckBad ==
  /\ pc = "check" /\ BadHandshake /\ pc' = "slurp"
  /\ OnlyDial /\ UNCHANGED dialVars

Slurp ==
  /\ pc = "slurp" /\ ~resp[1].stalls
  /\ Abandon
  /\ OnlyDial /\ UNCHANGED <<deadline, sent, answered, net, br, resp, agreed>>

CheckCompression ==
  /\ pc = "check" /\ ~BadHandshake /\ InvalidCompression
  /\ Abandon
  /\ OnlyDial /\ UNCHANGED <<deadline, sent, answered, net, br, resp, agreed>>

Establish ==
  /\ pc = "check" /\ ~BadHandshake /\ ~InvalidCompression
  /\ agreed' = <<[protocol |-> Get(resp[1].protocol), compression |-> Deflating # {}]>>
  /\ deadline' = FALSE
  /\ pc' = "relay"
  /\ OnlyDial /\ UNCHANGED <<links, sent, answered, net, br, resp>>

HandshakeNext ==
  \/ Classify \/ Ignore \/ Refuse \/ Break \/ Accept
  \/ RemoveWsHeader \/ DialDuplicate \/ NetDial \/ Write \/ TargetAnswers \/ DialBroken
  \/ ReadResponse \/ CheckBad \/ Slurp \/ CheckCompression \/ Establish

HandshakeSpec == HandshakeInit /\ [][HandshakeNext]_handshakeVars

-----------------------------------------------------------------------------
(* A handshake as RFC 6455 has it, by the grammar of its headers. *)
Proper(r) ==
  /\ r.method = "GET" /\ HasToken(r.connection, "upgrade")
  /\ HasToken(r.upgrade, "websocket") /\ HasToken(r.version, "13") /\ Get(r.key) # <<>>

(* Of a header with several lines, or whose first line is blank, what the  *)
(* in-clear parser or Header.Get sees is not what was sent.                *)
Plain(r) == \A f \in Fields : Len(r[f]) <= 1 /\ (r[f] # <<>> => Trim(r[f][1]) # <<>>)

(* Nor is what the in-clear parser sees of a request that comes in pieces, *)
(* has no space behind a colon, or ": " within a line.                     *)
Legible(r) ==
  /\ r.whole /\ r.tight = {}
  /\ \A f \in Fields : \A l \in DOMAIN r[f] : UpToColon(r[f][l]) = r[f][l]
Understood == secure \/ Legible(original)

(* The browser is told 101 exactly for a proper handshake.  Exempt are     *)
(* headers in several lines or blank ones; in the clear, what the parser   *)
(* there does not see as it was sent; frames sent too early inside TLS;    *)
(* and, inside TLS, a handshake with neither "Upgrade: websocket" nor      *)
(* "Connection: Upgrade" in these letters, which is taken for a page       *)
(* request.  What is accepted is also dialled: no header of the browser is *)
(* left in the way of the Dialer's own.                                    *)
ProperIsServed ==
  Understood /\ Plain(original) =>
    /\ told # <<>> => Proper(original) /\ pc # "duplicate"
    /\ pc \in {"ignored", "refused", "http"} /\ Proper(original) =>
         /\ pc = "http"
         /\ Trim(Get(original.upgrade)) # <<"websocket">>
         /\ Trim(Get(original.connection)) # <<"Upgrade">>

(* A dial that failed leaves nothing but the spare connection; one that    *)
(* succeeded leaves neither connection of the session with a deadline, and *)
(* what the target sent right behind its response is still to be read, in  *)
(* order.                                                                  *)
DialLeavesNothing ==
  /\ pc \in {"failed", "duplicate"} => links \subseteq {"spare"}
  /\ pc = "relay" =>
       /\ ~deadline /\ ~browserDeadline /\ "conn" \in links
       /\ br \o net = [n \in 1..target.behind |-> n]

Offered(line) == {Trim(Piece(line, Comma, c)) : c \in Cuts(line, Comma)}
Offers(r) == UNION {Offered(r.protocol[l]) : l \in DOMAIN r.protocol}

(* The browser is told a subprotocol only if it offered it, and the target *)
(* has the same one if it keeps to the offers: the two never differ within *)
(* one line of offers, and the browser is told none while the target chose *)
(* one only if it made several offers, or padded its offer with spaces in  *)
(* a handshake in the clear.  Of a handshake in the clear that its parser  *)
(* does not see as it was sent nothing of this is said.  The proxy         *)
(* compresses towards the target exactly if the response says so by the    *)
(* grammar, which a target built on this package never does.               *)
NegotiationAgrees ==
  pc = "relay" =>
    LET own == Get(told[1].protocol)
        peer == agreed[1]
    IN /\ Understood /\ own # <<>> => own \in Offers(original)
       /\ Understood /\ peer.protocol \in Offers(original) \ {<<>>} =>
            \/ peer.protocol = own \/ Len(original.protocol) > 1
            \/ /\ own = <<>>
               /\ Comma \in Range(Get(original.protocol)) \/ (~secure /\ Padded(Get(request.protocol)))
       /\ target.mood = "upgrader" => ~peer.compression
       /\ peer.compression <=>
            \E e \in Extensions(resp[1].extensions) :
              e.name = "permessage-deflate" /\ NoTakeover \subseteq e.keys
=============================================================================
