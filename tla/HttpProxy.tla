------------------------------ MODULE HttpProxy -------------------------------
(***************************************************************************)
(* One connection that ProxyServer.handle classifies as HTTP:              *)
(* ProxyHttp.Handle, which serves one request, either sent outright or     *)
(* inside a CONNECT tunnel, where it may be TLS, a WebSocket handshake in  *)
(* the clear, or nothing this program understands.  The WebSocket session  *)
(* that an upgrade leads to is module WsRelay; here it is one state.       *)
(*                                                                         *)
(* What the client sends and how the target behaves are fixed from the     *)
(* start, in the records ask and target; how steps of the two fall against *)
(* the handler's is not.  Headers and bodies are abstracted to what the    *)
(* handler decides on.                                                     *)
(***************************************************************************)
EXTENDS Naturals, Sequences

CONSTANTS
  Ask,        \* what clients may ask for
  Target,     \* how targets may behave
  Intercepts  \* OnHttpRequestEvent and OnHttpResponseEvent are set

(* connect: it begins with CONNECT; port443: to that port; hello: how the   *)
(* tunnel begins, "part" being too little for the handshake to tell; kind: *)
(* the request itself; valid: an upgrade request has all its headers;      *)
(* early: it is followed by frames at once; eager: it is sent behind       *)
(* CONNECT without waiting for the tunnel; body, and whether the client    *)
(* sends it to its end; takes: it takes what it is sent; clear: what       *)
(* handleWsHandshakeErr makes of the request ("lossy": headers are not in  *)
(* the one read, or not written so that splitting at ": " and looking for  *)
(* "Host" finds them; "noTarget": there is no space in its first line;     *)
(* "badUrl": Host and path make none; "badLength": Content-Length is       *)
(* negative or more than there is); readable: ReadRequest accepts it.      *)
AskType ==
  [connect : BOOLEAN, port443 : BOOLEAN, hello : {"tls", "part", "plain", "none"},
   kind : {"page", "cert", "upgrade", "halfUpgrade"}, valid : BOOLEAN,
   early : BOOLEAN, eager : BOOLEAN, body : {"none", "known", "chunked"}, ends : BOOLEAN,
   takes : BOOLEAN, clear : {"fine", "lossy", "noTarget", "badUrl", "badLength"},
   readable : BOOLEAN]

(* Silent targets accept a connection and say nothing, deaf ones do not    *)
(* even take a body; stalling ones do not finish a response, and others    *)
(* break it off.  form: how they delimit and encode it, "badGzip" being    *)
(* what is said to be gzip and is not.                                     *)
TargetType ==
  [mood : {"answers", "breaks", "stalls", "refuses", "silent", "deaf"},
   form : {"known", "unknown", "gzip", "badGzip"}]

ASSUME HttpAssumption ==
  /\ Ask \subseteq AskType /\ Target \subseteq TargetType
  /\ Intercepts \in BOOLEAN

VARIABLES
  ask, target, \* the scenario
  asked,       \* how many requests the client has sent
  gone,        \* the client has closed
  locked,      \* a name that does not split has left the cache's mutex locked
  pc,          \* where Handle is
  conn,        \* the connection to the client is open
  links,       \* the connections to the target that are open
  secure,      \* i.tls and i.conn: the tunnel speaks TLS
  edited,      \* what a handler has changed, or was read only in part
  late,        \* the deadline of the tunnel has passed
  replies,     \* what the client has been sent
  crashed      \* the process panicked

clientVars == <<ask, target, asked, gone, locked>>
httpVars == <<clientVars, pc, conn, links, secure, edited, late, replies, crashed>>

HttpInit ==
  /\ ask \in Ask /\ target \in Target
  /\ asked = 0 /\ gone = FALSE /\ locked \in BOOLEAN
  /\ pc = "read" /\ conn = TRUE /\ links = {}
  /\ secure = FALSE /\ edited = {} /\ late = FALSE
  /\ replies = <<>> /\ crashed = FALSE

-----------------------------------------------------------------------------
(* The client, and a call of another connection to the cache. *)

(* It sends its request, or CONNECT and, once told, the request within. *)
Send ==
  /\ conn /\ ~gone
  /\ \/ asked = 0
     \/ asked = 1 /\ ask.connect /\ ~ask.eager /\ ask.hello # "none" /\ replies = <<"tunnel">>
  /\ asked' = IF ask.connect /\ ask.eager THEN 2 ELSE asked + 1
  /\ UNCHANGED <<ask, target, gone, locked, pc, conn, links, secure, edited, late, replies, crashed>>

Leave ==
  /\ conn /\ ~gone
  /\ gone' = TRUE
  /\ UNCHANGED <<ask, target, asked, locked, pc, conn, links, secure, edited, late, replies, crashed>>

(* GetCertificate returns without its Unlock. *)
LeaveLocked ==
  /\ locked' = TRUE
  /\ UNCHANGED <<ask, target, asked, gone, pc, conn, links, secure, edited, late, replies, crashed>>

-----------------------------------------------------------------------------
(* Handle returns: handle's deferred function is next. *)
Quit == pc' = "event"
Goto(l) == pc' = l

(* A write to the client that nobody waits for the result of. *)
Reply(r) == replies' = IF gone THEN replies ELSE Append(replies, r)

(* A long one waits for the client to take it; the deadline of a tunnel    *)
(* cuts it, or was there first.                                            *)
Deliver(r) ==
  \/ ~late /\ (ask.takes \/ gone) /\ Reply(r) /\ UNCHANGED late
  \/ secure /\ late' = TRUE /\ ((~late /\ Reply("cut")) \/ UNCHANGED replies)

Reachable == target.mood # "refuses"
Mute == target.mood \in {"silent", "deaf"}

(* DialContext dials twice and returns the second connection, l; the first *)
(* one stays open when the second dial fails as well.                      *)
DialContext(l) == links' = links \cup {l, "spare"}
DialContextFails == links' = IF Reachable THEN links \cup {"spare"} ELSE links

(* Upgrader.returnError writes to a recorder that is dropped: the client   *)
(* gets no answer.                                                         *)
ReturnError == Quit

(* http.ReadRequest, then by method.  What an eager client has sent by then *)
(* ends in i.reader, which nobody reads any more.                          *)
ReadRequest ==
  /\ pc = "read"
  /\ \/ asked > 0 /\ ask.readable
        /\ asked' \in {1, asked} /\ Goto(IF ask.connect THEN "test" ELSE "request")
     \/ (IF asked > 0 THEN ~ask.readable ELSE gone) /\ Quit /\ UNCHANGED asked
  /\ UNCHANGED <<ask, target, gone, locked, conn, links, secure, edited, late, replies, crashed>>

(* A dial (port 443: and a TLS handshake without a timeout) that only      *)
(* shows whether the target can be reached.                                *)
TestDial ==
  /\ pc = "test" /\ Reachable
  /\ ~(ask.port443 /\ Mute)
  /\ links' = links \cup {"test"}
  /\ Goto("established")
  /\ UNCHANGED <<clientVars, conn, secure, edited, late, replies, crashed>>

(* Mutant: the outcome of the dial is not looked at. *)
TestDialFailGoesOn ==
  /\ pc = "test" /\ (~Reachable \/ (ask.port443 /\ ~Mute))
  /\ Reply("tunnel") /\ Goto("established")
  /\ UNCHANGED <<clientVars, conn, links, secure, edited, late, crashed>>

(* No connection, or a handshake that fails: tls.Dial then closes it.      *)
TestDialFail ==
  /\ pc = "test" /\ (~Reachable \/ (ask.port443 /\ ~Mute))
  /\ Reply("502") /\ Quit
  /\ UNCHANGED <<clientVars, conn, links, secure, edited, late, crashed>>

(* Mutant: the connection of the test is kept. *)
EstablishedLeaks ==
  /\ pc = "established"
  /\ Reply("tunnel")
  /\ Goto("certificate") \/ (gone /\ Quit)
  /\ UNCHANGED <<clientVars, conn, links, secure, edited, late, crashed>>

(* It is closed again, and the client told. *)
Established ==
  /\ pc = "established"
  /\ links' = links \ {"test"}
  /\ Reply("tunnel")
  /\ Goto("certificate") \/ (gone /\ Quit)
  /\ UNCHANGED <<clientVars, conn, secure, edited, late, crashed>>

(* GetCertificate (module CertCache) takes the mutex of the cache first.   *)
Certificate ==
  /\ pc = "certificate" /\ ~locked
  /\ Goto("hello") \/ Quit
  /\ UNCHANGED <<clientVars, conn, links, secure, edited, late, replies, crashed>>

(* It reads the map again without the lock, while another call writes to   *)
(* it: the Go runtime ends the process.                                    *)
CertificateRace ==
  /\ pc = "certificate" /\ ~locked
  /\ crashed' = TRUE
  /\ UNCHANGED <<clientVars, pc, conn, links, secure, edited, late, replies>>

(* The handshake, without a deadline; then one of 60 seconds for the rest. *)
Handshake ==
  /\ pc = "hello" /\ asked = 2 /\ ask.hello = "tls"
  /\ secure' = TRUE
  /\ Goto("inner")
  /\ UNCHANGED <<clientVars, conn, links, edited, late, replies, crashed>>

(* A part of what the client sent is in the reader of CONNECT, and only    *)
(* the rest reaches the handshake.                                         *)
Swallowed == ask.eager /\ asked = 1

(* The client leaves or rejects the certificate, or what is left of its    *)
(* hello is nothing.                                                       *)
HandshakeFail ==
  /\ pc = "hello"
  /\ gone \/ (asked = 2 /\ ask.hello = "tls") \/ Swallowed
  /\ Quit
  /\ UNCHANGED <<clientVars, conn, links, secure, edited, late, replies, crashed>>

Lossy == ask.clear = "lossy" \/ Swallowed

(* handleWsHandshakeErr: what is not TLS is taken from the bytes that the  *)
(* handshake's last read left behind.  A URL that does not parse ends it.  *)
(* A first line without a target panics where Host is found, and a body    *)
(* that is not all there, or shorter than nothing, where it is sliced off. *)
HandshakePlain ==
  /\ pc = "hello" /\ ask.hello = "plain" /\ (asked = 2 \/ Swallowed)
  /\ \/ ask.kind = "upgrade" /\ (ask.clear \in {"fine", "lossy"} \/ Swallowed)
        /\ Goto("upgrade") /\ UNCHANGED crashed
     \/ /\ \/ Lossy \/ ask.clear = "badUrl"
           \/ ask.kind # "upgrade" /\ ask.clear = "fine"
        /\ Quit /\ UNCHANGED crashed
     \/ /\ ask.clear \in {"noTarget", "badLength"} \/ Swallowed \/ (Lossy /\ ask.body = "known")
        /\ crashed' = TRUE /\ UNCHANGED pc
  /\ UNCHANGED <<clientVars, conn, links, secure, edited, late, replies>>

(* The request inside TLS is read, before the deadline or not. *)
ReadInner ==
  /\ pc = "inner"
  /\ \/ /\ ask.readable
        /\ \/ ask.kind \in {"page", "cert"} /\ Goto("request")
           \/ ask.kind = "upgrade" /\ Goto("upgrade")
           \/ ask.kind = "halfUpgrade" /\ Quit
     \/ Quit
  /\ UNCHANGED <<clientVars, conn, links, secure, edited, late, replies, crashed>>

-----------------------------------------------------------------------------
(* handleWsRequest. *)

(* Upgrade finds the request wanting: it answers the recorder. *)
UpgradeRefused ==
  /\ pc = "upgrade" /\ (~ask.valid \/ (~secure /\ Lossy))
  /\ ReturnError
  /\ UNCHANGED <<clientVars, conn, links, secure, edited, late, replies, crashed>>

(* There are bytes in i.reader, frames behind the request or, in the clear, *)
(* what came with CONNECT; or the write fails: Upgrade closes the          *)
(* connection itself.                                                      *)
UpgradeBroken ==
  /\ pc = "upgrade" /\ ask.valid
  /\ gone \/ (secure /\ ask.early) \/ (~secure /\ Swallowed)
  /\ conn' = FALSE
  /\ Quit
  /\ UNCHANGED <<clientVars, links, secure, edited, late, replies, crashed>>

(* The client is told before the target is dialled. *)
Upgrade ==
  /\ pc = "upgrade" /\ ask.valid
  /\ IF secure THEN ~ask.early ELSE ~Swallowed
  /\ Reply("101")
  /\ Goto("wsdial")
  /\ UNCHANGED <<clientVars, conn, links, secure, edited, late, crashed>>

(* The same, but no Host header was found: there is no URL to take the     *)
(* target from, and the access to its path panics.                         *)
UpgradeNoUrl ==
  /\ pc = "upgrade" /\ ask.valid /\ ~secure /\ Lossy /\ ~Swallowed
  /\ Reply("101")
  /\ crashed' = TRUE
  /\ UNCHANGED <<clientVars, pc, conn, links, secure, edited, late>>

(* Dialer.Dial: the target accepts the handshake. *)
WsDial ==
  /\ pc = "wsdial" /\ target.mood = "answers"
  /\ DialContext("ws")
  /\ Goto("relay")
  /\ UNCHANGED <<clientVars, conn, secure, edited, late, replies, crashed>>

(* Mutant: the 10 seconds do not apply to wss either. *)
WsDialFailNoTimeout ==
  /\ pc = "wsdial"
  /\ target.mood \in {"answers", "breaks", "refuses"}
  /\ Quit
  /\ DialContextFails
  /\ UNCHANGED <<clientVars, conn, secure, edited, late, replies, crashed>>

(* It is refused, answered with something else than 101, or, when it is    *)
(* wss, not answered within 10 seconds; for ws there is no timeout.        *)
WsDialFail ==
  /\ pc = "wsdial"
  /\ secure \/ target.mood \in {"answers", "breaks", "refuses"}
  /\ Quit
  /\ DialContextFails
  /\ UNCHANGED <<clientVars, conn, secure, edited, late, replies, crashed>>

(* The session, module WsRelay, ends; its deferred Close of the target.    *)
Relayed ==
  /\ pc = "relay"
  /\ links' = links \ {"ws"}
  /\ Quit
  /\ UNCHANGED <<clientVars, conn, secure, edited, late, replies, crashed>>

-----------------------------------------------------------------------------
(* handleRequest. *)

(* The path /tls: the root certificate. *)
ServeCert ==
  /\ pc = "request" /\ ask.kind = "cert"
  /\ Deliver("cert") /\ Quit
  /\ UNCHANGED <<clientVars, conn, links, secure, edited, crashed>>

(* The body is read, without a deadline if the request came outright.  The *)
(* error of a client that leaves, or of the deadline, is dropped.          *)
ReadBody == (ask.body = "none" \/ ask.ends) /\ UNCHANGED late
CutBody == ask.body # "none" /\ (gone \/ secure) /\ late' = (late \/ ~gone)

(* It is handed to the handler, which passes it on, changes it, or returns *)
(* false.                                                                  *)
HandleRequest ==
  /\ pc = "request" /\ ask.kind # "cert"
  /\ \/ ReadBody /\ UNCHANGED edited
     \/ CutBody /\ edited' = edited \cup {"request"}
     \/ Intercepts /\ (ReadBody \/ CutBody) /\ edited' = edited \cup {"request"}
  /\ Goto("transport") \/ (Intercepts /\ Quit)
  /\ UNCHANGED <<clientVars, conn, links, secure, replies, crashed>>

(* The request's length is still the one it came with. *)
LengthRefused == "request" \in edited /\ ask.body = "known"

Transport ==
  /\ pc = "transport" /\ target.mood \in {"answers", "breaks", "stalls"} /\ ~LengthRefused
  /\ DialContext("request")
  /\ Goto("response")
  /\ UNCHANGED <<clientVars, conn, secure, edited, late, replies, crashed>>

(* RoundTrip has a timeout for the head of the response, none for the body *)
(* of the request.                                                         *)
BodyStuck == target.mood = "deaf" /\ (ask.body # "none" \/ "request" \in edited)

(* No connection, no response within the timeouts, or a body that does not *)
(* match its length: the client is sent nothing.                           *)
TransportFail ==
  /\ pc = "transport" /\ ~BodyStuck
  /\ Quit
  /\ DialContextFails
  /\ UNCHANGED <<clientVars, conn, secure, edited, late, replies, crashed>>

(* What ReadResponseBody and the handler, edit if it sets another body,    *)
(* make of a response: the error of a body that breaks off, or does not    *)
(* decode, is dropped with what was still to come.                         *)
Content(edit) ==
  IF edit \/ (target.mood # "breaks" /\ target.form # "badGzip") THEN "page" ELSE "short"

(* Response.Write goes by the length the response came with, if it has     *)
(* one.  A gzip encoding is undone by http.Transport, which then forgets   *)
(* the length, or, if the client asked for a range, by ReadResponseBody,   *)
(* which does not.                                                         *)
WriteResponse(edit) ==
  \/ /\ ~(target.form = "known" /\ target.mood = "breaks" /\ ~edit)
     /\ Deliver(Content(edit))
  \/ /\ target.form # "unknown"
     /\ edit \/ target.mood = "breaks" \/ target.form # "known"
     /\ Deliver("cut")

(* The transport closes its connection at the end of the body, or at an    *)
(* error of it.  Neither comes to pass when the decoder gives up before,   *)
(* and nobody closes the body.                                             *)
HandleResponse ==
  /\ pc = "response" /\ target.mood # "stalls"
  /\ \/ links' = links \ {"request"}
     \/ target.form = "badGzip" /\ UNCHANGED links
  /\ \/ WriteResponse(FALSE) /\ UNCHANGED edited
     \/ Intercepts /\ WriteResponse(TRUE) /\ edited' = edited \cup {"response"}
     \/ Intercepts /\ UNCHANGED <<edited, late, replies>>
  /\ Quit
  /\ UNCHANGED <<clientVars, conn, secure, crashed>>

(* handle's deferred function: the close event and Close. *)
CloseClient ==
  /\ pc = "event"
  /\ conn' = FALSE
  /\ Goto("closed")
  /\ UNCHANGED <<clientVars, links, secure, edited, late, replies, crashed>>

Handle ==
  \/ ReadRequest \/ TestDial \/ TestDialFail \/ Established
  \/ Certificate \/ CertificateRace
  \/ Handshake \/ HandshakeFail \/ HandshakePlain \/ ReadInner
  \/ UpgradeRefused \/ UpgradeBroken \/ Upgrade \/ UpgradeNoUrl
  \/ WsDial \/ WsDialFail \/ Relayed
  \/ ServeCert \/ HandleRequest \/ Transport \/ TransportFail \/ HandleResponse
  \/ CloseClient

HttpNext == ~crashed /\ (Handle \/ Send \/ Leave \/ LeaveLocked)

HttpSpec == HttpInit /\ [][HttpNext]_httpVars

(* The handler's goroutine runs, and what has a timeout times out. *)
HttpFairSpec == HttpSpec /\ WF_httpVars(~crashed /\ Handle)

-----------------------------------------------------------------------------
Told(r) == r \in {replies[i] : i \in DOMAIN replies}

(* A client gets at most one answer, behind "Connection Established" if it *)
(* asked for a tunnel, and the one that belongs to its request: a client   *)
(* that did not ask for an upgrade, or asked badly, is never sent 101, one *)
(* that asked for a page never the certificate.  An answer is cut only by  *)
(* the deadline of the tunnel or where its length went with it: a handler  *)
(* changed the body, the target broke off, or it was encoded.  What is     *)
(* less than the target meant and looks whole comes of a target that broke *)
(* off, or encoded badly.                                                  *)
AnswersMatch ==
  LET answer == IF ask.connect THEN SubSeq(replies, 2, Len(replies)) ELSE replies
  IN /\ ask.connect /\ replies # <<>> =>
          replies[1] \in {"502", "tunnel"} /\ (replies[1] = "502" => answer = <<>>)
     /\ Len(answer) <= 1
     /\ Told("101") => ask.connect /\ ask.kind = "upgrade" /\ ask.valid
     /\ Told("cert") => ask.kind = "cert"
     /\ Told("page") \/ Told("short") => ask.kind # "cert"
     /\ Told("cut") =>
          \/ secure /\ late
          \/ /\ ask.kind # "cert" /\ target.form # "unknown"
             /\ \/ "response" \in edited
                \/ target.mood = "breaks" \/ target.form \in {"gzip", "badGzip"}
     /\ Told("short") => target.mood = "breaks" \/ target.form = "badGzip"
     /\ Told("tunnel") => target.mood # "refuses"

(* The handler closes every connection to the target it was handed before  *)
(* it returns, with two exceptions: the first of DialContext's two         *)
(* connections, which it drops, and that of a response whose decoder gave  *)
(* up before the end of the body; both are left to the garbage collector   *)
(* or the target.                                                          *)
OnlySparesLeft ==
  pc = "closed" =>
    links \subseteq {"spare"} \cup (IF target.form = "badGzip" THEN {"request"} ELSE {})

(* Handle waits without limit for five things.  A client that has not      *)
(* begun what it was told it may, or not to the point where the handshake  *)
(* can tell, or whose beginning was swallowed with its CONNECT (both then  *)
(* wait for each other); outside TLS, one that does not finish its body or *)
(* take its answer.  A mutex of the cache that another connection left     *)
(* locked.  A target that takes a connection and says nothing (while it is *)
(* tested over TLS, or dialled for ws) or does not take a body, and one    *)
(* that does not finish a response.                                        *)
Waiting ==
  \/ pc = "hello" /\ (asked < 2 \/ ask.hello = "part") /\ ~gone
  \/ pc = "request" /\ ~secure /\ ~gone
     /\ IF ask.kind = "cert" THEN ~ask.takes ELSE ask.body # "none" /\ ~ask.ends
  \/ pc = "response" /\ ~secure /\ ~gone /\ ~ask.takes
  \/ pc = "certificate" /\ locked
  \/ pc = "test" /\ ask.port443 /\ Mute
  \/ pc = "wsdial" /\ ~secure /\ target.mood \in {"silent", "deaf", "stalls"}
  \/ pc = "transport" /\ BodyStuck
  \/ pc = "response" /\ target.mood = "stalls"

(* Whatever else happens, once it has read a request the handler moves on  *)
(* to a WebSocket session or returns.  The process dies in it only of the  *)
(* cache's unlocked read, or over a request in the clear of which headers  *)
(* are lost or make no target, URL or length.                              *)
HandleMovesOn ==
  pc # "read" ~> \/ pc \in {"relay", "closed"} \/ Waiting
                 \/ crashed /\ pc = "certificate"
                 \/ crashed /\ ask.hello = "plain" /\ (ask.clear # "fine" \/ ask.eager)
=============================================================================
