---------------------------- MODULE MCWsHandshake -----------------------------
(* A browser's request is the usual one with one or two headers written    *)
(* another way; targets answer with this package or in their own words.    *)
EXTENDS WsHandshake
Usual ==
  [method |-> "GET", early |-> FALSE, whole |-> TRUE, tight |-> {}, connection |-> <<<<"Upgrade">>>>,
   upgrade |-> <<<<"websocket">>>>, version |-> <<<<"13">>>>, key |-> <<<<"k">>>>,
   extensions |-> <<>>, protocol |-> <<>>]
Lines ==
  [connection |-> {<<>>, <<<<"upgrade">>>>, <<<<"keep-alive", ",", " ", "Upgrade">>>>,
                   <<<<",", "upgrade">>>>, <<<<"keep-alive", " ", "x", ",", "upgrade">>>>,
                   <<<<>>, <<"upgrade">>>>, <<<<"keep-alive">>, <<"Upgrade">>>>,
                   <<<<"upgrade", "bad">>>>, <<<<"upgrade", ":", " ", "x">>>>},
   upgrade |-> {<<>>, <<<<"WebSocket">>>>, <<<<"h2c", ",", "websocket">>>>, <<<<>>>>},
   version |-> {<<>>, <<<<"8">>>>, <<<<"8", ",", " ", "13">>>>, <<<<>>, <<"13">>>>},
   key |-> {<<>>, <<<<>>>>, <<<<" ">>>>, <<<<"k", ":">>>>, <<<<"k", ":", " ", "x">>>>},
   extensions |-> {<<<<>>>>, <<<<" ">>>>, <<Deflate>>, <<<<"permessage-deflate", ";", "bad">>>>},
   protocol |-> {<<<<"a">>>>, <<<<"a", ",", " ", "b">>>>, <<<<"a", ",", "a">>>>, <<<<"a">>, <<"b">>>>,
                 <<<<"a", " ">>>>, <<<<" ">>>>, <<<<"a", ":", " ", "b">>>>}]
Two == [Usual EXCEPT !.protocol = <<<<"a">>, <<"b">>>>]
MCRequest ==
  {Usual, [Usual EXCEPT !.early = TRUE], [Usual EXCEPT !.method = "POST"]}
  \cup {[r EXCEPT !.whole = FALSE] : r \in {Usual, Two, [Usual EXCEPT !.protocol = <<<<"a", ",", "b">>>>]}}
  \cup {[Two EXCEPT !.tight = {<<f, Len(Two[f])>>}] : f \in Fields}
  \cup UNION {{[Usual EXCEPT ![f] = v, ![g] = w] : v \in Lines[f], w \in Lines[g] \cup {Usual[g]}} :
                f \in Fields, g \in {"upgrade", "protocol", "extensions"}}
Answered(p, e) ==
  [status |-> 101, upgrade |-> <<<<"WebSocket">>>>, connection |-> <<<<"upgrade">>>>,
   accept |-> <<"challenge">>, protocol |-> p, extensions |-> e, stalls |-> FALSE]
Fine == Answered(<<>>, <<>>)
Responses ==
  {Fine, [Fine EXCEPT !.status = 200], [Fine EXCEPT !.status = 302, !.stalls = TRUE],
   [Fine EXCEPT !.accept = <<"k">>], [Fine EXCEPT !.connection = <<<<"keep-alive", ",", "Upgrade">>>>],
   Answered(<<<<"b">>>>, <<>>), Answered(<<<<"c">>>>, <<Deflate>>),
   Answered(<<>>, <<<<"permessage-deflate", ";", "server_no_context_takeover">>>>),
   Answered(<<>>, <<<<"x", ";", "k", "=", "quoted", ",", " ">> \o Deflate \o <<"=", "open">>>>),
   Answered(<<>>, <<<<"permessage-deflate", ";", "client_no_context_takeover", "=", "bad">>, Deflate>>)}
Own == {[protocols |-> p, compression |-> c] :
          p \in {<<>>, <<<<"b">>, <<"a">>>>}, c \in BOOLEAN}
Of(mood, u, r) == [mood |-> mood, u |-> u, resp |-> r, behind |-> 2]
AnyOwn == [protocols |-> <<>>, compression |-> FALSE]
MCTarget ==
  {Of("upgrader", u, Fine) : u \in Own} \cup {Of("foreign", AnyOwn, r) : r \in Responses}
  \cup {Of(m, AnyOwn, Fine) : m \in {"silent", "hangsUp", "refuses"}}
=============================================================================
