----------------------------- MODULE HeaderTokens -----------------------------
(***************************************************************************)
(* How the WebSocket handshakes read lists in headers: the helpers of      *)
(* Util.go.  A header is the sequence of its lines; a line is a sequence   *)
(* of lexemes: tokens, " ", ",", ";", "=", ":", "quoted" (a closed quoted  *)
(* string), "open" (one that is not closed, which is the rest of its line) *)
(* and "bad" (any other octet).  No token follows a token at once.         *)
(***************************************************************************)
EXTENDS Naturals, Sequences, SequencesExt, FiniteSetsExt

Space == " "
Comma == ","
Semicolon == ";"
Equals == "="
Colon == ":"
Separators == {Space, Comma, Semicolon, Equals, Colon, "quoted", "open", "bad"}
IsToken(x) == x \notin Separators
TokenAt(s, i) == i <= Len(s) /\ IsToken(s[i])

(* A quoted string that is not closed takes in the rest of its line. *)
Lexed(s) == \A i \in DOMAIN s : s[i] = "open" => i = Len(s)

(* Where the next lexeme that is no space is, from i on. *)
skipSpace(s, i) == Min({j \in i..Len(s) : s[j] # Space} \cup {Len(s) + 1})

(* ASCII case folding, of the tokens that are written both ways. *)
Fold(t) == CASE t = "Upgrade" -> "upgrade" [] t = "WebSocket" -> "websocket" [] OTHER -> t

(* Whether a line contains the token: it is read element by element, and   *)
(* given up at the first that is not one token.                            *)
LineContains(s, value) ==
  LET from[i \in 1..Len(s) + 1] ==
        LET t == skipSpace(s, i)
            next == skipSpace(s, t + 1)
        IN /\ TokenAt(s, t) /\ (next > Len(s) \/ s[next] = Comma)
           /\ Fold(s[t]) = value \/ (next <= Len(s) /\ from[next + 1])
  IN from[1]

tokenListContainsValue(header, value) ==
  \E l \in DOMAIN header : LineContains(header[l], value)

(* The position behind the value of a parameter, the "=" being at i: a     *)
(* token, a quoted string or nothing; an open string takes the whole line. *)
nextTokenOrQuoted(s, i) ==
  LET v == skipSpace(s, i + 1)
  IN IF v > Len(s) THEN v
     ELSE IF s[v] = "open" THEN Len(s) + 1
     ELSE IF TokenAt(s, v) \/ s[v] = "quoted" THEN skipSpace(s, v + 1)
     ELSE v

(* The extensions of a line: their names and the names of their            *)
(* parameters, in order, up to the first that is malformed.                *)
LineExtensions(s) ==
  LET params[i \in 1..Len(s) + 1] ==
        IF i > Len(s) \/ s[i] # Semicolon THEN [ok |-> TRUE, keys |-> {}, next |-> i]
        ELSE LET k == skipSpace(s, i + 1)
                 behind == skipSpace(s, k + 1)
                 next == IF behind <= Len(s) /\ s[behind] = Equals
                         THEN nextTokenOrQuoted(s, behind) ELSE behind
             IN IF ~TokenAt(s, k) \/ (next <= Len(s) /\ s[next] \notin {Comma, Semicolon})
                THEN [ok |-> FALSE, keys |-> {}, next |-> i]
                ELSE [params[next] EXCEPT !.keys = @ \cup {s[k]}]
      from[i \in 1..Len(s) + 1] ==
        LET t == skipSpace(s, i)
            p == params[skipSpace(s, t + 1)]
        IN IF ~TokenAt(s, t) \/ ~p.ok \/ (p.next <= Len(s) /\ s[p.next] # Comma) THEN <<>>
           ELSE <<[name |-> s[t], keys |-> p.keys]>>
                  \o (IF p.next > Len(s) THEN <<>> ELSE from[p.next + 1])
  IN from[1]

parseExtensions(header) ==
  LET upTo[l \in 0..Len(header)] ==
        IF l = 0 THEN <<>> ELSE upTo[l - 1] \o LineExtensions(header[l])
  IN upTo[Len(header)]

-----------------------------------------------------------------------------
(* What the grammar of RFC 2616 and RFC 6455 says: a line is cut at its    *)
(* commas, an extension at its semicolons, a parameter at its "=", and     *)
(* each piece must be whole.  A cut is the position before a piece.        *)

Trim(s) == SubSeq(s, skipSpace(s, 1), Max({0} \cup {i \in DOMAIN s : s[i] # Space}))

Cuts(s, sep) == {0} \cup {i \in DOMAIN s : s[i] = sep}
Piece(s, sep, c) == SubSeq(s, c + 1, Min({i \in Cuts(s, sep) : i > c} \cup {Len(s) + 1}) - 1)

OneToken(piece) == Len(Trim(piece)) = 1 /\ IsToken(Trim(piece)[1])
TheToken(piece) == Trim(piece)[1]

(* The elements of a list that are not behind one that is malformed. *)
Readable(s, Whole(_)) ==
  {c \in Cuts(s, Comma) : \A d \in Cuts(s, Comma) : d <= c => Whole(Piece(s, Comma, d))}

HasToken(header, value) ==
  \E l \in DOMAIN header : \E c \in Readable(header[l], OneToken) :
    Fold(TheToken(Piece(header[l], Comma, c))) = value

Value(piece) ==
  LET v == Trim(piece)
  IN v = <<>> \/ (Len(v) = 1 /\ (IsToken(v[1]) \/ v[1] \in {"quoted", "open"}))

Parameter(piece) ==
  /\ OneToken(Piece(piece, Equals, 0))
  /\ \A c, d \in Cuts(piece, Equals) \ {0} : c = d /\ Value(Piece(piece, Equals, c))

WholeExtension(piece) ==
  /\ OneToken(Piece(piece, Semicolon, 0))
  /\ \A c \in Cuts(piece, Semicolon) \ {0} : Parameter(Piece(piece, Semicolon, c))

ExtensionOf(piece) ==
  [name |-> TheToken(Piece(piece, Semicolon, 0)),
   keys |-> {TheToken(Piece(Piece(piece, Semicolon, c), Equals, 0)) : c \in Cuts(piece, Semicolon) \ {0}}]

Extensions(header) ==
  UNION {{ExtensionOf(Piece(header[l], Comma, c)) : c \in Readable(header[l], WholeExtension)} :
           l \in DOMAIN header}
=============================================================================
