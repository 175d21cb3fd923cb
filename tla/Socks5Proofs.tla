----------------------------- MODULE Socks5Proofs -----------------------------
(***************************************************************************)
(* ProxySocks5.Handle for every set of requests, number of methods and     *)
(* length of an address: the replies and the target, what the handshake    *)
(* takes of the client's stream, and the relay behind it as a pipe.        *)
(***************************************************************************)
EXTENDS Socks5, RelayProofs

Success == <<"method", "success">>
Failure == <<"method", "failure">>

S5TypeOK ==
  /\ request \in Request
  /\ step \in {"peek", "greeting", "header", "addr", "port", "dial", "reply", "past"}
  /\ split \in BOOLEAN /\ eager \in BOOLEAN
  /\ used \in Nat
  /\ replies \in {<<>>, <<"method">>, Failure, Success}

(* The handshake is over when the setup is. *)
StepInv == session = "setup" <=> step # "past"

(* The client has been answered as far as the handshake has come, and all  *)
(* that follows it needs the success reply.                                *)
AnswerInv ==
  /\ step \in {"peek", "greeting"} => replies = <<>>
  /\ step \in {"header", "addr", "port", "dial", "reply"} => replies = <<"method">>
  /\ session \in {"ready", "relay"} => replies = Success
  /\ \A s \in Side : loop[s] # "off" => replies = Success

(* The target is there when success is replied, and never if failure was.  *)
TargetInv ==
  /\ step = "reply" => conn[Target]
  /\ step \notin {"reply", "past"} \/ replies = Failure => ~conn[Target]

(* A client that waits for the replies has sent whole messages, and no     *)
(* more of them than it has been invited to.                               *)
SentInv ==
  ~eager /\ replies # Success =>
    \/ sent[Client] \in {0, GreetingEnd}
    \/ replies # <<>> /\ sent[Client] = RequestEnd

(* If, besides, the network delivers them whole, they are in the reader's  *)
(* buffer whole, and the handshake ends where the request does.            *)
TakenInv ==
  ~eager /\ ~split =>
    /\ step = "peek" => used = 0
    /\ step \in {"peek", "greeting"} => taken[Client] \in {0, GreetingEnd} /\ used <= taken[Client]
    /\ step = "header" =>
         /\ used >= GreetingEnd /\ used < HeaderEnd /\ used <= taken[Client]
         /\ taken[Client] \in {GreetingEnd, RequestEnd}
    /\ step = "addr" => used = HeaderEnd /\ taken[Client] = RequestEnd
    /\ step = "port" => used = AddrEnd /\ taken[Client] = RequestEnd
    /\ step \in {"dial", "reply"} \/ session = "ready" =>
         used = RequestEnd /\ taken[Client] = RequestEnd
    /\ loop[Client] # "off" => used = RequestEnd /\ first[Client] = RequestEnd

HandshakeInv ==
  /\ S5TypeOK
  /\ StepInv /\ AnswerInv /\ TargetInv /\ SentInv /\ TakenInv

S5IInv == RelayIInv /\ HandshakeInv

-----------------------------------------------------------------------------
(* Appending to one element makes a pair. *)
LEMMA AppendOne ==
  ASSUME NEW m, NEW a
  PROVE  Append(<<m>>, a) = <<m, a>>
<1> DEFINE S == {m, a}
           u == <<m>>
           r == <<m, a>>
<1>1. u \in Seq(S) /\ Len(u) = 1 /\ u[1] = m /\ a \in S
  OBVIOUS
<1>2. r \in Seq(S) /\ Len(r) = 2 /\ r[1] = m /\ r[2] = a
  OBVIOUS
<1> HIDE DEF S, u, r
<1>3. PICK s : s = Append(u, a)
  OBVIOUS
<1>4. /\ s \in Seq(S) /\ Len(s) = Len(u) + 1
      /\ s[Len(u) + 1] = a /\ \A i \in 1..Len(u) : s[i] = u[i]
  BY <1>1, <1>3, AppendProperties
<1>5. Len(s) = 2 /\ s[1] = m /\ s[2] = a
  BY <1>1, <1>4
<1>6. s = r
  BY <1>2, <1>4, <1>5, SeqEqual
<1> QED
  BY <1>3, <1>6 DEF u, r

(* The answers so far are told apart, and the next one is appended.        *)
LEMMA Answers ==
  /\ <<>> \notin {<<"method">>, Failure, Success}
  /\ <<"method">> \notin {Failure, Success} /\ Failure # Success
  /\ Append(<<>>, "method") = <<"method">>
  /\ Append(<<"method">>, "success") = Success
  /\ Append(<<"method">>, "failure") = Failure
<1>1. /\ Len(<<>>) = 0 /\ Len(<<"method">>) = 1
      /\ Len(Failure) = 2 /\ Len(Success) = 2
      /\ Failure[2] = "failure" /\ Success[2] = "success"
  BY DEF Failure, Success
<1>2. /\ Append(<<>>, "method") = <<"method">>
      /\ Append(<<"method">>, "success") = Success
      /\ Append(<<"method">>, "failure") = Failure
  <2>1. Append(<<>>, "method") = <<"method">>
    OBVIOUS
  <2>2. /\ Append(<<"method">>, "success") = <<"method", "success">>
        /\ Append(<<"method">>, "failure") = <<"method", "failure">>
    BY AppendOne, Zenon
  <2> QED
    BY <2>1, <2>2, Zenon DEF Failure, Success
<1>3. <<>> \notin {<<"method">>, Failure, Success} /\ <<"method">> \notin {Failure, Success}
  BY <1>1
<1>4. Failure # Success
  BY <1>1
<1> QED
  BY <1>2, <1>3, <1>4

(* The messages follow each other. *)
LEMMA Ends ==
  ASSUME S5TypeOK
  PROVE  /\ request.addr \in Nat
         /\ GreetingEnd \in Nat /\ HeaderEnd \in Nat /\ AddrEnd \in Nat /\ RequestEnd \in Nat
         /\ 0 < GreetingEnd /\ GreetingEnd + 4 <= HeaderEnd
         /\ AddrEnd = HeaderEnd + request.addr /\ RequestEnd = AddrEnd + 2
<1>1. request.addr \in Nat
  BY Socks5Assumption DEF S5TypeOK
<1> QED
  BY <1>1, Socks5Assumption DEF GreetingEnd, HeaderEnd, AddrEnd, RequestEnd

(* Where the messages end depends on the request only.                     *)
LEMMA EndsUnchanged ==
  request' = request => UNCHANGED <<GreetingEnd, HeaderEnd, AddrEnd, RequestEnd>>
BY DEF GreetingEnd, HeaderEnd, AddrEnd, RequestEnd

(* Nothing runs but the handshake as long as it lasts. *)
LEMMA HandshakeIsSetupStep ==
  ASSUME RelayIInv, Handshake
  PROVE  SetupStep
<1>1. \A s \in Side : loop[s] = "off"
  BY DEF Handshake, RelayIInv, StartInv
<1>2. /\ session' \in {"setup", "ready", "relay", "ending", "event", "closed"}
      /\ UNCHANGED <<endpointVars, reset, first, chunk, buf, loop, got, stop>>
  BY DEF Handshake, Fill, ReadFail, Dispatch, ReadGreeting, ReplyMethod, ReadHeader,
         ReadAddr, ReadPort, Dial, DialFail, ReplyFail, ReplySuccess, UnchangedInSetup, GiveUp
<1>3. conn' \in [Side -> BOOLEAN]
  <2>1. conn' = conn \/ conn' = [conn EXCEPT ![Target] = TRUE]
    BY DEF Handshake, Fill, ReadFail, Dispatch, ReadGreeting, ReplyMethod, ReadHeader,
           ReadAddr, ReadPort, Dial, DialFail, ReplyFail, ReplySuccess
  <2> QED
    BY <2>1 DEF RelayIInv, TypeOK
<1>4. /\ taken' \in [Side -> Nat]
      /\ \A s \in Side : taken[s] <= taken'[s] /\ taken'[s] <= sent[s]
  <2>1. /\ taken \in [Side -> Nat] /\ sent \in [Side -> Nat]
        /\ \A s \in Side : taken[s] <= sent[s]
    BY DEF RelayIInv, TypeOK, DirInv, ChunkInv
  <2>2. CASE Fill
    <3>1. PICK n \in 1..(sent[Client] - taken[Client]) :
             taken' = [taken EXCEPT ![Client] = @ + n]
      BY <2>2 DEF Fill
    <3>2. n \in Nat /\ taken[Client] + n <= sent[Client]
      BY <2>1, <3>1, Sides
    <3> QED
      BY <2>1, <3>1, <3>2, Sides
  <2>3. CASE taken' = taken
    BY <2>1, <2>3
  <2> QED
    BY <2>2, <2>3 DEF Handshake, ReadFail, Dispatch, ReadGreeting, ReplyMethod, ReadHeader,
                      ReadAddr, ReadPort, Dial, DialFail, ReplyFail, ReplySuccess
<1> QED
  BY <1>1, <1>2, <1>3, <1>4 DEF SetupStep

(* So are the steps that follow it, and the client's sends are a step of   *)
(* an endpoint that sends whole messages.                                  *)
LEMMA RelayStepIsNext == RelayStep => Next
BY Sides DEF RelayStep, Next, Endpoint

(* A client sends more, and does nothing else.                             *)
LEMMA ClientSends ==
  ASSUME RelayIInv, S5TypeOK, ClientSend
  PROVE  /\ sent' \in [Side -> Nat] /\ \A s \in Side : sent'[s] >= sent[s]
         /\ UNCHANGED <<peer, reset, relayVars, s5Only>>
<1>1. PICK n \in Nat : n >= sent[Client] /\ sent' = [sent EXCEPT ![Client] = n]
  <2>1. sent[Client] \in Nat
    BY Sides DEF RelayIInv, TypeOK
  <2>2. /\ 0 <= GreetingEnd /\ GreetingEnd <= RequestEnd
        /\ GreetingEnd \in Nat /\ RequestEnd \in Nat
    BY Ends
  <2> QED
    BY <2>1, <2>2 DEF ClientSend
<1> QED
  BY <1>1, Sides DEF ClientSend, RelayIInv, TypeOK

-----------------------------------------------------------------------------
(* The steps of the handshake. *)

(* The steps of Handle before the relay.                                   *)
LEMMA HandshakeIInv ==
  ASSUME S5IInv, Handshake
  PROVE  S5IInv'
<1>1. RelayIInv'
  BY HandshakeIsSetupStep, SetupIInv DEF S5IInv
<1>2. /\ UNCHANGED <<sent, first, loop, request, split, eager>>
      /\ UNCHANGED <<GreetingEnd, HeaderEnd, AddrEnd, RequestEnd>>
      /\ session = "setup" /\ step # "past" /\ \A s \in Side : loop[s] = "off"
  <2>1. UNCHANGED <<sent, first, loop, request, split, eager>> /\ session = "setup"
    BY DEF Handshake, Fill, ReadFail, Dispatch, ReadGreeting, ReplyMethod, ReadHeader, ReadAddr,
           ReadPort, Dial, DialFail, ReplyFail, ReplySuccess, UnchangedInSetup, endpointVars
  <2> QED
    BY <2>1, EndsUnchanged DEF S5IInv, HandshakeInv, StepInv, RelayIInv, StartInv
<1>3. /\ taken[Client] \in Nat /\ sent[Client] \in Nat /\ taken[Client] <= sent[Client]
      /\ conn \in [Side -> BOOLEAN] /\ taken \in [Side -> Nat] /\ Client \in Side /\ Target \in Side
  BY Sides DEF S5IInv, RelayIInv, TypeOK, DirInv, ChunkInv
<1>4. /\ request.addr \in Nat
      /\ GreetingEnd \in Nat /\ HeaderEnd \in Nat /\ AddrEnd \in Nat /\ RequestEnd \in Nat
      /\ 0 < GreetingEnd /\ GreetingEnd + 4 <= HeaderEnd
      /\ AddrEnd = HeaderEnd + request.addr /\ RequestEnd = AddrEnd + 2
  BY Ends DEF S5IInv, HandshakeInv
<1>5. HandshakeInv
  BY DEF S5IInv
<1>6. ASSUME Fill PROVE HandshakeInv'
  <2>1. PICK n \in 1..(sent[Client] - taken[Client]) :
          /\ split \/ n = sent[Client] - taken[Client]
          /\ taken' = [taken EXCEPT ![Client] = @ + n]
    BY <1>6 DEF Fill
  <2>2. /\ n \in Nat \ {0} /\ taken'[Client] = taken[Client] + n
        /\ ~split => taken'[Client] = sent[Client]
        /\ taken[Client] < sent[Client]
    BY <1>3, <2>1
  <2>3. /\ UNCHANGED <<conn, session, step, used, replies>>
        /\ step \in {"peek", "greeting", "header", "addr", "port"}
        /\ step = "peek" \/ taken[Client] - used = 0
    BY <1>6 DEF Fill, Starved, Buffered
  <2>4. S5TypeOK' /\ StepInv' /\ AnswerInv' /\ TargetInv' /\ SentInv'
    BY <1>2, <1>5, <2>3 DEF HandshakeInv, S5TypeOK, StepInv, AnswerInv, TargetInv, SentInv
  <2>5. ASSUME ~split, ~eager PROVE TakenInv'
    <3>1. /\ TakenInv /\ SentInv /\ AnswerInv /\ used \in Nat
          /\ taken'[Client] = sent[Client]
      BY <1>5, <2>2, <2>5 DEF HandshakeInv, S5TypeOK
    <3>2. replies # Success
      BY <2>3, <3>1, Answers DEF AnswerInv
    <3>3. CASE step = "peek" \/ step = "greeting"
      BY <1>2, <1>3, <1>4, <2>2, <2>3, <2>5, <3>1, <3>2, <3>3, SMTT(30) DEF TakenInv, SentInv, AnswerInv
    <3>4. CASE step = "header"
      BY <1>2, <1>3, <1>4, <2>2, <2>3, <2>5, <3>1, <3>2, <3>4 DEF TakenInv, SentInv, AnswerInv
    <3>5. step \notin {"addr", "port"}
      <4>1. step \in {"addr", "port"} => taken[Client] = RequestEnd /\ used \in {HeaderEnd, AddrEnd}
        BY <2>5, <3>1 DEF TakenInv
      <4> QED
        BY <1>3, <1>4, <2>3, <4>1
    <3> QED
      BY <2>3, <3>3, <3>4, <3>5
  <2> QED
    BY <1>2, <2>4, <2>5 DEF HandshakeInv, TakenInv
<1>7. ASSUME ReadFail PROVE HandshakeInv'
  BY <1>2, <1>3, <1>4, <1>5, <1>7
     DEF ReadFail, GiveUp, HandshakeInv, S5TypeOK,
         StepInv, AnswerInv, TargetInv, SentInv, TakenInv
<1>8. ASSUME Dispatch PROVE HandshakeInv'
  BY <1>2, <1>3, <1>4, <1>5, <1>8
     DEF Dispatch, HandshakeInv, S5TypeOK,
         StepInv, AnswerInv, TargetInv, SentInv, TakenInv
<1>9. ASSUME ReadGreeting PROVE HandshakeInv'
  <2>1. S5TypeOK' /\ StepInv' /\ SentInv'
    BY <1>2, <1>3, <1>4, <1>5, <1>9, Answers
       DEF ReadGreeting, Buffered, HandshakeInv, S5TypeOK, StepInv, AnswerInv, SentInv
  <2>2. AnswerInv' /\ TargetInv'
    BY <1>2, <1>3, <1>5, <1>9, Answers DEF ReadGreeting, Buffered, HandshakeInv, AnswerInv, TargetInv
  <2>3. ASSUME ~eager, ~split PROVE TakenInv'
    <3>1. /\ step = "greeting" /\ used \in Nat /\ used' = used + 1 /\ taken[Client] - used > 0
          /\ UNCHANGED <<taken, session, step>> /\ TakenInv
      BY <1>5, <1>9 DEF ReadGreeting, Buffered, HandshakeInv, S5TypeOK
    <3>2. used' <= taken[Client] /\ taken[Client] \in {0, GreetingEnd}
      BY <1>3, <2>3, <3>1 DEF TakenInv
    <3> QED
      BY <1>2, <1>3, <3>1, <3>2 DEF TakenInv
  <2> QED
    BY <1>2, <2>1, <2>2, <2>3 DEF HandshakeInv, TakenInv
<1>10. ASSUME ReplyMethod PROVE HandshakeInv'
  <2>1. S5TypeOK' /\ StepInv' /\ SentInv'
    BY <1>2, <1>3, <1>4, <1>5, <1>10, Answers
       DEF ReplyMethod, HandshakeInv, S5TypeOK, StepInv, AnswerInv, SentInv
  <2>2. AnswerInv' /\ TargetInv'
    BY <1>2, <1>3, <1>5, <1>10, Answers DEF ReplyMethod, HandshakeInv, AnswerInv, TargetInv
  <2>3. ASSUME ~eager, ~split PROVE TakenInv'
    BY <1>2, <1>3, <1>4, <1>5, <1>10, <2>3 DEF ReplyMethod, HandshakeInv, S5TypeOK, TakenInv
  <2> QED
    BY <1>2, <2>1, <2>2, <2>3 DEF HandshakeInv, TakenInv
<1>11. ASSUME ReadHeader PROVE HandshakeInv'
  <2>1. S5TypeOK' /\ StepInv' /\ SentInv'
    BY <1>2, <1>3, <1>4, <1>5, <1>11, Answers
       DEF ReadHeader, GiveUp, Buffered, HandshakeInv, S5TypeOK, StepInv, AnswerInv, SentInv
  <2>2. AnswerInv' /\ TargetInv'
    BY <1>2, <1>3, <1>5, <1>11, Answers DEF ReadHeader, GiveUp, Buffered, HandshakeInv, AnswerInv, TargetInv
  <2>3. ASSUME ~eager, ~split PROVE TakenInv'
    <3>1. /\ step = "header" /\ used \in Nat /\ used' = used + 1 /\ taken[Client] - used > 0
          /\ UNCHANGED taken
          /\ \/ step' = "past" /\ session' = "event"
             \/ /\ step' = IF used' = HeaderEnd THEN "addr" ELSE "header"
                /\ UNCHANGED session
      BY <1>5, <1>11 DEF ReadHeader, GiveUp, Buffered, HandshakeInv, S5TypeOK
    <3>2. /\ GreetingEnd < used' /\ used' <= HeaderEnd
          /\ used' <= taken[Client] /\ taken[Client] = RequestEnd
      BY <1>3, <1>4, <1>5, <2>3, <3>1 DEF HandshakeInv, TakenInv
    <3> QED
      BY <1>2, <1>3, <1>4, <3>1, <3>2 DEF TakenInv
  <2> QED
    BY <1>2, <2>1, <2>2, <2>3 DEF HandshakeInv, TakenInv
<1>12. ASSUME ReadAddr PROVE HandshakeInv'
  BY <1>2, <1>3, <1>4, <1>5, <1>12
     DEF ReadAddr, GiveUp, Buffered, HandshakeInv, S5TypeOK,
         StepInv, AnswerInv, TargetInv, SentInv, TakenInv
<1>13. ASSUME ReadPort PROVE HandshakeInv'
  <2>1. S5TypeOK' /\ StepInv' /\ SentInv'
    BY <1>2, <1>3, <1>4, <1>5, <1>13, Answers, SMTT(30)
       DEF ReadPort, Buffered, HandshakeInv, S5TypeOK, StepInv, AnswerInv, SentInv
  <2>2. AnswerInv' /\ TargetInv'
    BY <1>2, <1>3, <1>5, <1>13, Answers DEF ReadPort, Buffered, HandshakeInv, AnswerInv, TargetInv
  <2>3. ASSUME ~eager, ~split PROVE TakenInv'
    BY <1>2, <1>3, <1>4, <1>5, <1>13, <2>3 DEF ReadPort, Buffered, HandshakeInv, S5TypeOK, TakenInv
  <2> QED
    BY <1>2, <2>1, <2>2, <2>3 DEF HandshakeInv, TakenInv
<1>14. ASSUME Dial PROVE HandshakeInv'
  <2>1. S5TypeOK' /\ StepInv' /\ SentInv'
    BY <1>2, <1>3, <1>4, <1>5, <1>14, Answers
       DEF Dial, HandshakeInv, S5TypeOK, StepInv, AnswerInv, SentInv
  <2>2. AnswerInv' /\ TargetInv'
    BY <1>2, <1>3, <1>5, <1>14, Answers DEF Dial, HandshakeInv, AnswerInv, TargetInv
  <2>3. ASSUME ~eager, ~split PROVE TakenInv'
    BY <1>2, <1>3, <1>4, <1>5, <1>14, <2>3 DEF Dial, HandshakeInv, S5TypeOK, TakenInv
  <2> QED
    BY <1>2, <2>1, <2>2, <2>3 DEF HandshakeInv, TakenInv
<1>15. ASSUME DialFail PROVE HandshakeInv'
  <2>1. S5TypeOK' /\ StepInv' /\ SentInv'
    BY <1>2, <1>3, <1>4, <1>5, <1>15, Answers
       DEF DialFail, GiveUp, HandshakeInv, S5TypeOK, StepInv, AnswerInv, SentInv
  <2>2. AnswerInv' /\ TargetInv'
    BY <1>2, <1>3, <1>5, <1>15, Answers DEF DialFail, GiveUp, HandshakeInv, AnswerInv, TargetInv
  <2>3. ASSUME ~eager, ~split PROVE TakenInv'
    BY <1>2, <1>3, <1>4, <1>5, <1>15, <2>3 DEF DialFail, GiveUp, HandshakeInv, S5TypeOK, TakenInv
  <2> QED
    BY <1>2, <2>1, <2>2, <2>3 DEF HandshakeInv, TakenInv
<1>16. ASSUME ReplyFail PROVE HandshakeInv'
  BY <1>2, <1>3, <1>4, <1>5, <1>16
     DEF ReplyFail, HandshakeInv, S5TypeOK,
         StepInv, AnswerInv, TargetInv, SentInv, TakenInv
<1>17. ASSUME ReplySuccess PROVE HandshakeInv'
  <2>1. S5TypeOK' /\ StepInv' /\ SentInv'
    BY <1>2, <1>3, <1>4, <1>5, <1>17, Answers
       DEF ReplySuccess, HandshakeInv, S5TypeOK, StepInv, AnswerInv, SentInv
  <2>2. AnswerInv' /\ TargetInv'
    BY <1>2, <1>3, <1>5, <1>17, Answers DEF ReplySuccess, HandshakeInv, AnswerInv, TargetInv
  <2>3. ASSUME ~eager, ~split PROVE TakenInv'
    BY <1>2, <1>3, <1>4, <1>5, <1>17, <2>3 DEF ReplySuccess, HandshakeInv, S5TypeOK, TakenInv
  <2> QED
    BY <1>2, <2>1, <2>2, <2>3 DEF HandshakeInv, TakenInv
<1>18. HandshakeInv'
  BY <1>6, <1>7, <1>8, <1>9, <1>10, <1>11, <1>12, <1>13, <1>14, <1>15, <1>16, <1>17 DEF Handshake
<1> QED
  BY <1>1, <1>18 DEF S5IInv

-----------------------------------------------------------------------------
(* The steps of the client and of the relay. *)

(* A client that waits for the replies sends whole messages.               *)
LEMMA ClientSendIInv ==
  ASSUME S5IInv, ClientSend
  PROVE  S5IInv'
<1>1. /\ RelayIInv'
      /\ UNCHANGED <<conn, taken, first, loop, session, step, request, split, eager, used, replies>>
  <2>1. RelayIInv /\ S5TypeOK
    BY DEF S5IInv, HandshakeInv
  <2>2. /\ sent' \in [Side -> Nat] /\ \A s \in Side : sent'[s] >= sent[s]
        /\ UNCHANGED <<peer, reset, relayVars, s5Only>>
    BY <2>1, ClientSends
  <2>3. /\ peer' \in [Side -> {"open", "shut", "closed"}] /\ reset' \in [Side -> BOOLEAN]
        /\ \A s \in Side : peer[s] = "closed" => peer'[s] = "closed"
    BY <2>1, <2>2 DEF RelayIInv, TypeOK
  <2>4. RelayIInv'
    BY <2>1, <2>2, <2>3, SentIInv
  <2> QED
    BY <2>2, <2>4 DEF relayVars, s5Only
<1>2. UNCHANGED <<GreetingEnd, HeaderEnd, AddrEnd, RequestEnd>>
  BY <1>1, EndsUnchanged
<1>3. S5TypeOK' /\ StepInv' /\ AnswerInv' /\ TargetInv' /\ TakenInv'
  BY <1>1, <1>2 DEF S5IInv, HandshakeInv, S5TypeOK, StepInv, AnswerInv, TargetInv, TakenInv
<1>4. SentInv'
  <2> SUFFICES ASSUME ~eager, replies # Success
               PROVE  \/ sent'[Client] \in {0, GreetingEnd}
                      \/ replies # <<>> /\ sent'[Client] = RequestEnd
    BY <1>1, <1>2 DEF SentInv
  <2>1. replies \in {<<>>, <<"method">>, Failure}
    BY DEF S5IInv, HandshakeInv, S5TypeOK
  <2>2. "success" \notin {replies[i] : i \in DOMAIN replies}
    BY <2>1 DEF Failure
  <2>3. "method" \in {replies[i] : i \in DOMAIN replies} => replies # <<>>
    OBVIOUS
  <2>4. sent \in [Side -> Nat] /\ Client \in Side
    BY Sides DEF S5IInv, RelayIInv, TypeOK
  <2> QED
    BY <2>2, <2>3, <2>4 DEF ClientSend
<1> QED
  BY <1>1, <1>3, <1>4 DEF S5IInv, HandshakeInv

(* A step that moves the relay on, after the handshake, keeps what was     *)
(* established by it.                                                      *)
LEMMA AfterHandshake ==
  ASSUME S5IInv, RelayIInv', UNCHANGED s5Only, sent'[Client] = sent[Client],
         conn'[Target] \in BOOLEAN, conn'[Target] => conn[Target],
         \/ UNCHANGED <<conn, taken, first, loop, session>>
         \/ /\ session # "setup" /\ session' \notin {"setup", "ready"}
            /\ session' = "relay" => session \in {"ready", "relay"}
            /\ \A s \in Side : loop'[s] # "off" => loop[s] # "off" \/ session = "ready"
            /\ loop'[Client] # "off" =>
                 \/ session = "ready" /\ first' = taken
                 \/ loop[Client] # "off" /\ first' = first
  PROVE  S5IInv'
<1>1. /\ UNCHANGED <<step, request, split, eager, used, replies>>
      /\ UNCHANGED <<GreetingEnd, HeaderEnd, AddrEnd, RequestEnd>>
  BY EndsUnchanged DEF s5Only
<1>2. S5TypeOK' /\ SentInv'
  BY <1>1 DEF S5IInv, HandshakeInv, S5TypeOK, SentInv
<1>3. CASE UNCHANGED <<conn, taken, first, loop, session>>
  <2>1. StepInv' /\ AnswerInv' /\ TargetInv' /\ TakenInv'
    BY <1>1, <1>3 DEF S5IInv, HandshakeInv, StepInv, AnswerInv, TargetInv, TakenInv
  <2> QED
    BY <1>2, <2>1 DEF S5IInv, HandshakeInv
<1>4. CASE /\ session # "setup" /\ session' \notin {"setup", "ready"}
           /\ session' = "relay" => session \in {"ready", "relay"}
           /\ \A s \in Side : loop'[s] # "off" => loop[s] # "off" \/ session = "ready"
           /\ loop'[Client] # "off" =>
                 \/ session = "ready" /\ first' = taken
                 \/ loop[Client] # "off" /\ first' = first
  <2>1. step = "past" /\ StepInv'
    BY <1>1, <1>4 DEF S5IInv, HandshakeInv, StepInv
  <2>2. AnswerInv'
    BY <1>1, <1>4, <2>1 DEF S5IInv, HandshakeInv, AnswerInv
  <2>3. TargetInv'
    BY <1>1, <2>1 DEF S5IInv, HandshakeInv, TargetInv
  <2>4. TakenInv'
    BY <1>1, <1>4, <2>1 DEF S5IInv, HandshakeInv, TakenInv
  <2> QED
    BY <1>2, <2>1, <2>2, <2>3, <2>4 DEF S5IInv, HandshakeInv
<1> QED
  BY <1>3, <1>4

(* The relay leaves alone what the handshake has established.              *)
LEMMA RelayStepIInv ==
  ASSUME S5IInv, RelayStep
  PROVE  S5IInv'
<1>1. RelayIInv' /\ UNCHANGED s5Only
  BY RelayStepIsNext, NextRelayIInv DEF S5IInv, RelayStep
<1>2. /\ conn \in [Side -> BOOLEAN] /\ loop \in [Side -> {"off", "read", "handle", "signal", "ended"}]
      /\ conn' \in [Side -> BOOLEAN] /\ sent \in [Side -> Nat]
      /\ Client \in Side /\ Target \in Side /\ Client # Target
  BY <1>1, Sides, RelayAssumption DEF S5IInv, RelayIInv, TypeOK
<1>3. CASE Start
  BY <1>1, <1>2, <1>3, AfterHandshake DEF Start, endpointVars
<1>4. CASE ReceiveStop \/ CloseTarget \/ CloseClient
  <2>1. /\ session \in {"relay", "ending", "event"} /\ session' \in {"ending", "event", "closed"}
        /\ UNCHANGED <<sent, taken, first, loop>>
        /\ conn'[Target] => conn[Target]
    BY <1>2, <1>4 DEF ReceiveStop, CloseTarget, CloseClient, endpointVars
  <2> QED
    BY <1>1, <1>2, <2>1, AfterHandshake
<1>5. ASSUME NEW s \in Side, Transport(s) PROVE S5IInv'
  <2>1. /\ loop[s] # "off" /\ UNCHANGED <<sent, conn, first, session>>
        /\ \E l \in {"read", "handle", "signal", "ended"} : loop' = [loop EXCEPT ![s] = l]
    BY <1>5 DEF Transport, ReadData, ReadEof, ReadError, Write, WriteFail, Intercept, Signal,
                OnHandled, OnErr, endpointVars
  <2>2. session \notin {"setup", "ready"}
    BY <2>1 DEF S5IInv, RelayIInv, StartInv
  <2>3. \A q \in Side : loop'[q] # "off" => loop[q] # "off"
    BY <1>2, <2>1
  <2> QED
    BY <1>1, <1>2, <2>1, <2>2, <2>3, AfterHandshake
<1>6. ASSUME NEW s \in Side, Shut(s) \/ Close(s) PROVE S5IInv'
  BY <1>1, <1>2, <1>6, AfterHandshake DEF Shut, Close, relayVars
<1>7. CASE Send(Target)
  BY <1>1, <1>2, <1>7, AfterHandshake DEF Send, relayVars
<1> QED
  BY <1>3, <1>4, <1>5, <1>6, <1>7 DEF RelayStep, Handle

-----------------------------------------------------------------------------
(* The specification keeps the invariant. *)

(* The invariant holds at first,                                           *)
LEMMA S5InitIInv == S5Init => S5IInv /\ P!Init
<1> SUFFICES ASSUME S5Init PROVE S5IInv /\ P!Init
  OBVIOUS
<1>1. TypeOK /\ StartInv
  BY RelayAssumption, EmptySeq DEF S5Init, TypeOK, StartInv
<1>2. ASSUME NEW s \in Side PROVE DirInv(s)
  <2>1. /\ sent[s] = 0 /\ taken[s] = 0 /\ first[s] = 0 /\ chunk[s] = <<>>
        /\ loop[s] = "off" /\ got[Peer(s)] = <<>>
    BY Sides DEF S5Init
  <2>2. Len(chunk[s]) = 0 /\ Len(got[Peer(s)]) = 0
    BY <2>1
  <2> QED
    BY <2>1, <2>2 DEF DirInv, ChunkInv, ArrivedInv, PrefixInv
<1>3. HandshakeInv
  <2>1. /\ sent[Client] = 0 /\ taken[Client] = 0 /\ ~conn[Target]
        /\ \A s \in Side : loop[s] = "off"
    BY Sides, RelayAssumption DEF S5Init
  <2> QED
    BY <2>1, Answers, Sides DEF S5Init, HandshakeInv, S5TypeOK, StepInv, AnswerInv, TargetInv,
                                SentInv, TakenInv
<1>4. P!Init
  BY InitPipe DEF S5Init
<1> QED
  BY <1>1, <1>2, <1>3, <1>4 DEF S5IInv, RelayIInv

(* every step keeps it,                                                    *)
LEMMA S5NextIInv == S5IInv /\ [S5Next]_s5Vars => S5IInv'
<1> SUFFICES ASSUME S5IInv, [S5Next]_s5Vars PROVE S5IInv'
  OBVIOUS
<1>1. CASE UNCHANGED s5Vars
  <2>1. RelayIInv' /\ UNCHANGED <<request, step, split, eager, used, replies, conn, taken, first,
                                  loop, session, sent>>
    BY <1>1, UnchangedIInv DEF S5IInv, s5Vars, s5Only, vars
  <2>2. UNCHANGED <<GreetingEnd, HeaderEnd, AddrEnd, RequestEnd>>
    BY <2>1, EndsUnchanged
  <2> QED
    BY <2>1, <2>2 DEF S5IInv, HandshakeInv, S5TypeOK, StepInv, AnswerInv, TargetInv,
                      SentInv, TakenInv
<1> QED
  BY <1>1, HandshakeIInv, ClientSendIInv, RelayStepIInv DEF S5Next

(* so it holds always.                                                     *)
LEMMA S5Invariant == S5Spec => []S5IInv
BY S5InitIInv, S5NextIInv, PTL DEF S5Spec

(* ProxySocks5.Handle: when messages arrive whole and the client waits for *)
(* the replies, the handshake consumes the greeting and the request and    *)
(* not a byte more, for every request, number of methods and length of an  *)
(* address.                                                                *)
THEOREM HandshakeTakesTheRequestHolds == S5Spec => []HandshakeTakesTheRequest
<1>1. S5IInv => HandshakeTakesTheRequest
  BY DEF S5IInv, HandshakeInv, TakenInv, HandshakeTakesTheRequest
<1> QED
  BY <1>1, S5Invariant, PTL

(* ProxySocks5.Handle and Transport: no data in either direction without   *)
(* the success reply.                                                      *)
THEOREM NoDataBeforeSuccessHolds == S5Spec => []NoDataBeforeSuccess
<1>1. S5IInv => NoDataBeforeSuccess
  <2> SUFFICES ASSUME S5IInv, NEW s \in Side, got[s] # <<>> \/ loop[s] # "off"
               PROVE  replies = Success
    BY DEF NoDataBeforeSuccess, Success
  <2>1. PICK q \in Side : loop[q] # "off"
    <3>1. Peer(s) \in Side /\ Peer(Peer(s)) = s
      BY Sides
    <3> QED
      BY <3>1 DEF S5IInv, RelayIInv, DirInv, ChunkInv
  <2> QED
    BY <2>1 DEF S5IInv, HandshakeInv, AnswerInv
<1> QED
  BY <1>1, S5Invariant, PTL

(* ProxySocks5.Handle: the method first, then at most one answer to the    *)
(* request, success only with a target and failure only without one.       *)
THEOREM RepliesInOrderHolds == S5Spec => RepliesInOrder
<1> DEFINE A == /\ replies' \in {<<>>, <<"method">>, <<"method", "failure">>,
                                 <<"method", "success">>}
                /\ replies' # replies /\ replies' = <<"method", "success">> => conn[Target]
                /\ replies' = <<"method", "failure">> => ~conn'[Target]
<1>1. ASSUME S5IInv, S5IInv', [S5Next]_s5Vars PROVE A
  <2>1. replies' \in {<<>>, <<"method">>, Failure, Success}
    BY <1>1 DEF S5IInv, HandshakeInv, S5TypeOK
  <2>2. ASSUME replies' # replies, replies' = Success PROVE conn[Target]
    <3>1. UNCHANGED replies \/ ReplyMethod \/ DialFail \/ ReplySuccess
      BY <1>1 DEF S5Next, Handshake, Fill, ReadFail, Dispatch, ReadGreeting, ReadHeader, ReadAddr,
                  ReadPort, Dial, ReplyFail, ClientSend, RelayStep, s5Only, s5Vars
    <3>2. ReplySuccess
      BY <1>1, <2>2, <3>1, Answers DEF ReplyMethod, DialFail, S5IInv, HandshakeInv, AnswerInv
    <3> QED
      BY <1>1, <3>2 DEF ReplySuccess, S5IInv, HandshakeInv, TargetInv
  <2>3. replies' = Failure => ~conn'[Target]
    BY <1>1 DEF S5IInv, HandshakeInv, TargetInv
  <2> QED
    BY <2>1, <2>2, <2>3 DEF Failure, Success
<1>2. S5IInv /\ S5IInv' /\ [S5Next]_s5Vars => [A]_s5Vars
  BY <1>1
<1> HIDE DEF A
<1>3. S5Spec => [][A]_s5Vars
  BY <1>2, S5Invariant, PTL DEF S5Spec
<1> QED
  BY <1>3 DEF A, RepliesInOrder

(* ProxySocks5.Handle and Transport: behind the handshake the connection   *)
(* is a pipe, whatever the network cut the handshake's messages into and   *)
(* whether or not the client waited.                                       *)
THEOREM S5Pipe ==
  ASSUME ~Intercepts
  PROVE  S5Spec => S5ImplementsPipe
<1>1. S5Init => P!Init
  BY S5InitIInv
<1>2. ASSUME S5IInv, S5IInv', [S5Next]_s5Vars
      PROVE  [P!Next]_<<PipeSent, PipeGot>>
  <2>1. RelayIInv /\ RelayIInv' /\ S5TypeOK
    BY <1>2 DEF S5IInv, HandshakeInv
  <2>2. CASE Handshake
    BY <2>1, <2>2, HandshakeIsSetupStep, SetupPipe
  <2>3. CASE ClientSend
    <3>1. /\ \A s \in Side : sent'[s] >= sent[s]
          /\ UNCHANGED <<loop, first, got>>
      BY <2>1, <2>3, ClientSends DEF relayVars
    <3> QED
      BY <2>1, <3>1, NothingArrives DEF P!Next
  <2>4. CASE RelayStep
    BY <2>1, <2>4, RelayStepIsNext, NextPipe
  <2>5. CASE UNCHANGED s5Vars
    BY <2>5, UnchangedPipe DEF s5Vars
  <2> QED
    BY <1>2, <2>2, <2>3, <2>4, <2>5 DEF S5Next
<1> QED
  BY <1>1, <1>2, S5Invariant, PTL DEF S5Spec, S5ImplementsPipe, ImplementsPipe, P!Spec
=============================================================================
