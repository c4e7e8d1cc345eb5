--------------------------- MODULE SessionProofs ---------------------------
(***************************************************************************)
(* Proofs about Session, for every set of connections and requests, and    *)
(* every bound on what clients and routes do.                              *)
(***************************************************************************)
EXTENDS Session, TLAPS

-----------------------------------------------------------------------------
(* Sequences and tokens.                                                   *)

\* What Append does to the elements of a sequence.
LEMMA AppendFacts ==
  ASSUME NEW S, NEW s \in Seq(S), NEW e \in S
  PROVE  /\ Append(s, e) \in Seq(S)
         /\ Len(s) \in Nat
         /\ Len(Append(s, e)) = Len(s) + 1
         /\ \A i \in 1 .. Len(s) : Append(s, e)[i] = s[i]
         /\ Append(s, e)[Len(s) + 1] = e
         /\ Append(s, e) # <<>>
  OBVIOUS

\* What the elements of a sequence belong to.
LEMMA ElementFacts ==
  ASSUME NEW S, NEW s \in Seq(S), NEW i \in 1 .. Len(s)
  PROVE  s[i] \in S
  OBVIOUS

\* The tokens the server and Beast compute are tokens.
LEMMA TokenFacts ==
  ASSUME NEW r \in AnyRequest, NEW token \in HandlerTokens
  PROVE  RefusalToken(r) \in Tokens /\ RouteToken(r, token) \in Tokens
  BY TokensAssumption
     DEF RefusalToken, RouteToken, TokenFor, KeepAlive, MovedFrom, AnyRequest, Tokens

-----------------------------------------------------------------------------
(* Type correctness.  TypeOK bounds the responses of a route, and a write  *)
(* counts when it completes, so the bound needs to be known to have been   *)
(* checked when the write began.                                           *)

TypeInv ==
  /\ TypeOK
  /\ \A c \in Conns : pc[c] = "writing" => sends[c] < MaxSends

\* Type correctness: the initial states.
LEMMA TypeInit == Init => TypeInv
<1> SUFFICES ASSUME Init PROVE TypeInv
  OBVIOUS
<1> QED
  BY SendsAssumption DEF Init, TypeInv, TypeOK, States, Tokens, Ended

\* Type correctness: one case for each action.
LEMMA TypeNext == TypeInv /\ [Next]_vars => TypeInv'
<1> SUFFICES ASSUME TypeInv, [Next]_vars PROVE TypeInv'
  OBVIOUS
<1> USE DEF TypeInv, TypeOK
<1>1. CASE UNCHANGED vars
  BY <1>1 DEF vars
<1>2. ASSUME NEW c \in Conns, NEW r \in Requests, ClientSend(c, r) PROVE TypeInv'
  <2>1. /\ Append(asked[c], r) \in Seq(Requests)
        /\ Len(Append(asked[c], r)) = Len(asked[c]) + 1
    BY AppendFacts
  <2> QED
    BY <1>2, <2>1 DEF ClientSend, session
<1>3. ASSUME NEW c \in Conns, ClientFin(c) \/ ClientStall(c) \/ ClientReset(c)
      PROVE  TypeInv'
  BY <1>3 DEF ClientFin, ClientStall, ClientReset, session
<1>4. ASSUME NEW c \in Conns, Accept(c) PROVE TypeInv'
  BY <1>4 DEF Accept, States
<1>5. ASSUME NEW c \in Conns, ReadRequest(c) PROVE TypeInv'
  <2>1. asked[c][nread[c] + 1] \in AnyRequest
    BY <1>5, RequestsAssumption DEF ReadRequest
  <2>2. RefusalToken(asked[c][nread[c] + 1]) \in Tokens
    BY <2>1, TokenFacts, TokensAssumption
  <2>3. ASSUME NEW d \in Conns, NEW i \in 1 .. Len(out[d]) PROVE out[d][i].req \in Nat
    <3>1. out[d][i] \in Response
      BY ElementFacts
    <3> QED
      BY <3>1 DEF Response
  <2>4. CASE /\ asked[c][nread[c] + 1].target = "illegal"
             /\ Transmit(c, asked[c][nread[c] + 1], RefusalToken(asked[c][nread[c] + 1]),
                         "refusing")
    <3>1. flight' \in [Conns -> Tokens] /\ close' \in [Conns -> BOOLEAN]
      BY <2>2, <2>4 DEF Transmit, KeepAlive
    <3>2. pc' = [pc EXCEPT ![c] = "refusing"]
      BY <2>4 DEF Transmit
    <3>3. /\ nread' = [nread EXCEPT ![c] = nread[c] + 1] /\ nread[c] < Len(asked[c])
          /\ sends' = [sends EXCEPT ![c] = 0] /\ failed' = [failed EXCEPT ![c] = 0]
          /\ UNCHANGED <<asked, link, out>>
      BY <1>5 DEF ReadRequest
    <3> QED
      <4>1. \A d \in Conns : \A i \in 1 .. Len(out'[d]) : out'[d][i].req <= nread'[d]
        BY <2>3, <3>3
      <4> QED
        BY <4>1, <3>1, <3>2, <3>3, SendsAssumption DEF States
  <2>5. CASE pc' = [pc EXCEPT ![c] = "routing"] /\ UNCHANGED <<close, flight>>
    <3>1. /\ nread' = [nread EXCEPT ![c] = nread[c] + 1] /\ nread[c] < Len(asked[c])
          /\ sends' = [sends EXCEPT ![c] = 0] /\ failed' = [failed EXCEPT ![c] = 0]
          /\ UNCHANGED <<asked, link, out>>
      BY <1>5 DEF ReadRequest
    <3> QED
      <4>1. \A d \in Conns : \A i \in 1 .. Len(out'[d]) : out'[d][i].req <= nread'[d]
        BY <2>3, <3>1
      <4> QED
        BY <2>5, <3>1, <4>1, SendsAssumption DEF States
  <2> QED
    BY <1>5, <2>4, <2>5 DEF ReadRequest
<1>6. ASSUME NEW c \in Conns, ReadError(c) PROVE TypeInv'
  BY <1>6 DEF ReadError, States, Ended
<1>7. ASSUME NEW c \in Conns, NEW token \in HandlerTokens, RouteSend(c, token)
      PROVE  TypeInv'
  <2>1. Current(c) \in AnyRequest
    BY <1>7, RequestsAssumption DEF RouteSend, Current
  <2>2. RouteToken(Current(c), token) \in Tokens
    BY <2>1, TokenFacts
  <2>3. flight' \in [Conns -> Tokens] /\ close' \in [Conns -> BOOLEAN]
    BY <1>7, <2>2 DEF RouteSend, Transmit, KeepAlive
  <2> QED
    BY <1>7, <2>3, SendsAssumption DEF RouteSend, Transmit, States
<1>8. ASSUME NEW c \in Conns, WriteDone(c) PROVE TypeInv'
  <2>1. [req |-> nread[c], token |-> flight[c]] \in Response
    BY <1>8 DEF WriteDone, Response
  <2>2. /\ Written(c) \in Seq(Response)
        /\ \A i \in 1 .. Len(Written(c)) : Written(c)[i].req <= nread[c]
    BY <2>1, AppendFacts DEF Written
  <2>3. sends' \in [Conns -> 0 .. MaxSends]
    BY <1>8, SendsAssumption DEF WriteDone
  <2> QED
    BY <1>8, <2>2, <2>3 DEF WriteDone, States
<1>9. ASSUME NEW c \in Conns, WriteFail(c) PROVE TypeInv'
  <2>1. failed' \in [Conns -> Nat]
    BY <1>9 DEF WriteFail
  <2>2. pc' = [pc EXCEPT ![c] = "routing"] /\ pc[c] = "writing"
        /\ UNCHANGED <<asked, link, nread, close, flight, sends, out>>
    BY <1>9 DEF WriteFail
  <2> QED
    BY <2>1, <2>2 DEF States
<1>10. ASSUME NEW c \in Conns, RefusalDone(c) PROVE TypeInv'
  <2>1. [req |-> nread[c], token |-> flight[c]] \in Response
    BY <1>10 DEF RefusalDone, Response
  <2>2. /\ Written(c) \in Seq(Response)
        /\ \A i \in 1 .. Len(Written(c)) : Written(c)[i].req <= nread[c]
    BY <2>1, AppendFacts DEF Written
  <2> QED
    BY <1>10, <2>2 DEF RefusalDone, Resume, States, Ended
<1>11. ASSUME NEW c \in Conns, RefusalFail(c) \/ RouteThrow(c) PROVE TypeInv'
  BY <1>11 DEF RefusalFail, RouteThrow, States, Ended
<1>12. ASSUME NEW c \in Conns, RouteReturn(c) PROVE TypeInv'
  BY <1>12 DEF RouteReturn, Resume, States, Ended
<1> QED
  BY <1>1, <1>2, <1>3, <1>4, <1>5, <1>6, <1>7, <1>8, <1>9, <1>10, <1>11, <1>12
     DEF Next, Client, Step, Route

\* Every variable of the session keeps its type, no request is taken that was
\* not sent, and no response answers a request that was not taken.
THEOREM TypeCorrect == Spec => []TypeOK
<1>1. TypeInv => TypeOK
  BY DEF TypeInv
<1> QED
  BY <1>1, TypeInit, TypeNext, PTL DEF Spec

-----------------------------------------------------------------------------
(* What the last response decides, the life of "close" and the shutdown.   *)
(*                                                                         *)
(* "close" is set when a message starts to be written and tested when the  *)
(* route has returned.  ConnInv says what it means in between: it is false *)
(* while reading and until the route sends, it tells what the message in   *)
(* flight announces, and once that is written the last response on the     *)
(* wire announces the close, unless the write failed on a reset socket.    *)
(* Decided says that nobody forgets a response that announced the close    *)
(* before the same route has sent another.                                 *)

Answered(c) ==
  /\ out[c] # <<>>
  /\ out[c][Len(out[c])].req = nread[c]
  /\ Announces(c, Len(out[c]))

Superseded(c, i) == \E j \in i + 1 .. Len(out[c]) : out[c][j].req = out[c][i].req

\* The response to the current request announced the close, and will end it.
Pending(c, i) ==
  /\ out[c][i].req = nread[c]
  /\ pc[c] = "writing" \/ pc[c] \in Ended \/ (pc[c] = "routing" /\ close[c])

Decided(c) ==
  link[c] # "reset" =>
    \A i \in 1 .. Len(out[c]) : Announces(c, i) => Superseded(c, i) \/ Pending(c, i)

CloseMeans(c) ==
  /\ pc[c] \in {"idle", "reading"} => ~close[c]
  /\ pc[c] = "routing" /\ close[c] => sends[c] + failed[c] > 0
  /\ pc[c] \in {"writing", "refusing"} =>
       (close[c] <=> ~KeepAlive(Current(c).version, flight[c]))

ShutAnswered(c) ==
  /\ pc[c] = "routing" /\ close[c] /\ link[c] # "reset" => Answered(c)
  /\ pc[c] = "shut" => Answered(c)

ConnInv(c) == Decided(c) /\ CloseMeans(c) /\ ShutAnswered(c)

SafeInv == TypeInv /\ \A c \in Conns : ConnInv(c)

\* The inductive invariant: no connection has read or written anything yet.
LEMMA SafeInit == Init => SafeInv
<1> SUFFICES ASSUME Init PROVE SafeInv
  OBVIOUS
<1>1. ASSUME NEW c \in Conns PROVE ConnInv(c)
  BY <1>1 DEF Init, ConnInv, Decided, CloseMeans, ShutAnswered
<1> QED
  BY <1>1, TypeInit DEF SafeInv

\* A step of a session is about its own connection.
LEMMA StepLocal ==
  ASSUME TypeOK, NEW c \in Conns, Step(c), NEW d \in Conns, d # c
  PROVE  /\ asked' = asked /\ link' = link
         /\ pc'[d] = pc[d] /\ nread'[d] = nread[d] /\ close'[d] = close[d]
         /\ flight'[d] = flight[d] /\ sends'[d] = sends[d]
         /\ failed'[d] = failed[d] /\ out'[d] = out[d]
<1> USE DEF TypeOK
<1>1. CASE Accept(c)
  BY <1>1 DEF Accept
<1>2. CASE ReadRequest(c)
  BY <1>2 DEF ReadRequest, Transmit
<1>3. CASE ReadError(c)
  BY <1>3 DEF ReadError
<1>4. CASE \E token \in HandlerTokens : RouteSend(c, token)
  BY <1>4 DEF RouteSend, Transmit
<1>5. CASE RouteReturn(c)
  BY <1>5 DEF RouteReturn, Resume
<1>6. CASE RouteThrow(c)
  BY <1>6 DEF RouteThrow
<1>7. CASE WriteDone(c)
  BY <1>7 DEF WriteDone
<1>8. CASE WriteFail(c)
  BY <1>8 DEF WriteFail
<1>9. CASE RefusalDone(c)
  BY <1>9 DEF RefusalDone, Resume
<1>10. CASE RefusalFail(c)
  BY <1>10 DEF RefusalFail
<1> QED
  BY <1>1, <1>2, <1>3, <1>4, <1>5, <1>6, <1>7, <1>8, <1>9, <1>10 DEF Step, Route

\* What a client does keeps the session's state, the requests already sent and
\* a reset.
LEMMA ClientKeeps ==
  ASSUME TypeOK, NEW c \in Conns, Client(c), NEW d \in Conns
  PROVE  /\ UNCHANGED session
         /\ link[d] = "reset" => link'[d] = "reset"
         /\ Len(asked[d]) <= Len(asked'[d])
         /\ \A i \in 1 .. nread[d] : asked'[d][i] = asked[d][i]
<1> USE DEF TypeOK
<1>1. ASSUME NEW r \in Requests, ClientSend(c, r)
      PROVE  /\ Len(asked[d]) <= Len(asked'[d])
             /\ \A i \in 1 .. nread[d] : asked'[d][i] = asked[d][i]
  <2>1. /\ Len(Append(asked[c], r)) = Len(asked[c]) + 1
        /\ \A i \in 1 .. Len(asked[c]) : Append(asked[c], r)[i] = asked[c][i]
    BY AppendFacts
  <2> QED
    BY <1>1, <2>1 DEF ClientSend
<1>2. ASSUME NEW r \in Requests, ClientSend(c, r)
      PROVE  link' = link /\ UNCHANGED session
  BY <1>2 DEF ClientSend
<1>3. CASE ClientFin(c) \/ ClientStall(c) \/ ClientReset(c)
  BY <1>3 DEF ClientFin, ClientStall, ClientReset
<1> QED
  BY <1>1, <1>2, <1>3 DEF Client

\* The responses of d announce what they announced.
LEMMA AnnouncesKept ==
  ASSUME TypeOK, NEW d \in Conns, out'[d] = out[d],
         \A i \in 1 .. nread[d] : asked'[d][i] = asked[d][i]
  PROVE  \A i \in 1 .. Len(out[d]) : Announces(d, i)' = Announces(d, i)
<1> SUFFICES ASSUME NEW i \in 1 .. Len(out[d])
             PROVE  Announces(d, i)' = Announces(d, i)
  OBVIOUS
<1>1. out[d][i].req \in 1 .. nread[d]
  <2>1. out[d][i] \in Response
    BY ElementFacts DEF TypeOK
  <2> QED
    BY <2>1 DEF TypeOK, Response
<1> QED
  BY <1>1 DEF Announces

\* Nothing in ConnInv depends on what the client does next.
LEMMA Untouched ==
  ASSUME TypeOK, NEW d \in Conns, ConnInv(d),
         pc'[d] = pc[d], nread'[d] = nread[d], close'[d] = close[d],
         flight'[d] = flight[d], sends'[d] = sends[d], failed'[d] = failed[d],
         out'[d] = out[d],
         link[d] = "reset" => link'[d] = "reset",
         \A i \in 1 .. nread[d] : asked'[d][i] = asked[d][i]
  PROVE  ConnInv(d)'
<1>1. Decided(d)'
  <2>1. \A i \in 1 .. Len(out[d]) : Announces(d, i)' = Announces(d, i)
    BY AnnouncesKept
  <2> QED
    BY <2>1 DEF ConnInv, Decided, Superseded, Pending
<1>2. CloseMeans(d)'
  <2>1. pc[d] \in {"writing", "refusing"} => nread[d] \in 1 .. nread[d]
    BY DEF TypeOK
  <2> QED
    BY <2>1 DEF ConnInv, CloseMeans, Current
<1>3. Answered(d) => Answered(d)'
  <2>1. ASSUME Answered(d) PROVE out[d][Len(out[d])].req \in 1 .. nread[d]
    <3>1. out[d] \in Seq(Response) /\ Len(out[d]) \in 1 .. Len(out[d])
      BY <2>1 DEF Answered, TypeOK
    <3>2. out[d][Len(out[d])] \in Response
      BY <3>1, ElementFacts
    <3> QED
      BY <2>1, <3>1, <3>2 DEF Answered, TypeOK, Response
  <2> QED
    BY <2>1 DEF Answered, Announces
<1>4. ShutAnswered(d)'
  BY <1>3 DEF ConnInv, ShutAnswered
<1> QED
  BY <1>1, <1>2, <1>4 DEF ConnInv

\* A completed write appends a response to the request read last.
LEMMA WrittenFacts ==
  ASSUME TypeOK, NEW c \in Conns, pc[c] \in {"writing", "refusing"}, ConnInv(c),
         out' = [out EXCEPT ![c] = Written(c)], asked' = asked, link' = link,
         nread' = nread, close' = close, link[c] # "reset",
         close[c] => (pc'[c] = "routing" \/ pc'[c] \in Ended)
  PROVE  /\ Decided(c)'
         /\ close'[c] => Answered(c)'
<1> DEFINE e == [req |-> nread[c], token |-> flight[c]]
<1>1. e \in Response /\ out[c] \in Seq(Response)
  <2>1. nread[c] \in Nat \ {0} /\ flight[c] \in Tokens /\ out[c] \in Seq(Response)
    BY DEF TypeOK
  <2> QED
    BY <2>1 DEF Response
<1>2. out'[c] = Append(out[c], e)
  BY DEF TypeOK, Written
<1>3. /\ Len(out[c]) \in Nat /\ Len(out'[c]) = Len(out[c]) + 1
      /\ \A i \in 1 .. Len(out[c]) : out'[c][i] = out[c][i]
      /\ out'[c][Len(out[c]) + 1] = e /\ out'[c] # <<>>
  <2> HIDE DEF e
  <2> QED
    BY <1>1, <1>2, AppendFacts
<1>4. Decided(c)'
  <2>0. PICK n \in Nat : n = Len(out[c])
    BY <1>3
  <2>1. ASSUME NEW i \in 1 .. n, Announces(c, i)' PROVE Superseded(c, i)'
    <3>1. Announces(c, i)
      BY <1>3, <2>0, <2>1 DEF Announces
    <3>2. out'[c][i] = out[c][i] /\ n + 1 \in i + 1 .. n + 1 /\ Len(out'[c]) = n + 1
      BY <1>3, <2>0
    <3>3. CASE Superseded(c, i)
      <4>1. PICK j \in i + 1 .. n : out[c][j].req = out[c][i].req
        BY <2>0, <3>3 DEF Superseded
      <4>2. j \in i + 1 .. n + 1 /\ out'[c][j] = out[c][j]
        BY <1>3, <2>0, <4>1
      <4> QED
        BY <3>2, <4>1, <4>2 DEF Superseded
    <3>4. CASE Pending(c, i)
      <4>1. out'[c][n + 1].req = out'[c][i].req
        BY <1>3, <2>0, <3>2, <3>4 DEF Pending
      <4> QED
        BY <3>2, <4>1 DEF Superseded
    <3> QED
      BY <2>0, <3>1, <3>3, <3>4 DEF ConnInv, Decided
  <2>2. ASSUME Announces(c, n + 1)' PROVE Pending(c, n + 1)'
    <3>1. out'[c][n + 1].req = nread'[c] /\ ~KeepAlive(Current(c).version, flight[c])
      BY <1>3, <2>0, <2>2 DEF Announces, Current
    <3>2. close[c]
      BY <3>1 DEF ConnInv, CloseMeans
    <3> QED
      BY <3>1, <3>2 DEF Pending
  <2>3. \A i \in 1 .. Len(out'[c]) : i \in 1 .. n \/ i = n + 1
    BY <1>3, <2>0
  <2> QED
    BY <2>1, <2>2, <2>3 DEF Decided
<1>5. close'[c] => Answered(c)'
  <2> SUFFICES ASSUME close[c] PROVE Answered(c)'
    OBVIOUS
  <2>1. ~KeepAlive(asked[c][nread[c]].version, flight[c])
    BY DEF ConnInv, CloseMeans, Current
  <2> QED
    BY <1>3, <2>1 DEF Answered, Announces
<1> QED
  BY <1>4, <1>5

\* A step that writes nothing forgets no announced close, if what it leaves
\* pending is still pending.
LEMMA Quiet ==
  ASSUME TypeOK, NEW c \in Conns, ConnInv(c), out' = out, asked' = asked, link' = link,
         \A i : Pending(c, i) => Pending(c, i)'
  PROVE  Decided(c)'
<1>1. \A i \in 1 .. Len(out[c]) : Announces(c, i)' = Announces(c, i)
  BY DEF Announces
<1> QED
  BY <1>1 DEF ConnInv, Decided, Superseded

\* The inductive invariant: a step of the session keeps it for its connection.
LEMMA StepSafe ==
  ASSUME TypeInv, TypeInv', NEW c \in Conns, Step(c), ConnInv(c)
  PROVE  ConnInv(c)'
<1> USE DEF TypeInv
<1>1. CASE Accept(c)
  BY <1>1, Quiet DEF Accept, TypeOK, ConnInv, CloseMeans, ShutAnswered, Pending, Ended
<1>2. CASE ReadRequest(c)
  <2>1. Decided(c)'
    <3>1. pc[c] = "reading" /\ link' = link /\ asked' = asked /\ out' = out
      BY <1>2 DEF ReadRequest
    <3> QED
      BY <3>1, Quiet DEF Pending, Ended
  <2>2. CASE pc'[c] = "routing"
    <3>1. ~close'[c]
      BY <1>2, <2>2 DEF ReadRequest, Transmit, ConnInv, CloseMeans, TypeOK
    <3> QED
      BY <2>1, <2>2, <3>1 DEF ConnInv, CloseMeans, ShutAnswered
  <2>3. CASE pc'[c] # "routing"
    <3> DEFINE r == asked[c][nread[c] + 1]
    <3>1. Transmit(c, r, RefusalToken(r), "refusing")
      BY <1>2, <2>3 DEF ReadRequest, TypeOK
    <3>2. /\ close'[c] = ~KeepAlive(r.version, RefusalToken(r))
          /\ flight'[c] = RefusalToken(r) /\ pc'[c] = "refusing"
      BY <3>1 DEF Transmit, TypeOK
    <3>3. Current(c)' = r
      BY <1>2 DEF ReadRequest, Current, TypeOK
    <3>4. close'[c] <=> ~KeepAlive(Current(c)'.version, flight'[c])
      BY <3>2, <3>3
    <3> QED
      BY <2>1, <3>2, <3>4 DEF ConnInv, CloseMeans, ShutAnswered
  <2> QED
    BY <2>2, <2>3
<1>3. CASE ReadError(c) \/ RefusalFail(c) \/ RouteThrow(c)
  <2>1. /\ pc'[c] = "dropped" /\ out' = out
        /\ asked' = asked /\ link' = link /\ nread' = nread
    BY <1>3 DEF ReadError, RefusalFail, RouteThrow, TypeOK
  <2>2. Decided(c)'
    BY <2>1, Quiet DEF Pending, Ended
  <2> QED
    BY <2>1, <2>2 DEF ConnInv, CloseMeans, ShutAnswered
<1>4. ASSUME NEW token \in HandlerTokens, RouteSend(c, token) PROVE ConnInv(c)'
  <2>1. /\ close'[c] = ~KeepAlive(Current(c).version, RouteToken(Current(c), token))
        /\ flight'[c] = RouteToken(Current(c), token) /\ pc'[c] = "writing"
        /\ Current(c)' = Current(c) /\ out' = out
        /\ asked' = asked /\ link' = link /\ nread' = nread
    BY <1>4 DEF RouteSend, Transmit, Current, TypeOK
  <2>2. close'[c] <=> ~KeepAlive(Current(c)'.version, flight'[c])
    BY <2>1
  <2>3. Decided(c)'
    BY <2>1, Quiet DEF Pending, Ended
  <2> QED
    BY <2>1, <2>2, <2>3 DEF ConnInv, CloseMeans, ShutAnswered
<1>5. CASE WriteDone(c)
  <2>1. pc'[c] = "routing" /\ sends'[c] + failed'[c] > 0
    BY <1>5 DEF WriteDone, TypeOK
  <2>2. Decided(c)' /\ (close'[c] => Answered(c)')
    BY <1>5, <2>1, WrittenFacts DEF WriteDone
  <2> QED
    BY <2>1, <2>2 DEF ConnInv, CloseMeans, ShutAnswered
<1>6. CASE WriteFail(c)
  <2>1. /\ pc'[c] = "routing" /\ sends'[c] + failed'[c] > 0
        /\ link'[c] = "reset" /\ out' = out
    BY <1>6 DEF WriteFail, TypeOK
  <2> QED
    BY <2>1 DEF ConnInv, Decided, CloseMeans, ShutAnswered
<1>7. CASE RefusalDone(c)
  <2>1. close[c] => pc'[c] \in Ended
    BY <1>7 DEF RefusalDone, Resume, TypeOK, Ended
  <2>2. Decided(c)' /\ (close'[c] => Answered(c)')
    BY <1>7, <2>1, WrittenFacts DEF RefusalDone
  <2>3. pc'[c] \in {"reading", "shut", "dropped"} /\ close' = close
        /\ (pc'[c] = "reading" <=> ~close[c])
    BY <1>7 DEF RefusalDone, Resume, TypeOK
  <2> QED
    BY <2>2, <2>3 DEF ConnInv, CloseMeans, ShutAnswered
<1>8. CASE RouteReturn(c)
  <2>1. /\ pc[c] = "routing" /\ close' = close /\ out' = out
        /\ nread' = nread /\ asked' = asked /\ link' = link
        /\ pc'[c] \in {"reading", "shut", "dropped"}
        /\ (pc'[c] = "reading" <=> ~close[c])
        /\ (pc'[c] = "shut" => link[c] # "reset")
    BY <1>8 DEF RouteReturn, Resume, TypeOK
  <2>2. pc'[c] = "shut" => Answered(c)
    BY <2>1 DEF ConnInv, ShutAnswered
  <2>3. Answered(c)' <=> Answered(c)
    BY <2>1 DEF Answered, Announces
  <2>4. Decided(c)'
    BY <2>1, Quiet DEF Pending, Ended
  <2> QED
    BY <2>1, <2>2, <2>3, <2>4 DEF ConnInv, CloseMeans, ShutAnswered
<1> QED
  BY <1>1, <1>2, <1>3, <1>4, <1>5, <1>6, <1>7, <1>8 DEF Step, Route

\* The inductive invariant: a step is about one connection and keeps it for all.
LEMMA SafeNext == SafeInv /\ [Next]_vars => SafeInv'
<1> SUFFICES ASSUME SafeInv, [Next]_vars PROVE SafeInv'
  OBVIOUS
<1>1. TypeInv /\ TypeInv' /\ TypeOK
  BY TypeNext DEF SafeInv, TypeInv
<1>2. CASE UNCHANGED vars
  BY <1>1, <1>2, Untouched DEF SafeInv, vars
<1>3. ASSUME NEW c \in Conns, Client(c), NEW d \in Conns PROVE ConnInv(d)'
  BY <1>1, <1>3, ClientKeeps, Untouched DEF SafeInv, session
<1>4. ASSUME NEW c \in Conns, Step(c), NEW d \in Conns PROVE ConnInv(d)'
  <2>1. CASE d = c
    BY <1>1, <1>4, <2>1, StepSafe DEF SafeInv
  <2>2. CASE d # c
    BY <1>1, <1>4, <2>2, StepLocal, Untouched DEF SafeInv
  <2> QED
    BY <2>1, <2>2
<1> QED
  BY <1>1, <1>2, <1>3, <1>4 DEF Next, SafeInv

\* The inductive invariant holds in every reachable state.
LEMMA Safe == Spec => []SafeInv
  BY SafeInit, SafeNext, PTL DEF Spec

\* A session goes on past a response that announced the close only when the
\* same route sent another response after it.
THEOREM LastAnswerIsDecisive == Spec => []LastAnswerDecides
<1>1. SafeInv => LastAnswerDecides
  BY DEF SafeInv, ConnInv, Decided, Superseded, Pending, Ended, LastAnswerDecides
<1> QED
  BY <1>1, Safe, PTL

\* The sending side is shut down only after the last response, and that
\* response announced it.
THEOREM ShutIsAnnounced == Spec => []ShutAfterLastAnswer
<1>1. SafeInv => ShutAfterLastAnswer
  BY DEF SafeInv, ConnInv, ShutAnswered, Answered, ShutAfterLastAnswer
<1> QED
  BY <1>1, Safe, PTL

\* The "close" of do_session is never a left-over of an earlier request.
THEOREM CloseIsFresh == Spec => []CloseNeverStale
<1>1. SafeInv => CloseNeverStale
  BY DEF SafeInv, TypeInv, TypeOK, States, ConnInv, CloseMeans, CloseNeverStale
<1> QED
  BY <1>1, Safe, PTL

-----------------------------------------------------------------------------
(* What holds when routes keep their contract: each writes one response,   *)
(* and leaves the Connection header alone.                                 *)

\* The contract, as assumptions on the constants of Session.
OneResponse == MinSends = 1 /\ MaxSends = 1
PlainToken  == HandlerTokens = {"none"}

-----------------------------------------------------------------------------
(* Pipelining.  The number of responses on the wire follows from where the *)
(* coroutine is, as long as the client has not reset the connection; after *)
(* that nothing is written any more.                                       *)

Due(c) == CASE pc[c] \in {"idle", "reading"}     -> Len(out[c]) = nread[c]
            [] pc[c] \in {"writing", "refusing"} -> Len(out[c]) = nread[c] - 1 /\ sends[c] = 0
            [] pc[c] = "routing"                 -> Len(out[c]) = nread[c] - 1 + sends[c]
            [] OTHER                             -> TRUE

Aligned(c) ==
  /\ \A i \in 1 .. Len(out[c]) : out[c][i].req = i
  /\ link[c] # "reset" => failed[c] = 0 /\ Due(c)

\* The requests settled so far were reusable, and so is the current one when
\* its response does not announce the close.
Reusable(r) ==
  /\ r.target = "illegal" => KeepAlive(r.version, r.conn)
  /\ r.target = "route"   => r.version = 11

Reused(c) ==
  /\ \A k \in 1 .. nread[c] - 1 : Reusable(asked[c][k])
  /\ pc[c] \in {"idle", "reading"} /\ nread[c] > 0 => Reusable(Current(c))
  /\ pc[c] \in {"writing", "refusing"} => (~close[c] => Reusable(Current(c)))
  /\ pc[c] = "routing" =>
       (~close[c] /\ sends[c] + failed[c] > 0 => Reusable(Current(c)))
  /\ pc[c] \in {"writing", "routing"} => Current(c).target = "route"

\* A response that announced the close is the last thing a session wrote.
Announced(c) == \E i \in 1 .. Len(out[c]) : Announces(c, i)

LastWord(c) ==
  Announced(c) => \/ pc[c] \in Ended
                  \/ pc[c] = "routing" /\ close[c] /\ sends[c] = 1

AlignedInv == SafeInv /\ \A c \in Conns : Aligned(c) /\ LastWord(c)
ReusedInv  == SafeInv /\ \A c \in Conns : Reused(c)

\* The invariants of the contract: the initial states.
LEMMA ContractInit == Init => AlignedInv /\ ReusedInv
<1> SUFFICES ASSUME Init PROVE AlignedInv /\ ReusedInv
  OBVIOUS
<1>1. ASSUME NEW c \in Conns PROVE Aligned(c) /\ Reused(c) /\ LastWord(c)
  BY <1>1 DEF Init, Aligned, Due, Reused, LastWord, Announced
<1> QED
  BY <1>1, SafeInit DEF AlignedInv, ReusedInv

\* The requests of the responses on the wire were taken, so what a client
\* sends later does not change what they announce.
LEMMA AnnouncedKept ==
  ASSUME TypeOK, NEW d \in Conns, out'[d] = out[d],
         \A i \in 1 .. nread[d] : asked'[d][i] = asked[d][i]
  PROVE  Announced(d)' <=> Announced(d)
<1>1. ASSUME NEW i \in 1 .. Len(out[d]) PROVE out[d][i].req \in 1 .. nread[d]
  <2>1. out[d][i] \in Response
    BY ElementFacts DEF TypeOK
  <2> QED
    BY <2>1 DEF TypeOK, Response
<1> QED
  BY <1>1 DEF Announced, Announces

\* What a client does disturbs neither invariant of the contract.
LEMMA ContractUntouched ==
  ASSUME TypeOK, NEW d \in Conns,
         pc'[d] = pc[d], nread'[d] = nread[d], close'[d] = close[d],
         flight'[d] = flight[d], sends'[d] = sends[d], failed'[d] = failed[d],
         out'[d] = out[d],
         link[d] = "reset" => link'[d] = "reset",
         \A i \in 1 .. nread[d] : asked'[d][i] = asked[d][i]
  PROVE  /\ Aligned(d) => Aligned(d)'
         /\ Reused(d) => Reused(d)'
         /\ LastWord(d) => LastWord(d)'
<1>1. Aligned(d) => Aligned(d)'
  BY DEF Aligned, Due
<1>2. Reused(d) => Reused(d)'
  <2>1. nread[d] > 0 => Current(d)' = Current(d)
    <3>1. nread[d] \in Nat
      BY DEF TypeOK
    <3>2. nread[d] > 0 => nread[d] \in 1 .. nread[d]
      BY <3>1
    <3> QED
      BY <3>2 DEF Current
  <2>2. pc[d] \in {"writing", "refusing", "routing"} => nread[d] > 0
    BY DEF TypeOK
  <2>3. \A k \in 1 .. nread[d] - 1 : asked'[d][k] = asked[d][k]
    BY DEF TypeOK
  <2> QED
    BY <2>1, <2>2, <2>3 DEF Reused, Reusable
<1>3. LastWord(d) => LastWord(d)'
  BY AnnouncedKept DEF LastWord
<1> QED
  BY <1>1, <1>2, <1>3

-----------------------------------------------------------------------------
(* The three parts, step by step.                                          *)

\* The length of what is written, and the request of the new response.
LEMMA AppendOne ==
  ASSUME TypeOK, NEW c \in Conns, pc[c] \in {"writing", "refusing"},
         out'[c] = Written(c)
  PROVE  /\ Len(out[c]) \in Nat /\ Len(out'[c]) = Len(out[c]) + 1
         /\ \A i \in 1 .. Len(out[c]) : out'[c][i] = out[c][i]
         /\ out'[c][Len(out[c]) + 1] = [req |-> nread[c], token |-> flight[c]]
<1> DEFINE e == [req |-> nread[c], token |-> flight[c]]
<1>1. e \in Response /\ out[c] \in Seq(Response)
  <2>1. nread[c] \in Nat \ {0} /\ flight[c] \in Tokens /\ out[c] \in Seq(Response)
    BY DEF TypeOK
  <2> QED
    BY <2>1 DEF Response
<1>2. out'[c] = Append(out[c], e)
  BY DEF TypeOK, Written
<1> HIDE DEF e
<1>3. /\ Len(out[c]) \in Nat /\ Len(out'[c]) = Len(out[c]) + 1
      /\ \A i \in 1 .. Len(out[c]) : out'[c][i] = out[c][i]
      /\ out'[c][Len(out[c]) + 1] = e
  BY <1>1, <1>2, AppendFacts
<1> QED
  BY <1>3 DEF e

\* A response appended for request n to the answers of 1 .. n - 1.
LEMMA AppendAligned ==
  ASSUME TypeOK, NEW c \in Conns, pc[c] \in {"writing", "refusing"},
         out'[c] = Written(c), Len(out[c]) = nread[c] - 1,
         \A i \in 1 .. Len(out[c]) : out[c][i].req = i
  PROVE  /\ Len(out'[c]) = nread[c]
         /\ \A i \in 1 .. Len(out'[c]) : out'[c][i].req = i
<1> DEFINE s == out[c]
           t == out'[c]
           n == nread[c]
<1>1. /\ Len(s) \in Nat /\ Len(t) = Len(s) + 1
      /\ \A i \in 1 .. Len(s) : t[i] = s[i]
      /\ t[Len(s) + 1] = [req |-> n, token |-> flight[c]]
  BY AppendOne
<1>2. n \in Nat /\ Len(s) = n - 1
  BY DEF TypeOK
<1>3. \A i \in 1 .. Len(s) : s[i].req = i
  OBVIOUS
<1> HIDE DEF s, t, n
<1>4. t[Len(s) + 1].req = n
  BY <1>1
<1>5. Len(t) = n /\ \A i \in 1 .. Len(t) : t[i].req = i
  BY <1>1, <1>2, <1>3, <1>4
<1> QED
  BY <1>5 DEF s, t, n

\* A step of the session keeps responses and requests paired.
LEMMA StepAligned ==
  ASSUME OneResponse, TypeInv, TypeInv', NEW c \in Conns, Step(c), Aligned(c)
  PROVE  Aligned(c)'
<1> USE DEF TypeInv, Aligned, Due
<1>1. CASE Accept(c)
  BY <1>1 DEF Accept, TypeOK
<1>2. CASE ReadRequest(c)
  <2>1. /\ pc[c] = "reading" /\ pc'[c] \in {"refusing", "routing"}
        /\ nread'[c] = nread[c] + 1 /\ nread[c] \in Nat
        /\ sends'[c] = 0 /\ failed'[c] = 0 /\ out' = out /\ link' = link
    BY <1>2 DEF ReadRequest, Transmit, TypeOK
  <2> QED
    BY <2>1
<1>3. CASE ReadError(c) \/ RefusalFail(c) \/ RouteThrow(c)
  BY <1>3 DEF ReadError, RefusalFail, RouteThrow, TypeOK
<1>4. ASSUME NEW token \in HandlerTokens, RouteSend(c, token) PROVE Aligned(c)'
  <2>1. /\ pc[c] = "routing" /\ pc'[c] = "writing" /\ sends[c] = 0
        /\ UNCHANGED <<link, nread, sends, failed, out>>
    BY <1>4 DEF RouteSend, Transmit, TypeOK, OneResponse
  <2>2. nread[c] \in Nat /\ Len(out[c]) \in Nat
    BY DEF TypeOK
  <2> QED
    BY <2>1, <2>2
<1>5. CASE WriteDone(c)
  <2>1. /\ pc[c] = "writing" /\ pc'[c] = "routing" /\ sends'[c] = sends[c] + 1
        /\ link[c] # "reset" /\ UNCHANGED <<link, nread, failed>>
        /\ out'[c] = Written(c) /\ nread[c] \in Nat
    BY <1>5 DEF WriteDone, TypeOK
  <2>2. Len(out[c]) = nread[c] - 1 /\ sends[c] = 0 /\ failed'[c] = 0
    BY <2>1
  <2>3. \A i \in 1 .. Len(out[c]) : out[c][i].req = i
    OBVIOUS
  <2>4. Len(out'[c]) = nread[c] /\ \A i \in 1 .. Len(out'[c]) : out'[c][i].req = i
    <3> HIDE DEF Aligned
    <3> QED
      BY <2>1, <2>2, <2>3, AppendAligned
  <2> QED
    BY <2>1, <2>2, <2>4
<1>6. CASE WriteFail(c)
  BY <1>6 DEF WriteFail, TypeOK
<1>7. CASE RefusalDone(c)
  <2>1. /\ pc[c] = "refusing" /\ pc'[c] \in {"reading", "shut", "dropped"}
        /\ link[c] # "reset" /\ UNCHANGED <<link, nread, failed>>
        /\ out'[c] = Written(c) /\ nread[c] \in Nat
    BY <1>7 DEF RefusalDone, Resume, TypeOK
  <2>2. Len(out[c]) = nread[c] - 1 /\ sends[c] = 0 /\ failed'[c] = 0
    BY <2>1
  <2>3. \A i \in 1 .. Len(out[c]) : out[c][i].req = i
    OBVIOUS
  <2>4. Len(out'[c]) = nread[c] /\ \A i \in 1 .. Len(out'[c]) : out'[c][i].req = i
    <3> HIDE DEF Aligned
    <3> QED
      BY <2>1, <2>2, <2>3, AppendAligned
  <2> QED
    BY <2>1, <2>2, <2>4
<1>8. CASE RouteReturn(c)
  <2>1. /\ pc[c] = "routing" /\ pc'[c] \in {"reading", "shut", "dropped"}
        /\ UNCHANGED <<link, nread, failed, out>>
        /\ sends[c] = 1 \/ failed[c] > 0
    BY <1>8 DEF RouteReturn, Resume, TypeOK, OneResponse
  <2>2. nread[c] \in Nat /\ Len(out[c]) \in Nat
    BY DEF TypeOK
  <2> QED
    BY <2>1, <2>2
<1> QED
  BY <1>1, <1>2, <1>3, <1>4, <1>5, <1>6, <1>7, <1>8 DEF Step, Route

\* A message that keeps the connection open is the answer to a request that
\* may be followed by another.
LEMMA KeepReusable ==
  ASSUME PlainToken, NEW r \in AnyRequest, NEW token \in HandlerTokens
  PROVE  /\ r.target = "illegal" =>
              (KeepAlive(r.version, RefusalToken(r)) => Reusable(r))
         /\ r.target = "route" =>
              (KeepAlive(r.version, RouteToken(r, token)) => Reusable(r))
  BY DEF PlainToken, AnyRequest, KeepAlive, RefusalToken, RouteToken, TokenFor,
         MovedFrom, Reusable

\* A step of the session reuses a connection by the rule only.
LEMMA StepReused ==
  ASSUME OneResponse, PlainToken, TypeInv, NEW c \in Conns, Step(c), ConnInv(c), Reused(c)
  PROVE  Reused(c)'
<1> USE DEF TypeInv
<1>1. CASE Accept(c)
  BY <1>1 DEF Accept, TypeOK, Reused, Current
<1>2. CASE ReadRequest(c)
  <2> DEFINE r == asked[c][nread[c] + 1]
  <2>1. /\ pc[c] = "reading" /\ asked' = asked
        /\ nread[c] \in Nat /\ nread'[c] = nread[c] + 1
        /\ Current(c)' = r /\ sends'[c] = 0 /\ failed'[c] = 0
    BY <1>2 DEF ReadRequest, TypeOK, Current
  <2>2. \A k \in 1 .. nread[c] : Reusable(asked[c][k])
    BY <2>1 DEF Reused, Current
  <2>3. r \in AnyRequest
    BY <1>2, RequestsAssumption DEF ReadRequest, TypeOK
  <2>4. CASE pc'[c] = "routing"
    <3>1. r.target = "route"
      BY <1>2, <2>4 DEF ReadRequest, Transmit, TypeOK
    <3> HIDE DEF r
    <3> QED
      BY <2>1, <2>2, <2>4, <3>1 DEF Reused
  <2>5. CASE pc'[c] # "routing"
    <3>1. r.target = "illegal" /\ Transmit(c, r, RefusalToken(r), "refusing")
      BY <1>2, <2>5 DEF ReadRequest, TypeOK
    <3>2. pc'[c] = "refusing" /\ (~close'[c] => KeepAlive(r.version, RefusalToken(r)))
      BY <3>1 DEF Transmit, TypeOK
    <3>3. ~close'[c] => Reusable(r)
      BY <2>3, <3>1, <3>2, KeepReusable, TokensAssumption
    <3> HIDE DEF r
    <3> QED
      BY <2>1, <2>2, <3>2, <3>3 DEF Reused
  <2> QED
    BY <2>4, <2>5
<1>3. CASE ReadError(c) \/ RefusalFail(c) \/ RouteThrow(c)
  BY <1>3 DEF ReadError, RefusalFail, RouteThrow, TypeOK, Reused
<1>4. ASSUME NEW token \in HandlerTokens, RouteSend(c, token) PROVE Reused(c)'
  <2>1. /\ pc[c] = "routing" /\ pc'[c] = "writing"
        /\ UNCHANGED <<asked, nread>> /\ Current(c)' = Current(c)
        /\ (~close'[c] => KeepAlive(Current(c).version, RouteToken(Current(c), token)))
    BY <1>4 DEF RouteSend, Transmit, TypeOK, Current
  <2>2. Current(c) \in AnyRequest
    BY <2>1, RequestsAssumption DEF TypeOK, Current
  <2>3. Current(c).target = "route"
    BY <2>1 DEF Reused
  <2>4. ~close'[c] => Reusable(Current(c))
    BY <2>1, <2>2, <2>3, KeepReusable
  <2> QED
    BY <2>1, <2>3, <2>4 DEF Reused
<1>5. CASE WriteDone(c) \/ WriteFail(c)
  <2>1. /\ pc[c] = "writing" /\ pc'[c] = "routing" /\ close' = close
        /\ UNCHANGED <<asked, nread>> /\ Current(c)' = Current(c)
    BY <1>5 DEF WriteDone, WriteFail, TypeOK, Current
  <2> QED
    BY <2>1 DEF Reused
<1>6. CASE RefusalDone(c)
  <2>1. /\ pc[c] = "refusing" /\ pc'[c] \in {"reading", "shut", "dropped"}
        /\ (pc'[c] = "reading" <=> ~close[c])
        /\ UNCHANGED <<asked, nread>> /\ Current(c)' = Current(c)
    BY <1>6 DEF RefusalDone, Resume, TypeOK, Current
  <2> QED
    BY <2>1 DEF Reused
<1>7. CASE RouteReturn(c)
  <2>1. /\ pc[c] = "routing" /\ pc'[c] \in {"reading", "shut", "dropped"}
        /\ (pc'[c] = "reading" <=> ~close[c])
        /\ UNCHANGED <<asked, nread>> /\ Current(c)' = Current(c)
    BY <1>7 DEF RouteReturn, Resume, TypeOK, Current
  <2>2. sends[c] + failed[c] > 0
    <3>1. sends[c] \in Nat /\ failed[c] \in Nat
      BY SendsAssumption DEF TypeOK
    <3>2. sends[c] >= 1 \/ failed[c] > 0
      BY <1>7 DEF RouteReturn, OneResponse
    <3> QED
      BY <3>1, <3>2
  <2> QED
    BY <2>1, <2>2 DEF Reused
<1> QED
  BY <1>1, <1>2, <1>3, <1>4, <1>5, <1>6, <1>7 DEF Step, Route

\* A completed write announces a close exactly when it set the flag.
LEMMA AnnouncedGrows ==
  ASSUME TypeOK, NEW c \in Conns, ConnInv(c), pc[c] \in {"writing", "refusing"},
         out'[c] = Written(c), asked' = asked
  PROVE  Announced(c)' <=> (Announced(c) \/ close[c])
<1> DEFINE n == Len(out[c])
<1>1. /\ n \in Nat /\ Len(out'[c]) = n + 1
      /\ \A i \in 1 .. n : out'[c][i] = out[c][i]
      /\ out'[c][n + 1] = [req |-> nread[c], token |-> flight[c]]
  BY AppendOne
<1> DEFINE Before(i) == ~KeepAlive(asked[c][out[c][i].req].version, out[c][i].token)
           After(i)  == ~KeepAlive(asked[c][out'[c][i].req].version, out'[c][i].token)
<1>2. \A i \in 1 .. n : After(i) <=> Before(i)
  BY <1>1
<1>3. After(n + 1) <=> close[c]
  <2>1. out'[c][n + 1].req = nread[c] /\ out'[c][n + 1].token = flight[c]
    BY <1>1
  <2>2. After(n + 1) <=> ~KeepAlive(asked[c][nread[c]].version, flight[c])
    BY <2>1
  <2>3. close[c] <=> ~KeepAlive(asked[c][nread[c]].version, flight[c])
    BY DEF ConnInv, CloseMeans, Current
  <2> QED
    BY <2>2, <2>3
<1>4. Announced(c)' <=> \E i \in 1 .. n + 1 : After(i)
  BY <1>1 DEF Announced, Announces
<1>5. Announced(c) <=> \E i \in 1 .. n : Before(i)
  BY DEF Announced, Announces
<1>6. \A i \in 1 .. n + 1 : i \in 1 .. n \/ i = n + 1
  BY <1>1
<1>7. 1 .. n \subseteq 1 .. n + 1 /\ n + 1 \in 1 .. n + 1
  BY <1>1
<1> HIDE DEF n, Before, After
<1> QED
  BY <1>2, <1>3, <1>4, <1>5, <1>6, <1>7

\* A session that has announced a close stays past its last read and write.
LEMMA StepLastWord ==
  ASSUME OneResponse, TypeInv, NEW c \in Conns, Step(c), ConnInv(c), LastWord(c)
  PROVE  LastWord(c)'
<1> USE DEF TypeInv
<1>1. CASE Accept(c) \/ ReadRequest(c)
  <2>1. /\ pc[c] \in {"idle", "reading"} /\ out' = out /\ asked' = asked
    BY <1>1 DEF Accept, ReadRequest
  <2>2. ~Announced(c)
    BY <2>1 DEF LastWord, Ended
  <2> QED
    BY <2>1, <2>2, AnnouncedKept DEF LastWord
<1>2. CASE ReadError(c) \/ RefusalFail(c) \/ RouteThrow(c)
  BY <1>2 DEF ReadError, RefusalFail, RouteThrow, TypeOK, LastWord, Ended
<1>3. CASE (\E token \in HandlerTokens : RouteSend(c, token)) \/ WriteFail(c)
  <2>1. /\ pc[c] \in {"routing", "writing"} /\ out' = out /\ asked' = asked
        /\ pc[c] = "routing" => sends[c] < 1
    BY <1>3 DEF RouteSend, WriteFail, OneResponse
  <2>2. ~Announced(c)
    BY <2>1 DEF LastWord, Ended, TypeOK
  <2> QED
    BY <2>1, <2>2, AnnouncedKept DEF LastWord
<1>4. CASE WriteDone(c)
  <2>1. /\ pc[c] = "writing" /\ pc'[c] = "routing" /\ sends'[c] = sends[c] + 1
        /\ close' = close /\ out'[c] = Written(c) /\ asked' = asked
    BY <1>4 DEF WriteDone, TypeOK
  <2>2. sends[c] = 0
    BY <2>1 DEF OneResponse, TypeOK
  <2>3. Announced(c)' <=> close[c]
    BY <2>1, AnnouncedGrows DEF LastWord, Ended
  <2> QED
    BY <2>1, <2>2, <2>3 DEF LastWord
<1>5. CASE RefusalDone(c)
  <2>1. /\ pc[c] = "refusing" /\ (close[c] => pc'[c] \in Ended)
        /\ out'[c] = Written(c) /\ asked' = asked
    BY <1>5 DEF RefusalDone, Resume, TypeOK, Ended
  <2>2. Announced(c)' <=> close[c]
    BY <2>1, AnnouncedGrows DEF LastWord, Ended
  <2> QED
    BY <2>1, <2>2 DEF LastWord
<1>6. CASE RouteReturn(c)
  <2>1. /\ pc[c] = "routing" /\ out' = out /\ asked' = asked
        /\ (close[c] => pc'[c] \in Ended)
    BY <1>6 DEF RouteReturn, Resume, TypeOK, Ended
  <2>2. Announced(c) => close[c]
    BY <2>1 DEF LastWord, Ended
  <2> QED
    BY <2>1, <2>2, AnnouncedKept DEF LastWord
<1> QED
  BY <1>1, <1>2, <1>3, <1>4, <1>5, <1>6 DEF Step, Route

-----------------------------------------------------------------------------
(* The theorems.                                                           *)

\* The pairing is inductive.
LEMMA AlignedNext ==
  ASSUME OneResponse
  PROVE  AlignedInv /\ [Next]_vars => AlignedInv'
<1> SUFFICES ASSUME AlignedInv, [Next]_vars PROVE AlignedInv'
  OBVIOUS
<1>1. SafeInv /\ SafeInv' /\ TypeInv /\ TypeInv' /\ TypeOK
  BY SafeNext DEF AlignedInv, SafeInv, TypeInv
<1>2. CASE UNCHANGED vars
  BY <1>1, <1>2, ContractUntouched DEF AlignedInv, vars
<1>3. ASSUME NEW c \in Conns, Client(c), NEW d \in Conns PROVE Aligned(d)' /\ LastWord(d)'
  BY <1>1, <1>3, ClientKeeps, ContractUntouched DEF AlignedInv, session
<1>4. ASSUME NEW c \in Conns, Step(c), NEW d \in Conns PROVE Aligned(d)' /\ LastWord(d)'
  <2>1. CASE d = c
    BY <1>1, <1>4, <2>1, StepAligned, StepLastWord DEF AlignedInv, SafeInv
  <2>2. CASE d # c
    BY <1>1, <1>4, <2>2, StepLocal, ContractUntouched DEF AlignedInv
  <2> QED
    BY <2>1, <2>2
<1> QED
  BY <1>1, <1>2, <1>3, <1>4 DEF Next, AlignedInv

\* The rule of reuse is inductive.
LEMMA ReusedNext ==
  ASSUME OneResponse, PlainToken
  PROVE  ReusedInv /\ [Next]_vars => ReusedInv'
<1> SUFFICES ASSUME ReusedInv, [Next]_vars PROVE ReusedInv'
  OBVIOUS
<1>1. SafeInv /\ SafeInv' /\ TypeInv /\ TypeOK
  BY SafeNext DEF ReusedInv, SafeInv, TypeInv
<1>2. CASE UNCHANGED vars
  BY <1>1, <1>2, ContractUntouched DEF ReusedInv, vars
<1>3. ASSUME NEW c \in Conns, Client(c), NEW d \in Conns PROVE Reused(d)'
  BY <1>1, <1>3, ClientKeeps, ContractUntouched DEF ReusedInv, session
<1>4. ASSUME NEW c \in Conns, Step(c), NEW d \in Conns PROVE Reused(d)'
  <2>1. CASE d = c
    BY <1>1, <1>4, <2>1, StepReused DEF ReusedInv, SafeInv
  <2>2. CASE d # c
    BY <1>1, <1>4, <2>2, StepLocal, ContractUntouched DEF ReusedInv
  <2> QED
    BY <2>1, <2>2
<1> QED
  BY <1>1, <1>2, <1>3, <1>4 DEF Next, ReusedInv

\* The pairing holds in every reachable state.
LEMMA AlwaysAligned ==
  ASSUME OneResponse
  PROVE  Spec => []AlignedInv
  BY ContractInit, AlignedNext, PTL DEF Spec

\* When each route writes one response, the i-th response answers the i-th
\* request, and a session that reads has answered all it has read.
THEOREM PipelineIsAligned ==
  ASSUME OneResponse
  PROVE  Spec => []PipelineAligned
<1>1. AlignedInv => PipelineAligned
  BY DEF AlignedInv, Aligned, Due, PipelineAligned
<1> QED
  BY <1>1, AlwaysAligned, PTL

\* Which connections are reused: those of HTTP/1.1 after a routed request,
\* whatever its Connection header; those whose client asks after a refusal.
THEOREM ReuseIsRuled ==
  ASSUME OneResponse, PlainToken
  PROVE  Spec => []ReuseRule
<1>1. ReusedInv => ReuseRule
  BY DEF ReusedInv, Reused, Reusable, ReuseRule
<1>2. Spec => []ReusedInv
  BY ContractInit, ReusedNext, PTL DEF Spec
<1> QED
  BY <1>1, <1>2, PTL

\* When each route writes one response, a response that announces the close is
\* the last, and no request is read after it.
THEOREM CloseIsFinal ==
  ASSUME OneResponse
  PROVE  Spec => NothingAfterClose
<1> DEFINE Silent(c) == nread'[c] = nread[c] /\ out'[c] = out[c]
<1>1. ASSUME AlignedInv, [Next]_vars, NEW c \in Conns, Announced(c) PROVE Silent(c)
  <2>1. TypeOK /\ LastWord(c)
    BY <1>1 DEF AlignedInv, SafeInv, TypeInv
  <2>2. pc[c] \notin {"reading", "writing", "refusing"}
    BY <1>1, <2>1 DEF LastWord, Ended
  <2>3. CASE UNCHANGED vars
    BY <2>3 DEF vars
  <2>4. ASSUME NEW d \in Conns, Client(d) PROVE Silent(c)
    BY <2>1, <2>4, ClientKeeps DEF session
  <2>5. ASSUME NEW d \in Conns, Step(d), d # c PROVE Silent(c)
    BY <2>1, <2>5, StepLocal
  <2>6. CASE Step(c)
    BY <2>1, <2>2, <2>6 DEF Step, Route, Accept, ReadRequest, ReadError, RouteSend,
       RouteReturn, RouteThrow, WriteDone, WriteFail, RefusalDone, RefusalFail
  <2> QED
    BY <1>1, <2>3, <2>4, <2>5, <2>6 DEF Next
<1>2. AlignedInv /\ [Next]_vars =>
        [\A c \in Conns : (\E i \in 1 .. Len(out[c]) : Announces(c, i)) =>
           nread'[c] = nread[c] /\ out'[c] = out[c]]_vars
  BY <1>1 DEF Announced
<1> QED
  BY <1>2, AlwaysAligned, PTL DEF Spec, NothingAfterClose

-----------------------------------------------------------------------------
(* The refinement.  A session whose routes write one response each         *)
(* implements the promise of HttpConnection: a completed write is an       *)
(* Answer, the end of a session that has not announced it is a GiveUp, and *)
(* everything else the server does is invisible to the client.             *)

\* The variables of HttpConnection, as HttpPromise instantiates them.
Answers ==
  [c \in Conns |-> [i \in 1 .. Len(out[c]) |->
     [req |-> out[c][i].req, last |-> Announces(c, i)]]]
Open ==
  [c \in Conns |-> pc[c] \notin Ended /\ \A i \in 1 .. Len(out[c]) : ~Announces(c, i)]

AnAnswer == [req : Nat, last : BOOLEAN]

\* A sequence that extends another by one element is that one, appended to.
LEMMA AppendUnique ==
  ASSUME NEW S, NEW s \in Seq(S), NEW t \in Seq(S), NEW e \in S,
         Len(t) = Len(s) + 1, \A i \in 1 .. Len(s) : t[i] = s[i], t[Len(t)] = e
  PROVE  t = Append(s, e)
  OBVIOUS

\* What a response announced is a truth value.
LEMMA AnnouncesBool ==
  ASSUME NEW c \in Conns, NEW i \in 1 .. Len(out[c])
  PROVE  Announces(c, i) \in BOOLEAN
  BY DEF Announces, KeepAlive

\* A client's view of a connection changes only with what is on the wire.
LEMMA AnswersFacts ==
  ASSUME TypeOK, NEW c \in Conns
  PROVE  /\ Answers[c] \in Seq(AnAnswer) /\ Len(Answers[c]) = Len(out[c])
         /\ \A i \in 1 .. Len(out[c]) :
              Answers[c][i] = [req |-> out[c][i].req, last |-> Announces(c, i)]
<1>1. Len(out[c]) \in Nat
  BY DEF TypeOK
<1>2. ASSUME NEW i \in 1 .. Len(out[c])
      PROVE  [req |-> out[c][i].req, last |-> Announces(c, i)] \in AnAnswer
  <2>1. out[c][i] \in Response
    BY ElementFacts DEF TypeOK
  <2>2. out[c][i].req \in Nat
    BY <2>1 DEF Response
  <2> QED
    BY <2>2, AnnouncesBool DEF AnAnswer
<1>3. Answers[c] = [i \in 1 .. Len(out[c]) |->
                      [req |-> out[c][i].req, last |-> Announces(c, i)]]
  BY DEF Answers
<1> QED
  BY <1>1, <1>2, <1>3

\* Steps that write nothing.
LEMMA Invisible ==
  ASSUME TypeOK, out' = out,
         \A d \in Conns : \A i \in 1 .. nread[d] : asked'[d][i] = asked[d][i]
  PROVE  /\ Answers' = Answers
         /\ \A d \in Conns : (pc[d] \in Ended <=> pc'[d] \in Ended) => Open'[d] = Open[d]
         /\ \A d \in Conns : pc'[d] \in Ended => Open'[d] = FALSE
<1>1. \A d \in Conns : \A i \in 1 .. Len(out[d]) : Announces(d, i)' = Announces(d, i)
  BY AnnouncesKept
<1>2. Answers' = Answers
  BY <1>1 DEF Answers
<1>3. ASSUME NEW d \in Conns, pc[d] \in Ended <=> pc'[d] \in Ended
      PROVE  Open'[d] = Open[d]
  BY <1>1, <1>3 DEF Open
<1>4. ASSUME NEW d \in Conns, pc'[d] \in Ended PROVE Open'[d] = FALSE
  BY <1>4 DEF Open
<1> QED
  BY <1>2, <1>3, <1>4

\* The initial states of a session map to those of the abstract connection.
LEMMA RefineInit == Init => Http!Init
<1> SUFFICES ASSUME Init PROVE Http!Init
  OBVIOUS
<1>1. ASSUME NEW c \in Conns
      PROVE  /\ Answers[c] = <<>>
             /\ Open[c] = TRUE
  <2>1. out[c] = <<>> /\ Len(out[c]) = 0 /\ pc[c] = "idle"
    BY DEF Init
  <2>2. Answers[c] = [i \in 1 .. 0 |-> [req |-> out[c][i].req, last |-> Announces(c, i)]]
    BY <2>1 DEF Answers
  <2>3. Answers[c] = <<>>
    BY <2>2
  <2>4. pc[c] \notin Ended /\ \A i \in 1 .. Len(out[c]) : ~Announces(c, i)
    BY <2>1 DEF Ended
  <2>5. Open[c] = TRUE
    BY <2>4 DEF Open
  <2> QED
    BY <2>3, <2>5
<1>2. Answers = [c \in Conns |-> <<>>] /\ Open = [c \in Conns |-> TRUE]
  BY <1>1 DEF Answers, Open
<1> QED
  BY <1>2 DEF Init, Http!Init, Answers, Open

\* Whoever does not write only closes: a stutter or a GiveUp.
LEMMA QuietStep ==
  ASSUME TypeOK, TypeOK', NEW c \in Conns, asked' = asked, out' = out,
         \A d \in Conns : d # c => pc'[d] = pc[d],
         pc[c] \in Ended => pc'[c] \in Ended
  PROVE  UNCHANGED Http!vars \/ Http!GiveUp(c)
<1>1. /\ Answers' = Answers
      /\ \A d \in Conns : d # c => Open'[d] = Open[d]
      /\ (pc[c] \in Ended <=> pc'[c] \in Ended) => Open'[c] = Open[c]
      /\ pc'[c] \in Ended => Open'[c] = FALSE
  BY Invisible
<1>2. CASE pc[c] \in Ended <=> pc'[c] \in Ended
  <2>1. Open' = Open
    BY <1>1, <1>2 DEF Open
  <2> QED
    BY <1>1, <2>1 DEF Http!vars, Answers, Open
<1>3. CASE ~(pc[c] \in Ended <=> pc'[c] \in Ended)
  <2>1. Open' = [Open EXCEPT ![c] = FALSE]
    BY <1>1, <1>3 DEF Open
  <2> QED
    BY <1>1, <2>1 DEF Http!GiveUp, Answers, Open
<1> QED
  BY <1>2, <1>3

\* A write that ends answers the oldest open request, or gives up after it.
LEMMA AnswerStep ==
  ASSUME TypeOK, TypeOK', NEW c \in Conns, ConnInv(c), Aligned(c), LastWord(c),
         pc[c] \in {"writing", "refusing"}, link[c] # "reset",
         asked' = asked, out' = [out EXCEPT ![c] = Written(c)],
         \A d \in Conns : d # c => pc'[d] = pc[d],
         pc'[c] \in Ended => close[c]
  PROVE  Http!Answer(c)
<1> DEFINE n == Len(out[c])
           e == [req |-> n + 1, last |-> close[c]]
<1>1. /\ n \in Nat /\ nread[c] = n + 1 /\ nread[c] <= Len(asked[c])
      /\ close[c] \in BOOLEAN /\ close'[c] \in BOOLEAN
  BY DEF TypeOK, Aligned, Due
<1>2. out'[c] = Written(c) /\ \A d \in Conns : d # c => out'[d] = out[d]
  BY DEF TypeOK
<1>3. /\ Len(out'[c]) = n + 1 /\ \A i \in 1 .. n : out'[c][i] = out[c][i]
      /\ out'[c][n + 1] = [req |-> nread[c], token |-> flight[c]]
  BY <1>2, AppendOne
<1>4. Announced(c)' <=> close[c]
  BY <1>2, AnnouncedGrows DEF LastWord, Ended
<1>5. ~Announced(c)
  BY DEF LastWord, Ended
<1> DEFINE Before(i) == ~KeepAlive(asked[c][out[c][i].req].version, out[c][i].token)
           After(i)  == ~KeepAlive(asked[c][out'[c][i].req].version, out'[c][i].token)
<1>6. Answers'[c] = Append(Answers[c], e)
  <2>1. /\ Answers[c] \in Seq(AnAnswer) /\ Len(Answers[c]) = n
        /\ \A i \in 1 .. n :
             Answers[c][i] = [req |-> out[c][i].req, last |-> Before(i)]
    BY AnswersFacts DEF Announces
  <2>2. \A i \in 1 .. n : After(i) = Before(i)
    BY <1>3
  <2>3. After(n + 1) = close[c]
    <3>1. \A i \in 1 .. n : ~After(i)
      BY <1>5, <2>2 DEF Announced, Announces
    <3>2. Announced(c)' <=> \E i \in 1 .. n + 1 : After(i)
      BY <1>3 DEF Announced, Announces
    <3>3. \A i \in 1 .. n + 1 : i \in 1 .. n \/ i = n + 1
      BY <1>1
    <3>4. n + 1 \in 1 .. n + 1
      BY <1>1
    <3>5. After(n + 1) \in BOOLEAN
      BY DEF KeepAlive
    <3> HIDE DEF n, After
    <3> QED
      BY <1>1, <1>4, <3>1, <3>2, <3>3, <3>4, <3>5
  <2>4. Answers'[c] = [i \in 1 .. n + 1 |-> [req |-> out'[c][i].req, last |-> After(i)]]
    BY <1>3 DEF Answers, Announces
  <2>5. e \in AnAnswer
    BY <1>1 DEF AnAnswer
  <2> HIDE DEF Before, After
  <2>6. Answers'[c][n + 1] = e
    <3>1. n + 1 \in 1 .. n + 1 /\ out'[c][n + 1].req = n + 1
      BY <1>1, <1>3
    <3> QED
      BY <2>3, <2>4, <3>1
  <2>7. \A i \in 1 .. n : Answers'[c][i] = Answers[c][i]
    <3>1. \A i \in 1 .. n : i \in 1 .. n + 1 /\ out'[c][i].req = out[c][i].req
      BY <1>1, <1>3
    <3> QED
      BY <2>1, <2>2, <2>4, <3>1
  <2> HIDE DEF n, e
  <2>8. \A i \in 1 .. n + 1 : i \in 1 .. n \/ i = n + 1
    BY <1>1
  <2>9. \A i \in 1 .. n + 1 : Answers'[c][i] \in AnAnswer
    BY <2>1, <2>5, <2>6, <2>7, <2>8, ElementFacts
  <2>10. Answers'[c] \in Seq(AnAnswer) /\ Len(Answers'[c]) = n + 1
    BY <1>1, <2>4, <2>9
  <2> QED
    BY <1>1, <2>1, <2>5, <2>6, <2>7, <2>10, AppendUnique
<1>7. ASSUME NEW d \in Conns, d # c PROVE Answers'[d] = Answers[d] /\ Open'[d] = Open[d]
  <2>1. \A i \in 1 .. Len(out[d]) : Announces(d, i)' = Announces(d, i)
    BY <1>2, <1>7 DEF Announces
  <2> QED
    BY <1>2, <1>7, <2>1 DEF Answers, Open
<1>8. Open[c] = TRUE /\ Open'[c] = ~close[c]
  <2>1. Open[c] = TRUE
    BY <1>5 DEF Open, Announced, Ended
  <2>2. Open'[c] <=> ~close[c]
    BY <1>4 DEF Open, Announced
  <2>3. Open'[c] \in BOOLEAN
    BY DEF Open
  <2> QED
    BY <1>1, <2>1, <2>2, <2>3
<1>9. Answers' = [Answers EXCEPT ![c] = Append(Answers[c], e)]
  <2>1. /\ Answers = [d \in Conns |-> Answers[d]]
        /\ Answers' = [d \in Conns |-> Answers'[d]]
    BY DEF Answers
  <2> HIDE DEF e, n
  <2> QED
    BY <1>6, <1>7, <2>1
<1>10. Open' = [Open EXCEPT ![c] = ~close[c]]
  BY <1>7, <1>8 DEF Open
<1>11. Len(Answers[c]) = n
  BY AnswersFacts
<1>12. /\ Open[c]
       /\ Len(Answers[c]) < Len(asked[c])
       /\ \E last \in BOOLEAN :
            /\ Answers' = [Answers EXCEPT ![c] =
                             Append(@, [req |-> Len(@) + 1, last |-> last])]
            /\ Open' = [Open EXCEPT ![c] = ~last]
       /\ UNCHANGED asked
  <2>1. Len(Answers[c]) < Len(asked[c])
    <3>1. Len(asked[c]) \in Nat
      BY DEF TypeOK
    <3> QED
      BY <1>1, <1>11, <3>1
  <2>2. /\ Answers' = [Answers EXCEPT ![c] =
                         Append(@, [req |-> Len(@) + 1, last |-> close[c]])]
        /\ Open' = [Open EXCEPT ![c] = ~close[c]]
    BY <1>9, <1>10, <1>11
  <2> QED
    BY <1>1, <1>8, <2>1, <2>2
<1> QED
  BY <1>12 DEF Http!Answer, Answers, Open

\* What a client does is a request, or nothing at all, to the abstract connection.
LEMMA RefineClient ==
  ASSUME TypeOK, NEW c \in Conns, Client(c)
  PROVE  UNCHANGED Http!vars \/ Http!Ask(c)
<1>1. UNCHANGED session /\ \A d \in Conns : \A i \in 1 .. nread[d] : asked'[d][i] = asked[d][i]
  BY ClientKeeps
<1>2. Answers' = Answers /\ Open' = Open
  <2>1. /\ Answers' = Answers
        /\ \A d \in Conns : (pc[d] \in Ended <=> pc'[d] \in Ended) => Open'[d] = Open[d]
    BY <1>1, Invisible DEF session
  <2>2. pc' = pc
    BY <1>1 DEF session
  <2> QED
    BY <2>1, <2>2 DEF Open
<1>3. ASSUME NEW r \in Requests, ClientSend(c, r) PROVE Http!Ask(c)
  BY <1>2, <1>3 DEF ClientSend, Http!Ask, Answers, Open
<1>4. CASE ClientFin(c) \/ ClientStall(c) \/ ClientReset(c)
  <2>1. asked' = asked
    BY <1>4 DEF ClientFin, ClientStall, ClientReset
  <2> QED
    BY <1>2, <2>1 DEF Http!vars, Answers, Open
<1> QED
  BY <1>3, <1>4 DEF Client

\* A step of the session answers a request, gives up, or is not seen.
LEMMA RefineStep ==
  ASSUME TypeOK, TypeOK', NEW c \in Conns, Step(c), ConnInv(c), Aligned(c), LastWord(c)
  PROVE  UNCHANGED Http!vars \/ Http!GiveUp(c) \/ Http!Answer(c)
<1>1. asked' = asked /\ \A d \in Conns : d # c => pc'[d] = pc[d]
  <2>1. asked' = asked
    BY DEF Step, Route, Accept, ReadRequest, ReadError, RouteReturn, RouteThrow,
       RouteSend, WriteDone, WriteFail, RefusalDone, RefusalFail
  <2> QED
    BY <2>1, StepLocal
<1>2. CASE WriteDone(c)
  <2>1. /\ pc[c] \in {"writing", "refusing"} /\ link[c] # "reset"
        /\ out' = [out EXCEPT ![c] = Written(c)] /\ pc'[c] = "routing"
    BY <1>2 DEF WriteDone, TypeOK
  <2> QED
    BY <1>1, <2>1, AnswerStep DEF Ended
<1>3. CASE RefusalDone(c)
  <2>1. /\ pc[c] \in {"writing", "refusing"} /\ link[c] # "reset"
        /\ out' = [out EXCEPT ![c] = Written(c)] /\ (pc'[c] \in Ended => close[c])
    BY <1>3 DEF RefusalDone, Resume, TypeOK, Ended
  <2> QED
    BY <1>1, <2>1, AnswerStep
<1>4. ASSUME out' = out, pc[c] \notin Ended
      PROVE  UNCHANGED Http!vars \/ Http!GiveUp(c)
  BY <1>1, <1>4, QuietStep
<1>5. CASE \/ Accept(c) \/ ReadRequest(c) \/ ReadError(c) \/ RouteReturn(c) \/ RouteThrow(c)
           \/ (\E token \in HandlerTokens : RouteSend(c, token))
           \/ WriteFail(c) \/ RefusalFail(c)
  <2>1. out' = out /\ pc[c] \notin Ended
    BY <1>5 DEF Accept, ReadRequest, ReadError, RouteReturn, RouteThrow, RouteSend,
       WriteFail, RefusalFail, Ended
  <2> QED
    BY <1>4, <2>1
<1> QED
  BY <1>2, <1>3, <1>5 DEF Step, Route

\* Each step maps to a step of the abstract connection or to a stutter.
LEMMA RefineNext == AlignedInv /\ AlignedInv' /\ [Next]_vars => [Http!Next]_Http!vars
<1> SUFFICES ASSUME AlignedInv, AlignedInv', [Next]_vars PROVE [Http!Next]_Http!vars
  OBVIOUS
<1>1. TypeOK /\ TypeOK' /\ \A c \in Conns : ConnInv(c) /\ Aligned(c) /\ LastWord(c)
  BY DEF AlignedInv, SafeInv, TypeInv
<1>2. CASE UNCHANGED vars
  <2>1. \A c \in Conns : \A i \in 1 .. Len(out[c]) : Announces(c, i)' = Announces(c, i)
    BY <1>2 DEF vars, Announces
  <2>2. asked' = asked /\ Answers' = Answers /\ Open' = Open
    BY <1>2, <2>1 DEF vars, Answers, Open
  <2> QED
    BY <2>2 DEF Http!vars, Answers, Open
<1>3. ASSUME NEW c \in Conns, Client(c) PROVE [Http!Next]_Http!vars
  BY <1>1, <1>3, RefineClient DEF Http!Next
<1>4. ASSUME NEW c \in Conns, Step(c) PROVE [Http!Next]_Http!vars
  BY <1>1, <1>4, RefineStep DEF Http!Next
<1> QED
  BY <1>2, <1>3, <1>4 DEF Next

\* Sessions whose routes write one response each keep the promise of
\* HttpConnection: answers in the order of the requests, one each, and none
\* after one that announced the close.
THEOREM SessionImplementsHttp ==
  ASSUME OneResponse
  PROVE  Spec => HttpPromise
<1>1. Init => Http!Init
  BY RefineInit
<1>2. AlignedInv /\ AlignedInv' /\ [Next]_vars => [Http!Next]_Http!vars
  BY RefineNext
<1>3. Spec => []AlignedInv
  BY AlwaysAligned
<1> QED
  BY <1>1, <1>2, <1>3, PTL DEF Spec, HttpPromise, Http!Spec

=============================================================================
