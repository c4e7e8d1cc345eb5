------------------------------ MODULE Session ------------------------------
(***************************************************************************)
(* One HTTP connection after another, each served by the coroutine         *)
(* server_impl::do_session: read a request, hand it to handle_request,     *)
(* which refuses it or awaits the route, write what the route sends, and   *)
(* close or read again.  The route is a contract here (how many responses  *)
(* it writes, whether it throws); module Dispatch models what it does.     *)
(*                                                                         *)
(* A state is a suspension point of the coroutine, so an action is the     *)
(* code that runs between two co_awaits.  Bodies, status lines and header  *)
(* fields other than Connection are abstracted away.                       *)
(***************************************************************************)
EXTENDS Naturals, Sequences

CONSTANTS
  Conns,          \* connections the acceptor may hand out
  Requests,       \* what a client may send: version, Connection token, target
  MaxRequests,    \* bound: requests one client sends
  MinSends,       \* a route that returns has written at least this many ...
  MaxSends,       \* ... and at most this many responses
  MaxFailures,    \* bound: failed writes a route survives within one request
  HandlerTokens   \* Connection tokens handlers put on a response

Tokens  == {"none", "close", "keep-alive"}
Targets == {"route", "illegal", "malformed"}
AnyRequest == [version : {10, 11}, conn : Tokens, target : Targets]

ASSUME RequestsAssumption == Requests \subseteq AnyRequest
ASSUME SendsAssumption ==
  /\ MinSends \in Nat /\ MaxSends \in Nat /\ MinSends <= MaxSends
  /\ MaxRequests \in Nat /\ MaxFailures \in Nat
ASSUME TokensAssumption == "none" \in HandlerTokens /\ HandlerTokens \subseteq Tokens

VARIABLES
  asked,    \* requests the client has sent, in order (the socket and the flat_buffer)
  link,     \* the client's end: open, half closed, not reading, or reset
  pc,       \* where the session's coroutine is suspended
  nread,    \* number of requests taken by async_read
  close,    \* the local "close" of do_session
  flight,   \* Connection token of the message being written
  sends,    \* responses the route has written for the current request
  failed,   \* writes that failed for the current request
  out       \* responses on the wire: the request answered, the Connection token

vars == <<asked, link, pc, nread, close, flight, sends, failed, out>>
session == <<pc, nread, close, flight, sends, failed, out>>

Ended  == {"shut", "dropped"}
States == {"idle", "reading", "refusing", "routing", "writing"} \cup Ended

Init ==
  /\ asked  = [c \in Conns |-> <<>>]
  /\ link   = [c \in Conns |-> "open"]
  /\ pc     = [c \in Conns |-> "idle"]
  /\ nread  = [c \in Conns |-> 0]
  /\ close  = [c \in Conns |-> FALSE]
  /\ flight = [c \in Conns |-> "none"]
  /\ sends  = [c \in Conns |-> 0]
  /\ failed = [c \in Conns |-> 0]
  /\ out    = [c \in Conns |-> <<>>]

-----------------------------------------------------------------------------
(* Connection persistence, as Beast computes it from a message.            *)

\* message::keep_alive(): what a message with this version and token says.
KeepAlive(version, token) ==
  IF version < 11 THEN token = "keep-alive" ELSE token # "close"

\* message::keep_alive(bool): the token a response is given.
TokenFor(version, keep) ==
  IF version < 11 THEN (IF keep THEN "keep-alive" ELSE "none")
                  ELSE (IF keep THEN "none" ELSE "close")

MovedFrom_Intact(r) == r
\* A moved-from beast request keeps its version and loses its fields.
MovedFrom(r) == [r EXCEPT !.conn = "none"]

\* bad_request copies the wish of the request; it runs before the move.
RefusalToken(r) == TokenFor(r.version, KeepAlive(r.version, r.conn))

\* The response made for the route asks a request that has been moved from;
\* a handler may then set the Connection header itself.
RouteToken(r, token) ==
  IF token = "none"
  THEN LET m == MovedFrom(r) IN TokenFor(m.version, KeepAlive(m.version, m.conn))
  ELSE token

Current(c) == asked[c][nread[c]]

-----------------------------------------------------------------------------
(* The client, which the server does not control.                          *)

ClientSend(c, r) ==
  /\ pc[c] \notin Ended
  /\ link[c] \in {"open", "stalled"}
  /\ Len(asked[c]) < MaxRequests
  /\ asked' = [asked EXCEPT ![c] = Append(@, r)]
  /\ UNCHANGED <<link, session>>

\* It closes its sending half, stops reading for good, or resets.
ClientFin(c) ==
  /\ link[c] = "open"
  /\ link' = [link EXCEPT ![c] = "fin"]
  /\ UNCHANGED <<asked, session>>

ClientStall(c) ==
  /\ link[c] = "open"
  /\ link' = [link EXCEPT ![c] = "stalled"]
  /\ UNCHANGED <<asked, session>>

ClientReset(c) ==
  /\ link[c] # "reset"
  /\ link' = [link EXCEPT ![c] = "reset"]
  /\ UNCHANGED <<asked, session>>

-----------------------------------------------------------------------------
(* do_session and handle_request.                                          *)

\* do_listen spawns the session; "close" starts false.
Accept(c) ==
  /\ pc[c] = "idle"
  /\ pc' = [pc EXCEPT ![c] = "reading"]
  /\ UNCHANGED <<asked, link, nread, close, flight, sends, failed, out>>

Transmit_FromRequest(c, r, token, state) ==
  /\ close'  = [close EXCEPT ![c] = ~KeepAlive(r.version, r.conn)]
  /\ flight' = [flight EXCEPT ![c] = token]
  /\ pc'     = [pc EXCEPT ![c] = state]

Transmit_Detached(c, r, token, state) ==
  /\ close'  = [close EXCEPT ![c] = ~KeepAlive(r.version, token)]
  /\ flight' = [flight EXCEPT ![c] = token]
  /\ pc'     = [pc EXCEPT ![c] = "routing"]

Transmit_FirstOnly(c, r, token, state) ==
  /\ close'  = [close EXCEPT ![c] =
                 IF sends[c] + failed[c] = 0 THEN ~KeepAlive(r.version, token) ELSE @]
  /\ flight' = [flight EXCEPT ![c] = token]
  /\ pc'     = [pc EXCEPT ![c] = state]

\* The lambda "send": note whether the message ends the connection, then
\* start writing it.
Transmit(c, r, token, state) ==
  /\ close'  = [close EXCEPT ![c] = ~KeepAlive(r.version, token)]
  /\ flight' = [flight EXCEPT ![c] = token]
  /\ pc'     = [pc EXCEPT ![c] = state]

\* async_read completes.  A request already in the flat_buffer is parsed
\* without touching the socket, so this can happen after a reset too.
ReadRequest(c) ==
  /\ pc[c] = "reading"
  /\ nread[c] < Len(asked[c])
  /\ nread'  = [nread EXCEPT ![c] = @ + 1]
  /\ sends'  = [sends EXCEPT ![c] = 0]
  /\ failed' = [failed EXCEPT ![c] = 0]
  /\ LET r == asked[c][nread[c] + 1] IN
       \/ /\ r.target = "illegal"
          /\ Transmit(c, r, RefusalToken(r), "refusing")
       \/ /\ r.target = "route"
          /\ pc' = [pc EXCEPT ![c] = "routing"]
          /\ UNCHANGED <<close, flight>>
  /\ UNCHANGED <<asked, link, out>>

ReadError_NoEof(c) ==
  /\ pc[c] = "reading"
  /\ \/ link[c] = "reset"
     \/ nread[c] < Len(asked[c]) /\ asked[c][nread[c] + 1].target = "malformed"
  /\ pc' = [pc EXCEPT ![c] = "dropped"]
  /\ UNCHANGED <<asked, link, nread, close, flight, sends, failed, out>>

\* async_read throws: nothing will come, or what came does not parse.
ReadError(c) ==
  /\ pc[c] = "reading"
  /\ \/ link[c] = "reset"
     \/ link[c] = "fin" /\ nread[c] = Len(asked[c])
     \/ nread[c] < Len(asked[c]) /\ asked[c][nread[c] + 1].target = "malformed"
  /\ pc' = [pc EXCEPT ![c] = "dropped"]
  /\ UNCHANGED <<asked, link, nread, close, flight, sends, failed, out>>

\* The route sends a response through the lambda.
RouteSend(c, token) ==
  /\ pc[c] = "routing"
  /\ sends[c] < MaxSends
  /\ failed[c] <= MaxFailures
  /\ Transmit(c, Current(c), RouteToken(Current(c), token), "writing")
  /\ UNCHANGED <<asked, link, nread, sends, failed, out>>

Written_Ahead(c) == Append(out[c], [req |-> nread[c] + 1, token |-> flight[c]])

\* What is on the wire once async_write completes.
Written(c) == Append(out[c], [req |-> nread[c], token |-> flight[c]])

\* async_write completes: back into the route.
WriteDone(c) ==
  /\ pc[c] = "writing"
  /\ link[c] # "reset"
  /\ out'   = [out EXCEPT ![c] = Written(c)]
  /\ sends' = [sends EXCEPT ![c] = @ + 1]
  /\ pc'    = [pc EXCEPT ![c] = "routing"]
  /\ UNCHANGED <<asked, link, nread, close, flight, failed>>

WriteFail_Retry(c) ==
  /\ pc[c] = "writing"
  /\ link[c] = "reset"
  /\ UNCHANGED vars

\* async_write throws into the route, which may catch it.
WriteFail(c) ==
  /\ pc[c] = "writing"
  /\ link[c] = "reset"
  /\ failed' = [failed EXCEPT ![c] = @ + 1]
  /\ pc'     = [pc EXCEPT ![c] = "routing"]
  /\ UNCHANGED <<asked, link, nread, close, flight, sends, out>>

Resume_IgnoreClose(c) == pc' = [pc EXCEPT ![c] = "reading"]

\* handle_request has returned: shut the sending side down (which throws on a
\* reset socket) and leave the loop, or read again.
Resume(c) ==
  pc' = [pc EXCEPT ![c] = CASE ~close[c] -> "reading"
                            [] close[c] /\ link[c] # "reset" -> "shut"
                            [] OTHER -> "dropped"]

RefusalDone(c) ==
  /\ pc[c] = "refusing"
  /\ link[c] # "reset"
  /\ out' = [out EXCEPT ![c] = Written(c)]
  /\ Resume(c)
  /\ UNCHANGED <<asked, link, nread, close, flight, sends, failed>>

RefusalFail(c) ==
  /\ pc[c] = "refusing"
  /\ link[c] = "reset"
  /\ pc' = [pc EXCEPT ![c] = "dropped"]
  /\ UNCHANGED <<asked, link, nread, close, flight, sends, failed, out>>

RouteReturn_Early(c) ==
  /\ pc[c] = "routing"
  /\ Resume(c)
  /\ UNCHANGED <<asked, link, nread, close, flight, sends, failed, out>>

\* The route returns; its bool is ignored by handle_request.
RouteReturn(c) ==
  /\ pc[c] = "routing"
  /\ sends[c] >= MinSends \/ failed[c] > 0
  /\ Resume(c)
  /\ UNCHANGED <<asked, link, nread, close, flight, sends, failed, out>>

\* An exception leaves the route: do_session catches it (or, when it is no
\* std::exception, co_spawn does) and the stream is destroyed.
RouteThrow(c) ==
  /\ pc[c] = "routing"
  /\ pc' = [pc EXCEPT ![c] = "dropped"]
  /\ UNCHANGED <<asked, link, nread, close, flight, sends, failed, out>>

-----------------------------------------------------------------------------

Client(c) ==
  \/ \E r \in Requests : ClientSend(c, r)
  \/ ClientFin(c) \/ ClientStall(c) \/ ClientReset(c)

Route(c) ==
  \/ \E token \in HandlerTokens : RouteSend(c, token)
  \/ RouteReturn(c) \/ RouteThrow(c)

Step(c) ==
  \/ Accept(c) \/ ReadRequest(c) \/ ReadError(c)
  \/ Route(c) \/ WriteDone(c) \/ WriteFail(c)
  \/ RefusalDone(c) \/ RefusalFail(c)

Next == \E c \in Conns : Client(c) \/ Step(c)

\* The io_context resumes a session whose operation has completed, handlers
\* terminate, and a client that has not stopped reading drains what is written
\* to it.  Nothing obliges a stalled client: the stream has no timeout.
Progress(c) ==
  /\ Step(c)
  /\ pc[c] # "idle"
  /\ pc[c] \in {"writing", "refusing"} => link[c] # "stalled"

Spec == Init /\ [][Next]_vars
FairSpec == Spec /\ \A c \in Conns : WF_vars(Progress(c))

-----------------------------------------------------------------------------
(* Properties.                                                             *)

Response == [req : Nat \ {0}, token : Tokens]

\* Every variable has its type; the coroutine never takes a request that was
\* not sent, and what is on the wire answers a request it has taken.
TypeOK ==
  /\ asked  \in [Conns -> Seq(Requests)]
  /\ link   \in [Conns -> {"open", "fin", "stalled", "reset"}]
  /\ pc     \in [Conns -> States]
  /\ nread  \in [Conns -> Nat]
  /\ close  \in [Conns -> BOOLEAN]
  /\ flight \in [Conns -> Tokens]
  /\ sends  \in [Conns -> 0 .. MaxSends]
  /\ failed \in [Conns -> Nat]
  /\ out    \in [Conns -> Seq(Response)]
  /\ \A c \in Conns :
       /\ nread[c] <= Len(asked[c])
       /\ pc[c] \in {"routing", "writing", "refusing"} => nread[c] > 0
       /\ \A i \in 1 .. Len(out[c]) : out[c][i].req <= nread[c]

\* The response says that the connection ends with it.
Announces(c, i) ==
  ~KeepAlive(asked[c][out[c][i].req].version, out[c][i].token)

\* The last response of a route decides.  "close" is one local that each send
\* assigns anew, so a session goes on past a response that announced the close
\* only when the same route sent another response after it: whatever number of
\* responses routes send and whatever they put on them, no later request is
\* read because an earlier answer's close was overlooked.
LastAnswerDecides ==
  \A c \in Conns : link[c] # "reset" =>
    \A i \in 1 .. Len(out[c]) : Announces(c, i) =>
      \/ \E j \in i + 1 .. Len(out[c]) : out[c][j].req = out[c][i].req
      \/ out[c][i].req = nread[c] /\ pc[c] # "reading"

\* The sending side is shut down only after the response to the last request
\* read is completely written, and that response announced the close: no
\* response is cut short by a graceful close and no close comes unannounced.
ShutAfterLastAnswer ==
  \A c \in Conns : pc[c] = "shut" =>
    /\ out[c] # <<>>
    /\ out[c][Len(out[c])].req = nread[c]
    /\ Announces(c, Len(out[c]))

\* "close" lives outside the loop of do_session and is never reset, yet a
\* value left by an earlier request never decides the fate of a later one: it
\* is true only when a response to the current request set it.
CloseNeverStale ==
  \A c \in Conns : close[c] =>
    \/ pc[c] \in Ended \cup {"refusing", "writing"}
    \/ pc[c] = "routing" /\ sends[c] + failed[c] > 0

\* When each route writes exactly one response, the i-th response on the wire
\* answers the i-th request, and a session about to read has answered all it
\* has read: a pipelining client can match answers to requests.
PipelineAligned ==
  \A c \in Conns :
    /\ \A i \in 1 .. Len(out[c]) : out[c][i].req = i
    /\ pc[c] = "reading" /\ link[c] # "reset" => Len(out[c]) = nread[c]

\* Which connections are reused: after an illegal target, those whose client
\* asked for it; after a routed request, those of HTTP/1.1 clients, whatever
\* their Connection header says, because handle_request reads keep_alive() from
\* the request it has just moved away.
ReuseRule ==
  \A c \in Conns : \A k \in 1 .. nread[c] - 1 :
    LET r == asked[c][k] IN
    /\ r.target = "illegal" => KeepAlive(r.version, r.conn)
    /\ r.target = "route"   => r.version = 11

\* Once a response on the wire announced the close, no request is read and no
\* further request is answered on that connection.
NothingAfterClose ==
  [][\A c \in Conns :
       (\E i \in 1 .. Len(out[c]) : Announces(c, i)) =>
         nread'[c] = nread[c] /\ out'[c] = out[c]]_vars

\* A session whose client hung up ends, whatever was pipelined before.
HangUpEnds ==
  \A c \in Conns :
    (pc[c] # "idle" /\ link[c] \in {"fin", "reset"}) ~> (pc[c] \in Ended)

\* A request that has been read is settled, by a response and the next read or
\* by the end of the session, unless the client stops reading: no write has a
\* timeout, and such a session hangs for good.
RequestSettles ==
  \A c \in Conns :
    (pc[c] \in {"routing", "writing", "refusing"})
      ~> (pc[c] \in Ended \cup {"reading"} \/ link[c] = "stalled")

\* The promise to the client (module HttpConnection).
Http == INSTANCE HttpConnection WITH
  answers <- [c \in Conns |-> [i \in 1 .. Len(out[c]) |->
                [req |-> out[c][i].req, last |-> Announces(c, i)]]],
  open    <- [c \in Conns |->
                pc[c] \notin Ended /\ \A i \in 1 .. Len(out[c]) : ~Announces(c, i)]

\* When each route writes exactly one response, do_session keeps that promise.
HttpPromise == Http!Spec

=============================================================================
