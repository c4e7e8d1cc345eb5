------------------------------ MODULE Service ------------------------------
(***************************************************************************)
(* A session composed with the routing tree: the requests of one           *)
(* connection, which may be pipelined, each read by do_session, refused or *)
(* handed to the root routable by handle_request, and dispatched as in     *)
(* module Dispatch, whose sends go through the lambda of do_session.       *)
(*                                                                         *)
(* Module Session has a contract in the place of the tree: a route that    *)
(* returns has answered once.  Here the tree takes that place, and the     *)
(* composition is shown to implement Session, hence HttpConnection.        *)
(***************************************************************************)
EXTENDS Dispatch

CONSTANTS
  Requests,     \* what the client may send: version, conn, target, input
  MaxRequests   \* bound: requests it sends

ASSUME RequestsAssumption ==
  /\ MaxRequests \in Nat
  /\ \A r \in Requests : /\ r.version \in {10, 11} /\ r.conn \in {"none", "close", "keep-alive"}
                         /\ r.target \in {"route", "illegal", "malformed"} /\ r.input \in Inputs

VARIABLES
  asked,    \* requests the client has sent
  fin,      \* it has closed its sending side
  phase,    \* where do_session is; "routing" while the tree has the request
  nread,    \* requests do_session has read
  close,    \* its local "close"
  flight,   \* Connection token of the last message that was sent
  failed,   \* writes that failed for the current request
  out       \* responses on the wire: request, status, token, handler's end point

session == <<phase, nread, close, flight, failed, out>>
allVars == <<vars, asked, fin, session>>

ServiceInit ==
  /\ Init
  /\ asked = <<>> /\ fin = FALSE /\ phase = "idle" /\ nread = 0
  /\ close = FALSE /\ flight = "none" /\ failed = 0 /\ out = <<>>

Ended == {"shut", "dropped"}

-----------------------------------------------------------------------------
(* The client.                                                             *)

Send(r) ==
  /\ phase \notin Ended /\ ~fin /\ link = "up" /\ Len(asked) < MaxRequests
  /\ asked' = Append(asked, r)
  /\ UNCHANGED <<vars, fin, session>>

Fin ==
  /\ ~fin /\ link = "up" /\ fin' = TRUE
  /\ UNCHANGED <<vars, asked, session>>

Reset ==
  /\ link = "up" /\ link' = "down"
  /\ UNCHANGED <<input, mode, at, request, stack, value, sends, sending, sent, history>>
  /\ UNCHANGED <<asked, fin, session>>

-----------------------------------------------------------------------------
(* do_session and handle_request.                                          *)

\* The session by itself, as seen by module Session.
Conn == "conn"
Seen(r) == [version |-> r.version, conn |-> r.conn, target |-> r.target]
RouteAnswers == {i \in 1 .. Len(out) : out[i].req = nread /\ out[i].status # "400"}
S == INSTANCE Session WITH
  Conns         <- {Conn},
  Requests      <- {Seen(r) : r \in Requests},
  MaxFailures   <- Len(Tree),
  HandlerTokens <- {"none"},
  asked  <- [c \in {Conn} |-> [i \in 1 .. Len(asked) |-> Seen(asked[i])]],
  link   <- [c \in {Conn} |-> IF link = "down" THEN "reset" ELSE IF fin THEN "fin" ELSE "open"],
  pc     <- [c \in {Conn} |-> IF phase = "routing" /\ mode = "sending" THEN "writing" ELSE phase],
  nread  <- [c \in {Conn} |-> nread],
  close  <- [c \in {Conn} |-> close],
  flight <- [c \in {Conn} |-> flight],
  sends  <- [c \in {Conn} |-> Cardinality(RouteAnswers)],
  failed <- [c \in {Conn} |-> failed],
  out    <- [c \in {Conn} |-> [i \in 1 .. Len(out) |->
               [req |-> out[i].req, token |-> out[i].token]]]

Upcoming == asked[nread + 1]
Current  == asked[nread]

\* The lambda: "close" is what the message says, and the message is written.
Lambda(r, token) ==
  close' = ~S!KeepAlive(r.version, token) /\ flight' = token

Accept ==
  /\ phase = "idle" /\ phase' = "reading"
  /\ UNCHANGED <<vars, asked, fin, nread, close, flight, failed, out>>

CallRoot_OldRequest(x) ==
  /\ input' = IF nread = 0 THEN x ELSE input
  /\ mode' = "call" /\ at' = x.app /\ off' = 0 /\ live' = TRUE
  /\ params' = [k \in Keys |-> <<>>]
  /\ stack' = <<>> /\ value' = "none" /\ sends' = 0 /\ sending' = "none" /\ sent' = <<>>
  /\ ran' = <<>> /\ completed' = FALSE /\ trail' = <<>> /\ UNCHANGED link

CallRoot(x) ==
  /\ input' = x
  /\ mode' = "call" /\ at' = x.app /\ off' = 0 /\ live' = TRUE
  /\ params' = [k \in Keys |-> <<>>]
  /\ stack' = <<>> /\ value' = "none" /\ sends' = 0 /\ sending' = "none" /\ sent' = <<>>
  /\ ran' = <<>> /\ completed' = FALSE /\ trail' = <<>> /\ UNCHANGED link

\* The root is called with a new request and a new response.
ReadForRoute ==
  /\ phase = "reading" /\ nread < Len(asked) /\ Upcoming.target = "route"
  /\ phase' = "routing" /\ nread' = nread + 1 /\ failed' = 0
  /\ CallRoot(Upcoming.input)
  /\ UNCHANGED <<asked, fin, close, flight, out>>

ReadRefused ==
  /\ phase = "reading" /\ nread < Len(asked) /\ Upcoming.target = "illegal"
  /\ phase' = "refusing" /\ nread' = nread + 1 /\ failed' = 0
  /\ Lambda(Upcoming, S!RefusalToken(Seen(Upcoming)))
  /\ UNCHANGED <<vars, asked, fin, out>>

ReadError ==
  /\ phase = "reading"
  /\ \/ link = "down"
     \/ fin /\ nread = Len(asked)
     \/ nread < Len(asked) /\ Upcoming.target = "malformed"
  /\ phase' = "dropped"
  /\ UNCHANGED <<vars, asked, fin, nread, close, flight, failed, out>>

\* handle_request is over.
Resumed == IF ~close THEN "reading" ELSE IF link = "up" THEN "shut" ELSE "dropped"

RefusalDone ==
  /\ phase = "refusing" /\ link = "up"
  /\ out' = Append(out, [req |-> nread, status |-> "400", token |-> flight, by |-> 0])
  /\ phase' = Resumed
  /\ UNCHANGED <<vars, asked, fin, nread, close, flight, failed>>

RefusalFails ==
  /\ phase = "refusing" /\ link = "down"
  /\ phase' = "dropped"
  /\ UNCHANGED <<vars, asked, fin, nread, close, flight, failed, out>>

\* A step of the tree; a message it starts to send goes through the lambda.
Dispatching ==
  /\ phase = "routing" /\ mode # "done" /\ Serve
  /\ IF mode # "sending" /\ mode' = "sending"
     THEN Lambda(Current, S!RouteToken(Seen(Current), "none"))
     ELSE UNCHANGED <<close, flight>>
  /\ failed' = failed + (IF mode = "sending" /\ link = "down" THEN 1 ELSE 0)
  /\ out' = IF sent' = sent THEN out
            ELSE Append(out, [req |-> nread, status |-> Last(sent'), token |-> flight,
                              by |-> IF ran = <<>> THEN 0 ELSE Last(ran)])
  /\ UNCHANGED <<asked, fin, phase, nread>>

\* The tree has handed its outcome back.  The bool is ignored; an exception
\* ends the session.
RouteOver ==
  /\ phase = "routing" /\ mode \in {"done", "aborted"}
  /\ phase' = IF mode = "done" /\ value \in {"true", "false"} THEN Resumed ELSE "dropped"
  /\ UNCHANGED <<vars, asked, fin, nread, close, flight, failed, out>>

-----------------------------------------------------------------------------

Client == (\E r \in Requests : Send(r)) \/ Fin \/ Reset

Session == \/ ReadForRoute \/ ReadRefused \/ ReadError \/ RefusalDone \/ RefusalFails
           \/ Dispatching \/ RouteOver

ServiceNext == Client \/ Accept \/ Session

\* The io_context resumes the session when its operation is complete, handlers
\* terminate, and the client reads what it is sent.
ServiceSpec == ServiceInit /\ [][ServiceNext]_allVars
FairServiceSpec == ServiceSpec /\ WF_allVars(Session)

-----------------------------------------------------------------------------
(* Properties.                                                             *)

\* The composition implements the session with its contract for routes: the
\* tree answers exactly once before it returns, whatever the requests, the
\* handlers' exceptions and the client's departure; hence, as is proved of Session,
\* it keeps the promise of a persistent connection.
RouteKeepsContract == S!Spec

\* Pipelined requests get the answers meant for them: the i-th response is that
\* of the first end point that serves the i-th request, or says that there is
\* none, that the handler of that end point failed, or that the target was
\* illegal; what an earlier request left in the tree never shows.
RightAnswer(r, answer) ==
  LET serving == {e \in Nodes : ServesRequest(r.input, e, TRUE)}
  IN  CASE answer.status = "400" -> r.target = "illegal"
        [] answer.status = "404" -> r.target = "route" /\ serving = {}
        [] OTHER -> /\ r.target = "route" /\ serving # {}
                    /\ answer.by \in {0, Min(serving)}
                    /\ answer.status = "ok" => answer.by = Min(serving)

AnswersMatchRequests ==
  \A i \in 1 .. Len(out) : out[i].req = i /\ RightAnswer(asked[i], out[i])

\* A client that stays gets an answer to each request it has sent, unless the
\* connection ends first.
EveryRequestAnswered ==
  []<>(phase = "idle" \/ phase \in Ended \/ Len(out) >= Len(asked))

=============================================================================
