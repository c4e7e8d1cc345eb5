------------------------------ MODULE Dispatch ------------------------------
(***************************************************************************)
(* One request on its way through a tree of routables: the operator()      *)
(* functions of any_routable, binding, group, middleware and end_point,    *)
(* the built-in middlewares, and the responses they send.                  *)
(*                                                                         *)
(* The request and the response travel by move.  What the running call     *)
(* holds is "live" until it has been moved into a callee; the callee's     *)
(* frame is destroyed when it returns, so a frame that is resumed holds a  *)
(* response without a sender and views into a freed request.  Only group   *)
(* and server_fault do anything when they are resumed, and only they are   *)
(* kept on the stack; every other frame passes the outcome on.             *)
(***************************************************************************)
EXTENDS Routes, SequencesExt

CONSTANTS
  Inputs,       \* requests tried: the root of the application it is sent to,
                \* verb, path, cookie header present, body parses
  Asserts,      \* built without NDEBUG
  MinSends,     \* a handler that returns has sent at least this many ...
  MaxSends,     \* ... and at most this many responses
  LateThrows    \* handlers may throw after a response of theirs was sent

ASSUME InputsAssumption ==
  \A x \in Inputs : /\ x.app \in Nodes /\ x.verb \in Verbs
                    /\ x.path \in Seq(Range(x.path)) /\ x.path # <<>> /\ x.path[1] = "/"
                    /\ x.cookie \in BOOLEAN /\ x.json \in BOOLEAN
ASSUME HandlerAssumption ==
  /\ Asserts \in BOOLEAN /\ LateThrows \in BOOLEAN
  /\ MinSends \in Nat /\ MaxSends \in Nat /\ MinSends <= MaxSends

VARIABLES
  input,      \* the request being served
  mode,       \* what happens next
  at,         \* the node being called or whose handler runs
  off,        \* how much of the path has been consumed
  params,     \* request::params, the text captured for each key
  live,       \* the request and response at hand have not been moved from
  stack,      \* resumable frames: the node, its liveness, the next route to try
  value,      \* outcome handed back: "true", "false", or what was thrown
  sends,      \* responses the running handler has sent
  sending,    \* the status being written, by a handler or a middleware
  sent,       \* statuses on the wire
  link,       \* the connection can be written to
  ran,        \* end points whose handler was called
  completed,  \* one of them returned normally
  trail       \* the pattern elements consumed so far

vars == <<input, mode, at, off, params, live, stack, value, sends, sending,
          sent, link, ran, completed, trail>>
request  == <<off, params, live, trail>>
wire     == <<sends, sending, sent, link>>
history  == <<ran, completed>>

Init ==
  /\ input \in Inputs
  /\ mode = "call" /\ at = input.app /\ off = 0 /\ live = TRUE
  /\ params = [k \in Keys |-> <<>>]
  /\ stack = <<>> /\ value = "none" /\ sends = 0 /\ sending = "none" /\ sent = <<>>
  /\ link = "up" /\ ran = <<>> /\ completed = FALSE /\ trail = <<>>

Path == input.path
Top  == Last(stack)

\* Hand an outcome to the caller: a bool, a std::exception, or something else
\* that was thrown.
GiveBack(v) == mode' = "back" /\ value' = v

Calling(kind) == mode = "call" /\ Tree[at].kind = kind
CallNext == mode' = "call" /\ at' = Tree[at].next /\ UNCHANGED value

-----------------------------------------------------------------------------
(* binding::operator()                                                     *)

Bound_NotSet(p, s) == params
\* The parameters of the new match are set over those of the request.
Bound(p, s) ==
  [k \in Keys |->
     LET here == {i \in DOMAIN p : p[i].param /\ p[i].name = k}
     IN  IF here = {} THEN params[k] ELSE Capture(p, s, Min(here))]

Fits(b) == StartsWith(b.pattern, Rest(Path, off))

NextMatches(b) ==
  Match(b.next, input.verb, Path, off + MatchLen(b.pattern, Rest(Path, off)))

Bind ==
  LET b == Tree[at] IN
  /\ Calling("binding") /\ live
  /\ Fits(b)
  /\ Asserts => NextMatches(b)
  /\ params' = Bound(b.pattern, Rest(Path, off))
  /\ off' = off + MatchLen(b.pattern, Rest(Path, off))
  /\ trail' = trail \o b.pattern
  /\ CallNext
  /\ UNCHANGED <<input, live, stack, wire, history>>

\* An assert of binding fails, and with it the process.
AssertFails ==
  /\ Calling("binding") /\ Asserts
  /\ live => ~(Fits(Tree[at]) /\ NextMatches(Tree[at]))
  /\ mode' = "aborted"
  /\ UNCHANGED <<input, at, request, stack, value, wire, history>>

\* No assert stops a binding whose pattern does not match, or the views of the
\* request dangle: the captures are empty or garbage, and the distance to a
\* null iterator or to freed memory is consumed.  substr() throws out_of_range,
\* or some suffix goes on.
BindGarbage ==
  /\ Calling("binding")
  /\ live => ~Asserts /\ ~Fits(Tree[at])
  /\ \/ GiveBack("std") /\ UNCHANGED <<at, off>>
     \/ CallNext /\ off' \in off .. Len(Path)
  /\ params' = [k \in Keys |-> IF \E i \in DOMAIN Tree[at].pattern :
                                    Tree[at].pattern[i] = Par(k)
                               THEN <<>> ELSE params[k]]
  /\ UNCHANGED <<input, live, trail, stack, wire, history>>

-----------------------------------------------------------------------------
(* group::operator(): a fold over doidx<0>, doidx<1>, ... with "||".       *)

CallGroup ==
  /\ Calling("group")
  /\ stack' = Append(stack, [node |-> at, live |-> live, next |-> 1])
  /\ mode' = "fold"
  /\ UNCHANGED <<input, at, request, value, wire, history>>

DoIdxMatches_Trusting(frame) == IF frame.live THEN {TRUE} ELSE BOOLEAN

\* What match() of a route may say to doidx, which reads the verb and the rest
\* of the path from a request that an earlier doidx may have moved away.
DoIdxMatches(frame) ==
  IF frame.live
  THEN {Match(Tree[frame.node].routes[frame.next], input.verb, Path, off)}
  ELSE BOOLEAN

\* The frame when the route it has come to is behind it.
Tried(frame, unmoved) == [node |-> frame.node, live |-> unmoved, next |-> frame.next + 1]

FoldCall ==
  /\ mode = "fold" /\ Top.next <= Len(Tree[Top.node].routes)
  /\ TRUE \in DoIdxMatches(Top)
  /\ mode' = "call" /\ at' = Tree[Top.node].routes[Top.next]
  /\ live' = Top.live
  /\ stack' = [stack EXCEPT ![Len(stack)] = Tried(@, FALSE)]
  /\ UNCHANGED <<input, off, params, trail, value, wire, history>>

FoldSkip_Stuck ==
  /\ mode = "fold" /\ Top.next <= Len(Tree[Top.node].routes)
  /\ FALSE \in DoIdxMatches(Top)
  /\ UNCHANGED vars

FoldSkip ==
  /\ mode = "fold" /\ Top.next <= Len(Tree[Top.node].routes)
  /\ FALSE \in DoIdxMatches(Top)
  /\ stack' = [stack EXCEPT ![Len(stack)] = Tried(@, Top.live)]
  /\ UNCHANGED <<input, mode, at, request, value, wire, history>>

FoldEnd ==
  /\ mode = "fold" /\ Top.next > Len(Tree[Top.node].routes)
  /\ stack' = Front(stack)
  /\ GiveBack("false")
  /\ UNCHANGED <<input, at, request, wire, history>>

GroupBack_NoShortCircuit ==
  /\ mode = "back" /\ stack # <<>> /\ Tree[Top.node].kind = "group"
  /\ \/ /\ value \in {"false", "true"}
        /\ mode' = "fold" /\ UNCHANGED <<stack, value>>
     \/ /\ value \in {"std", "other"}
        /\ stack' = Front(stack) /\ GiveBack(value)
  /\ UNCHANGED <<input, at, request, wire, history>>

\* A route of the group is done: "true" and exceptions go up, "false" goes on.
GroupBack ==
  /\ mode = "back" /\ stack # <<>> /\ Tree[Top.node].kind = "group"
  /\ \/ /\ value = "false"
        /\ mode' = "fold" /\ UNCHANGED <<stack, value>>
     \/ /\ value # "false"
        /\ stack' = Front(stack) /\ GiveBack(value)
  /\ UNCHANGED <<input, at, request, wire, history>>

-----------------------------------------------------------------------------
(* middleware::operator() with the built-in functions.                     *)

Running(fn) == Calling("middleware") /\ Tree[at].fn = fn

\* Start writing a status; an any_send that was moved from is empty and throws
\* std::bad_function_call.
Answer(status, canSend) ==
  IF canSend THEN mode' = "sending" /\ sending' = status /\ UNCHANGED value
             ELSE GiveBack("std") /\ UNCHANGED sending

\* logging_mw and profile_mw only watch.
Observe ==
  /\ \E fn \in Observers : Running(fn)
  /\ CallNext
  /\ UNCHANGED <<input, request, stack, wire, history>>

\* not_found_mw asks about req.path(), all of it, which is empty in a request
\* that was moved from.
Known == Match(Tree[at].next, input.verb, Path, IF live THEN 0 ELSE Len(Path))

NotFound ==
  /\ Running("not_found")
  /\ \/ Known /\ CallNext /\ UNCHANGED sending
     \/ ~Known /\ Answer("404", live) /\ UNCHANGED at
  /\ UNCHANGED <<input, request, stack, sends, sent, link, history>>

\* server_fault_mw copies the response and calls on, under a try ...
ServerFault ==
  /\ Running("server_fault")
  /\ stack' = Append(stack, [node |-> at, live |-> live, next |-> 1])
  /\ CallNext
  /\ UNCHANGED <<input, request, wire, history>>

FaultBack_Silent ==
  /\ mode = "back" /\ stack # <<>> /\ Tree[Top.node].kind = "middleware"
  /\ stack' = Front(stack)
  /\ GiveBack(IF value = "std" THEN "false" ELSE value)
  /\ UNCHANGED <<input, at, request, wire, history>>

FaultBack_NoCopy ==
  /\ mode = "back" /\ stack # <<>> /\ Tree[Top.node].kind = "middleware"
  /\ stack' = Front(stack)
  /\ \/ value = "std" /\ Answer("500", FALSE)
     \/ value # "std" /\ GiveBack(value) /\ UNCHANGED sending
  /\ UNCHANGED <<input, at, request, sends, sent, link, history>>

\* ... whose catch, for std::exception alone, answers 500 with the copy.
FaultBack ==
  /\ mode = "back" /\ stack # <<>> /\ Tree[Top.node].kind = "middleware"
  /\ stack' = Front(stack)
  /\ \/ value = "std" /\ Answer("500", Top.live)
     \/ value # "std" /\ GiveBack(value) /\ UNCHANGED sending
  /\ UNCHANGED <<input, at, request, sends, sent, link, history>>

\* object_body lets simdjson throw when the body does not parse or lacks a
\* member; the body is a view into handle_request's frame and never dangles.
ObjectBody ==
  /\ Running("object_body")
  /\ \/ input.json /\ CallNext
     \/ ~input.json /\ GiveBack("std") /\ UNCHANGED at
  /\ UNCHANGED <<input, request, stack, wire, history>>

\* cookie_parser declines, without a word, a request that has no Cookie header;
\* one that was moved from has no header at all.
CookieParser ==
  /\ Running("cookie_parser")
  /\ \/ input.cookie /\ live /\ CallNext
     \/ ~(input.cookie /\ live) /\ GiveBack("false") /\ UNCHANGED at
  /\ UNCHANGED <<input, request, stack, wire, history>>

-----------------------------------------------------------------------------
(* end_point::operator() and the application's handler.                    *)

CallEndPoint ==
  /\ Calling("end_point")
  /\ mode' = "handler" /\ ran' = Append(ran, at) /\ sends' = 0
  /\ UNCHANGED <<input, at, request, stack, value, sending, sent, link, completed>>

HandlerSend ==
  /\ mode = "handler" /\ sends < MaxSends
  /\ Answer("ok", live)
  /\ UNCHANGED <<input, at, request, stack, sends, sent, link, history>>

HandlerReturn_False ==
  /\ mode = "handler" /\ sends >= MinSends
  /\ completed' = TRUE
  /\ GiveBack("false")
  /\ UNCHANGED <<input, at, request, stack, wire, ran>>

HandlerReturn ==
  /\ mode = "handler" /\ sends >= MinSends
  /\ completed' = TRUE
  /\ GiveBack("true")
  /\ UNCHANGED <<input, at, request, stack, wire, ran>>

HandlerThrow ==
  /\ mode = "handler"
  /\ sends = 0 \/ LateThrows
  /\ \E v \in {"std", "other"} : GiveBack(v)
  /\ UNCHANGED <<input, at, request, stack, wire, history>>

\* The write completes: back to the handler, or "false" from a middleware.
WriteDone ==
  /\ mode = "sending" /\ link = "up"
  /\ sent' = Append(sent, sending)
  /\ \/ sending = "ok" /\ mode' = "handler" /\ sends' = sends + 1 /\ UNCHANGED value
     \/ sending # "ok" /\ GiveBack("false") /\ UNCHANGED sends
  /\ UNCHANGED <<input, at, request, stack, sending, link, history>>

\* The write throws a system_error; handlers let it through.
WriteFail ==
  /\ mode = "sending" /\ link = "down"
  /\ GiveBack("std")
  /\ UNCHANGED <<input, at, request, stack, wire, history>>

PeerReset ==
  /\ link = "up" /\ mode \notin {"done", "aborted"}
  /\ link' = "down"
  /\ UNCHANGED <<input, mode, at, request, stack, value, sends, sending, sent, history>>

\* The outcome reaches handle_request.
Finish ==
  /\ mode = "back" /\ stack = <<>>
  /\ mode' = "done"
  /\ UNCHANGED <<input, at, request, stack, value, wire, history>>

-----------------------------------------------------------------------------

Call  == Bind \/ AssertFails \/ BindGarbage \/ CallGroup \/ Observe \/ NotFound
         \/ ServerFault \/ ObjectBody \/ CookieParser \/ CallEndPoint
Fold  == FoldCall \/ FoldSkip \/ FoldEnd
Back  == GroupBack \/ FaultBack \/ Finish
Write == WriteDone \/ WriteFail
Handler == HandlerSend \/ HandlerReturn \/ HandlerThrow

Serve == Call \/ Fold \/ Back \/ Write \/ Handler
Next  == Serve \/ PeerReset

Spec == Init /\ [][Next]_vars

-----------------------------------------------------------------------------
(* Properties.                                                             *)

Statuses == {"ok", "404", "500"}
Outcomes == {"true", "false", "std", "other"}
Frame    == [node : Nodes, live : BOOLEAN, next : Nat \ {0}]

\* Every variable has its type; the frames kept are of groups and of
\* server_fault, each inside the one below it.
TypeOK ==
  /\ input \in Inputs /\ at \in Nodes /\ off \in 0 .. Len(Path)
  /\ mode \in {"call", "fold", "back", "handler", "sending", "done", "aborted"}
  /\ DOMAIN params = Keys /\ live \in BOOLEAN /\ completed \in BOOLEAN
  /\ stack \in Seq(Frame) /\ value \in Outcomes \cup {"none"}
  /\ \A i \in 1 .. Len(stack) : Tree[stack[i].node].kind \in {"group", "middleware"}
  /\ \A i, j \in 1 .. Len(stack) : i < j => stack[i].node < stack[j].node
  /\ sends \in 0 .. MaxSends /\ sending \in Statuses \cup {"none"}
  /\ sent \in Seq(Statuses) /\ ran \in Seq(Nodes) /\ link \in {"up", "down"}

\* The reference for routing: e can serve request x, its path being split at
\* the longest prefix each binding admits, or at any prefix it admits.
ServesRequest(x, e, longest) ==
  LET serves[n \in Nodes] == [o \in 0 .. Len(x.path) |->
        LET t    == Tree[n]
            ends == {o + l : l \in Lengths(t.pattern, Rest(x.path, o))}
        IN  \/ t.kind = "end_point" /\ n = e /\ t.verb = x.verb /\ o = Len(x.path)
            \/ /\ t.kind = "binding"
               /\ \E b \in ends : (longest => b = Max(ends)) /\ serves[t.next][b]
            \/ t.kind = "group" /\ \E i \in DOMAIN t.routes : serves[t.routes[i]][o]
            \/ t.kind = "middleware" /\ serves[t.next][o]]
  IN  serves[x.app][0]

Serves(e, longest) == ServesRequest(input, e, longest)

Handling == mode = "handler" /\ live

\* not_found, and all that is called before it, asks nothing of the request.
Guarded(n) ==
  LET guarded[m \in Nodes] ==
        /\ Tree[m].kind = "middleware"
        /\ Tree[m].fn = "not_found" \/ guarded[Tree[m].next]
  IN  guarded[n]

\* The asserts of binding: what operator() is called with, match() accepts.
AssertsHold == mode # "aborted"

\* Behind a not_found that asked the whole tree no assert ever fails: each
\* operator() finds what match() had found before it.  Without one the process
\* survives only the requests that an end point serves: server_impl calls the
\* root without asking match().
SurvivesOnlyServed ==
  IF Guarded(input.app) THEN mode # "aborted"
  ELSE mode \in {"handler", "done"} => \E e \in Nodes : Serves(e, TRUE)

\* The handler that runs is that of the first end point of the tree, in the
\* order routes are written, that serves the request.
FirstMatchWins ==
  Handling => Serves(at, TRUE) /\ \A e \in 1 .. at - 1 : ~Serves(e, TRUE)

\* A handler sees the path cut without loss: the literals on its way and its
\* parameters, put together, are the path, and no parameter is empty.
ParamsRebuildPath ==
  Handling =>
    LET text == [i \in 1 .. Len(trail) |->
                   IF trail[i].param THEN params[trail[i].name] ELSE <<trail[i].name>>]
    IN  FlattenSeq(text) = Path /\ \A i \in 1 .. Len(text) : text[i] # <<>>

\* A request is answered exactly once, by the handler, not_found or
\* server_fault, if the peer stays and handlers send once and throw nothing
\* but std::exception; and with 404 if and only if no end point serves it, in
\* which case no handler has run.
AnsweredOnce ==
  /\ Len(sent) <= 1
  /\ mode = "done" /\ link = "up" /\ value # "other" =>
       /\ Len(sent) = 1
       /\ sent = <<"404">> <=> \A e \in Nodes : ~Serves(e, TRUE)
  /\ sent = <<"404">> => ran = <<>>

\* The task yields true if and only if a handler returned normally.
TrueMeansServed ==
  mode = "done" => (value = "true" <=> completed)

\* No handler runs after one that returned normally: the fold of group stops.
NothingAfterServed ==
  [][completed => ran' = ran]_vars

\* Under a server_fault at the root no std::exception reaches the session
\* while the peer is there, and whatever handlers and groups do, every answer
\* after the first one is a 500.
FaultContained ==
  /\ mode = "done" /\ value = "std" => link = "down"
  /\ \A i \in 2 .. Len(sent) : sent[i] = "500"

\* A request that an end point can serve, for some way to split its path over
\* the bindings, is not answered 404: "bound parameters" of a group are there
\* for its sub-routes.
BoundRoutesServed ==
  "404" \in Range(sent) => \A e \in Nodes : ~Serves(e, FALSE)

=============================================================================
