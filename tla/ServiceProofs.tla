---------------------------- MODULE ServiceProofs ----------------------------
(***************************************************************************)
(* Proofs about a session that calls a tree of routables, for every tree   *)
(* that answers each request (Layout), every client and any number of      *)
(* requests: answers belong to their requests, and the composition         *)
(* implements Session.                                                     *)
(***************************************************************************)
EXTENDS Service, DispatchProofs, FiniteSetTheorems

-----------------------------------------------------------------------------
(* The tree, between a call of the root and its outcome.                   *)

\* The root has been called with a request; the connection may be gone.
Fresh ==
  /\ input \in Inputs /\ mode = "call" /\ at = input.app /\ off = 0 /\ live = TRUE
  /\ stack = <<>> /\ sends = 0 /\ sent = <<>> /\ ran = <<>>

\* The first end point that serves request x.
FirstOf(x, e) ==
  e \in Nodes /\ ServesRequest(x, e, TRUE) /\ \A d \in 1 .. e - 1 : ~ServesRequest(x, d, TRUE)

\* Only its handler has run, and what a handler sends is sent by it.
Handled ==
  /\ ran = <<>> \/ \E e \in Nodes : ran = <<e>> /\ FirstOf(input, e)
  /\ mode = "handler" \/ (mode = "sending" /\ sending = "ok") => ran # <<>>

\* Frames lie one inside the other, so that there are fewer than nodes, and each
\* write that fails has been at the cost of one.
Deep ==
  /\ \A i \in 1 .. Len(stack) : stack[i].node >= i
  /\ mode = "call" \/ mode = "handler" \/ (mode = "sending" /\ sending # "500") =>
       at > Len(stack)
  /\ failed \in Nat
  /\ mode \in {"call", "fold", "handler"} \/ (mode = "sending" /\ sending # "500") => failed = 0
  /\ mode = "sending" => failed + Len(stack) < Len(Tree)
  /\ mode = "back" => failed + Len(stack) <= Len(Tree)

\* All that is known of the tree.
Rooted(last, U, Inner) == Steady(last, U, Inner) /\ Accounted /\ Handled

\* It holds when the root is called.
LEMMA RootedFresh ==
  ASSUME NEW last, NEW U, Entrances(U), NEW Inner
  PROVE  Fresh => Rooted(last, U, Inner)
<1> SUFFICES ASSUME Fresh PROVE Rooted(last, U, Inner)
  OBVIOUS
<1>1. /\ mode = "call" /\ live /\ input \in Inputs /\ at = input.app /\ off = 0
      /\ stack = <<>> /\ 1 .. Len(stack) = {} /\ sent = <<>> /\ sends = 0 /\ ran = <<>>
      /\ at \in Nodes
  BY PathFacts DEF Fresh
<1>2. Framed
  BY <1>1 DEF Fresh, Framed, Shape, Spent
<1>3. Placed(last, U)
  BY <1>1, CalledAtRoot DEF Placed
<1>4. Carried(Inner)
  BY <1>1 DEF Carried, Kept, NoGroup, Whole
<1>5. Watched(U)
  BY <1>1 DEF Watched, Entrances
<1>6. Accounted /\ Handled
  BY <1>1 DEF Accounted, Handled
<1> QED
  BY <1>2, <1>3, <1>4, <1>5, <1>6 DEF Rooted, Steady

\* A handler is called once, that of the first end point.
LEMMA HandledStep ==
  ASSUME NEW last, InOrder(last), NEW U, Entrances(U), NEW Inner,
         Framed, Placed(last, U), Carried(Inner), Accounted, Handled, Serve
  PROVE  Handled'
<1>1. CASE CallEndPoint
  <2>1. /\ mode = "call" /\ Tree[at].kind = "end_point" /\ mode' = "handler" /\ ran' = Append(ran, at)
        /\ input' = input /\ ran = <<>> /\ live
    BY <1>1 DEF CallEndPoint, Calling, Accounted, Carried
  <2>2. CalledRight(last, U, input, at, off) /\ input \in Inputs
    BY <2>1 DEF Placed
  <2>3. HandlesRight(last, input, at, off)
    BY <2>1, <2>2, CalledEnd
  <2>4. FirstOf(input, at)
    BY <2>2, <2>3, HandlesFirst DEF FirstOf
  <2>5. ran' = <<at>> /\ ran' # <<>>
    BY <2>1
  <2>6. at \in Nodes /\ FirstOf(input', at)
    BY <2>1, <2>4 DEF FirstOf
  <2>7. \E e \in Nodes : ran' = <<e>> /\ FirstOf(input', e)
    BY <2>5, <2>6
  <2> QED
    BY <2>5, <2>7 DEF Handled
<1>2. ASSUME UNCHANGED <<input, ran>>,
             mode' = "handler" \/ (mode' = "sending" /\ sending' = "ok") => ran # <<>>
      PROVE  Handled'
  <2>1. ran' = <<>> \/ \E e \in Nodes : ran' = <<e>> /\ FirstOf(input', e)
    BY <1>2 DEF Handled
  <2> QED
    BY <1>2, <2>1 DEF Handled
<1>3. CASE Bind \/ AssertFails \/ BindGarbage \/ CallGroup \/ Observe \/ ServerFault \/ ObjectBody
             \/ CookieParser
  <2>1. UNCHANGED <<input, ran>> /\ mode' \notin {"handler", "sending"}
    BY <1>3 DEF Bind, AssertFails, BindGarbage, CallGroup, Observe, ServerFault, ObjectBody,
       CookieParser, CallNext, GiveBack, history
  <2> QED
    BY <1>2, <2>1
<1>4. CASE NotFound
  <2>1. UNCHANGED <<input, ran>> /\ mode' # "handler" /\ (mode' = "sending" => sending' = "404")
    BY <1>4 DEF NotFound, CallNext, Answer, GiveBack, history
  <2> QED
    BY <1>2, <2>1
<1>5. CASE Fold \/ Back
  <2>1. CASE Fold \/ GroupBack \/ Finish
    <3>1. UNCHANGED <<input, ran>> /\ mode' \notin {"handler", "sending"}
      BY <2>1 DEF Fold, FoldCall, FoldSkip, FoldEnd, GroupBack, Finish, GiveBack, history
    <3> QED
      BY <1>2, <3>1
  <2>2. CASE FaultBack
    <3>1. UNCHANGED <<input, ran>> /\ mode' # "handler" /\ (mode' = "sending" => sending' = "500")
      BY <2>2, FaultFacts DEF history
    <3> QED
      BY <1>2, <3>1
  <2> QED
    BY <1>5, <2>1, <2>2 DEF Back
<1>6. CASE Handler
  <2>1. mode = "handler" /\ UNCHANGED <<input, ran>>
    BY <1>6 DEF Handler, HandlerSend, HandlerReturn, HandlerThrow, history
  <2> QED
    BY <1>2, <2>1 DEF Handled
<1>7. CASE Write
  <2>1. mode = "sending" /\ UNCHANGED <<input, ran>> /\ mode' # "sending"
        /\ (mode' = "handler" => sending = "ok")
    BY <1>7 DEF Write, WriteDone, WriteFail, GiveBack, history
  <2> QED
    BY <1>2, <2>1 DEF Handled
<1> QED
  BY <1>1, <1>3, <1>4, <1>5, <1>6, <1>7 DEF Serve, Call

\* Every step of the tree keeps it.
LEMMA RootedServe ==
  ASSUME NEW last, InOrder(last), NEW U, Entrances(U), Plain(U), Answers,
         NEW Inner, Steadfast(Inner), Rooted(last, U, Inner), Serve
  PROVE  Rooted(last, U, Inner)'
<1>1. Framed /\ Placed(last, U) /\ Carried(Inner) /\ Watched(U) /\ Accounted /\ Handled
  BY DEF Rooted, Steady
<1>2. Firm(U)
  BY GuardedFacts DEF Plain, Firm, Entrances
<1>3. Framed'
  BY <1>1, FramedNext DEF Next
<1>4. Placed(last, U)'
  BY <1>1, PlacedCall, PlacedGroup, PlacedRest DEF Serve, Call, Back
<1>5. Carried(Inner)'
  BY <1>1, <1>2, CarriedCall, CarriedFault, CarriedGroup, CarriedRest DEF Serve, Call, Fold, Back
<1>6. Watched(U)'
  BY <1>1, <1>2, WatchedCall, WatchedRest DEF Serve
<1>7. Accounted'
  BY <1>1, <1>2, AccountedCall, AccountedBack, AccountedRest DEF Serve
<1>8. Handled'
  BY <1>1, HandledStep
<1> QED
  BY <1>3, <1>4, <1>5, <1>6, <1>7, <1>8 DEF Rooted, Steady

\* So does the loss of the connection, and whatever leaves the tree alone.
LEMMA RootedApart ==
  ASSUME NEW last, NEW U, Entrances(U), NEW Inner, Rooted(last, U, Inner),
         UNCHANGED <<input, mode, at, request, stack, value, sends, sending, sent, history>>,
         link' = link \/ link' = "down"
  PROVE  Rooted(last, U, Inner)'
<1>1. /\ UNCHANGED <<input, mode, at, off, live, stack, value, sends, sending, sent, ran>>
      /\ Framed /\ Placed(last, U) /\ Carried(Inner) /\ Watched(U) /\ Accounted /\ Handled
  BY DEF Rooted, Steady, request, history
<1>2. Top' = Top
  BY <1>1 DEF Top
<1>3. Framed'
  BY <1>1, <1>2 DEF Framed, Shape, Spent
<1>4. Placed(last, U)'
  BY <1>1, <1>2 DEF Placed
<1>5. Carried(Inner)'
  <2>1. mode' = "call" /\ at \notin Inner => Whole(input', at')
    <3>1. mode = "call" /\ at \notin Inner => Whole(input, at)
      BY <1>1 DEF Carried
    <3> QED
      BY <1>1, <3>1
  <2>2. Kept' /\ (NoGroup => NoGroup')
    BY <1>1 DEF Carried, Kept, NoGroup
  <2> QED
    BY <1>1, <1>2, <2>1, <2>2 DEF Carried
<1>6. Watched(U)'
  <2>1. \/ MatchAt(input, at, off)
        \/ IF Guarded(input.app) THEN Guarded(at) ELSE at \in U /\ ~Guarded(at)
        \/ mode # "call"
    BY <1>1 DEF Watched
  <2>2. \/ MatchAt(input', at', off')
        \/ IF Guarded(input'.app) THEN Guarded(at') ELSE at' \in U /\ ~Guarded(at')
        \/ mode' # "call"
    BY <1>1, <2>1
  <2> QED
    BY <1>1, <2>2 DEF Watched
<1>7. Accounted'
  BY <1>1 DEF Accounted
<1>8. Handled'
  <2>1. ran' = <<>> \/ \E e \in Nodes : ran' = <<e>> /\ FirstOf(input', e)
    BY <1>1 DEF Handled
  <2> QED
    BY <1>1, <2>1 DEF Handled
<1> QED
  BY <1>3, <1>4, <1>5, <1>6, <1>7, <1>8 DEF Rooted, Steady

-----------------------------------------------------------------------------
(* The writes that fail within one request.                                *)

\* Calls go down the tree, whose children have larger numbers.
LEMMA DeepCall ==
  ASSUME Framed, Deep, Call, failed' = failed
  PROVE  Deep'
<1>1. /\ mode = "call" /\ failed = 0 /\ at > Len(stack) /\ at \in Nodes /\ stack \in Seq(Frame)
      /\ at \in Nat /\ at <= Len(Tree) /\ Len(Tree) \in Nat /\ Len(stack) \in Nat
      /\ \A i \in 1 .. Len(stack) : stack[i].node >= i
  <2>1. mode = "call"
    BY DEF Call, Bind, AssertFails, BindGarbage, CallGroup, Observe, NotFound, ServerFault,
       ObjectBody, CookieParser, CallEndPoint, Running, Calling
  <2>2. stack \in Seq(Frame) /\ at \in Nodes
    BY DEF Framed, Shape
  <2> QED
    BY <2>1, <2>2, TreeAssumption DEF Deep
<1>2. ASSUME Tree[at].kind \in {"binding", "middleware"} PROVE Tree[at].next > at
  BY <1>1, <1>2, ChildFacts
<1>3. ASSUME UNCHANGED stack, \/ mode' \in {"back", "aborted"}
                              \/ mode' = "call" /\ at' > at /\ at' \in Nat
                              \/ mode' = "handler" /\ at' = at
                              \/ mode' = "sending" /\ at' = at
      PROVE  Deep'
  BY <1>1, <1>3 DEF Deep
<1>4. ASSUME CallNext, Tree[at].kind \in {"binding", "middleware"}
      PROVE  mode' = "call" /\ at' > at /\ at' \in Nat
  <2>1. Tree[at].next \in Nat
    BY <1>1, <1>4, ChildFacts
  <2> QED
    BY <1>2, <1>4, <2>1 DEF CallNext
<1>5. CASE Bind \/ BindGarbage
  <2>1. Tree[at].kind = "binding" /\ UNCHANGED stack /\ (mode' = "back" \/ CallNext)
    BY <1>5 DEF Bind, BindGarbage, Calling, GiveBack
  <2> QED
    BY <1>3, <1>4, <2>1
<1>6. CASE Observe \/ NotFound \/ ObjectBody \/ CookieParser
  <2>1. Tree[at].kind = "middleware" /\ UNCHANGED stack
        /\ (mode' = "back" \/ CallNext \/ (mode' = "sending" /\ at' = at))
    BY <1>6 DEF Observe, NotFound, ObjectBody, CookieParser, Running, Calling, Answer, GiveBack
  <2> QED
    BY <1>3, <1>4, <2>1
<1>7. CASE AssertFails \/ CallEndPoint
  <2>1. UNCHANGED <<stack, at>> /\ mode' \in {"aborted", "handler"}
    BY <1>7 DEF AssertFails, CallEndPoint, request
  <2> QED
    BY <1>3, <2>1
<1>8. CASE CallGroup \/ ServerFault
  <2> DEFINE f == [node |-> at, live |-> live, next |-> 1]
  <2>1. /\ f \in Frame /\ f.node = at /\ stack' = Append(stack, f)
        /\ mode' = "fold" \/ (mode' = "call" /\ at' > at /\ at' \in Nat)
    <3>1. f \in Frame /\ f.node = at
      BY <1>1 DEF Frame, Framed, Shape
    <3>2. stack' = Append(stack, f)
      BY <1>8 DEF CallGroup, ServerFault
    <3>3. mode' = "fold" \/ (mode' = "call" /\ at' > at /\ at' \in Nat)
      BY <1>4, <1>8 DEF CallGroup, ServerFault, Running, Calling
    <3> QED
      BY <3>1, <3>2, <3>3
  <2> HIDE DEF f
  <2>2. /\ Len(stack') = Len(stack) + 1 /\ stack'[Len(stack) + 1] = f
        /\ \A i \in 1 .. Len(stack) : stack'[i] = stack[i]
    BY <1>1, <2>1, PushFacts
  <2>3. ASSUME NEW i \in 1 .. Len(stack') PROVE stack'[i].node >= i
    <3>1. CASE i <= Len(stack)
      <4>1. i \in 1 .. Len(stack)
        BY <1>1, <2>2, <3>1
      <4> QED
        BY <1>1, <2>2, <4>1
    <3>2. CASE ~(i <= Len(stack))
      <4>1. i = Len(stack) + 1
        BY <1>1, <2>2, <3>2
      <4> QED
        BY <1>1, <2>1, <2>2, <4>1
    <3> QED
      BY <3>1, <3>2
  <2> QED
    BY <1>1, <2>1, <2>2, <2>3 DEF Deep
<1> QED
  BY <1>5, <1>6, <1>7, <1>8 DEF Call

\* Groups give their frames up one by one, with nothing written in between.
LEMMA DeepFold ==
  ASSUME NEW last, NEW U, Firm(U), NEW Inner, Steadfast(Inner),
         Framed, Placed(last, U), Carried(Inner), Deep, Fold \/ GroupBack, failed' = failed
  PROVE  Deep'
<1>1. CASE FoldCall \/ FoldSkip
  <2>1. mode = "fold"
    BY <1>1 DEF FoldCall, FoldSkip
  <2>2. /\ stack \in Seq(Frame) /\ stack # <<>> /\ Tree[Top.node].kind = "group"
        /\ Top = stack[Len(stack)] /\ Len(stack) \in Nat \ {0}
        /\ Top.node \in Nodes /\ Top.next \in Nat \ {0} /\ Top.live \in BOOLEAN
        /\ \A b \in BOOLEAN : Tried(Top, b).node = Top.node
    BY <2>1, FoldFrame
  <2>3. PICK b \in BOOLEAN : stack' = [stack EXCEPT ![Len(stack)] = Tried(@, b)]
    BY <1>1, <2>2 DEF FoldCall, FoldSkip
  <2>4. /\ Len(stack') = Len(stack) /\ stack'[Len(stack)] = Tried(Top, b)
        /\ \A i \in 1 .. Len(stack) - 1 : stack'[i] = stack[i]
    BY <2>1, <2>3, FoldFacts
  <2>5. failed = 0 /\ \A i \in 1 .. Len(stack) : stack[i].node >= i
    BY <2>1 DEF Deep
  <2>6. Top.node >= Len(stack) /\ Top.node \in Nat
    BY <2>2, <2>5, TreeAssumption
  <2>7. ASSUME NEW i \in 1 .. Len(stack') PROVE stack'[i].node >= i
    <3>1. CASE i \in 1 .. Len(stack) - 1
      BY <2>2, <2>4, <2>5, <3>1
    <3>2. CASE i \notin 1 .. Len(stack) - 1
      <4>1. i = Len(stack)
        BY <2>2, <2>4, <3>2
      <4> QED
        BY <2>2, <2>4, <2>6, <4>1
    <3> QED
      BY <3>1, <3>2
  <2>8. mode' = "fold" \/ (mode' = "call" /\ at' > Len(stack'))
    <3>1. CASE FoldCall
      <4>1. mode' = "call" /\ at' = Tree[Top.node].routes[Top.next]
            /\ Top.next <= Len(Tree[Top.node].routes)
        BY <3>1 DEF FoldCall
      <4>2. Tree[Top.node].routes \in Seq(Top.node + 1 .. Len(Tree))
        BY <2>2, ChildFacts
      <4>3. Tree[Top.node].routes[Top.next] \in Top.node + 1 .. Len(Tree)
        <5>1. Top.next \in DOMAIN Tree[Top.node].routes
          BY <2>2, <4>1, <4>2
        <5> QED
          BY <2>2, <5>1, ChildFacts
      <4> QED
        BY <2>2, <2>4, <2>6, <4>1, <4>3, TreeAssumption
    <3>2. CASE FoldSkip
      BY <2>1, <3>2 DEF FoldSkip
    <3> QED
      BY <1>1, <3>1, <3>2
  <2> QED
    BY <2>5, <2>7, <2>8 DEF Deep
<1>2. CASE FoldEnd \/ GroupBack
  <2>1. ~FoldEnd /\ mode = "back" /\ mode' = "back" /\ stack' = Front(stack)
        /\ stack # <<>> /\ stack \in Seq(Frame)
    BY <1>2, CarriedGroup, GroupFacts DEF Fold, GroupBack
  <2>2. /\ Len(stack) \in Nat \ {0} /\ Len(stack') = Len(stack) - 1
        /\ \A i \in 1 .. Len(stack) - 1 : stack'[i] = stack[i]
    BY <2>1, PopFacts
  <2> QED
    BY <2>1, <2>2, TreeAssumption DEF Deep
<1> QED
  BY <1>1, <1>2 DEF Fold

\* A write that fails ends what called it, and costs server_fault its frame.
LEMMA DeepRest ==
  ASSUME Framed, Deep, FaultBack \/ Finish \/ Handler \/ Write,
         failed' = failed + (IF mode = "sending" /\ link = "down" THEN 1 ELSE 0)
  PROVE  Deep'
<1>1. /\ at \in Nat /\ at <= Len(Tree) /\ Len(Tree) \in Nat /\ stack \in Seq(Frame)
      /\ Len(stack) \in Nat /\ failed \in Nat
  BY TreeAssumption DEF Framed, Shape, Deep
<1>2. CASE FaultBack
  <2>1. /\ mode = "back" /\ stack' = Front(stack) /\ stack # <<>> /\ failed' = failed
        /\ (mode' = "sending" /\ sending' = "500") \/ mode' = "back"
    BY <1>1, <1>2, FaultFacts
  <2>2. /\ Len(stack) \in Nat \ {0} /\ Len(stack') = Len(stack) - 1
        /\ \A i \in 1 .. Len(stack) - 1 : stack'[i] = stack[i]
    BY <1>1, <2>1, PopFacts
  <2> QED
    BY <1>1, <2>1, <2>2 DEF Deep
<1>3. CASE Finish
  BY <1>1, <1>3 DEF Finish, Deep
<1>4. CASE Handler
  <2>1. mode = "handler" /\ UNCHANGED <<at, stack>> /\ failed' = failed
        /\ mode' \in {"sending", "back"}
    BY <1>1, <1>4 DEF Handler, HandlerSend, HandlerReturn, HandlerThrow, Answer, GiveBack, request
  <2> QED
    BY <1>1, <2>1 DEF Deep
<1>5. CASE WriteDone
  <2>1. /\ mode = "sending" /\ UNCHANGED <<at, stack>> /\ failed' = failed
        /\ mode' = "back" \/ (mode' = "handler" /\ sending = "ok")
    BY <1>1, <1>5 DEF WriteDone, GiveBack, request
  <2>2. CASE mode' = "back"
    BY <1>1, <2>1, <2>2 DEF Deep
  <2>3. CASE mode' = "handler" /\ sending = "ok"
    BY <1>1, <2>1, <2>3 DEF Deep
  <2> QED
    BY <2>1, <2>2, <2>3
<1>6. CASE WriteFail
  <2>1. mode = "sending" /\ mode' = "back" /\ UNCHANGED <<at, stack>> /\ failed' = failed + 1
    BY <1>1, <1>6 DEF WriteFail, GiveBack, request
  <2> QED
    BY <1>1, <2>1 DEF Deep
<1> QED
  BY <1>2, <1>3, <1>4, <1>5, <1>6 DEF Write

\* Every step of the tree keeps it.
LEMMA DeepServe ==
  ASSUME NEW last, NEW U, Entrances(U), Plain(U), NEW Inner, Steadfast(Inner),
         Rooted(last, U, Inner), Deep, Serve,
         failed' = failed + (IF mode = "sending" /\ link = "down" THEN 1 ELSE 0)
  PROVE  Deep'
<1>1. Framed /\ Placed(last, U) /\ Carried(Inner)
  BY DEF Rooted, Steady
<1>2. Firm(U)
  BY GuardedFacts DEF Plain, Firm, Entrances
<1>3. ASSUME Call \/ Fold \/ GroupBack PROVE failed' = failed
  <2>1. mode # "sending"
    BY <1>3 DEF Call, Bind, AssertFails, BindGarbage, CallGroup, Observe, NotFound, ServerFault,
       ObjectBody, CookieParser, CallEndPoint, Running, Calling, Fold, FoldCall, FoldSkip,
       FoldEnd, GroupBack
  <2> QED
    BY <2>1 DEF Deep
<1> QED
  BY <1>1, <1>2, <1>3, DeepCall, DeepFold, DeepRest DEF Serve, Back

-----------------------------------------------------------------------------
(* The session around it.                                                  *)

OnWire == [req : Nat, status : Statuses \cup {"400"}, token : S!Tokens, by : Nat]

\* The i-th answer is that of the i-th request, and the request at hand is the
\* only one whose answer may be missing.
Paired ==
  /\ asked \in Seq(Requests) /\ nread \in Nat /\ nread <= Len(asked)
  /\ link \in {"up", "down"} /\ close \in BOOLEAN /\ flight \in S!Tokens
  /\ out \in Seq(OnWire) /\ Len(out) <= nread
  /\ \A i \in 1 .. Len(out) : out[i].req = i /\ RightAnswer(asked[i], out[i])
  /\ phase \in {"idle", "reading"} => Len(out) = nread
  /\ phase = "refusing" => Len(out) + 1 = nread /\ Current.target = "illegal"
  /\ phase = "routing" =>
       /\ Current.target = "route" /\ Current.input = input /\ nread > 0
       /\ Len(out) = IF sent = <<>> THEN nread - 1 ELSE nread

\* The tokens the session gives a message.
LEMMA TokensGiven ==
  ASSUME NEW r
  PROVE  /\ S!RefusalToken(r) \in S!Tokens /\ S!RouteToken(r, "none") \in S!Tokens
         /\ \A v, t : S!KeepAlive(v, t) \in BOOLEAN
BY DEF S!RefusalToken, S!RouteToken, S!TokenFor, S!Tokens, S!KeepAlive

\* Requests that come are put behind those that are there.
LEMMA AskedGrows ==
  ASSUME Paired, NEW r \in Requests, asked' = Append(asked, r)
  PROVE  /\ asked' \in Seq(Requests) /\ Len(asked') = Len(asked) + 1 /\ Len(asked) \in Nat
         /\ \A i \in 1 .. Len(asked) : asked'[i] = asked[i]
         /\ asked'[Len(asked) + 1] = r
<1>1. asked \in Seq(Requests)
  BY DEF Paired
<1> QED
  BY <1>1

\* As long as nothing is written, the answers stay right.
LEMMA StillRight ==
  ASSUME Paired, out' = out, \A i \in 1 .. nread : asked'[i] = asked[i]
  PROVE  /\ \A i \in 1 .. Len(out') : out'[i].req = i /\ RightAnswer(asked'[i], out'[i])
         /\ out' \in Seq(OnWire) /\ Len(out') = Len(out) /\ Len(out) \in Nat
<1>1. out \in Seq(OnWire) /\ Len(out) <= nread /\ Len(out) \in Nat /\ nread \in Nat
  BY DEF Paired
<1>2. ASSUME NEW i \in 1 .. Len(out') PROVE out'[i].req = i /\ RightAnswer(asked'[i], out'[i])
  <2>1. i \in 1 .. Len(out) /\ i \in 1 .. nread
    BY <1>1
  <2>2. out[i].req = i /\ RightAnswer(asked[i], out[i])
    BY <2>1 DEF Paired
  <2>3. asked'[i] = asked[i] /\ out'[i] = out[i]
    BY <2>1
  <2> QED
    BY <2>2, <2>3
<1> QED
  BY <1>1, <1>2

\* A right answer to the request at hand makes one more.
LEMMA OneMoreRight ==
  ASSUME Paired, asked' = asked, NEW a \in OnWire, out' = Append(out, a),
         Len(out) + 1 = nread, a.req = nread, RightAnswer(Current, a)
  PROVE  /\ \A i \in 1 .. Len(out') : out'[i].req = i /\ RightAnswer(asked'[i], out'[i])
         /\ out' \in Seq(OnWire) /\ Len(out') = nread /\ Len(out) \in Nat /\ out'[nread] = a
         /\ \A i \in 1 .. Len(out) : out'[i] = out[i]
<1>1. out \in Seq(OnWire) /\ Len(out) \in Nat /\ nread \in Nat
  BY DEF Paired
<1>2. /\ out' \in Seq(OnWire) /\ Len(out') = nread /\ out'[nread] = a
      /\ \A i \in 1 .. Len(out) : out'[i] = out[i]
  BY <1>1
<1>3. ASSUME NEW i \in 1 .. Len(out') PROVE out'[i].req = i /\ RightAnswer(asked'[i], out'[i])
  <2>1. CASE i = nread
    BY <1>2, <2>1 DEF Current
  <2>2. CASE i # nread
    <3>1. i \in 1 .. Len(out)
      BY <1>1, <1>2, <1>3, <2>2
    <3>2. out[i].req = i /\ RightAnswer(asked[i], out[i])
      BY <3>1 DEF Paired
    <3>3. asked'[i] = asked[i] /\ out'[i] = out[i]
      BY <1>2, <3>1
    <3> QED
      BY <3>2, <3>3
  <2> QED
    BY <2>1, <2>2
<1> QED
  BY <1>1, <1>2, <1>3

\* The client does not touch what has been read.
LEMMA PairedClient ==
  ASSUME Paired, Client
  PROVE  Paired'
<1>1. CASE \E r \in Requests : Send(r)
  <2>1. PICK r \in Requests : Send(r)
    BY <1>1
  <2>2. /\ UNCHANGED <<nread, link, close, flight, out, phase, input, sent>>
        /\ asked' = Append(asked, r)
    BY <2>1 DEF Send, vars, session, wire
  <2>3. /\ asked' \in Seq(Requests) /\ Len(asked') = Len(asked) + 1 /\ Len(asked) \in Nat
        /\ \A i \in 1 .. Len(asked) : asked'[i] = asked[i]
    BY <2>2, AskedGrows
  <2>4. nread \in Nat /\ nread <= Len(asked) /\ \A i \in 1 .. nread : asked'[i] = asked[i]
    BY <2>3 DEF Paired
  <2>5. /\ \A i \in 1 .. Len(out') : out'[i].req = i /\ RightAnswer(asked'[i], out'[i])
        /\ out' \in Seq(OnWire) /\ Len(out') = Len(out) /\ Len(out) \in Nat
    BY <2>2, <2>4, StillRight
  <2>6. phase \in {"refusing", "routing"} => Current' = Current
    <3>1. ASSUME phase \in {"refusing", "routing"} PROVE nread \in 1 .. nread
      BY <2>4, <2>5, <3>1 DEF Paired
    <3> QED
      BY <2>2, <2>4, <3>1 DEF Current
  <2> QED
    BY <2>2, <2>3, <2>4, <2>5, <2>6 DEF Paired
<1>2. CASE Fin \/ Reset
  <2>1. /\ UNCHANGED <<asked, nread, close, flight, out, phase, input, sent>>
        /\ link' \in {"up", "down"}
    BY <1>2 DEF Fin, Reset, Paired, vars, session, wire
  <2>2. Current' = Current
    BY <2>1 DEF Current
  <2>3. /\ \A i \in 1 .. Len(out') : out'[i].req = i /\ RightAnswer(asked'[i], out'[i])
        /\ out' \in Seq(OnWire) /\ Len(out') = Len(out)
    BY <2>1, StillRight
  <2> QED
    BY <2>1, <2>2, <2>3 DEF Paired
<1> QED
  BY <1>1, <1>2 DEF Client

\* Reading takes the next request; it starts with all that was read answered.
LEMMA PairedRead ==
  ASSUME Paired, Accept \/ ReadForRoute \/ ReadRefused \/ ReadError \/ RefusalFails
  PROVE  Paired'
<1>1. UNCHANGED <<asked, link, out>>
  BY DEF Accept, ReadForRoute, CallRoot, ReadRefused, ReadError, RefusalFails, vars, wire
<1>2. /\ \A i \in 1 .. Len(out') : out'[i].req = i /\ RightAnswer(asked'[i], out'[i])
      /\ out' \in Seq(OnWire) /\ Len(out') = Len(out) /\ Len(out) \in Nat
  BY <1>1, StillRight
<1>3. CASE Accept
  <2>1. phase = "idle" /\ phase' = "reading" /\ UNCHANGED <<nread, close, flight>>
    BY <1>3 DEF Accept
  <2> QED
    BY <1>1, <1>2, <2>1 DEF Paired
<1>4. CASE ReadError \/ RefusalFails
  <2>1. phase' = "dropped" /\ UNCHANGED <<nread, close, flight>>
    BY <1>4 DEF ReadError, RefusalFails
  <2> QED
    BY <1>1, <1>2, <2>1 DEF Paired
<1>5. CASE ReadForRoute \/ ReadRefused
  <2>1. /\ phase = "reading" /\ nread < Len(asked) /\ nread' = nread + 1 /\ Current' = Upcoming
        /\ Len(out) = nread /\ nread \in Nat /\ Len(asked) \in Nat
    <3>1. phase = "reading" /\ nread < Len(asked) /\ nread' = nread + 1
      BY <1>5 DEF ReadForRoute, ReadRefused
    <3> QED
      BY <1>1, <3>1 DEF Paired, Current, Upcoming
  <2>2. CASE ReadForRoute
    <3>1. /\ Upcoming.target = "route" /\ phase' = "routing" /\ input' = Upcoming.input
          /\ sent' = <<>> /\ UNCHANGED <<close, flight>>
      BY <2>2 DEF ReadForRoute, CallRoot
    <3> QED
      BY <1>1, <1>2, <2>1, <3>1 DEF Paired
  <2>3. CASE ReadRefused
    <3>1. /\ Upcoming.target = "illegal" /\ phase' = "refusing"
          /\ close' \in BOOLEAN /\ flight' \in S!Tokens
      BY <2>3, TokensGiven DEF ReadRefused, Lambda
    <3> QED
      BY <1>1, <1>2, <2>1, <3>1 DEF Paired
  <2> QED
    BY <1>5, <2>2, <2>3
<1> QED
  BY <1>3, <1>4, <1>5

\* A target that is refused is answered 400.
LEMMA PairedRefused ==
  ASSUME Paired, RefusalDone
  PROVE  Paired'
<1> DEFINE a == [req |-> nread, status |-> "400", token |-> flight, by |-> 0]
<1>1. /\ phase = "refusing" /\ out' = Append(out, a) /\ phase' \in {"reading", "shut", "dropped"}
      /\ UNCHANGED <<asked, link, nread, close, flight>>
  BY DEF RefusalDone, Resumed, vars, wire
<1>2. /\ nread \in Nat /\ flight \in S!Tokens /\ Len(out) + 1 = nread /\ Current.target = "illegal"
  BY <1>1 DEF Paired
<1>3. a \in OnWire /\ a.req = nread /\ a.status = "400"
  BY <1>2 DEF OnWire
<1> HIDE DEF a
<1>4. RightAnswer(Current, a)
  BY <1>2, <1>3 DEF RightAnswer
<1>5. /\ \A i \in 1 .. Len(out') : out'[i].req = i /\ RightAnswer(asked'[i], out'[i])
      /\ out' \in Seq(OnWire) /\ Len(out') = nread
  BY <1>1, <1>2, <1>3, <1>4, OneMoreRight
<1> QED
  BY <1>1, <1>2, <1>5 DEF Paired

\* What the tree writes within a step, and that nothing else was written before.
LEMMA WireStep ==
  ASSUME Accounted, Serve
  PROVE  /\ UNCHANGED <<input, link>>
         /\ sent' = sent \/ (WriteDone /\ sent = <<>> /\ sent' = <<sending>>)
<1>1. CASE Call
  BY <1>1 DEF Call, Bind, AssertFails, BindGarbage, CallGroup, Observe, NotFound, ServerFault,
     ObjectBody, CookieParser, CallEndPoint, wire
<1>2. CASE Fold \/ Back
  BY <1>2 DEF Fold, FoldCall, FoldSkip, FoldEnd, Back, GroupBack, FaultBack, Finish, wire
<1>3. CASE Handler \/ WriteFail
  BY <1>3 DEF Handler, HandlerSend, HandlerReturn, HandlerThrow, WriteFail, wire
<1>4. CASE WriteDone
  BY <1>4 DEF WriteDone, Accounted
<1> QED
  BY <1>1, <1>2, <1>3, <1>4 DEF Serve, Write

\* What the tree answers is right.
LEMMA SentIsRight ==
  ASSUME Paired, phase = "routing", Accounted, Handled, input \in Inputs, WriteDone,
         NEW a, a.status = sending, a.by = IF ran = <<>> THEN 0 ELSE Last(ran)
  PROVE  RightAnswer(Current, a) /\ sending \in Statuses /\ a.by \in Nat
<1> DEFINE serving == {e \in Nodes : ServesRequest(input, e, TRUE)}
<1>1. /\ Current.target = "route" /\ Current.input = input
      /\ mode = "sending" /\ link = "up"
  BY DEF Paired, WriteDone
<1>2. serving # {} <=> Served(input)
  <2>1. Len(input.path) \in Nat
    BY PathFacts
  <2>2. \A e : ServesRequest(input, e, TRUE) = ServesAt(input, e, input.app, 0)
    BY <2>1, ServesEquation, Zenon
  <2> QED
    BY <2>2 DEF Served
<1>3. serving \in SUBSET Nat /\ \A e \in Nodes : e \in Nat
  <2>1. Nodes = 1 .. Len(Tree) /\ Len(Tree) \in Nat
    BY TreeAssumption
  <2>2. serving \in SUBSET Nodes
    OBVIOUS
  <2> HIDE DEF serving
  <2> QED
    BY <2>1, <2>2
<1>4. ASSUME ran # <<>>
      PROVE  a.by = Min(serving) /\ a.by \in Nat
  <2>1. PICK e \in Nodes : ran = <<e>> /\ FirstOf(input, e)
    BY <1>4 DEF Handled
  <2>2. a.by = e
    BY <1>4, <2>1 DEF Last
  <2>3. e \in serving /\ \A d \in serving : e <= d
    <3>1. e \in Nodes /\ e \in serving
      BY <2>1 DEF FirstOf
    <3>2. ASSUME NEW d \in serving PROVE ~(d \in 1 .. e - 1) /\ d \in Nodes
      BY <2>1, <3>2 DEF FirstOf
    <3>3. Nodes = 1 .. Len(Tree) /\ Len(Tree) \in Nat
      BY TreeAssumption
    <3> HIDE DEF serving
    <3> QED
      BY <3>1, <3>2, <3>3
  <2>4. Min(serving) \in serving /\ \A d \in serving : Min(serving) <= d
    BY <1>3, <2>3, MinFacts
  <2> HIDE DEF serving
  <2>5. PICK m : m = Min(serving)
    OBVIOUS
  <2>6. m \in serving /\ m <= e /\ e <= m
    BY <2>3, <2>4, <2>5
  <2>7. m \in Nat /\ e \in Nat
    BY <1>3, <2>3, <2>6
  <2>8. m = e
    BY <2>6, <2>7
  <2> QED
    BY <2>2, <2>5, <2>7, <2>8
<1>5. ran = <<>> => a.by = 0
  OBVIOUS
<1>6. \/ sending = "ok" /\ Served(input) /\ ran # <<>>
      \/ sending = "404" /\ ~Served(input)
      \/ sending = "500" /\ Served(input)
  BY <1>1 DEF Accounted, Handled
<1> HIDE DEF serving
<1>7. /\ a.status = "404" => serving = {}
      /\ a.status # "404" => serving # {} /\ a.by \in {0, Min(serving)}
      /\ a.status = "ok" => a.by = Min(serving)
      /\ a.status # "400" /\ a.by \in Nat
  BY <1>2, <1>4, <1>5, <1>6
<1> QED
  BY <1>1, <1>6, <1>7 DEF RightAnswer, Statuses, serving

\* The tree answers the request at hand.
LEMMA PairedServe ==
  ASSUME Paired, Accounted, Handled, input \in Inputs, Dispatching
  PROVE  Paired'
<1> DEFINE by == IF ran = <<>> THEN 0 ELSE Last(ran)
           a == [req |-> nread, status |-> sending, token |-> flight, by |-> by]
<1>1. /\ phase = "routing" /\ Serve /\ UNCHANGED <<asked, phase, nread>>
      /\ close' \in BOOLEAN /\ flight' \in S!Tokens
  BY TokensGiven DEF Dispatching, Lambda, Paired
<1>2. UNCHANGED <<input, link, Current>>
  BY <1>1, WireStep DEF Current
<1>3. CASE sent' = sent
  <2>1. out' = out
    BY <1>3 DEF Dispatching
  <2>2. /\ \A i \in 1 .. Len(out') : out'[i].req = i /\ RightAnswer(asked'[i], out'[i])
        /\ out' \in Seq(OnWire) /\ Len(out') = Len(out)
    BY <1>1, <2>1, StillRight
  <2> QED
    BY <1>1, <1>2, <1>3, <2>2 DEF Paired
<1>4. CASE sent' # sent
  <2>1. WriteDone /\ sent = <<>> /\ sent' = <<sending>>
    BY <1>1, <1>4, WireStep
  <2>2. Last(sent') = sending /\ sent' # <<>>
    BY <2>1 DEF Last
  <2>3. out' = Append(out, a)
    BY <1>4, <2>2 DEF Dispatching
  <2>4. a.req = nread /\ a.status = sending /\ a.by = by /\ a.token = flight
    OBVIOUS
  <2>5. RightAnswer(Current, a) /\ sending \in Statuses /\ by \in Nat
    <3> HIDE DEF a
    <3> QED
      BY <1>1, <2>1, <2>4, SentIsRight
  <2>6. nread \in Nat /\ flight \in S!Tokens /\ Len(out) + 1 = nread
    BY <1>1, <2>1 DEF Paired
  <2> HIDE DEF by
  <2>7. a \in OnWire
    BY <2>5, <2>6 DEF OnWire
  <2> HIDE DEF a
  <2>8. /\ \A i \in 1 .. Len(out') : out'[i].req = i /\ RightAnswer(asked'[i], out'[i])
        /\ out' \in Seq(OnWire) /\ Len(out') = nread
    BY <1>1, <2>3, <2>4, <2>5, <2>6, <2>7, OneMoreRight
  <2> QED
    BY <1>1, <1>2, <2>2, <2>8 DEF Paired
<1> QED
  BY <1>3, <1>4

\* The session reads on when the tree has answered.
LEMMA PairedOver ==
  ASSUME Paired, Accounted, RouteOver
  PROVE  Paired'
<1>1. /\ phase = "routing" /\ phase' \in {"reading", "shut", "dropped"}
      /\ UNCHANGED <<asked, link, nread, close, flight, out>>
      /\ phase' = "reading" => mode = "done" /\ value \in {"true", "false"}
  BY DEF RouteOver, Resumed, vars, wire
<1>2. phase' = "reading" => sent # <<>>
  BY <1>1 DEF Accounted
<1>3. /\ \A i \in 1 .. Len(out') : out'[i].req = i /\ RightAnswer(asked'[i], out'[i])
      /\ out' \in Seq(OnWire) /\ Len(out') = Len(out) /\ Len(out) \in Nat
  BY <1>1, StillRight
<1> QED
  BY <1>1, <1>2, <1>3 DEF Paired

\* All that is known of the session and its tree.
Composed(last, U, Inner) == Rooted(last, U, Inner) /\ Deep /\ Paired

\* What leaves the tree alone does not fail more writes.
LEMMA DeepApart ==
  ASSUME Framed, Deep, UNCHANGED <<mode, at, stack, sending>>, failed' \in {failed, 0}
  PROVE  Deep'
<1>1. stack \in Seq(Frame) /\ Len(stack) \in Nat /\ Len(Tree) \in Nat /\ failed \in Nat
  BY TreeAssumption DEF Framed, Shape, Deep
<1> QED
  BY <1>1 DEF Deep

\* A call of the root starts afresh; every other step keeps what is known.
LEMMA ComposedStep ==
  ASSUME NEW last, InOrder(last), NEW U, Entrances(U), Plain(U), Answers,
         NEW Inner, Steadfast(Inner), Composed(last, U, Inner), [ServiceNext]_allVars
  PROVE  (Rooted(last, U, Inner)' \/ Fresh') /\ Deep' /\ Paired'
<1>1. /\ Rooted(last, U, Inner) /\ Framed /\ Accounted /\ Handled /\ Deep /\ Paired
      /\ input \in Inputs
  BY DEF Composed, Rooted, Steady, Placed
<1>2. ASSUME UNCHANGED <<input, mode, at, request, stack, value, sends, sending, sent, history>>,
             link' = link \/ link' = "down", failed' \in {failed, 0}
      PROVE  Rooted(last, U, Inner)' /\ Deep'
  <2>1. Rooted(last, U, Inner)'
    BY <1>1, <1>2, RootedApart
  <2>2. Deep'
    BY <1>1, <1>2, DeepApart
  <2> QED
    BY <2>1, <2>2
<1>3. ASSUME UNCHANGED vars
      PROVE  UNCHANGED <<input, mode, at, request, stack, value, sends, sending, sent, history>>
             /\ link' = link
  BY <1>3 DEF vars, request, history
<1>4. CASE Client
  <2>1. UNCHANGED vars \/ Reset
    BY <1>4 DEF Client, Send, Fin
  <2>2. failed' = failed
    BY <1>4 DEF Client, Send, Fin, Reset, session
  <2>3. Rooted(last, U, Inner)' /\ Deep'
    BY <1>2, <1>3, <2>1, <2>2 DEF Reset
  <2> QED
    BY <1>1, <1>4, <2>3, PairedClient
<1>5. CASE Accept \/ ReadRefused \/ ReadError \/ RefusalDone \/ RefusalFails \/ RouteOver
  <2>1. UNCHANGED vars /\ failed' \in {failed, 0}
    BY <1>5 DEF Accept, ReadRefused, ReadError, RefusalDone, RefusalFails, RouteOver
  <2>2. Rooted(last, U, Inner)' /\ Deep'
    BY <1>2, <1>3, <2>1
  <2> QED
    BY <1>1, <1>5, <2>2, PairedRead, PairedRefused, PairedOver
<1>6. CASE ReadForRoute
  <2>1. /\ asked \in Seq(Requests) /\ nread \in Nat /\ nread < Len(asked)
        /\ failed' = 0 /\ CallRoot(Upcoming.input)
    BY <1>1, <1>6 DEF ReadForRoute, Paired
  <2>2. Upcoming \in Requests
    BY <2>1 DEF Upcoming
  <2>3. Upcoming.input \in Inputs /\ Upcoming.input.app \in Nodes
    BY <2>2, RequestsAssumption, PathFacts
  <2>4. Fresh'
    BY <2>1, <2>3 DEF CallRoot, Fresh
  <2>5. Deep'
    <3>1. /\ mode' = "call" /\ stack' = <<>> /\ at' = Upcoming.input.app /\ failed' = 0
      BY <2>1 DEF CallRoot
    <3>2. at' > 0
      <4>1. Nodes = 1 .. Len(Tree) /\ Len(Tree) \in Nat
        BY TreeAssumption
      <4> QED
        BY <2>3, <3>1, <4>1
    <3> QED
      BY <3>1, <3>2 DEF Deep
  <2> QED
    BY <1>1, <1>6, <2>4, <2>5, PairedRead
<1>7. CASE Dispatching
  <2>1. Serve /\ failed' = failed + (IF mode = "sending" /\ link = "down" THEN 1 ELSE 0)
    BY <1>7 DEF Dispatching
  <2>2. Rooted(last, U, Inner)'
    BY <1>1, <2>1, RootedServe
  <2>3. Deep'
    BY <1>1, <2>1, DeepServe
  <2> QED
    BY <1>1, <1>7, <2>2, <2>3, PairedServe
<1>8. CASE UNCHANGED allVars
  <2>1. UNCHANGED vars /\ UNCHANGED <<asked, phase, nread, close, flight, failed, out>>
    BY <1>8 DEF allVars, session
  <2>2. Rooted(last, U, Inner)' /\ Deep'
    BY <1>2, <1>3, <2>1
  <2>3. UNCHANGED <<input, sent, link, Current>>
    BY <2>1 DEF vars, wire, Current
  <2>4. /\ \A i \in 1 .. Len(out') : out'[i].req = i /\ RightAnswer(asked'[i], out'[i])
        /\ out' \in Seq(OnWire) /\ Len(out') = Len(out)
    BY <1>1, <2>1, StillRight
  <2>5. Paired'
    BY <1>1, <2>1, <2>3, <2>4 DEF Paired
  <2> QED
    BY <2>2, <2>5
<1> QED
  BY <1>4, <1>5, <1>6, <1>7, <1>8 DEF ServiceNext, Session

\* It always holds.
LEMMA ComposedAlways ==
  ASSUME NEW last, InOrder(last), NEW U, Entrances(U), Plain(U), Answers,
         NEW Inner, Steadfast(Inner)
  PROVE  ServiceSpec => []Composed(last, U, Inner)
<1>1. ServiceInit => Fresh /\ Deep /\ Paired
  <2> SUFFICES ASSUME ServiceInit PROVE Fresh /\ Deep /\ Paired
    OBVIOUS
  <2>1. Fresh
    BY DEF ServiceInit, Init, Fresh
  <2>2. at > 0
    <3>1. Nodes = 1 .. Len(Tree) /\ Len(Tree) \in Nat /\ at \in Nodes
      BY <2>1, TreeAssumption, PathFacts DEF Fresh
    <3> QED
      BY <3>1
  <2>3. Deep
    BY <2>1, <2>2 DEF ServiceInit, Fresh, Deep
  <2>4. Paired
    <3>1. /\ asked = <<>> /\ nread = 0 /\ link = "up" /\ close = FALSE /\ flight = "none"
          /\ out = <<>> /\ phase = "idle"
      BY DEF ServiceInit, Init
    <3>2. /\ asked \in Seq(Requests) /\ Len(asked) = 0 /\ out \in Seq(OnWire) /\ Len(out) = 0
          /\ 1 .. Len(out) = {} /\ flight \in S!Tokens
      BY <3>1 DEF S!Tokens
    <3>3. /\ nread \in Nat /\ nread <= Len(asked) /\ Len(out) <= nread /\ Len(out) = nread
          /\ link \in {"up", "down"} /\ phase \notin {"refusing", "routing"}
      BY <3>1, <3>2
    <3>5. close \in BOOLEAN
      BY <3>1, Zenon
    <3>4. \A i \in 1 .. Len(out) : out[i].req = i /\ RightAnswer(asked[i], out[i])
      BY <3>2
    <3> QED
      BY <3>2, <3>3, <3>4, <3>5 DEF Paired
  <2> QED
    BY <2>1, <2>3, <2>4
<1>2. Fresh => Rooted(last, U, Inner)
  BY RootedFresh
<1>3. Composed(last, U, Inner) /\ [ServiceNext]_allVars
        => (Rooted(last, U, Inner)' \/ Fresh') /\ Deep' /\ Paired'
  BY ComposedStep
<1>4. Composed(last, U, Inner) <=> Rooted(last, U, Inner) /\ Deep /\ Paired
  BY DEF Composed
<1> QED
  BY <1>1, <1>2, <1>3, <1>4, PTL DEF ServiceSpec

\* In a tree whose layout answers, behind entrances that make sure of match(),
\* the i-th response on a connection belongs to the i-th request, however many are
\* pipelined and whatever an earlier one left in the tree (do_session,
\* handle_request and the routables they call).
THEOREM AnswersBelong ==
  ASSUME NEW last, InOrder(last), NEW U, Entrances(U), Plain(U), Answers,
         NEW Inner, Steadfast(Inner)
  PROVE  ServiceSpec => []AnswersMatchRequests
<1>1. Composed(last, U, Inner) => AnswersMatchRequests
  BY DEF Composed, Paired, AnswersMatchRequests
<1> QED
  BY <1>1, ComposedAlways, PTL

-----------------------------------------------------------------------------
(* The session as module Session sees it: its variables, for the only      *)
(* connection.                                                             *)

AskedSeen == [i \in 1 .. Len(asked) |-> Seen(asked[i])]
LinkSeen  == IF link = "down" THEN "reset" ELSE IF fin THEN "fin" ELSE "open"
Suspended == IF phase = "routing" /\ mode = "sending" THEN "writing" ELSE phase
SendsSeen == Cardinality(RouteAnswers)
OutSeen   == [i \in 1 .. Len(out) |-> [req |-> out[i].req, token |-> out[i].token]]

\* A route has sent one response to the request at hand, or none.
Counted ==
  SendsSeen = IF nread > 0 /\ Len(out) = nread /\ out[nread].status # "400" THEN 1 ELSE 0

\* That is what the answers counted amount to.
LEMMA CountedRight == Paired => Counted
<1> SUFFICES ASSUME Paired PROVE Counted
  OBVIOUS
<1>1. /\ nread \in Nat /\ Len(out) \in Nat /\ Len(out) <= nread
      /\ \A i \in 1 .. Len(out) : out[i].req = i
  BY DEF Paired
<1>2. CASE nread > 0 /\ Len(out) = nread /\ out[nread].status # "400"
  <2>1. RouteAnswers = {nread}
    BY <1>1, <1>2 DEF RouteAnswers
  <2> QED
    BY <1>2, <2>1, FS_Singleton DEF Counted, SendsSeen
<1>3. CASE ~(nread > 0 /\ Len(out) = nread /\ out[nread].status # "400")
  <2>1. RouteAnswers = {}
    BY <1>1, <1>3 DEF RouteAnswers
  <2> QED
    BY <1>3, <2>1, FS_EmptySet DEF Counted, SendsSeen
<1> QED
  BY <1>2, <1>3

\* A sequence that goes on by one element.
LEMMA GoesOn ==
  ASSUME NEW S0, NEW s \in Seq(S0), NEW t \in Seq(S0), NEW e \in S0,
         Len(t) = Len(s) + 1, \A i \in 1 .. Len(s) : t[i] = s[i], t[Len(t)] = e
  PROVE  t = Append(s, e)
  OBVIOUS

\* Session sees one more request.
LEMMA AskedSeenGrows ==
  ASSUME Paired, NEW r \in Requests, asked' = Append(asked, r)
  PROVE  AskedSeen' = Append(AskedSeen, Seen(r))
<1> DEFINE W == {Seen(q) : q \in Requests}
<1>1. /\ asked \in Seq(Requests) /\ asked' \in Seq(Requests)
      /\ Len(asked') = Len(asked) + 1 /\ Len(asked) \in Nat
      /\ \A i \in 1 .. Len(asked) : asked'[i] = asked[i]
      /\ asked'[Len(asked) + 1] = r
  BY AskedGrows DEF Paired
<1>2. /\ AskedSeen \in Seq(W) /\ Len(AskedSeen) = Len(asked)
      /\ \A i \in 1 .. Len(asked) : AskedSeen[i] = Seen(asked[i])
  BY <1>1 DEF AskedSeen
<1>3. /\ AskedSeen' \in Seq(W) /\ Len(AskedSeen') = Len(asked) + 1
      /\ \A i \in 1 .. Len(asked) + 1 : AskedSeen'[i] = Seen(asked'[i])
  BY <1>1 DEF AskedSeen
<1>4. \A i \in 1 .. Len(AskedSeen) : AskedSeen'[i] = AskedSeen[i]
  BY <1>1, <1>2, <1>3
<1>5. AskedSeen'[Len(AskedSeen')] = Seen(r) /\ Seen(r) \in W
  BY <1>1, <1>3
<1> HIDE DEF W
<1> QED
  BY <1>1, <1>2, <1>3, <1>4, <1>5, GoesOn

\* It sees one more response.
LEMMA OutSeenGrows ==
  ASSUME Paired, NEW a \in OnWire, out' = Append(out, a)
  PROVE  OutSeen' = Append(OutSeen, [req |-> a.req, token |-> a.token])
<1> DEFINE W == [req : Nat, token : S!Tokens]
           shown(b) == [req |-> b.req, token |-> b.token]
<1>1. /\ out \in Seq(OnWire) /\ out' \in Seq(OnWire)
      /\ Len(out') = Len(out) + 1 /\ Len(out) \in Nat
      /\ \A i \in 1 .. Len(out) : out'[i] = out[i]
      /\ out'[Len(out) + 1] = a
  BY DEF Paired
<1>2. \A b \in OnWire : shown(b) \in W
  BY DEF OnWire
<1>3. /\ OutSeen = [i \in 1 .. Len(out) |-> shown(out[i])]
      /\ OutSeen' = [i \in 1 .. Len(out') |-> shown(out'[i])]
  BY DEF OutSeen
<1> HIDE DEF W, shown
<1>4. /\ OutSeen \in Seq(W) /\ Len(OutSeen) = Len(out)
      /\ \A i \in 1 .. Len(out) : OutSeen[i] = shown(out[i])
  BY <1>1, <1>2, <1>3
<1>5. /\ OutSeen' \in Seq(W) /\ Len(OutSeen') = Len(out) + 1
      /\ \A i \in 1 .. Len(out) + 1 : OutSeen'[i] = shown(out'[i])
  BY <1>1, <1>2, <1>3
<1>6. \A i \in 1 .. Len(OutSeen) : OutSeen'[i] = OutSeen[i]
  BY <1>1, <1>4, <1>5
<1>7. OutSeen'[Len(OutSeen')] = shown(a) /\ shown(a) \in W
  BY <1>1, <1>2, <1>5
<1>8. OutSeen' = Append(OutSeen, shown(a))
  BY <1>1, <1>4, <1>5, <1>6, <1>7, GoesOn
<1> QED
  BY <1>8 DEF shown

\* Nothing that Session sees.
Unseen == UNCHANGED <<AskedSeen, LinkSeen, Suspended, nread, close, flight, SendsSeen, failed,
                      OutSeen>>

\* It is a stutter of Session.
LEMMA UnseenStutters == Unseen => UNCHANGED S!vars
BY DEF Unseen, S!vars, AskedSeen, LinkSeen, Suspended, SendsSeen, OutSeen

\* The client of the service is a client of Session.
LEMMA ClientRefined ==
  ASSUME Paired, Client
  PROVE  S!Next
<1>1. ASSUME NEW r \in Requests, Send(r) PROVE S!ClientSend(Conn, Seen(r))
  <2>1. AskedSeen' = Append(AskedSeen, Seen(r))
    BY <1>1, AskedSeenGrows DEF Send
  <2>2. Len(AskedSeen) < MaxRequests /\ LinkSeen = "open" /\ Suspended \notin {"shut", "dropped"}
    <3>1. Len(asked) \in Nat /\ Len(asked) < MaxRequests
      BY <1>1 DEF Send, Paired
    <3>2. Len(AskedSeen) = Len(asked)
      BY <3>1 DEF AskedSeen
    <3> QED
      BY <1>1, <3>1, <3>2 DEF Send, LinkSeen, Suspended, Ended
  <2>3. UNCHANGED <<LinkSeen, Suspended, nread, close, flight, SendsSeen, failed, OutSeen>>
    BY <1>1 DEF Send, vars, wire, session, LinkSeen, Suspended, SendsSeen, RouteAnswers, OutSeen
  <2> QED
    BY <2>1, <2>2, <2>3
       DEF S!ClientSend, S!Ended, S!session, AskedSeen, LinkSeen, Suspended, SendsSeen, OutSeen
<1>2. ASSUME Fin \/ Reset
      PROVE  UNCHANGED <<AskedSeen, Suspended, nread, close, flight, SendsSeen, failed, OutSeen>>
  BY <1>2 DEF Fin, Reset, vars, wire, session, AskedSeen, Suspended, SendsSeen, RouteAnswers, OutSeen
<1>3. CASE Fin
  <2>1. LinkSeen = "open" /\ LinkSeen' = "fin"
    BY <1>3 DEF Fin, LinkSeen, vars, wire
  <2>2. S!ClientFin(Conn)
    BY <1>2, <1>3, <2>1
       DEF S!ClientFin, S!session, AskedSeen, LinkSeen, Suspended, SendsSeen, OutSeen
  <2> QED
    BY <2>2 DEF S!Next, S!Client
<1>4. CASE Reset
  <2>1. LinkSeen # "reset" /\ LinkSeen' = "reset"
    BY <1>4 DEF Reset, LinkSeen
  <2>2. S!ClientReset(Conn)
    BY <1>2, <1>4, <2>1
       DEF S!ClientReset, S!session, AskedSeen, LinkSeen, Suspended, SendsSeen, OutSeen
  <2> QED
    BY <2>2 DEF S!Next, S!Client
<1>5. CASE \E r \in Requests : Send(r)
  <2>1. PICK r \in Requests : Send(r)
    BY <1>5
  <2>2. S!ClientSend(Conn, Seen(r))
    BY <1>1, <2>1
  <2> QED
    BY <2>2 DEF S!Next, S!Client
<1> QED
  BY <1>3, <1>4, <1>5 DEF Client

\* Session sees the request at hand, and the one to come.
LEMMA RequestSeen ==
  ASSUME Paired
  PROVE  /\ Len(AskedSeen) = Len(asked) /\ nread \in Nat /\ Len(asked) \in Nat
         /\ nread > 0 => AskedSeen[nread] = Seen(Current)
         /\ nread < Len(asked) => AskedSeen[nread + 1] = Seen(Upcoming)
<1>1. nread \in Nat /\ nread <= Len(asked) /\ Len(asked) \in Nat
  BY DEF Paired
<1>2. Len(AskedSeen) = Len(asked) /\ \A i \in 1 .. Len(asked) : AskedSeen[i] = Seen(asked[i])
  BY <1>1 DEF AskedSeen
<1> QED
  BY <1>1, <1>2 DEF Current, Upcoming

\* The session's reads are those of Session.
LEMMA ReadRefined ==
  ASSUME Paired, Counted', Accept \/ ReadForRoute \/ ReadRefused \/ ReadError
  PROVE  S!Next
<1>1. UNCHANGED <<asked, fin, link, out>> /\ UNCHANGED <<AskedSeen, LinkSeen, OutSeen>>
  BY DEF Accept, ReadForRoute, CallRoot, ReadRefused, ReadError, vars, wire, AskedSeen, LinkSeen,
     OutSeen
<1>2. CASE Accept
  <2>1. /\ Suspended = "idle" /\ Suspended' = "reading"
        /\ UNCHANGED <<nread, close, flight, SendsSeen, failed>>
    BY <1>2 DEF Accept, Suspended, SendsSeen, RouteAnswers
  <2>2. S!Accept(Conn)
    BY <1>1, <2>1 DEF S!Accept, AskedSeen, LinkSeen, Suspended, SendsSeen, OutSeen
  <2> QED
    BY <2>2 DEF S!Next, S!Step
<1>3. CASE ReadError
  <2>1. /\ Suspended = "reading" /\ Suspended' = "dropped"
        /\ UNCHANGED <<nread, close, flight, SendsSeen, failed>>
    BY <1>3 DEF ReadError, Suspended, SendsSeen, RouteAnswers
  <2>2. \/ LinkSeen = "reset"
        \/ LinkSeen = "fin" /\ nread = Len(AskedSeen)
        \/ nread < Len(AskedSeen) /\ AskedSeen[nread + 1].target = "malformed"
    BY <1>3, RequestSeen DEF ReadError, LinkSeen, Seen
  <2>3. S!ReadError(Conn)
    BY <1>1, <2>1, <2>2 DEF S!ReadError, AskedSeen, LinkSeen, Suspended, SendsSeen, OutSeen
  <2> QED
    BY <2>3 DEF S!Next, S!Step
<1>4. CASE ReadForRoute \/ ReadRefused
  <2>1. /\ Suspended = "reading" /\ nread' = nread + 1 /\ failed' = 0 /\ nread < Len(asked)
        /\ phase = "reading"
    BY <1>4 DEF ReadForRoute, ReadRefused, Suspended
  <2>2. SendsSeen' = 0
    <3>1. Len(out') # nread'
      BY <1>1, <2>1 DEF Paired
    <3> QED
      BY <3>1 DEF Counted
  <2>3. /\ nread < Len(AskedSeen) /\ AskedSeen[nread + 1] = Seen(Upcoming)
    BY <2>1, RequestSeen
  <2>4. CASE ReadForRoute
    <3>1. /\ Upcoming.target = "route" /\ Suspended' = "routing" /\ UNCHANGED <<close, flight>>
      BY <2>4 DEF ReadForRoute, CallRoot, Suspended
    <3>2. AskedSeen[nread + 1].target = "route"
      BY <2>3, <3>1 DEF Seen
    <3>3. S!ReadRequest(Conn)
      BY <1>1, <2>1, <2>2, <2>3, <3>1, <3>2
         DEF S!ReadRequest, AskedSeen, LinkSeen, Suspended, SendsSeen, OutSeen
    <3> QED
      BY <3>3 DEF S!Next, S!Step
  <2>5. CASE ReadRefused
    <3>1. /\ Upcoming.target = "illegal" /\ Suspended' = "refusing"
          /\ flight' = S!RefusalToken(Seen(Upcoming))
          /\ close' = ~S!KeepAlive(Upcoming.version, flight')
      BY <2>5 DEF ReadRefused, Lambda, Suspended
    <3>2. /\ AskedSeen[nread + 1].target = "illegal"
          /\ AskedSeen[nread + 1].version = Upcoming.version
      BY <2>3, <3>1 DEF Seen
    <3>3. S!ReadRequest(Conn)
      BY <1>1, <2>1, <2>2, <2>3, <3>1, <3>2
         DEF S!ReadRequest, S!Transmit, AskedSeen, LinkSeen, Suspended, SendsSeen, OutSeen
    <3> QED
      BY <3>3 DEF S!Next, S!Step
  <2> QED
    BY <1>4, <2>4, <2>5
<1> QED
  BY <1>2, <1>3, <1>4

\* So is the end of handle_request.
LEMMA EndRefined ==
  ASSUME Paired, Paired', Counted, Counted', Accounted, Answers,
         RefusalDone \/ RefusalFails \/ RouteOver
  PROVE  S!Next
<1>1. /\ UNCHANGED <<asked, fin, link, mode, nread, close, flight, failed>>
      /\ UNCHANGED <<AskedSeen, LinkSeen>>
  BY DEF RefusalDone, RefusalFails, RouteOver, vars, wire, AskedSeen, LinkSeen
<1>2. /\ LinkSeen = "reset" <=> link = "down"
      /\ link \in {"up", "down"} /\ close \in BOOLEAN
  BY DEF LinkSeen, Paired
<1>3. Resumed = CASE ~close -> "reading"
                  [] close /\ LinkSeen # "reset" -> "shut"
                  [] OTHER -> "dropped"
  BY <1>2 DEF Resumed
<1>4. CASE RefusalDone
  <2> DEFINE a == [req |-> nread, status |-> "400", token |-> flight, by |-> 0]
  <2>1. /\ phase = "refusing" /\ link = "up" /\ Suspended = "refusing"
        /\ phase' = Resumed /\ out' = Append(out, a)
    BY <1>4 DEF RefusalDone, Suspended
  <2>2. Suspended' = Resumed
    BY <2>1 DEF Suspended, Resumed
  <2>3. /\ Len(out) + 1 = nread /\ nread \in Nat /\ flight \in S!Tokens /\ Len(out) \in Nat
        /\ out \in Seq(OnWire)
    BY <2>1 DEF Paired
  <2>4. a \in OnWire /\ a.req = nread /\ a.token = flight /\ a.status = "400"
    BY <2>3 DEF OnWire
  <2> HIDE DEF a
  <2>5. OutSeen' = Append(OutSeen, [req |-> nread, token |-> flight])
    BY <2>1, <2>4, OutSeenGrows
  <2>6. SendsSeen = 0 /\ SendsSeen' = 0
    <3>1. Len(out') = nread /\ out'[nread] = a
      BY <2>1, <2>3, <2>4
    <3> QED
      BY <1>1, <2>3, <2>4, <3>1 DEF Counted
  <2>7. S!RefusalDone(Conn)
    BY <1>1, <1>2, <1>3, <2>1, <2>2, <2>5, <2>6
       DEF S!RefusalDone, S!Written, S!Resume, AskedSeen, LinkSeen, Suspended, SendsSeen, OutSeen
  <2> QED
    BY <2>7 DEF S!Next, S!Step
<1>5. ASSUME RefusalFails \/ RouteOver PROVE UNCHANGED <<SendsSeen, OutSeen>>
  BY <1>5 DEF RefusalFails, RouteOver, SendsSeen, RouteAnswers, OutSeen
<1>6. CASE RefusalFails
  <2>1. Suspended = "refusing" /\ link = "down" /\ Suspended' = "dropped"
    BY <1>6 DEF RefusalFails, Suspended
  <2>2. S!RefusalFail(Conn)
    BY <1>1, <1>2, <1>5, <1>6, <2>1
       DEF S!RefusalFail, AskedSeen, LinkSeen, Suspended, SendsSeen, OutSeen
  <2> QED
    BY <2>2 DEF S!Next, S!Step
<1>7. CASE RouteOver
  <2>1. Suspended = "routing" /\ phase = "routing" /\ mode \in {"done", "aborted"}
    BY <1>7 DEF RouteOver, Suspended
  <2>2. CASE mode = "done" /\ value \in {"true", "false"}
    <3>1. phase' = Resumed
      BY <1>7, <2>2 DEF RouteOver
    <3>2. Suspended' = Resumed
      BY <3>1 DEF Suspended, Resumed
    <3>3. SendsSeen = 1
      <4>1. sent # <<>>
        BY <2>2 DEF Accounted
      <4>2. /\ Len(out) = nread /\ nread > 0 /\ nread \in Nat /\ Current.target = "route"
            /\ RightAnswer(asked[nread], out[nread])
        BY <2>1, <4>1 DEF Paired
      <4>3. out[nread].status # "400"
        BY <4>2 DEF RightAnswer, Current
      <4> QED
        BY <4>2, <4>3 DEF Counted
    <3>4. S!RouteReturn(Conn)
      BY <1>1, <1>2, <1>3, <1>5, <1>7, <2>1, <3>2, <3>3
         DEF S!RouteReturn, S!Resume, Answers, AskedSeen, LinkSeen, Suspended, SendsSeen, OutSeen
    <3> QED
      BY <3>4 DEF S!Next, S!Step, S!Route
  <2>3. CASE ~(mode = "done" /\ value \in {"true", "false"})
    <3>1. Suspended' = "dropped"
      BY <1>7, <2>3 DEF RouteOver, Suspended
    <3>2. S!RouteThrow(Conn)
      BY <1>1, <1>5, <1>7, <2>1, <3>1
         DEF S!RouteThrow, AskedSeen, LinkSeen, Suspended, SendsSeen, OutSeen
    <3> QED
      BY <3>2 DEF S!Next, S!Step, S!Route
  <2> QED
    BY <2>2, <2>3
<1> QED
  BY <1>4, <1>6, <1>7

\* What the tree does is what a route may do: it sends once, survives no more
\* failed writes than there are nodes, and the rest is unseen.
LEMMA DispatchRefined ==
  ASSUME Paired, Paired', Counted, Counted', Accounted, Accounted', Handled, Deep, Deep',
         Framed', Answers, input \in Inputs, Dispatching
  PROVE  S!Next \/ Unseen
<1>1. /\ phase = "routing" /\ Serve /\ UNCHANGED <<asked, fin, phase, nread>>
      /\ failed' = failed + (IF mode = "sending" /\ link = "down" THEN 1 ELSE 0)
      /\ failed \in Nat
  BY DEF Dispatching, Deep
<1>2. UNCHANGED link /\ (sent' = sent \/ (WriteDone /\ sent = <<>> /\ sent' = <<sending>>))
  BY <1>1, WireStep
<1>3. UNCHANGED <<AskedSeen, LinkSeen>>
  BY <1>1, <1>2 DEF AskedSeen, LinkSeen
<1>4. ASSUME sent' = sent PROVE UNCHANGED <<OutSeen, SendsSeen>>
  BY <1>1, <1>4 DEF Dispatching, OutSeen, SendsSeen, RouteAnswers
<1>5. sent = <<>> => SendsSeen = 0
  BY <1>1 DEF Paired, Counted
<1>6. CASE mode # "sending" /\ mode' = "sending"
  <2>1. /\ close' = ~S!KeepAlive(Current.version, flight')
        /\ flight' = S!RouteToken(Seen(Current), "none") /\ failed' = failed
        /\ Suspended = "routing" /\ Suspended' = "writing"
    BY <1>1, <1>6 DEF Dispatching, Lambda, Suspended
  <2>2. sent' = sent /\ SendsSeen = 0
    <3>1. sent' = <<>>
      BY <1>6 DEF Accounted
    <3>2. sent' = sent
      BY <1>2, <1>6 DEF WriteDone
    <3> QED
      BY <1>5, <3>1, <3>2
  <2>3. failed <= Len(Tree)
    <3>1. failed' + Len(stack') < Len(Tree) /\ Len(stack') \in Nat /\ Len(Tree) \in Nat
      BY <1>6, TreeAssumption DEF Deep, Framed, Shape
    <3> QED
      BY <1>1, <2>1, <3>1
  <2>4. AskedSeen[nread] = Seen(Current) /\ AskedSeen[nread].version = Current.version
    BY <1>1, RequestSeen DEF Paired, Seen
  <2>5. S!Current(Conn) = Seen(Current) /\ Seen(Current).version = Current.version
    BY <2>4 DEF S!Current, AskedSeen
  <2>6. S!Transmit(Conn, S!Current(Conn), S!RouteToken(S!Current(Conn), "none"), "writing")
    BY <2>1, <2>5 DEF S!Transmit, Suspended
  <2>7. S!RouteSend(Conn, "none")
    BY <1>1, <1>3, <1>4, <2>1, <2>2, <2>3, <2>6
       DEF S!RouteSend, Answers, AskedSeen, LinkSeen, Suspended, SendsSeen, OutSeen
  <2> QED
    BY <2>7 DEF S!Next, S!Step, S!Route
<1>7. CASE mode = "sending" /\ WriteDone
  <2> DEFINE by == IF ran = <<>> THEN 0 ELSE Last(ran)
             a == [req |-> nread, status |-> sending, token |-> flight, by |-> by]
  <2>1. /\ link = "up" /\ mode' \in {"handler", "back"} /\ sent' # sent /\ sent = <<>>
        /\ sent' = <<sending>>
    <3>1. link = "up" /\ mode' \in {"handler", "back"} /\ sent' = Append(sent, sending)
      BY <1>7 DEF WriteDone, GiveBack
    <3>2. sent = <<>>
      BY <1>7 DEF Accounted
    <3> QED
      BY <3>1, <3>2
  <2>2. /\ Suspended = "writing" /\ Suspended' = "routing" /\ LinkSeen # "reset"
        /\ failed' = failed /\ UNCHANGED <<close, flight>>
    BY <1>1, <1>7, <2>1 DEF Dispatching, Suspended, LinkSeen
  <2>3. a.req = nread /\ a.status = sending /\ a.by = by /\ a.token = flight
    OBVIOUS
  <2>4. Last(sent') = sending
    BY <2>1 DEF Last
  <2>5. out' = Append(out, a)
    BY <2>1, <2>4 DEF Dispatching
  <2>6. RightAnswer(Current, a) /\ sending \in Statuses /\ by \in Nat
    <3> HIDE DEF a
    <3> QED
      BY <1>1, <1>7, <2>3, SentIsRight
  <2> HIDE DEF by
  <2>7. /\ nread \in Nat /\ flight \in S!Tokens /\ Len(out) + 1 = nread /\ out \in Seq(OnWire)
    BY <1>1, <2>1 DEF Paired
  <2>8. a \in OnWire
    BY <2>6, <2>7 DEF OnWire
  <2> HIDE DEF a
  <2>9. OutSeen' = Append(OutSeen, [req |-> nread, token |-> flight])
    BY <2>3, <2>5, <2>8, OutSeenGrows
  <2>10. SendsSeen = 0 /\ SendsSeen' = 1
    <3>1. Len(out') = nread /\ out'[nread] = a
      BY <2>5, <2>7, <2>8
    <3>2. a.status # "400"
      BY <2>3, <2>6 DEF Statuses
    <3>3. nread > 0
      BY <2>7
    <3> QED
      BY <1>1, <1>5, <2>1, <3>1, <3>2, <3>3 DEF Counted
  <2>11. SendsSeen' = SendsSeen + 1
    BY <2>10
  <2>12. S!WriteDone(Conn)
    BY <1>1, <1>3, <2>2, <2>9, <2>11
       DEF S!WriteDone, S!Written, AskedSeen, LinkSeen, Suspended, SendsSeen, OutSeen
  <2> QED
    BY <2>12 DEF S!Next, S!Step
<1>8. CASE mode = "sending" /\ ~WriteDone
  <2>1. WriteFail
    BY <1>1, <1>8 DEF Serve, Call, Bind, AssertFails, BindGarbage, CallGroup, Observe, NotFound,
       ServerFault, ObjectBody, CookieParser, CallEndPoint, Running, Calling, Fold, FoldCall,
       FoldSkip, FoldEnd, Back, GroupBack, FaultBack, Finish, Write, Handler, HandlerSend,
       HandlerReturn, HandlerThrow
  <2>2. link = "down" /\ mode' = "back" /\ sent' = sent
    BY <2>1 DEF WriteFail, GiveBack, wire
  <2>3. /\ Suspended = "writing" /\ Suspended' = "routing" /\ LinkSeen = "reset"
        /\ failed' = failed + 1 /\ UNCHANGED <<close, flight>>
    BY <1>1, <1>8, <2>2 DEF Dispatching, Suspended, LinkSeen
  <2>4. S!WriteFail(Conn)
    BY <1>1, <1>3, <1>4, <2>2, <2>3
       DEF S!WriteFail, AskedSeen, LinkSeen, Suspended, SendsSeen, OutSeen
  <2> QED
    BY <2>4 DEF S!Next, S!Step
<1>9. CASE mode # "sending" /\ mode' # "sending"
  <2>1. sent' = sent
    BY <1>2, <1>9 DEF WriteDone
  <2>2. UNCHANGED <<close, flight, Suspended, failed>>
    BY <1>1, <1>9 DEF Dispatching, Suspended
  <2> QED
    BY <1>1, <1>3, <1>4, <2>1, <2>2 DEF Unseen
<1> QED
  BY <1>6, <1>7, <1>8, <1>9

\* Every step of the service is a step of Session, or unseen by it.
LEMMA StepRefined ==
  ASSUME NEW last, NEW U, NEW Inner, Answers, Composed(last, U, Inner),
         Composed(last, U, Inner)', Counted, Counted', [ServiceNext]_allVars
  PROVE  [S!Next]_S!vars
<1>1. Paired /\ Accounted /\ Handled /\ Deep /\ input \in Inputs
  BY DEF Composed, Rooted, Steady, Placed
<1>2. Paired' /\ Accounted' /\ Deep' /\ Framed'
  BY DEF Composed, Rooted, Steady
<1>3. CASE Client
  BY <1>1, <1>3, ClientRefined
<1>4. CASE Accept \/ ReadForRoute \/ ReadRefused \/ ReadError
  BY <1>1, <1>4, ReadRefined
<1>5. CASE RefusalDone \/ RefusalFails \/ RouteOver
  BY <1>1, <1>2, <1>5, EndRefined
<1>6. CASE Dispatching
  BY <1>1, <1>2, <1>6, DispatchRefined, UnseenStutters
<1>7. CASE UNCHANGED allVars
  <2>1. Unseen
    BY <1>7 DEF allVars, vars, wire, session, Unseen, AskedSeen, LinkSeen, Suspended, SendsSeen,
       RouteAnswers, OutSeen
  <2> QED
    BY <2>1, UnseenStutters
<1> QED
  BY <1>3, <1>4, <1>5, <1>6, <1>7 DEF ServiceNext, Session

\* The service starts as Session does.
LEMMA InitRefined == ServiceInit => S!Init
<1> SUFFICES ASSUME ServiceInit PROVE S!Init
  OBVIOUS
<1>1. /\ asked = <<>> /\ out = <<>> /\ phase = "idle" /\ nread = 0 /\ close = FALSE
      /\ flight = "none" /\ failed = 0 /\ fin = FALSE /\ link = "up"
  BY DEF ServiceInit, Init
<1>2. AskedSeen = <<>> /\ OutSeen = <<>>
  BY <1>1 DEF AskedSeen, OutSeen
<1>3. LinkSeen = "open" /\ Suspended = "idle"
  BY <1>1 DEF LinkSeen, Suspended
<1>4. SendsSeen = 0
  <2>1. RouteAnswers = {}
    BY <1>1 DEF RouteAnswers
  <2> QED
    BY <2>1, FS_EmptySet DEF SendsSeen
<1> QED
  BY <1>1, <1>2, <1>3, <1>4 DEF S!Init, AskedSeen, OutSeen, LinkSeen, Suspended, SendsSeen

\* A session that calls such a tree is one of module Session: the tree keeps the
\* contract for routes, one response before each return, whatever the requests,
\* the handlers' exceptions and the client's departure (handle_request awaiting
\* the root routable, the lambda "send").
THEOREM TreeKeepsContract ==
  ASSUME NEW U, Entrances(U), Plain(U), Answers, NEW Inner, Steadfast(Inner),
         NEW last, InOrder(last)
  PROVE  ServiceSpec => RouteKeepsContract
<1>1. Composed(last, U, Inner) => Counted
  BY CountedRight DEF Composed
<1>2. Composed(last, U, Inner) /\ Composed(last, U, Inner)' /\ Counted /\ Counted'
        /\ [ServiceNext]_allVars => [S!Next]_S!vars
  BY StepRefined
<1> QED
  BY <1>1, <1>2, InitRefined, ComposedAlways, PTL DEF ServiceSpec, RouteKeepsContract, S!Spec

-----------------------------------------------------------------------------
(* What the client of the service is promised.                             *)

\* What is proved of Session, of the session as Session sees it.
R == INSTANCE SessionProofs WITH
  Conns         <- {Conn},
  Requests      <- {Seen(r) : r \in Requests},
  MaxFailures   <- Len(Tree),
  HandlerTokens <- {"none"},
  asked  <- [c \in {Conn} |-> AskedSeen],
  link   <- [c \in {Conn} |-> LinkSeen],
  pc     <- [c \in {Conn} |-> Suspended],
  nread  <- [c \in {Conn} |-> nread],
  close  <- [c \in {Conn} |-> close],
  flight <- [c \in {Conn} |-> flight],
  sends  <- [c \in {Conn} |-> SendsSeen],
  failed <- [c \in {Conn} |-> failed],
  out    <- [c \in {Conn} |-> OutSeen]

\* R is about the same session as S, term by term.
LEMMA SameSession ==
  /\ S!Init => R!Init
  /\ [S!Next]_S!vars => [R!Next]_R!vars
<1>1. S!Init => R!Init
  BY DEF S!Init, R!Init, AskedSeen, LinkSeen, Suspended, SendsSeen, OutSeen
<1>2. [S!Next]_S!vars => [R!Next]_R!vars
  BY DEF AskedSeen, LinkSeen, Suspended, SendsSeen, OutSeen,
     S!Next, S!vars, S!session, S!Client, S!ClientSend, S!ClientFin, S!ClientStall, S!ClientReset,
     S!Step, S!Accept, S!ReadRequest, S!ReadError, S!Route, S!RouteSend, S!RouteReturn,
     S!RouteThrow, S!WriteDone, S!WriteFail, S!RefusalDone, S!RefusalFail, S!Transmit, S!Resume,
     S!Written, S!Current, S!RefusalToken, S!RouteToken, S!TokenFor, S!KeepAlive, S!MovedFrom,
     S!Ended,
     R!Next, R!vars, R!session, R!Client, R!ClientSend, R!ClientFin, R!ClientStall, R!ClientReset,
     R!Step, R!Accept, R!ReadRequest, R!ReadError, R!Route, R!RouteSend, R!RouteReturn,
     R!RouteThrow, R!WriteDone, R!WriteFail, R!RefusalDone, R!RefusalFail, R!Transmit, R!Resume,
     R!Written, R!Current, R!RefusalToken, R!RouteToken, R!TokenFor, R!KeepAlive, R!MovedFrom,
     R!Ended
<1> QED
  BY <1>1, <1>2

\* And so is the promise.
LEMMA SamePromise ==
  /\ R!Http!Init => S!Http!Init
  /\ [R!Http!Next]_R!Http!vars => [S!Http!Next]_S!Http!vars
<1>1. R!Http!Init => S!Http!Init
  BY DEF R!Http!Init, R!Announces, R!KeepAlive, R!Ended,
     S!Http!Init, S!Announces, S!KeepAlive, S!Ended, AskedSeen, Suspended, OutSeen
<1>2. [R!Http!Next]_R!Http!vars => [S!Http!Next]_S!Http!vars
  BY DEF AskedSeen, Suspended, OutSeen,
     R!Http!Next, R!Http!vars, R!Http!Ask, R!Http!Answer, R!Http!GiveUp, R!Announces,
     R!KeepAlive, R!Ended,
     S!Http!Next, S!Http!vars, S!Http!Ask, S!Http!Answer, S!Http!GiveUp, S!Announces,
     S!KeepAlive, S!Ended
<1> QED
  BY <1>1, <1>2

\* Hence the server with its tree, not only do_session with a contract in its
\* place, keeps the promise of HttpConnection: answers in the order of the
\* requests, one each, and none after one that announced the close.
THEOREM ServiceKeepsPromise ==
  ASSUME NEW U, Entrances(U), Plain(U), Answers, NEW Inner, Steadfast(Inner),
         NEW last, InOrder(last)
  PROVE  ServiceSpec => S!HttpPromise
<1>1. {Seen(r) : r \in Requests} \subseteq R!AnyRequest
  BY RequestsAssumption DEF Seen, R!AnyRequest, R!Tokens, R!Targets
<1>2. MinSends \in Nat /\ MaxSends \in Nat /\ MinSends <= MaxSends /\ MaxRequests \in Nat
  BY RequestsAssumption, HandlerAssumption
<1>3. Len(Tree) \in Nat
  BY TreeAssumption
<1>4. "none" \in {"none"} /\ {"none"} \subseteq R!Tokens
  BY DEF R!Tokens
<1>5. R!OneResponse
  BY DEF Answers, R!OneResponse
<1>6. R!Spec => R!HttpPromise
  BY <1>1, <1>2, <1>3, <1>4, <1>5, R!SessionImplementsHttp, PTL
<1>7. ServiceSpec => S!Spec
  BY TreeKeepsContract, PTL DEF RouteKeepsContract
<1>8. S!Spec => R!Spec
  BY SameSession, PTL DEF S!Spec, R!Spec
<1>9. R!HttpPromise => S!HttpPromise
  BY SamePromise, PTL DEF R!HttpPromise, S!HttpPromise, R!Http!Spec, S!Http!Spec
<1> QED
  BY <1>6, <1>7, <1>8, <1>9, PTL

=============================================================================
