----------------------------- MODULE MCService -----------------------------
(* Finite instances of Service: a small guarded application and its clients. *)
EXTENDS Service, MCLayout

\* Observers, the two guards, a parameter, a body and a literal route.
MCTree ==
  << Middleware("profile", 2), Middleware("server_fault", 3), Middleware("not_found", 4),
     Group(<<5, 7>>),
     Binding(<<Lit("/"), Lit("hello"), Lit("/"), Par("name")>>, 6), EndPoint("get"),
     Middleware("object_body", 8), Binding(<<Lit("/"), Lit("age")>>, 9), EndPoint("post") >>

Hello == [app |-> 1, verb |-> "get",  path |-> <<"/", "hello", "/", "x">>, cookie |-> FALSE, json |-> FALSE]
Age   == [app |-> 1, verb |-> "post", path |-> <<"/", "age">>, cookie |-> FALSE, json |-> TRUE]
Body  == [Age EXCEPT !.json = FALSE]
Lost  == [app |-> 1, verb |-> "get",  path |-> <<"/", "x">>, cookie |-> FALSE, json |-> FALSE]
MCInputs == {Hello, Age, Body, Lost}

Ask(version, conn, target, x) ==
  [version |-> version, conn |-> conn, target |-> target, input |-> x]
MCRequests ==
  {Ask(11, "none", "route", x) : x \in MCInputs}
    \cup {Ask(10, "keep-alive", "route", Hello), Ask(11, "close", "route", Lost),
          Ask(11, "none", "illegal", Hello),
          Ask(11, "none", "malformed", Hello)}

\* What the theorems suppose of the application, with the sets of MCLayout.
ASSUME LayoutOfService ==
  InOrder(LastBelow) /\ Entrances(Outer) /\ Plain(Outer) /\ Answers /\ Steadfast(Inner)
=============================================================================
