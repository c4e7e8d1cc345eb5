----------------------------- MODULE MCDispatch -----------------------------
(* Finite instances of Dispatch: trees of routes and the requests tried. *)
EXTENDS MCLayout

\* Paths of one to n segments, "/" included in the token sequence.
Paths(segments, n) ==
  UNION {{FlattenSeq([i \in 1 .. k |-> <<"/">> \o s[i]]) :
            s \in [1 .. k -> segments]} : k \in 1 .. n}

AllInputs(app, segments, n, cookies) ==
  [app : {app}, verb : Verbs, path : Paths(segments, n), cookie : cookies, json : BOOLEAN]

\* A guarded application: nested groups, literal prefixes, parameters at the
\* end of a way, and two routes that overlap; and one that is not guarded.
MCApi ==
  << Middleware("server_fault", 2), Middleware("not_found", 3),
     Middleware("profile", 4), Group(<<5, 7, 14, 16>>),
     Binding(<<Lit("/"), Lit("hello")>>, 6), EndPoint("get"),
     Binding(<<Lit("/"), Lit("api")>>, 8), Group(<<9, 11>>),
     Binding(<<Lit("/"), Lit("item"), Lit("/"), Par("id")>>, 10), EndPoint("get"),
     Middleware("object_body", 12), Binding(<<Lit("/"), Lit("item")>>, 13), EndPoint("post"),
     Binding(<<Lit("/"), Lit("user"), Lit("/"), Par("a"), Lit("/"), Par("b")>>, 15), EndPoint("get"),
     Binding(<<Lit("/"), Lit("user"), Lit("/"), Par("a")>>, 17), EndPoint("get"),
     Middleware("server_fault", 19), Binding(<<Lit("/"), Lit("item")>>, 20), Group(<<21, 23>>),
     Binding(<<Lit("/"), Par("id")>>, 22), EndPoint("get"), EndPoint("post") >>

MCApiInputs ==
  UNION {AllInputs(app, {<<"hello">>, <<"api">>, <<"item">>, <<"user">>, <<"x">>, <<>>}, 3, {FALSE})
           : app \in {1, 18}}

\* Routes of a group that decline or fail after they have taken the request.
MCFallback ==
  << Middleware("server_fault", 2), Middleware("not_found", 3), Group(<<4, 8, 10>>),
     Middleware("server_fault", 5), Binding(<<Lit("/"), Lit("hello")>>, 6),
     Middleware("cookie_parser", 7), EndPoint("get"),
     Binding(<<Lit("/"), Lit("hello")>>, 9), EndPoint("get"),
     Middleware("not_found", 11), Binding(<<Lit("/"), Par("rest")>>, 12), EndPoint("post") >>

MCFallbackInputs == AllInputs(1, {<<"hello">>, <<"x">>}, 2, BOOLEAN)

\* examples/barebones.cpp
MCBarebones ==
  << Middleware("profile", 2), Binding(<<Lit("/"), Lit("hello")>>, 3), EndPoint("get") >>

MCBarebonesInputs == AllInputs(1, {<<"hello">>, <<"x">>, <<>>}, 2, {FALSE})

\* examples/backend.cpp
MCBackend ==
  << Middleware("profile", 2), Middleware("server_fault", 3), Middleware("not_found", 4),
     Binding(<<Lit("/"), Lit("user"), Lit("/"), Par("userId")>>, 5), Group(<<6, 8>>),
     Binding(<<Lit("/"), Lit("name")>>, 7), EndPoint("get"),
     Middleware("object_body", 9), Binding(<<Lit("/"), Lit("age")>>, 10), EndPoint("post") >>

MCBackendInputs == AllInputs(1, {<<"user">>, <<"name">>, <<"age">>, <<"7">>}, 3, {FALSE})

-----------------------------------------------------------------------------
(* What the theorems suppose of a tree. *)

\* Of every tree that a run of this module takes ...
ASSUME LayoutHolds == InOrder(LastBelow) /\ Entrances(Outer) /\ Distinct(KeysBelow)
\* ... of all but MCFallback, and of MCApi.
ASSUME LayoutOfServed == Tree # MCFallback => Firm(Outer) /\ Steadfast(Inner)
ASSUME LayoutOfAnswered == Tree = MCApi => RootFault /\ Plain(Outer) /\ Answers
=============================================================================
