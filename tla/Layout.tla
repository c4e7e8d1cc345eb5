------------------------------- MODULE Layout -------------------------------
(***************************************************************************)
(* How an application is put together: what the theorems about a request   *)
(* on its way through a tree of routables suppose of the tree.  Each of    *)
(* these suppositions is about the constants alone; MCDispatch has TLC     *)
(* evaluate them on the trees of the runs.                                 *)
(***************************************************************************)
EXTENDS Dispatch

\* The nodes are numbered as the routes are written: below n are the nodes up to
\* last[n], and a route of a group comes after all that is below an earlier one.
InOrder(last) ==
  /\ last \in [Nodes -> Nodes]
  /\ \A n \in Nodes :
       /\ n <= last[n]
       /\ Tree[n].kind \in {"binding", "middleware"} => last[Tree[n].next] <= last[n]
       /\ Tree[n].kind = "group" =>
            \A i \in DOMAIN Tree[n].routes :
              /\ last[Tree[n].routes[i]] <= last[n]
              /\ \A j \in DOMAIN Tree[n].routes :
                   i < j => last[Tree[n].routes[i]] < Tree[n].routes[j]

\* The nodes a request may come to that match() was not asked about, the roots
\* among them: each sends it on to another one, or makes sure itself, as not_found,
\* a group and the asserts of a binding do.
Entrances(U) ==
  /\ U \in SUBSET Nodes /\ \A x \in Inputs : x.app \in U
  /\ \A n \in U : \/ /\ Tree[n].kind = "middleware"
                     /\ Tree[n].fn = "not_found" \/ Tree[n].next \in U
                  \/ Tree[n].kind = "group"
                  \/ Tree[n].kind = "binding" /\ Asserts

\* An entrance is not a group, which may find no route; without a not_found behind
\* it, it only watches and catches.
Firm(U) ==
  \A n \in U :
    /\ Tree[n].kind # "group"
    /\ Tree[n].kind = "middleware" /\ ~Guarded(n) => Tree[n].fn \in Observers \cup {"server_fault"}

\* Behind a binding or a group stand only middlewares that watch or, if they fail,
\* throw; Inner is the set of the nodes there.
Steadfast(Inner) ==
  /\ Inner \in SUBSET Nodes
  /\ \A n \in Nodes :
       /\ Tree[n].kind = "binding" => Tree[n].next \in Inner
       /\ Tree[n].kind = "group" =>
            \A i \in DOMAIN Tree[n].routes : Tree[n].routes[i] \in Inner
  /\ \A n \in Inner : Tree[n].kind = "middleware" =>
       Tree[n].next \in Inner /\ Tree[n].fn \in Observers \cup {"object_body"}

\* Every application has a server_fault at its root.
RootFault ==
  \A x \in Inputs : Tree[x.app].kind = "middleware" /\ Tree[x.app].fn = "server_fault"

\* What stands in front of the first binding watches, catches, or asks match();
\* nobody declines without a word; a handler answers once and throws no later.
Plain(U) ==
  \A n \in U :
    /\ Tree[n].kind # "group"
    /\ Tree[n].kind = "middleware" => Tree[n].fn \in Observers \cup {"server_fault", "not_found"}
Answers ==
  /\ \A n \in Nodes : Tree[n].kind = "middleware" => Tree[n].fn # "cookie_parser"
  /\ MinSends = 1 /\ MaxSends = 1 /\ ~LateThrows

\* No two ":key"s on one way through the tree have the same key, so that no
\* parameter is overwritten; K[n] are the keys of n and of what is below it.
Names(p) == {p[i].name : i \in {j \in DOMAIN p : p[j].param}}
Distinct(K) ==
  \A n \in Nodes :
    /\ Tree[n].kind = "binding" =>
         /\ Names(Tree[n].pattern) \subseteq K[n] /\ K[Tree[n].next] \subseteq K[n]
         /\ Names(Tree[n].pattern) \cap K[Tree[n].next] = {}
         /\ \A i, j \in DOMAIN Tree[n].pattern :
              /\ Tree[n].pattern[i].param /\ Tree[n].pattern[j].param
              /\ Tree[n].pattern[i].name = Tree[n].pattern[j].name
              => i = j
    /\ Tree[n].kind = "middleware" => K[Tree[n].next] \subseteq K[n]
    /\ Tree[n].kind = "group" =>
         \A i \in DOMAIN Tree[n].routes : K[Tree[n].routes[i]] \subseteq K[n]

=============================================================================
