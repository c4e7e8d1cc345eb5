------------------------------- MODULE Routes -------------------------------
(***************************************************************************)
(* Trees of routables and their match() functions.  A tree is a constant:  *)
(* v60 applications build it once, as a type, and the server only reads it.*)
(* Several applications may stand side by side in Tree.                    *)
(***************************************************************************)
EXTENDS Pattern

CONSTANTS
  Tree,    \* node |-> its kind and its children; a child has a larger number
  Keys     \* parameter names

Nodes == DOMAIN Tree
Verbs == {"get", "post"}
Observers == {"logging", "profile"}
Middlewares == Observers \cup {"not_found", "server_fault", "object_body", "cookie_parser"}

EndPoint(verb)       == [kind |-> "end_point", verb |-> verb]
Binding(p, next)     == [kind |-> "binding", pattern |-> p, next |-> next]
Group(routes)        == [kind |-> "group", routes |-> routes]
Middleware(fn, next) == [kind |-> "middleware", fn |-> fn, next |-> next]

ASSUME TreeAssumption ==
  /\ Len(Tree) \in Nat /\ Nodes = 1 .. Len(Tree)
  /\ \A n \in Nodes :
       \/ Tree[n].kind = "end_point" /\ Tree[n].verb \in Verbs
       \/ /\ Tree[n].kind = "binding" /\ Tree[n].next \in n + 1 .. Len(Tree)
          /\ Tree[n].pattern \in Seq(Range(Tree[n].pattern))
          /\ \A i \in 1 .. Len(Tree[n].pattern) :
               Tree[n].pattern[i].param => Tree[n].pattern[i].name \in Keys
       \/ /\ Tree[n].kind = "middleware" /\ Tree[n].fn \in Middlewares
          /\ Tree[n].next \in n + 1 .. Len(Tree)
       \/ /\ Tree[n].kind = "group"
          /\ Tree[n].routes \in Seq(n + 1 .. Len(Tree))

Rest(path, o) == SubSeq(path, o + 1, Len(path))

\* match(verb, path) of node n, asked of the rest of the path from offset o.
EndPointMatch_Prefix(n, verb, path, o) == verb = Tree[n].verb
EndPointMatch(n, verb, path, o) == verb = Tree[n].verb /\ o = Len(path)

Match(n, verb, path, o) ==
  LET match[m \in Nodes] == [b \in 0 .. Len(path) |->
        LET t == Tree[m] IN
          \/ t.kind = "end_point" /\ EndPointMatch(m, verb, path, b)
          \/ /\ t.kind = "binding" /\ StartsWith(t.pattern, Rest(path, b))
             /\ match[t.next][b + MatchLen(t.pattern, Rest(path, b))]
          \/ t.kind = "group" /\ \E i \in DOMAIN t.routes : match[t.routes[i]][b]
          \/ t.kind = "middleware" /\ match[t.next][b]]
  IN  match[n][o]

=============================================================================
