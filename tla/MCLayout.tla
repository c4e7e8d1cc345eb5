------------------------------ MODULE MCLayout ------------------------------
(* The sets that the suppositions of Layout ask for, computed of a finite tree. *)
EXTENDS Layout

Children(n) ==
  CASE Tree[n].kind = "end_point" -> {}
    [] Tree[n].kind = "group" -> Range(Tree[n].routes)
    [] OTHER -> {Tree[n].next}

\* A node and all that is below it, its last node, and the keys there.
Below ==
  LET below[n \in Nodes] == {n} \cup UNION {below[m] : m \in Children(n)}
  IN  below
LastBelow == [n \in Nodes |-> Max(Below[n])]
KeysBelow ==
  [n \in Nodes |-> UNION {Names(Tree[m].pattern) :
                            m \in {b \in Below[n] : Tree[b].kind = "binding"}}]

\* From the roots down to the first not_found, binding or group; what is below
\* bindings and groups.
Outer ==
  LET outer[n \in Nodes] ==
        {n} \cup (IF Tree[n].kind = "middleware" /\ Tree[n].fn # "not_found"
                 THEN outer[Tree[n].next] ELSE {})
  IN  UNION {outer[x.app] : x \in Inputs}
Inner ==
  UNION {UNION {Below[m] : m \in Children(n)} :
           n \in {b \in Nodes : Tree[b].kind \in {"binding", "group"}}}
=============================================================================
