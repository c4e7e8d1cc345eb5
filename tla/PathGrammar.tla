---------------------------- MODULE PathGrammar ----------------------------
(***************************************************************************)
(* How ctre parses the text that PathPattern writes: the part of its       *)
(* grammar and actions that these expressions use.                         *)
(***************************************************************************)
EXTENDS Regex, PathPattern

-----------------------------------------------------------------------------
(* pcre: characters, ".", "\S", "\w", named groups and "+".                  *)

Rejected == [ok |-> FALSE, nodes |-> <<>>, next |-> 0]
Parsed(node, next) == [ok |-> TRUE, nodes |-> <<node>>, next |-> next]

\* The characters that begin none of the nodes above and are not plain either.
Special == {Code(c) : c \in {"(", ")", "+", "?", "\\"}}

\* make_sequence: plain characters side by side become one string.
IsCharacter(e) == e.op = "class" /\ e = Character(e.items[1][1])
Joined(e, es) ==
  IF IsCharacter(e) /\ es # <<>> /\ IsCharacter(Head(es))
  THEN <<Text(<<e.items[1][1], Head(es).items[1][1]>>)>> \o Tail(es)
  ELSE IF IsCharacter(e) /\ es # <<>> /\ Head(es).op = "string"
  THEN <<Text(<<e.items[1][1]>> \o Head(es).text)>> \o Tail(es)
  ELSE <<e>> \o es

At(t, i, c) == i <= Len(t) /\ t[i] = Code(c)

\* The end of the name that starts at i: a letter or "_", then word characters.
NameEnd(t, i) ==
  LET stop == {j \in i .. Len(t) : ~MatchChar(Word, t[j])}
  IN  IF i <= Len(t) /\ MatchChar(Word, t[i]) /\ t[i] \notin 48 .. 57 /\ stop # {}
      THEN Min(stop) ELSE 0

\* capture_id counts the groups opened so far.
GroupId(t, i) == Cardinality({j \in 1 .. i : t[j] = Code("(")})

RECURSIVE Items(_, _)

Atom(t, i) ==
  IF At(t, i, "(")
  THEN LET close == NameEnd(t, i + 3)
           inner == Items(t, close + 1)
       IN  IF /\ At(t, i + 1, "?") /\ At(t, i + 2, "<") /\ close # 0 /\ At(t, close, ">")
              /\ inner.ok /\ At(t, inner.next, ")")
           THEN Parsed(Capture(GroupId(t, i), inner.nodes), inner.next + 1)
           ELSE Rejected
  ELSE IF At(t, i, ".") THEN Parsed(AnyChar, i + 1)
  ELSE IF At(t, i, "\\") /\ At(t, i + 1, "S") THEN Parsed(NonSpace, i + 2)
  ELSE IF t[i] \in Special THEN Rejected
  ELSE Parsed(Character(t[i]), i + 1)

Repeated(t, atom) ==
  IF atom.ok /\ At(t, atom.next, "+") THEN Parsed(Plus(atom.nodes[1]), atom.next + 1) ELSE atom

\* The nodes from i to the end of the text or of the group.
Items(t, i) ==
  IF i > Len(t) \/ At(t, i, ")") THEN [ok |-> TRUE, nodes |-> <<>>, next |-> i]
  ELSE LET one  == Repeated(t, Atom(t, i))
           rest == Items(t, one.next)
       IN  IF one.ok /\ rest.ok
           THEN [rest EXCEPT !.nodes = Joined(one.nodes[1], rest.nodes)] ELSE Rejected

Parse(t) ==
  LET all == Items(t, 1) IN IF all.next = Len(t) + 1 THEN all ELSE Rejected

=============================================================================
