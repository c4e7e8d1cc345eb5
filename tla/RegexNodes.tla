----------------------------- MODULE RegexNodes -----------------------------
(***************************************************************************)
(* What the expressions of v60 are made of, as the types of ctre that      *)
(* stand for them, and the results of a match.                             *)
(***************************************************************************)
EXTENDS Integers, Sequences

\* The limits of int64_t, which lie beyond every character.
Lowest  == -1
Highest == 256

\* Nodes.  The items of a class are ranges, in the order they are written in.
Class(negative, items) == [op |-> "class", negative |-> negative, items |-> items]
Character(c)  == Class(FALSE, <<<<c, c>>>>)
NonSpace      == Class(TRUE, <<<<32, 32>>, <<9, 9>>, <<10, 10>>, <<11, 11>>, <<12, 12>>, <<13, 13>>>>)
Word          == Class(FALSE, <<<<65, 90>>, <<97, 122>>, <<48, 57>>, <<95, 95>>>>)
AnyChar       == [op |-> "any"]
Text(cs)      == [op |-> "string", text |-> cs]
Select(es)    == [op |-> "select", options |-> es]
Series(es)    == [op |-> "sequence", content |-> es]
Repeat(a, b, es) == [op |-> "repeat", least |-> a, most |-> b, content |-> es]
Possessive(a, b, es) == [Repeat(a, b, es) EXCEPT !.op = "possessive"]
Plus(e)       == Repeat(1, 0, <<e>>)
Star(e)       == Repeat(0, 0, <<e>>)
Optional(e)   == Repeat(0, 1, <<e>>)
Capture(id, es) == [op |-> "capture", id |-> id, content |-> es]

\* Marks.
Mark(m)        == [op |-> m]
NumericMark(i) == [op |-> "numeric_mark", id |-> i]

MatchChar(class, c) ==
  class.negative # (\E i \in DOMAIN class.items : c \in class.items[i][1] .. class.items[i][2])

-----------------------------------------------------------------------------
(* A result has the ends of the match and of each group.                     *)

NoResult == [matched |-> FALSE, from |-> 0, to |-> 0, groups |-> <<>>]
Group(r, id) == IF id \in DOMAIN r.groups THEN r.groups[id] ELSE <<0, 0>>

=============================================================================
