----------------------------- MODULE RegexLaws -----------------------------
(* What the engine of module Regex promises, tried on all sequences of a    *)
(* menu of nodes up to a length and on all subjects up to a length, which   *)
(* grow piece by piece.  Subjects without nodes are the parts of a Cookie   *)
(* header; they grow longer, up to a value with several "=".                *)
EXTENDS RegexReference

CONSTANTS Chars, MaxNodes, MaxSubject, MaxCookie

ASSUME CharsAssumption ==
  /\ Chars \subseteq Lowest + 1 .. Highest - 1
  /\ MaxNodes \in Nat /\ MaxSubject \in Nat /\ MaxCookie \in Nat

VARIABLES nodes, subject

Slash == 47
Equal == 61
A     == 97
Space == 32

Menu(i) ==
  {Character(A), AnyChar, Text(<<Slash, A>>), Star(Character(A)),
   Optional(Word), Repeat(2, 3, <<AnyChar>>), Plus(Text(<<Slash, A>>)),
   Select(<<Character(Slash), Text(<<A, A>>)>>),
   Capture(i, <<Plus(NonSpace)>>), Capture(i, <<Plus(Word)>>)}

Nothing == nodes = <<>> /\ subject = <<>>

GrowNodes ==
  /\ Len(nodes) < MaxNodes /\ Len(subject) <= MaxSubject
  /\ \E e \in Menu(Len(nodes) + 1) : nodes' = Append(nodes, e)
  /\ UNCHANGED subject

GrowSubject ==
  /\ Len(subject) < (IF nodes = <<>> THEN MaxCookie ELSE MaxSubject)
  /\ \E c \in Chars : subject' = Append(subject, c)
  /\ UNCHANGED nodes

Grow == GrowNodes \/ GrowSubject

-----------------------------------------------------------------------------

\* starts_with finds a match if there is one, the greediest, with its groups:
\* repeats that were made possessive because nothing that follows collides
\* with them lose no match.  The menu's repeats have contents of one length and
\* its options exclude each other; ctre never goes back into a round of a repeat.
GreedyMatch ==
  Agrees(StartsWith(Series(nodes), subject), nodes, Layouts(nodes, subject, 0))

\* "(\S+)=(\S+)", the expression of cookie_parser, splits a part at its last "="
\* that has text on both sides: a value keeps an "=" only as its last character.
CookieSplit == nodes = <<>> =>
  LET result == Matches(Series(<<Capture(1, <<Plus(NonSpace)>>), Character(Equal),
                                 Capture(2, <<Plus(NonSpace)>>)>>), subject)
      splits == IF Space \in {subject[i] : i \in DOMAIN subject} THEN {}
                ELSE {i \in 2 .. Len(subject) - 1 : subject[i] = Equal}
  IN  IF splits = {} THEN ~result.matched
      ELSE /\ result.matched
           /\ result.groups[1] = <<0, Max(splits) - 1>>
           /\ result.groups[2] = <<Max(splits), Len(subject)>>
=============================================================================
