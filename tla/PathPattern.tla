---------------------------- MODULE PathPattern ----------------------------
(***************************************************************************)
(* path_pattern_to_regex: how the path of a binding becomes the expression *)
(* that the request target is matched with.  The pattern is scanned twice  *)
(* for ":(\w+)", to count the parameters and to copy, into a buffer sized  *)
(* for that count, the text between them and "(?<name>\S+)" in the place    *)
(* of each.  The text between is copied as it is, so what it holds besides  *)
(* plain characters is part of the expression.  Text is a sequence of      *)
(* character codes.                                                        *)
(*                                                                         *)
(* The scan calls the engine of ctre, here the constant SearchFrom, of     *)
(* which it needs to know no more than SearchAssumption; the instances     *)
(* give it the engine itself, the Search of module Regex.                  *)
(***************************************************************************)
EXTENDS RegexNodes

CONSTANTS
  Patterns,
  SearchFrom(_, _, _)  \* what the search for an expression in a text finds from a position on

Code(c) ==
  CASE c = "(" -> 40 [] c = ")" -> 41 [] c = "+" -> 43 [] c = "." -> 46 [] c = "/" -> 47
    [] c = ":" -> 58 [] c = "<" -> 60 [] c = ">" -> 62 [] c = "?" -> 63 [] c = "S" -> 83
    [] c = "\\" -> 92
Codes(cs) == [i \in DOMAIN cs |-> Code(cs[i])]

ASSUME PatternsAssumption == Patterns \subseteq Seq(Lowest + 1 .. Highest - 1)

VARIABLES pattern,   \* pattern_sv
          pc,        \* "count", "copy" or "done"
          current_match,     \* current_match of the regex_iterator
          current,   \* current of the regex_iterator
          size,      \* the parameters counted
          beg,       \* what is copied of the pattern
          res        \* the text written

vars == <<pattern, pc, current_match, current, size, beg, res>>

ParameterRegex == Series(<<Character(Code(":")), Capture(1, <<Plus(Word)>>)>>)

\* What ":(\w+)" finds lies within the text, and is one character and the group.
ASSUME SearchAssumption ==
  \A p \in Patterns : \A i \in 0 .. Len(p) :
    LET m == SearchFrom(ParameterRegex, p, i)
    IN  /\ m.matched \in BOOLEAN
        /\ m.matched => /\ m.from \in i .. Len(p) /\ m.to \in m.from + 2 .. Len(p)
                        /\ Group(m, 1) = <<m.from + 1, m.to>>

\* regex_iterator: where it stands after a match, its first match, the next one.
After(m, otherwise) == IF m.matched THEN m.to ELSE otherwise
FirstMatch == SearchFrom(ParameterRegex, pattern, 0)

NextMatch ==
  IF current = Len(pattern) THEN NoResult ELSE SearchFrom(ParameterRegex, pattern, current)

Init ==
  /\ pattern \in Patterns
  /\ current_match = FirstMatch /\ current = After(FirstMatch, 0)
  /\ pc = "count" /\ size = 0 /\ beg = 0 /\ res = <<>>

Advance == current_match' = NextMatch /\ current' = After(NextMatch, current)

\* dist(): one more element of the range.
Count ==
  /\ pc = "count" /\ current_match.matched
  /\ size' = size + 1
  /\ Advance
  /\ UNCHANGED <<pattern, pc, beg, res>>

\* fixed_string<pattern.size() + size * 7>, where size() counts the terminator.
Room_Six == Len(pattern) + 1 + size * 6
Room == Len(pattern) + 1 + size * 7

\* No parameter: the pattern is the expression.
ReturnPattern ==
  /\ pc = "count" /\ ~current_match.matched /\ size = 0
  /\ pc' = "done" /\ res' = pattern
  /\ UNCHANGED <<pattern, current_match, current, size, beg>>

\* The range-for over sres starts a new scan.
StartCopy ==
  /\ pc = "count" /\ ~current_match.matched /\ size > 0
  /\ pc' = "copy"
  /\ current_match' = FirstMatch /\ current' = After(FirstMatch, 0)
  /\ UNCHANGED <<pattern, size, beg, res>>

\* The text before the parameter, and a group with the parameter's name.
Name == SubSeq(pattern, Group(current_match, 1)[1] + 1, Group(current_match, 1)[2])
Written ==
  SubSeq(pattern, beg + 1, current_match.from)
    \o Codes(<<"(", "?", "<">>) \o Name \o Codes(<<">", "\\", "S", "+", ")">>)

CopyParameter_AfterColon ==
  /\ pc = "copy" /\ current_match.matched
  /\ res' = res \o Written
  /\ beg' = current_match.from + 1
  /\ Advance
  /\ UNCHANGED <<pattern, pc, size>>

CopyParameter ==
  /\ pc = "copy" /\ current_match.matched
  /\ res' = res \o Written
  /\ beg' = current_match.to
  /\ Advance
  /\ UNCHANGED <<pattern, pc, size>>

\* The text after the last parameter.
CopyRest ==
  /\ pc = "copy" /\ ~current_match.matched
  /\ res' = res \o SubSeq(pattern, beg + 1, Len(pattern))
  /\ pc' = "done"
  /\ UNCHANGED <<pattern, current_match, current, size, beg>>

Next == Count \/ ReturnPattern \/ StartCopy \/ CopyParameter \/ CopyRest
Spec == Init /\ [][Next]_vars

-----------------------------------------------------------------------------

\* The two scans agree, the text never outgrows the buffer, and in the end it
\* fills the buffer up to the terminator, so that no zero byte is taken for a
\* part of the expression.
FitsExactly ==
  /\ pc # "count" => Len(res) < Room
  /\ pc = "done" => Len(res) + 1 = Room

=============================================================================
