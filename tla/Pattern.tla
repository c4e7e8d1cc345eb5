------------------------------ MODULE Pattern ------------------------------
(***************************************************************************)
(* Path patterns and what a binding gets from RE::starts_with.             *)
(*                                                                         *)
(* A path is a sequence of tokens, the pieces of text the patterns of an   *)
(* application can tell apart; literals occur only at token boundaries.    *)
(* path_pattern_to_regex keeps the literals of a pattern and turns every   *)
(* ":key" into "(?<key>\S+)".  A request target holds no white space, so   *)
(* such a group takes one or more tokens of any kind, "/" included, as     *)
(* many as it can: ctre tries the longest capture first and backtracks     *)
(* within the pattern only.                                                *)
(***************************************************************************)
EXTENDS Naturals, Sequences, FiniteSetsExt

\* The elements of a pattern.
Lit(text) == [param |-> FALSE, name |-> text]
Par(key)  == [param |-> TRUE,  name |-> key]

\* Where an element that starts at o may end, over a path s.
Ends(element, s, o) ==
  IF element.param THEN o + 1 .. Len(s)
  ELSE {e \in {o + 1} : e <= Len(s) /\ s[e] = element.name}

\* Which of the possible ends the greedy quantifier tries first.
Preferred(ends) == Max(ends)

\* The offsets at which the elements of pattern p are cut out of s, one more
\* than p has elements; empty when the pattern does not match a prefix of s.
Cuts(p, s) ==
  LET cut[i \in 1 .. Len(p) + 1] == [o \in 0 .. Len(s) |->
        IF i > Len(p) THEN <<o>>
        ELSE LET ok == {e \in Ends(p[i], s, o) : cut[i + 1][e] # <<>>}
             IN  IF ok = {} THEN <<>> ELSE <<o>> \o cut[i + 1][Preferred(ok)]]
  IN  cut[1][0]

StartsWith(p, s) == Cuts(p, s) # <<>>

\* The length of the matched prefix, and the text of the i-th element.
MatchLen(p, s) == Cuts(p, s)[Len(p) + 1]
Capture(p, s, i) == SubSeq(s, Cuts(p, s)[i] + 1, Cuts(p, s)[i + 1])

\* For the properties: every length of a prefix of s that p can be laid over,
\* whatever the captures.
Lengths(p, s) ==
  LET reach[i \in 0 .. Len(p)] ==
        IF i = 0 THEN {0} ELSE UNION {Ends(p[i], s, o) : o \in reach[i - 1]}
  IN  reach[Len(p)]

=============================================================================
