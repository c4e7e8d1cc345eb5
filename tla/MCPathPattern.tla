--------------------------- MODULE MCPathPattern ---------------------------
(* PathPattern on all patterns up to a length over a few characters, and the *)
(* expressions that come out on all paths up to a length.                    *)
EXTENDS PathGrammar, RegexReference

CONSTANTS Symbols, MaxPattern, PathSymbols, MaxPath

Texts(chars, n) == UNION {[1 .. k -> chars] : k \in 0 .. n}
MCPatterns == Texts(Symbols, MaxPattern)
Paths      == Texts(PathSymbols, MaxPath)

Pat == INSTANCE Pattern

-----------------------------------------------------------------------------
(* What the author of a pattern means: its parameters are the longest runs   *)
(* of word characters that follow a ":".                                     *)

IsWord(p, i)   == i \in DOMAIN p /\ MatchChar(Word, p[i])
Starts(p)      == {i \in DOMAIN p : p[i] = Code(":") /\ IsWord(p, i + 1)}
Run(p, i)      == {j \in i + 1 .. Len(p) : \A k \in i + 1 .. j : IsWord(p, k)}
Inside(p)      == UNION {Run(p, i) : i \in Starts(p)}
Places(p)      == SetToSortSeq(DOMAIN p \ Inside(p), <)
ParamText(p, i) == SubSeq(p, i + 1, Max(Run(p, i)))

\* Its elements as nodes of an expression, and as elements of module Pattern.
Nodes(p) ==
  LET at == Places(p) IN
  [i \in DOMAIN at |->
     IF at[i] \in Starts(p) THEN Capture(Cardinality({j \in Starts(p) : j <= at[i]}), <<Plus(NonSpace)>>)
     ELSE IF p[at[i]] = Code(".") THEN AnyChar ELSE Character(p[at[i]])]

Elements(p) ==
  LET at == Places(p) IN
  [i \in DOMAIN at |->
     IF at[i] \in Starts(p) THEN Pat!Par(ParamText(p, at[i])) ELSE Pat!Lit(p[at[i]])]

DigitFirst(p) == \E i \in Starts(p) : p[i + 1] \in 48 .. 57

-----------------------------------------------------------------------------

\* The expression that the engine runs matches a path exactly as the pattern's
\* author would lay it out: every character for itself, but "." for any, and
\* each parameter for as much as it can have.  Only if a parameter's name begins
\* with a digit, which \w allows and the name of a group does not, is the text
\* no expression.
MeansPattern ==
  pc = "done" => IF DigitFirst(pattern) THEN ~Parse(res).ok ELSE
    LET nodes == Nodes(pattern)
        re    == Series(Parse(res).nodes)
    IN  Parse(res).ok /\ \A path \in Paths : Agrees(StartsWith(re, path), nodes, Layouts(nodes, path, 0))

\* Without "." module Pattern, with which the routing tree is modelled, cuts a
\* path where the engine does.
LikeModulePattern ==
  pc = "done" /\ ~DigitFirst(pattern) /\ Code(".") \notin {pattern[i] : i \in DOMAIN pattern} =>
    LET nodes    == Nodes(pattern)
        elements == Elements(pattern)
        re       == Series(Parse(res).nodes)
    IN  \A path \in Paths :
          LET cuts   == Pat!Cuts(elements, path)
              result == StartsWith(re, path)
          IN  IF cuts = <<>> THEN ~result.matched ELSE Shows(result, nodes, cuts)
=============================================================================
