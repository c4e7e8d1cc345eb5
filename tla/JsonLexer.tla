----------------------------- MODULE JsonLexer -----------------------------
(***************************************************************************)
(* Stage 1 of simdjson on any other processor: the structural_scanner of   *)
(* the fallback implementation reads the text character by character.      *)
(* Characters are those of JsonScanner.                                    *)
(***************************************************************************)
EXTENDS Integers, Sequences, FiniteSetsExt

VARIABLES
  text,
  at,        \* "scan", "string" or "returned"
  idx,       \* offset of the next character
  indexes,   \* the structural indexes found
  unclosed,  \* unclosed_string
  error      \* what scan() returns

vars == <<text, at, idx, indexes, unclosed, error>>

Init ==
  /\ at = "scan" /\ idx = 0 /\ indexes = <<>> /\ unclosed = FALSE /\ error = "SUCCESS"

Char      == text[idx + 1]
More      == idx < Len(text)
Delimiter == {"op", "space", "tab"}

String ==
  /\ at = "scan" /\ More /\ Char = "quote"
  /\ at' = "string" /\ indexes' = Append(indexes, idx) /\ idx' = idx + 1
  /\ UNCHANGED <<text, unclosed, error>>

Operator ==
  /\ at = "scan" /\ More /\ Char = "op"
  /\ indexes' = Append(indexes, idx) /\ idx' = idx + 1
  /\ UNCHANGED <<text, at, unclosed, error>>

Whitespace ==
  /\ at = "scan" /\ More /\ Char \in {"space", "tab"}
  /\ idx' = idx + 1
  /\ UNCHANGED <<text, at, indexes, unclosed, error>>

\* Anything else runs up to the next operator or white space, quotes included.
Primitive ==
  /\ at = "scan" /\ More /\ Char \in {"letter", "backslash", "feed"}
  /\ indexes' = Append(indexes, idx)
  /\ idx' = Min({Len(text)} \cup {i \in idx + 1 .. Len(text) - 1 : text[i + 1] \in Delimiter})
  /\ UNCHANGED <<text, at, unclosed, error>>

\* validate_string: a backslash takes the next character along, unseen.
StringChar ==
  /\ at = "string" /\ More /\ Char # "quote"
  /\ idx' = idx + (IF Char = "backslash" THEN 2 ELSE 1)
  /\ error' = IF Char \in {"tab", "feed"} THEN "UNESCAPED_CHARS" ELSE error
  /\ UNCHANGED <<text, at, indexes, unclosed>>

StringEnd ==
  /\ at = "string" /\ (More => Char = "quote")
  /\ at' = "scan" /\ idx' = idx + 1
  /\ unclosed' = (unclosed \/ ~More)
  /\ UNCHANGED <<text, indexes, error>>

Return ==
  /\ at = "scan" /\ ~More
  /\ at' = "returned"
  /\ error' = IF indexes = <<>> THEN "EMPTY" ELSE IF unclosed THEN "UNCLOSED_STRING" ELSE error
  /\ UNCHANGED <<text, idx, indexes, unclosed>>

Next == String \/ Operator \/ Whitespace \/ Primitive \/ StringChar \/ StringEnd \/ Return
=============================================================================
