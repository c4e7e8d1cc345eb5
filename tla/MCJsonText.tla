----------------------------- MODULE MCJsonText -----------------------------
(* Small texts of JSON: each is indexed with vector instructions and then      *)
(* character by character; and small numbers, which are parsed.                *)
EXTENDS JsonScanner, JsonNumber

VARIABLES at, position, found, unclosed, verdict   \* those of the lexer

Lexer == INSTANCE JsonLexer WITH idx <- position, indexes <- found, error <- verdict

lexer == <<at, position, found, unclosed, verdict>>

\* The scanner and the lexer when there is nothing to do, and the number.
Scanned ==
  /\ width = 2 /\ text = <<>> /\ idx = 0 /\ carry = NoCarry
  /\ prev_structurals = {} /\ unescaped = FALSE /\ indexes = <<>> /\ result = "SUCCESS"
  /\ at = "returned" /\ position = 0 /\ found = <<>> /\ unclosed = FALSE /\ verdict = "SUCCESS"
Parsed ==
  /\ format = [words |-> 2, longest |-> 0]
  /\ literal = [negative |-> FALSE, digits |-> <<>>, next |-> "end"]
  /\ parsed = [error |-> "INCORRECT_TYPE", word |-> 0]

Idle == Scanned /\ Parsed
TextInit == \/ ScanInit /\ Lexer!Init /\ Parsed
            \/ NumberInit /\ Scanned
TextNext ==
  \/ ScanNext /\ UNCHANGED <<lexer, numberVars>>
  \/ result # "none" /\ Lexer!Next /\ UNCHANGED <<width, idx, carry, prev_structurals>>
                     /\ UNCHANGED <<unescaped, indexes, result, numberVars>>
  \/ ParseInteger /\ UNCHANGED <<scanner, lexer>>
TextSpec == TextInit /\ [][TextNext]_<<scanner, lexer, numberVars>>

-----------------------------------------------------------------------------

\* Character i follows an odd run of backslashes; it opens or closes a string; it
\* is in one, the opening quote included.
Escaped(i) ==
  \E n \in 1 .. i - 1 :
    /\ n % 2 = 1 /\ \A j \in i - n .. i - 1 : text[j] = "backslash"
    /\ i - n > 1 => text[i - n - 1] # "backslash"
Quotes    == {i \in DOMAIN text : text[i] = "quote" /\ ~Escaped(i)}
Inside(i) == Cardinality({q \in Quotes : q <= i}) % 2 = 1

\* Outside its strings the text has nothing but operators, white space and
\* letters, and no string begins right behind a letter.  JSON is like that.
Plain ==
  \A i \in DOMAIN text :
    /\ text[i] \in {"backslash", "feed"} => Inside(i)
    /\ i \in Quotes /\ Inside(i) => i = 1 \/ text[i - 1] # "letter"

\* What the server makes of a body does not depend on the processor it runs on,
\* nor on where in its blocks a string, a run of backslashes or a number lies:
\* both implementations find the same tokens or the same error.  They differ
\* on a control character behind a backslash, which only the vectorised one
\* reports.
SameOnEveryProcessor ==
  at = "returned" /\ Plain =>
    \/ verdict = result /\ (result = "SUCCESS" => found = indexes)
    \/ /\ result = "UNESCAPED_CHARS" /\ verdict = "SUCCESS"
       /\ \A i \in DOMAIN text : text[i] \in {"tab", "feed"} /\ Inside(i) => Escaped(i)
=============================================================================
