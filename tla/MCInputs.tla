------------------------------ MODULE MCInputs ------------------------------
(* What the middlewares read from a request, each part on all its small        *)
(* inputs: the tokens of a body, its text, the numbers in it, and Cookie       *)
(* headers.  A part is over before it begins when another one runs.            *)
EXTENDS MCJsonBody, Cookies, MCJsonText

MCSpaces == {" ", "tab"}
MCDelims == {";", " "}

ASSUME NamesAssumption ==
  \A n \in Names : n # <<>> /\ \A i \in DOMAIN n : n[i] \notin Delims \cup Spaces \cup {"="}

\* Every short text, and two pieces with what may stand between them.
Pairs == BoundedSeq({"a", "b", "="}, 4)
Gaps  == {<<";">>, <<" ">>, <<";", " ">>, <<" ", ";">>}
MCHeaders ==
  BoundedSeq({"a", "b", "=", ";", " ", "tab"}, 4)
    \cup {p \o g \o q : p \in Pairs, g \in Gaps, q \in Pairs}

MCNames == {<<"a">>, <<"b">>, <<"a", "b">>}

\* Every short text, longer ones of the characters that reach across words, and
\* words of more than one run of backslashes.
Chars == {"quote", "backslash", "op", "space", "tab", "feed", "letter"}
MCTexts == (2 :> BoundedSeq(Chars, 5) \cup BoundedSeq({"quote", "backslash", "op", "letter"}, 7))
           @@ (4 :> BoundedSeq({"quote", "backslash", "letter"}, 9))

\* Machine words of 4, 7 and 10 bits stand to numbers of 1, 2 and 3 digits as 64
\* bits to 19.
MCFormats  == {[words |-> 16, longest |-> 1], [words |-> 128, longest |-> 2],
               [words |-> 1024, longest |-> 3]}
MCLiterals ==
  [negative : BOOLEAN, digits : BoundedSeq(0 .. 9, 3) \cup [1 .. 4 -> {0, 1, 5, 9}],
   next : {"end", "fraction", "other"}]

texts == <<scanner, lexer, numberVars>>

NoCookies ==
  /\ header = <<>> /\ step = "done" /\ first = 0 /\ second = 0
  /\ parts = <<>> /\ scanned = 0 /\ kv = {}
NoBody ==
  /\ tokens = <<Sign("lbrace"), Sign("rbrace")>> /\ body = <<>> /\ pc = "done"
  /\ pos = 1 /\ depth = 1 /\ start = 0 /\ at_first = FALSE
  /\ values = <<>> /\ parser = FALSE /\ error = "none"

InputsInit ==
  \/ Init /\ NoCookies /\ Idle
  \/ CookiesInit /\ NoBody /\ Idle
  \/ TextInit /\ NoBody /\ NoCookies
InputsNext ==
  \/ Next /\ UNCHANGED <<cookies, texts>>
  \/ CookiesNext /\ UNCHANGED <<vars, texts>>
  \/ TextNext /\ UNCHANGED <<vars, cookies>>
InputsSpec == InputsInit /\ [][InputsNext]_<<vars, cookies, texts>>
=============================================================================
