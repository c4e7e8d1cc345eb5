----------------------------- MODULE MCJsonBody -----------------------------
(* JsonBody on every object of a few fields and on every sequence of tokens  *)
(* between two braces, up to a length.                                       *)
EXTENDS JsonBody, SequencesExt

CONSTANTS MaxFields, MaxTokens

Open  == Sign("lbrace")
Close == Sign("rbrace")
Colon == Sign("colon")
Comma == Sign("comma")

Keys   == {"a", "b", "c"}
Nested == <<Open, Str("b"), Colon, Open, Close, Comma, Str("a"), Colon, Num("7"), Close>>
List   == <<Sign("lbracket"), Open, Close, Comma, Str("b"), Sign("rbracket")>>
Values == {<<Num("1")>>, <<Str("a")>>, Nested, List}

Sequences(S, n) == UNION {[1 .. k -> S] : k \in 0 .. n}

Field(f) == <<Str(f[1]), Colon>> \o f[2]
Written(fields) ==
  LET upto[i \in 0 .. Len(fields)] ==
        IF i = 0 THEN <<>>
        ELSE upto[i - 1] \o (IF i = 1 THEN <<>> ELSE <<Comma>>) \o Field(fields[i])
  IN  <<Open>> \o upto[Len(fields)] \o <<Close>>

Objects == {Written(fields) : fields \in Sequences(Keys \X Values, MaxFields)}
Pieces  == {Open, Close, Colon, Comma, Str("a"), Str("b"), Num("1")}
Scraps  == {<<Open>> \o s \o <<Close>> : s \in Sequences(Pieces, MaxTokens)}

MemberA == [key |-> "a", type |-> "int"]
MemberB == [key |-> "b", type |-> "int"]
MemberC == [key |-> "c", type |-> "string"]

MCDocuments == Objects \cup Scraps
MCBodies    == {<<MemberA>>, <<MemberA, MemberB>>, <<MemberB, MemberA>>,
                <<MemberB, MemberC, MemberA>>}
=============================================================================
