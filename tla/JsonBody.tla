------------------------------ MODULE JsonBody ------------------------------
(***************************************************************************)
(* object_body and what it does with simdjson's on-demand parser: the      *)
(* members of the body object are looked up one by one in the document,    *)
(* each from where the last one was found, around the end of the object if *)
(* need be.  Nothing but the way of the lookups is ever validated.         *)
(*                                                                         *)
(* A document is the sequence of its tokens.  The strings that are read    *)
(* live in the parser, a local of object_body, while the next routable runs *)
(* in the task that object_body returns.                                   *)
(***************************************************************************)
EXTENDS Integers, Sequences, FiniteSetsExt

CONSTANTS Documents, Bodies   \* a body is a sequence of members, key and type

Punctuation == {"lbrace", "rbrace", "lbracket", "rbracket", "colon", "comma", "end"}
Tokens  == [type : Punctuation \cup {"string", "int"}, value : STRING]
Members == [key : STRING, type : {"string", "int"}]
Token(type, value) == [type |-> type, value |-> value]
Sign(c)   == Token(c, c)
Str(s)    == Token("string", s)
Num(n)    == Token("int", n)

ASSUME DocumentsAssumption ==
  \A d \in Documents : d \in Seq(Tokens) /\ d # <<>>
ASSUME BodiesAssumption ==
  \A b \in Bodies : b \in Seq(Members)

VARIABLES tokens,   \* the document
          body,     \* the members of ObjT
          pc,       \* "search", "scan", "rescan", "read", "return", "handler", "done" or "threw"
          pos,      \* json_iterator::position()
          depth,    \* json_iterator::_depth
          start,    \* search_start
          at_first, \* whether the search began at the first field
          values,   \* where the value of each member was read
          parser,   \* whether object_body's parser exists
          error     \* what was thrown

cursor == <<pos, depth>>
vars   == <<tokens, body, pc, pos, depth, start, at_first, values, parser, error>>

Tok(p)   == IF p \in DOMAIN tokens THEN tokens[p] ELSE Sign("end")
Type(p)  == Tok(p).type
Member   == body[Len(values) + 1]

Init ==
  /\ tokens \in Documents /\ body \in Bodies
  /\ pc = (IF body = <<>> THEN "return" ELSE "search")
  /\ pos = 1 /\ depth = 1 /\ start = 0 /\ at_first = FALSE
  /\ values = <<>> /\ parser = TRUE /\ error = "none"

\* An error code becomes an exception where the value is converted.
Throw(code) ==
  /\ pc' = "threw" /\ error' = code /\ parser' = FALSE
  /\ UNCHANGED <<start, at_first>> /\ UNCHANGED cursor

Continue(label, p, d) ==
  /\ pc' = label /\ pos' = p /\ depth' = d
  /\ UNCHANGED <<parser, error>>

-----------------------------------------------------------------------------
(* json_iterator::skip_child.                                                *)

\* The depth behind the token at p.
Level(p, d) ==
  d + (CASE Type(p) \in {"lbrace", "lbracket"} -> 1
         [] Type(p) \in {"rbrace", "rbracket"} -> -1
         [] OTHER -> 0)

\* The token past the one that closes what is open at p, depth levels deep.
SkipRest(p, d) ==
  LET skip[q \in p .. Len(tokens) + 1] ==
        [e \in Int |->
           IF q > Len(tokens) THEN 0
           ELSE IF Type(q) \in {"rbrace", "rbracket"} /\ Level(q, e) <= 1 THEN q + 1
           ELSE skip[q + 1][Level(q, e)]]
  IN  skip[p][d]

\* Past the value at p, at depth 2; 0 when braces are missing.
Skipped(p) ==
  CASE Type(p) \in {"lbracket", "lbrace", "colon", "comma"} -> SkipRest(p + 1, 2)
    [] Type(p) = "string" /\ Type(p + 1) = "colon" -> SkipRest(p + 2, 2)
    [] OTHER -> p + 1

-----------------------------------------------------------------------------
(* value_iterator::find_field_unordered_raw.                                 *)

EndOfObject_NoWrap == Throw("NO_SUCH_FIELD")
\* The end of the object: the search goes around, unless it began at the first
\* field.
EndOfObject ==
  IF at_first THEN Throw("NO_SUCH_FIELD")
  ELSE Continue("rescan", 2, 1) /\ UNCHANGED <<start, at_first>>

\* has_next_field, at p.
NextField(p) ==
  CASE Type(p) = "comma" -> Continue("scan", p + 1, 1) /\ UNCHANGED <<start, at_first>>
    [] Type(p) = "rbrace" -> EndOfObject
    [] OTHER -> Throw("TAPE_ERROR")

\* document::start_or_resume_object finds the document at its root.
OpenObject ==
  /\ pc = "search" /\ pos = 1
  /\ IF Type(1) # "lbrace" THEN Throw("INCORRECT_TYPE")
     ELSE IF Type(Len(tokens)) # "rbrace" THEN Throw("INCOMPLETE_ARRAY_OR_OBJECT")
     ELSE IF Type(2) = "rbrace" THEN Throw("NO_SUCH_FIELD")
     ELSE Continue("scan", 2, 1) /\ at_first' = TRUE /\ UNCHANGED start
  /\ UNCHANGED <<tokens, body, values>>

\* The cursor is behind the value that the last member was read from, and what
\* follows is the next field, if there is one.
ResumeObject ==
  /\ pc = "search" /\ pos > 1
  /\ IF Type(pos) = "comma" THEN Continue("scan", pos + 1, 1) /\ start' = pos /\ at_first' = FALSE
     ELSE IF Type(pos) = "rbrace" THEN Continue("rescan", 2, 1) /\ start' = pos /\ at_first' = FALSE
     ELSE Throw("TAPE_ERROR")
  /\ UNCHANGED <<tokens, body, values>>

Matches(p) == Tok(p).value = Member.key
IsField(p) == Type(p) = "string" /\ Type(p + 1) = "colon"

\* One field of the first scan.
ScanField ==
  /\ pc = "scan"
  /\ IF ~IsField(pos) THEN Throw("TAPE_ERROR")
     ELSE IF Matches(pos)
     THEN Continue("read", pos + 2, 2) /\ UNCHANGED <<start, at_first>>
     ELSE IF Skipped(pos + 2) = 0 THEN Throw("TAPE_ERROR")
     ELSE NextField(Skipped(pos + 2))
  /\ UNCHANGED <<tokens, body, values>>

RescanField_NoStop ==
  /\ pc = "rescan"
  /\ IF Matches(pos)
     THEN Continue("read", pos + 2, 2) /\ UNCHANGED <<start, at_first>>
     ELSE Continue("rescan", Skipped(pos + 2) + 1, 1) /\ UNCHANGED <<start, at_first>>
  /\ UNCHANGED <<tokens, body, values>>

\* One field of the second, which checks nothing and stops where the first began.
RescanField ==
  /\ pc = "rescan"
  /\ IF Matches(pos)
     THEN Continue("read", pos + 2, 2) /\ UNCHANGED <<start, at_first>>
     ELSE IF Skipped(pos + 2) = start THEN Throw("NO_SUCH_FIELD")
     ELSE Continue("rescan", Skipped(pos + 2) + 1, 1) /\ UNCHANGED <<start, at_first>>
  /\ UNCHANGED <<tokens, body, values>>

\* value::get_int64 and value::get_string, by the conversion to the member.
ReadValue ==
  /\ pc = "read"
  /\ IF Type(pos) # Member.type
     THEN Throw("INCORRECT_TYPE") /\ UNCHANGED values
     ELSE /\ values' = Append(values, pos)
          /\ Continue(IF Len(values) + 1 = Len(body) THEN "return" ELSE "search", pos + 1, 1)
          /\ UNCHANGED <<start, at_first>>
  /\ UNCHANGED <<tokens, body>>

\* object_body returns the task of next(...); its frame is gone before the
\* middleware that called it awaits the task.
Return ==
  /\ pc = "return"
  /\ pc' = "handler" /\ parser' = FALSE
  /\ UNCHANGED <<tokens, body, start, at_first, values, error>> /\ UNCHANGED cursor

RunTask ==
  /\ pc = "handler"
  /\ pc' = "done"
  /\ UNCHANGED <<tokens, body, start, at_first, values, parser, error>> /\ UNCHANGED cursor

Next ==
  \/ OpenObject \/ ResumeObject \/ ScanField \/ RescanField \/ ReadValue
  \/ Return \/ RunTask
Spec == Init /\ [][Next]_vars

-----------------------------------------------------------------------------
(* Properties.                                                               *)

\* Every variable has its type: the depth is that of a field or of its value,
\* each value read belongs to a member, and the parser lives to the end of
\* object_body.
TypeOK ==
  /\ tokens \in Seq(Tokens) /\ tokens # <<>> /\ body \in Seq(Members)
  /\ pc \in {"search", "scan", "rescan", "read", "return", "handler", "done", "threw"}
  /\ pos \in Nat \ {0}
  /\ depth \in {1, 2} /\ (pc # "threw" => depth = (IF pc = "read" THEN 2 ELSE 1))
  /\ start \in Nat /\ at_first \in BOOLEAN
  /\ values \in Seq(Nat) /\ Len(values) <= Len(body)
  /\ pc \in {"search", "scan", "rescan", "read"} => Len(values) < Len(body)
  /\ parser <=> pc \notin {"handler", "done", "threw"}
  /\ error = "none" <=> pc # "threw"

\* The second scan checks nothing, and need not: whatever the tokens are, it
\* stands at a field of the object, before the place where the search began
\* (these are the SIMDJSON_ASSUMEs, undefined behaviour when they fail), the
\* cursor is at most one token past the last one, and values are read inside.
AssumptionsHold ==
  /\ pc = "rescan" =>
       /\ IsField(pos) /\ pos < start
       /\ ~Matches(pos) /\ Skipped(pos + 2) # start => Type(Skipped(pos + 2)) = "comma"
  /\ pos <= Len(tokens) + 1
  /\ \A i \in DOMAIN values : values[i] < Len(tokens)

\* What the body of a request refers to exists while the handler uses it.
BodyOutlivesTask ==
  pc = "handler" /\ (\E i \in DOMAIN body : body[i].type = "string") => parser

-----------------------------------------------------------------------------
(* Well-formed objects: braces are balanced, and the object itself is fields *)
(* between commas, each a key, a colon and a value, in braces or of one token. *)

\* How deep in the document the token at p is, and whether what begins at p ends
\* before q.
OpenAt(p) == Cardinality({q \in 1 .. p - 1 : Type(q) \in {"lbrace", "lbracket"}})
             - Cardinality({q \in 1 .. p - 1 : Type(q) \in {"rbrace", "rbracket"}})
EndsBefore(p, q) == OpenAt(q) = 1 /\ \A r \in p + 1 .. q - 1 : OpenAt(r) > 1

\* Where the fields of the object begin, and those with a key.
Fields ==
  {p \in 2 .. Len(tokens) :
    OpenAt(p) = 1 /\ IF p = 2 THEN Type(2) # "rbrace" ELSE Type(p - 1) = "comma"}
FieldsOf(key) == {p \in Fields : Tok(p).value = key}

IsObject ==
  /\ Type(1) = "lbrace" /\ Type(Len(tokens)) = "rbrace" /\ OpenAt(Len(tokens)) = 1
  /\ \A p \in 2 .. Len(tokens) : OpenAt(p) > 0
  /\ \A p \in Fields :
       /\ IsField(p) /\ Type(p + 2) \in {"string", "int", "lbrace", "lbracket"}
       /\ \E q \in p + 3 .. Len(tokens) : EndsBefore(p + 2, q) /\ Type(q) \in {"comma", "rbrace"}

\* The field that a member is read from: the next of its fields behind the one
\* read before it, or else the first in the object.
Expected(i, from) ==
  LET fields == FieldsOf(body[i].key)
      later  == {p \in fields : p > from}
  IN  IF later # {} THEN Min(later) ELSE Min(fields)
LastRead(i) == IF i = 0 THEN 0 ELSE values[i]

\* Of a well-formed object each member gets its own field, whatever the order of
\* the fields and of the members, never one of an object inside; of fields with
\* one key it depends on what was read before.  And it is refused only for a
\* member that has no field or whose field has another type.
ReadsOwnField ==
  IsObject =>
    /\ \A i \in DOMAIN values :
         /\ FieldsOf(body[i].key) # {} /\ values[i] = Expected(i, LastRead(i - 1)) + 2
         /\ Type(values[i]) = body[i].type
    /\ pc = "threw" =>
         /\ error = (IF FieldsOf(Member.key) = {} THEN "NO_SUCH_FIELD" ELSE "INCORRECT_TYPE")
         /\ error = "INCORRECT_TYPE" =>
              Type(Expected(Len(values) + 1, LastRead(Len(values))) + 2) # Member.type

=============================================================================
