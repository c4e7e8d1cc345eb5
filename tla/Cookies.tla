------------------------------ MODULE Cookies ------------------------------
(***************************************************************************)
(* What cookie_parser makes of a Cookie header: split() walks two pointers *)
(* over it and collects the pieces between delimiters, each piece of the   *)
(* form key=value enters a map, and the members of the cookie object are   *)
(* looked up in that map.  Offsets count from 0 to Len(header); one past   *)
(* the header is where no pointer may be dereferenced.                     *)
(***************************************************************************)
EXTENDS Naturals, Sequences, FiniteSetsExt

CONSTANTS
  Headers,   \* Cookie headers tried: sequences of characters
  Delims,    \* characters of the delimiter string "; "
  Spaces,    \* white space, which \S does not match
  Names      \* keys of the members of the cookie object, which are texts too

VARIABLES
  header,   \* *cookies_header
  step,     \* "test" the loop, "find" the next delimiter, "scan" the parts, "done"
  first, second,   \* the pointers of split, as offsets
  parts,    \* split's output, the parts
  scanned,  \* how many of them have been looked at
  kv        \* the map: pairs <<key, value>>, at most one for a key

cookies == <<header, step, first, second, parts, scanned, kv>>

Text(from, to) == SubSeq(header, from + 1, to)
End == Len(header)

CookiesInit ==
  /\ header \in Headers
  /\ step = "test" /\ first = 0 /\ second = 0 /\ parts = <<>> /\ scanned = 0 /\ kv = {}

-----------------------------------------------------------------------------
(* split()                                                                 *)

\* second != last && first != last
Test ==
  /\ step = "test"
  /\ step' = IF second # End /\ first # End THEN "find" ELSE "scan"
  /\ UNCHANGED <<header, first, second, parts, scanned, kv>>

\* std::find_first_of(first, last, ...)
FirstDelim == Min({End} \cup {o \in first .. End - 1 : header[o + 1] \in Delims})

Find_DropLast ==
  /\ step = "find"
  /\ second' = FirstDelim
  /\ parts' = IF first # FirstDelim /\ FirstDelim # End
              THEN Append(parts, Text(first, FirstDelim)) ELSE parts
  /\ first' = FirstDelim + 1 /\ step' = "test"
  /\ UNCHANGED <<header, scanned, kv>>


Find ==
  /\ step = "find"
  /\ second' = FirstDelim
  /\ parts' = IF first # FirstDelim THEN Append(parts, Text(first, FirstDelim)) ELSE parts
  /\ first' = FirstDelim + 1 /\ step' = "test"
  /\ UNCHANGED <<header, scanned, kv>>

-----------------------------------------------------------------------------
(* The scan of the parts.                                                  *)

\* Where "=" can stand in a match of (\S+)=(\S+) with the whole part.
Splits(part) ==
  IF \E i \in DOMAIN part : part[i] \in Spaces THEN {}
  ELSE {i \in 2 .. Len(part) - 1 : part[i] = "="}

\* The first group is greedy: it takes all it can, up to the last such "=".
KeyEnd_Lazy(part) == Min(Splits(part))
KeyEnd(part) == Max(Splits(part))
Key(part)    == SubSeq(part, 1, KeyEnd(part) - 1)
Value(part)  == SubSeq(part, KeyEnd(part) + 1, Len(part))

Emplace_Overwrite(map, key, val) == {p \in map : p[1] # key} \cup {<<key, val>>}
\* std::map::emplace leaves a key that is there alone.
Emplace(map, key, val) ==
  IF \E p \in map : p[1] = key THEN map ELSE map \cup {<<key, val>>}

Scan ==
  /\ step = "scan" /\ scanned < Len(parts)
  /\ LET part == parts[scanned + 1] IN
       kv' = IF Splits(part) = {} THEN kv ELSE Emplace(kv, Key(part), Value(part))
  /\ scanned' = scanned + 1
  /\ UNCHANGED <<header, step, first, second, parts>>

\* The handler is called with kv[name] for each member, empty when not there.
Done ==
  /\ step = "scan" /\ scanned = Len(parts)
  /\ step' = "done"
  /\ UNCHANGED <<header, first, second, parts, scanned, kv>>

Cookie(name) ==
  LET found == {p \in kv : p[1] = name}
  IN  IF found = {} THEN <<>> ELSE (CHOOSE p \in found : TRUE)[2]

-----------------------------------------------------------------------------

CookiesNext == Test \/ Find \/ Scan \/ Done
CookiesSpec == CookiesInit /\ [][CookiesNext]_cookies

-----------------------------------------------------------------------------
(* Properties.                                                             *)

\* What split collects are the longest runs free of delimiters, all of them and
\* in their order, whatever delimiters stand first, last or side by side; and
\* though "first" may step past the end of the header, nothing is read there.
Free(i, j)  == \A k \in i .. j : header[k] \notin Delims
Starts      == {i \in 1 .. End : Free(i, i) /\ (i = 1 \/ ~Free(i - 1, i - 1))}
RunFrom(i)  == SubSeq(header, i, Max({j \in i .. End : Free(i, j)}))
Place(i)    == Cardinality({h \in Starts : h <= i})
Runs == [k \in 1 .. Cardinality(Starts) |-> RunFrom(CHOOSE i \in Starts : Place(i) = k)]

SplitsIntoRuns ==
  /\ step \in {"scan", "done"} => parts = Runs
  /\ step = "find" => first < End

\* A browser's header, pairs "name=value" joined by "; ", comes back as it was
\* sent: each member gets the value of the first pair with its name.
WellFormed(part) ==
  /\ Len(part) >= 3 /\ Cardinality({i \in DOMAIN part : part[i] = "="}) = 1
  /\ part[1] # "=" /\ part[Len(part)] # "=" /\ \A i \in DOMAIN part : part[i] \notin Spaces

PairsReadBack ==
  step = "done" /\ (\A r \in DOMAIN Runs : WellFormed(Runs[r])) =>
    \A n \in Names :
      LET mine == {r \in DOMAIN Runs : /\ Len(n) < Len(Runs[r])
                                      /\ SubSeq(Runs[r], 1, Len(n) + 1) = Append(n, "=")}
      IN  Cookie(n) = IF mine = {} THEN <<>>
                      ELSE SubSeq(Runs[Min(mine)], Len(n) + 2, Len(Runs[Min(mine)]))

\* The last "=" that has something behind it ends the key, not the first one
\* as browsers mean it: a cookie whose value has a "=" before its last character
\* is entered under another name, and no member ever gets such a value.
ValuesHaveNoEquals ==
  \A p \in kv : \A i \in 1 .. Len(p[2]) - 1 : p[2][i] # "="

=============================================================================
