---------------------------- MODULE InputsProofs ----------------------------
(***************************************************************************)
(* What handlers read of a request.  The lookups of object_body, for every *)
(* document and every body: the second scan, which checks nothing, only    *)
(* meets what the first has checked, and of a well-formed object each      *)
(* member gets its own field.  What split collects and what enters the map *)
(* of cookies, for every header over any characters.  And the integers,    *)
(* for words of any width.                                                 *)
(***************************************************************************)
EXTENDS JsonBody, Cookies, JsonNumber, Recursion, FiniteSetTheorems

-----------------------------------------------------------------------------
(* The tokens and what skip_child makes of them.                           *)

\* A token that has a type of its own is one of the document's.
LEMMA TokFacts ==
  ASSUME tokens \in Seq(Tokens), NEW p \in Int, Type(p) # "end"
  PROVE  p \in 1 .. Len(tokens) /\ Len(tokens) \in Nat
BY DEF Type, Tok, Sign, Token

\* Depths are numbers.
LEMMA LevelInt ==
  ASSUME NEW q, NEW e \in Int
  PROVE  Level(q, e) \in Int
<1>1. CASE Type(q) \in {"lbrace", "lbracket"}
  <2>1. Level(q, e) = e + 1
    BY <1>1 DEF Level
  <2> QED
    BY <2>1
<1>2. CASE ~(Type(q) \in {"lbrace", "lbracket"}) /\ Type(q) \in {"rbrace", "rbracket"}
  <2>1. Level(q, e) = e + (-1)
    BY <1>2 DEF Level
  <2> QED
    BY <2>1
<1>3. CASE ~(Type(q) \in {"lbrace", "lbracket"}) /\ ~(Type(q) \in {"rbrace", "rbracket"})
  <2>1. Level(q, e) = e + 0
    BY <1>3 DEF Level
  <2> QED
    BY <2>1
<1> QED
  BY <1>1, <1>2, <1>3

\* SkipRest is where its recursive function leads.
LEMMA SkipRestEquation ==
  ASSUME tokens \in Seq(Tokens), NEW p \in 1 .. Len(tokens) + 1, NEW d \in Int
  PROVE  \E f :
           /\ SkipRest(p, d) = f[p][d]
           /\ \A q \in p .. Len(tokens) + 1 : \A e \in Int :
                f[q][e] = IF q > Len(tokens) THEN 0
                          ELSE IF Type(q) \in {"rbrace", "rbracket"} /\ Level(q, e) <= 1 THEN q + 1
                          ELSE f[q + 1][Level(q, e)]
<1> DEFINE n == Len(tokens)
           D == p .. n + 1
           V == [Int -> Nat]
           at(f, q, e) == IF q > n THEN 0
                          ELSE IF Type(q) \in {"rbrace", "rbracket"} /\ Level(q, e) <= 1 THEN q + 1
                          ELSE f[q + 1][Level(q, e)]
           row(f, q) == [e \in Int |-> at(f, q, e)]
           H == [a \in [D -> V] \X D |-> row(a[1], a[2])]
           size == [q \in D |-> n + 1 - q]
<1>1. n \in Nat /\ p \in D
  OBVIOUS
<1>2. \A q \in D : \A e \in Int : Level(q, e) \in Int
  BY LevelInt
<1>3. size \in [D -> Nat] /\ n + 2 \in Nat /\ \A q \in D : size[q] < n + 2
  BY <1>1
<1>4. V # {}
  <2>1. [e \in Int |-> 0] \in V
    OBVIOUS
  <2> QED
    BY <2>1
<1>5. ASSUME NEW f \in [D -> V], NEW q \in D PROVE row(f, q) \in V
  <2> SUFFICES ASSUME NEW e \in Int PROVE at(f, q, e) \in Nat
    OBVIOUS
  <2>1. q \in Nat
    BY <1>1
  <2>2. CASE q <= n
    <3>1. q + 1 \in D
      BY <1>1, <2>2
    <3>2. f[q + 1] \in V
      BY <3>1
    <3>3. f[q + 1][Level(q, e)] \in Nat
      BY <1>2, <3>2
    <3>4. at(f, q, e) = q + 1 \/ at(f, q, e) = f[q + 1][Level(q, e)]
      <4>1. ~(q > n)
        BY <1>1, <2>1, <2>2
      <4> HIDE DEF n
      <4> QED
        BY <4>1
    <3>5. q + 1 \in Nat
      BY <2>1
    <3> HIDE DEF at
    <3> QED
      BY <3>3, <3>4, <3>5
  <2>3. CASE q > n
    BY <2>3
  <2>4. q <= n \/ q > n
    BY <1>1, <2>1
  <2> QED
    BY <2>2, <2>3, <2>4, Zenon
<1>6. H \in [[D -> V] \X D -> V]
  <2> HIDE DEF row, D, V
  <2> QED
    BY <1>5
<1>7. \A g, h \in [D -> V], q \in D :
        (\A r \in D : size[r] < size[q] => g[r] = h[r]) => H[<<g, q>>] = H[<<h, q>>]
  <2> SUFFICES ASSUME NEW g \in [D -> V], NEW h \in [D -> V], NEW q \in D,
                      \A r \in D : size[r] < size[q] => g[r] = h[r]
               PROVE  H[<<g, q>>] = H[<<h, q>>]
    OBVIOUS
  <2>1. q <= n => q + 1 \in D /\ size[q + 1] < size[q]
    BY <1>1
  <2>2. ASSUME NEW e \in Int PROVE at(g, q, e) = at(h, q, e)
    <3>1. CASE q <= n
      <4>1. g[q + 1] = h[q + 1]
        BY <2>1, <3>1
      <4> QED
        BY <4>1
    <3>2. CASE q > n
      BY <3>2
    <3>3. q <= n \/ q > n
      BY <1>1
    <3> QED
      BY <3>1, <3>2, <3>3, Zenon
  <2>3. row(g, q) = row(h, q)
    <3> HIDE DEF at
    <3> QED
      BY <2>2
  <2>4. H[<<g, q>>] = row(g, q) /\ H[<<h, q>>] = row(h, q)
    <3> HIDE DEF row, D, V
    <3> QED
      OBVIOUS
  <2> QED
    BY <2>3, <2>4
<1>8. HasFunction(D, V, H)
  <2> HIDE DEF D, V, H, size, n
  <2>1. IsRecursion(D, V, size, n + 2, H)
    BY <1>3, <1>4, <1>6, <1>7 DEF IsRecursion
  <2> QED
    BY <2>1, RecursiveFunction
<1>9. \E f : f = [q \in D |-> row(f, q)]
  <2>1. PICK f \in [D -> V] : \A q \in D : f[q] = H[<<f, q>>]
    BY <1>8 DEF HasFunction
  <2> HIDE DEF row, D, V
  <2>2. \A q \in D : f[q] = row(f, q)
    BY <2>1
  <2>3. f = [q \in D |-> row(f, q)]
    BY <2>1, <2>2
  <2> QED
    BY <2>3
<1> DEFINE skip == CHOOSE f : f = [q \in D |-> row(f, q)]
<1>10. SkipRest(p, d) = skip[p][d]
  BY DEF SkipRest
<1>11. skip = [q \in D |-> row(skip, q)]
  <2> HIDE DEF row, D
  <2> QED
    BY <1>9
<1> HIDE DEF skip
<1>12. \A q \in D : \A e \in Int : skip[q][e] = at(skip, q, e)
  <2> HIDE DEF at, D
  <2> QED
    BY <1>11
<1> QED
  BY <1>10, <1>12

\* The token past the one that closes is further on.
LEMMA SkipRestFacts ==
  ASSUME tokens \in Seq(Tokens), NEW p \in 1 .. Len(tokens) + 1, NEW d \in Int
  PROVE  SkipRest(p, d) \in Nat /\ (SkipRest(p, d) # 0 => SkipRest(p, d) > p)
<1> DEFINE n == Len(tokens)
           Ahead(q, r) == r \in Nat /\ (r # 0 => r > q)
<1>1. n \in Nat
  OBVIOUS
<1>2. PICK f :
        /\ SkipRest(p, d) = f[p][d]
        /\ \A q \in p .. n + 1 : \A e \in Int :
             f[q][e] = IF q > n THEN 0
                       ELSE IF Type(q) \in {"rbrace", "rbracket"} /\ Level(q, e) <= 1 THEN q + 1
                       ELSE f[q + 1][Level(q, e)]
  BY SkipRestEquation
<1> DEFINE T == {q \in 1 .. n + 1 : q >= p => \A e \in Int : Ahead(q, f[q][e])}
<1>3. n + 1 \in T
  <2>1. \A e \in Int : f[n + 1][e] = 0
    <3>1. n + 1 \in p .. n + 1 /\ n + 1 > n
      BY <1>1
    <3> HIDE DEF n
    <3> QED
      BY <1>2, <3>1
  <2> QED
    BY <1>1, <2>1
<1>4. ASSUME NEW q \in 1 .. n, q + 1 \in T PROVE q \in T
  <2> SUFFICES ASSUME q >= p, NEW e \in Int PROVE Ahead(q, f[q][e])
    BY <1>1
  <2>1. q \in p .. n + 1 /\ ~(q > n)
    BY <1>1
  <2>2. f[q][e] = q + 1 \/ f[q][e] = f[q + 1][Level(q, e)]
    BY <1>2, <2>1
  <2>3. Level(q, e) \in Int
    BY LevelInt
  <2>4. Ahead(q + 1, f[q + 1][Level(q, e)])
    BY <1>4, <2>3
  <2>5. q + 1 \in Nat /\ q + 1 > q
    BY <1>1
  <2> QED
    BY <2>2, <2>4, <2>5
<1> HIDE DEF T
<1>5. p \in T
  BY <1>1, <1>3, <1>4, StepDown
<1>6. Ahead(p, f[p][d])
  BY <1>5 DEF T
<1> QED
  BY <1>2, <1>6

\* What is behind a value is further on.
LEMMA SkippedFacts ==
  ASSUME tokens \in Seq(Tokens), NEW p \in Nat, p # 0
  PROVE  Skipped(p) \in Nat /\ (Skipped(p) # 0 => Skipped(p) > p)
<1>1. CASE Type(p) \in {"lbracket", "lbrace", "colon", "comma"}
  <2>1. p + 1 \in 1 .. Len(tokens) + 1
    <3>1. Type(p) # "end"
      BY <1>1
    <3>2. p \in 1 .. Len(tokens) /\ Len(tokens) \in Nat
      BY <3>1, TokFacts
    <3> QED
      BY <3>2
  <2>2. Skipped(p) = SkipRest(p + 1, 2)
    BY <1>1 DEF Skipped
  <2>3. PICK m : m = p + 1
    OBVIOUS
  <2>4. SkipRest(m, 2) \in Nat /\ (SkipRest(m, 2) # 0 => SkipRest(m, 2) > m)
    <3>1. m \in 1 .. Len(tokens) + 1 /\ 2 \in Int
      BY <2>1, <2>3
    <3> QED
      BY <3>1, SkipRestFacts, Zenon
  <2> QED
    BY <2>2, <2>3, <2>4
<1>2. CASE Type(p) = "string" /\ Type(p + 1) = "colon"
  <2>1. p + 2 \in 1 .. Len(tokens) + 1
    <3>1. p + 1 \in 1 .. Len(tokens) /\ Len(tokens) \in Nat
      BY <1>2, TokFacts
    <3> QED
      BY <3>1
  <2>2. Skipped(p) = SkipRest(p + 2, 2)
    BY <1>2 DEF Skipped
  <2>3. SkipRest(p + 2, 2) \in Nat /\ (SkipRest(p + 2, 2) # 0 => SkipRest(p + 2, 2) > p + 2)
    BY <2>1, SkipRestFacts, SMTT(30)
  <2> QED
    BY <2>2, <2>3
<1>3. CASE /\ ~(Type(p) \in {"lbracket", "lbrace", "colon", "comma"})
           /\ ~(Type(p) = "string" /\ Type(p + 1) = "colon")
  <2>1. Skipped(p) = p + 1
    BY <1>3 DEF Skipped
  <2> QED
    BY <2>1
<1> QED
  BY <1>1, <1>2, <1>3

-----------------------------------------------------------------------------
(* The fields that were scanned.                                           *)

\* F are the fields of the object as far as p, one behind the other.
Way(F, p) ==
  /\ 2 \in F /\ p \in F
  /\ \A f \in F : f < p =>
       IsField(f) /\ Type(Skipped(f + 2)) = "comma" /\ Skipped(f + 2) + 1 \in F
  /\ \A f, g \in F : f < g => Skipped(f + 2) < g

\* Such a way leads to f, and f is a field itself.
Scanned(f) == \E F \in SUBSET (2 .. f) : Way(F, f) /\ IsField(f)

\* What is behind the value of a field at f is further on.
LEMMA BehindField ==
  ASSUME tokens \in Seq(Tokens), NEW f \in Nat
  PROVE  Skipped(f + 2) \in Nat /\ (Skipped(f + 2) # 0 => Skipped(f + 2) > f + 2)
<1>1. PICK m : m = f + 2
  OBVIOUS
<1>2. m \in Nat /\ m # 0
  BY <1>1
<1>3. Skipped(m) \in Nat /\ (Skipped(m) # 0 => Skipped(m) > m)
  BY <1>2, SkippedFacts, Zenon
<1> QED
  BY <1>1, <1>3, Zenon

\* A way leads to each of its fields.
LEMMA WayTo ==
  ASSUME tokens \in Seq(Tokens), NEW p \in Nat, NEW F \in SUBSET (2 .. p), Way(F, p), NEW g \in F
  PROVE  \E G \in SUBSET (2 .. g) : Way(G, g) /\ \A f \in F : f <= g => f \in G
<1> DEFINE G == {f \in F : f <= g}
<1>1. \A f \in F : f \in Nat /\ 2 <= f /\ f <= p
  OBVIOUS
<1>2. G \in SUBSET (2 .. g)
  <2>1. ASSUME NEW f \in G PROVE f \in 2 .. g
    BY <1>1
  <2> QED
    BY <2>1, Zenon
<1>3. 2 \in G /\ g \in G
  <2>1. 2 \in F /\ 2 <= g /\ g <= g
    BY <1>1 DEF Way
  <2> QED
    BY <2>1
<1>4. ASSUME NEW f \in G, f < g
      PROVE  IsField(f) /\ Type(Skipped(f + 2)) = "comma" /\ Skipped(f + 2) + 1 \in G
  <2>1. f \in F /\ f < p
    BY <1>1, <1>4
  <2>2. IsField(f) /\ Type(Skipped(f + 2)) = "comma" /\ Skipped(f + 2) + 1 \in F
    BY <2>1 DEF Way
  <2>3. Skipped(f + 2) < g
    BY <1>4, <2>1 DEF Way
  <2>4. PICK r : r = Skipped(f + 2) + 1
    OBVIOUS
  <2>5. Skipped(f + 2) \in Nat
    BY <1>1, <2>1, BehindField
  <2>6. r <= g
    BY <1>1, <2>2, <2>3, <2>4, <2>5
  <2> QED
    BY <2>2, <2>4, <2>6
<1>5. \A f, h \in G : f < h => Skipped(f + 2) < h
  BY DEF Way
<1> HIDE DEF G
<1>6. Way(G, g)
  BY <1>3, <1>4, <1>5 DEF Way
<1> QED
  BY <1>2, <1>6 DEF G

\* Behind the value of a field and a comma, it goes on.
LEMMA WayOn ==
  ASSUME tokens \in Seq(Tokens), NEW f \in Nat, NEW F \in SUBSET (2 .. f), Way(F, f), IsField(f),
         NEW s, s = Skipped(f + 2), Type(s) = "comma"
  PROVE  /\ s \in Nat /\ f < s /\ s <= Len(tokens)
         /\ F \cup {s + 1} \in SUBSET (2 .. s + 1) /\ Way(F \cup {s + 1}, s + 1)
<1> DEFINE G == F \cup {s + 1}
<1>1. 2 \in F /\ f \in F /\ \A g \in F : g \in Nat /\ 2 <= g /\ g <= f
  BY DEF Way
<1>2. s \in Nat /\ (s # 0 => s > f + 2)
  BY BehindField, Zenon
<1>3. s # 0 /\ s <= Len(tokens)
  <2>1. s \in 1 .. Len(tokens) /\ Len(tokens) \in Nat
    <3>1. Type(s) # "end"
      OBVIOUS
    <3>2. s \in Int
      BY <1>2
    <3> QED
      BY <3>1, <3>2, TokFacts, Zenon
  <2> QED
    BY <2>1
<1>4. f < s
  BY <1>2, <1>3
<1>5. PICK e : e = s + 1
  OBVIOUS
<1>6. e \in Nat /\ f < e /\ 2 <= e /\ s < e
  BY <1>1, <1>2, <1>4, <1>5
<1>7. G \in SUBSET (2 .. e)
  <2>1. ASSUME NEW g \in G PROVE g \in 2 .. e
    BY <1>1, <1>5, <1>6
  <2> QED
    BY <2>1, Zenon
<1>8. \A g \in F : ~(e < g) /\ g # e
  BY <1>1, <1>6
<1>9. ASSUME NEW g \in G, g < e
      PROVE  IsField(g) /\ Type(Skipped(g + 2)) = "comma" /\ Skipped(g + 2) + 1 \in G
  <2>1. g \in F
    BY <1>5, <1>6, <1>9
  <2>2. CASE g = f
    BY <2>2
  <2>3. CASE g # f
    <3>1. g < f
      BY <1>1, <2>1, <2>3
    <3> QED
      BY <2>1, <3>1 DEF Way
  <2> QED
    BY <2>2, <2>3
<1>10. ASSUME NEW g \in G, NEW h \in G, g < h
       PROVE  Skipped(g + 2) < h
  <2>1. g \in F
    BY <1>5, <1>6, <1>8, <1>10
  <2>2. CASE h \in F
    BY <1>10, <2>1, <2>2 DEF Way
  <2>3. CASE h = e
    <3>1. CASE g = f
      BY <1>6, <2>3, <3>1
    <3>2. CASE g # f
      <4>1. g < f
        BY <1>1, <2>1, <3>2
      <4>2. Skipped(g + 2) < f
        BY <1>1, <2>1, <4>1 DEF Way
      <4>3. Skipped(g + 2) \in Nat
        BY <1>1, <2>1, BehindField
      <4> QED
        BY <1>6, <2>3, <4>2, <4>3
    <3> QED
      BY <3>1, <3>2
  <2> QED
    BY <1>5, <2>2, <2>3
<1>11. 2 \in G /\ e \in G
  BY <1>1, <1>5
<1> HIDE DEF G
<1>12. Way(G, e)
  BY <1>9, <1>10, <1>11 DEF Way
<1> QED
  BY <1>2, <1>3, <1>4, <1>5, <1>7, <1>12 DEF G

\* Nothing but the document is in this.
LEMMA SameDocument ==
  ASSUME UNCHANGED tokens
  PROVE  \A q : /\ Type(q)' = Type(q)
                /\ Skipped(q)' = Skipped(q)
                /\ IsField(q)' <=> IsField(q)
<1>1. ASSUME NEW q PROVE Type(q)' = Type(q)
  BY DEF Type, Tok
<1>2. ASSUME NEW q, NEW d PROVE SkipRest(q, d)' = SkipRest(q, d)
  BY DEF SkipRest, Type, Tok, Level
<1>3. ASSUME NEW q PROVE Skipped(q)' = Skipped(q)
  <2>1. /\ Type(q)' = Type(q) /\ Type(q + 1)' = Type(q + 1)
        /\ SkipRest(q + 1, 2)' = SkipRest(q + 1, 2) /\ SkipRest(q + 2, 2)' = SkipRest(q + 2, 2)
    BY <1>1, <1>2
  <2> QED
    BY <2>1 DEF Skipped
<1>4. ASSUME NEW q PROVE IsField(q)' <=> IsField(q)
  <2>1. Type(q)' = Type(q) /\ Type(q + 1)' = Type(q + 1)
    BY <1>1
  <2> QED
    BY <2>1 DEF IsField
<1> QED
  BY <1>1, <1>3, <1>4

-----------------------------------------------------------------------------
(* The inductive invariant.                                                *)

\* The search that began behind the value of a field has passed that field.
Began(F, p) == \E g \in F : g < p /\ Skipped(g + 2) = start

\* The cursor stands at a field that the first scan has come to;
Scanning == \E F \in SUBSET (2 .. pos) : Way(F, pos) /\ (at_first \/ Began(F, pos))
\* the second scan is on the way to the field behind whose value it began;
Rescanning ==
  \E last \in 2 .. start : \E F \in SUBSET (2 .. last) :
    Way(F, last) /\ IsField(last) /\ Skipped(last + 2) = start /\ pos \in F
\* the cursor is at the value of a field,
Reading == \E f \in 2 .. pos : pos = f + 2 /\ Scanned(f)
\* or behind one that was converted.
Resuming ==
  \E f \in 2 .. pos : pos = f + 3 /\ Scanned(f) /\ Type(f + 2) \in {"string", "int"}

\* What the cursor is at in each phase, and what is known of the document since it
\* was opened.
CursorInv ==
  /\ TypeOK
  /\ pos <= Len(tokens) + 1
  /\ \A i \in DOMAIN values : values[i] < Len(tokens)
  /\ pos > 1 => tokens[Len(tokens)].type = "rbrace"
  /\ pc = "search" /\ pos > 1 => Resuming
  /\ pc = "scan" => Scanning
  /\ pc = "rescan" => Rescanning
  /\ pc = "read" => Reading

-----------------------------------------------------------------------------
(* Every step keeps it.                                                    *)

\* The lookups begin at the root of a document, with nothing found.
LEMMA CursorInit ==
  ASSUME Init
  PROVE  CursorInv
<1>1. tokens \in Seq(Tokens) /\ tokens # <<>> /\ body \in Seq(Members)
  BY DocumentsAssumption, BodiesAssumption DEF Init
<1>2. Len(tokens) \in Nat /\ Len(body) \in Nat /\ (body # <<>> => Len(body) > 0)
  BY <1>1
<1>3. CASE body = <<>>
  <2>1. pc = "return" /\ Len(body) = 0
    BY <1>3 DEF Init
  <2>2. TypeOK
    <3>1. parser <=> pc \notin {"handler", "done", "threw"}
      BY <2>1 DEF Init
    <3>2. /\ pos \in Nat \ {0} /\ depth = 1 /\ start \in Nat /\ at_first \in BOOLEAN
          /\ values \in Seq(Nat) /\ Len(values) = 0 /\ error = "none"
      <4>1. pos = 1 /\ depth = 1 /\ start = 0 /\ values = <<>> /\ error = "none"
        BY DEF Init
      <4>2. at_first \in BOOLEAN
        BY Zenon DEF Init
      <4> QED
        BY <4>1, <4>2
    <3> QED
      BY <1>1, <2>1, <3>1, <3>2 DEF TypeOK
  <2> QED
    BY <1>2, <2>1, <2>2 DEF Init, CursorInv
<1>4. CASE body # <<>>
  <2>1. pc = "search" /\ Len(body) > 0
    BY <1>2, <1>4 DEF Init
  <2>2. TypeOK
    <3>1. parser <=> pc \notin {"handler", "done", "threw"}
      BY <2>1 DEF Init
    <3>2. /\ pos \in Nat \ {0} /\ depth = 1 /\ start \in Nat /\ at_first \in BOOLEAN
          /\ values \in Seq(Nat) /\ Len(values) = 0 /\ error = "none"
      <4>1. pos = 1 /\ depth = 1 /\ start = 0 /\ values = <<>> /\ error = "none"
        BY DEF Init
      <4>2. at_first \in BOOLEAN
        BY Zenon DEF Init
      <4> QED
        BY <4>1, <4>2
    <3> QED
      BY <1>1, <1>2, <2>1, <3>1, <3>2 DEF TypeOK
  <2> QED
    BY <1>2, <2>1, <2>2 DEF Init, CursorInv
<1> QED
  BY <1>3, <1>4

-----------------------------------------------------------------------------
(* Types are kept.                                                         *)

\* When a lookup throws,
LEMMA ThrowTypes ==
  ASSUME TypeOK, NEW code, code # "none", Throw(code), UNCHANGED <<tokens, body, values>>
  PROVE  TypeOK'
BY DEF TypeOK, Throw, cursor

\* and when the cursor moves on.
LEMMA ContinueTypes ==
  ASSUME TypeOK, NEW label, label \in {"search", "scan", "rescan", "read", "return"},
         NEW p \in Nat \ {0}, NEW d, d = (IF label = "read" THEN 2 ELSE 1), Continue(label, p, d),
         pc \in {"search", "scan", "rescan", "read"},
         UNCHANGED <<tokens, body>>, start' \in Nat, at_first' \in BOOLEAN,
         values' \in Seq(Nat), Len(values') <= Len(body),
         label # "return" => Len(values') < Len(body)
  PROVE  TypeOK'
<1>1. /\ pc' = label /\ pos' = p /\ depth' = d /\ tokens' = tokens /\ body' = body
      /\ parser' = parser /\ error' = error
  BY DEF Continue
<1>2. depth' \in {1, 2} /\ (pc' # "threw" => depth' = (IF pc' = "read" THEN 2 ELSE 1))
  BY <1>1
<1>3. parser' <=> pc' \notin {"handler", "done", "threw"}
  BY <1>1 DEF TypeOK
<1>4. error' = "none" <=> pc' # "threw"
  BY <1>1 DEF TypeOK
<1> QED
  BY <1>1, <1>2, <1>3, <1>4 DEF TypeOK

-----------------------------------------------------------------------------
(* What a step of a lookup can come to.                                    *)

Throws == \E code : code # "none" /\ Throw(code)

\* The document is opened;
LEMMA OpenOutcomes ==
  ASSUME OpenObject
  PROVE  /\ pc = "search" /\ pos = 1 /\ UNCHANGED <<tokens, body, values>>
         /\ \/ Throws
            \/ /\ Type(1) = "lbrace" /\ Type(Len(tokens)) = "rbrace"
               /\ Continue("scan", 2, 1) /\ at_first' = TRUE /\ start' = start
BY DEF OpenObject, Throws

\* or the search goes on with the next field, or from the first one;
LEMMA ResumeOutcomes ==
  ASSUME ResumeObject
  PROVE  /\ pc = "search" /\ pos > 1 /\ UNCHANGED <<tokens, body, values>>
         /\ \/ Throws
            \/ /\ start' = pos /\ at_first' = FALSE
               /\ \/ Type(pos) = "comma" /\ Continue("scan", pos + 1, 1)
                  \/ Type(pos) = "rbrace" /\ Continue("rescan", 2, 1)
BY DEF ResumeObject, Throws

\* a field is scanned,
LEMMA ScanOutcomes ==
  ASSUME ScanField
  PROVE  /\ pc = "scan" /\ UNCHANGED <<tokens, body, values>>
         /\ \/ Throws
            \/ /\ IsField(pos) /\ UNCHANGED <<start, at_first>>
               /\ \/ Continue("read", pos + 2, 2)
                  \/ /\ Type(Skipped(pos + 2)) = "comma"
                     /\ Continue("scan", Skipped(pos + 2) + 1, 1)
                  \/ ~at_first /\ Continue("rescan", 2, 1)
BY DEF ScanField, NextField, EndOfObject, Throws

\* or passed a second time;
LEMMA RescanOutcomes ==
  ASSUME RescanField
  PROVE  /\ pc = "rescan" /\ UNCHANGED <<tokens, body, values>>
         /\ \/ Throws
            \/ /\ UNCHANGED <<start, at_first>>
               /\ \/ Continue("read", pos + 2, 2)
                  \/ /\ Skipped(pos + 2) # start
                     /\ Continue("rescan", Skipped(pos + 2) + 1, 1)
BY DEF RescanField, Throws

\* and a value is converted.
LEMMA ReadOutcomes ==
  ASSUME ReadValue
  PROVE  /\ pc = "read" /\ UNCHANGED <<tokens, body>>
         /\ \/ Throws /\ UNCHANGED values
            \/ /\ Type(pos) = Member.type /\ values' = Append(values, pos)
               /\ UNCHANGED <<start, at_first>>
               /\ \/ Len(values) + 1 # Len(body) /\ Continue("search", pos + 1, 1)
                  \/ Continue("return", pos + 1, 1)
BY DEF ReadValue, Throws

-----------------------------------------------------------------------------
(* Types are kept in every step.                                           *)

\* Every step, or none, keeps the types of the state.
LEMMA TypeStep ==
  ASSUME TypeOK, [Next]_vars
  PROVE  TypeOK'
<1>1. /\ values \in Seq(Nat) /\ Len(values) \in Nat /\ Len(body) \in Nat
      /\ pos \in Nat \ {0} /\ pos + 1 \in Nat \ {0} /\ pos + 2 \in Nat \ {0}
      /\ start \in Nat /\ at_first \in BOOLEAN
  BY DEF TypeOK
<1>2. Skipped(pos + 2) + 1 \in Nat \ {0}
  <2>1. Skipped(pos + 2) \in Nat
    BY <1>1, BehindField DEF TypeOK
  <2> QED
    BY <2>1
<1>3. pc \in {"search", "scan", "rescan", "read"} =>
        Len(values) < Len(body) /\ Len(values) <= Len(body)
  BY <1>1 DEF TypeOK
<1>4. ASSUME Throws, UNCHANGED <<tokens, body, values>> PROVE TypeOK'
  BY <1>4, ThrowTypes DEF Throws
<1>5. CASE OpenObject
  <2>1. CASE Throws
    BY <1>4, <1>5, <2>1, OpenOutcomes
  <2>2. CASE Continue("scan", 2, 1) /\ at_first' = TRUE /\ start' = start
    <3>1. PICK p \in Nat \ {0} : p = 2
      OBVIOUS
    <3> QED
      BY <1>1, <1>3, <1>5, <2>2, <3>1, OpenOutcomes, ContinueTypes
  <2> QED
    BY <1>5, <2>1, <2>2, OpenOutcomes
<1>6. CASE ResumeObject
  <2>1. CASE Throws
    BY <1>4, <1>6, <2>1, ResumeOutcomes
  <2>2. CASE Continue("scan", pos + 1, 1) /\ start' = pos /\ at_first' = FALSE
    <3>1. PICK p \in Nat \ {0} : p = pos + 1
      BY <1>1 DEF TypeOK
    <3> QED
      BY <1>1, <1>3, <1>6, <2>2, ResumeOutcomes, <3>1, ContinueTypes
  <2>3. CASE Continue("rescan", 2, 1) /\ start' = pos /\ at_first' = FALSE
    <3>1. PICK p \in Nat \ {0} : p = 2
      OBVIOUS
    <3> QED
      BY <1>1, <1>3, <1>6, <2>3, <3>1, ResumeOutcomes, ContinueTypes
  <2> QED
    BY <1>6, <2>1, <2>2, <2>3, ResumeOutcomes
<1>7. CASE ScanField
  <2>1. CASE Throws
    BY <1>4, <1>7, <2>1, ScanOutcomes
  <2>2. CASE Continue("read", pos + 2, 2) /\ UNCHANGED <<start, at_first>>
    <3>1. PICK p \in Nat \ {0} : p = pos + 2
      BY <1>1 DEF TypeOK
    <3> QED
      BY <1>1, <1>3, <1>7, <2>2, ScanOutcomes, <3>1, ContinueTypes
  <2>3. CASE Continue("scan", Skipped(pos + 2) + 1, 1) /\ UNCHANGED <<start, at_first>>
    <3>1. PICK p \in Nat \ {0} : p = Skipped(pos + 2) + 1
      BY <1>2
    <3> QED
      BY <1>1, <1>3, <1>7, <2>3, ScanOutcomes, <3>1, ContinueTypes
  <2>4. CASE Continue("rescan", 2, 1) /\ UNCHANGED <<start, at_first>>
    <3>1. PICK p \in Nat \ {0} : p = 2
      OBVIOUS
    <3> QED
      BY <1>1, <1>3, <1>7, <2>4, ScanOutcomes, <3>1, ContinueTypes
  <2> QED
    BY <1>7, <2>1, <2>2, <2>3, <2>4, ScanOutcomes
<1>8. CASE RescanField
  <2>1. CASE Throws
    BY <1>4, <1>8, <2>1, RescanOutcomes
  <2>2. CASE Continue("read", pos + 2, 2) /\ UNCHANGED <<start, at_first>>
    <3>1. PICK p \in Nat \ {0} : p = pos + 2
      BY <1>1 DEF TypeOK
    <3> QED
      BY <1>1, <1>3, <1>8, <2>2, RescanOutcomes, <3>1, ContinueTypes
  <2>3. CASE Continue("rescan", Skipped(pos + 2) + 1, 1) /\ UNCHANGED <<start, at_first>>
    <3>1. PICK p \in Nat \ {0} : p = Skipped(pos + 2) + 1
      BY <1>2
    <3> QED
      BY <1>1, <1>3, <1>8, <2>3, RescanOutcomes, <3>1, ContinueTypes
  <2> QED
    BY <1>8, <2>1, <2>2, <2>3, RescanOutcomes
<1>9. CASE ReadValue
  <2>1. pc = "read" /\ Len(values) < Len(body)
    BY <1>3, <1>9, ReadOutcomes
  <2>2. CASE Throws /\ UNCHANGED values
    BY <1>4, <1>9, <2>2, ReadOutcomes
  <2>3. CASE values' = Append(values, pos) /\ UNCHANGED <<start, at_first>>
    <3>1. values' \in Seq(Nat) /\ Len(values') = Len(values) + 1
      BY <1>1, <2>3
    <3>2. Len(values') <= Len(body) /\ (Len(values) + 1 # Len(body) => Len(values') < Len(body))
      BY <1>1, <2>1, <3>1
    <3>3. CASE Len(values) + 1 # Len(body) /\ Continue("search", pos + 1, 1)
      BY <1>1, <1>9, <2>1, <2>3, <3>1, <3>2, <3>3, ReadOutcomes, ContinueTypes
    <3>4. CASE Continue("return", pos + 1, 1)
      BY <1>1, <1>9, <2>1, <2>3, <3>1, <3>2, <3>4, ReadOutcomes, ContinueTypes
    <3> QED
      BY <1>9, <2>2, <3>3, <3>4, ReadOutcomes
  <2> QED
    BY <1>9, <2>2, <2>3, ReadOutcomes
<1>10. CASE Return
  <2>1. /\ pc = "return" /\ pc' = "handler" /\ depth' = depth /\ pos' = pos
        /\ UNCHANGED <<tokens, body, start, at_first, values, error>>
    BY <1>10 DEF Return, cursor
  <2>2. parser' <=> pc' \notin {"handler", "done", "threw"}
    BY <1>10 DEF Return
  <2> QED
    BY <2>1, <2>2 DEF TypeOK
<1>11. CASE RunTask
  BY <1>11 DEF RunTask, cursor, TypeOK
<1>12. CASE UNCHANGED vars
  <2>1. (parser' <=> pc' \notin {"handler", "done", "threw"})
          <=> (parser <=> pc \notin {"handler", "done", "threw"})
    BY <1>12 DEF vars, cursor
  <2> QED
    BY <1>12, <2>1 DEF vars, cursor, TypeOK
<1> QED
  BY <1>5, <1>6, <1>7, <1>8, <1>9, <1>10, <1>11, <1>12 DEF Next

-----------------------------------------------------------------------------
(* The cursor.                                                             *)

\* What the phases need of the next state, said of this one's document.
LEMMA NextPhase ==
  ASSUME UNCHANGED tokens, NEW p \in Nat, pos' = p, NEW st \in Nat, start' = st
  PROVE  /\ \A F \in SUBSET (2 .. p) :
              Way(F, p) /\ (at_first' \/ \E g \in F : g < p /\ Skipped(g + 2) = st) => Scanning'
         /\ \A last \in 2 .. st : \A F \in SUBSET (2 .. last) :
              Way(F, last) /\ IsField(last) /\ Skipped(last + 2) = st /\ p \in F => Rescanning'
         /\ \A f \in 2 .. p : p = f + 2 /\ Scanned(f) => Reading'
         /\ \A f \in 2 .. p :
              p = f + 3 /\ Scanned(f) /\ Type(f + 2) \in {"string", "int"} => Resuming'
<1>1. \A q : Type(q)' = Type(q) /\ Skipped(q)' = Skipped(q) /\ (IsField(q)' <=> IsField(q))
  BY SameDocument
<1>2. \A F, q : Way(F, q)' <=> Way(F, q)
  BY <1>1 DEF Way
<1>3. \A q : Scanned(q)' <=> Scanned(q)
  BY <1>1, <1>2 DEF Scanned
<1>4. ASSUME NEW F \in SUBSET (2 .. p),
             Way(F, p), at_first' \/ \E g \in F : g < p /\ Skipped(g + 2) = st
      PROVE  Scanning'
  BY <1>1, <1>4 DEF Scanning, Began, Way
<1>5. ASSUME NEW last \in 2 .. st, NEW F \in SUBSET (2 .. last),
             Way(F, last), IsField(last), Skipped(last + 2) = st, p \in F
      PROVE  Rescanning'
  BY <1>1, <1>2, <1>5 DEF Rescanning
<1>6. ASSUME NEW f \in 2 .. p, p = f + 2, Scanned(f) PROVE Reading'
  BY <1>3, <1>6 DEF Reading
<1>7. ASSUME NEW f \in 2 .. p, p = f + 3, Scanned(f), Type(f + 2) \in {"string", "int"}
      PROVE  Resuming'
  BY <1>1, <1>3, <1>7 DEF Resuming
<1> QED
  BY <1>4, <1>5, <1>6, <1>7

\* What is known of the document and the values stays known.
LEMMA Onward ==
  ASSUME CursorInv, TypeOK', UNCHANGED <<tokens, values>>, pos' <= Len(tokens) + 1,
         tokens[Len(tokens)].type = "rbrace",
         pc' = "search" => Resuming', pc' = "scan" => Scanning',
         pc' = "rescan" => Rescanning', pc' = "read" => Reading'
  PROVE  CursorInv'
BY DEF CursorInv

\* After a throw there is no phase.
LEMMA ThrowKeeps ==
  ASSUME CursorInv, TypeOK', Throws, UNCHANGED <<tokens, body, values>>
  PROVE  CursorInv'
BY DEF CursorInv, Throws, Throw, cursor

\* The opening brace is followed by the first field, if the first scan finds it to be one.
LEMMA OpenKeeps ==
  ASSUME CursorInv, TypeOK', OpenObject
  PROVE  CursorInv'
<1>1. CASE Throws
  BY <1>1, ThrowKeeps, OpenOutcomes
<1>2. CASE /\ Type(1) = "lbrace" /\ Type(Len(tokens)) = "rbrace"
           /\ Continue("scan", 2, 1) /\ at_first' = TRUE /\ start' = start
  <2>1. /\ UNCHANGED <<tokens, values>> /\ pc' = "scan" /\ pos' = 2 /\ at_first'
    BY <1>2, OpenOutcomes DEF Continue
  <2>2. tokens \in Seq(Tokens) /\ tokens # <<>> /\ Len(tokens) \in Nat /\ start \in Nat
    BY DEF CursorInv, TypeOK
  <2>3. tokens[Len(tokens)].type = "rbrace" /\ 2 <= Len(tokens) + 1
    BY <1>2, <2>2 DEF Type, Tok
  <2>4. {2} \in SUBSET (2 .. 2) /\ Way({2}, 2)
    BY DEF Way
  <2>5. Scanning'
    <3>1. PICK p \in Nat : p = 2
      OBVIOUS
    <3>2. {2} \in SUBSET (2 .. p) /\ Way({2}, p)
      BY <2>4, <3>1, Zenon
    <3> QED
      BY <1>2, <2>1, <2>2, <3>1, <3>2, NextPhase
  <2> QED
    BY <2>1, <2>3, <2>5, Onward
<1> QED
  BY <1>1, <1>2, OpenOutcomes

\* Behind a converted value the object goes on or ends.
LEMMA ResumeKeeps ==
  ASSUME CursorInv, TypeOK', ResumeObject
  PROVE  CursorInv'
<1>1. CASE Throws
  BY <1>1, ThrowKeeps, ResumeOutcomes
<1>2. CASE /\ start' = pos /\ at_first' = FALSE
           /\ \/ Type(pos) = "comma" /\ Continue("scan", pos + 1, 1)
              \/ Type(pos) = "rbrace" /\ Continue("rescan", 2, 1)
  <2>1. /\ tokens \in Seq(Tokens) /\ Len(tokens) \in Nat /\ pos \in Nat /\ pos > 1
        /\ UNCHANGED <<tokens, values>> /\ tokens[Len(tokens)].type = "rbrace" /\ Resuming
    BY ResumeOutcomes DEF CursorInv, TypeOK
  <2>2. PICK f \in 2 .. pos :
          pos = f + 3 /\ Scanned(f) /\ Type(f + 2) \in {"string", "int"}
    BY <2>1 DEF Resuming
  <2>3. PICK F \in SUBSET (2 .. f) : Way(F, f) /\ IsField(f)
    BY <2>2 DEF Scanned
  <2>4. pos <= Len(tokens)
    <3>1. Type(pos) # "end"
      BY <1>2
    <3> QED
      BY <2>1, <3>1, TokFacts
  <2>5. Skipped(f + 2) = pos
    <3>1. Type(f + 3) # "colon" /\ (f + 2) + 1 = f + 3
      BY <1>2, <2>2
    <3>2. Skipped(f + 2) = (f + 2) + 1
      BY <2>2, <3>1 DEF Skipped
    <3> QED
      BY <2>2, <3>1, <3>2
  <2>6. CASE Type(pos) = "comma" /\ Continue("scan", pos + 1, 1)
    <3>1. pc' = "scan" /\ pos' = pos + 1 /\ pos + 1 \in Nat /\ pos' <= Len(tokens) + 1
      BY <2>1, <2>4, <2>6 DEF Continue
    <3> DEFINE G == F \cup {pos + 1}
    <3>2. G \in SUBSET (2 .. pos + 1) /\ Way(G, pos + 1)
      <4>1. PICK s : s = pos
        OBVIOUS
      <4>2. f \in Nat /\ s = Skipped(f + 2) /\ Type(s) = "comma"
        BY <2>1, <2>2, <2>5, <2>6, <4>1
      <4> QED
        BY <2>1, <2>3, <4>1, <4>2, WayOn
    <3>3. f \in G /\ f < pos + 1
      BY <2>1, <2>2, <2>3 DEF Way
    <3> HIDE DEF G
    <3>4. Scanning'
      BY <1>2, <2>1, <2>5, <3>1, <3>2, <3>3, NextPhase
    <3> QED
      BY <2>1, <3>1, <3>4, Onward
  <2>7. CASE Type(pos) = "rbrace" /\ Continue("rescan", 2, 1)
    <3>1. pc' = "rescan" /\ pos' = 2 /\ 2 <= Len(tokens) + 1
      BY <2>1, <2>4, <2>7 DEF Continue
    <3>2. 2 \in F
      BY <2>3 DEF Way
    <3>3. PICK p \in Nat : p = 2
      OBVIOUS
    <3>4. pos' = p /\ p \in F
      BY <3>1, <3>2, <3>3
    <3>5. Rescanning'
      BY <1>2, <2>1, <2>2, <2>3, <2>5, <3>4, NextPhase
    <3> QED
      BY <2>1, <3>1, <3>5, Onward
  <2> QED
    BY <1>2, <2>6, <2>7
<1> QED
  BY <1>1, <1>2, ResumeOutcomes

\* A field is the member's, is passed, or was the last of the object.
LEMMA ScanKeeps ==
  ASSUME CursorInv, TypeOK', ScanField
  PROVE  CursorInv'
<1>1. CASE Throws
  BY <1>1, ThrowKeeps, ScanOutcomes
<1>2. CASE /\ IsField(pos) /\ UNCHANGED <<start, at_first>>
           /\ \/ Continue("read", pos + 2, 2)
              \/ /\ Type(Skipped(pos + 2)) = "comma"
                 /\ Continue("scan", Skipped(pos + 2) + 1, 1)
              \/ ~at_first /\ Continue("rescan", 2, 1)
  <2>1. /\ tokens \in Seq(Tokens) /\ Len(tokens) \in Nat /\ pos \in Nat /\ start \in Nat
        /\ UNCHANGED <<tokens, values>> /\ Scanning /\ pos <= Len(tokens) + 1
    BY ScanOutcomes DEF CursorInv, TypeOK
  <2>2. PICK F \in SUBSET (2 .. pos) : Way(F, pos) /\ (at_first \/ Began(F, pos))
    BY <2>1 DEF Scanning
  <2>3. pos \in F /\ 2 \in F /\ 2 <= pos /\ \A g \in F : g \in Nat /\ 2 <= g /\ g <= pos
    BY <2>1, <2>2 DEF Way
  <2>4. tokens[Len(tokens)].type = "rbrace"
    BY <2>1, <2>3 DEF CursorInv
  <2>5. CASE Continue("read", pos + 2, 2)
    <3>1. pc' = "read" /\ pos' = pos + 2 /\ pos + 2 \in Nat
      BY <2>1, <2>5 DEF Continue
    <3>2. pos' <= Len(tokens) + 1
      <4>1. PICK q : q = pos + 1
        OBVIOUS
      <4>2. q \in Int /\ Type(q) # "end"
        BY <1>2, <2>1, <4>1 DEF IsField
      <4>3. q <= Len(tokens)
        BY <2>1, <4>2, TokFacts
      <4> QED
        BY <2>1, <3>1, <4>1, <4>3
    <3>3. Scanned(pos)
      BY <1>2, <2>2 DEF Scanned
    <3>4. pos \in 2 .. pos + 2
      BY <2>1, <2>3
    <3>5. Reading'
      BY <1>2, <2>1, <3>1, <3>3, <3>4, NextPhase
    <3> QED
      BY <2>1, <2>4, <3>1, <3>2, <3>5, Onward
  <2>6. CASE /\ Type(Skipped(pos + 2)) = "comma"
             /\ Continue("scan", Skipped(pos + 2) + 1, 1)
    <3>1. PICK s : s = Skipped(pos + 2)
      OBVIOUS
    <3>2. PICK f : f = pos
      OBVIOUS
    <3> DEFINE G == F \cup {s + 1}
    <3>3. s \in Nat /\ pos < s /\ s <= Len(tokens) /\ G \in SUBSET (2 .. s + 1) /\ Way(G, s + 1)
      <4>1. f \in Nat /\ F \in SUBSET (2 .. f) /\ Way(F, f) /\ IsField(f)
        BY <1>2, <2>1, <2>2, <3>2
      <4>2. s = Skipped(f + 2) /\ Type(s) = "comma"
        BY <2>6, <3>1, <3>2
      <4>3. s \in Nat /\ f < s /\ s <= Len(tokens) /\ G \in SUBSET (2 .. s + 1) /\ Way(G, s + 1)
        BY <2>1, <4>1, <4>2, WayOn
      <4> QED
        BY <3>2, <4>3
    <3>4. pc' = "scan" /\ pos' = s + 1 /\ s + 1 \in Nat /\ pos' <= Len(tokens) + 1
      BY <2>1, <2>6, <3>1, <3>3 DEF Continue
    <3>5. at_first' \/ \E g \in G : g < s + 1 /\ Skipped(g + 2) = start
      <4>1. CASE at_first
        BY <1>2, <4>1
      <4>2. CASE Began(F, pos)
        <5>1. PICK g \in F : g < pos /\ Skipped(g + 2) = start
          BY <4>2 DEF Began
        <5>2. g \in G /\ g < s + 1
          BY <2>1, <2>3, <3>3, <5>1
        <5> QED
          BY <5>1, <5>2
      <4> QED
        BY <2>2, <4>1, <4>2
    <3> HIDE DEF G
    <3>6. Scanning'
      BY <1>2, <2>1, <3>3, <3>4, <3>5, NextPhase
    <3> QED
      BY <2>1, <2>4, <3>4, <3>6, Onward
  <2>7. CASE ~at_first /\ Continue("rescan", 2, 1)
    <3>1. PICK g \in F : g < pos /\ Skipped(g + 2) = start
      BY <2>2, <2>7 DEF Began
    <3>2. IsField(g) /\ Type(start) = "comma"
      BY <2>2, <3>1 DEF Way
    <3>3. g \in 2 .. start
      <4>1. start # 0
        <5>1. Type(start) # "end"
          BY <3>2
        <5> QED
          BY <2>1, <5>1, TokFacts
      <4>2. start > g + 2
        BY <2>1, <2>3, <3>1, <4>1, BehindField
      <4> QED
        BY <2>1, <2>3, <4>2
    <3>4. PICK G \in SUBSET (2 .. g) : Way(G, g)
      <4>1. PICK f : f = pos
        OBVIOUS
      <4>2. f \in Nat /\ F \in SUBSET (2 .. f) /\ Way(F, f)
        BY <2>1, <2>2, <4>1
      <4> QED
        BY <2>1, <4>2, WayTo
    <3>5. PICK p \in Nat : p = 2
      OBVIOUS
    <3>6. pc' = "rescan" /\ pos' = p /\ p \in G /\ pos' <= Len(tokens) + 1
      BY <2>1, <2>3, <2>7, <3>4, <3>5 DEF Continue, Way
    <3>7. Rescanning'
      BY <1>2, <2>1, <3>1, <3>2, <3>3, <3>4, <3>6, NextPhase
    <3> QED
      BY <2>1, <2>4, <3>6, <3>7, Onward
  <2> QED
    BY <1>2, <2>5, <2>6, <2>7
<1> QED
  BY <1>1, <1>2, ScanOutcomes

\* The second time, fields are met in the order of the first.
LEMMA RescanKeeps ==
  ASSUME CursorInv, TypeOK', RescanField
  PROVE  CursorInv'
<1>1. CASE Throws
  BY <1>1, ThrowKeeps, RescanOutcomes
<1>2. CASE /\ UNCHANGED <<start, at_first>>
           /\ \/ Continue("read", pos + 2, 2)
              \/ /\ Skipped(pos + 2) # start
                 /\ Continue("rescan", Skipped(pos + 2) + 1, 1)
  <2>1. /\ tokens \in Seq(Tokens) /\ Len(tokens) \in Nat /\ pos \in Nat /\ start \in Nat
        /\ UNCHANGED <<tokens, values>> /\ Rescanning
    BY RescanOutcomes DEF CursorInv, TypeOK
  <2>2. PICK last \in 2 .. start : \E F \in SUBSET (2 .. last) :
          Way(F, last) /\ IsField(last) /\ Skipped(last + 2) = start /\ pos \in F
    BY <2>1 DEF Rescanning
  <2>3. PICK F \in SUBSET (2 .. last) :
          Way(F, last) /\ IsField(last) /\ Skipped(last + 2) = start /\ pos \in F
    BY <2>2
  <2>4. last \in Nat /\ 2 <= pos /\ pos <= last
    BY <2>1, <2>3
  <2>5. tokens[Len(tokens)].type = "rbrace"
    BY <2>1, <2>4 DEF CursorInv
  <2>6. pos # last => pos < last
    BY <2>1, <2>4
  <2>7. /\ IsField(pos)
        /\ pos < last => Type(Skipped(pos + 2)) = "comma" /\ Skipped(pos + 2) + 1 \in F
    BY <2>3, <2>6 DEF Way
  <2>8. CASE Continue("read", pos + 2, 2)
    <3>1. pc' = "read" /\ pos' = pos + 2 /\ pos + 2 \in Nat
      BY <2>1, <2>8 DEF Continue
    <3>2. pos' <= Len(tokens) + 1
      <4>1. PICK q : q = pos + 1
        OBVIOUS
      <4>2. q \in Int /\ Type(q) # "end"
        BY <2>1, <2>7, <4>1 DEF IsField
      <4>3. q <= Len(tokens)
        BY <2>1, <4>2, TokFacts
      <4> QED
        BY <2>1, <3>1, <4>1, <4>3
    <3>3. PICK G \in SUBSET (2 .. pos) : Way(G, pos)
      BY <2>1, <2>3, <2>4, WayTo
    <3>4. Scanned(pos) /\ pos \in 2 .. pos + 2
      BY <2>1, <2>4, <2>7, <3>3 DEF Scanned
    <3>5. Reading'
      BY <1>2, <2>1, <3>1, <3>4, NextPhase
    <3> QED
      BY <2>1, <2>5, <3>1, <3>2, <3>5, Onward
  <2>9. CASE Skipped(pos + 2) # start /\ Continue("rescan", Skipped(pos + 2) + 1, 1)
    <3>1. PICK s : s = Skipped(pos + 2)
      OBVIOUS
    <3>2. Type(s) = "comma" /\ s + 1 \in F
      BY <2>3, <2>6, <2>7, <2>9, <3>1
    <3>3. s \in Nat /\ s <= Len(tokens)
      <4>1. s \in Nat
        BY <2>1, <3>1, BehindField
      <4>2. Type(s) # "end"
        BY <3>2
      <4> QED
        BY <2>1, <4>1, <4>2, TokFacts
    <3>4. pc' = "rescan" /\ pos' = s + 1 /\ s + 1 \in Nat /\ pos' <= Len(tokens) + 1
      BY <2>1, <2>9, <3>1, <3>3 DEF Continue
    <3>5. Rescanning'
      BY <1>2, <2>1, <2>3, <3>2, <3>4, NextPhase
    <3> QED
      BY <2>1, <2>5, <3>4, <3>5, Onward
  <2> QED
    BY <1>2, <2>8, <2>9
<1> QED
  BY <1>1, <1>2, RescanOutcomes

\* A value that is converted is inside the object.
LEMMA ReadKeeps ==
  ASSUME CursorInv, TypeOK', ReadValue
  PROVE  CursorInv'
<1>1. CASE Throws /\ UNCHANGED values
  BY <1>1, ThrowKeeps, ReadOutcomes
<1>2. CASE /\ Type(pos) = Member.type /\ values' = Append(values, pos)
           /\ UNCHANGED <<start, at_first>>
           /\ \/ Len(values) + 1 # Len(body) /\ Continue("search", pos + 1, 1)
              \/ Continue("return", pos + 1, 1)
  <2>1. /\ tokens \in Seq(Tokens) /\ Len(tokens) \in Nat /\ pos \in Nat /\ start \in Nat
        /\ UNCHANGED tokens /\ Reading /\ values \in Seq(Nat) /\ Len(values) \in Nat
        /\ body \in Seq(Members) /\ Len(body) \in Nat /\ Len(values) < Len(body)
    BY ReadOutcomes DEF CursorInv, TypeOK
  <2>2. PICK f \in 2 .. pos : pos = f + 2 /\ Scanned(f)
    BY <2>1 DEF Reading
  <2>3. Type(pos) \in {"string", "int"}
    <3>1. Member \in Members
      BY <2>1 DEF Member
    <3> QED
      BY <1>2, <3>1 DEF Members
  <2>4. tokens[Len(tokens)].type = "rbrace" /\ pos > 1
    BY <2>1, <2>2 DEF CursorInv
  <2>5. pos < Len(tokens)
    <3>1. pos \in 1 .. Len(tokens)
      <4>1. Type(pos) # "end"
        BY <2>3
      <4> QED
        BY <2>1, <4>1, TokFacts
    <3>2. pos # Len(tokens)
      BY <2>1, <2>3, <2>4, <3>1 DEF Type, Tok
    <3> QED
      BY <2>1, <3>1, <3>2
  <2>6. \A i \in DOMAIN values' : values'[i] < Len(tokens)
    <3>1. \A i \in DOMAIN values : values[i] < Len(tokens)
      BY DEF CursorInv
    <3>2. DOMAIN values' = 1 .. Len(values) + 1
      BY <1>2, <2>1
    <3>3. \A i \in 1 .. Len(values) : values'[i] = values[i]
      BY <1>2, <2>1
    <3>4. values'[Len(values) + 1] = pos
      BY <1>2, <2>1
    <3> QED
      BY <2>1, <2>5, <3>1, <3>2, <3>3, <3>4, SMTT(30)
  <2>7. pc' \in {"search", "return"} /\ pos' = pos + 1 /\ pos + 1 \in Nat
    BY <1>2, <2>1 DEF Continue
  <2>8. pos' <= Len(tokens) + 1
    BY <2>1, <2>5, <2>7
  <2>9. Resuming'
    <3>1. PICK p \in Nat : p = pos + 1
      BY <2>7
    <3>2. f \in 2 .. p /\ p = f + 3 /\ Type(f + 2) \in {"string", "int"}
      BY <2>1, <2>2, <2>3, <3>1
    <3> QED
      BY <1>2, <2>1, <2>2, <2>7, <3>1, <3>2, NextPhase
  <2> QED
    BY <2>1, <2>4, <2>6, <2>7, <2>8, <2>9 DEF CursorInv
<1> QED
  BY <1>1, <1>2, ReadOutcomes

\* Every step keeps the invariant.
LEMMA CursorStep ==
  ASSUME CursorInv, [Next]_vars
  PROVE  CursorInv'
<1>1. TypeOK'
  BY TypeStep DEF CursorInv
<1>2. CASE OpenObject
  BY <1>1, <1>2, OpenKeeps
<1>3. CASE ResumeObject
  BY <1>1, <1>3, ResumeKeeps
<1>4. CASE ScanField
  BY <1>1, <1>4, ScanKeeps
<1>5. CASE RescanField
  BY <1>1, <1>5, RescanKeeps
<1>6. CASE ReadValue
  BY <1>1, <1>6, ReadKeeps
<1>7. CASE Return
  BY <1>1, <1>7 DEF Return, cursor, CursorInv
<1>8. CASE RunTask
  BY <1>1, <1>8 DEF RunTask, cursor, CursorInv
<1>9. CASE UNCHANGED vars
  <2>1. /\ UNCHANGED <<tokens, values, pc, pos, start, at_first>>
        /\ \A q : Type(q)' = Type(q) /\ Skipped(q)' = Skipped(q) /\ (IsField(q)' <=> IsField(q))
    BY <1>9, SameDocument DEF vars, cursor
  <2>2. \A F, q : Way(F, q)' <=> Way(F, q)
    BY <2>1 DEF Way
  <2>3. \A q : Scanned(q)' <=> Scanned(q)
    BY <2>1, <2>2 DEF Scanned
  <2>4. Scanning => Scanning'
    BY <2>1 DEF Scanning, Began, Way
  <2>5. Rescanning => Rescanning'
    BY <2>1, <2>2 DEF Rescanning
  <2>6. Reading => Reading'
    BY <2>1, <2>3 DEF Reading
  <2>7. Resuming => Resuming'
    BY <2>1, <2>3 DEF Resuming
  <2> QED
    BY <1>1, <2>1, <2>4, <2>5, <2>6, <2>7 DEF CursorInv
<1> QED
  BY <1>2, <1>3, <1>4, <1>5, <1>6, <1>7, <1>8, <1>9 DEF Next

-----------------------------------------------------------------------------
(* Theorems.                                                               *)

\* Every variable keeps its type, whatever the documents and the bodies
\* (object_body, middleware.hpp, and the parser's position and depth).
THEOREM TypeCorrect == Spec => []TypeOK
<1>1. Init => CursorInv
  BY CursorInit
<1>2. CursorInv /\ [Next]_vars => CursorInv'
  BY CursorStep
<1>3. CursorInv => TypeOK
  BY DEF CursorInv
<1> QED
  BY <1>1, <1>2, <1>3, PTL DEF Spec

\* The second scan of find_field_unordered_raw, which validates nothing, always
\* stands at a field that the first one has validated, before the place where the
\* search began: the SIMDJSON_ASSUMEs hold, the cursor stays inside the document,
\* and values are read inside the object.
THEOREM AssumptionsAlwaysHold == Spec => []AssumptionsHold
<1>1. CursorInv => AssumptionsHold
  <2> SUFFICES ASSUME CursorInv PROVE AssumptionsHold
    OBVIOUS
  <2>1. ASSUME pc = "rescan"
        PROVE  /\ IsField(pos) /\ pos < start
               /\ Skipped(pos + 2) # start => Type(Skipped(pos + 2)) = "comma"
    <3>1. tokens \in Seq(Tokens) /\ pos \in Nat /\ start \in Nat /\ Rescanning
      BY <2>1 DEF CursorInv, TypeOK
    <3>2. PICK last \in 2 .. start : \E F \in SUBSET (2 .. last) :
            Way(F, last) /\ IsField(last) /\ Skipped(last + 2) = start /\ pos \in F
      BY <3>1 DEF Rescanning
    <3>3. PICK F \in SUBSET (2 .. last) :
            Way(F, last) /\ IsField(last) /\ Skipped(last + 2) = start /\ pos \in F
      BY <3>2
    <3>4. last \in Nat /\ pos <= last /\ start # 0
      BY <3>1, <3>3
    <3>5. start > last + 2
      BY <3>1, <3>3, <3>4, BehindField
    <3>6. pos < start /\ (pos # last => pos < last)
      BY <3>1, <3>4, <3>5
    <3> QED
      BY <3>3, <3>6 DEF Way
  <2> QED
    BY <2>1 DEF AssumptionsHold, CursorInv
<1>2. Init => CursorInv
  BY CursorInit
<1>3. CursorInv /\ [Next]_vars => CursorInv'
  BY CursorStep
<1> QED
  BY <1>1, <1>2, <1>3, PTL DEF Spec

-----------------------------------------------------------------------------
(* The fields of a well-formed object.                                     *)

\* The depth at a token is a number,
LEMMA OpenAtInt ==
  ASSUME NEW p \in Int
  PROVE  OpenAt(p) \in Int
<1> DEFINE up == {q \in 1 .. p - 1 : Type(q) \in {"lbrace", "lbracket"}}
           down == {q \in 1 .. p - 1 : Type(q) \in {"rbrace", "rbracket"}}
<1>1. IsFiniteSet(1 .. p - 1)
  BY FS_Interval
<1>2. IsFiniteSet(up) /\ IsFiniteSet(down)
  BY <1>1, FS_Subset
<1>3. Cardinality(up) \in Nat /\ Cardinality(down) \in Nat
  BY <1>2, FS_CardinalityType
<1>4. OpenAt(p) = Cardinality(up) - Cardinality(down)
  BY DEF OpenAt
<1> HIDE DEF up, down
<1> QED
  BY <1>3, <1>4

\* none at the first,
LEMMA OpenAtFirst == OpenAt(1) = 0
<1>1. 1 .. 1 - 1 = {}
  OBVIOUS
<1>2. OpenAt(1) = Cardinality({}) - Cardinality({})
  BY <1>1 DEF OpenAt
<1>3. Cardinality({}) = 0
  BY FS_EmptySet
<1> QED
  BY <1>2, <1>3

\* and from one token to the next it is what skip_child makes it.
LEMMA OpenAtNext ==
  ASSUME NEW p \in Nat, p # 0
  PROVE  OpenAt(p + 1) = Level(p, OpenAt(p))
<1> DEFINE up(r) == {q \in 1 .. r - 1 : Type(q) \in {"lbrace", "lbracket"}}
           down(r) == {q \in 1 .. r - 1 : Type(q) \in {"rbrace", "rbracket"}}
<1>1. IsFiniteSet(1 .. p - 1)
  BY FS_Interval
<1>2. IsFiniteSet(up(p)) /\ IsFiniteSet(down(p)) /\ p \notin up(p) /\ p \notin down(p)
  BY <1>1, FS_Subset
<1>3. /\ Cardinality(up(p)) \in Nat /\ Cardinality(down(p)) \in Nat
      /\ Cardinality(up(p) \cup {p}) = Cardinality(up(p)) + 1
      /\ Cardinality(down(p) \cup {p}) = Cardinality(down(p)) + 1
  <2> HIDE DEF up, down
  <2> QED
    BY <1>2, FS_CardinalityType, FS_AddElement
<1>4. 1 .. (p + 1) - 1 = (1 .. p - 1) \cup {p}
  OBVIOUS
<1>5. /\ up(p + 1) = IF Type(p) \in {"lbrace", "lbracket"} THEN up(p) \cup {p} ELSE up(p)
      /\ down(p + 1) = IF Type(p) \in {"rbrace", "rbracket"} THEN down(p) \cup {p} ELSE down(p)
  BY <1>4
<1>6. \A r : OpenAt(r) = Cardinality(up(r)) - Cardinality(down(r))
  BY DEF OpenAt
<1> HIDE DEF up, down
<1>10. PICK u \in Nat, d \in Nat :
         /\ u = Cardinality(up(p)) /\ d = Cardinality(down(p)) /\ OpenAt(p) = u - d
         /\ OpenAt(p + 1) = (IF Type(p) \in {"lbrace", "lbracket"} THEN u + 1 ELSE u)
                            - (IF Type(p) \in {"rbrace", "rbracket"} THEN d + 1 ELSE d)
  <2>1. /\ Cardinality(up(p + 1)) = IF Type(p) \in {"lbrace", "lbracket"}
                                    THEN Cardinality(up(p)) + 1 ELSE Cardinality(up(p))
        /\ Cardinality(down(p + 1)) = IF Type(p) \in {"rbrace", "rbracket"}
                                      THEN Cardinality(down(p)) + 1 ELSE Cardinality(down(p))
    BY <1>3, <1>5, Zenon
  <2> QED
    BY <1>3, <1>6, <2>1
<1>7. CASE Type(p) \in {"lbrace", "lbracket"}
  <2>1. ~(Type(p) \in {"rbrace", "rbracket"})
    BY <1>7
  <2>2. Level(p, OpenAt(p)) = OpenAt(p) + 1
    BY <1>7 DEF Level
  <2> QED
    BY <1>7, <1>10, <2>1, <2>2
<1>8. CASE ~(Type(p) \in {"lbrace", "lbracket"}) /\ Type(p) \in {"rbrace", "rbracket"}
  <2>1. Level(p, OpenAt(p)) = OpenAt(p) + (-1)
    BY <1>8 DEF Level
  <2> QED
    BY <1>8, <1>10, <2>1
<1>9. CASE ~(Type(p) \in {"lbrace", "lbracket"}) /\ ~(Type(p) \in {"rbrace", "rbracket"})
  <2>1. Level(p, OpenAt(p)) = OpenAt(p) + 0
    BY <1>9 DEF Level
  <2> QED
    BY <1>9, <1>10, <2>1
<1> QED
  BY <1>7, <1>8, <1>9

\* A deeper token closes what is open when the next one is not.
LEMMA Closes ==
  ASSUME NEW p \in Nat, p # 0, OpenAt(p) > 1, ~(OpenAt(p + 1) > 1)
  PROVE  Type(p) \in {"rbrace", "rbracket"}
<1>1. OpenAt(p) \in Int /\ OpenAt(p + 1) = Level(p, OpenAt(p))
  BY OpenAtInt, OpenAtNext
<1>2. Type(p) \in {"lbrace", "lbracket"} => Level(p, OpenAt(p)) = OpenAt(p) + 1
  BY DEF Level
<1>3. Type(p) \notin {"lbrace", "lbracket", "rbrace", "rbracket"} =>
        Level(p, OpenAt(p)) = OpenAt(p) + 0
  BY DEF Level
<1> QED
  BY <1>1, <1>2, <1>3

\* SkipRest, begun at the depth of its token, ends where the value does.
LEMMA SkipRestEnds ==
  ASSUME tokens \in Seq(Tokens), NEW p \in Nat, p # 0, NEW q \in p + 1 .. Len(tokens),
         OpenAt(q) = 1, \A r \in p .. q - 1 : OpenAt(r) > 1
  PROVE  SkipRest(p, OpenAt(p)) = q
<1> DEFINE n == Len(tokens)
<1>1. n \in Nat /\ p \in 1 .. n + 1 /\ OpenAt(p) \in Int /\ q \in Nat
  BY OpenAtInt
<1>2. PICK f :
        /\ SkipRest(p, OpenAt(p)) = f[p][OpenAt(p)]
        /\ \A r \in p .. n + 1 : \A e \in Int :
             f[r][e] = IF r > n THEN 0
                       ELSE IF Type(r) \in {"rbrace", "rbracket"} /\ Level(r, e) <= 1 THEN r + 1
                       ELSE f[r + 1][Level(r, e)]
  BY <1>1, SkipRestEquation
<1>3. ASSUME NEW r \in p .. q - 1
      PROVE  f[r][OpenAt(r)] = IF Type(r) \in {"rbrace", "rbracket"} /\ OpenAt(r + 1) <= 1 THEN r + 1
                               ELSE f[r + 1][OpenAt(r + 1)]
  <2>1. r \in p .. n + 1 /\ ~(r > n) /\ r \in Nat /\ r # 0
    BY <1>1
  <2>2. OpenAt(r) \in Int /\ Level(r, OpenAt(r)) = OpenAt(r + 1)
    BY <2>1, OpenAtInt, OpenAtNext
  <2> QED
    BY <1>2, <2>1, <2>2
<1> DEFINE T == {r \in 1 .. q - 1 : r >= p => f[r][OpenAt(r)] = q}
<1>4. q - 1 \in T
  <2>1. PICK r : r = q - 1
    OBVIOUS
  <2>2. r \in p .. q - 1 /\ r \in Nat /\ r # 0 /\ r + 1 = q
    BY <1>1, <2>1
  <2>3. Type(r) \in {"rbrace", "rbracket"}
    BY <2>2, Closes
  <2>4. f[r][OpenAt(r)] = q
    BY <1>3, <2>2, <2>3
  <2> QED
    BY <1>1, <2>1, <2>4
<1>5. ASSUME NEW r \in 1 .. q - 2, r + 1 \in T PROVE r \in T
  <2> SUFFICES ASSUME r >= p PROVE f[r][OpenAt(r)] = q
    BY <1>1
  <2>1. r \in p .. q - 1 /\ r + 1 \in p .. q - 1
    BY <1>1
  <2>2. OpenAt(r + 1) > 1 /\ OpenAt(r + 1) \in Int
    <3>1. r + 1 \in Int
      BY <1>1
    <3> QED
      BY <2>1, <3>1, OpenAtInt
  <2>3. f[r][OpenAt(r)] = f[r + 1][OpenAt(r + 1)]
    BY <1>3, <2>1, <2>2
  <2>4. f[r + 1][OpenAt(r + 1)] = q
    BY <1>5, <2>1
  <2> QED
    BY <2>3, <2>4
<1> HIDE DEF T
<1>6. p \in T
  <2>1. PICK m : m = q - 2
    OBVIOUS
  <2>2. /\ m \in Nat /\ p \in 1 .. m + 1 /\ m + 1 = q - 1
        /\ \A r \in 1 .. m : r + 1 \in T => r \in T
    BY <1>1, <1>5, <2>1
  <2>3. m + 1 \in T
    BY <1>4, <2>2
  <2>4. \A r \in 1 .. m + 1 : r \in T
    BY <2>2, <2>3, StepDown
  <2> QED
    BY <2>2, <2>4
<1> QED
  BY <1>1, <1>2, <1>6 DEF T

\* What a field at f is followed by at q: the next field or the end of the object,
\* and that is where the search comes to.
Behind(f, q) ==
  /\ Skipped(f + 2) = q /\ f + 2 < q /\ q <= Len(tokens)
  /\ \/ Type(q) = "comma" /\ q + 1 \in Fields
     \/ Type(q) = "rbrace" /\ q = Len(tokens)
  /\ Type(f + 2) \in {"string", "int"} => q = f + 3
  /\ \A g \in Fields : f < g => q < g

\* Depths do not change where there are no braces.
LEMMA Flat ==
  ASSUME NEW p \in Nat, p # 0, Type(p) \notin {"lbrace", "lbracket", "rbrace", "rbracket"}
  PROVE  OpenAt(p + 1) = OpenAt(p)
<1>1. OpenAt(p) \in Int /\ OpenAt(p + 1) = Level(p, OpenAt(p))
  BY OpenAtInt, OpenAtNext
<1>2. Level(p, OpenAt(p)) = OpenAt(p) + 0
  BY DEF Level
<1> QED
  BY <1>1, <1>2

\* A value ends where the next field begins, or the object ends.
LEMMA FieldEnds ==
  ASSUME tokens \in Seq(Tokens), IsObject, NEW f \in Fields
  PROVE  IsField(f) /\ \E q \in Nat : Behind(f, q)
<1>1. /\ f \in Nat /\ 2 <= f /\ Len(tokens) \in Nat /\ OpenAt(f) = 1
      /\ Type(f) = "string" /\ Type(f + 1) = "colon"
      /\ Type(f + 2) \in {"string", "int", "lbrace", "lbracket"}
  BY DEF IsObject, Fields, IsField
<1>2. PICK q \in f + 3 .. Len(tokens) :
        EndsBefore(f + 2, q) /\ Type(q) \in {"comma", "rbrace"}
  BY DEF IsObject
<1>3. OpenAt(q) = 1 /\ \A r \in f + 3 .. q - 1 : OpenAt(r) > 1
  <2>1. (f + 2) + 1 = f + 3
    BY <1>1
  <2> QED
    BY <1>2, <2>1 DEF EndsBefore
<1>4. q \in Nat /\ f + 3 <= q /\ q <= Len(tokens)
  BY <1>1
<1>5. OpenAt(f + 2) = 1
  <2>1. OpenAt(f + 1) = 1
    BY <1>1, Flat
  <2>2. PICK m \in Nat : m = f + 1
    BY <1>1
  <2>3. OpenAt(m + 1) = OpenAt(m) /\ m + 1 = f + 2
    BY <1>1, <2>2, Flat
  <2> QED
    BY <2>1, <2>2, <2>3
<1>6. PICK v \in Nat : v = f + 2
  BY <1>1
<1>7. v + 1 = f + 3 /\ v # 0 /\ OpenAt(v) = 1
  BY <1>1, <1>5, <1>6
<1>8. PICK e \in Nat : e = q - 1
  BY <1>1, <1>4
<1>9. Skipped(v) = q /\ Type(e) # "comma" /\ (Type(v) \in {"string", "int"} => q = f + 3)
  <2>1. CASE Type(v) \in {"string", "int"}
    <3>1. OpenAt(f + 3) = 1
      BY <1>7, <2>1, Flat
    <3>2. q = f + 3 /\ e = v
      BY <1>1, <1>3, <1>4, <1>6, <1>8, <3>1
    <3>3. Type(v + 1) # "colon"
      BY <1>2, <1>7, <3>2
    <3>4. Skipped(v) = v + 1
      BY <2>1, <3>3 DEF Skipped
    <3> QED
      BY <1>7, <2>1, <3>2, <3>4
  <2>2. CASE Type(v) \in {"lbrace", "lbracket"}
    <3>1. OpenAt(f + 3) = 2
      <4>1. Level(v, OpenAt(v)) = OpenAt(v) + 1
        BY <2>2 DEF Level
      <4> QED
        BY <1>7, <4>1, OpenAtNext
    <3>2. PICK w \in Nat : w = v + 1
      BY <1>6
    <3>3. w # 0 /\ OpenAt(w) = 2 /\ q \in w + 1 .. Len(tokens)
      BY <1>1, <1>3, <1>4, <1>7, <3>1, <3>2
    <3>4. \A r \in w .. q - 1 : OpenAt(r) > 1
      BY <1>3, <1>7, <3>2
    <3>5. SkipRest(w, OpenAt(w)) = q
      BY <1>3, <3>3, <3>4, SkipRestEnds
    <3>6. Skipped(v) = SkipRest(w, 2)
      BY <2>2, <3>2 DEF Skipped
    <3>7. e # 0 /\ e + 1 = q /\ OpenAt(e) > 1
      BY <1>4, <1>8, <3>3, <3>4
    <3>8. Type(e) \in {"rbrace", "rbracket"}
      BY <1>3, <3>7, Closes
    <3> QED
      BY <2>2, <3>3, <3>5, <3>6, <3>8
  <2> QED
    BY <1>1, <1>6, <2>1, <2>2
<1>10. \A p \in 2 .. Len(tokens) : OpenAt(p) > 0
  BY DEF IsObject
<1>11. \/ Type(q) = "comma" /\ q + 1 \in Fields
       \/ Type(q) = "rbrace" /\ q = Len(tokens)
  <2>1. CASE Type(q) = "comma"
    <3>1. OpenAt(q + 1) = 1
      BY <1>3, <1>4, <1>1, <2>1, Flat
    <3>2. q # Len(tokens)
      BY <2>1 DEF IsObject
    <3>3. PICK m : m = q + 1
      OBVIOUS
    <3>4. m \in 2 .. Len(tokens) /\ m # 2 /\ m - 1 = q /\ OpenAt(m) = 1
      BY <1>1, <1>4, <3>1, <3>2, <3>3
    <3>5. m \in Fields
      BY <2>1, <3>4 DEF Fields
    <3> QED
      BY <2>1, <3>3, <3>5
  <2>2. CASE Type(q) = "rbrace"
    <3>1. Level(q, OpenAt(q)) = OpenAt(q) + (-1)
      BY <2>2 DEF Level
    <3>2. OpenAt(q + 1) = 0
      BY <1>1, <1>3, <1>4, <3>1, OpenAtNext
    <3>3. ~(q + 1 \in 2 .. Len(tokens))
      BY <1>10, <3>2
    <3> QED
      BY <1>1, <1>4, <2>2, <3>3
  <2> QED
    BY <1>2, <2>1, <2>2
<1>12. ASSUME NEW g \in Fields, f < g PROVE q < g
  <2>1. g \in Nat /\ g # 2 /\ OpenAt(g) = 1 /\ Type(g - 1) = "comma"
    BY <1>1, <1>12 DEF Fields
  <2>2. PICK h : h = g - 1
    OBVIOUS
  <2>3. Type(h) = "comma"
    BY <2>1, <2>2
  <2>4. h # f /\ h # f + 1 /\ h # e
    BY <1>1, <1>9, <2>3
  <2>5. ~(g \in f + 3 .. q - 1)
    BY <1>3, <2>1
  <2> QED
    BY <1>1, <1>4, <1>8, <1>12, <2>1, <2>2, <2>4, <2>5
<1>13. Behind(f, q)
  <2>1. Type(f + 2) \in {"string", "int"} => q = f + 3
    BY <1>6, <1>9
  <2>2. Skipped(f + 2) = q
    BY <1>6, <1>9
  <2>3. f + 2 < q
    BY <1>1, <1>4
  <2> QED
    BY <1>4, <1>11, <1>12, <2>1, <2>2, <2>3 DEF Behind
<1> QED
  BY <1>1, <1>4, <1>13 DEF IsField

\* The first field follows the opening brace, in an object that has any.
LEMMA FirstField ==
  ASSUME tokens \in Seq(Tokens), tokens # <<>>, IsObject
  PROVE  IF Type(2) = "rbrace" THEN Fields = {} ELSE 2 \in Fields
<1>1. /\ Type(1) = "lbrace" /\ Type(Len(tokens)) = "rbrace" /\ Len(tokens) \in Nat
      /\ \A p \in 2 .. Len(tokens) : OpenAt(p) > 0
  BY DEF IsObject
<1>2. OpenAt(2) = 1
  <2>1. PICK p \in Nat : p = 1
    OBVIOUS
  <2>2. Level(p, OpenAt(p)) = OpenAt(p) + 1
    BY <1>1, <2>1 DEF Level
  <2>3. OpenAt(p) = 0 /\ OpenAt(p + 1) = Level(p, OpenAt(p)) /\ p + 1 = 2
    BY <2>1, OpenAtFirst, OpenAtNext
  <2> QED
    BY <2>2, <2>3
<1>3. CASE Type(2) = "rbrace"
  <2>1. PICK p \in Nat : p = 2
    OBVIOUS
  <2>2. Level(p, OpenAt(p)) = OpenAt(p) + (-1)
    BY <1>3, <2>1 DEF Level
  <2>3. OpenAt(p + 1) = Level(p, OpenAt(p)) /\ p + 1 = 3
    BY <2>1, OpenAtNext
  <2>4. OpenAt(3) = 0
    BY <1>2, <2>1, <2>2, <2>3
  <2>5. Len(tokens) < 3
    BY <1>1, <2>4
  <2>6. ASSUME NEW f \in Fields PROVE FALSE
    <3>1. f = 2
      BY <1>1, <2>5 DEF Fields
    <3> QED
      BY <1>3, <3>1 DEF Fields
  <2> QED
    BY <1>3, <2>6
<1>4. CASE Type(2) # "rbrace"
  <2>1. 2 \in 2 .. Len(tokens)
    BY <1>1
  <2> QED
    BY <1>2, <1>4, <2>1 DEF Fields
<1> QED
  BY <1>3, <1>4

-----------------------------------------------------------------------------
(* The lookups in a well-formed object.                                    *)

\* The value that was read last, the fields that the next member may be read from
\* and the one that it is to be read from.
From    == LastRead(Len(values))
Wanted  == FieldsOf(Member.key)
Due     == Expected(Len(values) + 1, From)
DueType == Type(Due + 2)

\* What ReadsOwnField says of the values,
Found ==
  \A i \in DOMAIN values :
    /\ FieldsOf(body[i].key) # {} /\ values[i] = Expected(i, LastRead(i - 1)) + 2
    /\ Type(values[i]) = body[i].type
\* and of a refusal;
Refused ==
  pc = "threw" =>
    /\ error = IF Wanted = {} THEN "NO_SUCH_FIELD" ELSE "INCORRECT_TYPE"
    /\ error = "INCORRECT_TYPE" => DueType # Member.type

\* the last value is that of a field,
Left == values = <<>> \/ \E f \in Fields : From = f + 2 /\ Type(From) \in {"string", "int"}
\* a search begins at the root or behind that value,
Begins == pc = "search" => IF pos = 1 THEN values = <<>> ELSE values # <<>> /\ pos = From + 1
\* the first scan has passed no field of the member since,
Scans ==
  pc = "scan" =>
    /\ pos \in Fields /\ From < pos /\ \A g \in Wanted : g <= From \/ pos <= g
    /\ IF at_first THEN values = <<>> ELSE values # <<>> /\ start = From + 1
\* the second neither, when there was none up to the end,
Rescans ==
  pc = "rescan" =>
    /\ values # <<>> /\ start = From + 1 /\ pos \in Fields /\ pos < start
    /\ \A g \in Wanted : pos <= g /\ g <= From
\* and the value that is read is the one it should be.
ReadsDue == pc = "read" => \E f \in Wanted : f = Due /\ pos = f + 2

OwnInv == TypeOK /\ (IsObject => Found /\ Refused /\ Left /\ Begins /\ Scans /\ Rescans /\ ReadsDue)

\* Well-formedness and what is due speak of the document and the body only,
LEMMA SameObject ==
  ASSUME UNCHANGED <<tokens, body>>
  PROVE  /\ IsObject' <=> IsObject
         /\ Fields' = Fields
         /\ \A key : FieldsOf(key)' = FieldsOf(key)
         /\ \A i, from : Expected(i, from)' = Expected(i, from)
<1>1. \A p : Tok(p)' = Tok(p) /\ Type(p)' = Type(p) /\ (IsField(p)' <=> IsField(p))
  BY DEF Tok, Type, IsField
<1>2. \A p : OpenAt(p)' = OpenAt(p)
  BY <1>1 DEF OpenAt
<1>3. \A p, q : EndsBefore(p, q)' <=> EndsBefore(p, q)
  BY <1>2 DEF EndsBefore
<1>4. Fields' = Fields
  BY <1>1, <1>2 DEF Fields
<1>5. IsObject' <=> IsObject
  BY <1>1, <1>2, <1>3, <1>4 DEF IsObject
<1>6. \A key : FieldsOf(key)' = FieldsOf(key)
  BY <1>1, <1>4 DEF FieldsOf
<1>7. \A i, from : Expected(i, from)' = Expected(i, from)
  BY <1>6 DEF Expected
<1> QED
  BY <1>4, <1>5, <1>6, <1>7

\* and while the values stay, not what the search is for.
LEMMA SameSearch ==
  ASSUME UNCHANGED <<tokens, body, values>>
  PROVE  /\ IsObject' <=> IsObject
         /\ Fields' = Fields /\ Wanted' = Wanted /\ From' = From /\ Due' = Due
         /\ DueType' = DueType /\ Member' = Member
         /\ (Found' <=> Found) /\ (Left' <=> Left)
<1>1. /\ IsObject' <=> IsObject
      /\ Fields' = Fields
      /\ \A key : FieldsOf(key)' = FieldsOf(key)
      /\ \A i, from : Expected(i, from)' = Expected(i, from)
  BY SameObject
<1>2. Member' = Member /\ From' = From
  BY DEF Member, From, LastRead
<1>3. Wanted' = Wanted
  BY <1>1, <1>2 DEF Wanted
<1>4. Due' = Due
  BY <1>1, <1>2 DEF Due
<1>5. \A p : Type(p)' = Type(p)
  BY SameDocument
<1>6. DueType' = DueType
  BY <1>4 DEF DueType, Type, Tok
<1>7. \A i : LastRead(i)' = LastRead(i)
  BY DEF LastRead
<1>8. Found' <=> Found
  BY <1>1, <1>5, <1>7 DEF Found
<1>9. Left' <=> Left
  BY <1>1, <1>2, <1>5 DEF Left
<1> QED
  BY <1>1, <1>2, <1>3, <1>4, <1>6, <1>8, <1>9

\* The fields of the next member, and the place of the last value, are numbers.
LEMMA WantedFacts ==
  ASSUME TypeOK
  PROVE  /\ tokens \in Seq(Tokens) /\ tokens # <<>> /\ Len(tokens) \in Nat
         /\ \A g \in Wanted : g \in Fields /\ g \in Nat
         /\ \A g \in Fields : g \in Nat /\ 2 <= g /\ g <= Len(tokens)
         /\ From \in Nat /\ Len(values) \in Nat /\ Len(body) \in Nat
         /\ pos \in Nat /\ start \in Nat /\ (values = <<>> => From = 0 /\ Len(values) = 0)
<1>1. /\ tokens \in Seq(Tokens) /\ tokens # <<>> /\ Len(tokens) \in Nat
      /\ values \in Seq(Nat) /\ Len(values) \in Nat /\ Len(body) \in Nat
      /\ pos \in Nat /\ start \in Nat
  BY DEF TypeOK
<1>2. \A g \in Fields : g \in Nat /\ 2 <= g /\ g <= Len(tokens)
  BY <1>1 DEF Fields
<1>3. Wanted \in SUBSET Fields
  BY DEF Wanted, FieldsOf
<1>4. From \in Nat
  <2>1. CASE Len(values) = 0
    BY <2>1 DEF From, LastRead
  <2>2. CASE Len(values) # 0
    <3>1. values[Len(values)] \in Nat
      BY <1>1, <2>2
    <3> QED
      BY <2>2, <3>1 DEF From, LastRead
  <2> QED
    BY <2>1, <2>2
<1>5. values = <<>> => Len(values) = 0 /\ From = 0
  BY <1>1 DEF From, LastRead
<1> QED
  BY <1>1, <1>2, <1>3, <1>4, <1>5

\* What Due is made of.
LEMMA DueEquation ==
  Due = IF {g \in Wanted : g > From} # {} THEN Min({g \in Wanted : g > From}) ELSE Min(Wanted)
BY DEF Due, Expected, Wanted, Member

\* The first field behind the last value is due;
LEMMA DueLater ==
  ASSUME TypeOK, NEW f \in Wanted, From < f, \A g \in Wanted : g <= From \/ f <= g
  PROVE  f = Due
<1> DEFINE L == {g \in Wanted : g > From}
<1>1. From \in Nat /\ \A g \in Wanted : g \in Nat
  BY WantedFacts
<1>2. L \in SUBSET Nat /\ L # {} /\ f \in L
  BY <1>1
<1>3. \A g \in L : f <= g
  BY <1>1
<1>4. Due = Min(L)
  BY <1>2, DueEquation
<1> HIDE DEF L
<1>5. Min(L) \in L /\ Min(L) <= f
  BY <1>2, MinFacts
<1>6. Min(L) \in Nat /\ f \in Nat /\ f <= Min(L)
  BY <1>1, <1>2, <1>3, <1>5
<1> QED
  BY <1>4, <1>5, <1>6

\* and if there is none, the first one.
LEMMA DueFirst ==
  ASSUME TypeOK, NEW f \in Wanted, \A g \in Wanted : f <= g /\ g <= From
  PROVE  f = Due
<1>1. Wanted \in SUBSET Nat /\ Wanted # {} /\ From \in Nat /\ \A g \in Wanted : g \in Nat
  BY WantedFacts
<1>2. {g \in Wanted : g > From} = {}
  <2>1. \A g \in Wanted : ~(g > From)
    BY <1>1
  <2> QED
    BY <2>1
<1>3. Due = Min(Wanted)
  BY <1>2, DueEquation
<1>4. Min(Wanted) \in Wanted /\ Min(Wanted) <= f
  BY <1>1, MinFacts
<1>5. Min(Wanted) \in Nat /\ f \in Nat /\ f <= Min(Wanted)
  BY <1>1, <1>4
<1> QED
  BY <1>3, <1>4, <1>5


\* A field is behind the one at the cursor, or is that, or has been passed.
LEMMA AtField ==
  ASSUME TypeOK, IsObject, pos \in Fields
  PROVE  /\ IsField(pos) /\ (Matches(pos) <=> pos \in Wanted)
         /\ \E q \in Nat : Behind(pos, q)
<1>1. tokens \in Seq(Tokens)
  BY WantedFacts
<1>2. IsField(pos) /\ \E q \in Nat : Behind(pos, q)
  BY <1>1, FieldEnds
<1>3. Matches(pos) <=> pos \in Wanted
  BY DEF Matches, Wanted, FieldsOf
<1> QED
  BY <1>2, <1>3

\* The invariant after a step that leaves the values alone.
LEMMA SearchGoesOn ==
  ASSUME OwnInv, IsObject, TypeOK', UNCHANGED <<tokens, body, values>>,
         Refused', Begins', Scans', Rescans', ReadsDue'
  PROVE  OwnInv'
BY SameSearch DEF OwnInv

\* An object is opened.
LEMMA OpenOwn ==
  ASSUME OwnInv, IsObject, TypeOK', OpenObject
  PROVE  OwnInv'
<1>1. /\ pc = "search" /\ pos = 1 /\ UNCHANGED <<tokens, body, values>> /\ values = <<>>
      /\ Type(1) = "lbrace" /\ Type(Len(tokens)) = "rbrace" /\ TypeOK
  BY DEF OpenObject, OwnInv, IsObject, Begins
<1>2. /\ Wanted' = Wanted /\ From' = From /\ Fields' = Fields /\ Member' = Member
  BY <1>1, SameSearch
<1>3. From = 0 /\ \A g \in Wanted : g \in Fields /\ g \in Nat /\ 2 <= g
  BY <1>1, WantedFacts
<1>4. CASE Type(2) = "rbrace"
  <2>1. pc' = "threw" /\ error' = "NO_SUCH_FIELD"
    BY <1>1, <1>4 DEF OpenObject, Throw
  <2>2. Fields = {}
    BY <1>1, <1>4, FirstField DEF TypeOK
  <2>3. Wanted = {}
    BY <1>3, <2>2
  <2>4. Refused'
    BY <1>2, <2>1, <2>3 DEF Refused
  <2> QED
    BY <1>1, <2>1, <2>4, SearchGoesOn DEF Begins, Scans, Rescans, ReadsDue
<1>5. CASE Type(2) # "rbrace"
  <2>1. pc' = "scan" /\ pos' = 2 /\ at_first'
    BY <1>1, <1>5 DEF OpenObject, Continue
  <2>2. 2 \in Fields
    BY <1>1, <1>5, FirstField DEF TypeOK
  <2>3. Scans'
    BY <1>1, <1>2, <1>3, <2>1, <2>2 DEF Scans
  <2> QED
    BY <1>1, <2>1, <2>3, SearchGoesOn DEF Begins, Refused, Rescans, ReadsDue
<1> QED
  BY <1>4, <1>5

\* Behind a value the object goes on or ends.
LEMMA ResumeOwn ==
  ASSUME OwnInv, IsObject, TypeOK', ResumeObject
  PROVE  OwnInv'
<1>1. /\ pc = "search" /\ pos > 1 /\ UNCHANGED <<tokens, body, values>> /\ TypeOK /\ Left
      /\ IF pos = 1 THEN values = <<>> ELSE values # <<>> /\ pos = From + 1
  BY DEF ResumeObject, OwnInv, Begins
<1>2. /\ Wanted' = Wanted /\ From' = From /\ Fields' = Fields
  BY <1>1, SameSearch
<1>3. /\ pos \in Nat /\ From \in Nat /\ \A g \in Wanted : g \in Fields /\ g \in Nat
      /\ \A g \in Fields : g \in Nat /\ 2 <= g /\ g <= Len(tokens)
      /\ tokens \in Seq(Tokens) /\ tokens # <<>> /\ Len(tokens) \in Nat
  BY <1>1, WantedFacts
<1>4. values # <<>> /\ pos = From + 1
  BY <1>1, <1>3
<1>5. PICK f \in Fields : From = f + 2 /\ Type(From) \in {"string", "int"}
  BY <1>1, <1>4 DEF Left
<1>6. PICK q \in Nat : Behind(f, q)
  BY <1>3, FieldEnds
<1>7. q = pos
  BY <1>3, <1>4, <1>5, <1>6 DEF Behind
<1>8. CASE Type(pos) = "comma"
  <2>1. pc' = "scan" /\ pos' = pos + 1 /\ start' = pos /\ at_first' = FALSE
    BY <1>1, <1>8 DEF ResumeObject, Continue
  <2>2. pos + 1 \in Fields /\ \A g \in Fields : f < g => pos < g
    BY <1>6, <1>7, <1>8 DEF Behind
  <2>3. \A g \in Wanted : g <= From \/ pos + 1 <= g
    BY <1>3, <1>5, <2>2
  <2>4. Scans'
    BY <1>1, <1>2, <1>3, <1>4, <2>1, <2>2, <2>3 DEF Scans
  <2> QED
    BY <1>1, <2>1, <2>4, SearchGoesOn DEF Begins, Refused, Rescans, ReadsDue
<1>9. CASE Type(pos) = "rbrace"
  <2>1. pc' = "rescan" /\ pos' = 2 /\ start' = pos /\ at_first' = FALSE
    BY <1>1, <1>9 DEF ResumeObject, Continue
  <2>2. 2 \in Fields
    BY <1>1, <1>3, FirstField
  <2>3. \A g \in Wanted : 2 <= g /\ g <= From
    BY <1>3, <1>5, <1>6, <1>7, <1>9 DEF Behind
  <2>4. 2 < pos
    BY <1>3, <1>4, <1>5
  <2>5. Rescans'
    BY <1>1, <1>2, <1>4, <2>1, <2>2, <2>3, <2>4 DEF Rescans
  <2> QED
    BY <1>1, <2>1, <2>5, SearchGoesOn DEF Begins, Refused, Scans, ReadsDue
<1> QED
  BY <1>6, <1>7, <1>8, <1>9 DEF Behind

\* A field is the one that is due, or is passed.
LEMMA ScanOwn ==
  ASSUME OwnInv, IsObject, TypeOK', ScanField
  PROVE  OwnInv'
<1>1. /\ pc = "scan" /\ UNCHANGED <<tokens, body, values>> /\ TypeOK /\ Left
      /\ pos \in Fields /\ From < pos /\ \A g \in Wanted : g <= From \/ pos <= g
      /\ IF at_first THEN values = <<>> ELSE values # <<>> /\ start = From + 1
  BY DEF ScanField, OwnInv, Scans
<1>2. /\ Wanted' = Wanted /\ From' = From /\ Fields' = Fields /\ Due' = Due
  BY <1>1, SameSearch
<1>3. /\ pos \in Nat /\ From \in Nat /\ \A g \in Wanted : g \in Fields /\ g \in Nat
      /\ \A g \in Fields : g \in Nat /\ 2 <= g /\ g <= Len(tokens)
      /\ tokens \in Seq(Tokens) /\ tokens # <<>> /\ Len(tokens) \in Nat
      /\ (values = <<>> => From = 0)
  BY <1>1, WantedFacts
<1>4. IsField(pos) /\ (Matches(pos) <=> pos \in Wanted)
  BY <1>1, AtField
<1>5. PICK q \in Nat : Behind(pos, q)
  BY <1>1, AtField
<1>6. /\ Skipped(pos + 2) = q /\ q # 0 /\ pos + 2 < q /\ q <= Len(tokens)
      /\ \A g \in Fields : pos < g => q < g
      /\ \/ Type(q) = "comma" /\ q + 1 \in Fields
         \/ Type(q) = "rbrace" /\ q = Len(tokens)
  BY <1>3, <1>5 DEF Behind
<1>7. CASE Matches(pos)
  <2>1. pc' = "read" /\ pos' = pos + 2
    BY <1>1, <1>4, <1>7 DEF ScanField, Continue
  <2>2. pos \in Wanted /\ pos = Due
    BY <1>1, <1>4, <1>7, DueLater
  <2>3. ReadsDue'
    BY <1>2, <2>1, <2>2 DEF ReadsDue
  <2> QED
    BY <1>1, <2>1, <2>3, SearchGoesOn DEF Begins, Refused, Scans, Rescans
<1>8. CASE ~Matches(pos) /\ Type(q) = "comma"
  <2>1. pc' = "scan" /\ pos' = q + 1 /\ UNCHANGED <<start, at_first>>
    BY <1>1, <1>4, <1>6, <1>8 DEF ScanField, NextField, Continue
  <2>2. \A g \in Wanted : g <= From \/ q + 1 <= g
    BY <1>1, <1>3, <1>4, <1>6, <1>8
  <2>3. From < q + 1 /\ q + 1 \in Fields
    BY <1>1, <1>3, <1>6, <1>8
  <2>4. Scans'
    BY <1>1, <1>2, <2>1, <2>2, <2>3 DEF Scans
  <2> QED
    BY <1>1, <2>1, <2>4, SearchGoesOn DEF Begins, Refused, Rescans, ReadsDue
<1>9. CASE ~Matches(pos) /\ Type(q) = "rbrace" /\ q = Len(tokens)
  <2>1. \A g \in Wanted : g <= From
    BY <1>1, <1>3, <1>4, <1>6, <1>9
  <2>2. CASE at_first
    <3>1. pc' = "threw" /\ error' = "NO_SUCH_FIELD"
      BY <1>1, <1>4, <1>6, <1>9, <2>2 DEF ScanField, NextField, EndOfObject, Throw
    <3>2. Wanted = {}
      BY <1>1, <1>3, <2>1, <2>2
    <3>3. Refused'
      BY <1>2, <3>1, <3>2 DEF Refused
    <3> QED
      BY <1>1, <3>1, <3>3, SearchGoesOn DEF Begins, Scans, Rescans, ReadsDue
  <2>3. CASE ~at_first
    <3>1. pc' = "rescan" /\ pos' = 2 /\ UNCHANGED <<start, at_first>>
      BY <1>1, <1>4, <1>6, <1>9, <2>3 DEF ScanField, NextField, EndOfObject, Continue
    <3>2. 2 \in Fields
      BY <1>1, <1>3, FirstField
    <3>3. 2 < start
      BY <1>1, <1>3, <2>3 DEF Left
    <3>4. \A g \in Wanted : 2 <= g /\ g <= From
      BY <1>3, <2>1
    <3>5. Rescans'
      BY <1>1, <1>2, <2>3, <3>1, <3>2, <3>3, <3>4 DEF Rescans
    <3> QED
      BY <1>1, <3>1, <3>5, SearchGoesOn DEF Begins, Refused, Scans, ReadsDue
  <2> QED
    BY <2>2, <2>3
<1> QED
  BY <1>6, <1>7, <1>8, <1>9

\* The second time too, up to the value that was read last.
LEMMA RescanOwn ==
  ASSUME OwnInv, IsObject, TypeOK', RescanField
  PROVE  OwnInv'
<1>1. /\ pc = "rescan" /\ UNCHANGED <<tokens, body, values>> /\ TypeOK /\ Left
      /\ values # <<>> /\ start = From + 1 /\ pos \in Fields /\ pos < start
      /\ \A g \in Wanted : pos <= g /\ g <= From
  BY DEF RescanField, OwnInv, Rescans
<1>2. /\ Wanted' = Wanted /\ From' = From /\ Fields' = Fields /\ Due' = Due
  BY <1>1, SameSearch
<1>3. /\ pos \in Nat /\ From \in Nat /\ \A g \in Wanted : g \in Fields /\ g \in Nat
      /\ \A g \in Fields : g \in Nat /\ 2 <= g /\ g <= Len(tokens)
      /\ tokens \in Seq(Tokens) /\ Len(tokens) \in Nat
  BY <1>1, WantedFacts
<1>4. IsField(pos) /\ (Matches(pos) <=> pos \in Wanted)
  BY <1>1, AtField
<1>5. PICK q \in Nat : Behind(pos, q)
  BY <1>1, AtField
<1>6. /\ Skipped(pos + 2) = q /\ q # 0 /\ pos + 2 < q /\ q <= Len(tokens)
      /\ \A g \in Fields : pos < g => q < g
      /\ \/ Type(q) = "comma" /\ q + 1 \in Fields
         \/ Type(q) = "rbrace" /\ q = Len(tokens)
  BY <1>3, <1>5 DEF Behind
<1>7. PICK f \in Fields : From = f + 2 /\ Type(From) \in {"string", "int"}
  BY <1>1 DEF Left
<1>8. f \in Nat /\ start = f + 3 /\ \A g \in Fields : f < g => f + 3 < g
  <2>1. PICK r \in Nat : Behind(f, r)
    BY <1>3, FieldEnds
  <2>2. r = f + 3 /\ \A g \in Fields : f < g => r < g
    BY <1>7, <2>1 DEF Behind
  <2> QED
    BY <1>1, <1>3, <1>7, <2>2
<1>9. CASE Matches(pos)
  <2>1. pc' = "read" /\ pos' = pos + 2
    BY <1>1, <1>4, <1>9 DEF RescanField, Continue
  <2>2. pos \in Wanted /\ pos = Due
    BY <1>1, <1>4, <1>9, DueFirst
  <2>3. ReadsDue'
    BY <1>2, <2>1, <2>2 DEF ReadsDue
  <2> QED
    BY <1>1, <2>1, <2>3, SearchGoesOn DEF Begins, Refused, Scans, Rescans
<1>10. CASE ~Matches(pos) /\ q = start
  <2>1. pc' = "threw" /\ error' = "NO_SUCH_FIELD"
    BY <1>1, <1>4, <1>6, <1>10 DEF RescanField, Throw
  <2>2. Wanted = {}
    BY <1>1, <1>3, <1>4, <1>6, <1>10
  <2>3. Refused'
    BY <1>2, <2>1, <2>2 DEF Refused
  <2> QED
    BY <1>1, <2>1, <2>3, SearchGoesOn DEF Begins, Scans, Rescans, ReadsDue
<1>11. CASE ~Matches(pos) /\ q # start
  <2>1. pc' = "rescan" /\ pos' = q + 1 /\ UNCHANGED <<start, at_first>>
    BY <1>1, <1>4, <1>6, <1>11 DEF RescanField, Continue
  <2>2. pos < f
    <3>1. pos # f
      <4>1. ASSUME pos = f PROVE FALSE
        <5>1. q = f + 3
          BY <1>5, <1>7, <4>1 DEF Behind
        <5> QED
          BY <1>8, <1>11, <5>1
      <4> QED
        BY <4>1
    <3>2. ~(f < pos)
      BY <1>1, <1>3, <1>8
    <3> QED
      BY <1>3, <1>8, <3>1, <3>2
  <2>3. q < f /\ f <= Len(tokens)
    BY <1>3, <1>6, <2>2
  <2>4. q + 1 \in Fields /\ q + 1 < start
    BY <1>3, <1>6, <1>8, <2>3
  <2>5. \A g \in Wanted : q + 1 <= g /\ g <= From
    BY <1>1, <1>3, <1>4, <1>6, <1>11
  <2>6. Rescans'
    BY <1>1, <1>2, <2>1, <2>4, <2>5 DEF Rescans
  <2> QED
    BY <1>1, <2>1, <2>6, SearchGoesOn DEF Begins, Refused, Scans, ReadsDue
<1> QED
  BY <1>9, <1>10, <1>11

\* A value of the member's type is its own.
LEMMA ReadOwn ==
  ASSUME OwnInv, IsObject, TypeOK', ReadValue
  PROVE  OwnInv'
<1>1. /\ pc = "read" /\ UNCHANGED <<tokens, body>> /\ TypeOK /\ Found /\ Left
      /\ Len(values) < Len(body) /\ body \in Seq(Members) /\ values \in Seq(Nat)
  BY DEF ReadValue, OwnInv, TypeOK
<1>2. PICK f \in Wanted : f = Due /\ pos = f + 2
  BY <1>1 DEF OwnInv, ReadsDue
<1>3. /\ pos \in Nat /\ Len(values) \in Nat /\ Len(body) \in Nat /\ f \in Fields
      /\ f \in Nat
  BY <1>1, <1>2, WantedFacts
<1>4. CASE Type(pos) # Member.type
  <2>1. pc' = "threw" /\ error' = "INCORRECT_TYPE" /\ UNCHANGED values
    BY <1>1, <1>4 DEF ReadValue, Throw
  <2>2. Wanted' = Wanted /\ DueType' = DueType /\ Member' = Member
    BY <1>1, <2>1, SameSearch
  <2>3. DueType = Type(pos)
    BY <1>2 DEF DueType
  <2>4. Refused'
    BY <1>2, <1>4, <2>1, <2>2, <2>3 DEF Refused
  <2> QED
    BY <1>1, <2>1, <2>4, SearchGoesOn DEF Begins, Scans, Rescans, ReadsDue
<1>5. CASE Type(pos) = Member.type
  <2>1. /\ values' = Append(values, pos) /\ pos' = pos + 1
        /\ pc' = "return" \/ pc' = "search"
    BY <1>1, <1>5 DEF ReadValue, Continue
  <2> DEFINE n == Len(values)
  <2>2. /\ n \in Nat /\ Len(values') = n + 1 /\ DOMAIN values' = 1 .. n + 1
        /\ values'[n + 1] = pos /\ \A i \in 1 .. n : values'[i] = values[i]
        /\ values' # <<>> /\ DOMAIN values = 1 .. n
    BY <1>1, <1>3, <2>1
  <2>3. From' = pos
    BY <2>2 DEF From, LastRead
  <2>4. Member = body[n + 1] /\ Member.type \in {"string", "int"}
    <3>1. n + 1 \in 1 .. Len(body)
      BY <1>1, <1>3
    <3>2. body[n + 1] \in Members
      BY <1>1, <3>1
    <3> QED
      BY <3>2 DEF Member, Members
  <2>5. /\ Fields' = Fields /\ (IsObject' <=> IsObject)
        /\ \A key : FieldsOf(key)' = FieldsOf(key)
        /\ \A i, from : Expected(i, from)' = Expected(i, from)
    BY <1>1, SameObject
  <2>6. \A p : Type(p)' = Type(p)
    BY <1>1, SameDocument
  <2>7. Left'
    <3>1. Type(From)' = Type(From')
      BY <1>1 DEF Type, Tok
    <3>2. Type(From)' \in {"string", "int"}
      BY <1>5, <2>3, <2>4, <3>1
    <3> QED
      BY <1>2, <1>3, <2>3, <2>5, <3>2 DEF Left
  <2>8. Begins'
    BY <1>2, <1>3, <2>1, <2>2, <2>3 DEF Begins
  <2>9. Found'
    <3> DEFINE was(i) == IF i - 1 = 0 THEN 0 ELSE values[i - 1]
    <3>1. \A i \in 1 .. n + 1 : LastRead(i - 1)' = was(i)
      <4>1. ASSUME NEW i \in 1 .. n + 1 PROVE LastRead(i - 1)' = was(i)
        <5>1. i - 1 = 0 \/ i - 1 \in 1 .. n
          BY <2>2
        <5> QED
          BY <2>2, <5>1 DEF LastRead
      <4> QED
        BY <4>1
    <3>2. ASSUME NEW i \in 1 .. n + 1
          PROVE  /\ FieldsOf(body[i].key) # {} /\ values'[i] = Expected(i, was(i)) + 2
                 /\ Type(values'[i]) = body[i].type
      <4>1. CASE i \in 1 .. n
        <5>1. LastRead(i - 1) = was(i)
          BY DEF LastRead
        <5> QED
          BY <1>1, <2>2, <4>1, <5>1 DEF Found
      <4>2. CASE i = n + 1
        <5>1. was(n + 1) = From
          <6>1. (n + 1) - 1 = n
            BY <2>2
          <6> QED
            BY <6>1 DEF From, LastRead
        <5>2. Due = Expected(n + 1, From) /\ Wanted = FieldsOf(body[n + 1].key)
          BY DEF Due, Wanted, Member
        <5> QED
          BY <1>2, <1>5, <2>2, <2>4, <4>2, <5>1, <5>2
      <4> QED
        BY <2>2, <4>1, <4>2
    <3> HIDE DEF n, was
    <3>3. \A i \in DOMAIN values' :
            /\ FieldsOf(body[i].key)' # {}
            /\ values'[i] = Expected(i, LastRead(i - 1))' + 2
            /\ Type(values[i])' = (body[i].type)'
      <4> SUFFICES ASSUME NEW i \in DOMAIN values'
                   PROVE  /\ FieldsOf(body[i].key)' # {}
                          /\ values'[i] = Expected(i, LastRead(i - 1))' + 2
                          /\ Type(values[i])' = (body[i].type)'
        OBVIOUS
      <4> QED
        BY <1>1, <2>2, <2>5, <2>6, <3>1, <3>2
    <3> QED
      BY <3>3 DEF Found
  <2> QED
    BY <2>1, <2>7, <2>8, <2>9 DEF OwnInv, Refused, Scans, Rescans, ReadsDue
<1> QED
  BY <1>4, <1>5

\* Every step keeps the invariant.
LEMMA OwnStep ==
  ASSUME OwnInv, [Next]_vars
  PROVE  OwnInv'
<1>1. TypeOK' /\ UNCHANGED <<tokens, body>>
  <2>1. TypeOK'
    BY TypeStep DEF OwnInv
  <2>2. UNCHANGED <<tokens, body>>
    BY DEF Next, OpenObject, ResumeObject, ScanField, RescanField, ReadValue, Return, RunTask, vars
  <2> QED
    BY <2>1, <2>2
<1>2. CASE ~IsObject
  <2>1. ~IsObject'
    BY <1>1, <1>2, SameObject
  <2> QED
    BY <1>1, <2>1 DEF OwnInv
<1>3. CASE IsObject
  <2>1. CASE OpenObject
    BY <1>1, <1>3, <2>1, OpenOwn
  <2>2. CASE ResumeObject
    BY <1>1, <1>3, <2>2, ResumeOwn
  <2>3. CASE ScanField
    BY <1>1, <1>3, <2>3, ScanOwn
  <2>4. CASE RescanField
    BY <1>1, <1>3, <2>4, RescanOwn
  <2>5. CASE ReadValue
    BY <1>1, <1>3, <2>5, ReadOwn
  <2>6. CASE Return \/ RunTask
    <3>1. pc' \in {"handler", "done"} /\ UNCHANGED <<tokens, body, values>>
      BY <2>6 DEF Return, RunTask
    <3> QED
      BY <1>1, <1>3, <3>1, SearchGoesOn DEF Refused, Begins, Scans, Rescans, ReadsDue
  <2>7. CASE UNCHANGED vars
    <3>1. UNCHANGED <<tokens, body, values, pc, pos, start, at_first, error>>
      BY <2>7 DEF vars, cursor
    <3>2. /\ Fields' = Fields /\ Wanted' = Wanted /\ From' = From /\ Due' = Due
          /\ DueType' = DueType /\ Member' = Member
      BY <3>1, SameSearch
    <3>3. Refused' /\ Begins' /\ Scans' /\ Rescans' /\ ReadsDue'
      BY <1>3, <3>1, <3>2 DEF OwnInv, Refused, Begins, Scans, Rescans, ReadsDue
    <3> QED
      BY <1>1, <1>3, <3>1, <3>3, SearchGoesOn
  <2> QED
    BY <2>1, <2>2, <2>3, <2>4, <2>5, <2>6, <2>7 DEF Next
<1> QED
  BY <1>2, <1>3

\* Of every well-formed object, of whatever length and depth, each member of any body
\* gets its own field, and is refused only when it has none or one of another type
\* (object_body, and find_field_unordered_raw with skip_child).
THEOREM OwnFieldIsRead == Spec => []ReadsOwnField
<1>1. Init => OwnInv
  <2> SUFFICES ASSUME Init PROVE OwnInv
    OBVIOUS
  <2>1. TypeOK /\ values = <<>> /\ pos = 1 /\ pc \in {"return", "search"}
    BY CursorInit DEF CursorInv, Init
  <2> QED
    BY <2>1 DEF OwnInv, Found, Refused, Left, Begins, Scans, Rescans, ReadsDue
<1>2. OwnInv /\ [Next]_vars => OwnInv'
  BY OwnStep
<1>3. OwnInv => ReadsOwnField
  BY DEF OwnInv, Found, Refused, Wanted, DueType, Due, From, ReadsOwnField
<1> QED
  BY <1>1, <1>2, <1>3, PTL DEF Spec

-----------------------------------------------------------------------------
(* The pointers of split.                                                  *)

\* The header is text, and so is every part.
Texts(S) == header \in Seq(S) /\ parts \in Seq(Seq(S))

\* "first" is behind a delimiter or at the beginning, "second" just before it, and
\* neither has passed the end by more than a step.
Pointers ==
  /\ first \in Nat /\ second \in Nat /\ second <= End
  /\ \/ first = 0 /\ second = 0
     \/ first = second + 1 /\ (first <= End => header[first] \in Delims)
  /\ step \in {"test", "find", "scan", "done"}
  /\ step = "find" => first < End

\* The runs that begin before "first" have been collected, each at its place.
Collected ==
  LET behind == {i \in Starts : i <= first}
  IN  /\ Len(parts) = Cardinality(behind)
      /\ \A k \in 1 .. Len(parts) : \E i \in behind : Place(i) = k /\ parts[k] = RunFrom(i)

SplitInv(S) ==
  /\ Texts(S) /\ Pointers /\ Collected
  /\ step \in {"scan", "done"} => \A i \in Starts : i <= first
  /\ scanned \in Nat

\* A run is looked for from where it begins to where it ends.
LEMMA FirstDelimFacts ==
  ASSUME NEW S, Texts(S), first \in Nat, first < End
  PROVE  /\ FirstDelim \in first .. End
         /\ FirstDelim # End => header[FirstDelim + 1] \in Delims
         /\ \A k \in first + 1 .. FirstDelim : header[k] \notin Delims
<1> DEFINE D == {End} \cup {o \in first .. End - 1 : header[o + 1] \in Delims}
<1>1. End \in Nat
  BY DEF Texts, End
<1>2. D \in SUBSET Nat /\ D # {} /\ \A o \in D : first <= o /\ o <= End
  BY <1>1
<1>3. PICK d : d = FirstDelim
  OBVIOUS
<1>4. d \in D /\ \A o \in D : d <= o
  BY <1>2, <1>3, MinFacts DEF FirstDelim
<1>5. d \in first .. End /\ (d # End => header[d + 1] \in Delims)
  BY <1>1, <1>2, <1>4
<1>6. ASSUME NEW k \in first + 1 .. d PROVE header[k] \notin Delims
  <2>1. PICK o \in Nat : k = o + 1
    BY <1>1, <1>5
  <2>2. o \in first .. End - 1 /\ ~(d <= o)
    BY <1>1, <1>5, <2>1
  <2>3. o \notin D
    BY <1>4, <2>2
  <2> QED
    BY <2>1, <2>2, <2>3
<1> QED
  BY <1>3, <1>5, <1>6

\* So a piece that is not empty is a run.
LEMMA PieceIsRun ==
  ASSUME NEW S, Texts(S), NEW i \in Nat, NEW d \in Nat, i >= 1, i <= d, d <= End,
         \A k \in i .. d : header[k] \notin Delims,
         d # End => header[d + 1] \in Delims
  PROVE  RunFrom(i) = SubSeq(header, i, d)
<1> DEFINE J == {j \in i .. End : Free(i, j)}
<1>1. End \in Nat
  BY DEF Texts, End
<1>2. d \in J
  BY <1>1 DEF Free
<1>3. ASSUME NEW j \in J PROVE j <= d
  <2> SUFFICES ASSUME d < j PROVE FALSE
    BY <1>1
  <2>1. d # End /\ d + 1 \in i .. j
    BY <1>1
  <2> QED
    BY <2>1 DEF Free
<1>4. J \in SUBSET (0 .. End) /\ J # {}
  BY <1>1, <1>2
<1>5. Max(J) \in J /\ \A y \in J : y <= Max(J)
  <2> HIDE DEF J
  <2> QED
    BY <1>1, <1>4, MaxFacts
<1>6. PICK m : m = Max(J)
  OBVIOUS
<1>7. m \in J /\ m <= d /\ d <= m
  BY <1>2, <1>3, <1>5, <1>6
<1>8. m = d
  BY <1>1, <1>7
<1> QED
  BY <1>6, <1>8 DEF RunFrom

-----------------------------------------------------------------------------
(* The places of the runs.                                                 *)

\* Of a header that does not change, nothing does.
LEMMA SameHeader ==
  ASSUME UNCHANGED header
  PROVE  /\ Starts' = Starts /\ End' = End
         /\ \A i : RunFrom(i)' = RunFrom(i) /\ Place(i)' = Place(i)
<1>1. End' = End /\ \A i, j : Free(i, j)' <=> Free(i, j)
  BY DEF End, Free
<1>2. Starts' = Starts
  BY <1>1 DEF Starts
<1>3. ASSUME NEW i PROVE Place(i)' = Place(i)
  BY <1>2 DEF Place
<1>4. ASSUME NEW i PROVE RunFrom(i)' = RunFrom(i)
  <2>1. {j \in i .. End : Free(i, j)}' = {j \in i .. End : Free(i, j)}
    BY <1>1
  <2> QED
    BY <2>1 DEF RunFrom
<1> QED
  BY <1>1, <1>2, <1>3, <1>4

\* There are finitely many.
LEMMA StartsFinite ==
  ASSUME NEW S, Texts(S), NEW T \in SUBSET Starts
  PROVE  IsFiniteSet(T) /\ Cardinality(T) \in Nat
<1>1. End \in Nat /\ T \in SUBSET (1 .. End)
  BY DEF Texts, End, Starts
<1>2. IsFiniteSet(1 .. End)
  BY <1>1, FS_Interval
<1>3. IsFiniteSet(T)
  BY <1>1, <1>2, FS_Subset
<1> QED
  BY <1>3, FS_CardinalityType

\* The later a run begins, the higher its place.
LEMMA PlacesGrow ==
  ASSUME NEW S, Texts(S), NEW i \in Starts, NEW h \in Starts, i < h
  PROVE  Place(i) \in Nat /\ Place(h) \in Nat /\ Place(i) < Place(h)
<1> DEFINE upto(j) == {g \in Starts : g <= j}
<1>1. End \in Nat /\ i \in 1 .. End /\ h \in 1 .. End /\ \A g \in Starts : g \in 1 .. End
  BY DEF Texts, End, Starts
<1>2. upto(i) \subseteq upto(h) /\ h \in upto(h) /\ h \notin upto(i)
  <2>1. \A g \in Starts : g <= i => g <= h
    BY <1>1
  <2>2. h <= h /\ ~(h <= i)
    BY <1>1
  <2> QED
    BY <2>1, <2>2
<1>3. /\ IsFiniteSet(upto(h)) /\ Cardinality(upto(i)) \in Nat /\ Cardinality(upto(h)) \in Nat
  <2>1. upto(i) \in SUBSET Starts /\ upto(h) \in SUBSET Starts
    OBVIOUS
  <2> QED
    BY <2>1, StartsFinite
<1>4. Cardinality(upto(i)) <= Cardinality(upto(h)) /\ Cardinality(upto(i)) # Cardinality(upto(h))
  <2> HIDE DEF upto
  <2>1. Cardinality(upto(i)) <= Cardinality(upto(h))
    BY <1>2, <1>3, FS_Subset
  <2>2. Cardinality(upto(i)) = Cardinality(upto(h)) => upto(i) = upto(h)
    BY <1>2, <1>3, FS_Subset
  <2> QED
    BY <1>2, <2>1, <2>2
<1>5. Place(i) = Cardinality(upto(i)) /\ Place(h) = Cardinality(upto(h))
  BY DEF Place
<1> HIDE DEF upto
<1> QED
  BY <1>3, <1>4, <1>5

-----------------------------------------------------------------------------
(* The loop of split.                                                      *)

\* One more piece, or none, at its place.
LEMMA FindKeeps ==
  ASSUME NEW S, SplitInv(S), Find
  PROVE  SplitInv(S)'
<1> DEFINE behind == {i \in Starts : i <= first}
           n == Len(parts)
<1>1. PICK d : d = FirstDelim
  OBVIOUS
<1>2. /\ End \in Nat /\ first \in Nat /\ first < End /\ second \in Nat
      /\ n \in Nat /\ parts \in Seq(Seq(S)) /\ header \in Seq(S)
  BY DEF SplitInv, Texts, Pointers, Find, End
<1>3. /\ d \in first .. End
      /\ d # End => header[d + 1] \in Delims
      /\ \A k \in first + 1 .. d : header[k] \notin Delims
  BY <1>1, <1>2, FirstDelimFacts DEF SplitInv
<1>4. /\ UNCHANGED <<header, scanned, kv>> /\ second' = d /\ first' = d + 1 /\ step' = "test"
      /\ parts' = IF first # d THEN Append(parts, Text(first, d)) ELSE parts
  BY <1>1 DEF Find
<1>5. first # 0 => header[first] \in Delims
  BY <1>2 DEF SplitInv, Pointers
<1>6. Text(first, d) \in Seq(S)
  <2>1. Text(first, d) = SubSeq(header, first + 1, d)
    BY DEF Text
  <2>2. first + 1 \in 1 .. End + 1 /\ d \in 0 .. End
    BY <1>2, <1>3
  <2> QED
    BY <1>2, <2>1, <2>2 DEF End
<1>7. Texts(S)'
  BY <1>2, <1>4, <1>6 DEF Texts
<1>8. Pointers'
  <2>1. d \in Nat /\ d <= End /\ d + 1 \in Nat /\ (d + 1 <= End => d # End)
    BY <1>2, <1>3
  <2>2. End' = End
    BY <1>4, SameHeader
  <2> QED
    BY <1>3, <1>4, <2>1, <2>2 DEF Pointers
<1>9. \A i \in Starts : /\ i \in 1 .. End /\ header[i] \notin Delims
                        /\ i # 1 => header[i - 1] \in Delims
  <2> SUFFICES ASSUME NEW i \in Starts
               PROVE  /\ i \in 1 .. End /\ header[i] \notin Delims
                      /\ i # 1 => header[i - 1] \in Delims
    OBVIOUS
  <2>1. i \in 1 .. End /\ Free(i, i) /\ (i = 1 \/ ~Free(i - 1, i - 1))
    BY DEF Starts
  <2> QED
    BY <1>2, <2>1 DEF Free
<1>10. \A i \in Starts : i <= d + 1 => i <= first + 1
  <2> SUFFICES ASSUME NEW i \in Starts, i <= d + 1, first + 1 < i PROVE FALSE
    BY <1>2, <1>3, <1>9
  <2>1. i - 1 \in first + 1 .. d /\ i # 1
    BY <1>2, <1>3, <1>9
  <2> QED
    BY <1>3, <1>9, <2>1
<1>11. CASE first = d
  <2>1. \A i \in Starts : i <= d + 1 <=> i <= first
    <3> SUFFICES ASSUME NEW i \in Starts, i <= d + 1, ~(i <= first) PROVE FALSE
      BY <1>2, <1>9, <1>11
    <3>1. i = d + 1 /\ d # End
      BY <1>2, <1>9, <1>11
    <3> QED
      BY <1>3, <1>9, <3>1
  <2>2. {i \in Starts : i <= d + 1} = behind
    BY <2>1
  <2>3. Collected'
    BY <1>4, <1>11, <2>2, SameHeader DEF SplitInv, Collected
  <2> QED
    BY <1>4, <1>7, <1>8, <2>3 DEF SplitInv
<1>12. CASE first # d
  <2>1. PICK f \in Nat : f = first + 1
    BY <1>2
  <2>2. f \in 1 .. End /\ f <= d /\ d \in Nat /\ d <= End
    BY <1>2, <1>3, <1>12, <2>1
  <2>3. f \in Starts
    <3>1. Free(f, f)
      BY <1>3, <2>1, <2>2 DEF Free
    <3>2. f = 1 \/ ~Free(f - 1, f - 1)
      <4>1. f # 1 => f - 1 = first /\ first # 0
        BY <1>2, <2>1
      <4> QED
        BY <1>2, <1>5, <4>1 DEF Free
    <3> QED
      BY <2>2, <3>1, <3>2 DEF Starts
  <2>4. RunFrom(f) = Text(first, d)
    <3>1. RunFrom(f) = SubSeq(header, f, d)
      BY <1>3, <2>1, <2>2, PieceIsRun DEF SplitInv
    <3> QED
      BY <2>1, <3>1 DEF Text
  <2>5. {i \in Starts : i <= d + 1} = behind \cup {f} /\ f \notin behind
    <3>1. \A i \in Starts : i <= d + 1 <=> i <= first \/ i = f
      BY <1>2, <1>3, <1>9, <1>10, <2>1
    <3>2. ~(f <= first)
      BY <1>2, <2>1
    <3> QED
      BY <2>3, <3>1, <3>2
  <2>6. {i \in Starts : i <= f} = behind \cup {f}
    <3>1. \A i \in Starts : i <= f <=> i <= first \/ i = f
      BY <1>2, <1>9, <2>1
    <3> QED
      BY <2>3, <3>1
  <2>7. Len(parts) = Cardinality(behind)
    BY DEF SplitInv, Collected
  <2>8. Cardinality(behind \cup {f}) = n + 1
    <3>1. IsFiniteSet(behind)
      BY StartsFinite DEF SplitInv
    <3> HIDE DEF behind
    <3> QED
      BY <2>5, <2>7, <3>1, FS_AddElement
  <2>9. Place(f) = n + 1
    BY <2>6, <2>8 DEF Place
  <2>10. /\ Len(parts') = n + 1 /\ parts'[n + 1] = RunFrom(f)
         /\ \A k \in 1 .. n : parts'[k] = parts[k]
    BY <1>2, <1>4, <1>6, <1>12, <2>4
  <2>11. \A k \in 1 .. n : \E i \in behind : Place(i) = k /\ parts[k] = RunFrom(i)
    BY DEF SplitInv, Collected
  <2>12. \A k \in 1 .. n + 1 :
           \E i \in behind \cup {f} : Place(i) = k /\ parts'[k] = RunFrom(i)
    <3> HIDE DEF behind, n
    <3> SUFFICES ASSUME NEW k \in 1 .. n + 1
                 PROVE  \E i \in behind \cup {f} : Place(i) = k /\ parts'[k] = RunFrom(i)
      OBVIOUS
    <3>1. k # n + 1 => k \in 1 .. n
      BY <1>2
    <3> QED
      BY <2>9, <2>10, <2>11, <3>1
  <2>13. Collected'
    <3>1. {i \in Starts : i <= first}' = behind \cup {f}
      BY <1>4, <2>5, SameHeader
    <3>2. \A i : Place(i)' = Place(i) /\ RunFrom(i)' = RunFrom(i)
      BY <1>4, SameHeader
    <3> HIDE DEF behind, n
    <3> QED
      BY <2>8, <2>10, <2>12, <3>1, <3>2 DEF Collected
  <2> QED
    BY <1>4, <1>7, <1>8, <2>13 DEF SplitInv
<1> QED
  BY <1>11, <1>12

\* At first nothing is collected.
LEMMA SplitInit ==
  ASSUME NEW S, Headers \in SUBSET Seq(S), CookiesInit
  PROVE  SplitInv(S)
<1>1. /\ header \in Seq(S) /\ step = "test" /\ first = 0 /\ second = 0 /\ scanned = 0
      /\ parts = <<>> /\ Len(parts) = 0
  BY DEF CookiesInit
<1>2. Texts(S) /\ End \in Nat
  BY <1>1 DEF Texts, End
<1>3. Pointers
  BY <1>1, <1>2 DEF Pointers
<1>4. {i \in Starts : i <= 0} = {}
  <2>1. \A i \in Starts : i \in 1 .. End
    BY DEF Starts
  <2>2. \A i \in Starts : ~(i <= 0)
    BY <1>2, <2>1
  <2> QED
    BY <2>2
<1>5. Collected
  BY <1>1, <1>4, FS_EmptySet DEF Collected
<1> QED
  BY <1>1, <1>2, <1>3, <1>5 DEF SplitInv

\* The loop ends when every run has been passed.
LEMMA TestKeeps ==
  ASSUME NEW S, SplitInv(S), Test
  PROVE  SplitInv(S)'
<1>1. /\ UNCHANGED <<header, first, second, parts, scanned, kv>>
      /\ step' = IF second # End /\ first # End THEN "find" ELSE "scan"
  BY DEF Test
<1>2. /\ End \in Nat /\ first \in Nat /\ second \in Nat /\ second <= End
      /\ \/ first = 0 /\ second = 0
         \/ first = second + 1 /\ (first <= End => header[first] \in Delims)
  BY DEF SplitInv, Texts, Pointers, End
<1>3. UNCHANGED <<Starts, End>> /\ \A i : Place(i)' = Place(i) /\ RunFrom(i)' = RunFrom(i)
  BY <1>1, SameHeader
<1>4. Pointers'
  BY <1>1, <1>2, <1>3 DEF Pointers
<1>5. Collected'
  <2>1. {i \in Starts : i <= first}' = {i \in Starts : i <= first}
    BY <1>1, <1>3
  <2> QED
    BY <1>1, <1>3, <2>1 DEF SplitInv, Collected
<1>6. step' = "scan" => \A i \in Starts : i <= first
  <2> SUFFICES ASSUME second = End \/ first = End, NEW i \in Starts PROVE i <= first
    BY <1>1
  <2>1. i \in 1 .. End
    BY DEF Starts
  <2> QED
    BY <1>2, <2>1
<1> QED
  BY <1>1, <1>3, <1>4, <1>5, <1>6 DEF SplitInv, Texts

\* What follows leaves the parts alone.
LEMMA SplitKeeps ==
  ASSUME NEW S, SplitInv(S), UNCHANGED <<header, first, second, parts>>, scanned' \in Nat,
         step' = step \/ (step = "scan" /\ step' = "done")
  PROVE  SplitInv(S)'
<1>1. UNCHANGED <<Starts, End>> /\ \A i : Place(i)' = Place(i) /\ RunFrom(i)' = RunFrom(i)
  BY SameHeader
<1>2. Pointers'
  BY <1>1 DEF SplitInv, Pointers
<1>3. Collected'
  <2>1. {i \in Starts : i <= first}' = {i \in Starts : i <= first}
    BY <1>1
  <2> QED
    BY <1>1, <2>1 DEF SplitInv, Collected
<1> QED
  BY <1>1, <1>2, <1>3 DEF SplitInv, Texts

\* Every step keeps the invariant.
LEMMA SplitStep ==
  ASSUME NEW S, SplitInv(S), [CookiesNext]_cookies
  PROVE  SplitInv(S)'
<1>1. CASE Test
  BY <1>1, TestKeeps
<1>2. CASE Find
  BY <1>2, FindKeeps
<1>3. CASE Scan
  <2>1. scanned \in Nat
    BY DEF SplitInv
  <2>2. /\ scanned' \in Nat /\ UNCHANGED <<header, first, second, parts>>
        /\ step' = step \/ (step = "scan" /\ step' = "done")
    BY <1>3, <2>1 DEF Scan
  <2> QED
    BY <2>2, SplitKeeps
<1>4. CASE Done
  <2>1. scanned' = scanned /\ step = "scan" /\ step' = "done"
        /\ UNCHANGED <<header, first, second, parts>>
    BY <1>4 DEF Done
  <2>2. scanned' \in Nat
    BY <2>1 DEF SplitInv
  <2> QED
    BY <2>1, <2>2, SplitKeeps
<1>5. CASE UNCHANGED cookies
  <2>1. /\ scanned' = scanned /\ UNCHANGED <<header, first, second, parts>>
        /\ step' = step \/ (step = "scan" /\ step' = "done")
    BY <1>5 DEF cookies
  <2>2. scanned' \in Nat
    BY <2>1 DEF SplitInv
  <2> QED
    BY <2>1, <2>2, SplitKeeps
<1> QED
  BY <1>1, <1>2, <1>3, <1>4, <1>5 DEF CookiesNext

\* All runs, each at its place, are the runs.
LEMMA PartsAreRuns ==
  ASSUME NEW S, SplitInv(S), step \in {"scan", "done"}
  PROVE  parts = Runs
<1>1. {i \in Starts : i <= first} = Starts
  BY DEF SplitInv
<1>2. /\ parts \in Seq(Seq(S)) /\ Len(parts) = Cardinality(Starts)
      /\ \A k \in 1 .. Len(parts) : \E i \in Starts : Place(i) = k /\ parts[k] = RunFrom(i)
  BY <1>1 DEF SplitInv, Texts, Collected
<1>3. \A i, h \in Starts : Place(i) = Place(h) => i = h
  <2> SUFFICES ASSUME NEW i \in Starts, NEW h \in Starts, Place(i) = Place(h), i # h PROVE FALSE
    OBVIOUS
  <2>1. i \in 1 .. End /\ h \in 1 .. End /\ End \in Nat
    BY DEF SplitInv, Texts, End, Starts
  <2>2. i < h \/ h < i
    BY <2>1
  <2>3. i < h => Place(i) \in Nat /\ Place(h) \in Nat /\ Place(i) < Place(h)
    BY PlacesGrow DEF SplitInv
  <2>4. h < i => Place(i) \in Nat /\ Place(h) \in Nat /\ Place(h) < Place(i)
    BY PlacesGrow DEF SplitInv
  <2> QED
    BY <2>2, <2>3, <2>4
<1>4. ASSUME NEW k \in 1 .. Cardinality(Starts)
      PROVE  parts[k] = RunFrom(CHOOSE i \in Starts : Place(i) = k)
  <2>1. PICK i \in Starts : Place(i) = k /\ parts[k] = RunFrom(i)
    BY <1>2
  <2>2. PICK c : c = CHOOSE h \in Starts : Place(h) = k
    OBVIOUS
  <2>3. c \in Starts /\ Place(c) = k
    BY <2>1, <2>2
  <2>4. c = i
    BY <1>3, <2>1, <2>3
  <2> QED
    BY <2>1, <2>2, <2>4
<1>5. parts = [k \in 1 .. Len(parts) |-> parts[k]]
  BY <1>2
<1> QED
  BY <1>2, <1>4, <1>5 DEF Runs

-----------------------------------------------------------------------------
(* The map.                                                                *)

\* The parts that are pairs, and what one enters.
IsPair(part) == Splits(part) # {}
Entry(part)  == <<Key(part), Value(part)>>

\* The map has the entry of the first pair with each key among the parts scanned.
Entered ==
  /\ scanned <= Len(parts)
  /\ \A p \in kv : \E r \in 1 .. scanned :
       /\ IsPair(parts[r]) /\ p = Entry(parts[r])
       /\ \A q \in 1 .. r - 1 : IsPair(parts[q]) => Key(parts[q]) # Key(parts[r])
  /\ \A r \in 1 .. scanned :
       IsPair(parts[r]) => \E p \in kv : p[1] = Key(parts[r])
  /\ step \in {"test", "find"} => scanned = 0
  /\ step = "done" => scanned = Len(parts)

CookieInv(S) == SplitInv(S) /\ Entered

\* The next part is entered, unless its key is there.
LEMMA ScanEnters ==
  ASSUME NEW S, CookieInv(S), Scan
  PROVE  Entered'
<1> DEFINE m == scanned + 1
           part == parts[m]
<1>1. /\ step = "scan" /\ scanned < Len(parts) /\ scanned' = m
      /\ kv' = IF Splits(part) = {} THEN kv ELSE Emplace(kv, Key(part), Value(part))
      /\ UNCHANGED <<header, step, first, second, parts>>
  BY DEF Scan
<1>2. scanned \in Nat /\ Len(parts) \in Nat /\ m \in Nat /\ m <= Len(parts)
  BY <1>1 DEF CookieInv, SplitInv, Texts
<1>3. \A r \in 1 .. m : r = m \/ r \in 1 .. scanned
  BY <1>2
<1>4. \A p \in kv : \E r \in 1 .. scanned :
        /\ IsPair(parts[r]) /\ p = Entry(parts[r])
        /\ \A q \in 1 .. r - 1 : IsPair(parts[q]) => Key(parts[q]) # Key(parts[r])
  BY DEF CookieInv, Entered
<1>5. \A r \in 1 .. scanned : IsPair(parts[r]) => \E p \in kv : p[1] = Key(parts[r])
  BY DEF CookieInv, Entered
<1>6. \A r \in 1 .. scanned : r \in 1 .. m
  BY <1>2
<1>7. m \in 1 .. m /\ m - 1 = scanned
  BY <1>2
<1> DEFINE New == IsPair(part) /\ \A p \in kv : p[1] # Key(part)
<1>8. kv' = IF New THEN kv \cup {Entry(part)} ELSE kv
  <2>1. CASE Splits(part) = {}
    BY <1>1, <2>1 DEF IsPair
  <2>2. CASE Splits(part) # {}
    BY <1>1, <2>2 DEF IsPair, Emplace, Entry
  <2> QED
    BY <2>1, <2>2
<1> HIDE DEF m
<1>9. \A p \in kv' : \E r \in 1 .. m :
        /\ IsPair(parts[r]) /\ p = Entry(parts[r])
        /\ \A q \in 1 .. r - 1 : IsPair(parts[q]) => Key(parts[q]) # Key(parts[r])
  <2> SUFFICES ASSUME NEW p \in kv'
               PROVE  \E r \in 1 .. m :
                        /\ IsPair(parts[r]) /\ p = Entry(parts[r])
                        /\ \A q \in 1 .. r - 1 : IsPair(parts[q]) => Key(parts[q]) # Key(parts[r])
    OBVIOUS
  <2>1. CASE p \in kv
    BY <1>4, <1>6, <2>1
  <2>2. CASE New /\ p = Entry(parts[m])
    <3>1. \A q \in 1 .. m - 1 : IsPair(parts[q]) => Key(parts[q]) # Key(parts[m])
      BY <1>5, <1>7, <2>2
    <3> QED
      BY <1>7, <2>2, <3>1
  <2> QED
    BY <1>8, <2>1, <2>2
<1>10. \A r \in 1 .. m : IsPair(parts[r]) => \E p \in kv' : p[1] = Key(parts[r])
  <2> SUFFICES ASSUME NEW r \in 1 .. m, IsPair(parts[r])
               PROVE  \E p \in kv' : p[1] = Key(parts[r])
    OBVIOUS
  <2>1. kv \subseteq kv'
    BY <1>8
  <2>2. CASE r \in 1 .. scanned
    BY <1>5, <2>1, <2>2
  <2>3. CASE r = m
    <3>1. CASE New
      <4>1. Entry(parts[m])[1] = Key(parts[m]) /\ Entry(parts[m]) \in kv'
        BY <1>8, <3>1 DEF Entry
      <4> QED
        BY <2>3, <4>1
    <3>2. CASE ~New
      BY <2>1, <2>3, <3>2
    <3> QED
      BY <3>1, <3>2
  <2> QED
    BY <1>3, <2>2, <2>3
<1> QED
  BY <1>1, <1>2, <1>9, <1>10 DEF Entered

\* Every step keeps the invariant.
LEMMA CookieStep ==
  ASSUME NEW S, CookieInv(S), [CookiesNext]_cookies
  PROVE  CookieInv(S)'
<1>1. SplitInv(S)'
  BY SplitStep DEF CookieInv
<1>2. scanned \in Nat /\ Len(parts) \in Nat
  BY DEF CookieInv, SplitInv, Texts
<1>3. CASE Test
  <2>1. UNCHANGED <<parts, scanned, kv>> /\ step = "test" /\ step' \in {"find", "scan"}
    BY <1>3 DEF Test
  <2> QED
    BY <1>1, <2>1 DEF CookieInv, Entered
<1>4. CASE Find
  <2>1. UNCHANGED <<scanned, kv>> /\ scanned = 0 /\ step' = "test"
    BY <1>4 DEF Find, CookieInv, Entered
  <2>2. Len(parts') \in Nat
    BY <1>1 DEF SplitInv, Texts
  <2>3. kv = {} /\ 1 .. 0 = {}
    BY <2>1 DEF CookieInv, Entered
  <2> QED
    BY <1>1, <2>1, <2>2, <2>3 DEF CookieInv, Entered
<1>5. CASE Scan
  BY <1>1, <1>5, ScanEnters DEF CookieInv
<1>6. CASE Done
  BY <1>1, <1>6 DEF Done, CookieInv, Entered
<1>7. CASE UNCHANGED cookies
  BY <1>1, <1>7 DEF cookies, CookieInv, Entered
<1> QED
  BY <1>3, <1>4, <1>5, <1>6, <1>7 DEF CookiesNext

\* The map is empty at first.
LEMMA CookieInit ==
  ASSUME NEW S, Headers \in SUBSET Seq(S), CookiesInit
  PROVE  CookieInv(S)
<1>1. SplitInv(S)
  BY SplitInit
<1>2. scanned = 0 /\ kv = {} /\ step = "test" /\ Len(parts) \in Nat
  BY DEF CookiesInit
<1> QED
  BY <1>1, <1>2 DEF CookieInv, Entered

-----------------------------------------------------------------------------
(* Keys and values.                                                        *)

\* The key ends at an "=", behind which no other "=" ends one.
LEMMA KeyEndFacts ==
  ASSUME NEW S, NEW part \in Seq(S), IsPair(part)
  PROVE  /\ KeyEnd(part) \in 2 .. Len(part) - 1 /\ part[KeyEnd(part)] = "="
         /\ \A i \in KeyEnd(part) + 1 .. Len(part) - 1 : part[i] # "="
<1> DEFINE T == {i \in 2 .. Len(part) - 1 : part[i] = "="}
<1>1. Splits(part) = T /\ T # {}
  BY DEF IsPair, Splits
<1>2. Len(part) \in Nat /\ T \in SUBSET (0 .. Len(part))
  OBVIOUS
<1>3. PICK e : e = KeyEnd(part)
  OBVIOUS
<1>4. e \in T /\ \A y \in T : y <= e
  <2> HIDE DEF T
  <2>1. e = Max(T)
    BY <1>1, <1>3 DEF KeyEnd
  <2> QED
    BY <1>1, <1>2, <2>1, MaxFacts
<1>5. ASSUME NEW i \in e + 1 .. Len(part) - 1 PROVE part[i] # "="
  <2>1. i \in 2 .. Len(part) - 1 /\ ~(i <= e)
    BY <1>2, <1>4
  <2> QED
    BY <1>4, <2>1
<1> QED
  BY <1>3, <1>4, <1>5

\* So a value has no "=" but at its end.
LEMMA ValueFacts ==
  ASSUME NEW S, NEW part \in Seq(S), IsPair(part), NEW i \in 1 .. Len(Value(part)) - 1
  PROVE  Value(part)[i] # "="
<1>1. PICK e : e = KeyEnd(part)
  OBVIOUS
<1>2. /\ e \in 2 .. Len(part) - 1 /\ Len(part) \in Nat
      /\ \A j \in e + 1 .. Len(part) - 1 : part[j] # "="
  BY <1>1, KeyEndFacts
<1>3. Value(part) = SubSeq(part, e + 1, Len(part))
  BY <1>1 DEF Value
<1>4. Len(Value(part)) = Len(part) - e /\ \A j \in 1 .. Len(part) - e : Value(part)[j] = part[e + j]
  BY <1>2, <1>3
<1>5. i \in 1 .. Len(part) - e /\ e + i \in e + 1 .. Len(part) - 1
  BY <1>2, <1>4
<1> QED
  BY <1>2, <1>4, <1>5

\* In a well-formed part there is one "=", and a name stands before it exactly
\* if it is the key.
LEMMA WellFormedFacts ==
  ASSUME NEW S, NEW part \in Seq(S), WellFormed(part), NEW n \in Seq(S)
  PROVE  /\ IsPair(part)
         /\ (Len(n) < Len(part) /\ SubSeq(part, 1, Len(n) + 1) = Append(n, "=")) <=> Key(part) = n
         /\ Key(part) = n => Value(part) = SubSeq(part, Len(n) + 2, Len(part))
<1> DEFINE E == {i \in DOMAIN part : part[i] = "="}
<1>1. /\ Len(part) \in Nat /\ Len(part) >= 3 /\ DOMAIN part = 1 .. Len(part) /\ Cardinality(E) = 1
      /\ part[1] # "=" /\ part[Len(part)] # "=" /\ \A i \in DOMAIN part : part[i] \notin Spaces
  BY DEF WellFormed
<1>2. PICK e : E = {e}
  <2>1. IsFiniteSet(1 .. Len(part))
    BY <1>1, FS_Interval
  <2>2. IsFiniteSet(E)
    BY <1>1, <2>1, FS_Subset
  <2> HIDE DEF E
  <2> QED
    BY <1>1, <2>2, FS_Singleton
<1>3. e \in 2 .. Len(part) - 1 /\ part[e] = "=" /\ \A i \in 1 .. Len(part) : part[i] = "=" => i = e
  <2>1. e \in E /\ \A i \in E : i = e
    BY <1>2
  <2>2. e \in 1 .. Len(part) /\ part[e] = "="
    BY <1>1, <2>1
  <2>3. e # 1 /\ e # Len(part)
    BY <1>1, <2>2
  <2> QED
    BY <1>1, <2>1, <2>2, <2>3
<1>4. IsPair(part)
  BY <1>1, <1>3 DEF IsPair, Splits
<1>5. KeyEnd(part) = e
  <2>1. KeyEnd(part) \in 1 .. Len(part) /\ part[KeyEnd(part)] = "="
    <3>1. PICK k : k = KeyEnd(part)
      OBVIOUS
    <3>2. k \in 2 .. Len(part) - 1 /\ part[k] = "="
      BY <1>4, <3>1, KeyEndFacts
    <3>3. k \in 1 .. Len(part)
      BY <1>1, <3>2
    <3> QED
      BY <3>1, <3>2, <3>3
  <2> QED
    BY <1>3, <2>1
<1>6. Key(part) = SubSeq(part, 1, e - 1) /\ Value(part) = SubSeq(part, e + 1, Len(part))
  BY <1>5 DEF Key, Value
<1>7. /\ Key(part) \in Seq(S) /\ Len(Key(part)) = e - 1
      /\ \A i \in 1 .. e - 1 : Key(part)[i] = part[i]
  BY <1>1, <1>3, <1>6
<1>8. ASSUME Len(n) < Len(part), SubSeq(part, 1, Len(n) + 1) = Append(n, "=")
      PROVE  Key(part) = n
  <2>1. Len(n) \in Nat /\ Len(n) + 1 \in 1 .. Len(part)
    BY <1>1, <1>8
  <2>2. \A i \in 1 .. Len(n) + 1 : SubSeq(part, 1, Len(n) + 1)[i] = part[i]
    BY <1>1, <2>1
  <2>3. Append(n, "=")[Len(n) + 1] = "=" /\ \A i \in 1 .. Len(n) : Append(n, "=")[i] = n[i]
    OBVIOUS
  <2>4. part[Len(n) + 1] = "=" /\ \A i \in 1 .. Len(n) : part[i] = n[i]
    BY <1>8, <2>1, <2>2, <2>3
  <2>5. Len(n) + 1 = e
    BY <1>3, <2>1, <2>4
  <2>6. Len(n) = e - 1
    BY <1>3, <2>1, <2>5
  <2> QED
    BY <1>7, <2>4, <2>6
<1>9. ASSUME Key(part) = n
      PROVE  /\ Len(n) < Len(part) /\ SubSeq(part, 1, Len(n) + 1) = Append(n, "=")
             /\ Value(part) = SubSeq(part, Len(n) + 2, Len(part))
  <2>1. Len(n) \in Nat /\ Len(n) = e - 1 /\ \A i \in 1 .. Len(n) : part[i] = n[i]
    BY <1>7, <1>9
  <2>2. Len(n) + 1 = e /\ Len(n) + 2 = e + 1 /\ Len(n) < Len(part)
    BY <1>1, <1>3, <2>1
  <2>3. SubSeq(part, 1, Len(n) + 1) = Append(n, "=")
    <3> DEFINE s == SubSeq(part, 1, e)
               t == Append(n, "=")
    <3>1. /\ s \in Seq(S) /\ Len(s) = e /\ \A i \in 1 .. e : s[i] = part[i]
      BY <1>1, <1>3
    <3>2. "=" \in S
      BY <1>1, <1>3
    <3>3. t \in Seq(S) /\ Len(t) = e /\ t[e] = "=" /\ \A i \in 1 .. Len(n) : t[i] = n[i]
      BY <2>2, <3>2
    <3>4. ASSUME NEW i \in 1 .. e PROVE s[i] = t[i]
      <4>1. i = e \/ i \in 1 .. Len(n)
        BY <1>3, <2>1, <2>2
      <4> HIDE DEF s, t
      <4> QED
        BY <1>3, <2>1, <3>1, <3>3, <4>1
    <3> HIDE DEF s, t
    <3>5. s = t
      BY <3>1, <3>3, <3>4
    <3> QED
      BY <2>2, <3>5 DEF s, t
  <2> QED
    BY <1>6, <2>2, <2>3
<1> QED
  BY <1>4, <1>8, <1>9

-----------------------------------------------------------------------------
(* Theorems.                                                               *)

\* The parts are text.
LEMMA PartIsText ==
  ASSUME NEW S, CookieInv(S), NEW r \in 1 .. Len(parts)
  PROVE  parts[r] \in Seq(S)
BY DEF CookieInv, SplitInv, Texts

\* split() collects exactly the longest runs free of delimiters, in their order,
\* and never reads behind the header (middleware.hpp).
THEOREM RunsAreCollected ==
  ASSUME NEW S, Headers \in SUBSET Seq(S)
  PROVE  CookiesSpec => []SplitsIntoRuns
<1>1. CookieInv(S) => SplitsIntoRuns
  <2> SUFFICES ASSUME CookieInv(S) PROVE SplitsIntoRuns
    OBVIOUS
  <2>1. step \in {"scan", "done"} => parts = Runs
    BY PartsAreRuns DEF CookieInv
  <2>2. step = "find" => first < End
    BY DEF CookieInv, SplitInv, Pointers
  <2> QED
    BY <2>1, <2>2 DEF SplitsIntoRuns
<1>2. CookiesInit => CookieInv(S)
  BY CookieInit
<1>3. CookieInv(S) /\ [CookiesNext]_cookies => CookieInv(S)'
  BY CookieStep
<1> QED
  BY <1>1, <1>2, <1>3, PTL DEF CookiesSpec

\* No value that is entered has a "=" before its last character: the key takes
\* all the others, whatever a browser meant (the expression in middleware.hpp).
THEOREM KeysTakeEquals ==
  ASSUME NEW S, Headers \in SUBSET Seq(S)
  PROVE  CookiesSpec => []ValuesHaveNoEquals
<1>1. CookieInv(S) => ValuesHaveNoEquals
  <2> SUFFICES ASSUME CookieInv(S), NEW p \in kv, NEW i \in 1 .. Len(p[2]) - 1
               PROVE  p[2][i] # "="
    BY DEF ValuesHaveNoEquals
  <2>1. PICK r \in 1 .. scanned : IsPair(parts[r]) /\ p = Entry(parts[r])
    BY DEF CookieInv, Entered
  <2>2. scanned \in Nat /\ Len(parts) \in Nat /\ scanned <= Len(parts)
    BY DEF CookieInv, SplitInv, Texts, Entered
  <2>3. r \in 1 .. Len(parts)
    BY <2>2
  <2>4. parts[r] \in Seq(S) /\ p[2] = Value(parts[r])
    BY <2>1, <2>3, PartIsText DEF Entry
  <2> QED
    BY <2>1, <2>4, ValueFacts
<1>2. CookiesInit => CookieInv(S)
  BY CookieInit
<1>3. CookieInv(S) /\ [CookiesNext]_cookies => CookieInv(S)'
  BY CookieStep
<1> QED
  BY <1>1, <1>2, <1>3, PTL DEF CookiesSpec

\* Well-formed pairs come back: a name gets the value of the first pair that has it
\* as its key, and nothing if there is none.
LEMMA FirstPairIsRead ==
  ASSUME NEW S, Names \in SUBSET Seq(S), CookieInv(S), step = "done",
         \A r \in DOMAIN Runs : WellFormed(Runs[r]), NEW n \in Names
  PROVE  LET mine == {r \in DOMAIN Runs : /\ Len(n) < Len(Runs[r])
                                          /\ SubSeq(Runs[r], 1, Len(n) + 1) = Append(n, "=")}
         IN  Cookie(n) = IF mine = {} THEN <<>>
                         ELSE SubSeq(Runs[Min(mine)], Len(n) + 2, Len(Runs[Min(mine)]))
<1> DEFINE mine == {r \in DOMAIN Runs : /\ Len(n) < Len(Runs[r])
                                        /\ SubSeq(Runs[r], 1, Len(n) + 1) = Append(n, "=")}
           found == {p \in kv : p[1] = n}
<1>1. /\ parts = Runs /\ scanned = Len(parts) /\ Len(parts) \in Nat /\ n \in Seq(S)
      /\ DOMAIN Runs = 1 .. Len(parts)
  <2>1. parts = Runs /\ parts \in Seq(Seq(S)) /\ scanned = Len(parts)
    BY PartsAreRuns DEF CookieInv, SplitInv, Texts, Entered
  <2> QED
    BY <2>1
<1>2. ASSUME NEW r \in 1 .. Len(parts)
      PROVE  /\ IsPair(parts[r]) /\ (r \in mine <=> Key(parts[r]) = n)
             /\ r \in mine =>
                  Value(parts[r]) = SubSeq(Runs[r], Len(n) + 2, Len(Runs[r]))
  <2>1. PICK part \in Seq(S) : part = parts[r]
    BY PartIsText
  <2>2. WellFormed(part)
    BY <1>1, <2>1
  <2>3. /\ IsPair(part)
        /\ (Len(n) < Len(part) /\ SubSeq(part, 1, Len(n) + 1) = Append(n, "=")) <=> Key(part) = n
        /\ Key(part) = n => Value(part) = SubSeq(part, Len(n) + 2, Len(part))
    BY <1>1, <2>2, WellFormedFacts
  <2> QED
    BY <1>1, <2>1, <2>3
<1>3. /\ \A p \in kv : \E r \in 1 .. Len(parts) :
           /\ p = Entry(parts[r])
           /\ \A q \in 1 .. r - 1 : IsPair(parts[q]) => Key(parts[q]) # Key(parts[r])
      /\ \A r \in 1 .. Len(parts) : IsPair(parts[r]) => \E p \in kv : p[1] = Key(parts[r])
  BY <1>1 DEF CookieInv, Entered
<1>4. mine \in SUBSET (1 .. Len(parts))
  BY <1>1
<1> HIDE DEF mine
<1>5. CASE mine = {}
  <2>1. found = {}
    <3> SUFFICES ASSUME NEW p \in kv, p[1] = n PROVE FALSE
      OBVIOUS
    <3>1. PICK r \in 1 .. Len(parts) : p = Entry(parts[r])
      BY <1>3
    <3>2. Key(parts[r]) = n
      BY <3>1 DEF Entry
    <3> QED
      BY <1>2, <1>5, <3>2
  <2> QED
    BY <1>5, <2>1 DEF Cookie, mine
<1>6. CASE mine # {}
  <2>1. PICK m : m = Min(mine)
    OBVIOUS
  <2>2. m \in mine /\ m \in 1 .. Len(parts) /\ \A y \in mine : m <= y
    <3>1. mine \in SUBSET Nat
      BY <1>1, <1>4
    <3> QED
      BY <1>4, <1>6, <2>1, <3>1, MinFacts
  <2>3. found # {}
    BY <1>2, <1>3, <2>2
  <2>4. ASSUME NEW p \in found PROVE p[2] = Value(parts[m])
    <3>1. PICK r \in 1 .. Len(parts) :
            /\ p = Entry(parts[r])
            /\ \A q \in 1 .. r - 1 : IsPair(parts[q]) => Key(parts[q]) # Key(parts[r])
      BY <1>3
    <3>2. Key(parts[r]) = n /\ r \in mine /\ p[2] = Value(parts[r])
      BY <1>2, <3>1 DEF Entry
    <3>3. m <= r /\ IsPair(parts[m]) /\ Key(parts[m]) = n
      BY <1>2, <2>2, <3>2
    <3>4. ~(m \in 1 .. r - 1)
      BY <3>1, <3>2, <3>3
    <3>5. m = r
      BY <1>1, <2>2, <3>3, <3>4
    <3> QED
      BY <3>2, <3>5
  <2>5. Cookie(n) = (CHOOSE p \in found : TRUE)[2]
    BY <2>3 DEF Cookie
  <2>6. Cookie(n) = Value(parts[m])
    BY <2>3, <2>4, <2>5
  <2>7. Value(parts[m]) = SubSeq(Runs[m], Len(n) + 2, Len(Runs[m]))
    BY <1>2, <2>2
  <2> QED
    BY <1>6, <2>1, <2>6, <2>7 DEF mine
<1> QED
  BY <1>5, <1>6

\* What a browser sends as pairs is what the handler gets, for all names and headers
\* (cookie_parser, middleware.hpp).
THEOREM PairsAreReadBack ==
  ASSUME NEW S, Headers \in SUBSET Seq(S), Names \in SUBSET Seq(S)
  PROVE  CookiesSpec => []PairsReadBack
<1>1. CookieInv(S) => PairsReadBack
  BY FirstPairIsRead DEF PairsReadBack
<1>2. CookiesInit => CookieInv(S)
  BY CookieInit
<1>3. CookieInv(S) /\ [CookiesNext]_cookies => CookieInv(S)'
  BY CookieStep
<1> QED
  BY <1>1, <1>2, <1>3, PTL DEF CookiesSpec

-----------------------------------------------------------------------------
(* The numbers in a body.                                                  *)

\* The fold of the digits d with h after each: f of a set of places is that of the
\* digits there.
FoldsDigits(d, h, f) ==
  /\ f \in [SUBSET DOMAIN d -> Nat]
  /\ \A s \in SUBSET DOMAIN d :
       f[s] = IF s = {} THEN 0 ELSE h[10 * f[s \ {Max(s)}] + d[Max(s)]]

\* The last of some places.
LEMMA LastPlace ==
  ASSUME NEW d \in Seq(0 .. 9), NEW s \in SUBSET (DOMAIN d), s # {}
  PROVE  \E m \in 1 .. Len(d) : /\ m = Max(s) /\ m \in s /\ \A y \in s : y <= m
                                /\ d[m] \in Nat
<1>1. DOMAIN d = 1 .. Len(d) /\ Len(d) \in Nat
  OBVIOUS
<1>2. s \in SUBSET (0 .. Len(d))
  BY <1>1
<1>3. Max(s) \in s /\ \A y \in s : y <= Max(s)
  BY <1>1, <1>2, MaxFacts
<1>4. PICK m \in 1 .. Len(d) : m = Max(s)
  BY <1>1, <1>3
<1>5. d[m] \in 0 .. 9
  BY <1>1
<1>6. d[m] \in Nat
  BY <1>5
<1> QED
  BY <1>3, <1>4, <1>6

\* There is such a function, for digits and any step.
LEMMA DigitsFold ==
  ASSUME NEW d \in Seq(0 .. 9), NEW h \in [Nat -> Nat]
  PROVE  \E f : FoldsDigits(d, h, f)
<1> DEFINE D == SUBSET (DOMAIN d)
           turn(f, s) == IF s = {} THEN 0 ELSE h[10 * f[s \ {Max(s)}] + d[Max(s)]]
           H == [p \in [D -> Nat] \X D |-> turn(p[1], p[2])]
           size == [s \in D |-> IF s = {} THEN 0 ELSE Max(s)]
           bound == Len(d) + 1
<1>1. Len(d) \in Nat
  OBVIOUS
<1>2. ASSUME NEW s \in D
      PROVE  /\ s = {} => size[s] = 0
             /\ s # {} => \E m \in 1 .. Len(d) : /\ m = Max(s) /\ m \in s /\ \A y \in s : y <= m
                                                 /\ d[m] \in Nat /\ size[s] = m
  <2>1. s = {} => size[s] = 0
    OBVIOUS
  <2>2. s # {} => size[s] = Max(s)
    OBVIOUS
  <2> HIDE DEF size
  <2> QED
    BY <2>1, <2>2, LastPlace
<1>3. size \in [D -> Nat] /\ bound \in Nat /\ \A s \in D : size[s] < bound
  <2>1. ASSUME NEW s \in D PROVE size[s] \in 0 .. Len(d)
    <3> HIDE DEF size, D
    <3> QED
      BY <1>1, <1>2, SMTT(30)
  <2>2. size = [s \in D |-> size[s]]
    OBVIOUS
  <2> HIDE DEF size, D
  <2>3. size \in [D -> Nat]
    BY <1>1, <2>1, <2>2
  <2>4. \A s \in D : size[s] < bound
    BY <1>1, <2>1, SMTT(30)
  <2> QED
    BY <1>1, <2>3, <2>4
<1>4. ASSUME NEW f \in [D -> Nat], NEW s \in D PROVE turn(f, s) \in Nat
  <2>1. CASE s = {}
    BY <2>1
  <2>2. CASE s # {}
    <3>1. PICK m \in 1 .. Len(d) : m = Max(s) /\ d[m] \in Nat
      BY <2>2, LastPlace
    <3>2. s \ {m} \in D
      OBVIOUS
    <3>3. f[s \ {m}] \in Nat
      <4> HIDE DEF D
      <4> QED
        BY <3>2
    <3>4. PICK n \in Nat : n = 10 * f[s \ {m}] + d[m]
      <4>1. PICK w \in Nat, x \in Nat : w = f[s \ {m}] /\ x = d[m]
        BY <3>1, <3>3
      <4>2. 10 * w + x \in Nat
        OBVIOUS
      <4> QED
        BY <4>1, <4>2
    <3>5. h[n] \in Nat
      OBVIOUS
    <3> QED
      BY <2>2, <3>1, <3>4, <3>5
  <2> QED
    BY <2>1, <2>2
<1>5. H \in [[D -> Nat] \X D -> Nat]
  <2> HIDE DEF turn, D
  <2> QED
    BY <1>4
<1>6. ASSUME NEW g \in [D -> Nat], NEW e \in [D -> Nat], NEW s \in D,
             \A y \in D : size[y] < size[s] => g[y] = e[y]
      PROVE  H[<<g, s>>] = H[<<e, s>>]
  <2>1. ASSUME s # {} PROVE g[s \ {Max(s)}] = e[s \ {Max(s)}]
    <3>1. PICK m \in 1 .. Len(d) : m = Max(s) /\ m \in s /\ size[s] = m /\ \A y \in s : y <= m
      BY <1>2, <2>1
    <3>2. PICK u \in D : u = s \ {m}
      OBVIOUS
    <3>3. size[u] < m
      <4>1. CASE u = {}
        <5>1. size[u] = 0
          BY <4>1, <1>2
        <5>2. 0 < m
          OBVIOUS
        <5> HIDE DEF size, D
        <5> QED
          BY <5>1, <5>2, Zenon
      <4>2. CASE u # {}
        <5>1. PICK k \in 1 .. Len(d) : size[u] = k /\ k \in u
          BY <1>2, <4>2
        <5>2. k <= m /\ k # m
          BY <3>1, <3>2, <5>1
        <5>3. k < m
          BY <5>2
        <5> HIDE DEF size, D
        <5> QED
          BY <5>1, <5>3, Zenon
      <4> QED
        BY <4>1, <4>2
    <3> HIDE DEF size
    <3>4. g[u] = e[u]
      BY <1>6, <3>1, <3>3
    <3> QED
      BY <3>1, <3>2, <3>4
  <2>2. turn(g, s) = turn(e, s)
    BY <2>1
  <2>3. H[<<g, s>>] = turn(g, s) /\ H[<<e, s>>] = turn(e, s)
    <3> HIDE DEF turn, D
    <3> QED
      OBVIOUS
  <2> QED
    BY <2>2, <2>3
<1>7. HasFunction(D, Nat, H)
  <2> HIDE DEF D, H, size, bound
  <2>1. IsRecursion(D, Nat, size, bound, H)
    BY <1>3, <1>5, <1>6 DEF IsRecursion
  <2> QED
    BY <2>1, RecursiveFunction
<1>8. PICK f \in [D -> Nat] : \A s \in D : f[s] = H[<<f, s>>]
  BY <1>7 DEF HasFunction
<1>9. \A s \in D : f[s] = turn(f, s)
  <2> HIDE DEF turn, D
  <2> QED
    BY <1>8
<1> QED
  BY <1>8, <1>9 DEF FoldsDigits

\* The places before one.
LEMMA PlacesBefore ==
  ASSUME NEW d \in Seq(0 .. 9), NEW k \in 1 .. Len(d)
  PROVE  \E s \in SUBSET (DOMAIN d) : s = 1 .. k /\ s # {} /\ Max(s) = k /\ s \ {k} = 1 .. k - 1
<1>1. PICK s \in SUBSET (DOMAIN d) : s = 1 .. k
  <2>1. 1 .. k \in SUBSET (DOMAIN d)
    OBVIOUS
  <2> QED
    BY <2>1
<1>2. k \in s
  BY <1>1
<1>3. PICK m \in 1 .. Len(d) : m = Max(s) /\ m \in s /\ \A y \in s : y <= m
  BY <1>2, LastPlace
<1>4. m <= k /\ k <= m
  BY <1>1, <1>2, <1>3
<1>5. m = k
  BY <1>4
<1>6. ASSUME NEW y PROVE y \in s \ {k} <=> y \in 1 .. k - 1
  BY <1>1
<1> QED
  BY <1>1, <1>2, <1>3, <1>5, <1>6

\* g[k] is what the first k digits say.
Says(d, g) ==
  /\ g \in [0 .. Len(d) -> Nat] /\ g[0] = 0
  /\ \A k \in 1 .. Len(d) : g[k] = 10 * g[k - 1] + d[k]

\* g[k] is the word after k digits, of so many words.
Accumulates(d, words, g) ==
  /\ g \in [0 .. Len(d) -> Nat] /\ g[0] = 0
  /\ \A k \in 1 .. Len(d) : g[k] = (10 * g[k - 1] + d[k]) % words

\* What the text says, digit by digit.
LEMMA MagnitudeEquation ==
  ASSUME NEW d \in Seq(0 .. 9), d = literal.digits
  PROVE  \E g : Says(d, g) /\ Magnitude = g[Len(d)]
<1> DEFINE D == SUBSET (DOMAIN d)
           h == [n \in Nat |-> n]
           turn(f, s) == IF s = {} THEN 0 ELSE 10 * f[s \ {Max(s)}] + d[Max(s)]
           iter == CHOOSE f : f = [s \in D |-> turn(f, s)]
           g == [k \in 0 .. Len(d) |-> iter[1 .. k]]
<1>1. PICK f : FoldsDigits(d, h, f)
  <2>1. h \in [Nat -> Nat]
    OBVIOUS
  <2> HIDE DEF h
  <2> QED
    BY <2>1, DigitsFold
<1>2. f = [s \in D |-> turn(f, s)]
  <2>1. ASSUME NEW s \in D PROVE f[s] = turn(f, s)
    <3>1. CASE s = {}
      BY <1>1, <3>1 DEF FoldsDigits
    <3>2. CASE s # {}
      <4>1. PICK m \in 1 .. Len(d) : m = Max(s) /\ d[m] \in Nat
        BY <3>2, LastPlace
      <4>2. f[s] = h[10 * f[s \ {m}] + d[m]]
        BY <1>1, <3>2, <4>1 DEF FoldsDigits
      <4>3. f[s \ {m}] \in Nat
        BY <1>1 DEF FoldsDigits
      <4> QED
        BY <3>2, <4>1, <4>2, <4>3
    <3> QED
      BY <3>1, <3>2
  <2>2. f = [s \in D |-> f[s]]
    BY <1>1 DEF FoldsDigits
  <2> HIDE DEF turn, D
  <2> QED
    BY <2>1, <2>2
<1>3. \A s \in D : iter[s] = turn(iter, s)
  <2>1. iter = [s \in D |-> turn(iter, s)]
    <3> HIDE DEF turn, D
    <3> QED
      BY <1>2
  <2> HIDE DEF turn, D, iter
  <2> QED
    BY <2>1
<1>4. Magnitude = iter[DOMAIN d]
  BY DEF Magnitude, FoldLeft, MapThenFoldSet
<1> HIDE DEF iter
<1>5. g[0] = 0
  <2>1. 1 .. 0 = {} /\ {} \in D /\ 0 \in 0 .. Len(d)
    OBVIOUS
  <2>2. iter[{}] = 0
    BY <1>3, <2>1
  <2> QED
    BY <2>1, <2>2
<1>6. ASSUME NEW k \in 1 .. Len(d) PROVE g[k] = 10 * g[k - 1] + d[k]
  <2>1. PICK s \in D : s = 1 .. k /\ s # {} /\ Max(s) = k /\ s \ {k} = 1 .. k - 1
    BY PlacesBefore
  <2>2. iter[s] = 10 * iter[1 .. k - 1] + d[k]
    BY <1>3, <2>1
  <2>3. g[k] = iter[s] /\ g[k - 1] = iter[1 .. k - 1]
    BY <2>1
  <2> QED
    BY <2>2, <2>3
<1>7. Magnitude = g[Len(d)]
  BY <1>4
<1>8. g = [k \in 0 .. Len(d) |-> g[k]]
  OBVIOUS
<1> HIDE DEF g
<1> DEFINE T == {k \in Nat : k <= Len(d) => g[k] \in Nat}
<1>9. ASSUME NEW k \in Nat, \A m \in 0 .. k - 1 : m \in T PROVE k \in T
  <2> SUFFICES ASSUME k <= Len(d), k # 0 PROVE g[k] \in Nat
    BY <1>5
  <2>1. PICK m \in 0 .. k - 1 : m = k - 1
    OBVIOUS
  <2>2. m \in T /\ m <= Len(d)
    BY <1>9, <2>1
  <2>3. PICK w \in Nat : w = g[m]
    BY <2>2
  <2>4. PICK x \in Nat : x = d[k]
    <3>1. d[k] \in 0 .. 9
      OBVIOUS
    <3> QED
      BY <3>1
  <2>5. g[k] = 10 * w + x
    BY <1>6, <2>1, <2>3, <2>4
  <2> QED
    BY <2>3, <2>4, <2>5
<1>10. \A k \in Nat : k \in T
  <2> HIDE DEF T
  <2> QED
    BY <1>9, Induction
<1>11. g \in [0 .. Len(d) -> Nat]
  BY <1>8, <1>10
<1> QED
  BY <1>5, <1>6, <1>7, <1>11 DEF Says

\* What is less than w is its own remainder.
LEMMA SmallModulo ==
  ASSUME NEW w \in Nat, NEW n \in Nat, n < w
  PROVE  n % w = n
OBVIOUS

\* A remainder is a number.
LEMMA ModuloType ==
  ASSUME NEW w \in Nat \ {0}, NEW n \in Nat
  PROVE  n % w \in Nat
OBVIOUS

\* What is left of a negative number.
LEMMA NegativeModulo ==
  ASSUME NEW w \in Nat, NEW n \in Nat, 0 < n, n < w
  PROVE  (-n) % w = w - n
OBVIOUS

\* The word, digit by digit.
LEMMA WordEquation ==
  ASSUME NEW d \in Seq(0 .. 9), d = literal.digits, format.words \in Nat \ {0}
  PROVE  \E g : Accumulates(d, format.words, g) /\ Accumulated = g[Len(d)]
<1> DEFINE D == SUBSET (DOMAIN d)
           h == [n \in Nat |-> n % format.words]
           turn(f, s) == IF s = {} THEN 0 ELSE (10 * f[s \ {Max(s)}] + d[Max(s)]) % format.words
           iter == CHOOSE f : f = [s \in D |-> turn(f, s)]
           g == [k \in 0 .. Len(d) |-> iter[1 .. k]]
<1>1. PICK f : FoldsDigits(d, h, f)
  <2>1. h \in [Nat -> Nat]
    BY ModuloType
  <2> HIDE DEF h
  <2> QED
    BY <2>1, DigitsFold
<1>2. f = [s \in D |-> turn(f, s)]
  <2>1. ASSUME NEW s \in D PROVE f[s] = turn(f, s)
    <3>1. CASE s = {}
      BY <1>1, <3>1 DEF FoldsDigits
    <3>2. CASE s # {}
      <4>1. PICK m \in 1 .. Len(d) : m = Max(s) /\ d[m] \in Nat
        BY <3>2, LastPlace
      <4>2. f[s] = h[10 * f[s \ {m}] + d[m]]
        BY <1>1, <3>2, <4>1 DEF FoldsDigits
      <4>3. f[s \ {m}] \in Nat
        BY <1>1 DEF FoldsDigits
      <4> QED
        BY <3>2, <4>1, <4>2, <4>3
    <3> QED
      BY <3>1, <3>2
  <2>2. f = [s \in D |-> f[s]]
    BY <1>1 DEF FoldsDigits
  <2> HIDE DEF turn, D
  <2> QED
    BY <2>1, <2>2
<1>3. \A s \in D : iter[s] = turn(iter, s)
  <2>1. iter = [s \in D |-> turn(iter, s)]
    <3> HIDE DEF turn, D
    <3> QED
      BY <1>2
  <2> HIDE DEF turn, D, iter
  <2> QED
    BY <2>1
<1>4. Accumulated = iter[DOMAIN d]
  BY DEF Accumulated, Modulo, FoldLeft, MapThenFoldSet
<1> HIDE DEF iter
<1>5. g[0] = 0
  <2>1. 1 .. 0 = {} /\ {} \in D /\ 0 \in 0 .. Len(d)
    OBVIOUS
  <2>2. iter[{}] = 0
    BY <1>3, <2>1
  <2> QED
    BY <2>1, <2>2
<1>6. ASSUME NEW k \in 1 .. Len(d) PROVE g[k] = (10 * g[k - 1] + d[k]) % format.words
  <2>1. PICK s \in D : s = 1 .. k /\ s # {} /\ Max(s) = k /\ s \ {k} = 1 .. k - 1
    BY PlacesBefore
  <2>2. iter[s] = (10 * iter[1 .. k - 1] + d[k]) % format.words
    BY <1>3, <2>1
  <2>3. g[k] = iter[s] /\ g[k - 1] = iter[1 .. k - 1]
    BY <2>1
  <2> QED
    BY <2>2, <2>3
<1>7. Accumulated = g[Len(d)]
  BY <1>4
<1>8. g = [k \in 0 .. Len(d) |-> g[k]]
  OBVIOUS
<1> HIDE DEF g
<1> DEFINE T == {k \in Nat : k <= Len(d) => g[k] \in Nat}
<1>9. ASSUME NEW k \in Nat, \A m \in 0 .. k - 1 : m \in T PROVE k \in T
  <2> SUFFICES ASSUME k <= Len(d), k # 0 PROVE g[k] \in Nat
    BY <1>5
  <2>1. PICK m \in 0 .. k - 1 : m = k - 1
    OBVIOUS
  <2>2. m \in T /\ m <= Len(d)
    BY <1>9, <2>1
  <2>3. PICK w \in Nat : w = g[m]
    BY <2>2
  <2>4. PICK x \in Nat : x = d[k]
    <3>1. d[k] \in 0 .. 9
      OBVIOUS
    <3> QED
      BY <3>1, SMTT(30)
  <2>5. g[k] = (10 * w + x) % format.words
    BY <1>6, <2>1, <2>3, <2>4
  <2>6. PICK n \in Nat : n = 10 * w + x
    OBVIOUS
  <2>7. n % format.words \in Nat
    BY ModuloType
  <2> QED
    BY <2>5, <2>6, <2>7
<1>10. \A k \in Nat : k \in T
  <2> HIDE DEF T
  <2> QED
    BY <1>9, Induction
<1>11. g \in [0 .. Len(d) -> Nat]
  BY <1>8, <1>10
<1> QED
  BY <1>5, <1>6, <1>7, <1>11 DEF Accumulates

\* p has the powers of 10 up to that of n.
Powers(n, p) == /\ p \in [0 .. n -> Nat] /\ p[0] = 1
                /\ \A k \in 1 .. n : p[k] = 10 * p[k - 1]

\* Power10 computes them.
LEMMA PowerEquation ==
  ASSUME NEW n \in Nat
  PROVE  \E p : Powers(n, p) /\ Power10(n) = p[n]
<1> DEFINE D == 0 .. n
           turn(f, k) == IF k = 0 THEN 1 ELSE 10 * f[k - 1]
           H == [q \in [D -> Nat] \X D |-> turn(q[1], q[2])]
           size == [k \in D |-> k]
           power == CHOOSE f : f = [k \in D |-> turn(f, k)]
<1>1. ASSUME NEW f \in [D -> Nat], NEW k \in D PROVE turn(f, k) \in Nat
  <2>1. CASE k = 0
    BY <2>1
  <2>2. CASE k # 0
    <3>1. k - 1 \in D
      BY <2>2
    <3>2. PICK w \in Nat : w = f[k - 1]
      <4> HIDE DEF D
      <4> QED
        BY <3>1
    <3> QED
      BY <2>2, <3>2
  <2> QED
    BY <2>1, <2>2
<1>2. H \in [[D -> Nat] \X D -> Nat]
  <2> HIDE DEF turn, D
  <2> QED
    BY <1>1
<1>3. ASSUME NEW g \in [D -> Nat], NEW e \in [D -> Nat], NEW k \in D,
             \A y \in D : size[y] < size[k] => g[y] = e[y]
      PROVE  H[<<g, k>>] = H[<<e, k>>]
  <2>1. ASSUME k # 0 PROVE g[k - 1] = e[k - 1]
    <3>1. k - 1 \in D /\ size[k - 1] < size[k]
      BY <2>1
    <3> QED
      BY <1>3, <3>1
  <2>2. turn(g, k) = turn(e, k)
    BY <2>1
  <2>3. H[<<g, k>>] = turn(g, k) /\ H[<<e, k>>] = turn(e, k)
    <3> HIDE DEF turn, D
    <3> QED
      OBVIOUS
  <2> QED
    BY <2>2, <2>3
<1>4. HasFunction(D, Nat, H)
  <2>1. size \in [D -> Nat] /\ n + 1 \in Nat /\ \A k \in D : size[k] < n + 1
    OBVIOUS
  <2> HIDE DEF D, H, size
  <2>2. IsRecursion(D, Nat, size, n + 1, H)
    BY <1>2, <1>3, <2>1 DEF IsRecursion
  <2> QED
    BY <2>2, RecursiveFunction
<1>5. PICK f \in [D -> Nat] : \A k \in D : f[k] = H[<<f, k>>]
  BY <1>4 DEF HasFunction
<1>6. f = [k \in D |-> turn(f, k)]
  <2> HIDE DEF turn, D
  <2>1. \A k \in D : f[k] = turn(f, k)
    BY <1>5
  <2> QED
    BY <2>1
<1>7. power = [k \in D |-> turn(power, k)]
  <2> HIDE DEF turn, D
  <2> QED
    BY <1>6
<1>8. Power10(n) = power[n]
  BY DEF Power10
<1> HIDE DEF power
<1>9. power[0] = 1 /\ \A k \in 1 .. n : power[k] = 10 * power[k - 1]
  <2>1. \A k \in D : power[k] = turn(power, k)
    <3> HIDE DEF turn, D
    <3> QED
      BY <1>7
  <2> QED
    BY <2>1
<1> DEFINE T == {k \in Nat : k <= n => power[k] \in Nat}
<1>10. ASSUME NEW k \in Nat, \A m \in 0 .. k - 1 : m \in T PROVE k \in T
  <2> SUFFICES ASSUME k <= n, k # 0 PROVE power[k] \in Nat
    BY <1>9
  <2>1. k - 1 \in T /\ k - 1 <= n /\ k \in 1 .. n
    BY <1>10
  <2>2. PICK w \in Nat : w = power[k - 1]
    BY <2>1
  <2> QED
    BY <1>9, <2>1, <2>2
<1>11. \A k \in Nat : k \in T
  <2> HIDE DEF T
  <2> QED
    BY <1>10, Induction
<1>12. power \in [0 .. n -> Nat]
  <2>1. power = [k \in D |-> power[k]]
    <3> HIDE DEF turn, D
    <3> QED
      BY <1>7
  <2> QED
    BY <1>11, <2>1
<1> QED
  BY <1>8, <1>9, <1>12 DEF Powers

\* A power of 10 is no less than the ones before it.
LEMMA PowersGrow ==
  ASSUME NEW n \in Nat, NEW p, Powers(n, p)
  PROVE  \A k \in 0 .. n : p[k] \in Nat /\ p[k] <= p[n]
<1>1. \A k \in 0 .. n : p[k] \in Nat
  BY DEF Powers
<1> DEFINE T == {i \in Nat : i <= n => p[n - i] <= p[n]}
<1>2. ASSUME NEW i \in Nat, \A m \in 0 .. i - 1 : m \in T PROVE i \in T
  <2> SUFFICES ASSUME i <= n, i # 0 PROVE p[n - i] <= p[n]
    BY <1>1
  <2>1. i - 1 \in T /\ i - 1 <= n
    BY <1>2
  <2>2. PICK k \in 1 .. n : k = n - (i - 1) /\ k - 1 = n - i
    OBVIOUS
  <2>3. PICK x \in Nat, y \in Nat, z \in Nat : x = p[k - 1] /\ y = p[k] /\ z = p[n]
    BY <1>1
  <2>4. y = 10 * x
    BY <2>3 DEF Powers
  <2>5. y <= z
    BY <2>1, <2>2, <2>3
  <2> QED
    BY <2>2, <2>3, <2>4, <2>5
<1>3. \A i \in Nat : i \in T
  <2> HIDE DEF T
  <2> QED
    BY <1>2, Induction
<1>4. ASSUME NEW k \in 0 .. n PROVE p[k] <= p[n]
  <2>1. n - k \in Nat /\ n - k <= n /\ n - (n - k) = k
    OBVIOUS
  <2>2. n - k \in T
    BY <1>3, <2>1
  <2> QED
    BY <2>1, <2>2
<1> QED
  BY <1>1, <1>4

\* So many digits say less than the power of their number.
LEMMA FewDigits ==
  ASSUME NEW d \in Seq(0 .. 9), NEW g, Says(d, g), NEW n \in Nat, NEW p, Powers(n, p)
  PROVE  \A k \in 0 .. Len(d) : k <= n => g[k] < p[k] /\ g[k] < p[n]
<1> DEFINE T == {k \in Nat : k <= Len(d) /\ k <= n => g[k] < p[k]}
<1>1. ASSUME NEW k \in Nat, \A m \in 0 .. k - 1 : m \in T PROVE k \in T
  <2> SUFFICES ASSUME k <= Len(d), k <= n PROVE g[k] < p[k]
    OBVIOUS
  <2>1. CASE k = 0
    BY <2>1 DEF Says, Powers
  <2>2. CASE k # 0
    <3>1. k - 1 \in T /\ k - 1 <= Len(d) /\ k - 1 <= n
      BY <1>1, <2>2
    <3>2. PICK x \in Nat, y \in Nat : x = g[k - 1] /\ y = p[k - 1]
      <4>1. k - 1 \in 0 .. Len(d) /\ k - 1 \in 0 .. n
        BY <2>2
      <4>2. g[k - 1] \in Nat /\ p[k - 1] \in Nat
        BY <4>1 DEF Says, Powers
      <4> QED
        BY <4>2
    <3>3. PICK e \in 0 .. 9 : e = d[k]
      BY <2>2
    <3>4. g[k] = 10 * x + e /\ p[k] = 10 * y
      BY <2>2, <3>2, <3>3 DEF Says, Powers
    <3>5. x < y
      BY <3>1, <3>2
    <3> QED
      BY <3>4, <3>5
  <2> QED
    BY <2>1, <2>2
<1>2. \A k \in Nat : k \in T
  <2> HIDE DEF T
  <2> QED
    BY <1>1, Induction
<1>3. ASSUME NEW k \in 0 .. Len(d), k <= n PROVE g[k] < p[k] /\ g[k] < p[n]
  <2>1. k \in T
    BY <1>2
  <2>2. PICK x \in Nat, y \in Nat, z \in Nat : x = g[k] /\ y = p[k] /\ z = p[n]
    BY <1>3 DEF Says, Powers
  <2>3. x < y /\ y <= z
    BY <1>3, <2>1, <2>2, PowersGrow
  <2> QED
    BY <2>2, <2>3
<1> QED
  BY <1>3

\* One digit more, the first not being 0, says no less than that power.
LEMMA ManyDigits ==
  ASSUME NEW d \in Seq(0 .. 9), NEW g, Says(d, g), NEW n \in Nat, NEW p, Powers(n, p),
         Len(d) > n, d[1] # 0
  PROVE  g[Len(d)] >= p[n]
<1>1. ASSUME NEW k \in 1 .. Len(d)
      PROVE  \E x \in Nat, e \in 0 .. 9 : x = g[k - 1] /\ e = d[k] /\ g[k] = 10 * x + e
  <2>1. k - 1 \in 0 .. Len(d)
    OBVIOUS
  <2>2. g[k - 1] \in Nat
    BY <2>1 DEF Says
  <2>3. d[k] \in 0 .. 9
    OBVIOUS
  <2> QED
    BY <2>2, <2>3 DEF Says
<1> DEFINE T == {k \in Nat : k <= n => g[k + 1] >= p[k]}
<1>2. ASSUME NEW k \in Nat, \A m \in 0 .. k - 1 : m \in T PROVE k \in T
  <2> SUFFICES ASSUME k <= n PROVE g[k + 1] >= p[k]
    OBVIOUS
  <2>1. CASE k = 0
    <3>1. g[1] = 10 * 0 + d[1] /\ p[0] = 1 /\ d[1] \in 0 .. 9
      BY DEF Says, Powers
    <3> QED
      BY <2>1, <3>1
  <2>2. CASE k # 0
    <3>1. k - 1 \in T /\ k - 1 <= n /\ k - 1 + 1 = k
      BY <1>2, <2>2
    <3>2. PICK x \in Nat, e \in 0 .. 9 : x = g[k] /\ g[k + 1] = 10 * x + e
      <4>1. k + 1 \in 1 .. Len(d) /\ k + 1 - 1 = k
        OBVIOUS
      <4> QED
        BY <1>1, <4>1
    <3>3. PICK y \in Nat : y = p[k - 1] /\ p[k] = 10 * y
      <4>1. k \in 1 .. n /\ k - 1 \in 0 .. n
        BY <2>2
      <4>2. p[k - 1] \in Nat
        BY <4>1 DEF Powers
      <4> QED
        BY <4>1, <4>2 DEF Powers
    <3>4. x >= y
      BY <3>1, <3>2, <3>3
    <3>5. 10 * x + e >= 10 * y
      BY <3>4
    <3> QED
      BY <3>2, <3>3, <3>5
  <2> QED
    BY <2>1, <2>2
<1>3. \A k \in Nat : k \in T
  <2> HIDE DEF T
  <2> QED
    BY <1>2, Induction
<1>4. g[n + 1] >= p[n]
  BY <1>3
<1> DEFINE U == {k \in Nat : n + 1 + k <= Len(d) => g[n + 1 + k] >= p[n]}
<1>5. ASSUME NEW k \in Nat, \A m \in 0 .. k - 1 : m \in U PROVE k \in U
  <2> SUFFICES ASSUME n + 1 + k <= Len(d), k # 0 PROVE g[n + 1 + k] >= p[n]
    BY <1>4
  <2>1. PICK m \in 0 .. k - 1 : m = k - 1
    OBVIOUS
  <2>2. m \in U
    BY <1>5, <2>1
  <2>3. PICK x \in Nat, e \in 0 .. 9 : x = g[n + 1 + m] /\ g[n + 1 + k] = 10 * x + e
    <3>1. PICK q \in 1 .. Len(d) : q = n + 1 + k /\ q - 1 = n + 1 + m
      <4>1. n + 1 + k \in 1 .. Len(d) /\ n + 1 + k - 1 = n + 1 + m
        BY <2>1
      <4> QED
        BY <4>1
    <3>2. PICK x \in Nat, e \in 0 .. 9 : x = g[q - 1] /\ g[q] = 10 * x + e
      BY <1>1
    <3> QED
      BY <3>1, <3>2
  <2>4. PICK y \in Nat : y = p[n]
    BY DEF Powers
  <2>5. x >= y
    <3>1. n + 1 + m <= Len(d)
      BY <2>1
    <3> QED
      BY <2>2, <2>3, <2>4, <3>1
  <2>6. 10 * x + e >= y
    BY <2>5
  <2> QED
    BY <2>3, <2>4, <2>6
<1>6. \A k \in Nat : k \in U
  <2> HIDE DEF U
  <2> QED
    BY <1>5, Induction
<1>7. PICK k \in Nat : n + 1 + k = Len(d)
  <2>1. Len(d) - (n + 1) \in Nat /\ n + 1 + (Len(d) - (n + 1)) = Len(d)
    OBVIOUS
  <2> QED
    BY <2>1
<1>8. k \in U
  BY <1>6
<1> QED
  BY <1>7, <1>8

\* A word that never overflows has what the digits say.
LEMMA NoOverflow ==
  ASSUME NEW d \in Seq(0 .. 9), NEW g, Says(d, g), NEW w \in Nat \ {0}, NEW a, Accumulates(d, w, a),
         \A k \in 0 .. Len(d) : g[k] < w
  PROVE  a[Len(d)] = g[Len(d)]
<1> DEFINE T == {k \in Nat : k <= Len(d) => a[k] = g[k]}
<1>1. ASSUME NEW k \in Nat, \A m \in 0 .. k - 1 : m \in T PROVE k \in T
  <2> SUFFICES ASSUME k <= Len(d) PROVE a[k] = g[k]
    OBVIOUS
  <2>1. CASE k = 0
    BY <2>1 DEF Says, Accumulates
  <2>2. CASE k # 0
    <3>1. k - 1 \in T /\ k - 1 <= Len(d)
      BY <1>1, <2>2
    <3>2. PICK n \in Nat : n = g[k] /\ n < w /\ n = 10 * g[k - 1] + d[k]
      BY <2>2 DEF Says
    <3>3. a[k] = (10 * a[k - 1] + d[k]) % w
      BY <2>2 DEF Accumulates
    <3>4. a[k] = n % w
      BY <3>1, <3>2, <3>3
    <3>5. n % w = n
      BY <3>2, SmallModulo
    <3> QED
      BY <3>2, <3>4, <3>5
  <2> QED
    BY <2>1, <2>2
<1>2. \A k \in Nat : k \in T
  <2> HIDE DEF T
  <2> QED
    BY <1>1, Induction
<1> QED
  BY <1>2

\* A literal has a sign, digits, and something behind them.
LEMMA LiteralTypes ==
  ASSUME literal \in Literals
  PROVE  /\ literal.digits \in Seq(0 .. 9) /\ literal.negative \in BOOLEAN
         /\ literal.next \in {"end", "fraction", "other"}
BY LiteralsAssumption

\* What the digits say in the end, what the word has, and what fits.
LEMMA NumberFacts ==
  ASSUME literal \in Literals, format \in Formats
  PROVE  \E half \in Nat, m \in Nat, a \in Nat :
           /\ half > 0 /\ format.words = 2 * half /\ IntegerMax = half - 1
           /\ m = Magnitude /\ a = Accumulated
           /\ Len(literal.digits) <= format.longest => a = m
           /\ IsInteger /\ Len(literal.digits) > format.longest => m > half
<1>1. PICK d \in Seq(0 .. 9) : d = literal.digits
  BY LiteralTypes
<1>2. PICK w \in Nat, n \in Nat, half \in Nat :
        /\ w = format.words /\ w = 2 * half /\ n = format.longest
        /\ half < Power10(n) /\ Power10(n) <= w /\ IntegerMax = half - 1
  <2>1. PICK w \in Nat, n \in Nat : w = format.words /\ n = format.longest /\ w % 2 = 0
                                  /\ w \div 2 < Power10(n) /\ Power10(n) <= w
    BY FormatsAssumption
  <2>2. w \div 2 \in Nat /\ w = 2 * (w \div 2)
    BY <2>1
  <2> QED
    BY <2>1, <2>2 DEF IntegerMax
<1>3. PICK p : Powers(n, p) /\ Power10(n) = p[n]
  BY PowerEquation
<1>4. PICK t \in Nat : t = p[n] /\ half < t /\ t <= w /\ \A k \in 0 .. n : p[k] <= t
  <2>1. p[n] \in Nat
    BY <1>3 DEF Powers
  <2>2. \A k \in 0 .. n : p[k] <= p[n]
    BY <1>3, PowersGrow
  <2> QED
    BY <1>2, <1>3, <2>1, <2>2
<1>5. half > 0 /\ w \in Nat \ {0} /\ n # 0
  <2>1. w > 0 /\ half > 0
    BY <1>2, <1>4
  <2>2. n # 0
    BY <1>3, <1>4, <2>1 DEF Powers
  <2> QED
    BY <2>1, <2>2
<1>6. PICK g : Says(d, g) /\ Magnitude = g[Len(d)]
  BY <1>1, MagnitudeEquation
<1>7. PICK e : Accumulates(d, w, e) /\ Accumulated = e[Len(d)]
  BY <1>1, <1>2, <1>5, WordEquation
<1>8. PICK m \in Nat, a \in Nat : m = Magnitude /\ a = Accumulated
  BY <1>6, <1>7 DEF Says, Accumulates
<1>9. ASSUME Len(d) <= n PROVE a = m
  <2>1. ASSUME NEW k \in 0 .. Len(d) PROVE g[k] < w
    <3>1. PICK x \in Nat : x = g[k]
      BY <1>6 DEF Says
    <3>2. x < t
      BY <1>3, <1>4, <1>6, <1>9, <3>1, FewDigits
    <3> QED
      BY <1>4, <3>1, <3>2
  <2>2. e[Len(d)] = g[Len(d)]
    BY <1>5, <1>6, <1>7, <2>1, NoOverflow
  <2> QED
    BY <1>6, <1>7, <1>8, <2>2
<1>10. ASSUME IsInteger, Len(d) > n PROVE m > half
  <2>1. d[1] # 0
    <3>1. d[1] = 0 => Len(d) = 1
      BY <1>1, <1>10 DEF IsInteger
    <3>2. Len(d) # 1
      <4>1. PICK l \in Nat : l = Len(d)
        OBVIOUS
      <4>2. l > n
        BY <1>10, <4>1
      <4>3. l # 1
        BY <1>5, <4>2
      <4> QED
        BY <4>1, <4>3
    <3> QED
      BY <3>1, <3>2
  <2>2. m >= t
    BY <1>3, <1>4, <1>6, <1>8, <1>10, <2>1, ManyDigits
  <2> QED
    BY <1>4, <2>2
<1> QED
  BY <1>1, <1>2, <1>5, <1>8, <1>9, <1>10

\* The literal and the format are those of the instance.
NumberTypes == literal \in Literals /\ format \in Formats

\* The number is in the range of a word with a sign.
Fits == WrittenNumber \in -IntegerMax - 1 .. IntegerMax

\* The word of a literal that is accepted.
Word == IF literal.negative THEN Modulo(-Accumulated) ELSE Accumulated

\* A word that is not greater than the limit has, as an integer, what was written.
LEMMA WordIsExact ==
  ASSUME NEW half \in Nat, NEW m \in Nat, half > 0, format.words = 2 * half,
         IntegerMax = half - 1, m = Magnitude, m = Accumulated, literal.negative \in BOOLEAN,
         m <= half - 1 + (IF literal.negative THEN 1 ELSE 0)
  PROVE  Signed(Word) = WrittenNumber
<1>1. CASE ~literal.negative
  <2>1. Word = m /\ WrittenNumber = m
    BY <1>1 DEF Word, WrittenNumber
  <2>2. m <= half - 1
    BY <1>1
  <2> QED
    BY <2>1, <2>2 DEF Signed
<1>2. CASE literal.negative
  <2>1. WrittenNumber = -m /\ Word = (-m) % (2 * half)
    BY <1>2 DEF Word, WrittenNumber, Modulo
  <2>2. m <= half
    BY <1>2
  <2>3. CASE m = 0
    <3>1. (-m) % (2 * half) = 0
      BY <2>3
    <3> QED
      BY <2>1, <2>3, <3>1 DEF Signed
  <2>4. CASE m # 0
    <3>1. (-m) % (2 * half) = 2 * half - m
      <4>1. 2 * half \in Nat /\ 0 < m /\ m < 2 * half
        BY <2>2, <2>4
      <4> QED
        BY <4>1, NegativeModulo
    <3>2. 2 * half - m > half - 1
      BY <2>2
    <3> QED
      BY <2>1, <3>1, <3>2 DEF Signed
  <2> QED
    BY <2>3, <2>4
<1> QED
  BY <1>1, <1>2

\* What a parse does: it refuses what is no integer that fits, and has the others
\* exactly.
Refuses == ~(IsInteger /\ Fits) /\ \E code : code \notin {"SUCCESS", "none"} /\ Failed(code)
Accepts == /\ IsInteger /\ Fits /\ Signed(Word) = WrittenNumber
           /\ parsed' = [error |-> "SUCCESS", word |-> Word]

\* A literal is an integer when these tests are passed.
Short == Len(literal.digits) # 0 /\ ~(Len(literal.digits) > LongestDigits)
Canonical == ~(literal.digits[1] = 0 /\ Len(literal.digits) > 1)
Over == Accumulated > IntegerMax + (IF literal.negative THEN 1 ELSE 0)

\* The tests in order.
LEMMA ParseTests ==
  ASSUME literal \in Literals, ParseInteger
  PROVE  /\ ~(Short /\ Canonical /\ literal.next = "end" /\ ~Over) =>
              \E code : code \notin {"SUCCESS", "none"} /\ Failed(code)
         /\ Short /\ Canonical /\ literal.next = "end" /\ ~Over =>
              parsed' = [error |-> "SUCCESS", word |-> Word]
<1>1. literal.next \in {"end", "fraction", "other"}
  BY LiteralTypes
<1>2. \/ Failed("INCORRECT_TYPE") /\ ~(Short /\ Canonical /\ literal.next = "end" /\ ~Over)
      \/ Failed("NUMBER_ERROR") /\ ~(Short /\ Canonical /\ literal.next = "end" /\ ~Over)
      \/ /\ parsed' = [error |-> "SUCCESS", word |-> Word]
         /\ Short /\ Canonical /\ literal.next = "end" /\ ~Over
  BY <1>1, Zenon DEF ParseInteger, Short, Canonical, Over, Word
<1>3. "INCORRECT_TYPE" \notin {"SUCCESS", "none"} /\ "NUMBER_ERROR" \notin {"SUCCESS", "none"}
  OBVIOUS
<1> QED
  BY <1>2, <1>3, Zenon

\* One parse is exact, or the text is refused.
LEMMA ParseOutcome ==
  ASSUME NumberTypes, ParseInteger
  PROVE  Refuses \/ Accepts
<1>1. literal \in Literals /\ format \in Formats
  BY DEF NumberTypes
<1>2. PICK half \in Nat, m \in Nat, a \in Nat :
        /\ half > 0 /\ format.words = 2 * half /\ IntegerMax = half - 1
        /\ m = Magnitude /\ a = Accumulated
        /\ Len(literal.digits) <= format.longest => a = m
        /\ IsInteger /\ Len(literal.digits) > format.longest => m > half
  BY <1>1, NumberFacts
<1>3. PICK d \in Seq(0 .. 9), l \in Nat, n \in Nat :
        d = literal.digits /\ l = Len(literal.digits) /\ n = LongestDigits /\ n = format.longest
  <2>1. literal.digits \in Seq(0 .. 9) /\ Len(literal.digits) \in Nat
    BY <1>1, LiteralTypes
  <2>2. format.longest \in Nat
    BY <1>1, FormatsAssumption
  <2> QED
    BY <2>1, <2>2 DEF LongestDigits
<1>4. literal.negative \in BOOLEAN
  BY <1>1, LiteralTypes
<1>5. PICK b \in 0 .. 1 : b = IF literal.negative THEN 1 ELSE 0
  OBVIOUS
<1>6. Fits <=> m <= half - 1 + b
  <2>1. CASE literal.negative
    <3>1. WrittenNumber = -m
      BY <1>2, <2>1 DEF WrittenNumber
    <3> QED
      BY <1>2, <1>5, <2>1, <3>1 DEF Fits
  <2>2. CASE ~literal.negative
    <3>1. WrittenNumber = m
      BY <1>2, <2>2 DEF WrittenNumber
    <3> QED
      BY <1>2, <1>5, <2>2, <3>1 DEF Fits
  <2> QED
    BY <2>1, <2>2
<1>7. IsInteger <=> l # 0 /\ literal.next = "end" /\ Canonical
  <2>1. literal.digits # <<>> <=> l # 0
    BY <1>3
  <2>2. l # 0 => (Canonical <=> (literal.digits[1] = 0 => l = 1))
    <3>1. Canonical <=> ~(literal.digits[1] = 0 /\ l > 1)
      BY <1>3, Zenon DEF Canonical
    <3>2. l # 0 => (l > 1 <=> l # 1)
      OBVIOUS
    <3> QED
      BY <3>1, <3>2, Zenon
  <2> QED
    BY <1>3, <2>1, <2>2 DEF IsInteger
<1>8. Short <=> l # 0 /\ l <= n
  BY <1>3 DEF Short
<1>9. Over <=> a > half - 1 + b
  BY <1>2, <1>5 DEF Over
<1>10. Short => a = m
  BY <1>2, <1>3, <1>8
<1>11. CASE Short /\ Canonical /\ literal.next = "end" /\ ~Over
  <2>1. IsInteger
    BY <1>7, <1>8, <1>11
  <2>2. m = a /\ m <= half - 1 + b
    BY <1>9, <1>10, <1>11
  <2>3. Signed(Word) = WrittenNumber
    BY <1>2, <1>4, <1>5, <2>2, WordIsExact
  <2>4. parsed' = [error |-> "SUCCESS", word |-> Word]
    BY <1>1, <1>11, ParseTests
  <2> QED
    BY <1>6, <2>1, <2>2, <2>3, <2>4 DEF Accepts
<1>12. CASE ~(Short /\ Canonical /\ literal.next = "end" /\ ~Over)
  <2>1. ASSUME IsInteger, Fits PROVE FALSE
    <3>1. l # 0 /\ literal.next = "end" /\ Canonical /\ m <= half - 1 + b
      BY <1>6, <1>7, <2>1
    <3>2. CASE l > n
      <4>1. m > half
        BY <1>2, <1>3, <2>1, <3>2
      <4> QED
        BY <3>1, <4>1
    <3>3. CASE l <= n
      <4>1. Short /\ a = m
        BY <1>8, <1>10, <3>1, <3>3
      <4>2. ~Over
        BY <1>9, <3>1, <4>1
      <4> QED
        BY <1>12, <3>1, <4>1, <4>2
    <3> QED
      BY <3>2, <3>3
  <2>2. \E code : code \notin {"SUCCESS", "none"} /\ Failed(code)
    BY <1>1, <1>12, ParseTests
  <2> QED
    BY <2>1, <2>2, Zenon DEF Refuses
<1> QED
  BY <1>11, <1>12

\* The literal and the format are what they were.
LEMMA SameLiteral ==
  ASSUME literal' = literal, format' = format
  PROVE  (IsInteger' <=> IsInteger) /\ (Fits' <=> Fits) /\ WrittenNumber' = WrittenNumber
         /\ \A word : Signed(word)' = Signed(word)
<1>1. Magnitude' = Magnitude
  BY DEF Magnitude, FoldLeft, MapThenFoldSet
<1>2. IsInteger' <=> IsInteger
  BY DEF IsInteger
<1>3. WrittenNumber' = WrittenNumber
  BY <1>1 DEF WrittenNumber
<1>4. IntegerMax' = IntegerMax
  BY DEF IntegerMax
<1>5. Fits' <=> Fits
  BY <1>3, <1>4 DEF Fits
<1>6. \A word : Signed(word)' = Signed(word)
  BY <1>4 DEF Signed
<1> QED
  BY <1>2, <1>3, <1>5, <1>6

\* For all words and limits that stand to each other as 2^64 and 19 do, parse_integer
\* is exact or refuses (simdjson.h).
THEOREM IntegersAreExact == NumberSpec => []IntegersExactOrRefused
<1> DEFINE Inv == NumberTypes /\ IntegersExactOrRefused
<1>1. NumberInit => Inv
  BY DEF NumberInit, NumberTypes, IntegersExactOrRefused
<1>2. ASSUME Inv, ParseInteger PROVE Inv'
  <2>1. literal' = literal /\ format' = format /\ NumberTypes'
    BY <1>2 DEF NumberTypes, ParseInteger
  <2>2. /\ IsInteger' <=> IsInteger
        /\ Fits' <=> Fits
        /\ WrittenNumber' = WrittenNumber
    BY <2>1, SameLiteral
  <2>3. IntegersExactOrRefused' <=>
          (parsed'.error # "none" =>
             /\ parsed'.error = "SUCCESS" <=> (IsInteger' /\ Fits')
             /\ parsed'.error = "SUCCESS" => Signed(parsed.word)' = WrittenNumber')
    BY DEF IntegersExactOrRefused, Fits
  <2>4. CASE Refuses
    <3>1. parsed'.error \notin {"SUCCESS", "none"} /\ ~(IsInteger /\ Fits)
      BY <2>4 DEF Refuses, Failed
    <3>2. IntegersExactOrRefused'
      BY <2>2, <2>3, <3>1
    <3> QED
      BY <2>1, <3>2
  <2>5. CASE Accepts
    <3>1. parsed' = [error |-> "SUCCESS", word |-> Word]
      BY <2>5 DEF Accepts
    <3>2. Signed(parsed.word)' = Signed(Word)
      BY <2>1, <3>1 DEF Signed, IntegerMax
    <3>3. IntegersExactOrRefused'
      BY <2>2, <2>3, <2>5, <3>1, <3>2 DEF Accepts
    <3> QED
      BY <2>1, <3>3
  <2> QED
    BY <1>2, <2>4, <2>5, ParseOutcome
<1>3. ASSUME Inv, UNCHANGED numberVars PROVE Inv'
  <2>1. literal' = literal /\ format' = format /\ parsed' = parsed
    BY <1>3 DEF numberVars
  <2>2. NumberTypes'
    BY <1>3, <2>1 DEF NumberTypes
  <2>3. IntegersExactOrRefused'
    <3>1. /\ IsInteger' <=> IsInteger
          /\ Fits' <=> Fits
          /\ WrittenNumber' = WrittenNumber
      BY <2>1, SameLiteral
    <3>2. Signed(parsed.word)' = Signed(parsed.word)
      BY <2>1 DEF Signed, IntegerMax
    <3> QED
      BY <1>3, <2>1, <3>1, <3>2 DEF IntegersExactOrRefused, Fits
  <2> QED
    BY <2>2, <2>3
<1>4. Inv => IntegersExactOrRefused
  OBVIOUS
<1>5. Inv /\ [ParseInteger]_numberVars => Inv'
  BY <1>2, <1>3
<1> HIDE DEF Inv
<1> QED
  BY <1>1, <1>4, <1>5, PTL DEF NumberSpec

=============================================================================
