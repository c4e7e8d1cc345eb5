----------------------------- MODULE TextProofs -----------------------------
(***************************************************************************)
(* Stage 1 of simdjson finds the same tokens on every processor: proofs    *)
(* about JsonScanner and JsonLexer, composed in MCJsonText, for texts of   *)
(* any length and words of any even width.  What the declarative reading   *)
(* of MCJsonText says of a text is told by sets of offsets, from which     *)
(* both implementations are shown to read.                                 *)
(***************************************************************************)
EXTENDS MCJsonText, Recursion, FiniteSetTheorems

\* A word has an even number of bits.
IsWidth == width \in Nat \ {0} /\ width % 2 = 0

-----------------------------------------------------------------------------
(* Addition and the runs of backslashes.                                   *)

\* The bits with a carry into them, one by one.
Carried(v, w) == {i \in 0 .. width : Carries(v, w)[i]}
AreCarries(C, v, w) ==
  \A i \in 0 .. width : i \in C <=> i > 0 /\ i - 1 \in IF i - 1 \in C THEN v \cup w ELSE v \cap w

\* Carries has them.
LEMMA CarriesEquation ==
  ASSUME IsWidth, NEW v, NEW w
  PROVE  AreCarries(Carried(v, w), v, w)
<1> USE DEF IsWidth
<1> DEFINE D == 0 .. width
           V == BOOLEAN
           add(f, i) == i > 0 /\ i - 1 \in IF f[i - 1] THEN v \cup w ELSE v \cap w
           H == [a \in [D -> V] \X D |-> add(a[1], a[2])]
           size == [i \in D |-> i]
           bound == width + 1
<1>1. size \in [D -> Nat] /\ bound \in Nat /\ \A i \in D : size[i] < bound
  OBVIOUS
<1>2. V # {} /\ TRUE \in V
  OBVIOUS
<1>3. ASSUME NEW f \in [D -> V], NEW i \in D PROVE add(f, i) \in V
  BY Zenon
<1>4. H \in [[D -> V] \X D -> V]
  <2> HIDE DEF add, D, V
  <2> QED
    BY <1>3
<1>5. \A g, h \in [D -> V], i \in D :
        (\A j \in D : size[j] < size[i] => g[j] = h[j]) => H[<<g, i>>] = H[<<h, i>>]
  <2> SUFFICES ASSUME NEW g \in [D -> V], NEW h \in [D -> V], NEW i \in D,
                      \A j \in D : size[j] < size[i] => g[j] = h[j]
               PROVE  H[<<g, i>>] = H[<<h, i>>]
    OBVIOUS
  <2>1. add(g, i) = add(h, i)
    <3>1. i > 0 => g[i - 1] = h[i - 1]
      <4>1. i > 0 => i - 1 \in D /\ size[i - 1] < size[i]
        OBVIOUS
      <4> QED
        BY <4>1
    <3> QED
      BY <3>1
  <2>2. H[<<g, i>>] = add(g, i) /\ H[<<h, i>>] = add(h, i)
    <3> HIDE DEF add, D, V
    <3> QED
      OBVIOUS
  <2> QED
    BY <2>1, <2>2
<1>6. HasFunction(D, V, H)
  <2> HIDE DEF D, V, H, size, bound
  <2>1. IsRecursion(D, V, size, bound, H)
    BY <1>1, <1>2, <1>4, <1>5 DEF IsRecursion
  <2> QED
    BY <2>1, RecursiveFunction
<1>7. \E f : f = [i \in D |-> add(f, i)]
  <2>1. PICK f \in [D -> V] : \A i \in D : f[i] = H[<<f, i>>]
    BY <1>6 DEF HasFunction
  <2> HIDE DEF add, D, V
  <2>2. \A i \in D : f[i] = add(f, i)
    BY <2>1
  <2>3. f = [i \in D |-> add(f, i)]
    BY <2>1, <2>2
  <2> QED
    BY <2>3
<1> DEFINE c == CHOOSE f : f = [i \in D |-> add(f, i)]
<1>8. c = [i \in D |-> add(c, i)]
  <2> HIDE DEF add, D
  <2> QED
    BY <1>7
<1>9. Carries(v, w) = c
  BY DEF Carries
<1> HIDE DEF c
<1>10. \A i \in D : c[i] = add(c, i)
  <2> HIDE DEF add, D
  <2> QED
    BY <1>8
<1>11. \A i \in D : c[i] <=> add(c, i)
  <2> HIDE DEF add, D
  <2> QED
    BY <1>10, Zenon
<1> DEFINE C == {i \in D : c[i]}
<1>12. ASSUME NEW i \in D
       PROVE  i \in C <=> i > 0 /\ i - 1 \in IF i - 1 \in C THEN v \cup w ELSE v \cap w
  <2>1. i > 0 => (c[i - 1] <=> i - 1 \in C)
    <3>1. i > 0 => i - 1 \in D
      OBVIOUS
    <3> HIDE DEF D
    <3> QED
      BY <3>1, Zenon
  <2>2. i \in C <=> add(c, i)
    <3> HIDE DEF add, D
    <3> QED
      BY <1>11, Zenon
  <2> HIDE DEF C, D
  <2> QED
    BY <2>1, <2>2
<1>13. C = Carried(v, w)
  BY <1>9 DEF Carried
<1> QED
  BY <1>9, <1>12, <1>13 DEF AreCarries

\* E has the bits behind a backslash that is not escaped, from "prev" on.
AreEscaped(E, backslash, prev) ==
  /\ 0 \in E <=> prev
  /\ \A i \in Bits : i + 1 \in E <=> i \in backslash /\ i \notin E

\* The same for the backslashes that are not the escaped first character, and what
\* follows one of these or is that character.
AreRuns(E, real, follows) ==
  /\ real \subseteq Bits /\ ~(0 \in real /\ 0 \in E)
  /\ \A i \in Bits : i + 1 \in E <=> i \in real /\ i \notin E
  /\ \A i \in Bits : i \in follows <=> (i > 0 /\ i - 1 \in real) \/ (i = 0 /\ i \in E)
  /\ \A i \in 1 .. width : i \in E => i - 1 \in real

\* The first lines of find_escaped_branchless.
LEMMA RealFacts ==
  ASSUME IsWidth, NEW backslash, backslash \subseteq Bits, NEW prev,
         NEW E, AreEscaped(E, backslash, prev)
  PROVE  AreRuns(E, backslash \ Low(prev), Shift(backslash \ Low(prev)) \cup Low(prev))
<1> USE DEF IsWidth
<1> DEFINE real == backslash \ Low(prev)
           follows == Shift(real) \cup Low(prev)
<1>1. \A i \in Bits : i \in Low(prev) <=> i = 0 /\ 0 \in E
  BY DEF Low, AreEscaped
<1>2. real \subseteq Bits /\ \A i \in Bits : i \in real <=> i \in backslash /\ ~(i = 0 /\ 0 \in E)
  BY <1>1
<1>3. \A i \in Bits : i + 1 \in E <=> i \in real /\ i \notin E
  BY <1>2 DEF AreEscaped
<1>4. \A i \in Bits : i \in Shift(real) <=> i > 0 /\ i - 1 \in real
  <2>1. real \subseteq Bits
    BY <1>2
  <2> QED
    BY <2>1 DEF Shift, Bits
<1>5. \A i \in 1 .. width : i \in E => i - 1 \in real
  <2> SUFFICES ASSUME NEW i \in 1 .. width, i \in E PROVE i - 1 \in real
    OBVIOUS
  <2>1. i - 1 \in Bits /\ (i - 1) + 1 = i
    BY DEF Bits
  <2> QED
    BY <2>1, <1>3
<1>6. \A i \in Bits : i \in follows <=> (i > 0 /\ i - 1 \in real) \/ (i = 0 /\ i \in E)
  BY <1>1, <1>4
<1> QED
  BY <1>2, <1>3, <1>5, <1>6 DEF AreRuns

\* There is a carry into a bit when the run of backslashes before it began at an odd
\* bit.
RunsCarry(C, E, real) ==
  \A i \in 0 .. width : i \in C <=> i > 0 /\ i - 1 \in real /\ (i \in E <=> i % 2 = 0)

\* The bits that start a run and are odd.
AreStarts(v, real, follows) ==
  \A i \in Bits : i \in v <=> i \in real /\ i % 2 # 0 /\ i \notin follows

\* The carries of the addition of the odd starts.
LEMMA RunsAreCarried ==
  ASSUME IsWidth, NEW E, NEW real, NEW follows, AreRuns(E, real, follows),
         NEW v, AreStarts(v, real, follows), NEW C, AreCarries(C, v, real)
  PROVE  RunsCarry(C, E, real)
<1> DEFINE says(i) == i \in C <=> i > 0 /\ i - 1 \in real /\ (i \in E <=> i % 2 = 0)
           T == {i \in Nat : i <= width => says(i)}
<1>1. /\ real \subseteq Bits /\ ~(0 \in real /\ 0 \in E)
      /\ \A i \in Bits : i + 1 \in E <=> i \in real /\ i \notin E
      /\ \A i \in Bits : i \in follows <=> (i > 0 /\ i - 1 \in real) \/ (i = 0 /\ i \in E)
      /\ \A i \in 1 .. width : i \in E => i - 1 \in real
  BY DEF AreRuns
<1>2. \A i \in Bits : i \in v <=> i \in real /\ i % 2 # 0 /\ i \notin follows
  BY DEF AreStarts
<1>4. 0 \notin C
  <2>1. 0 \in 0 .. width /\ ~(0 > 0)
    BY DEF IsWidth
  <2> QED
    BY <2>1 DEF AreCarries
<1>5. \A i \in Bits : i + 1 \in C <=> i \in real /\ (i \in C \/ i \in v)
  <2> SUFFICES ASSUME NEW i \in Bits PROVE i + 1 \in C <=> i \in real /\ (i \in C \/ i \in v)
    OBVIOUS
  <2>1. i + 1 \in 0 .. width /\ i + 1 > 0 /\ (i + 1) - 1 = i
    BY DEF Bits, IsWidth
  <2>2. i + 1 \in C <=> i \in IF i \in C THEN v \cup real ELSE v \cap real
    BY <2>1 DEF AreCarries
  <2> QED
    BY <2>2, <1>2
<1>6. ASSUME NEW n \in Nat, \A m \in 0 .. n - 1 : m \in T PROVE n \in T
  <2> SUFFICES ASSUME n <= width PROVE says(n)
    OBVIOUS
  <2>1. CASE n = 0
    BY <1>4, <2>1
  <2>2. CASE n # 0
    <3>1. PICK i \in Bits : n = i + 1
      <4>1. n - 1 \in Bits /\ n = (n - 1) + 1
        BY <2>2 DEF Bits, IsWidth
      <4> QED
        BY <4>1
    <3>2. i \in Nat /\ i < width /\ (i + 1) - 1 = i /\ i + 1 > 0
      BY DEF Bits, IsWidth
    <3>3. i \in C <=> i > 0 /\ i - 1 \in real /\ (i \in E <=> i % 2 = 0)
      <4>1. i \in 0 .. n - 1 /\ i <= width
        BY <3>1, <3>2 DEF IsWidth
      <4> QED
        BY <1>6, <4>1
    <3>4. i + 1 \in E <=> i \in real /\ i \notin E
      BY <1>1
    <3>5. (i + 1) % 2 = 0 <=> i % 2 # 0
      BY <3>2
    <3>6. i + 1 \in C <=> i \in real /\ (i \in C \/ i \in v)
      BY <1>5
    <3>7. i \in v <=> i \in real /\ i % 2 # 0 /\ i \notin follows
      BY <1>2
    <3>8. i \in follows <=> (i > 0 /\ i - 1 \in real) \/ (i = 0 /\ i \in E)
      BY <1>1
    <3>9. i > 0 /\ i \in E => i - 1 \in real
      <4>1. i > 0 => i \in 1 .. width
        BY <3>2 DEF IsWidth
      <4> QED
        BY <1>1, <4>1
    <3>10. (i = 0 => i % 2 = 0) /\ (i > 0 \/ i = 0)
      BY <3>2
    <3>11. i + 1 \in C <=> i \in real /\ (i + 1 \in E <=> (i + 1) % 2 = 0)
      <4>1. CASE i \in C
        BY <4>1, <3>3, <3>4, <3>5, <3>6, Zenon
      <4>2. CASE i \notin C /\ i = 0
        BY <4>2, <1>1, <3>4, <3>5, <3>6, <3>7, <3>10
      <4>3. CASE i \notin C /\ i > 0 /\ i - 1 \in real
        BY <4>3, <3>3, <3>4, <3>5, <3>6, <3>7, <3>8
      <4>4. CASE i \notin C /\ i > 0 /\ i - 1 \notin real
        BY <4>4, <3>4, <3>5, <3>6, <3>7, <3>8, <3>9, <3>2
      <4> QED
        BY <4>1, <4>2, <4>3, <4>4, <3>10
    <3> QED
      BY <3>1, <3>2, <3>11
  <2> QED
    BY <2>1, <2>2
<1> HIDE DEF T
<1>7. \A n \in Nat : n \in T
  BY <1>6, Induction
<1> QED
  BY <1>7 DEF T, RunsCarry, IsWidth

\* The word that the addition gives, and its overflow.
LEMMA SumFacts ==
  ASSUME IsWidth, NEW real, NEW v, v \subseteq real
  PROVE  /\ \A i \in Bits : i \in AddOverflow(v, real).sum
                              <=> ~(i \in Carried(v, real) <=> i \in real \ v)
         /\ AddOverflow(v, real).overflow <=> width \in Carried(v, real)
<1>1. Xor(v, real) = real \ v
  BY DEF Xor
<1>2. AddOverflow(v, real).sum = Xor(real \ v, {i \in Bits : Carries(v, real)[i]})
  BY <1>1 DEF AddOverflow
<1>3. AddOverflow(v, real).overflow = Carries(v, real)[width]
  BY DEF AddOverflow
<1>4. width \in 0 .. width /\ \A i \in Bits : i \in 0 .. width
  BY DEF IsWidth, Bits
<1>5. \A i \in Bits : i \in AddOverflow(v, real).sum
                        <=> ~(i \in Carried(v, real) <=> i \in real \ v)
  BY <1>2, <1>4 DEF Carried, Xor
<1>6. AddOverflow(v, real).overflow <=> width \in Carried(v, real)
  BY <1>3, <1>4 DEF Carried
<1> QED
  BY <1>5, <1>6

\* find_escaped marks the escaped characters, and says whether the first of the next
\* word is.
LEMMA EscapedAreFound ==
  ASSUME IsWidth, NEW backslash, backslash \subseteq Bits, NEW prev,
         NEW E, AreEscaped(E, backslash, prev)
  PROVE  /\ FindEscaped(backslash, prev).mask = {i \in Bits : i \in E}
         /\ FindEscaped(backslash, prev).overflow <=> width \in E
<1> USE DEF IsWidth
<1>1. CASE backslash = {}
  <2>1. FindEscaped(backslash, prev) = [mask |-> Low(prev), overflow |-> FALSE]
    BY <1>1 DEF FindEscaped
  <2>2. \A i \in 1 .. width : i \notin E
    <3> SUFFICES ASSUME NEW i \in 1 .. width PROVE i \notin E
      OBVIOUS
    <3>1. i - 1 \in Bits /\ (i - 1) + 1 = i
      BY DEF Bits
    <3> QED
      BY <3>1, <1>1 DEF AreEscaped
  <2>3. Low(prev) = {i \in Bits : i \in E}
    <3>1. \A i \in Bits : i # 0 => i \notin E
      BY <2>2 DEF Bits
    <3>2. 0 \in Bits
      BY DEF Bits
    <3> QED
      BY <3>1, <3>2 DEF Low, AreEscaped
  <2> QED
    BY <2>1, <2>2, <2>3
<1>2. CASE backslash # {}
  <2> DEFINE real == backslash \ Low(prev)
             follows == Shift(real) \cup Low(prev)
             v == (real \ Even) \ follows
             added == AddOverflow(v, real)
             C == Carried(v, real)
  <2>1. FindEscaped(backslash, prev) = [mask |-> Xor(Even, Shift(added.sum)) \cap follows,
                                        overflow |-> added.overflow]
    BY <1>2 DEF FindEscaped, FindEscapedBranchless, EscapedMask, OddRunsAdded
  <2>2. AreRuns(E, real, follows)
    BY RealFacts
  <2>3. real \subseteq Bits /\ v \subseteq real /\ follows \subseteq Bits
    BY DEF Low, Shift, Bits
  <2>4. AreStarts(v, real, follows)
    BY DEF AreStarts, Even
  <2>5. AreCarries(C, v, real)
    BY CarriesEquation
  <2> HIDE DEF real, follows
  <2>6. /\ \A i \in Bits : i \in added.sum <=> ~(i \in C <=> i \in real \ v)
        /\ added.overflow <=> width \in C
    BY SumFacts, <2>3
  <2> HIDE DEF v, C
  <2>7. RunsCarry(C, E, real)
    BY <2>2, <2>4, <2>5, RunsAreCarried
  <2> HIDE DEF added
  <2>8. /\ \A i \in Bits : i + 1 \in E <=> i \in real /\ i \notin E
        /\ \A i \in Bits : i \in follows <=> (i > 0 /\ i - 1 \in real) \/ (i = 0 /\ i \in E)
        /\ \A i \in 1 .. width : i \in E => i - 1 \in real
    BY <2>2 DEF AreRuns
  <2>9. \A i \in 0 .. width : i \in C <=> i > 0 /\ i - 1 \in real /\ (i \in E <=> i % 2 = 0)
    BY <2>7 DEF RunsCarry
  <2>10. added.overflow <=> width \in E
    <3>1. width \in 0 .. width /\ width \in 1 .. width /\ width > 0 /\ width % 2 = 0
      OBVIOUS
    <3>2. width \in C <=> width - 1 \in real /\ width \in E
      BY <3>1, <2>9
    <3> QED
      BY <3>1, <3>2, <2>8, <2>6
  <2>11. ASSUME NEW i \in Bits, i > 0
         PROVE  i \in Shift(added.sum) <=> ~(i - 1 \in C <=> i - 1 \in real \ v)
    <3>1. i - 1 \in Bits /\ (i - 1) + 1 = i
      BY <2>11 DEF Bits
    <3>2. i \in Shift(added.sum) <=> i - 1 \in added.sum
      <4>1. \A j \in added.sum : j + 1 = i => j = i - 1
        <5>1. \A j \in added.sum : j \in Bits
          BY DEF added, AddOverflow, Xor, v, real, Bits
        <5> QED
          BY <5>1, <3>1 DEF Bits
      <4> QED
        BY <4>1, <3>1 DEF Shift
    <3> QED
      BY <3>1, <3>2, <2>6
  <2>12. ASSUME NEW i \in Bits
         PROVE  i \in Xor(Even, Shift(added.sum)) \cap follows <=> i \in E
    <3>1. i \in Even <=> i % 2 = 0
      BY DEF Even
    <3>2. i \in follows <=> (i > 0 /\ i - 1 \in real) \/ (i = 0 /\ i \in E)
      BY <2>8
    <3>3. CASE i = 0
      <4>1. 0 \notin Shift(added.sum)
        <5>1. \A j \in added.sum : j \in Nat
          BY DEF added, AddOverflow, Xor, v, real, Bits
        <5> QED
          BY <5>1 DEF Shift
      <4>2. i % 2 = 0
        BY <3>3
      <4> QED
        BY <3>1, <3>2, <3>3, <4>1, <4>2 DEF Xor
    <3>4. CASE i > 0 /\ i - 1 \notin real
      <4>1. i \notin E
        <5>1. i \in 1 .. width
          BY <3>4 DEF Bits
        <5> QED
          BY <5>1, <3>4, <2>8
      <4> QED
        BY <3>2, <3>4, <4>1
    <3>5. CASE i > 0 /\ i - 1 \in real
      <4>1. i \in Shift(added.sum) <=> ~(i - 1 \in C <=> i - 1 \notin v)
        BY <2>11, <3>5
      <4>2. i \in C <=> i - 1 \in C \/ i - 1 \in v
        <5>1. i \in 0 .. width
          BY DEF Bits
        <5> QED
          BY <5>1, <3>5, <2>5 DEF AreCarries
      <4>3. ~(i - 1 \in C /\ i - 1 \in v)
        <5>1. i - 1 \in Bits /\ i - 1 \in 0 .. width
          BY <3>5 DEF Bits
        <5>2. i - 1 \in C => i - 1 > 0 /\ (i - 1) - 1 \in real
          BY <5>1, <2>9
        <5>3. i - 1 \in C => i - 1 \in follows
          BY <5>1, <5>2, <2>8
        <5> QED
          BY <5>3 DEF v
      <4>4. i \in C <=> (i \in E <=> i % 2 = 0)
        <5>1. i \in 0 .. width
          BY DEF Bits
        <5> QED
          BY <5>1, <3>5, <2>9
      <4>5. i \in Shift(added.sum) <=> i \notin C
        BY <4>1, <4>2, <4>3
      <4> QED
        BY <3>1, <3>2, <3>5, <4>4, <4>5 DEF Xor
    <3> QED
      BY <3>3, <3>4, <3>5 DEF Bits
  <2>13. Xor(Even, Shift(added.sum)) \cap follows = {i \in Bits : i \in E}
    <3>1. \A i \in follows : i \in Bits
      BY <2>3
    <3> HIDE DEF added
    <3> QED
      BY <2>12, <3>1
  <2> QED
    BY <2>1, <2>10, <2>13
<1> QED
  BY <1>1, <1>2

-----------------------------------------------------------------------------
(* Escaped characters and strings, character by character.                 *)

\* The character at an offset; behind the text there are spaces.
Ch(p) == IF p < Len(text) THEN text[p + 1] ELSE "space"

\* The offsets of what is escaped, and those in front of which a string is open.
Escapes == {p \in Nat : p <= Len(text) /\ Escaped(p + 1)}
Insides == {p \in Nat : Inside(p)}

\* An odd run of backslashes ends here when one begins here or an even one ends before.
LEMMA EscapedNext ==
  ASSUME NEW i \in Nat \ {0}
  PROVE  Escaped(i + 1) <=> text[i] = "backslash" /\ ~Escaped(i)
<1> DEFINE run(m, k) == \A j \in m .. k : text[j] = "backslash"
           edge(m) == m > 1 => text[m - 1] # "backslash"
<1>1. \A k \in Nat \ {0} : Escaped(k) <=>
        \E n \in 1 .. k - 1 : n % 2 = 1 /\ run(k - n, k - 1) /\ edge(k - n)
  BY DEF Escaped
<1>2. \A k \in Nat \ {0} : Escaped(k) <=>
        \E m \in 1 .. k - 1 : (k - m) % 2 = 1 /\ run(m, k - 1) /\ edge(m)
  <2> SUFFICES ASSUME NEW k \in Nat \ {0}
               PROVE  Escaped(k) <=>
                      \E m \in 1 .. k - 1 : (k - m) % 2 = 1 /\ run(m, k - 1) /\ edge(m)
    OBVIOUS
  <2> HIDE DEF run, edge
  <2>1. \A n \in 1 .. k - 1 : k - n \in 1 .. k - 1 /\ k - (k - n) = n
    OBVIOUS
  <2>2. ASSUME Escaped(k) PROVE \E m \in 1 .. k - 1 : (k - m) % 2 = 1 /\ run(m, k - 1) /\ edge(m)
    <3>1. PICK n \in 1 .. k - 1 : n % 2 = 1 /\ run(k - n, k - 1) /\ edge(k - n)
      BY <1>1, <2>2
    <3>2. k - n \in 1 .. k - 1 /\ k - (k - n) = n
      BY <2>1
    <3> QED
      BY <3>1, <3>2
  <2>3. ASSUME NEW m \in 1 .. k - 1, (k - m) % 2 = 1, run(m, k - 1), edge(m) PROVE Escaped(k)
    <3>1. k - m \in 1 .. k - 1 /\ k - (k - m) = m
      BY <2>1
    <3> QED
      BY <1>1, <2>3, <3>1
  <2> QED
    BY <2>2, <2>3
<1>3. Escaped(i) <=> \E m \in 1 .. i - 1 : (i - m) % 2 = 1 /\ run(m, i - 1) /\ edge(m)
  BY <1>2
<1>4. Escaped(i + 1) <=> \E m \in 1 .. i : (i + 1 - m) % 2 = 1 /\ run(m, i) /\ edge(m)
  <2>1. i + 1 \in Nat \ {0} /\ (i + 1) - 1 = i
    OBVIOUS
  <2> HIDE DEF run, edge
  <2> QED
    BY <1>2, <2>1
<1>5. ASSUME Escaped(i + 1) PROVE text[i] = "backslash" /\ ~Escaped(i)
  <2>1. PICK m \in 1 .. i : (i + 1 - m) % 2 = 1 /\ run(m, i) /\ edge(m)
    BY <1>4, <1>5
  <2>2. text[i] = "backslash"
    BY <2>1
  <2>3. ASSUME NEW l \in 1 .. i - 1, (i - l) % 2 = 1, run(l, i - 1), edge(l) PROVE FALSE
    <3>1. ~(l < m)
      <4> SUFFICES ASSUME l < m PROVE FALSE
        OBVIOUS
      <4>1. m > 1 /\ m - 1 \in l .. i - 1
        OBVIOUS
      <4> QED
        BY <4>1, <2>1, <2>3
    <3>2. ~(m < l)
      <4> SUFFICES ASSUME m < l PROVE FALSE
        OBVIOUS
      <4>1. l > 1 /\ l - 1 \in m .. i
        OBVIOUS
      <4> QED
        BY <4>1, <2>1, <2>3
    <3>3. l = m
      BY <3>1, <3>2
    <3> HIDE DEF run, edge
    <3>4. PICK d \in Nat : d = i - m
      BY <3>3
    <3>5. d % 2 = 1 /\ (d + 1) % 2 = 1
      <4>1. i - l = d /\ i + 1 - m = d + 1
        BY <3>3, <3>4
      <4> QED
        BY <4>1, <2>1, <2>3
    <3> QED
      BY <3>5
  <2> HIDE DEF run, edge
  <2> QED
    BY <2>2, <2>3, <1>3
<1>6. ASSUME text[i] = "backslash", ~Escaped(i) PROVE Escaped(i + 1)
  <2> DEFINE T == {m \in Nat : m \in 1 .. i /\ run(m, i)}
  <2>1. i \in T
    BY <1>6
  <2>2. PICK m \in T : \A k \in T : m <= k
    <3> HIDE DEF T
    <3>1. T \in SUBSET Nat
      BY DEF T
    <3> QED
      BY <3>1, <2>1, LeastNumber
  <2>3. m \in 1 .. i /\ run(m, i)
    OBVIOUS
  <2>4. edge(m)
    <3> SUFFICES ASSUME m > 1, text[m - 1] = "backslash" PROVE FALSE
      OBVIOUS
    <3>1. m - 1 \in 1 .. i
      OBVIOUS
    <3>2. \A j \in m - 1 .. i : j = m - 1 \/ j \in m .. i
      OBVIOUS
    <3>3. m - 1 \in T
      BY <3>1, <3>2, <2>3
    <3> QED
      BY <3>3, <2>2
  <2> HIDE DEF T
  <2>5. PICK d \in Nat : d = i - m
    BY <2>3
  <2>6. CASE d % 2 = 1
    <3>1. m \in 1 .. i - 1 /\ (i - m) % 2 = 1
      <4>1. d # 0
        BY <2>6
      <4> QED
        BY <4>1, <2>3, <2>5, <2>6
    <3>2. run(m, i - 1)
      BY <2>3
    <3> HIDE DEF run, edge
    <3> QED
      BY <3>1, <3>2, <2>4, <1>3, <1>6
  <2>7. CASE d % 2 # 1
    <3>1. (i + 1 - m) % 2 = 1
      <4>1. i + 1 - m = d + 1
        BY <2>3, <2>5
      <4> QED
        BY <4>1, <2>7
    <3> HIDE DEF run, edge
    <3> QED
      BY <3>1, <2>3, <2>4, <1>4
  <2> QED
    BY <2>6, <2>7
<1> QED
  BY <1>5, <1>6

\* One character after the other.
LEMMA EscapesNext ==
  ASSUME text \in Seq(Characters)
  PROVE  /\ 0 \notin Escapes
         /\ \A p \in Nat : p + 1 \in Escapes <=> Ch(p) = "backslash" /\ p \notin Escapes
<1>1. 0 \notin Escapes
  BY DEF Escapes, Escaped
<1>2. ASSUME NEW p \in Nat
      PROVE  p + 1 \in Escapes <=> Ch(p) = "backslash" /\ p \notin Escapes
  <2>1. CASE p < Len(text)
    <3>1. Escaped((p + 1) + 1) <=> text[p + 1] = "backslash" /\ ~Escaped(p + 1)
      <4>1. p + 1 \in Nat \ {0}
        OBVIOUS
      <4> QED
        BY <4>1, EscapedNext
    <3>2. p + 1 \in Nat /\ p + 1 <= Len(text) /\ p <= Len(text)
      BY <2>1
    <3> QED
      BY <2>1, <3>1, <3>2 DEF Escapes, Ch
  <2>2. CASE ~(p < Len(text))
    <3>1. ~(p + 1 <= Len(text))
      BY <2>2
    <3> QED
      BY <2>2, <3>1 DEF Escapes, Ch
  <2> QED
    BY <2>1, <2>2
<1> QED
  BY <1>1, <1>2

\* Of the numbers in S up to n there are an odd number.
OddUpTo(S, n) == Cardinality({j \in S : j <= n}) % 2 = 1

\* One more of them.
LEMMA OddNext ==
  ASSUME NEW S, IsFiniteSet(S), \A j \in S : j \in Int, NEW n \in Int
  PROVE  OddUpTo(S, n + 1) <=> ~(OddUpTo(S, n) <=> n + 1 \in S)
<1> DEFINE A == {j \in S : j <= n}
           B == {j \in S : j <= n + 1}
<1>1. IsFiniteSet(A) /\ IsFiniteSet(B)
  BY FS_Subset
<1>2. Cardinality(A) \in Nat
  BY <1>1, FS_CardinalityType
<1>3. CASE n + 1 \in S
  <2>1. B = A \cup {n + 1} /\ n + 1 \notin A
    BY <1>3
  <2>2. Cardinality(B) = Cardinality(A) + 1
    BY <1>1, <2>1, FS_AddElement
  <2> HIDE DEF A, B
  <2>3. PICK c \in Nat : c = Cardinality(A)
    BY <1>2
  <2>4. (c + 1) % 2 = 1 <=> ~(c % 2 = 1)
    OBVIOUS
  <2> QED
    BY <1>3, <2>2, <2>3, <2>4 DEF OddUpTo, A, B
<1>4. CASE n + 1 \notin S
  <2>1. B = A
    BY <1>4
  <2> QED
    BY <1>4, <2>1 DEF OddUpTo
<1> QED
  BY <1>3, <1>4

\* A quote that opens or closes a string.
IsQuote(p) == Ch(p) = "quote" /\ p \notin Escapes

\* Quotes has these, from 1.
LEMMA QuotesFacts ==
  ASSUME text \in Seq(Characters)
  PROVE  /\ IsFiniteSet(Quotes) /\ \A j \in Quotes : j \in 1 .. Len(text)
         /\ \A p \in Nat : p + 1 \in Quotes <=> IsQuote(p)
<1>1. DOMAIN text = 1 .. Len(text) /\ Len(text) \in Nat
  OBVIOUS
<1>2. IsFiniteSet(1 .. Len(text))
  BY <1>1, FS_Interval
<1>3. Quotes \subseteq 1 .. Len(text)
  BY <1>1 DEF Quotes
<1>4. ASSUME NEW p \in Nat PROVE p + 1 \in Quotes <=> IsQuote(p)
  <2>1. p + 1 \in DOMAIN text <=> p < Len(text)
    BY <1>1
  <2>2. p + 1 \in Quotes <=> p < Len(text) /\ text[p + 1] = "quote" /\ ~Escaped(p + 1)
    BY <2>1 DEF Quotes
  <2>3. p < Len(text) => p <= Len(text)
    BY <1>1
  <2> QED
    BY <2>2, <2>3 DEF IsQuote, Ch, Escapes
<1> QED
  BY <1>2, <1>3, <1>4, FS_Subset

\* A quote opens or closes, nothing else does.
LEMMA InsidesNext ==
  ASSUME text \in Seq(Characters)
  PROVE  /\ 0 \notin Insides
         /\ \A p \in Nat : p + 1 \in Insides <=> ~(p \in Insides <=> IsQuote(p))
<1>1. \A i \in Int : Inside(i) <=> OddUpTo(Quotes, i)
  BY DEF Inside, OddUpTo
<1>2. \A j \in Quotes : j \in Int
  BY QuotesFacts
<1>3. 0 \notin Insides
  <2>1. {j \in Quotes : j <= 0} = {}
    BY QuotesFacts
  <2>2. Cardinality({}) = 0
    BY FS_EmptySet
  <2>3. Cardinality({j \in Quotes : j <= 0}) = 0
    BY <2>1, <2>2, Zenon
  <2>4. ~OddUpTo(Quotes, 0)
    BY <2>3 DEF OddUpTo
  <2> QED
    BY <2>4, <1>1 DEF Insides
<1>4. ASSUME NEW p \in Nat PROVE p + 1 \in Insides <=> ~(p \in Insides <=> IsQuote(p))
  <2>1. p + 1 \in Nat /\ p \in Int /\ p + 1 \in Int
    OBVIOUS
  <2>2. OddUpTo(Quotes, p + 1) <=> ~(OddUpTo(Quotes, p) <=> p + 1 \in Quotes)
    BY <1>2, <2>1, QuotesFacts, OddNext
  <2>3. p + 1 \in Quotes <=> IsQuote(p)
    BY QuotesFacts
  <2>4. p + 1 \in Insides <=> OddUpTo(Quotes, p + 1)
    BY <1>1, <2>1 DEF Insides
  <2>5. p \in Insides <=> OddUpTo(Quotes, p)
    BY <1>1, <2>1 DEF Insides
  <2> QED
    BY <2>2, <2>3, <2>4, <2>5
<1> QED
  BY <1>3, <1>4

-----------------------------------------------------------------------------
(* A word of the text, from what is known of the end of the one before it. *)

\* Part of a token, and no quote that opens or closes a string.
NonQuotes == {p \in Nat : Ch(p) \notin {"op", "feed", "space", "tab"} /\ ~IsQuote(p)}

\* Where tokens start, and the control characters in strings.
Starts   == {p \in Nat : /\ p \notin Insides
                         /\ \/ Ch(p) \in {"op", "feed"}
                            \/ /\ Ch(p) \notin {"op", "feed", "space", "tab"}
                               /\ ~(p > 0 /\ p - 1 \in NonQuotes)}
Controls == {p \in Nat : Ch(p) \in {"tab", "feed"} /\ p + 1 \in Insides}

\* What the characters before k tell the next word.
IsCarry(c, k) ==
  /\ c.escaped <=> k \in Escapes
  /\ c.in_string <=> k \in Insides
  /\ c.scalar <=> k > 0 /\ k - 1 \in NonQuotes

\* A word has the characters of the text.
LEMMA LoadFacts ==
  ASSUME IsWidth, NEW from \in Nat
  PROVE  \A i \in Bits : Load(from)[i] = Ch(from + i)
BY DEF Load, Ch, Bits, IsWidth

\* The prefix sum tells where the strings are.
LEMMA StringsAreFound ==
  ASSUME IsWidth, text \in Seq(Characters), NEW from \in Nat,
         NEW quote, quote = {i \in Bits : IsQuote(from + i)}
  PROVE  \A i \in Bits : i \in PrefixXor(quote) <=> ~(from + i + 1 \in Insides <=> from \in Insides)
<1> USE DEF IsWidth
<1> DEFINE says(k) == OddUpTo(quote, k - 1) <=> ~(from + k \in Insides <=> from \in Insides)
           T == {k \in Nat : k <= width => says(k)}
<1>1. IsFiniteSet(quote) /\ \A i \in quote : i \in Int
  <2>1. IsFiniteSet(0 .. width - 1) /\ quote \subseteq 0 .. width - 1
    BY FS_Interval DEF Bits
  <2> QED
    BY <2>1, FS_Subset
<1>2. ~OddUpTo(quote, -1)
  <2>1. {j \in quote : j <= -1} = {}
    BY DEF Bits
  <2>2. Cardinality({j \in quote : j <= -1}) = 0
    BY <2>1, FS_EmptySet, Zenon
  <2> QED
    BY <2>2 DEF OddUpTo
<1>3. ASSUME NEW n \in Nat, \A m \in 0 .. n - 1 : m \in T PROVE n \in T
  <2> SUFFICES ASSUME n <= width PROVE says(n)
    OBVIOUS
  <2>1. CASE n = 0
    <3>1. n - 1 = -1 /\ from + n = from
      BY <2>1
    <3> QED
      BY <3>1, <1>2
  <2>2. CASE n # 0
    <3>1. PICK k \in Bits : n = k + 1
      <4>1. n - 1 \in Bits /\ n = (n - 1) + 1
        BY <2>2 DEF Bits
      <4> QED
        BY <4>1
    <3>2. k \in Nat /\ k <= width /\ k \in 0 .. n - 1
      BY <3>1 DEF Bits
    <3>3. OddUpTo(quote, k - 1) <=> ~(from + k \in Insides <=> from \in Insides)
      BY <1>3, <3>2
    <3>4. k - 1 \in Int /\ (k - 1) + 1 = k /\ (k + 1) - 1 = k
      BY <3>2
    <3>5. OddUpTo(quote, k) <=> ~(OddUpTo(quote, k - 1) <=> k \in quote)
      <4>1. OddUpTo(quote, (k - 1) + 1) <=> ~(OddUpTo(quote, k - 1) <=> (k - 1) + 1 \in quote)
        BY <3>4, <1>1, OddNext
      <4> QED
        BY <4>1, <3>4
    <3>6. k \in quote <=> IsQuote(from + k)
      OBVIOUS
    <3>7. from + k \in Nat /\ from + (k + 1) = (from + k) + 1
      BY <3>2
    <3>8. from + (k + 1) \in Insides <=> ~(from + k \in Insides <=> IsQuote(from + k))
      BY <3>7, InsidesNext
    <3>9. OddUpTo(quote, k) <=> ~(from + (k + 1) \in Insides <=> from \in Insides)
      BY <3>3, <3>5, <3>6, <3>8
    <3> QED
      BY <3>1, <3>4, <3>9
  <2> QED
    BY <2>1, <2>2
<1> HIDE DEF T
<1>4. \A k \in Nat : k \in T
  BY <1>3, Induction
<1>5. ASSUME NEW i \in Bits
      PROVE  i \in PrefixXor(quote) <=> ~(from + i + 1 \in Insides <=> from \in Insides)
  <2>1. i + 1 \in Nat /\ i + 1 <= width /\ (i + 1) - 1 = i /\ from + (i + 1) = from + i + 1
    BY DEF Bits
  <2>2. says(i + 1)
    BY <1>4, <2>1 DEF T
  <2>3. i \in PrefixXor(quote) <=> OddUpTo(quote, i)
    BY DEF PrefixXor, OddUpTo
  <2> QED
    BY <2>1, <2>2, <2>3
<1> QED
  BY <1>5

\* The quotes and strings of a word.
LEMMA StringsFacts ==
  ASSUME IsWidth, text \in Seq(Characters), NEW from \in Nat, NEW c, IsCarry(c, from)
  PROVE  /\ Strings(Load(from), c).quote = {i \in Bits : IsQuote(from + i)}
         /\ Strings(Load(from), c).in_string = {i \in Bits : from + i + 1 \in Insides}
         /\ Strings(Load(from), c).overflow <=> from + width \in Escapes
<1> USE DEF IsWidth
<1> DEFINE in == Load(from)
           backslash == Equal(in, {"backslash"})
           E == {i \in 0 .. width : from + i \in Escapes}
           escaped == FindEscaped(backslash, c.escaped)
           quote == Equal(in, {"quote"}) \ escaped.mask
           strings == Xor(PrefixXor(quote), IF c.in_string THEN Bits ELSE {})
<1>1. Strings(in, c) = [quote |-> quote, in_string |-> strings, overflow |-> escaped.overflow]
  BY DEF Strings, QuotesAndStrings
<1>2. \A i \in Bits : in[i] = Ch(from + i)
  BY LoadFacts
<1> HIDE DEF in
<1>3. backslash \subseteq Bits /\ \A i \in Bits : i \in backslash <=> Ch(from + i) = "backslash"
  BY <1>2 DEF Equal
<1>4. AreEscaped(E, backslash, c.escaped)
  <2>1. 0 \in E <=> c.escaped
    <3>1. 0 \in 0 .. width /\ from + 0 = from
      OBVIOUS
    <3> QED
      BY <3>1 DEF IsCarry
  <2>2. ASSUME NEW i \in Bits PROVE i + 1 \in E <=> i \in backslash /\ i \notin E
    <3>1. /\ i + 1 \in 0 .. width /\ i \in 0 .. width /\ from + i \in Nat
          /\ from + (i + 1) = (from + i) + 1
      BY DEF Bits
    <3>2. (from + i) + 1 \in Escapes <=> Ch(from + i) = "backslash" /\ from + i \notin Escapes
      BY <3>1, EscapesNext
    <3> QED
      BY <3>1, <3>2, <1>3
  <2> HIDE DEF E, backslash
  <2> QED
    BY <2>1, <2>2 DEF AreEscaped
<1>5. escaped.mask = {i \in Bits : i \in E} /\ (escaped.overflow <=> width \in E)
  <2> HIDE DEF E, backslash
  <2> QED
    BY <1>3, <1>4, EscapedAreFound
<1>6. escaped.overflow <=> from + width \in Escapes
  BY <1>5
<1>7. \A i \in Bits : i \in escaped.mask <=> from + i \in Escapes
  <2>1. \A i \in Bits : i \in 0 .. width
    BY DEF Bits
  <2> QED
    BY <1>5, <2>1
<1> HIDE DEF escaped
<1>8. quote = {i \in Bits : IsQuote(from + i)}
  <2>1. \A i \in Bits : i \in quote <=> IsQuote(from + i)
    BY <1>2, <1>7 DEF Equal, IsQuote
  <2>2. quote \subseteq Bits
    BY DEF Equal
  <2> QED
    BY <2>1, <2>2
<1> HIDE DEF quote
<1>9. \A i \in Bits : i \in PrefixXor(quote) <=> ~(from + i + 1 \in Insides <=> from \in Insides)
  BY <1>8, StringsAreFound
<1>10. strings = {i \in Bits : from + i + 1 \in Insides}
  <2>1. PrefixXor(quote) \subseteq Bits
    BY DEF PrefixXor
  <2>2. CASE c.in_string
    BY <2>1, <2>2, <1>9 DEF IsCarry, Xor
  <2>3. CASE ~c.in_string
    BY <2>1, <2>3, <1>9 DEF IsCarry, Xor
  <2> QED
    BY <2>2, <2>3
<1> HIDE DEF strings
<1> QED
  BY <1>1, <1>6, <1>8, <1>10 DEF in

\* A word of the text: its tokens, its control characters and what it tells the next.
LEMMA BlockFacts ==
  ASSUME IsWidth, text \in Seq(Characters), NEW from \in Nat, NEW c, IsCarry(c, from)
  PROVE  /\ NextBlock(Load(from), c).structurals = {i \in Bits : from + i \in Starts}
         /\ NextBlock(Load(from), c).unescaped <=> \E i \in Bits : from + i \in Controls
         /\ IsCarry(NextBlock(Load(from), c).carry, from + width)
<1> USE DEF IsWidth
<1> DEFINE in == Load(from)
           strings == Strings(in, c)
           nonquote == Scalar(in) \ strings.quote
           follows == Shift(nonquote) \cup Low(c.scalar)
           block == NextBlock(in, c)
<1>1. /\ block.structurals =
           (Op(in) \cup (Scalar(in) \ follows)) \ Xor(strings.in_string, strings.quote)
      /\ block.unescaped <=> Equal(in, {"tab", "feed"}) \cap strings.in_string # {}
      /\ block.carry.escaped <=> strings.overflow
      /\ block.carry.in_string <=> width - 1 \in strings.in_string
      /\ block.carry.scalar <=> width - 1 \in nonquote
  BY DEF NextBlock, Block, StructuralStart, High
<1>2. /\ strings.quote = {i \in Bits : IsQuote(from + i)}
      /\ strings.in_string = {i \in Bits : from + i + 1 \in Insides}
      /\ strings.overflow <=> from + width \in Escapes
  BY StringsFacts
<1>3. \A i \in Bits : in[i] = Ch(from + i)
  BY LoadFacts
<1>4. \A i \in Bits : from + i \in Nat /\ i \in Nat /\ from + i + 1 = (from + i) + 1
  BY DEF Bits
<1> HIDE DEF in, strings, block
<1>5. Op(in) = {i \in Bits : Ch(from + i) \in {"op", "feed"}}
  BY <1>3 DEF Op, Equal
<1>6. Scalar(in) = {i \in Bits : Ch(from + i) \notin {"op", "feed", "space", "tab"}}
  BY <1>3, <1>5 DEF Scalar, Equal
<1>7. nonquote = {i \in Bits : from + i \in NonQuotes}
  BY <1>2, <1>4, <1>6 DEF NonQuotes
<1>8. \A i \in Bits : i \in follows <=> from + i > 0 /\ (from + i) - 1 \in NonQuotes
  <2> HIDE DEF nonquote
  <2> SUFFICES ASSUME NEW i \in Bits
               PROVE  i \in follows <=> from + i > 0 /\ (from + i) - 1 \in NonQuotes
    OBVIOUS
  <2>1. CASE i = 0
    <3>1. 0 \notin Shift(nonquote)
      BY <1>7, <1>4 DEF Shift
    <3>2. i \in follows <=> c.scalar
      BY <2>1, <3>1 DEF Low
    <3>3. from + i = from
      BY <2>1
    <3> QED
      BY <3>2, <3>3 DEF IsCarry
  <2>2. CASE i # 0
    <3>1. i - 1 \in Bits /\ from + (i - 1) = (from + i) - 1 /\ (i - 1) + 1 = i /\ from + i > 0
      BY <2>2, <1>4 DEF Bits
    <3>2. i \in Shift(nonquote) <=> i - 1 \in nonquote
      <4>1. \A j \in nonquote : j + 1 = i => j = i - 1
        BY <1>7, <1>4
      <4> QED
        BY <4>1, <3>1 DEF Shift
    <3>3. i \in follows <=> i \in Shift(nonquote)
      BY <2>2 DEF Low
    <3> QED
      BY <3>1, <3>2, <3>3, <1>7
  <2> QED
    BY <2>1, <2>2
<1> HIDE DEF follows
<1>9. \A i \in Bits : i \in Xor(strings.in_string, strings.quote) <=> from + i \in Insides
  <2> SUFFICES ASSUME NEW i \in Bits
               PROVE  i \in Xor(strings.in_string, strings.quote) <=> from + i \in Insides
    OBVIOUS
  <2>1. (from + i) + 1 \in Insides <=> ~(from + i \in Insides <=> IsQuote(from + i))
    BY <1>4, InsidesNext
  <2> QED
    BY <2>1, <1>2, <1>4 DEF Xor
<1>10. block.structurals = {i \in Bits : from + i \in Starts}
  <2>1. \A i \in Bits : from + i \in Starts <=>
          /\ from + i \notin Insides
          /\ \/ Ch(from + i) \in {"op", "feed"}
             \/ /\ Ch(from + i) \notin {"op", "feed", "space", "tab"}
                /\ ~(from + i > 0 /\ (from + i) - 1 \in NonQuotes)
    BY <1>4 DEF Starts
  <2>2. \A i \in Bits : i \in block.structurals <=> from + i \in Starts
    BY <1>1, <1>5, <1>6, <1>8, <1>9, <2>1
  <2>3. block.structurals \subseteq Bits
    BY <1>1, <1>5, <1>6
  <2> QED
    BY <2>2, <2>3
<1>11. block.unescaped <=> \E i \in Bits : from + i \in Controls
  <2>1. Equal(in, {"tab", "feed"}) = {i \in Bits : Ch(from + i) \in {"tab", "feed"}}
    BY <1>3 DEF Equal
  <2>2. \A i \in Bits : from + i \in Controls <=> Ch(from + i) \in {"tab", "feed"}
                                                  /\ from + i + 1 \in Insides
    BY <1>4 DEF Controls
  <2> QED
    BY <1>1, <1>2, <2>1, <2>2
<1>12. IsCarry(block.carry, from + width)
  <2>1. /\ width - 1 \in Bits /\ from + (width - 1) + 1 = from + width
        /\ from + (width - 1) = (from + width) - 1 /\ from + width > 0
    BY DEF Bits
  <2> QED
    BY <2>1, <1>1, <1>2, <1>7 DEF IsCarry
<1> QED
  BY <1>10, <1>11, <1>12 DEF block, in

-----------------------------------------------------------------------------
(* A set of numbers, listed in order.                                      *)

Below(S, n) == {p \in S : p < n}
Lists(s, S) ==
  /\ IsFiniteSet(S) /\ \A p \in S : p \in Int
  /\ s \in Seq(S) /\ Len(s) = Cardinality(S)
  /\ \A n \in 1 .. Len(s) : Cardinality(Below(S, s[n])) = n - 1

\* Of two numbers in S the greater has more below it.
LEMMA BelowGrows ==
  ASSUME NEW S, IsFiniteSet(S), \A p \in S : p \in Int, NEW a \in S, NEW b \in Int, a < b
  PROVE  /\ Cardinality(Below(S, a)) \in Nat /\ Cardinality(Below(S, b)) \in Nat
         /\ Cardinality(Below(S, a)) < Cardinality(Below(S, b))
<1>1. IsFiniteSet(Below(S, a)) /\ IsFiniteSet(Below(S, b))
  BY FS_Subset DEF Below
<1>2. a \notin Below(S, a) /\ Below(S, a) \cup {a} \subseteq Below(S, b)
  BY DEF Below
<1>3. Cardinality(Below(S, a) \cup {a}) = Cardinality(Below(S, a)) + 1
  BY <1>1, <1>2, FS_AddElement
<1>4. Cardinality(Below(S, a) \cup {a}) <= Cardinality(Below(S, b))
  BY <1>1, <1>2, FS_Subset
<1>5. Cardinality(Below(S, a)) \in Nat /\ Cardinality(Below(S, b)) \in Nat
  BY <1>1, FS_CardinalityType
<1> QED
  BY <1>3, <1>4, <1>5

\* As many below, the same number.
LEMMA SameBelow ==
  ASSUME NEW S, IsFiniteSet(S), \A p \in S : p \in Int, NEW a \in S, NEW b \in S,
         Cardinality(Below(S, a)) = Cardinality(Below(S, b))
  PROVE  a = b
<1>1. a \in Int /\ b \in Int
  OBVIOUS
<1>2. ASSUME NEW x \in S, NEW y \in S, x < y
      PROVE  Cardinality(Below(S, x)) # Cardinality(Below(S, y))
  <2>1. y \in Int
    OBVIOUS
  <2>2. /\ Cardinality(Below(S, x)) \in Nat /\ Cardinality(Below(S, y)) \in Nat
        /\ Cardinality(Below(S, x)) < Cardinality(Below(S, y))
    BY <1>2, <2>1, BelowGrows
  <2> QED
    BY <2>2
<1>3. ~(a < b) /\ ~(b < a)
  BY <1>2
<1> QED
  BY <1>1, <1>3

\* There is one list of a set.
LEMMA OneList ==
  ASSUME NEW S, NEW s, Lists(s, S), NEW t, Lists(t, S)
  PROVE  s = t
<1>1. Len(s) = Len(t) /\ s \in Seq(S) /\ t \in Seq(S)
  BY DEF Lists
<1>2. ASSUME NEW n \in 1 .. Len(s) PROVE s[n] = t[n]
  <2>1. s[n] \in S /\ t[n] \in S
    BY <1>1
  <2>2. Cardinality(Below(S, s[n])) = n - 1 /\ Cardinality(Below(S, t[n])) = n - 1
    BY <1>1 DEF Lists
  <2>3. IsFiniteSet(S) /\ \A p \in S : p \in Int
    BY DEF Lists
  <2> QED
    BY <2>1, <2>2, <2>3, SameBelow
<1> QED
  BY <1>1, <1>2, SeqEqual

\* The empty set is listed by the empty list.
LEMMA EmptyList ==
  /\ Lists(<<>>, {})
  /\ \A s, S : Lists(s, S) => (s = <<>> <=> S = {})
<1>1. Lists(<<>>, {})
  BY FS_EmptySet DEF Lists
<1>2. ASSUME NEW s, NEW S, Lists(s, S) PROVE s = <<>> <=> S = {}
  <2>1. IsFiniteSet(S) /\ Len(s) = Cardinality(S) /\ s \in Seq(S)
    BY <1>2 DEF Lists
  <2>2. Cardinality(S) = 0 <=> S = {}
    BY <2>1, FS_EmptySet
  <2>3. s = <<>> <=> Len(s) = 0
    BY <2>1
  <2> QED
    BY <2>1, <2>2, <2>3
<1> QED
  BY <1>1, <1>2

\* A greater number comes last.
LEMMA ListAppend ==
  ASSUME NEW S, NEW s, Lists(s, S), NEW p \in Int, \A q \in S : q < p
  PROVE  Lists(Append(s, p), S \cup {p})
<1> DEFINE U == S \cup {p}
           t == Append(s, p)
<1>1. IsFiniteSet(S) /\ (\A q \in S : q \in Int) /\ s \in Seq(S) /\ Len(s) = Cardinality(S)
  BY DEF Lists
<1>2. p \notin S
  OBVIOUS
<1>3. IsFiniteSet(U) /\ Cardinality(U) = Len(s) + 1
  BY <1>1, <1>2, FS_AddElement
<1>4. t \in Seq(U) /\ Len(t) = Len(s) + 1 /\ t[Len(s) + 1] = p /\ \A n \in 1 .. Len(s) : t[n] = s[n]
  <2>1. s \in Seq(U)
    BY <1>1
  <2> HIDE DEF U
  <2>2. p \in U
    BY DEF U
  <2> QED
    BY <2>1, <2>2
<1>5. ASSUME NEW n \in 1 .. Len(t) PROVE Cardinality(Below(U, t[n])) = n - 1
  <2>1. CASE n \in 1 .. Len(s)
    <3>1. t[n] = s[n] /\ s[n] \in S
      BY <1>1, <1>4, <2>1
    <3>2. Below(U, s[n]) = Below(S, s[n])
      BY <1>1, <3>1 DEF Below
    <3> QED
      BY <2>1, <3>1, <3>2 DEF Lists
  <2>2. CASE n = Len(s) + 1
    <3>1. Below(U, p) = S
      BY <1>1 DEF Below
    <3>2. Len(s) \in Nat
      BY <1>1
    <3> HIDE DEF U, t
    <3> QED
      BY <2>2, <3>1, <3>2, <1>1, <1>4
  <2> QED
    BY <1>1, <1>4, <2>1, <2>2
<1> QED
  BY <1>1, <1>3, <1>4, <1>5 DEF Lists

\* write() lists the ones of a word behind what is there already.
LEMMA WriteLists ==
  ASSUME IsWidth, NEW from \in Int, NEW word, word \subseteq Bits,
         NEW S, \A p \in S : p < from, NEW w, Lists(w, S)
  PROVE  Lists(Write(w, from, word), S \cup {from + i : i \in word})
<1> USE DEF IsWidth
<1> DEFINE C(k) == Cardinality(Below(word, k))
           bit(n) == CHOOSE i \in word : C(i) = n - 1
           pick(n) == from + bit(n)
           upto(k) == w \o [n \in 1 .. C(k) |-> pick(n)]
           all(k) == S \cup {from + i : i \in Below(word, k)}
           T == {k \in Nat : k <= width => Lists(upto(k), all(k))}
<1>1. IsFiniteSet(word) /\ \A i \in word : i \in Int /\ i \in Nat /\ i < width
  <2>1. IsFiniteSet(0 .. width - 1) /\ word \subseteq 0 .. width - 1
    BY FS_Interval DEF Bits
  <2>2. IsFiniteSet(word)
    BY <2>1, FS_Subset
  <2>3. \A i \in word : i \in Int /\ i \in Nat /\ i < width
    BY <2>1
  <2> QED
    BY <2>2, <2>3
<1>2. \A k \in Int : IsFiniteSet(Below(word, k)) /\ C(k) \in Nat
  <2> SUFFICES ASSUME NEW k \in Int PROVE IsFiniteSet(Below(word, k)) /\ C(k) \in Nat
    OBVIOUS
  <2>1. IsFiniteSet(Below(word, k))
    BY <1>1, FS_Subset DEF Below
  <2> QED
    BY <2>1, FS_CardinalityType
<1>3. w \in Seq(S) /\ Len(w) \in Nat /\ \A p \in S : p \in Int
  BY DEF Lists
<1>4. ASSUME NEW k \in word PROVE pick(C(k) + 1) = from + k
  <2>1. \A i \in word : C(i) = C(k) => i = k
    <3>1. \A i \in word : i \in Int
      BY <1>1
    <3> QED
      BY <1>1, <3>1, SameBelow
  <2>2. (C(k) + 1) - 1 = C(k)
    <3>1. C(k) \in Nat
      BY <1>1, <1>2
    <3> HIDE DEF C
    <3> QED
      BY <3>1
  <2>3. bit(C(k) + 1) = k
    <3> HIDE DEF C
    <3> DEFINE n == C(k) + 1
    <3>1. C(k) = n - 1
      BY <2>2
    <3> HIDE DEF n
    <3>2. bit(n) \in word /\ C(bit(n)) = n - 1
      BY <3>1, Zenon
    <3> HIDE DEF bit
    <3>3. bit(n) = k
      BY <2>1, <3>1, <3>2
    <3> QED
      BY <3>3 DEF n
  <2> HIDE DEF C, bit
  <2> QED
    BY <2>3
<1>5. ASSUME NEW n \in Nat, \A m \in 0 .. n - 1 : m \in T PROVE n \in T
  <2> SUFFICES ASSUME n <= width PROVE Lists(upto(n), all(n))
    OBVIOUS
  <2>1. CASE n = 0
    <3>1. Below(word, 0) = {}
      BY <1>1 DEF Below
    <3>2. C(0) = 0
      BY <3>1, FS_EmptySet
    <3>3. all(0) = S
      BY <3>1
    <3>4. upto(0) = w
      <4>1. [j \in 1 .. 0 |-> pick(j)] = <<>>
        OBVIOUS
      <4>2. upto(0) = w \o <<>>
        BY <3>2, <4>1, Zenon
      <4> HIDE DEF upto
      <4> QED
        BY <4>2, <1>3
    <3> HIDE DEF upto, all
    <3> QED
      BY <2>1, <3>3, <3>4
  <2>2. CASE n # 0
    <3>1. PICK k \in Nat : n = k + 1
      BY <2>2
    <3>2. Lists(upto(k), all(k))
      <4>1. k \in 0 .. n - 1 /\ k <= width
        BY <3>1
      <4> HIDE DEF upto, all
      <4> QED
        BY <4>1, <1>5
    <3>3. CASE k \notin word
      <4>1. Below(word, k + 1) = Below(word, k)
        BY <1>1, <3>3 DEF Below
      <4>2. upto(k + 1) = upto(k) /\ all(k + 1) = all(k)
        BY <4>1, Zenon
      <4> HIDE DEF upto, all
      <4> QED
        BY <3>1, <3>2, <4>2
    <3>4. CASE k \in word
      <4>1. Below(word, k + 1) = Below(word, k) \cup {k} /\ k \notin Below(word, k)
        <5>1. \A i \in word : i < k + 1 <=> i < k \/ i = k
          BY <1>1
        <5>2. Below(word, k) = {p \in word : p < k} /\ Below(word, k + 1) = {p \in word : p < k + 1}
          BY DEF Below
        <5>3. ~(k < k)
          OBVIOUS
        <5> HIDE DEF C, T
        <5> QED
          BY <5>1, <5>2, <5>3, <3>4
      <4>2. C(k + 1) = C(k) + 1
        BY <1>2, <4>1, FS_AddElement
      <4>3. all(k + 1) = all(k) \cup {from + k}
        BY <4>1
      <4>4. pick(C(k) + 1) = from + k
        BY <1>4, <3>4
      <4>5. upto(k + 1) = Append(upto(k), from + k)
        <5>1. PICK c \in Nat : c = C(k)
          BY <1>2
        <5> DEFINE f(j) == [i \in 1 .. j |-> pick(i)]
        <5> HIDE DEF pick
        <5>2. f(c + 1) = Append(f(c), pick(c + 1))
          <6>1. \A i \in 1 .. c + 1 : pick(i) \in {pick(j) : j \in 1 .. c + 1}
            OBVIOUS
          <6> DEFINE V == {pick(j) : j \in 1 .. c + 1}
          <6>2. f(c) \in Seq(V) /\ Len(f(c)) = c /\ \A i \in 1 .. c : f(c)[i] = pick(i)
            OBVIOUS
          <6>3. /\ f(c + 1) \in Seq(V) /\ Len(f(c + 1)) = c + 1
                /\ \A i \in 1 .. c + 1 : f(c + 1)[i] = pick(i)
            OBVIOUS
          <6>4. pick(c + 1) \in V
            OBVIOUS
          <6> HIDE DEF f, V
          <6>5. /\ Append(f(c), pick(c + 1)) \in Seq(V) /\ Len(Append(f(c), pick(c + 1))) = c + 1
                /\ \A i \in 1 .. c + 1 : Append(f(c), pick(c + 1))[i] = pick(i)
            BY <6>2, <6>4
          <6> QED
            BY <6>3, <6>5, SeqEqual
        <5>3. upto(k) = w \o f(c) /\ upto(k + 1) = w \o f(c + 1)
          BY <5>1, <4>2
        <5>4. w \o Append(f(c), from + k) = Append(w \o f(c), from + k)
          <6> DEFINE V == S \cup {pick(j) : j \in 1 .. c} \cup {from + k}
          <6>1. w \in Seq(V) /\ f(c) \in Seq(V) /\ from + k \in V
            BY <1>3
          <6> HIDE DEF f, V
          <6> QED
            BY <6>1
        <5> HIDE DEF f, upto
        <5> QED
          BY <5>1, <5>2, <5>3, <5>4, <4>4
      <4>6. from + k \in Int /\ \A q \in all(k) : q < from + k
        <5>1. \A i \in Below(word, k) : i \in Int /\ i < k
          BY <1>1 DEF Below
        <5>2. \A q \in S : q \in Int /\ q < from + k
          BY <1>3
        <5> QED
          BY <5>1, <5>2
      <4> HIDE DEF upto, all
      <4>7. Lists(Append(upto(k), from + k), all(k) \cup {from + k})
        BY <3>2, <4>6, ListAppend
      <4> QED
        BY <3>1, <4>3, <4>5, <4>7, Zenon
    <3> QED
      BY <3>3, <3>4
  <2> QED
    BY <2>1, <2>2
<1> HIDE DEF T
<1>6. \A k \in Nat : k \in T
  BY <1>5, Induction
<1>7. Lists(upto(width), all(width))
  <2> HIDE DEF upto, all
  <2> QED
    BY <1>6 DEF T
<1>8. Below(word, width) = word
  BY <1>1 DEF Below
<1>9. Write(w, from, word) = w \o [n \in 1 .. Cardinality(word) |-> pick(n)]
  BY DEF Write, Below
<1> QED
  BY <1>7, <1>8, <1>9

-----------------------------------------------------------------------------
(* Stage 1 word by word.                                                   *)

\* The scanner has read what lies before k, and written all but the last word of it.
StartsTo(k) == {p \in Starts : p < k}
IsScanned(scanned, k) ==
  /\ Lists(scanned.indexes, StartsTo(k - width))
  /\ scanned.prev = {i \in Bits : k - width + i \in Starts}
  /\ scanned.unescaped <=> \E p \in Controls : p < k
  /\ IsCarry(scanned.carry, k)

\* What is left to write completes the list.
LEMMA WrittenFacts ==
  ASSUME IsWidth, NEW scanned, NEW k \in Nat, IsScanned(scanned, k)
  PROVE  Lists(Write(scanned.indexes, k - width, scanned.prev), StartsTo(k))
<1> USE DEF IsWidth
<1> DEFINE from == k - width
           S == StartsTo(from)
           word == scanned.prev
<1>1. from \in Int /\ from + width = k
  OBVIOUS
<1>2. word = {i \in Bits : from + i \in Starts}
  <2>1. \A i \in Bits : k - width + i = from + i
    OBVIOUS
  <2> QED
    BY <2>1 DEF IsScanned
<1>3. Lists(scanned.indexes, S)
  BY DEF IsScanned
<1>4. word \subseteq Bits /\ \A p \in S : p < from
  BY <1>2 DEF StartsTo
<1> HIDE DEF from, S, word
<1>5. Lists(Write(scanned.indexes, from, word), S \cup {from + i : i \in word})
  BY <1>1, <1>3, <1>4, WriteLists
<1>6. S \cup {from + i : i \in word} = StartsTo(k)
  <2>1. ASSUME NEW p \in StartsTo(k) PROVE p \in S \cup {from + i : i \in word}
    <3>1. p \in Starts /\ p \in Nat /\ p < k
      BY DEF StartsTo, Starts
    <3>2. CASE p < from
      BY <3>1, <3>2 DEF S, StartsTo
    <3>3. CASE ~(p < from)
      <4>1. p - from \in Bits /\ from + (p - from) = p
        BY <1>1, <3>1, <3>3 DEF Bits
      <4>2. p - from \in word
        BY <4>1, <3>1, <1>2
      <4> QED
        BY <4>1, <4>2
    <3> QED
      BY <3>2, <3>3
  <2>2. ASSUME NEW p \in S PROVE p \in StartsTo(k)
    <3>1. p \in Starts /\ p \in Nat /\ p < from
      BY DEF S, StartsTo, Starts
    <3>2. p < k
      BY <3>1, <1>1
    <3> QED
      BY <3>1, <3>2 DEF StartsTo
  <2>3. ASSUME NEW i \in word PROVE from + i \in StartsTo(k)
    <3>1. i \in Bits /\ from + i \in Starts
      BY <1>2
    <3>2. from + i < k
      BY <1>1, <3>1 DEF Bits
    <3> QED
      BY <3>1, <3>2 DEF StartsTo
  <2> QED
    BY <2>1, <2>2, <2>3
<1> QED
  BY <1>5, <1>6 DEF from, word

\* next(): one word more.
LEMMA ScanWordFacts ==
  ASSUME IsWidth, text \in Seq(Characters), NEW scanned, NEW k \in Nat, IsScanned(scanned, k)
  PROVE  IsScanned(ScanWord(scanned, k), k + width)
<1> DEFINE block == NextBlock(Load(k), scanned.carry)
           after == ScanWord(scanned, k)
<1>1. /\ after.indexes = Write(scanned.indexes, k - width, scanned.prev)
      /\ after.prev = block.structurals
      /\ after.unescaped <=> scanned.unescaped \/ block.unescaped
      /\ after.carry = block.carry
  <2> HIDE DEF block
  <2> QED
    BY DEF ScanWord, Handed, block
<1>2. /\ block.structurals = {i \in Bits : k + i \in Starts}
      /\ block.unescaped <=> \E i \in Bits : k + i \in Controls
      /\ IsCarry(block.carry, k + width)
  <2>1. IsCarry(scanned.carry, k)
    BY DEF IsScanned
  <2> QED
    BY <2>1, BlockFacts
<1> HIDE DEF block, after
<1>3. (k + width) - width = k /\ \A i \in Bits : (k + width) - width + i = k + i
  BY DEF Bits, IsWidth
<1>4. Lists(after.indexes, StartsTo((k + width) - width))
  <2>1. Lists(after.indexes, StartsTo(k))
    BY <1>1, WrittenFacts
  <2>2. (k + width) - width = k
    BY DEF IsWidth
  <2> QED
    BY <2>1, <2>2
<1>5. after.prev = {i \in Bits : (k + width) - width + i \in Starts}
  BY <1>1, <1>2, <1>3
<1>6. after.unescaped <=> \E p \in Controls : p < k + width
  <2>1. scanned.unescaped <=> \E p \in Controls : p < k
    BY DEF IsScanned
  <2>2. \A p \in Controls : p \in Nat
    BY DEF Controls
  <2>3. \A p \in Controls : p < k + width <=> p < k \/ \E i \in Bits : p = k + i
    <3> SUFFICES ASSUME NEW p \in Controls
                 PROVE  p < k + width <=> p < k \/ \E i \in Bits : p = k + i
      OBVIOUS
    <3>1. p \in Nat
      BY <2>2
    <3>2. ASSUME p < k + width, ~(p < k) PROVE \E i \in Bits : p = k + i
      <4>1. p - k \in Bits /\ p = k + (p - k)
        BY <3>1, <3>2 DEF Bits, IsWidth
      <4> QED
        BY <4>1
    <3>3. ASSUME NEW i \in Bits, p = k + i PROVE p < k + width
      BY <3>3 DEF Bits, IsWidth
    <3>4. p < k => p < k + width
      BY <3>1 DEF IsWidth
    <3> QED
      BY <3>2, <3>3, <3>4
  <2> QED
    BY <1>1, <1>2, <2>1, <2>3
<1> QED
  BY <1>1, <1>2, <1>4, <1>5, <1>6 DEF IsScanned, after

\* What the text says of the outcome.
Result == IF Len(text) \in Insides THEN "UNCLOSED_STRING"
          ELSE IF Controls # {} THEN "UNESCAPED_CHARS"
          ELSE IF Starts = {} THEN "EMPTY" ELSE "SUCCESS"

\* What the scanner knows between two steps, and in the end.
Scanning ==
  [indexes |-> indexes, prev |-> prev_structurals, unescaped |-> unescaped, carry |-> carry]
ScanInv ==
  /\ IsWidth /\ text \in Seq(Characters) /\ idx \in Nat
  /\ result = "none" => IsScanned(Scanning, idx)
  /\ result # "none" => result = Result /\ Lists(indexes, Starts)

\* Behind the text nothing starts and no string closes.
LEMMA TextEnds ==
  ASSUME text \in Seq(Characters)
  PROVE  /\ \A p \in Starts : p \in Nat /\ p < Len(text)
         /\ \A p \in Controls : p \in Nat /\ p < Len(text)
         /\ \A k \in Nat : k >= Len(text) => (k \in Insides <=> Len(text) \in Insides)
         /\ 0 \notin Insides
<1>1. Len(text) \in Nat
  OBVIOUS
<1>2. \A p \in Nat : ~(p < Len(text)) => Ch(p) = "space"
  BY DEF Ch
<1>3. ASSUME NEW k \in Nat, k >= Len(text) PROVE k \in Insides <=> Len(text) \in Insides
  <2>1. {q \in Quotes : q <= k} = Quotes /\ {q \in Quotes : q <= Len(text)} = Quotes
    <3>1. \A q \in Quotes : q <= k /\ q <= Len(text)
      BY <1>1, <1>3, QuotesFacts
    <3> QED
      BY <3>1
  <2>2. Inside(k) <=> Inside(Len(text))
    BY <2>1 DEF Inside
  <2> QED
    BY <1>1, <2>2 DEF Insides
<1>4. \A p \in Starts : p \in Nat /\ p < Len(text)
  BY <1>2 DEF Starts
<1>5. \A p \in Controls : p \in Nat /\ p < Len(text)
  BY <1>2 DEF Controls
<1> QED
  BY <1>3, <1>4, <1>5, InsidesNext

\* A text says what it says as long as it is the same.
LEMMA SameText ==
  ASSUME text' = text
  PROVE  /\ Escapes' = Escapes /\ Insides' = Insides /\ NonQuotes' = NonQuotes
         /\ Starts' = Starts /\ Controls' = Controls /\ Result' = Result
         /\ Quotes' = Quotes /\ Plain' = Plain
<1>1. Escapes' = Escapes /\ Quotes' = Quotes
  BY DEF Escapes, Quotes, Escaped
<1>2. Insides' = Insides /\ Plain' = Plain
  BY <1>1 DEF Insides, Inside, Plain
<1>3. NonQuotes' = NonQuotes
  BY <1>1 DEF NonQuotes, IsQuote, Ch
<1>4. Starts' = Starts /\ Controls' = Controls
  BY <1>2, <1>3 DEF Starts, Controls, Ch
<1> QED
  BY <1>1, <1>2, <1>3, <1>4 DEF Result

\* At first nothing is known.
LEMMA ScanBegins ==
  ASSUME ScanInit
  PROVE  ScanInv
<1>1. IsWidth /\ text \in Seq(Characters)
  <2>1. width \in Widths /\ text \in Texts[width]
    BY DEF ScanInit
  <2>2. width \in Nat \ {0} /\ width % 2 = 0 /\ Texts[width] \subseteq Seq(Characters)
    BY <2>1, TextsAssumption
  <2> QED
    BY <2>1, <2>2 DEF IsWidth
<1>2. /\ idx = 0 /\ result = "none" /\ Scanning.indexes = <<>> /\ Scanning.prev = {}
      /\ Scanning.unescaped = FALSE /\ Scanning.carry = NoCarry
  BY DEF ScanInit, Scanning
<1> HIDE DEF Scanning
<1>3. StartsTo(0 - width) = {} /\ {i \in Bits : 0 - width + i \in Starts} = {}
  <2>1. \A p \in Starts : p \in Nat
    BY DEF Starts
  <2> QED
    BY <2>1, <1>1 DEF StartsTo, Bits, IsWidth
<1>4. ~\E p \in Controls : p < 0
  BY DEF Controls
<1>5. IsCarry(NoCarry, 0)
  BY <1>1, EscapesNext, InsidesNext DEF IsCarry, NoCarry
<1>6. IsScanned(Scanning, 0)
  BY <1>2, <1>3, <1>4, <1>5, EmptyList DEF IsScanned
<1> QED
  BY <1>1, <1>2, <1>6 DEF ScanInv

\* Two words more.
LEMMA ScanStepKeeps ==
  ASSUME ScanInv, result = "none", ScanStep, UNCHANGED result
  PROVE  ScanInv'
<1> DEFINE once == ScanWord(Scanning, idx)
           twice == ScanWord(once, idx + width)
<1>1. IsWidth /\ text \in Seq(Characters) /\ idx \in Nat /\ IsScanned(Scanning, idx)
  BY DEF ScanInv
<1>2. /\ indexes' = twice.indexes /\ prev_structurals' = twice.prev
      /\ unescaped' = twice.unescaped /\ carry' = twice.carry
      /\ idx' = (idx + width) + width /\ width' = width /\ text' = text
  BY <1>1 DEF ScanStep, Scanning, Step, IsWidth
<1>3. IsScanned(once, idx + width)
  BY <1>1, ScanWordFacts
<1> HIDE DEF once
<1>4. idx + width \in Nat /\ (idx + width) + width \in Nat
  BY <1>1 DEF IsWidth
<1>5. IsScanned(twice, (idx + width) + width)
  BY <1>1, <1>3, <1>4, ScanWordFacts
<1> HIDE DEF twice
<1>6. /\ Scanning'.indexes = twice.indexes /\ Scanning'.prev = twice.prev
      /\ Scanning'.unescaped = twice.unescaped /\ Scanning'.carry = twice.carry
  BY <1>2 DEF Scanning
<1>7. Escapes' = Escapes /\ Insides' = Insides /\ NonQuotes' = NonQuotes
      /\ Starts' = Starts /\ Controls' = Controls /\ Bits' = Bits
  BY <1>2, SameText DEF Bits
<1>8. IsScanned(Scanning, idx)'
  <2> HIDE DEF Scanning
  <2> QED
    BY <1>2, <1>5, <1>6, <1>7 DEF IsScanned, StartsTo, IsCarry
<1> QED
  BY <1>1, <1>2, <1>4, <1>8 DEF ScanInv, IsWidth

\* Stage 1 knows what it has read, and returns what the text says.
LEMMA ScanKeeps ==
  ASSUME ScanInv, ScanNext
  PROVE  ScanInv'
<1>1. CASE Empty
  <2>1. /\ text = <<>> /\ result = "none" /\ result' = "EMPTY"
        /\ width' = width /\ text' = text /\ idx' = idx /\ indexes' = indexes
    BY <1>1 DEF Empty
  <2>2. IsWidth /\ text \in Seq(Characters) /\ idx \in Nat /\ IsScanned(Scanning, idx)
    BY <2>1 DEF ScanInv
  <2>3. Starts = {} /\ Controls = {} /\ Len(text) \notin Insides
    <3>1. Len(text) = 0
      BY <2>1
    <3> QED
      BY <3>1, <2>2, TextEnds
  <2>4. Result = "EMPTY"
    BY <2>3 DEF Result
  <2>5. Lists(indexes, Starts)
    <3>1. Lists(Scanning.indexes, StartsTo(idx - width))
      BY <2>2 DEF IsScanned
    <3>2. StartsTo(idx - width) = Starts
      BY <2>3 DEF StartsTo
    <3> QED
      BY <3>1, <3>2 DEF Scanning
  <2>6. Result' = Result /\ Starts' = Starts
    BY <2>1, SameText
  <2> QED
    BY <2>1, <2>2, <2>4, <2>5, <2>6 DEF ScanInv, IsWidth
<1>2. CASE FullBlock
  BY <1>2, ScanStepKeeps DEF FullBlock
<1>3. CASE Remainder
  BY <1>3, ScanStepKeeps DEF Remainder
<1>4. CASE Finish
  <2>1. /\ result = "none" /\ idx >= Len(text)
        /\ indexes' = Write(indexes, idx - width, prev_structurals)
        /\ result' = IF carry.in_string THEN "UNCLOSED_STRING"
                     ELSE IF unescaped THEN "UNESCAPED_CHARS"
                     ELSE IF indexes' = <<>> THEN "EMPTY" ELSE "SUCCESS"
        /\ width' = width /\ text' = text /\ idx' = idx
    BY <1>4 DEF Finish
  <2>2. IsWidth /\ text \in Seq(Characters) /\ idx \in Nat /\ IsScanned(Scanning, idx)
    BY <2>1 DEF ScanInv
  <2>3. /\ Scanning.indexes = indexes /\ Scanning.prev = prev_structurals
        /\ Scanning.unescaped = unescaped /\ Scanning.carry = carry
    BY DEF Scanning
  <2> HIDE DEF Scanning
  <2>4. /\ unescaped <=> \E p \in Controls : p < idx
        /\ carry.in_string <=> idx \in Insides
    BY <2>2, <2>3 DEF IsScanned, IsCarry
  <2>5. Len(text) \in Nat
    BY <2>2
  <2>6. StartsTo(idx) = Starts
    BY <2>1, <2>2, <2>5, TextEnds DEF StartsTo
  <2>7. Lists(indexes', Starts)
    BY <2>1, <2>2, <2>3, <2>6, WrittenFacts
  <2>8. unescaped <=> Controls # {}
    <3>1. \A p \in Controls : p < idx
      BY <2>1, <2>2, <2>5, TextEnds
    <3> QED
      BY <3>1, <2>4
  <2>9. carry.in_string <=> Len(text) \in Insides
    BY <2>1, <2>2, <2>4, TextEnds
  <2>10. indexes' = <<>> <=> Starts = {}
    BY <2>7, EmptyList
  <2>11. result' = Result /\ result' # "none"
    BY <2>1, <2>8, <2>9, <2>10 DEF Result
  <2>12. Result' = Result /\ Starts' = Starts
    BY <2>1, SameText
  <2> QED
    BY <2>1, <2>2, <2>7, <2>11, <2>12 DEF ScanInv, IsWidth
<1> QED
  BY <1>1, <1>2, <1>3, <1>4 DEF ScanNext

-----------------------------------------------------------------------------
(* Stage 1 character by character.                                         *)

\* The control characters that are not escaped.
Unseen == Controls \ Escapes

\* No token goes on here.
Fresh == ~(/\ position > 0 /\ position - 1 \in NonQuotes
           /\ Ch(position) \notin {"op", "feed", "space", "tab"})

\* What the lexer has found before "position", of a plain text: the same tokens; that
\* outside strings it is in none, at a place where a token may start, unless a string
\* ran up to the end; that in a string it looks at a character that is not escaped.
FoundStarts == Lists(found, StartsTo(position))
FoundError  == verdict = IF \E p \in Unseen : p < position THEN "UNESCAPED_CHARS" ELSE "SUCCESS"
FoundFirst  == \A p \in Insides : p <= position => found # <<>>
Outside     == IF unclosed THEN position > Len(text) /\ Len(text) \in Insides
               ELSE position \notin Insides
InString    == position \in Insides /\ position \notin Escapes /\ ~unclosed
Lexing ==
  /\ position \in Nat /\ FoundStarts /\ FoundError /\ FoundFirst
  /\ \/ at = "scan" /\ Outside /\ Fresh
     \/ at = "string" /\ InString

\* What it returns.
Verdict == IF Starts = {} THEN "EMPTY"
           ELSE IF Len(text) \in Insides THEN "UNCLOSED_STRING"
           ELSE IF Unseen # {} THEN "UNESCAPED_CHARS" ELSE "SUCCESS"
Returned ==
  /\ at = "returned" /\ Lists(found, Starts) /\ verdict = Verdict
  /\ \A p \in Insides : p <= Len(text) => Starts # {}
LexInv == Plain => Lexing \/ Returned

\* A plain text, by offsets.
LEMMA PlainFacts ==
  ASSUME text \in Seq(Characters), Plain, NEW p \in Nat
  PROVE  /\ Ch(p) \in {"backslash", "feed"} => p + 1 \in Insides
         /\ IsQuote(p) /\ p + 1 \in Insides => p = 0 \/ Ch(p - 1) # "letter"
         /\ Ch(p) \in Characters
<1>1. \A i \in 1 .. Len(text) :
        /\ text[i] \in {"backslash", "feed"} => Inside(i)
        /\ i \in Quotes /\ Inside(i) => i = 1 \/ text[i - 1] # "letter"
  <2>1. DOMAIN text = 1 .. Len(text)
    OBVIOUS
  <2> QED
    BY <2>1 DEF Plain
<1>2. CASE p < Len(text)
  <2>1. p + 1 \in 1 .. Len(text) /\ p + 1 \in Nat /\ Ch(p) = text[p + 1] /\ (p + 1) - 1 = p
    BY <1>2 DEF Ch
  <2>2. p # 0 => Ch(p - 1) = text[p]
    BY <1>2 DEF Ch
  <2>3. p + 1 \in Quotes <=> IsQuote(p)
    BY QuotesFacts
  <2>4. text[p + 1] \in Characters
    BY <2>1
  <2> QED
    BY <1>1, <2>1, <2>2, <2>3, <2>4 DEF Insides
<1>3. CASE ~(p < Len(text))
  <2>1. Ch(p) = "space"
    BY <1>3 DEF Ch
  <2> QED
    BY <2>1 DEF IsQuote, Characters
<1> QED
  BY <1>2, <1>3

\* One character more.
LEMMA OneMore ==
  ASSUME NEW q \in Nat
  PROVE  /\ q \in Starts => StartsTo(q + 1) = StartsTo(q) \cup {q}
         /\ q \notin Starts => StartsTo(q + 1) = StartsTo(q)
         /\ (\E p \in Unseen : p < q + 1) <=> q \in Unseen \/ \E p \in Unseen : p < q
<1>1. \A p \in Starts : p \in Nat
  BY DEF Starts
<1>2. \A p \in Unseen : p \in Nat
  BY DEF Unseen, Controls
<1>3. \A p \in Nat : p < q + 1 <=> p < q \/ p = q
  OBVIOUS
<1>4. \A p \in Starts : p < q + 1 <=> p < q \/ p = q
  BY <1>1, <1>3
<1>5. (\E p \in Unseen : p < q + 1) <=> q \in Unseen \/ \E p \in Unseen : p < q
  BY <1>2, <1>3
<1> QED
  BY <1>4, <1>5 DEF StartsTo

\* What is known of the text does not change.
LEMMA SameWords ==
  ASSUME text' = text
  PROVE  /\ Unseen' = Unseen /\ Verdict' = Verdict
         /\ FoundStarts' <=> Lists(found', {p \in Starts : p < position'})
         /\ FoundError' <=> verdict' = IF \E p \in Unseen : p < position'
                                       THEN "UNESCAPED_CHARS" ELSE "SUCCESS"
         /\ FoundFirst' <=> \A p \in Insides : p <= position' => found' # <<>>
<1>1. Escapes' = Escapes /\ Insides' = Insides /\ Starts' = Starts /\ Controls' = Controls
  BY SameText
<1>2. Unseen' = Unseen
  BY <1>1 DEF Unseen
<1> QED
  BY <1>1, <1>2 DEF Verdict, FoundStarts, StartsTo, FoundError, FoundFirst

\* Outside strings, with something left: no string is open, and what is here is not
\* escaped.
LEMMA OutsideFacts ==
  ASSUME text \in Seq(Characters), Plain, Lexing, at = "scan", position < Len(text)
  PROVE  /\ position \in Nat /\ FoundStarts /\ FoundError /\ FoundFirst /\ Fresh
         /\ ~unclosed /\ position \notin Insides /\ position \notin Escapes
         /\ Ch(position) = text[position + 1]
         /\ position + 1 \in Insides <=> IsQuote(position)
         /\ IsQuote(position) <=> Ch(position) = "quote"
         /\ Ch(position) \notin {"op", "space", "tab", "quote"} => Ch(position) = "letter"
         /\ position \in Starts <=> Ch(position) \notin {"space", "tab"}
<1>1. /\ position \in Nat /\ FoundStarts /\ FoundError /\ FoundFirst /\ Fresh
      /\ Len(text) \in Nat /\ Outside
  BY DEF Lexing
<1>2. ~unclosed /\ position \notin Insides
  BY <1>1 DEF Outside
<1>3. position \notin Escapes
  <2> SUFFICES ASSUME position \in Escapes PROVE FALSE
    OBVIOUS
  <2>1. position # 0
    BY EscapesNext
  <2>2. PICK q \in Nat : position = q + 1
    BY <1>1, <2>1
  <2>3. Ch(q) = "backslash"
    BY <2>2, EscapesNext
  <2>4. q + 1 \in Insides
    BY <2>3, PlainFacts
  <2> QED
    BY <1>2, <2>2, <2>4
<1>4. Ch(position) = text[position + 1]
  BY DEF Ch
<1>5. position + 1 \in Insides <=> IsQuote(position)
  BY <1>1, <1>2, InsidesNext
<1>6. IsQuote(position) <=> Ch(position) = "quote"
  BY <1>3 DEF IsQuote
<1>7. Ch(position) \notin {"op", "space", "tab", "quote"} => Ch(position) = "letter"
  BY <1>1, <1>5, <1>6, PlainFacts DEF Characters
<1>8. position \in Starts <=> Ch(position) \notin {"space", "tab"}
  BY <1>1, <1>2 DEF Starts, Fresh
<1> QED
  BY <1>1, <1>2, <1>3, <1>4, <1>5, <1>6, <1>7, <1>8

\* A token is found, and there is no other one up to the new position.
LEMMA TokenFound ==
  ASSUME position \in Nat, FoundStarts, text' = text, found' = Append(found, position),
         StartsTo(position') = StartsTo(position) \cup {position}
  PROVE  FoundStarts' /\ FoundFirst'
<1>1. \A p \in StartsTo(position) : p < position
  BY DEF StartsTo
<1>2. Lists(found', StartsTo(position'))
  BY <1>1, ListAppend DEF FoundStarts
<1>3. FoundStarts'
  BY <1>2, SameWords DEF StartsTo
<1>4. found' # <<>>
  BY DEF FoundStarts, Lists
<1>5. FoundFirst'
  BY <1>4, SameWords
<1> QED
  BY <1>3, <1>5

\* A string begins.
LEMMA StringKeeps ==
  ASSUME text \in Seq(Characters), Plain, Lexing, Lexer!String
  PROVE  Lexing'
<1>1. /\ at = "scan" /\ position < Len(text) /\ text[position + 1] = "quote"
      /\ at' = "string" /\ found' = Append(found, position) /\ position' = position + 1
      /\ text' = text /\ unclosed' = unclosed /\ verdict' = verdict
  BY DEF Lexer!String, Lexer!More, Lexer!Char
<1>2. /\ position \in Nat /\ FoundStarts /\ FoundError
      /\ ~unclosed /\ position \notin Insides /\ position \notin Escapes
      /\ Ch(position) = "quote" /\ position + 1 \in Insides /\ position \in Starts
  BY <1>1, OutsideFacts
<1>3. position \notin Unseen
  BY <1>2 DEF Unseen, Controls
<1>4. FoundStarts' /\ FoundFirst'
  <2>1. StartsTo(position + 1) = StartsTo(position) \cup {position}
    BY <1>2, OneMore
  <2> QED
    BY <1>1, <1>2, <2>1, TokenFound
<1>5. FoundError'
  BY <1>1, <1>2, <1>3, OneMore, SameWords DEF FoundError
<1>6. InString'
  <2>1. position + 1 \notin Escapes
    BY <1>2, EscapesNext
  <2>2. Escapes' = Escapes /\ Insides' = Insides
    BY <1>1, SameText
  <2> QED
    BY <1>1, <1>2, <2>1, <2>2 DEF InString
<1> QED
  BY <1>1, <1>2, <1>4, <1>5, <1>6 DEF Lexing

\* Outside strings, behind what is no part of a token or a closing quote.
LEMMA OutsideAgain ==
  ASSUME text' = text, at' = "scan", position' \in Nat, ~unclosed', position' \notin Insides,
         \/ position' > 0 /\ position' - 1 \notin NonQuotes
         \/ Ch(position') \in {"op", "feed", "space", "tab"}
  PROVE  at' = "scan" /\ Outside' /\ Fresh'
<1>1. Insides' = Insides /\ NonQuotes' = NonQuotes
  BY SameText
<1>2. Outside'
  BY <1>1 DEF Outside
<1>3. Fresh'
  BY <1>1 DEF Fresh, Ch
<1> QED
  BY <1>2, <1>3

\* An operator.
LEMMA OperatorKeeps ==
  ASSUME text \in Seq(Characters), Plain, Lexing, Lexer!Operator
  PROVE  Lexing'
<1>1. /\ at = "scan" /\ position < Len(text) /\ text[position + 1] = "op"
      /\ at' = "scan" /\ found' = Append(found, position) /\ position' = position + 1
      /\ text' = text /\ unclosed' = unclosed /\ verdict' = verdict
  BY DEF Lexer!Operator, Lexer!More, Lexer!Char
<1>2. /\ position \in Nat /\ FoundStarts /\ FoundError
      /\ ~unclosed /\ Ch(position) = "op" /\ position + 1 \notin Insides /\ position \in Starts
  BY <1>1, OutsideFacts
<1>3. position \notin Unseen /\ position \notin NonQuotes
  BY <1>2 DEF Unseen, Controls, NonQuotes
<1>4. FoundStarts' /\ FoundFirst'
  <2>1. StartsTo(position + 1) = StartsTo(position) \cup {position}
    BY <1>2, OneMore
  <2> QED
    BY <1>1, <1>2, <2>1, TokenFound
<1>5. FoundError'
  BY <1>1, <1>2, <1>3, OneMore, SameWords DEF FoundError
<1>6. at' = "scan" /\ Outside' /\ Fresh'
  <2>1. position' > 0 /\ position' - 1 = position /\ position' \in Nat
    BY <1>1, <1>2
  <2> QED
    BY <1>1, <1>2, <1>3, <2>1, OutsideAgain
<1> QED
  BY <1>1, <1>2, <1>4, <1>5, <1>6 DEF Lexing

\* White space.
LEMMA WhitespaceKeeps ==
  ASSUME text \in Seq(Characters), Plain, Lexing, Lexer!Whitespace
  PROVE  Lexing'
<1>1. /\ at = "scan" /\ position < Len(text) /\ text[position + 1] \in {"space", "tab"}
      /\ at' = "scan" /\ found' = found /\ position' = position + 1
      /\ text' = text /\ unclosed' = unclosed /\ verdict' = verdict
  BY DEF Lexer!Whitespace, Lexer!More, Lexer!Char
<1>2. /\ position \in Nat /\ FoundStarts /\ FoundError /\ FoundFirst
      /\ ~unclosed /\ Ch(position) \in {"space", "tab"}
      /\ position + 1 \notin Insides /\ position \notin Starts
  BY <1>1, OutsideFacts
<1>3. position \notin Unseen /\ position \notin NonQuotes
  BY <1>2 DEF Unseen, Controls, NonQuotes
<1>4. FoundStarts'
  BY <1>1, <1>2, OneMore, SameWords DEF StartsTo, FoundStarts
<1>5. FoundError'
  BY <1>1, <1>2, <1>3, OneMore, SameWords DEF FoundError
<1>6. FoundFirst'
  <2>1. \A p \in Insides : p \in Nat
    BY DEF Insides
  <2>2. \A p \in Insides : p <= position + 1 => p <= position
    BY <2>1, <1>2
  <2> QED
    BY <2>2, <1>1, <1>2, SameWords DEF FoundFirst
<1>7. at' = "scan" /\ Outside' /\ Fresh'
  <2>1. position' > 0 /\ position' - 1 = position /\ position' \in Nat
    BY <1>1, <1>2
  <2> QED
    BY <1>1, <1>2, <1>3, <2>1, OutsideAgain
<1> QED
  BY <1>1, <1>2, <1>4, <1>5, <1>6, <1>7 DEF Lexing

\* A character of a string.
LEMMA StringCharKeeps ==
  ASSUME text \in Seq(Characters), Plain, Lexing, Lexer!StringChar
  PROVE  Lexing'
<1>1. /\ at = "string" /\ position < Len(text) /\ text[position + 1] # "quote"
      /\ position' = position + (IF text[position + 1] = "backslash" THEN 2 ELSE 1)
      /\ verdict' = IF text[position + 1] \in {"tab", "feed"} THEN "UNESCAPED_CHARS" ELSE verdict
      /\ text' = text /\ at' = at /\ found' = found /\ unclosed' = unclosed
  BY DEF Lexer!StringChar, Lexer!More, Lexer!Char
<1>2. /\ position \in Nat /\ FoundStarts /\ FoundError /\ FoundFirst
      /\ ~unclosed /\ position \in Insides /\ position \notin Escapes
  BY <1>1 DEF Lexing, InString
<1>3. Ch(position) = text[position + 1]
  BY <1>1 DEF Ch
<1>4. position + 1 \in Insides /\ position \notin Starts
  <2>1. ~IsQuote(position)
    BY <1>1, <1>3 DEF IsQuote
  <2> QED
    BY <1>2, <2>1, InsidesNext DEF Starts
<1>5. found # <<>>
  BY <1>2 DEF FoundFirst
<1>6. FoundFirst'
  BY <1>1, <1>5, SameWords
<1>7. Escapes' = Escapes /\ Insides' = Insides
  BY <1>1, SameText
<1>8. StartsTo(position + 1) = StartsTo(position)
  BY <1>2, <1>4, OneMore
<1>9. CASE Ch(position) = "backslash"
  <2>1. position' = position + 2 /\ position + 2 = (position + 1) + 1 /\ verdict' = verdict
    BY <1>1, <1>2, <1>3, <1>9
  <2>2. position + 1 \in Escapes /\ position + 1 \in Nat
    BY <1>2, <1>9, EscapesNext
  <2>3. position + 2 \in Insides /\ position + 1 \notin Starts
    <3>1. ~IsQuote(position + 1)
      BY <2>2 DEF IsQuote
    <3> QED
      BY <1>4, <2>1, <2>2, <3>1, InsidesNext DEF Starts
  <2>4. position + 2 \notin Escapes
    BY <2>1, <2>2, EscapesNext
  <2>5. position \notin Unseen /\ position + 1 \notin Unseen
    BY <1>9, <2>2 DEF Unseen, Controls
  <2>6. StartsTo(position + 2) = StartsTo(position)
    BY <1>8, <2>1, <2>2, <2>3, OneMore
  <2>7. (\E p \in Unseen : p < position + 2) <=> \E p \in Unseen : p < position
    BY <1>2, <2>1, <2>2, <2>5, OneMore
  <2>8. FoundStarts'
    BY <1>1, <1>2, <2>1, <2>6, SameWords DEF StartsTo, FoundStarts
  <2>9. FoundError'
    BY <1>1, <1>2, <2>1, <2>7, SameWords DEF FoundError
  <2>10. InString' /\ position' \in Nat
    BY <1>1, <1>2, <1>7, <2>1, <2>3, <2>4 DEF InString
  <2> QED
    BY <1>1, <1>6, <2>8, <2>9, <2>10 DEF Lexing
<1>10. CASE Ch(position) # "backslash"
  <2>1. position' = position + 1
    BY <1>1, <1>3, <1>10
  <2>2. position + 1 \notin Escapes
    BY <1>2, <1>10, EscapesNext
  <2>3. position \in Unseen <=> Ch(position) \in {"tab", "feed"}
    BY <1>2, <1>4 DEF Unseen, Controls
  <2>4. FoundStarts'
    BY <1>1, <1>2, <1>8, <2>1, SameWords DEF StartsTo, FoundStarts
  <2>5. FoundError'
    BY <1>1, <1>2, <1>3, <2>1, <2>3, OneMore, SameWords DEF FoundError
  <2>6. InString' /\ position' \in Nat
    BY <1>1, <1>2, <1>4, <1>7, <2>1, <2>2 DEF InString
  <2> QED
    BY <1>1, <1>6, <2>4, <2>5, <2>6 DEF Lexing
<1> QED
  BY <1>9, <1>10

\* The end of a string, or of the text.
LEMMA StringEndKeeps ==
  ASSUME text \in Seq(Characters), Plain, Lexing, Lexer!StringEnd
  PROVE  Lexing'
<1>1. /\ at = "string" /\ (position < Len(text) => text[position + 1] = "quote")
      /\ at' = "scan" /\ position' = position + 1
      /\ unclosed' <=> unclosed \/ ~(position < Len(text))
      /\ text' = text /\ found' = found /\ verdict' = verdict
  BY DEF Lexer!StringEnd, Lexer!More, Lexer!Char
<1>2. /\ position \in Nat /\ FoundStarts /\ FoundError /\ FoundFirst
      /\ ~unclosed /\ position \in Insides /\ position \notin Escapes
  BY <1>1 DEF Lexing, InString
<1>3. position \notin Starts /\ position \notin Unseen
  <2>1. Ch(position) \in {"quote", "space"}
    BY <1>1 DEF Ch
  <2> QED
    BY <1>2, <2>1 DEF Starts, Controls, Unseen
<1>4. FoundStarts'
  BY <1>1, <1>2, <1>3, OneMore, SameWords DEF StartsTo, FoundStarts
<1>5. FoundError'
  BY <1>1, <1>2, <1>3, OneMore, SameWords DEF FoundError
<1>6. FoundFirst'
  <2>1. found # <<>>
    BY <1>2 DEF FoundFirst
  <2> QED
    BY <2>1, <1>1, SameWords
<1>7. at' = "scan" /\ Outside' /\ Fresh'
  <2>1. position' \in Nat /\ position' > 0 /\ position' - 1 = position
    BY <1>1, <1>2
  <2>2. CASE position < Len(text)
    <3>1. IsQuote(position)
      BY <1>1, <1>2, <2>2 DEF IsQuote, Ch
    <3>2. position + 1 \notin Insides /\ position \notin NonQuotes
      BY <1>2, <3>1, InsidesNext DEF NonQuotes
    <3>3. ~unclosed'
      BY <1>1, <1>2, <2>2
    <3> QED
      BY <1>1, <2>1, <3>2, <3>3, OutsideAgain
  <2>3. CASE ~(position < Len(text))
    <3>1. Len(text) \in Nat /\ position >= Len(text)
      BY <1>2, <2>3
    <3>2. Len(text) \in Insides
      BY <1>2, <3>1, TextEnds
    <3>3. unclosed' /\ position' > Len(text)
      BY <1>1, <1>2, <2>3, <3>1
    <3>4. Insides' = Insides
      BY <1>1, SameText
    <3>5. Outside'
      BY <1>1, <3>2, <3>3, <3>4 DEF Outside
    <3>6. Fresh'
      <4>1. ~(position' < Len(text))
        BY <2>1, <3>1, <3>3
      <4> QED
        BY <1>1, <4>1 DEF Fresh, Ch
    <3> QED
      BY <1>1, <3>5, <3>6
  <2> QED
    BY <2>2, <2>3
<1>8. position' \in Nat
  BY <1>1, <1>2
<1> QED
  BY <1>4, <1>5, <1>6, <1>7, <1>8 DEF Lexing

\* Of the numbers with which a set is given, the least.
LEMMA LexerMin ==
  ASSUME NEW T \in SUBSET Nat, T # {}
  PROVE  Lexer!Min(T) \in T /\ \A y \in T : Lexer!Min(T) <= y
BY LeastNumber DEF Lexer!Min

\* A primitive of a plain text is a run of letters, and the next thing is none.
LEMMA RunFacts ==
  ASSUME text \in Seq(Characters), Plain, NEW q \in Nat, NEW e \in Nat, q < e,
         Ch(q) = "letter", q + 1 \notin Insides,
         \A r \in q + 1 .. e - 1 : Ch(r) \notin {"op", "space", "tab"}
  PROVE  \A r \in q .. e - 1 : Ch(r) = "letter" /\ r + 1 \notin Insides
<1> DEFINE ok(r) == Ch(r) = "letter" /\ r + 1 \notin Insides
           T == {k \in Nat : q + k < e => ok(q + k)}
<1>1. ASSUME NEW n \in Nat, \A m \in 0 .. n - 1 : m \in T PROVE n \in T
  <2> SUFFICES ASSUME q + n < e PROVE ok(q + n)
    OBVIOUS
  <2>1. CASE n = 0
    <3>1. q + n = q
      BY <2>1
    <3> QED
      BY <3>1
  <2>2. CASE n # 0
    <3>1. PICK k \in Nat : n = k + 1
      BY <2>2
    <3>2. q + k \in Nat /\ (q + k) + 1 = q + n /\ q + k < e /\ k \in 0 .. n - 1
      BY <3>1
    <3>3. ok(q + k)
      BY <1>1, <3>2
    <3> DEFINE r == q + n
    <3>4. r \in Nat /\ r \in q + 1 .. e - 1 /\ r = (q + k) + 1 /\ r # 0 /\ r - 1 = q + k
      BY <3>1, <3>2
    <3> HIDE DEF r
    <3>5. Ch(r) \notin {"op", "space", "tab"} /\ r \notin Insides
      BY <3>3, <3>4
    <3>6. r \notin Escapes
      BY <3>2, <3>3, <3>4, EscapesNext
    <3>7. r + 1 \in Insides <=> IsQuote(r)
      BY <3>4, <3>5, InsidesNext
    <3>8. ~IsQuote(r)
      BY <3>3, <3>4, <3>7, PlainFacts
    <3>9. Ch(r) = "letter"
      BY <3>4, <3>5, <3>6, <3>7, <3>8, PlainFacts DEF IsQuote, Characters
    <3> QED
      BY <3>7, <3>8, <3>9 DEF r
  <2> QED
    BY <2>1, <2>2
<1> HIDE DEF T
<1>2. \A k \in Nat : k \in T
  BY <1>1, Induction
<1>3. ASSUME NEW r \in q .. e - 1 PROVE Ch(r) = "letter" /\ r + 1 \notin Insides
  <2>1. r - q \in Nat /\ q + (r - q) = r /\ q + (r - q) < e
    OBVIOUS
  <2>2. ok(q + (r - q))
    BY <1>2, <2>1 DEF T
  <2> QED
    BY <2>1, <2>2
<1> QED
  BY <1>3

\* A primitive.
LEMMA PrimitiveKeeps ==
  ASSUME text \in Seq(Characters), Plain, Lexing, Lexer!Primitive
  PROVE  Lexing'
<1> DEFINE T == {Len(text)} \cup {i \in position + 1 .. Len(text) - 1 :
                                   text[i + 1] \in {"op", "space", "tab"}}
           e == Lexer!Min(T)
<1>1. /\ at = "scan" /\ position < Len(text)
      /\ text[position + 1] \in {"letter", "backslash", "feed"}
      /\ at' = "scan" /\ found' = Append(found, position) /\ position' = e
      /\ text' = text /\ unclosed' = unclosed /\ verdict' = verdict
  BY DEF Lexer!Primitive, Lexer!More, Lexer!Char, Lexer!Delimiter
<1>2. /\ position \in Nat /\ FoundStarts /\ FoundError
      /\ ~unclosed /\ Ch(position) = "letter" /\ position + 1 \notin Insides /\ position \in Starts
  BY <1>1, OutsideFacts
<1>3. /\ e \in Nat /\ position < e /\ e <= Len(text)
      /\ Ch(e) \in {"op", "space", "tab"}
      /\ \A r \in position + 1 .. e - 1 : Ch(r) \notin {"op", "space", "tab"}
  <2>1. Len(text) \in Nat
    OBVIOUS
  <2>2. T \in SUBSET Nat /\ T # {} /\ \A i \in T : position < i /\ i <= Len(text)
    BY <1>1, <1>2, <2>1
  <2>3. e \in T /\ \A y \in T : e <= y
    BY <2>2, LexerMin
  <2>4. Ch(e) \in {"op", "space", "tab"}
    <3> HIDE DEF e
    <3>1. CASE e = Len(text)
      <4>1. ~(e < Len(text))
        BY <2>1, <3>1
      <4> QED
        BY <4>1 DEF Ch
    <3>2. CASE e # Len(text)
      <4>1. e \in position + 1 .. Len(text) - 1 /\ text[e + 1] \in {"op", "space", "tab"}
        BY <2>3, <3>2
      <4>2. e < Len(text)
        BY <1>2, <2>1, <4>1
      <4> QED
        BY <4>1, <4>2 DEF Ch
    <3> QED
      BY <3>1, <3>2
  <2>5. ASSUME NEW r \in position + 1 .. e - 1 PROVE Ch(r) \notin {"op", "space", "tab"}
    <3>1. e \in Nat /\ e <= Len(text)
      BY <2>2, <2>3
    <3>2. r \in Nat /\ r < e /\ r < Len(text) /\ r \in position + 1 .. Len(text) - 1
      BY <1>2, <2>1, <3>1
    <3>3. r \notin T
      <4> HIDE DEF T, e
      <4>1. ~(e <= r)
        BY <3>1, <3>2
      <4> QED
        BY <4>1, <2>3
    <3> QED
      BY <3>2, <3>3 DEF Ch
  <2> QED
    BY <2>2, <2>3, <2>4, <2>5
<1> HIDE DEF e
<1>4. \A r \in position .. e - 1 : Ch(r) = "letter" /\ r + 1 \notin Insides
  BY <1>2, <1>3, RunFacts
<1>5. StartsTo(e) = StartsTo(position) \cup {position}
  <2>1. \A p \in Starts : p \in Nat
    BY DEF Starts
  <2>2. ASSUME NEW p \in Starts, position < p, p < e PROVE FALSE
    <3>1. p \in position .. e - 1 /\ p - 1 \in position .. e - 1 /\ p - 1 \in Nat /\ p > 0
      BY <1>2, <1>3, <2>1, <2>2
    <3>2. Ch(p) = "letter" /\ Ch(p - 1) = "letter"
      BY <1>4, <3>1
    <3>3. p - 1 \in NonQuotes
      BY <3>1, <3>2 DEF NonQuotes, IsQuote
    <3> QED
      BY <3>1, <3>2, <3>3, <2>2 DEF Starts
  <2>3. \A p \in Starts : p < e <=> p < position \/ p = position
    BY <1>2, <1>3, <2>1, <2>2
  <2> QED
    BY <1>2, <2>3 DEF StartsTo
<1>6. FoundStarts' /\ FoundFirst'
  BY <1>1, <1>2, <1>5, TokenFound
<1>7. FoundError'
  <2>1. \A p \in Unseen : p \in Nat
    BY DEF Unseen, Controls
  <2>2. ASSUME NEW p \in Unseen, ~(p < position), p < e PROVE FALSE
    <3>1. p \in position .. e - 1
      BY <1>2, <1>3, <2>1, <2>2
    <3> QED
      BY <1>4, <3>1, <2>2 DEF Unseen, Controls
  <2>3. (\E p \in Unseen : p < e) <=> \E p \in Unseen : p < position
    BY <1>2, <1>3, <2>1, <2>2
  <2> QED
    BY <1>1, <1>2, <2>3, SameWords DEF FoundError
<1>8. at' = "scan" /\ Outside' /\ Fresh'
  <2>1. e - 1 \in position .. e - 1 /\ (e - 1) + 1 = e
    BY <1>2, <1>3
  <2>2. e \notin Insides
    BY <1>4, <2>1
  <2> QED
    BY <1>1, <1>2, <1>3, <2>2, OutsideAgain
<1>9. position' \in Nat
  BY <1>1, <1>3
<1> QED
  BY <1>6, <1>7, <1>8, <1>9 DEF Lexing

\* It returns what the text says.
LEMMA ReturnKeeps ==
  ASSUME text \in Seq(Characters), Plain, Lexing, Lexer!Return
  PROVE  Returned'
<1>1. /\ at = "scan" /\ ~(position < Len(text))
      /\ at' = "returned"
      /\ verdict' = IF found = <<>> THEN "EMPTY"
                    ELSE IF unclosed THEN "UNCLOSED_STRING" ELSE verdict
      /\ text' = text /\ found' = found
  BY DEF Lexer!Return, Lexer!More
<1>2. position \in Nat /\ FoundStarts /\ FoundError /\ FoundFirst /\ Outside
  BY <1>1 DEF Lexing
<1>3. Len(text) \in Nat /\ position >= Len(text)
  BY <1>1, <1>2
<1>4. StartsTo(position) = Starts
  BY <1>2, <1>3, TextEnds DEF StartsTo
<1>5. Lists(found, Starts) /\ (found = <<>> <=> Starts = {})
  BY <1>2, <1>4, EmptyList DEF FoundStarts
<1>6. unclosed <=> Len(text) \in Insides
  BY <1>2, <1>3, TextEnds DEF Outside
<1>7. verdict = IF Unseen # {} THEN "UNESCAPED_CHARS" ELSE "SUCCESS"
  <2>1. \A p \in Unseen : p < position
    BY <1>2, <1>3, TextEnds DEF Unseen
  <2> QED
    BY <2>1, <1>2 DEF FoundError
<1>8. verdict' = Verdict
  BY <1>1, <1>5, <1>6, <1>7 DEF Verdict
<1>9. \A p \in Insides : p <= Len(text) => Starts # {}
  <2>1. \A p \in Insides : p \in Nat
    BY DEF Insides
  <2>2. \A p \in Insides : p <= Len(text) => p <= position
    BY <2>1, <1>2, <1>3
  <2> QED
    BY <2>2, <1>2, <1>5 DEF FoundFirst
<1>10. Insides' = Insides /\ Starts' = Starts /\ Verdict' = Verdict
  BY <1>1, SameText, SameWords
<1> QED
  BY <1>1, <1>5, <1>8, <1>9, <1>10 DEF Returned

\* The lexer knows what it has read, and returns what the text says.
LEMMA LexKeeps ==
  ASSUME text \in Seq(Characters), LexInv, Lexer!Next
  PROVE  LexInv'
<1>1. text' = text
  BY DEF Lexer!Next, Lexer!String, Lexer!Operator, Lexer!Whitespace, Lexer!Primitive,
         Lexer!StringChar, Lexer!StringEnd, Lexer!Return
<1>2. Plain' <=> Plain
  BY <1>1, SameText
<1>3. SUFFICES ASSUME Plain PROVE Lexing' \/ Returned'
  BY <1>2 DEF LexInv
<1>4. at # "returned"
  BY DEF Lexer!Next, Lexer!String, Lexer!Operator, Lexer!Whitespace, Lexer!Primitive,
         Lexer!StringChar, Lexer!StringEnd, Lexer!Return
<1>5. Lexing
  BY <1>3, <1>4 DEF LexInv, Returned
<1> QED
  BY <1>3, <1>5, StringKeeps, OperatorKeeps, WhitespaceKeeps, PrimitiveKeeps, StringCharKeeps,
     StringEndKeeps, ReturnKeeps DEF Lexer!Next

\* At first it has read nothing.
LEMMA LexBegins ==
  ASSUME text \in Seq(Characters), Lexer!Init
  PROVE  Lexing /\ at # "returned"
<1>1. at = "scan" /\ position = 0 /\ found = <<>> /\ unclosed = FALSE /\ verdict = "SUCCESS"
  BY DEF Lexer!Init
<1>2. 0 \notin Insides /\ \A p \in Insides : p \in Nat
  BY InsidesNext DEF Insides
<1>3. StartsTo(0) = {} /\ ~\E p \in Unseen : p < 0
  BY DEF StartsTo, Starts, Unseen, Controls
<1>4. FoundStarts
  BY <1>1, <1>3, EmptyList DEF FoundStarts
<1>5. FoundError
  BY <1>1, <1>3 DEF FoundError
<1>6. FoundFirst
  <2>1. \A p \in Insides : ~(p <= 0)
    BY <1>2
  <2> QED
    BY <1>1, <2>1 DEF FoundFirst
<1>7. Outside /\ Fresh
  BY <1>1, <1>2 DEF Outside, Fresh
<1> QED
  BY <1>1, <1>4, <1>5, <1>6, <1>7 DEF Lexing

-----------------------------------------------------------------------------
(* Both together.                                                          *)

\* What both return, when both have.
LEMMA BothAgree ==
  ASSUME ScanInv, result # "none", Returned
  PROVE  SameOnEveryProcessor
<1>1. /\ text \in Seq(Characters) /\ result = Result /\ Lists(indexes, Starts)
      /\ Lists(found, Starts) /\ verdict = Verdict
      /\ \A p \in Insides : p <= Len(text) => Starts # {}
  BY DEF ScanInv, Returned
<1>2. found = indexes
  BY <1>1, OneList
<1>3. CASE verdict = result
  BY <1>2, <1>3 DEF SameOnEveryProcessor
<1>4. CASE verdict # result
  <2>1. Starts # {} => Controls # {} /\ Unseen = {} /\ Len(text) \notin Insides
    BY <1>1, <1>4 DEF Result, Verdict, Unseen
  <2>2. Starts # {}
    <3> SUFFICES ASSUME Starts = {} PROVE FALSE
      OBVIOUS
    <3>1. Len(text) \notin Insides
      <4>1. Len(text) \in Nat
        BY <1>1
      <4> QED
        BY <1>1, <4>1
    <3>2. Controls # {}
      BY <1>1, <1>4, <3>1 DEF Result, Verdict
    <3>3. PICK p \in Controls : TRUE
      BY <3>2
    <3>4. p \in Nat /\ p < Len(text)
      BY <1>1, TextEnds
    <3>5. p + 1 \in Insides /\ p + 1 <= Len(text)
      BY <1>1, <3>4 DEF Controls
    <3> QED
      BY <1>1, <3>5
  <2>3. result = "UNESCAPED_CHARS" /\ verdict = "SUCCESS"
    BY <1>1, <2>1, <2>2 DEF Result, Verdict
  <2>4. ASSUME NEW i \in DOMAIN text, text[i] \in {"tab", "feed"}, Inside(i) PROVE Escaped(i)
    <3>1. i \in 1 .. Len(text)
      BY <1>1
    <3>2. i - 1 \in Nat /\ i - 1 < Len(text) /\ (i - 1) + 1 = i /\ i \in Nat
      BY <1>1, <3>1
    <3>3. i - 1 \in Controls
      BY <2>4, <3>2 DEF Controls, Ch, Insides
    <3>4. i - 1 \in Escapes
      BY <3>3, <2>1, <2>2 DEF Unseen
    <3> QED
      BY <3>2, <3>4 DEF Escapes
  <2> QED
    BY <2>3, <2>4 DEF SameOnEveryProcessor
<1> QED
  BY <1>3, <1>4

\* The invariant: the scanner first, then the lexer; or neither, while a number is read.
TextInv == \/ Scanned
           \/ ScanInv /\ LexInv /\ (at = "returned" => result # "none")

\* Every step keeps it.
LEMMA TextStep ==
  ASSUME TextInv, [TextNext]_<<scanner, lexer, numberVars>>
  PROVE  TextInv'
<1>1. CASE UNCHANGED <<scanner, lexer>>
  <2>1. /\ width' = width /\ text' = text /\ idx' = idx /\ carry' = carry
        /\ prev_structurals' = prev_structurals /\ unescaped' = unescaped
        /\ indexes' = indexes /\ result' = result
        /\ at' = at /\ position' = position /\ found' = found /\ unclosed' = unclosed
        /\ verdict' = verdict
    BY <1>1 DEF scanner, lexer
  <2>2. CASE Scanned
    BY <2>1, <2>2 DEF TextInv, Scanned, NoCarry
  <2>3. CASE ScanInv /\ LexInv /\ (at = "returned" => result # "none")
    <3>1. Escapes' = Escapes /\ Insides' = Insides /\ NonQuotes' = NonQuotes
          /\ Starts' = Starts /\ Controls' = Controls /\ Result' = Result /\ Plain' = Plain
          /\ Unseen' = Unseen /\ Verdict' = Verdict /\ Bits' = Bits
      BY <2>1, SameText, SameWords DEF Bits
    <3>2. ScanInv'
      BY <2>1, <2>3, <3>1 DEF ScanInv, IsWidth, IsScanned, Scanning, StartsTo, IsCarry
    <3>3. LexInv'
      BY <2>1, <2>3, <3>1 DEF LexInv, Lexing, Returned, FoundStarts, StartsTo, FoundError,
                              FoundFirst, Outside, InString, Fresh, Ch
    <3> QED
      BY <2>1, <2>3, <3>2, <3>3 DEF TextInv
  <2> QED
    BY <2>2, <2>3 DEF TextInv
<1>2. CASE ScanNext /\ UNCHANGED lexer
  <2>1. result = "none" /\ text' = text
    BY <1>2 DEF ScanNext, Empty, FullBlock, Remainder, Finish, ScanStep
  <2>2. ScanInv /\ LexInv /\ at # "returned"
    BY <2>1 DEF TextInv, Scanned
  <2>3. ScanInv'
    BY <1>2, <2>2, ScanKeeps
  <2>4. LexInv'
    <3>1. Insides' = Insides /\ NonQuotes' = NonQuotes /\ Escapes' = Escapes
          /\ Starts' = Starts /\ Plain' = Plain /\ Unseen' = Unseen /\ Verdict' = Verdict
      BY <2>1, SameText, SameWords
    <3>2. at' = at /\ position' = position /\ found' = found /\ unclosed' = unclosed
          /\ verdict' = verdict
      BY <1>2 DEF lexer
    <3> QED
      BY <2>1, <2>2, <3>1, <3>2 DEF LexInv, Lexing, Returned, FoundStarts, StartsTo, FoundError,
                                    FoundFirst, Outside, InString, Fresh, Ch
  <2> QED
    BY <1>2, <2>2, <2>3, <2>4 DEF TextInv, lexer
<1>3. CASE /\ result # "none" /\ Lexer!Next
           /\ UNCHANGED <<width, idx, carry, prev_structurals, unescaped, indexes, result>>
  <2>1. at # "returned" /\ text' = text
    BY <1>3 DEF Lexer!Next, Lexer!String, Lexer!Operator, Lexer!Whitespace, Lexer!Primitive,
                Lexer!StringChar, Lexer!StringEnd, Lexer!Return
  <2>2. ScanInv /\ LexInv
    BY <2>1 DEF TextInv, Scanned
  <2>3. ScanInv'
    <3>1. Starts' = Starts /\ Result' = Result
      BY <2>1, SameText
    <3> QED
      BY <1>3, <2>1, <2>2, <3>1 DEF ScanInv, IsWidth
  <2>4. LexInv'
    BY <1>3, <2>2, LexKeeps DEF ScanInv
  <2> QED
    BY <1>3, <2>3, <2>4 DEF TextInv
<1> QED
  BY <1>1, <1>2, <1>3 DEF TextNext, scanner, lexer

\* Of every text that is plain, whatever its length and wherever its strings, runs of
\* backslashes and numbers lie in the blocks of whatever width, the vectorised stage 1
\* and the one that reads character by character find the same tokens or the same
\* error, but for an escaped control character (json_structural_indexer,
\* structural_scanner).
THEOREM SameTokensEverywhere == TextSpec => []SameOnEveryProcessor
<1>1. TextInit => TextInv
  <2>1. ASSUME ScanInit, Lexer!Init PROVE TextInv
    <3>1. ScanInv
      BY <2>1, ScanBegins
    <3>2. Lexing /\ at # "returned"
      BY <2>1, <3>1, LexBegins DEF ScanInv
    <3> QED
      BY <3>1, <3>2 DEF TextInv, LexInv
  <2> QED
    BY <2>1 DEF TextInit, TextInv
<1>2. TextInv /\ [TextNext]_<<scanner, lexer, numberVars>> => TextInv'
  BY TextStep
<1>3. TextInv => SameOnEveryProcessor
  <2>1. CASE Scanned
    BY <2>1 DEF Scanned, SameOnEveryProcessor
  <2>2. CASE ScanInv /\ LexInv /\ (at = "returned" => result # "none")
    <3> SUFFICES ASSUME at = "returned", Plain PROVE SameOnEveryProcessor
      BY DEF SameOnEveryProcessor
    <3>1. Returned
      BY <2>2 DEF LexInv, Lexing
    <3> QED
      BY <2>2, <3>1, BothAgree
  <2> QED
    BY <2>1, <2>2 DEF TextInv
<1> QED
  BY <1>1, <1>2, <1>3, PTL DEF TextSpec
=============================================================================
