----------------------------- MODULE Recursion -----------------------------
(***************************************************************************)
(* Induction over numbers and functions defined by recursion, stated for   *)
(* sets and functions as values, so that each is an instance of a fact of  *)
(* first-order logic: a set with a property is given as {n \in Nat : ...},  *)
(* the step of a recursion as a function.  All of it comes down to         *)
(* NatLessThanWellFounded.                                                 *)
(***************************************************************************)
EXTENDS Integers, SequencesExt, SequenceTheorems, WellFoundedInduction, TLAPS

-----------------------------------------------------------------------------
(* Induction.                                                              *)

\* A set of numbers has a least one.
LEMMA LeastNumber ==
  ASSUME NEW T \in SUBSET Nat, T # {}
  PROVE  \E x \in T : \A y \in T : x <= y
<1> DEFINE R == {p \in Nat \X Nat : p[1] < p[2]}
<1>1. IsWellFoundedOn(R, Nat)
  BY NatLessThanWellFounded DEF OpToRel
<1>2. \A x, y \in Nat : <<x, y>> \in R <=> x < y
  OBVIOUS
<1> HIDE DEF R
<1>3. PICK x \in T : \A y \in T : ~ (<<y, x>> \in R)
  BY <1>1, WFMin
<1>4. \A y \in T : ~(y < x)
  BY <1>2, <1>3, Zenon
<1> QED
  BY <1>4

\* A set of numbers that has each number whose predecessors it has, has them all.
LEMMA Induction ==
  ASSUME NEW T, \A n \in Nat : (\A m \in 0 .. n - 1 : m \in T) => n \in T
  PROVE  \A n \in Nat : n \in T
<1> SUFFICES ASSUME Nat \ T # {} PROVE FALSE
  OBVIOUS
<1>1. PICK n \in Nat \ T : \A m \in Nat \ T : n <= m
  BY LeastNumber
<1>2. \A m \in 0 .. n - 1 : m \in T
  BY <1>1
<1> QED
  BY <1>1, <1>2

\* The same from the last number down to the first.
LEMMA Descent ==
  ASSUME NEW n \in Nat, NEW T, \A i \in 1 .. n : (\A j \in i + 1 .. n : j \in T) => i \in T
  PROVE  \A i \in 1 .. n : i \in T
<1> DEFINE U == {k \in Nat : k < n => n - k \in T}
<1>1. ASSUME NEW k \in Nat, \A m \in 0 .. k - 1 : m \in U PROVE k \in U
  <2> SUFFICES ASSUME k < n PROVE n - k \in T
    OBVIOUS
  <2>1. ASSUME NEW j \in n - k + 1 .. n PROVE j \in T
    <3>1. n - j \in 0 .. k - 1 /\ n - j < n /\ n - (n - j) = j
      BY <2>1
    <3> QED
      BY <1>1, <3>1
  <2> QED
    BY <2>1
<1> HIDE DEF U
<1>2. \A k \in Nat : k \in U
  BY <1>1, Induction
<1>3. ASSUME NEW i \in 1 .. n PROVE i \in T
  <2>1. n - i \in Nat /\ n - i < n /\ n - (n - i) = i
    OBVIOUS
  <2> QED
    BY <1>2, <2>1 DEF U
<1> QED
  BY <1>3

\* Step by step.
LEMMA StepDown ==
  ASSUME NEW n \in Nat, NEW T, n + 1 \in T, \A i \in 1 .. n : i + 1 \in T => i \in T
  PROVE  \A i \in 1 .. n + 1 : i \in T
<1> DEFINE m == n + 1
<1>1. ASSUME NEW i \in 1 .. m, \A j \in i + 1 .. m : j \in T PROVE i \in T
  <2>1. i # m => i \in 1 .. n /\ i + 1 \in i + 1 .. m
    OBVIOUS
  <2> QED
    BY <1>1, <2>1
<1>2. m \in Nat
  OBVIOUS
<1> HIDE DEF m
<1>3. \A i \in 1 .. m : i \in T
  BY <1>1, <1>2, Descent
<1> QED
  BY <1>3 DEF m

\* Min and Max of FiniteSetsExt, of numbers.
LEMMA MinFacts ==
  ASSUME NEW T \in SUBSET Nat, T # {}
  PROVE  Min(T) \in T /\ \A y \in T : Min(T) <= y
BY LeastNumber DEF Min

\* Of numbers up to n there is a largest one.
LEMMA MaxFacts ==
  ASSUME NEW n \in Nat, NEW T \in SUBSET (0 .. n), T # {}
  PROVE  Max(T) \in T /\ \A y \in T : y <= Max(T)
<1> DEFINE U == {m \in Nat : n - m \in T}
<1>1. U # {} /\ U \in SUBSET Nat
  <2>1. PICK x \in T : TRUE
    OBVIOUS
  <2>2. n - x \in U
    <3>1. n - (n - x) = x /\ n - x \in Nat /\ x \in 0 .. n
      BY <2>1
    <3> QED
      BY <3>1, <2>1
  <2> QED
    BY <2>2
<1>2. PICK m \in U : \A k \in U : m <= k
  BY <1>1, LeastNumber
<1>3. n - m \in T /\ m \in Nat
  OBVIOUS
<1>4. ASSUME NEW y \in T PROVE y <= n - m
  <2>1. y \in 0 .. n
    OBVIOUS
  <2>2. n - y \in Nat /\ n - (n - y) = y
    BY <2>1
  <2>3. n - y \in U
    BY <2>2
  <2>4. m <= n - y
    BY <1>2, <2>3
  <2> QED
    BY <2>1, <2>2, <2>4, <1>3
<1>5. \E x \in T : \A y \in T : x >= y
  BY <1>3, <1>4
<1>6. Max(T) \in T /\ \A y \in T : Max(T) >= y
  BY <1>5 DEF Max
<1> QED
  BY <1>6

-----------------------------------------------------------------------------
(* Functions defined by recursion.                                         *)

\* H is the step of a recursion over D: its value for a function and an argument
\* depends only on what the function has for smaller arguments.
IsRecursion(D, V, size, bound, H) ==
  /\ V # {} /\ size \in [D -> Nat] /\ bound \in Nat /\ \A x \in D : size[x] < bound
  /\ H \in [[D -> V] \X D -> V]
  /\ \A g, h \in [D -> V], x \in D :
       (\A y \in D : size[y] < size[x] => g[y] = h[y]) => H[<<g, x>>] = H[<<h, x>>]
HasFunction(D, V, H) == \E f \in [D -> V] : \A x \in D : f[x] = H[<<f, x>>]

\* A recursion defines a function.
LEMMA RecursiveFunction ==
  ASSUME NEW D, NEW V, NEW size, NEW bound, NEW H, IsRecursion(D, V, size, bound, H)
  PROVE  HasFunction(D, V, H)
<1> USE DEF IsRecursion
<1> DEFINE Upto(n) == \E f \in [D -> V] : \A x \in D : size[x] < n => f[x] = H[<<f, x>>]
           T == {n \in Nat : Upto(n)}
<1>1. ASSUME NEW n \in Nat, \A m \in 0 .. n - 1 : m \in T PROVE n \in T
  <2>1. CASE n = 0
    <3>1. PICK v \in V : TRUE
      OBVIOUS
    <3>2. [x \in D |-> v] \in [D -> V]
      BY <3>1
    <3>3. \A x \in D : ~(size[x] < 0)
      OBVIOUS
    <3>4. Upto(0)
      BY <3>2, <3>3
    <3> QED
      BY <2>1, <3>4
  <2>2. CASE n # 0
    <3>1. n - 1 \in Nat /\ n - 1 \in 0 .. n - 1
      BY <2>2
    <3>2. PICK f \in [D -> V] : \A x \in D : size[x] < n - 1 => f[x] = H[<<f, x>>]
      BY <1>1, <3>1
    <3> DEFINE g == [x \in D |-> H[<<f, x>>]]
    <3>3. g \in [D -> V]
      OBVIOUS
    <3>4. ASSUME NEW x \in D, size[x] < n PROVE g[x] = H[<<g, x>>]
      <4>1. \A y \in D : size[y] < size[x] => size[y] < n - 1
        BY <3>1, <3>4
      <4>2. \A y \in D : size[y] < size[x] => f[y] = g[y]
        BY <3>2, <4>1
      <4> HIDE DEF g
      <4>3. H[<<f, x>>] = H[<<g, x>>]
        BY <3>3, <4>2
      <4> QED
        BY <4>3 DEF g
    <3>5. Upto(n)
      BY <3>3, <3>4
    <3> QED
      BY <3>5
  <2> QED
    BY <2>1, <2>2
<1> HIDE DEF T
<1>2. bound \in T
  BY <1>1, Induction
<1>3. PICK f \in [D -> V] : \A x \in D : size[x] < bound => f[x] = H[<<f, x>>]
  BY <1>2 DEF T
<1>4. \A x \in D : f[x] = H[<<f, x>>]
  BY <1>3
<1> QED
  BY <1>4 DEF HasFunction

-----------------------------------------------------------------------------
(* FlattenSeq.                                                             *)

\* f appends the sequences of t one after the other, and FlattenSeq the last of them.
Flattens(f, t, n) ==
  FlattenSeq(t) = f[n] /\ f[1] = t[1] /\ \A i \in 2 .. n : f[i] = f[i - 1] \o t[i]

\* There is such an f.
LEMMA FlattenEquation ==
  ASSUME NEW S, NEW t \in Seq(Seq(S)), NEW n, n = Len(t), n # 0
  PROVE  \E f : Flattens(f, t, n)
<1> DEFINE D == 1 .. Len(t)
           V == Seq(S)
           step(f, i) == IF i = 1 THEN t[i] ELSE f[i - 1] \o t[i]
           H == [a \in [D -> V] \X D |-> step(a[1], a[2])]
           size == [i \in D |-> i]
           bound == Len(t) + 1
<1>1. size \in [D -> Nat] /\ bound \in Nat /\ \A i \in D : size[i] < bound
  OBVIOUS
<1>2. V # {}
  <2>1. <<>> \in V
    OBVIOUS
  <2> QED
    BY <2>1
<1>3. \A i \in D : t[i] \in V
  OBVIOUS
<1>4. ASSUME NEW f \in [D -> V], NEW i \in D PROVE step(f, i) \in V
  <2>1. CASE i = 1
    BY <1>3, <2>1
  <2>2. CASE i # 1
    <3>1. f[i - 1] \in V
      <4>1. i - 1 \in D
        BY <2>2
      <4> QED
        BY <4>1
    <3> QED
      BY <1>3, <2>2, <3>1
  <2> QED
    BY <2>1, <2>2
<1>5. H \in [[D -> V] \X D -> V]
  <2> HIDE DEF step, D, V
  <2> QED
    BY <1>4
<1>6. \A g, h \in [D -> V], i \in D :
        (\A j \in D : size[j] < size[i] => g[j] = h[j]) => H[<<g, i>>] = H[<<h, i>>]
  <2> SUFFICES ASSUME NEW g \in [D -> V], NEW h \in [D -> V], NEW i \in D,
                      \A j \in D : size[j] < size[i] => g[j] = h[j]
               PROVE  H[<<g, i>>] = H[<<h, i>>]
    OBVIOUS
  <2>1. step(g, i) = step(h, i)
    <3>1. i # 1 => i - 1 \in D /\ size[i - 1] < size[i]
      OBVIOUS
    <3> QED
      BY <3>1
  <2>2. H[<<g, i>>] = step(g, i) /\ H[<<h, i>>] = step(h, i)
    <3> HIDE DEF step, D, V
    <3> QED
      OBVIOUS
  <2> QED
    BY <2>1, <2>2
<1>7. HasFunction(D, V, H)
  <2> HIDE DEF D, V, H, size, bound
  <2>1. IsRecursion(D, V, size, bound, H)
    BY <1>1, <1>2, <1>5, <1>6 DEF IsRecursion
  <2> QED
    BY <2>1, RecursiveFunction
<1>8. \E f : f = [i \in D |-> step(f, i)]
  <2>1. PICK f \in [D -> V] : \A i \in D : f[i] = H[<<f, i>>]
    BY <1>7 DEF HasFunction
  <2> HIDE DEF step, D, V
  <2>2. \A i \in D : f[i] = step(f, i)
    BY <2>1
  <2>3. f = [i \in D |-> step(f, i)]
    BY <2>1, <2>2
  <2> QED
    BY <2>3
<1> DEFINE flatten == CHOOSE f : f = [i \in D |-> step(f, i)]
<1>9. flatten = [i \in D |-> step(flatten, i)]
  <2> HIDE DEF step, D
  <2> QED
    BY <1>8
<1>10. FlattenSeq(t) = flatten[Len(t)]
  BY DEF FlattenSeq
<1> HIDE DEF flatten
<1>11. \A i \in D : flatten[i] = step(flatten, i)
  <2> HIDE DEF step, D
  <2> QED
    BY <1>9
<1>12. flatten[1] = t[1]
  <2>1. 1 \in D
    OBVIOUS
  <2> QED
    BY <1>11, <2>1
<1>13. ASSUME NEW i \in 2 .. Len(t) PROVE flatten[i] = flatten[i - 1] \o t[i]
  <2>1. i \in D /\ i # 1
    OBVIOUS
  <2> QED
    BY <1>11, <2>1
<1>14. Flattens(flatten, t, n)
  BY <1>10, <1>12, <1>13 DEF Flattens
<1> QED
  BY <1>14

\* The pieces between the cuts c of a sequence, put together one by one.
LEMMA FlattenPieces ==
  ASSUME NEW S, NEW s \in Seq(S), NEW n \in Nat, n # 0, NEW c, c[1] = 0,
         \A j \in 1 .. n + 1 : c[j] \in 0 .. Len(s), \A j \in 1 .. n : c[j] <= c[j + 1],
         NEW t \in Seq(Seq(S)), n = Len(t),
         \A j \in 1 .. n : t[j] = SubSeq(s, c[j] + 1, c[j + 1])
  PROVE  FlattenSeq(t) = SubSeq(s, 1, c[n + 1])
<1>1. \A a \in 0 .. Len(s) : \A b \in a .. Len(s) :
        SubSeq(s, 1, a) \o SubSeq(s, a + 1, b) = SubSeq(s, 1, b)
  <2> SUFFICES ASSUME NEW a \in 0 .. Len(s), NEW b \in a .. Len(s)
               PROVE  SubSeq(s, 1, a) \o SubSeq(s, a + 1, b) = SubSeq(s, 1, b)
    OBVIOUS
  <2>1. 1 \in 1 .. Len(s) + 1 /\ a \in 1 - 1 .. Len(s)
    OBVIOUS
  <2> QED
    BY <2>1, ConcatAdjacentSubSeq
<1>2. PICK f : /\ FlattenSeq(t) = f[n]
               /\ f[1] = t[1] /\ \A i \in 2 .. n : f[i] = f[i - 1] \o t[i]
  <2>1. PICK f : Flattens(f, t, n)
    BY FlattenEquation
  <2> QED
    BY <2>1 DEF Flattens
<1> DEFINE T == {i \in Nat : i \in 1 .. n => f[i] = SubSeq(s, 1, c[i + 1])}
<1>3. ASSUME NEW i \in Nat, \A m \in 0 .. i - 1 : m \in T PROVE i \in T
  <2> SUFFICES ASSUME i \in 1 .. n PROVE f[i] = SubSeq(s, 1, c[i + 1])
    OBVIOUS
  <2>1. CASE i = 1
    <3>1. t[1] = SubSeq(s, 0 + 1, c[1 + 1]) /\ 0 + 1 = 1
      <4>1. 1 \in 1 .. n
        OBVIOUS
      <4> QED
        BY <4>1
    <3> QED
      BY <1>2, <2>1, <3>1
  <2>2. CASE i # 1
    <3>1. i - 1 \in 1 .. n /\ i - 1 \in 0 .. i - 1 /\ i \in 2 .. n /\ (i - 1) + 1 = i
      BY <2>2
    <3>2. f[i - 1] = SubSeq(s, 1, c[i])
      BY <1>3, <3>1
    <3>3. c[i] \in 0 .. Len(s) /\ c[i + 1] \in c[i] .. Len(s)
      BY <3>1
    <3>4. SubSeq(s, 1, c[i]) \o SubSeq(s, c[i] + 1, c[i + 1]) = SubSeq(s, 1, c[i + 1])
      BY <1>1, <3>3, Zenon
    <3> QED
      BY <1>2, <3>1, <3>2, <3>4
  <2> QED
    BY <2>1, <2>2
<1> HIDE DEF T
<1>4. n \in T
  BY <1>3, Induction
<1>5. f[n] = SubSeq(s, 1, c[n + 1])
  BY <1>4 DEF T
<1> QED
  BY <1>2, <1>5, Zenon

\* All of them are the sequence up to the last cut.
LEMMA FlattenCuts ==
  ASSUME NEW S, NEW s \in Seq(S), NEW n \in Nat, NEW c, c[1] = 0,
         \A j \in 1 .. n + 1 : c[j] \in 0 .. Len(s), \A j \in 1 .. n : c[j] <= c[j + 1],
         NEW t, t = [j \in 1 .. n |-> SubSeq(s, c[j] + 1, c[j + 1])]
  PROVE  FlattenSeq(t) = SubSeq(s, 1, c[n + 1])
<1>1. \A j \in 1 .. n : SubSeq(s, c[j] + 1, c[j + 1]) \in Seq(S)
  <2> SUFFICES ASSUME NEW j \in 1 .. n PROVE SubSeq(s, c[j] + 1, c[j + 1]) \in Seq(S)
    OBVIOUS
  <2>1. j \in 1 .. n + 1 /\ j + 1 \in 1 .. n + 1
    OBVIOUS
  <2>2. c[j] \in 0 .. Len(s) /\ c[j + 1] \in 0 .. Len(s)
    BY <2>1
  <2> QED
    BY <2>2, SMTT(30)
<1>2. t \in Seq(Seq(S)) /\ Len(t) = n /\ \A j \in 1 .. n : t[j] = SubSeq(s, c[j] + 1, c[j + 1])
  <2> DEFINE V == Seq(S)
             piece(j) == SubSeq(s, c[j] + 1, c[j + 1])
  <2>1. \A j \in 1 .. n : piece(j) \in V
    BY <1>1
  <2>2. t = [j \in 1 .. n |-> piece(j)]
    OBVIOUS
  <2> HIDE DEF V, piece
  <2>3. t \in [1 .. n -> V] /\ \A j \in 1 .. n : t[j] = piece(j)
    BY <2>1, <2>2
  <2>4. t \in Seq(V)
    BY <2>3, SeqDef
  <2>5. Len(t) = n
    BY <2>3, <2>4, LenProperties
  <2> QED
    BY <2>3, <2>4, <2>5 DEF V, piece
<1>3. CASE n = 0
  <2>1. FlattenSeq(t) = t /\ t = <<>>
    BY <1>2, <1>3 DEF FlattenSeq
  <2>2. SubSeq(s, 1, 0) = <<>>
    BY SubSeqEmpty
  <2>3. c[n + 1] = 0
    BY <1>3
  <2> QED
    BY <2>1, <2>2, <2>3, Zenon
<1>4. CASE n # 0
  <2>1. t \in Seq(Seq(S)) /\ n = Len(t)
    BY <1>2
  <2> QED
    BY <1>2, <1>4, <2>1, FlattenPieces, ZenonT(40)
<1> QED
  BY <1>3, <1>4
=============================================================================
