--------------------------- MODULE ObjectsProofs ---------------------------
(***************************************************************************)
(* What sorting, merging and the set operations return, for lists of any   *)
(* length, and what get<key> reads at the end of any chain of bindings.    *)
(* That the expression written for a pattern fills its buffer.             *)
(***************************************************************************)
EXTENDS Objects, PathPattern, Recursion, FiniteSetTheorems

-----------------------------------------------------------------------------
(* Recursion over two lists.                                               *)

\* What holds of two places when it holds of all that are further on.
LEMMA HeadsInduction ==
  ASSUME NEW m \in Nat, NEW n \in Nat, NEW T,
         \A i \in 1 .. m + 1, j \in 1 .. n + 1 :
           (\A k \in 1 .. m + 1, h \in 1 .. n + 1 : k + h > i + j => <<k, h>> \in T)
             => <<i, j>> \in T
  PROVE  \A i \in 1 .. m + 1, j \in 1 .. n + 1 : <<i, j>> \in T
<1> DEFINE U == {r \in Nat : \A i \in 1 .. m + 1, j \in 1 .. n + 1 :
                               m + n + 2 - (i + j) = r => <<i, j>> \in T}
<1>1. ASSUME NEW r \in Nat, \A q \in 0 .. r - 1 : q \in U PROVE r \in U
  <2> SUFFICES ASSUME NEW i \in 1 .. m + 1, NEW j \in 1 .. n + 1, m + n + 2 - (i + j) = r
               PROVE  <<i, j>> \in T
    OBVIOUS
  <2>1. ASSUME NEW k \in 1 .. m + 1, NEW h \in 1 .. n + 1, k + h > i + j
        PROVE  <<k, h>> \in T
    <3>1. PICK q : q = m + n + 2 - (k + h)
      OBVIOUS
    <3>2. q \in 0 .. r - 1
      BY <2>1, <3>1
    <3>3. q \in U
      BY <1>1, <3>2
    <3> QED
      BY <3>1, <3>3
  <2> QED
    BY <2>1
<1>2. \A r \in Nat : r \in U
  <2> HIDE DEF U
  <2> QED
    BY <1>1, Induction
<1> SUFFICES ASSUME NEW i \in 1 .. m + 1, NEW j \in 1 .. n + 1 PROVE <<i, j>> \in T
  OBVIOUS
<1>3. PICK r : r = m + n + 2 - (i + j)
  OBVIOUS
<1>4. r \in Nat
  BY <1>3
<1>5. r \in U
  BY <1>2, <1>4
<1> QED
  BY <1>3, <1>5

\* A step that only looks further on defines a function.
LEMMA HeadsRecursion ==
  ASSUME NEW a, NEW b, Len(a) \in Nat, Len(b) \in Nat, NEW V, V # {},
         NEW H \in [[Heads(a, b) -> V] \X Heads(a, b) -> V],
         \A g, h \in [Heads(a, b) -> V], p \in Heads(a, b) :
           (\A q \in Heads(a, b) : q[1] + q[2] > p[1] + p[2] => g[q] = h[q])
             => H[<<g, p>>] = H[<<h, p>>]
  PROVE  HasFunction(Heads(a, b), V, H)
<1> DEFINE D == Heads(a, b)
           bound == Len(a) + Len(b) + 3
           measure == [p \in D |-> Len(a) + Len(b) + 2 - (p[1] + p[2])]
<1>1. measure \in [D -> Nat] /\ bound \in Nat /\ \A p \in D : measure[p] < bound
  <2>1. \A p \in D : p[1] \in 1 .. Len(a) + 1 /\ p[2] \in 1 .. Len(b) + 1
    BY DEF Heads
  <2>2. \A p \in D : Len(a) + Len(b) + 2 - (p[1] + p[2]) \in 0 .. Len(a) + Len(b)
    BY <2>1
  <2> QED
    BY <2>2
<1>2. ASSUME NEW g \in [D -> V], NEW h \in [D -> V], NEW p \in D,
             \A q \in D : measure[q] < measure[p] => g[q] = h[q]
      PROVE  H[<<g, p>>] = H[<<h, p>>]
  <2>1. ASSUME NEW q \in D, q[1] + q[2] > p[1] + p[2] PROVE g[q] = h[q]
    <3>1. /\ p[1] \in Nat /\ p[2] \in Nat /\ q[1] \in Nat /\ q[2] \in Nat
      BY DEF Heads
    <3>2. measure[q] < measure[p]
      BY <2>1, <3>1
    <3> QED
      BY <1>2, <3>2
  <2> QED
    BY <2>1
<1>3. IsRecursion(D, V, measure, bound, H)
  <2> HIDE DEF D, measure, bound
  <2>1. H \in [[D -> V] \X D -> V]
    BY DEF D
  <2> QED
    BY <1>1, <1>2, <2>1 DEF IsRecursion
<1> QED
  BY <1>3, RecursiveFunction

\* One step of Merge.
MergeStep(a, b, f, i, j) ==
  IF i > Len(a) THEN TakeRest(j - 1, b)
  ELSE IF j > Len(b) THEN TakeRest(i - 1, a)
  ELSE IF Less(a[i], b[j]) THEN <<a[i]>> \o f[<<i + 1, j>>]
  ELSE <<b[j]>> \o f[<<i, j + 1>>]

\* f merges what is left of two lists at each place.
Merges(a, b, f) ==
  /\ Merge(a, b) = f[<<1, 1>>]
  /\ \A i \in 1 .. Len(a) + 1, j \in 1 .. Len(b) + 1 : f[<<i, j>>] = MergeStep(a, b, f, i, j)

\* What is left of a list is a list.
LEMMA TakeRestFacts ==
  ASSUME NEW E, NEW l \in Seq(E), NEW i \in 1 .. Len(l) + 1
  PROVE  /\ TakeRest(i - 1, l) \in Seq(E) /\ Len(TakeRest(i - 1, l)) = Len(l) - i + 1
         /\ \A k \in 1 .. Len(l) - i + 1 : TakeRest(i - 1, l)[k] = l[i - 1 + k]
  BY DEF TakeRest

\* There is such an f.
LEMMA MergeEquation ==
  ASSUME NEW E, NEW a \in Seq(E), NEW b \in Seq(E)
  PROVE  \E f : Merges(a, b, f)
<1> DEFINE D == Heads(a, b)
           V == Seq(E)
           step(f, p) == MergeStep(a, b, f, p[1], p[2])
           H == [x \in [D -> V] \X D |-> step(x[1], x[2])]
<1>1. V # {}
  <2>1. <<>> \in V
    OBVIOUS
  <2> QED
    BY <2>1
<1>2. ASSUME NEW i \in 1 .. Len(a) + 1, NEW j \in 1 .. Len(b) + 1
      PROVE  /\ <<i, j>> \in D
             /\ i <= Len(a) => <<i + 1, j>> \in D /\ a[i] \in E
             /\ j <= Len(b) => <<i, j + 1>> \in D /\ b[j] \in E
  BY DEF Heads
<1>3. ASSUME NEW f \in [D -> V], NEW p \in D PROVE step(f, p) \in V
  <2>1. PICK i \in 1 .. Len(a) + 1, j \in 1 .. Len(b) + 1 : p = <<i, j>>
    BY DEF Heads
  <2>2. TakeRest(j - 1, b) \in V /\ TakeRest(i - 1, a) \in V
    BY TakeRestFacts
  <2>3. i <= Len(a) => <<a[i]>> \o f[<<i + 1, j>>] \in V
    <3> SUFFICES ASSUME i <= Len(a) PROVE <<a[i]>> \o f[<<i + 1, j>>] \in V
      OBVIOUS
    <3>1. f[<<i + 1, j>>] \in Seq(E) /\ a[i] \in E
      BY <1>2
    <3> QED
      BY <3>1
  <2>4. j <= Len(b) => <<b[j]>> \o f[<<i, j + 1>>] \in V
    <3> SUFFICES ASSUME j <= Len(b) PROVE <<b[j]>> \o f[<<i, j + 1>>] \in V
      OBVIOUS
    <3>1. f[<<i, j + 1>>] \in Seq(E) /\ b[j] \in E
      BY <1>2
    <3> QED
      BY <3>1
  <2>5. MergeStep(a, b, f, i, j) \in V
    <3> HIDE DEF V, D
    <3> QED
      BY <2>2, <2>3, <2>4 DEF MergeStep
  <2> QED
    BY <2>1, <2>5
<1>4. H \in [[D -> V] \X D -> V]
  <2> HIDE DEF step, D, V
  <2> QED
    BY <1>3
<1>5. ASSUME NEW g \in [D -> V], NEW h \in [D -> V], NEW p \in D,
             \A q \in D : q[1] + q[2] > p[1] + p[2] => g[q] = h[q]
      PROVE  H[<<g, p>>] = H[<<h, p>>]
  <2>1. PICK i \in 1 .. Len(a) + 1, j \in 1 .. Len(b) + 1 : p = <<i, j>>
    BY DEF Heads
  <2>2. i <= Len(a) => g[<<i + 1, j>>] = h[<<i + 1, j>>]
    <3> SUFFICES ASSUME i <= Len(a) PROVE g[<<i + 1, j>>] = h[<<i + 1, j>>]
      OBVIOUS
    <3>1. PICK q \in D : q = <<i + 1, j>>
      BY <1>2
    <3>2. q[1] + q[2] > p[1] + p[2]
      BY <2>1, <3>1
    <3> QED
      BY <1>5, <3>1, <3>2
  <2>3. j <= Len(b) => g[<<i, j + 1>>] = h[<<i, j + 1>>]
    <3> SUFFICES ASSUME j <= Len(b) PROVE g[<<i, j + 1>>] = h[<<i, j + 1>>]
      OBVIOUS
    <3>1. PICK q \in D : q = <<i, j + 1>>
      BY <1>2
    <3>2. q[1] + q[2] > p[1] + p[2]
      BY <2>1, <3>1
    <3> QED
      BY <1>5, <3>1, <3>2
  <2>4. MergeStep(a, b, g, i, j) = MergeStep(a, b, h, i, j)
    <3> HIDE DEF V, D
    <3> QED
      BY <2>2, <2>3 DEF MergeStep
  <2>5. H[<<g, p>>] = step(g, p) /\ H[<<h, p>>] = step(h, p)
    <3> HIDE DEF step, D, V
    <3> QED
      OBVIOUS
  <2> QED
    BY <2>1, <2>4, <2>5
<1>6. HasFunction(D, V, H)
  <2>1. Len(a) \in Nat /\ Len(b) \in Nat
    OBVIOUS
  <2> HIDE DEF V, H
  <2> QED
    BY <1>1, <1>4, <1>5, <2>1, HeadsRecursion, Zenon
<1>7. \E f : f = [p \in D |-> step(f, p)]
  <2>1. PICK f \in [D -> V] : \A p \in D : f[p] = H[<<f, p>>]
    BY <1>6 DEF HasFunction
  <2> HIDE DEF step, D, V
  <2>2. \A p \in D : f[p] = step(f, p)
    BY <2>1
  <2>3. f = [p \in D |-> step(f, p)]
    BY <2>1, <2>2
  <2> QED
    BY <2>3
<1> DEFINE merge == CHOOSE f : f = [p \in D |-> step(f, p)]
<1>8. merge = [p \in D |-> step(merge, p)]
  <2> HIDE DEF step, D
  <2> QED
    BY <1>7
<1>9. Merge(a, b) = merge[<<1, 1>>]
  BY DEF Merge, MergeStep
<1> HIDE DEF merge
<1>10. ASSUME NEW i \in 1 .. Len(a) + 1, NEW j \in 1 .. Len(b) + 1
       PROVE  merge[<<i, j>>] = MergeStep(a, b, merge, i, j)
  <2>1. PICK p \in D : p = <<i, j>>
    BY <1>2
  <2>2. merge[p] = step(merge, p)
    <3> HIDE DEF step, D
    <3> QED
      BY <1>8
  <2> QED
    BY <2>1, <2>2
<1> QED
  BY <1>9, <1>10 DEF Merges

-----------------------------------------------------------------------------
(* Sorted lists, as places in the list they come from.                     *)

\* Which of two places of l comes first: of equal keys, the later one.
Before(l, x, y) == l[x].key < l[y].key \/ (l[x].key = l[y].key /\ x > y)
Listed(l, c)    == [k \in 1 .. Len(c) |-> l[c[k]]]
Arranged(l, c)  == \A p, q \in 1 .. Len(c) : p < q => Before(l, c[p], c[q])
Keyed(E)        == \A x \in E : x.key \in Nat

\* It is an order.
LEMMA BeforeOrders ==
  ASSUME NEW E, Keyed(E), NEW l \in Seq(E), NEW x \in 1 .. Len(l), NEW y \in 1 .. Len(l)
  PROVE  /\ x # y => Before(l, x, y) \/ Before(l, y, x)
         /\ Before(l, x, y) => ~Before(l, y, x)
         /\ \A z \in 1 .. Len(l) : Before(l, x, y) /\ Before(l, y, z) => Before(l, x, z)
<1>1. \A k \in 1 .. Len(l) : l[k].key \in Nat
  BY DEF Keyed
<1> QED
  BY <1>1 DEF Before

\* A list that comes from l.
LEMMA ListedFacts ==
  ASSUME NEW E, NEW l \in Seq(E), NEW c \in Seq(1 .. Len(l))
  PROVE  /\ Listed(l, c) \in Seq(E) /\ Len(Listed(l, c)) = Len(c)
         /\ \A k \in 1 .. Len(c) : Listed(l, c)[k] = l[c[k]]
<1>1. \A k \in 1 .. Len(c) : l[c[k]] \in E
  OBVIOUS
<1> QED
  BY <1>1 DEF Listed

\* What is before all others goes in front.
LEMMA InFront ==
  ASSUME NEW E, NEW l \in Seq(E), NEW c \in Seq(1 .. Len(l)), NEW x \in 1 .. Len(l),
         Arranged(l, c), \A k \in 1 .. Len(c) : Before(l, x, c[k])
  PROVE  \E d \in Seq(1 .. Len(l)) :
           /\ <<l[x]>> \o Listed(l, c) = Listed(l, d) /\ Arranged(l, d)
           /\ Len(d) = Len(c) + 1 /\ Range(d) = {x} \cup Range(c)
<1>1. PICK d : d = <<x>> \o c
  OBVIOUS
<1>2. /\ d \in Seq(1 .. Len(l)) /\ Len(d) = Len(c) + 1 /\ d[1] = x
      /\ \A k \in 1 .. Len(c) : d[k + 1] = c[k]
  BY <1>1
<1>3. \A k \in 2 .. Len(d) : k - 1 \in 1 .. Len(c) /\ d[k] = c[k - 1]
  BY <1>1
<1>4. \A k \in 1 .. Len(c) : k + 1 \in 1 .. Len(d) /\ d[k + 1] = c[k]
  BY <1>2
<1>5. Range(d) = {x} \cup Range(c)
  <2>1. DOMAIN d = 1 .. Len(d) /\ DOMAIN c = 1 .. Len(c)
    BY <1>2
  <2>2. ASSUME NEW y \in Range(d) PROVE y \in {x} \cup Range(c)
    <3>1. PICK k \in 1 .. Len(d) : d[k] = y
      BY <2>1, <2>2 DEF Range
    <3>2. CASE k = 1
      BY <1>2, <3>1, <3>2
    <3>3. CASE k # 1
      <4>1. k - 1 \in DOMAIN c /\ y = c[k - 1]
        <5>1. k \in 2 .. Len(d)
          BY <1>2, <3>3
        <5> QED
          BY <1>3, <2>1, <3>1, <5>1
      <4> QED
        BY <4>1 DEF Range
    <3> QED
      BY <3>2, <3>3
  <2>3. x \in Range(d)
    <3>1. 1 \in 1 .. Len(d)
      BY <1>2
    <3> QED
      BY <1>2, <2>1, <3>1 DEF Range
  <2>4. Range(c) \subseteq Range(d)
    BY <1>4, <2>1 DEF Range
  <2> QED
    BY <2>2, <2>3, <2>4
<1>6. Arranged(l, d)
  <2> SUFFICES ASSUME NEW p \in 1 .. Len(d), NEW q \in 1 .. Len(d), p < q
               PROVE  Before(l, d[p], d[q])
    BY DEF Arranged
  <2>1. q - 1 \in 1 .. Len(c) /\ d[q] = c[q - 1]
    BY <1>2, <1>3, SMTT(30)
  <2>2. CASE p = 1
    BY <1>2, <2>1, <2>2
  <2>3. CASE p # 1
    <3>1. p - 1 \in 1 .. Len(c) /\ d[p] = c[p - 1] /\ p - 1 < q - 1
      <4>1. p \in 2 .. Len(d) /\ p - 1 < q - 1
        BY <1>2, <2>3
      <4> QED
        BY <1>3, <4>1
    <3> QED
      BY <2>1, <3>1 DEF Arranged
  <2> QED
    BY <2>2, <2>3
<1>7. <<l[x]>> \o Listed(l, c) = Listed(l, d)
  <2>1. Listed(l, c) \in Seq(E) /\ Len(Listed(l, c)) = Len(c) /\ l[x] \in E
    BY ListedFacts
  <2>2. PICK s \in Seq(E) : s = Listed(l, c) /\ Len(s) = Len(c)
    BY <2>1
  <2>3. <<l[x]>> \o s \in Seq(E) /\ Len(<<l[x]>> \o s) = Len(c) + 1
    BY <2>1, <2>2
  <2>4. ASSUME NEW k \in 1 .. Len(d) PROVE (<<l[x]>> \o s)[k] = l[d[k]]
    <3>1. CASE k = 1
      BY <1>2, <2>1, <2>2, <3>1
    <3>2. CASE k # 1
      <4>1. k - 1 \in 1 .. Len(c) /\ d[k] = c[k - 1]
        BY <1>3, <3>2
      <4>2. (<<l[x]>> \o s)[k] = s[k - 1]
        BY <1>2, <2>1, <2>2, <3>2
      <4> QED
        BY <2>2, <4>1, <4>2, ListedFacts
    <3> QED
      BY <3>1, <3>2
  <2>5. <<l[x]>> \o s = Listed(l, d)
    <3>1. PICK t \in Seq(E) : t = <<l[x]>> \o s /\ Len(t) = Len(d)
      BY <1>2, <2>3
    <3>2. t = [k \in 1 .. Len(d) |-> l[d[k]]]
      BY <2>4, <3>1
    <3> QED
      BY <3>1, <3>2 DEF Listed
  <2> QED
    BY <2>2, <2>5
<1> QED
  BY <1>2, <1>5, <1>6, <1>7

\* What merging is to make of the places a and b, from i and j on.
MergedAt(l, a, b, s, i, j) ==
  \E c \in Seq(1 .. Len(l)) :
    /\ s = Listed(l, c) /\ Arranged(l, c)
    /\ Len(c) = (Len(a) + 1 - i) + (Len(b) + 1 - j)
    /\ Range(c) = {a[k] : k \in i .. Len(a)} \cup {b[k] : k \in j .. Len(b)}

\* A rest of an arranged list is arranged.
LEMMA RestArranged ==
  ASSUME NEW E, NEW l \in Seq(E), NEW c \in Seq(1 .. Len(l)), Arranged(l, c),
         NEW i \in 1 .. Len(c) + 1
  PROVE  \E d \in Seq(1 .. Len(l)) :
           /\ TakeRest(i - 1, Listed(l, c)) = Listed(l, d) /\ Arranged(l, d)
           /\ Len(d) = Len(c) + 1 - i /\ Range(d) = {c[k] : k \in i .. Len(c)}
<1>1. PICK d \in Seq(1 .. Len(l)) : /\ d = TakeRest(i - 1, c) /\ Len(d) = Len(c) - i + 1
                                   /\ \A k \in 1 .. Len(d) : d[k] = c[i - 1 + k]
  BY TakeRestFacts
<1>2. \A k \in 1 .. Len(d) : i - 1 + k \in i .. Len(c) /\ i - 1 + k \in 1 .. Len(c)
  BY <1>1
<1>3. Arranged(l, d)
  <2> SUFFICES ASSUME NEW p \in 1 .. Len(d), NEW q \in 1 .. Len(d), p < q
               PROVE  Before(l, d[p], d[q])
    BY DEF Arranged
  <2>1. PICK r, t : r = i - 1 + p /\ t = i - 1 + q
    OBVIOUS
  <2>2. r \in 1 .. Len(c) /\ t \in 1 .. Len(c) /\ r < t /\ d[p] = c[r] /\ d[q] = c[t]
    BY <1>1, <1>2, <2>1
  <2> QED
    BY <2>2 DEF Arranged
<1>4. Range(d) = {c[k] : k \in i .. Len(c)}
  <2>1. DOMAIN d = 1 .. Len(d)
    BY <1>1
  <2>2. ASSUME NEW k \in 1 .. Len(d) PROVE d[k] \in {c[h] : h \in i .. Len(c)}
    <3>1. PICK h \in i .. Len(c) : h = i - 1 + k
      BY <1>2
    <3> QED
      BY <1>1, <3>1
  <2>3. ASSUME NEW k \in i .. Len(c) PROVE c[k] \in Range(d)
    <3>1. k - i + 1 \in 1 .. Len(d) /\ i - 1 + (k - i + 1) = k
      BY <1>1
    <3>2. d[k - i + 1] = c[k]
      BY <1>1, <3>1
    <3> QED
      BY <2>1, <3>1, <3>2 DEF Range
  <2> QED
    BY <2>1, <2>2, <2>3 DEF Range
<1>5. TakeRest(i - 1, Listed(l, c)) = Listed(l, d)
  <2>1. PICK s \in Seq(E) : s = Listed(l, c) /\ Len(s) = Len(c)
                            /\ \A k \in 1 .. Len(c) : s[k] = l[c[k]]
    BY ListedFacts
  <2>2. PICK t \in Seq(E) : t = TakeRest(i - 1, s) /\ Len(t) = Len(c) - i + 1
                            /\ \A k \in 1 .. Len(t) : t[k] = s[i - 1 + k]
    <3>1. i \in 1 .. Len(s) + 1 /\ Len(s) = Len(c)
      BY <2>1
    <3>2. /\ TakeRest(i - 1, s) \in Seq(E) /\ Len(TakeRest(i - 1, s)) = Len(s) - i + 1
          /\ \A k \in 1 .. Len(s) - i + 1 : TakeRest(i - 1, s)[k] = s[i - 1 + k]
      BY <3>1, TakeRestFacts
    <3>3. PICK t : t = TakeRest(i - 1, s)
      OBVIOUS
    <3> QED
      BY <3>1, <3>2, <3>3
  <2>3. ASSUME NEW k \in 1 .. Len(d) PROVE t[k] = l[d[k]]
    <3>1. PICK h \in 1 .. Len(c) : h = i - 1 + k
      BY <1>2
    <3>2. d[k] = c[h] /\ t[k] = s[h]
      BY <1>1, <2>2, <3>1
    <3> QED
      BY <2>1, <3>2
  <2>4. t = [k \in 1 .. Len(d) |-> l[d[k]]]
    <3>1. t \in Seq(E) /\ Len(t) = Len(d)
      BY <1>1, <2>2
    <3> QED
      BY <2>3, <3>1
  <2> QED
    BY <2>1, <2>2, <2>4 DEF Listed
<1>6. Len(d) = Len(c) + 1 - i
  BY <1>1
<1> QED
  BY <1>3, <1>4, <1>5, <1>6

\* Two arranged lists, the one from places before those of the other, are merged
\* into one arranged list of both.
LEMMA MergeArranges ==
  ASSUME NEW E, Keyed(E), NEW l \in Seq(E),
         NEW a \in Seq(1 .. Len(l)), NEW b \in Seq(1 .. Len(l)), Arranged(l, a), Arranged(l, b),
         \A i \in 1 .. Len(a), j \in 1 .. Len(b) : a[i] < b[j]
  PROVE  MergedAt(l, a, b, Merge(Listed(l, a), Listed(l, b)), 1, 1)
<1>1. PICK x \in Seq(E) : /\ x = Listed(l, a) /\ Len(x) = Len(a)
                          /\ \A k \in 1 .. Len(a) : x[k] = l[a[k]]
  BY ListedFacts
<1>2. PICK y \in Seq(E) : /\ y = Listed(l, b) /\ Len(y) = Len(b)
                          /\ \A k \in 1 .. Len(b) : y[k] = l[b[k]]
  BY ListedFacts
<1>3. PICK f : Merges(x, y, f)
  BY MergeEquation
<1> DEFINE T == {p \in (1 .. Len(a) + 1) \X (1 .. Len(b) + 1) : MergedAt(l, a, b, f[p], p[1], p[2])}
<1>4. ASSUME NEW i \in 1 .. Len(a) + 1, NEW j \in 1 .. Len(b) + 1,
             \A k \in 1 .. Len(a) + 1, h \in 1 .. Len(b) + 1 : k + h > i + j => <<k, h>> \in T
      PROVE  MergedAt(l, a, b, f[<<i, j>>], i, j)
  <2>1. f[<<i, j>>] = MergeStep(x, y, f, i, j)
    BY <1>1, <1>2, <1>3 DEF Merges
  <2>2. CASE i = Len(a) + 1
    <3>1. f[<<i, j>>] = TakeRest(j - 1, y)
      BY <1>1, <2>1, <2>2 DEF MergeStep
    <3>2. {a[k] : k \in i .. Len(a)} = {} /\ Len(a) + 1 - i = 0
      BY <2>2
    <3>3. PICK d \in Seq(1 .. Len(l)) :
            /\ TakeRest(j - 1, y) = Listed(l, d) /\ Arranged(l, d)
            /\ Len(d) = Len(b) + 1 - j /\ Range(d) = {b[k] : k \in j .. Len(b)}
      <4>1. \E d \in Seq(1 .. Len(l)) :
              /\ TakeRest(j - 1, Listed(l, b)) = Listed(l, d) /\ Arranged(l, d)
              /\ Len(d) = Len(b) + 1 - j /\ Range(d) = {b[k] : k \in j .. Len(b)}
        BY RestArranged
      <4> QED
        BY <1>2, <4>1
    <3>4. Len(d) = (Len(a) + 1 - i) + (Len(b) + 1 - j)
      <4>1. Len(a) \in Nat /\ Len(b) \in Nat
        OBVIOUS
      <4> QED
        BY <2>2, <3>3, <4>1
    <3>5. Range(d) = {a[k] : k \in i .. Len(a)} \cup {b[k] : k \in j .. Len(b)}
      BY <3>2, <3>3
    <3> QED
      BY <3>1, <3>3, <3>4, <3>5 DEF MergedAt
  <2>3. CASE i # Len(a) + 1 /\ j = Len(b) + 1
    <3>1. f[<<i, j>>] = TakeRest(i - 1, x)
      BY <1>1, <1>2, <2>1, <2>3 DEF MergeStep
    <3>2. {b[k] : k \in j .. Len(b)} = {} /\ Len(b) + 1 - j = 0
      BY <2>3
    <3>3. PICK d \in Seq(1 .. Len(l)) :
            /\ TakeRest(i - 1, x) = Listed(l, d) /\ Arranged(l, d)
            /\ Len(d) = Len(a) + 1 - i /\ Range(d) = {a[k] : k \in i .. Len(a)}
      <4>1. \E d \in Seq(1 .. Len(l)) :
              /\ TakeRest(i - 1, Listed(l, a)) = Listed(l, d) /\ Arranged(l, d)
              /\ Len(d) = Len(a) + 1 - i /\ Range(d) = {a[k] : k \in i .. Len(a)}
        BY RestArranged
      <4> QED
        BY <1>1, <4>1
    <3>4. Len(d) = (Len(a) + 1 - i) + (Len(b) + 1 - j)
      <4>1. Len(a) \in Nat /\ Len(b) \in Nat
        OBVIOUS
      <4> QED
        BY <2>3, <3>3, <4>1
    <3>5. Range(d) = {a[k] : k \in i .. Len(a)} \cup {b[k] : k \in j .. Len(b)}
      BY <3>2, <3>3
    <3> QED
      BY <3>1, <3>3, <3>4, <3>5 DEF MergedAt
  <2>4. CASE i # Len(a) + 1 /\ j # Len(b) + 1
    <3>1. /\ i \in 1 .. Len(a) /\ j \in 1 .. Len(b)
          /\ a[i] \in 1 .. Len(l) /\ b[j] \in 1 .. Len(l) /\ a[i] < b[j]
      BY <2>4, SMTT(30)
    <3>2. l[a[i]].key \in Nat /\ l[b[j]].key \in Nat /\ x[i] = l[a[i]] /\ y[j] = l[b[j]]
      BY <1>1, <1>2, <3>1, SMTT(30) DEF Keyed
    <3>3. ASSUME NEW k \in i + 1 .. Len(a) PROVE a[k] \in 1 .. Len(l) /\ Before(l, a[i], a[k])
      <4>1. k \in 1 .. Len(a) /\ i < k
        BY <3>1
      <4>2. Before(l, a[i], a[k])
        BY <3>1, <4>1, Zenon DEF Arranged
      <4> QED
        BY <4>1, <4>2
    <3>4. ASSUME NEW k \in j + 1 .. Len(b) PROVE b[k] \in 1 .. Len(l) /\ Before(l, b[j], b[k])
      <4>1. k \in 1 .. Len(b) /\ j < k
        BY <3>1
      <4>2. Before(l, b[j], b[k])
        BY <3>1, <4>1, Zenon DEF Arranged
      <4> QED
        BY <4>1, <4>2
    <3>5. {a[k] : k \in i .. Len(a)} = {a[i]} \cup {a[k] : k \in i + 1 .. Len(a)}
      <4>1. i .. Len(a) = {i} \cup (i + 1 .. Len(a))
        BY <3>1, SMTT(30)
      <4> QED
        BY <4>1
    <3>6. {b[k] : k \in j .. Len(b)} = {b[j]} \cup {b[k] : k \in j + 1 .. Len(b)}
      <4>1. j .. Len(b) = {j} \cup (j + 1 .. Len(b))
        BY <3>1, SMTT(30)
      <4> QED
        BY <4>1
    <3>7. CASE Less(x[i], y[j])
      <4>1. f[<<i, j>>] = <<l[a[i]]>> \o f[<<i + 1, j>>]
        <5>1. ~(i > Len(x)) /\ ~(j > Len(y))
          BY <1>1, <1>2, <3>1
        <5>2. f[<<i, j>>] = <<x[i]>> \o f[<<i + 1, j>>]
          BY <2>1, <3>7, <5>1 DEF MergeStep
        <5> QED
          BY <3>2, <5>2
      <4>2. MergedAt(l, a, b, f[<<i + 1, j>>], i + 1, j)
        <5>1. i + 1 \in 1 .. Len(a) + 1 /\ i + 1 + j > i + j
          BY <3>1
        <5>2. <<i + 1, j>> \in T
          BY <1>4, <5>1
        <5> QED
          BY <5>2
      <4>3. PICK c \in Seq(1 .. Len(l)) :
              /\ f[<<i + 1, j>>] = Listed(l, c) /\ Arranged(l, c)
              /\ Len(c) = (Len(a) + 1 - (i + 1)) + (Len(b) + 1 - j)
              /\ Range(c) = {a[k] : k \in i + 1 .. Len(a)} \cup {b[k] : k \in j .. Len(b)}
        BY <4>2 DEF MergedAt
      <4>4. Before(l, a[i], b[j])
        BY <3>2, <3>7 DEF Less, Before
      <4>5. ASSUME NEW k \in 1 .. Len(c) PROVE Before(l, a[i], c[k])
        <5>1. c[k] \in Range(c)
          BY DEF Range
        <5>2. CASE c[k] \in {a[h] : h \in i + 1 .. Len(a)}
          BY <3>3, <5>2
        <5>3. CASE c[k] = b[j]
          BY <4>4, <5>3
        <5>4. CASE c[k] \in {b[h] : h \in j + 1 .. Len(b)}
          BY <3>1, <3>4, <4>4, <5>4, BeforeOrders
        <5> QED
          BY <3>6, <4>3, <5>1, <5>2, <5>3, <5>4
      <4>6. PICK d \in Seq(1 .. Len(l)) :
              /\ <<l[a[i]]>> \o Listed(l, c) = Listed(l, d) /\ Arranged(l, d)
              /\ Len(d) = Len(c) + 1 /\ Range(d) = {a[i]} \cup Range(c)
        BY <3>1, <4>3, <4>5, InFront
      <4>7. Len(d) = (Len(a) + 1 - i) + (Len(b) + 1 - j)
        BY <3>1, <4>3, <4>6, SMTT(30)
      <4>8. Range(d) = {a[k] : k \in i .. Len(a)} \cup {b[k] : k \in j .. Len(b)}
        BY <3>5, <4>3, <4>6
      <4> QED
        BY <4>1, <4>3, <4>6, <4>7, <4>8 DEF MergedAt
    <3>8. CASE ~Less(x[i], y[j])
      <4>1. f[<<i, j>>] = <<l[b[j]]>> \o f[<<i, j + 1>>]
        <5>1. ~(i > Len(x)) /\ ~(j > Len(y))
          BY <1>1, <1>2, <3>1
        <5>2. f[<<i, j>>] = <<y[j]>> \o f[<<i, j + 1>>]
          BY <2>1, <3>8, <5>1 DEF MergeStep
        <5> QED
          BY <3>2, <5>2
      <4>2. MergedAt(l, a, b, f[<<i, j + 1>>], i, j + 1)
        <5>1. j + 1 \in 1 .. Len(b) + 1 /\ i + (j + 1) > i + j
          BY <3>1
        <5>2. <<i, j + 1>> \in T
          BY <1>4, <5>1
        <5> QED
          BY <5>2
      <4>3. PICK c \in Seq(1 .. Len(l)) :
              /\ f[<<i, j + 1>>] = Listed(l, c) /\ Arranged(l, c)
              /\ Len(c) = (Len(a) + 1 - i) + (Len(b) + 1 - (j + 1))
              /\ Range(c) = {a[k] : k \in i .. Len(a)} \cup {b[k] : k \in j + 1 .. Len(b)}
        BY <4>2 DEF MergedAt
      <4>4. Before(l, b[j], a[i])
        <5>1. ~(l[a[i]].key < l[b[j]].key)
          BY <3>2, <3>8 DEF Less
        <5>2. PICK p, q : p = l[a[i]].key /\ q = l[b[j]].key
          OBVIOUS
        <5>3. p \in Nat /\ q \in Nat /\ ~(p < q)
          BY <3>2, <5>1, <5>2
        <5>4. q < p \/ q = p
          BY <5>3
        <5>5. b[j] > a[i]
          BY <3>1
        <5> QED
          BY <5>2, <5>4, <5>5 DEF Before
      <4>5. ASSUME NEW k \in 1 .. Len(c) PROVE Before(l, b[j], c[k])
        <5>1. c[k] \in Range(c)
          BY DEF Range
        <5>2. CASE c[k] \in {b[h] : h \in j + 1 .. Len(b)}
          BY <3>4, <5>2
        <5>3. CASE c[k] = a[i]
          BY <4>4, <5>3
        <5>4. CASE c[k] \in {a[h] : h \in i + 1 .. Len(a)}
          BY <3>1, <3>3, <4>4, <5>4, BeforeOrders
        <5> QED
          BY <3>5, <4>3, <5>1, <5>2, <5>3, <5>4
      <4>6. PICK d \in Seq(1 .. Len(l)) :
              /\ <<l[b[j]]>> \o Listed(l, c) = Listed(l, d) /\ Arranged(l, d)
              /\ Len(d) = Len(c) + 1 /\ Range(d) = {b[j]} \cup Range(c)
        BY <3>1, <4>3, <4>5, InFront
      <4>7. Len(d) = (Len(a) + 1 - i) + (Len(b) + 1 - j)
        BY <3>1, <4>3, <4>6
      <4>8. Range(d) = {a[k] : k \in i .. Len(a)} \cup {b[k] : k \in j .. Len(b)}
        BY <3>6, <4>3, <4>6
      <4> QED
        BY <4>1, <4>3, <4>6, <4>7, <4>8 DEF MergedAt
    <3> QED
      BY <3>7, <3>8
  <2> QED
    BY <2>2, <2>3, <2>4
<1>5. \A i \in 1 .. Len(a) + 1, j \in 1 .. Len(b) + 1 :
        (\A k \in 1 .. Len(a) + 1, h \in 1 .. Len(b) + 1 : k + h > i + j => <<k, h>> \in T)
          => <<i, j>> \in T
  BY <1>4
<1>6. \A i \in 1 .. Len(a) + 1, j \in 1 .. Len(b) + 1 : <<i, j>> \in T
  <2>1. Len(a) \in Nat /\ Len(b) \in Nat
    OBVIOUS
  <2> HIDE DEF T
  <2> QED
    BY <1>5, <2>1, HeadsInduction
<1>7. <<1, 1>> \in T
  <2>1. 1 \in 1 .. Len(a) + 1 /\ 1 \in 1 .. Len(b) + 1
    OBVIOUS
  <2> HIDE DEF T
  <2> QED
    BY <1>6, <2>1
<1>8. MergedAt(l, a, b, f[<<1, 1>>], 1, 1)
  BY <1>7
<1> QED
  BY <1>1, <1>2, <1>3, <1>8 DEF Merges

\* A merged list is a list.
LEMMA MergeType ==
  ASSUME NEW E, NEW a \in Seq(E), NEW b \in Seq(E)
  PROVE  Merge(a, b) \in Seq(E)
<1>1. PICK f : Merges(a, b, f)
  BY MergeEquation
<1> DEFINE T == {p \in (1 .. Len(a) + 1) \X (1 .. Len(b) + 1) : f[p] \in Seq(E)}
<1>2. ASSUME NEW i \in 1 .. Len(a) + 1, NEW j \in 1 .. Len(b) + 1,
             \A k \in 1 .. Len(a) + 1, h \in 1 .. Len(b) + 1 : k + h > i + j => <<k, h>> \in T
      PROVE  <<i, j>> \in T
  <2>1. TakeRest(j - 1, b) \in Seq(E) /\ TakeRest(i - 1, a) \in Seq(E)
    BY TakeRestFacts
  <2>2. ASSUME i <= Len(a) PROVE <<a[i]>> \o f[<<i + 1, j>>] \in Seq(E)
    <3>1. i + 1 \in 1 .. Len(a) + 1 /\ i + 1 + j > i + j /\ a[i] \in E
      BY <2>2
    <3>2. <<i + 1, j>> \in T
      BY <1>2, <3>1
    <3>3. f[<<i + 1, j>>] \in Seq(E)
      BY <3>2
    <3> QED
      BY <3>1, <3>3
  <2>3. ASSUME j <= Len(b) PROVE <<b[j]>> \o f[<<i, j + 1>>] \in Seq(E)
    <3>1. j + 1 \in 1 .. Len(b) + 1 /\ i + (j + 1) > i + j /\ b[j] \in E
      BY <2>3
    <3>2. <<i, j + 1>> \in T
      BY <1>2, <3>1
    <3>3. f[<<i, j + 1>>] \in Seq(E)
      BY <3>2
    <3> QED
      BY <3>1, <3>3
  <2>4. f[<<i, j>>] = MergeStep(a, b, f, i, j)
    BY <1>1 DEF Merges
  <2>5. f[<<i, j>>] \in Seq(E)
    BY <2>1, <2>2, <2>3, <2>4 DEF MergeStep
  <2> QED
    BY <2>5
<1>3. \A i \in 1 .. Len(a) + 1, j \in 1 .. Len(b) + 1 :
        (\A k \in 1 .. Len(a) + 1, h \in 1 .. Len(b) + 1 : k + h > i + j => <<k, h>> \in T)
          => <<i, j>> \in T
  BY <1>2
<1>4. \A i \in 1 .. Len(a) + 1, j \in 1 .. Len(b) + 1 : <<i, j>> \in T
  <2>1. Len(a) \in Nat /\ Len(b) \in Nat
    OBVIOUS
  <2> HIDE DEF T
  <2> QED
    BY <1>3, <2>1, HeadsInduction
<1>5. 1 \in 1 .. Len(a) + 1 /\ 1 \in 1 .. Len(b) + 1
  OBVIOUS
<1>6. <<1, 1>> \in T
  <2> HIDE DEF T
  <2> QED
    BY <1>4, <1>5
<1> QED
  BY <1>1, <1>6 DEF Merges

-----------------------------------------------------------------------------
(* Sorting.                                                                *)

\* One step of sort_list, for n elements from a place on.
SortStep(l, f, from, n) ==
  IF n <= 1 THEN SubSeq(l, from, from + n - 1)
  ELSE IF n = 2 THEN IF Less(l[from], l[from + 1]) THEN <<l[from], l[from + 1]>>
                                                   ELSE <<l[from + 1], l[from]>>
  ELSE Merge(f[<<from, n \div 2>>], f[<<from + n \div 2, n - n \div 2>>])

\* f sorts each span of the list.
Sorts(l, f) ==
  /\ SortList(l) = f[<<1, Len(l)>>]
  /\ \A from \in 1 .. Len(l) + 1 : \A n \in 0 .. Len(l) + 1 - from :
       f[<<from, n>>] = SortStep(l, f, from, n)

\* The halves of a span are shorter.
LEMMA Halves ==
  ASSUME NEW m \in Nat, NEW from \in 1 .. m + 1, NEW n \in 0 .. m + 1 - from, n > 2
  PROVE  /\ n \div 2 \in 1 .. n - 1 /\ n - n \div 2 \in 1 .. n - 1
         /\ n \div 2 \in 0 .. m + 1 - from
         /\ from + n \div 2 \in 1 .. m + 1 /\ n - n \div 2 \in 0 .. m + 1 - (from + n \div 2)
  OBVIOUS

\* There is such an f.
LEMMA SortEquation ==
  ASSUME NEW E, NEW l \in Seq(E)
  PROVE  \E f : Sorts(l, f)
<1> DEFINE D == Spans(l)
           V == Seq(E)
           step(f, p) == SortStep(l, f, p[1], p[2])
           H == [x \in [D -> V] \X D |-> step(x[1], x[2])]
           measure == [p \in D |-> p[2]]
           bound == Len(l) + 1
<1>1. V # {}
  <2>1. <<>> \in V
    OBVIOUS
  <2> QED
    BY <2>1
<1>2. measure \in [D -> Nat] /\ bound \in Nat /\ \A p \in D : measure[p] < bound
  BY DEF Spans
<1>3. ASSUME NEW from \in 1 .. Len(l) + 1, NEW n \in 0 .. Len(l) + 1 - from
      PROVE  <<from, n>> \in D
  BY DEF Spans
<1>4. ASSUME NEW p \in D
      PROVE  \E from \in 1 .. Len(l) + 1 : \E n \in 0 .. Len(l) + 1 - from : p = <<from, n>>
  <2>1. p[1] \in 1 .. Len(l) + 1 /\ p[2] \in 0 .. Len(l) + 1 - p[1] /\ p = <<p[1], p[2]>>
    BY DEF Spans
  <2> QED
    BY <2>1
<1>5. ASSUME NEW f \in [D -> V], NEW p \in D PROVE step(f, p) \in V
  <2>0. PICK from \in 1 .. Len(l) + 1 : \E n \in 0 .. Len(l) + 1 - from : p = <<from, n>>
    BY <1>4
  <2>1. PICK n \in 0 .. Len(l) + 1 - from : p = <<from, n>>
    BY <2>0
  <2>2. n <= 1 => SubSeq(l, from, from + n - 1) \in V
    <3> SUFFICES ASSUME n <= 1 PROVE SubSeq(l, from, from + n - 1) \in V
      OBVIOUS
    <3>1. PICK m : m = from + n - 1
      OBVIOUS
    <3>2. m \in from - 1 .. Len(l)
      BY <3>1
    <3> QED
      BY <3>1, <3>2
  <2>3. n = 2 => <<l[from], l[from + 1]>> \in V /\ <<l[from + 1], l[from]>> \in V
    <3> SUFFICES ASSUME n = 2
                 PROVE  <<l[from], l[from + 1]>> \in V /\ <<l[from + 1], l[from]>> \in V
      OBVIOUS
    <3>1. from \in 1 .. Len(l) /\ from + 1 \in 1 .. Len(l)
      OBVIOUS
    <3>2. PICK x \in E, y \in E : x = l[from] /\ y = l[from + 1]
      BY <3>1
    <3>3. <<x, y>> \in Seq(E) /\ <<y, x>> \in Seq(E)
      OBVIOUS
    <3> QED
      BY <3>2, <3>3
  <2>4. n > 2 => Merge(f[<<from, n \div 2>>], f[<<from + n \div 2, n - n \div 2>>]) \in V
    <3> SUFFICES ASSUME n > 2
                 PROVE  Merge(f[<<from, n \div 2>>], f[<<from + n \div 2, n - n \div 2>>]) \in V
      OBVIOUS
    <3>1. <<from, n \div 2>> \in D /\ <<from + n \div 2, n - n \div 2>> \in D
      <4>1. Len(l) \in Nat
        OBVIOUS
      <4>2. n \div 2 \in 0 .. Len(l) + 1 - from
        BY <4>1, Halves
      <4>3. /\ from + n \div 2 \in 1 .. Len(l) + 1
            /\ n - n \div 2 \in 0 .. Len(l) + 1 - (from + n \div 2)
        BY <4>1, Halves
      <4> QED
        BY <1>3, <4>2, <4>3
    <3>2. PICK x \in V, y \in V : /\ x = f[<<from, n \div 2>>]
                                  /\ y = f[<<from + n \div 2, n - n \div 2>>]
      <4> HIDE DEF D, V
      <4> QED
        BY <3>1
    <3>3. Merge(x, y) \in V
      BY MergeType
    <3> QED
      BY <3>2, <3>3
  <2>5. n <= 1 \/ n = 2 \/ n > 2
    OBVIOUS
  <2>6. SortStep(l, f, from, n) \in V
    <3> HIDE DEF V, D
    <3> QED
      BY <2>2, <2>3, <2>4, <2>5 DEF SortStep
  <2> QED
    BY <2>1, <2>6
<1>6. H \in [[D -> V] \X D -> V]
  <2> HIDE DEF step, D, V
  <2> QED
    BY <1>5
<1>7. ASSUME NEW g \in [D -> V], NEW h \in [D -> V], NEW p \in D,
             \A q \in D : measure[q] < measure[p] => g[q] = h[q]
      PROVE  H[<<g, p>>] = H[<<h, p>>]
  <2>0. PICK from \in 1 .. Len(l) + 1 : \E n \in 0 .. Len(l) + 1 - from : p = <<from, n>>
    BY <1>4
  <2>1. PICK n \in 0 .. Len(l) + 1 - from : p = <<from, n>>
    BY <2>0
  <2>2. ASSUME n > 2
        PROVE  /\ g[<<from, n \div 2>>] = h[<<from, n \div 2>>]
               /\ g[<<from + n \div 2, n - n \div 2>>] = h[<<from + n \div 2, n - n \div 2>>]
    <3>1. Len(l) \in Nat
      OBVIOUS
    <3>2. PICK q : q = n \div 2
      OBVIOUS
    <3>3. /\ q \in 1 .. n - 1 /\ n - q \in 1 .. n - 1 /\ q \in 0 .. Len(l) + 1 - from
          /\ from + q \in 1 .. Len(l) + 1 /\ n - q \in 0 .. Len(l) + 1 - (from + q)
      BY <2>2, <3>1, <3>2, Halves
    <3>4. <<from, q>> \in D /\ <<from + q, n - q>> \in D
      BY <1>3, <3>3
    <3>5. measure[<<from, q>>] < measure[p] /\ measure[<<from + q, n - q>>] < measure[p]
      BY <2>1, <3>3, <3>4
    <3> QED
      BY <1>7, <3>2, <3>4, <3>5
  <2>3. SortStep(l, g, from, n) = SortStep(l, h, from, n)
    <3>1. n <= 1 \/ n = 2 \/ n > 2
      OBVIOUS
    <3> HIDE DEF V, D
    <3> QED
      BY <2>2, <3>1 DEF SortStep
  <2>4. H[<<g, p>>] = step(g, p) /\ H[<<h, p>>] = step(h, p)
    <3> HIDE DEF step, D, V
    <3> QED
      OBVIOUS
  <2> QED
    BY <2>1, <2>3, <2>4
<1>8. HasFunction(D, V, H)
  <2> HIDE DEF D, V, H, measure, bound
  <2>1. IsRecursion(D, V, measure, bound, H)
    BY <1>1, <1>2, <1>6, <1>7 DEF IsRecursion
  <2> QED
    BY <2>1, RecursiveFunction
<1>9. \E f : f = [p \in D |-> step(f, p)]
  <2>1. PICK f \in [D -> V] : \A p \in D : f[p] = H[<<f, p>>]
    BY <1>8 DEF HasFunction
  <2> HIDE DEF step, D, V
  <2>2. \A p \in D : f[p] = step(f, p)
    BY <2>1
  <2>3. f = [p \in D |-> step(f, p)]
    BY <2>1, <2>2
  <2> QED
    BY <2>3
<1> DEFINE sort == CHOOSE f : f = [p \in D |-> step(f, p)]
<1>10. sort = [p \in D |-> step(sort, p)]
  <2> HIDE DEF step, D
  <2> QED
    BY <1>9
<1>11. SortList(l) = sort[<<1, Len(l)>>]
  BY DEF SortList, SortStep
<1> HIDE DEF sort
<1>12. ASSUME NEW from \in 1 .. Len(l) + 1, NEW n \in 0 .. Len(l) + 1 - from
       PROVE  sort[<<from, n>>] = SortStep(l, sort, from, n)
  <2>1. PICK p \in D : p = <<from, n>>
    BY <1>3
  <2>2. sort[p] = step(sort, p)
    <3> HIDE DEF step, D
    <3> QED
      BY <1>10
  <2> QED
    BY <2>1, <2>2
<1> QED
  BY <1>11, <1>12 DEF Sorts

\* What sorting is to make of n elements from a place on.
SortedAt(l, s, from, n) ==
  \E c \in Seq(1 .. Len(l)) :
    /\ s = Listed(l, c) /\ Arranged(l, c)
    /\ Len(c) = n /\ Range(c) = from .. from + n - 1

\* sort_list arranges the places of a list.
LEMMA SortArranges ==
  ASSUME NEW E, Keyed(E), NEW l \in Seq(E)
  PROVE  SortedAt(l, SortList(l), 1, Len(l))
<1>1. PICK f : Sorts(l, f)
  BY SortEquation
<1> DEFINE T == {n \in Nat : \A from \in 1 .. Len(l) + 1 :
                   from + n <= Len(l) + 1 => SortedAt(l, f[<<from, n>>], from, n)}
<1>2. Len(l) \in Nat
  OBVIOUS
<1>3. ASSUME NEW n \in Nat, \A m \in 0 .. n - 1 : m \in T,
             NEW from \in 1 .. Len(l) + 1, from + n <= Len(l) + 1
      PROVE  SortedAt(l, f[<<from, n>>], from, n)
  <2>1. f[<<from, n>>] = SortStep(l, f, from, n)
    <3>1. n \in 0 .. Len(l) + 1 - from
      BY <1>3
    <3> QED
      BY <1>1, <3>1 DEF Sorts
  <2>2. CASE n = 0
    <3>1. PICK c : c = <<>>
      OBVIOUS
    <3>2. c \in Seq(1 .. Len(l)) /\ Len(c) = 0 /\ Range(c) = {}
      BY <3>1 DEF Range
    <3>3. f[<<from, n>>] = SubSeq(l, from, from - 1)
      <4>1. from + n - 1 = from - 1
        BY <2>2
      <4> QED
        BY <2>1, <2>2, <4>1 DEF SortStep
    <3>4. SubSeq(l, from, from - 1) = <<>>
      OBVIOUS
    <3>5. Listed(l, c) = <<>> /\ Arranged(l, c)
      BY <3>1 DEF Listed, Arranged
    <3>6. from .. from + n - 1 = {}
      BY <2>2
    <3> QED
      BY <2>2, <3>2, <3>3, <3>4, <3>5, <3>6 DEF SortedAt
  <2>3. CASE n = 1
    <3>1. PICK c : c = <<from>>
      OBVIOUS
    <3>2. from \in 1 .. Len(l) /\ from + n - 1 = from
      BY <1>3, <2>3
    <3>3. c \in Seq(1 .. Len(l)) /\ Len(c) = 1 /\ Range(c) = {from}
      BY <3>1, <3>2 DEF Range
    <3>4. f[<<from, n>>] = SubSeq(l, from, from)
      BY <2>1, <2>3, <3>2 DEF SortStep
    <3>5. SubSeq(l, from, from) = <<l[from]>>
      <4>1. PICK s : s = SubSeq(l, from, from)
        OBVIOUS
      <4>2. s \in Seq(E) /\ Len(s) = 1 /\ s[1] = l[from]
        BY <3>2, <4>1
      <4>3. PICK x \in E : x = l[from]
        BY <3>2
      <4>4. <<x>> \in Seq(E) /\ Len(<<x>>) = 1 /\ <<x>>[1] = x
        OBVIOUS
      <4>5. s = <<x>>
        BY <4>2, <4>3, <4>4, SeqEqual
      <4> QED
        BY <4>1, <4>3, <4>5
    <3>6. Listed(l, c) = <<l[from]>> /\ Arranged(l, c)
      BY <3>1, <3>3 DEF Listed, Arranged
    <3>7. from .. from + n - 1 = {from}
      BY <3>2
    <3> QED
      BY <2>3, <3>3, <3>4, <3>5, <3>6, <3>7 DEF SortedAt
  <2>4. CASE n = 2
    <3>1. /\ from \in 1 .. Len(l) /\ from + 1 \in 1 .. Len(l)
          /\ l[from].key \in Nat /\ l[from + 1].key \in Nat
      BY <1>3, <2>4 DEF Keyed
    <3>2. PICK h \in 1 .. Len(l) : h = from + 1
      BY <3>1
    <3>3. from .. from + n - 1 = {from, h}
      BY <2>4, <3>1, <3>2
    <3>4. CASE Less(l[from], l[h])
      <4>1. PICK c : c = <<from, h>>
        OBVIOUS
      <4>2. c \in Seq(1 .. Len(l)) /\ Len(c) = 2 /\ Range(c) = {from, h}
        BY <3>1, <4>1 DEF Range
      <4>3. f[<<from, n>>] = <<l[from], l[h]>>
        BY <2>1, <2>4, <3>2, <3>4 DEF SortStep
      <4>4. Listed(l, c) = <<l[from], l[h]>>
        BY <4>1, <4>2 DEF Listed
      <4>5. Arranged(l, c)
        BY <3>1, <3>2, <3>4, <4>1, <4>2 DEF Arranged, Before, Less
      <4> QED
        BY <2>4, <3>3, <4>2, <4>3, <4>4, <4>5 DEF SortedAt
    <3>5. CASE ~Less(l[from], l[h])
      <4>1. PICK c : c = <<h, from>>
        OBVIOUS
      <4>2. c \in Seq(1 .. Len(l)) /\ Len(c) = 2 /\ Range(c) = {from, h}
        BY <3>1, <4>1 DEF Range
      <4>3. f[<<from, n>>] = <<l[h], l[from]>>
        BY <2>1, <2>4, <3>2, <3>5 DEF SortStep
      <4>4. Listed(l, c) = <<l[h], l[from]>>
        BY <4>1, <4>2 DEF Listed
      <4>5. Before(l, h, from)
        BY <3>1, <3>2, <3>5 DEF Before, Less
      <4>6. Arranged(l, c)
        BY <4>1, <4>2, <4>5 DEF Arranged
      <4> QED
        BY <2>4, <3>3, <4>2, <4>3, <4>4, <4>6 DEF SortedAt
    <3> QED
      BY <3>4, <3>5
  <2>5. CASE n > 2
    <3>1. PICK q : q = n \div 2
      OBVIOUS
    <3>2. n \in 0 .. Len(l) + 1 - from
      BY <1>3
    <3>3. /\ q \in 1 .. n - 1 /\ n - q \in 1 .. n - 1 /\ q \in 0 .. Len(l) + 1 - from
          /\ from + q \in 1 .. Len(l) + 1 /\ n - q \in 0 .. Len(l) + 1 - (from + q)
      BY <1>2, <2>5, <3>1, <3>2, Halves
    <3>4. PICK r, t : r = n - q /\ t = from + q
      OBVIOUS
    <3>5. /\ q \in 0 .. n - 1 /\ r \in 0 .. n - 1 /\ t \in 1 .. Len(l) + 1
          /\ from + q <= Len(l) + 1 /\ t + r <= Len(l) + 1 /\ q + r = n
      BY <1>2, <3>3, <3>4
    <3>6. f[<<from, n>>] = Merge(f[<<from, q>>], f[<<t, r>>])
      <4>1. ~(n <= 1) /\ n # 2
        BY <2>5
      <4> QED
        BY <2>1, <3>1, <3>4, <4>1 DEF SortStep
    <3>7. SortedAt(l, f[<<from, q>>], from, q) /\ SortedAt(l, f[<<t, r>>], t, r)
      <4>1. q \in T /\ r \in T
        BY <1>3, <3>5
      <4> QED
        BY <3>5, <4>1
    <3>8. PICK a \in Seq(1 .. Len(l)) :
            /\ f[<<from, q>>] = Listed(l, a) /\ Arranged(l, a)
            /\ Len(a) = q /\ Range(a) = from .. from + q - 1
      BY <3>7 DEF SortedAt
    <3>9. PICK b \in Seq(1 .. Len(l)) :
            /\ f[<<t, r>>] = Listed(l, b) /\ Arranged(l, b)
            /\ Len(b) = r /\ Range(b) = t .. t + r - 1
      BY <3>7 DEF SortedAt
    <3>10. ASSUME NEW i \in 1 .. Len(a), NEW j \in 1 .. Len(b) PROVE a[i] < b[j]
      <4>1. a[i] \in Range(a) /\ b[j] \in Range(b)
        BY DEF Range
      <4>2. a[i] \in from .. from + q - 1 /\ b[j] \in t .. t + r - 1
        BY <3>8, <3>9, <4>1
      <4> QED
        BY <3>3, <3>4, <4>2, SMTT(30)
    <3>11. MergedAt(l, a, b, f[<<from, n>>], 1, 1)
      BY <3>6, <3>8, <3>9, <3>10, MergeArranges
    <3>12. PICK c \in Seq(1 .. Len(l)) :
             /\ f[<<from, n>>] = Listed(l, c) /\ Arranged(l, c)
             /\ Len(c) = (Len(a) + 1 - 1) + (Len(b) + 1 - 1)
             /\ Range(c) = {a[k] : k \in 1 .. Len(a)} \cup {b[k] : k \in 1 .. Len(b)}
      BY <3>11 DEF MergedAt
    <3>13. Len(c) = n
      BY <3>5, <3>8, <3>9, <3>12
    <3>14. Range(c) = from .. from + n - 1
      <4>1. Range(c) = Range(a) \cup Range(b)
        <5>1. DOMAIN a = 1 .. Len(a) /\ DOMAIN b = 1 .. Len(b)
          OBVIOUS
        <5>2. Range(a) = {a[k] : k \in 1 .. Len(a)} /\ Range(b) = {b[k] : k \in 1 .. Len(b)}
          BY <5>1 DEF Range
        <5> QED
          BY <3>12, <5>2
      <4>2. (from .. from + q - 1) \cup (t .. t + r - 1) = from .. from + n - 1
        BY <1>2, <3>3, <3>4
      <4> QED
        BY <3>8, <3>9, <4>1, <4>2
    <3> QED
      BY <3>12, <3>13, <3>14 DEF SortedAt
  <2> QED
    BY <2>2, <2>3, <2>4, <2>5
<1>4. \A n \in Nat : (\A m \in 0 .. n - 1 : m \in T) => n \in T
  BY <1>3
<1>5. \A n \in Nat : n \in T
  <2> HIDE DEF T
  <2> QED
    BY <1>4, Induction
<1>6. Len(l) \in T /\ 1 \in 1 .. Len(l) + 1 /\ 1 + Len(l) <= Len(l) + 1
  <2> HIDE DEF T
  <2> QED
    BY <1>2, <1>5
<1>7. SortedAt(l, f[<<1, Len(l)>>], 1, Len(l))
  BY <1>6
<1> QED
  BY <1>1, <1>7 DEF Sorts

-----------------------------------------------------------------------------
(* The lists of the chain.                                                 *)

\* What one pattern after the other declares is one list.
LEMMA FlattenType ==
  ASSUME NEW S, NEW t \in Seq(Seq(S))
  PROVE  FlattenSeq(t) \in Seq(S)
<1>1. CASE Len(t) = 0
  <2>1. FlattenSeq(t) = t /\ t = <<>>
    BY <1>1 DEF FlattenSeq
  <2>2. <<>> \in Seq(S)
    OBVIOUS
  <2> QED
    BY <2>1, <2>2, Zenon
<1>2. CASE Len(t) # 0
  <2>1. PICK n \in Nat : n = Len(t)
    OBVIOUS
  <2>2. PICK f : FlattenSeq(t) = f[n] /\ f[1] = t[1] /\ \A i \in 2 .. n : f[i] = f[i - 1] \o t[i]
    <3>1. n = Len(t) /\ n # 0
      BY <1>2, <2>1
    <3>2. PICK f : Flattens(f, t, n)
      BY <3>1, FlattenEquation
    <3> QED
      BY <3>2 DEF Flattens
  <2> DEFINE T == {i \in Nat : i \in 1 .. n => f[i] \in Seq(S)}
  <2>3. ASSUME NEW i \in Nat, \A m \in 0 .. i - 1 : m \in T PROVE i \in T
    <3>1. CASE i = 1
      BY <1>2, <2>1, <2>2, <3>1
    <3>2. CASE i # 1
      <4> SUFFICES ASSUME i \in 2 .. n PROVE f[i] \in Seq(S)
        BY <3>2
      <4>1. i - 1 \in 0 .. i - 1 /\ i - 1 \in 1 .. n /\ t[i] \in Seq(S)
        BY <2>1
      <4>2. f[i - 1] \in Seq(S)
        BY <2>3, <4>1
      <4>3. f[i - 1] \o t[i] \in Seq(S)
        BY <4>1, <4>2
      <4> QED
        BY <2>2, <4>3
    <3> QED
      BY <3>1, <3>2
  <2> HIDE DEF T
  <2>4. n \in T
    BY <2>3, Induction
  <2>5. f[n] \in Seq(S)
    BY <1>2, <2>1, <2>4 DEF T
  <2> QED
    BY <2>2, <2>5
<1> QED
  BY <1>1, <1>2

ChainOK == chain \in Seq(Seq(Keys))

\* The list of a pattern's parameters.
LEMMA BoundedSeqIsSeq ==
  ASSUME NEW keys \in BoundedSeq(Keys, MaxParams)
  PROVE  keys \in Seq(Keys)
<1>1. PICK m \in 0 .. MaxParams : keys \in [1 .. m -> Keys]
  BY DEF BoundedSeq, SeqOf
<1> QED
  BY <1>1, ParamsAssumption

\* The chain of bindings is a list of lists of parameters.
THEOREM ChainType == ObjectsSpec => []ChainOK
<1>1. ObjectsInit => ChainOK
  BY DEF ObjectsInit, ChainOK
<1>2. ChainOK /\ [ObjectsNext]_objects => ChainOK'
  <2>1. ASSUME ChainOK, NEW keys \in BoundedSeq(Keys, MaxParams), Bind(keys) PROVE ChainOK'
    <3>1. keys \in Seq(Keys)
      BY BoundedSeqIsSeq
    <3>2. chain' = Append(chain, keys)
      BY <2>1 DEF Bind
    <3> QED
      BY <2>1, <3>1, <3>2 DEF ChainOK
  <2>2. ASSUME ChainOK, UNCHANGED objects PROVE ChainOK'
    BY <2>2 DEF ChainOK, objects
  <2> QED
    BY <2>1, <2>2 DEF ObjectsNext
<1> QED
  BY <1>1, <1>2, PTL DEF ObjectsSpec

\* A function on the numbers up to n is a sequence.
LEMMA ListIsSequence ==
  ASSUME NEW S, NEW n \in Nat, NEW s \in [1 .. n -> S]
  PROVE  s \in Seq(S) /\ Len(s) = n
OBVIOUS

\* Members in the order they are declared in, each with its place.
LEMMA DeclaredFacts ==
  ASSUME ChainOK
  PROVE  /\ Declared \in Seq([key : Keys, from : Nat])
         /\ \A i \in 1 .. Len(Declared) : Declared[i].from = i
<1>1. PICK keys \in Seq(Keys) : keys = FlattenSeq(chain)
  BY FlattenType DEF ChainOK
<1>2. Declared = [i \in 1 .. Len(keys) |-> [key |-> keys[i], from |-> i]]
  BY <1>1 DEF Declared
<1>3. PICK n \in Nat : n = Len(keys)
  OBVIOUS
<1>4. PICK s : s = [i \in 1 .. n |-> [key |-> keys[i], from |-> i]]
  OBVIOUS
<1>5. s \in Seq([key : Keys, from : Nat]) /\ Len(s) = n
  <2>1. \A i \in 1 .. n : [key |-> keys[i], from |-> i] \in [key : Keys, from : Nat]
    BY <1>3
  <2>2. s \in [1 .. n -> [key : Keys, from : Nat]]
    BY <1>4, <2>1, Zenon
  <2> QED
    BY <1>3, <2>2, ListIsSequence
<1> QED
  BY <1>2, <1>3, <1>4, <1>5

\* Elements have numbers for keys.
LEMMA KeysAreOrdered == Keyed([key : Keys, from : Nat]) /\ Keyed([key : Keys])
  BY ParamsAssumption DEF Keyed

\* sort_list loses and invents nothing, and puts elements with equal keys in the
\* reverse of the order they were declared in, whatever the bindings of a chain
\* declare.
THEOREM SortLosesNothing == ObjectsSpec => []SortReversesTies
<1>1. ChainOK => SortReversesTies
  <2> SUFFICES ASSUME ChainOK PROVE SortReversesTies
    OBVIOUS
  <2> DEFINE E == [key : Keys, from : Nat]
  <2>1. PICK l \in Seq(E) : l = Declared /\ \A i \in 1 .. Len(l) : l[i].from = i
    BY DeclaredFacts
  <2>2. Keyed(E)
    BY KeysAreOrdered
  <2> HIDE DEF E
  <2>9. \A i \in 1 .. Len(l) : l[i].key \in Nat
    BY <2>2 DEF Keyed
  <2>3. PICK c \in Seq(1 .. Len(l)) : /\ SortList(l) = Listed(l, c) /\ Arranged(l, c)
                                      /\ Len(c) = Len(l) /\ Range(c) = 1 .. 1 + Len(l) - 1
    BY <2>2, SortArranges DEF SortedAt
  <2>4. PICK s \in Seq(E) : /\ s = SortList(l) /\ Len(s) = Len(c)
                            /\ \A k \in 1 .. Len(c) : s[k] = l[c[k]]
    <3>1. /\ Listed(l, c) \in Seq(E) /\ Len(Listed(l, c)) = Len(c)
          /\ \A k \in 1 .. Len(c) : Listed(l, c)[k] = l[c[k]]
      BY ListedFacts
    <3> QED
      BY <2>3, <3>1
  <2>5. 1 .. 1 + Len(l) - 1 = 1 .. Len(l)
    OBVIOUS
  <2>6. DOMAIN s = 1 .. Len(l) /\ DOMAIN c = 1 .. Len(l) /\ DOMAIN l = 1 .. Len(l)
    BY <2>3, <2>4
  <2>7. Range(s) = Range(l)
    <3>1. ASSUME NEW k \in 1 .. Len(l) PROVE s[k] \in Range(l)
      <4>1. c[k] \in 1 .. Len(l) /\ s[k] = l[c[k]]
        BY <2>3, <2>4
      <4> QED
        BY <2>6, <4>1 DEF Range
    <3>2. ASSUME NEW i \in 1 .. Len(l) PROVE l[i] \in Range(s)
      <4>1. PICK k \in 1 .. Len(l) : c[k] = i
        BY <2>3, <2>5, <2>6 DEF Range
      <4> QED
        BY <2>3, <2>4, <2>6, <4>1 DEF Range
    <3> QED
      BY <2>6, <3>1, <3>2 DEF Range
  <2>8. ASSUME NEW i \in 1 .. Len(l), NEW j \in 1 .. Len(l), i < j
        PROVE  Less(s[i], s[j]) \/ (Eq(s[i], s[j]) /\ s[i].from > s[j].from)
    <3>1. Before(l, c[i], c[j])
      BY <2>3, <2>8 DEF Arranged
    <3>2. c[i] \in 1 .. Len(l) /\ c[j] \in 1 .. Len(l) /\ s[i] = l[c[i]] /\ s[j] = l[c[j]]
      BY <2>3, <2>4, SMTT(30)
    <3>3. s[i].from = c[i] /\ s[j].from = c[j] /\ s[i].key \in Nat /\ s[j].key \in Nat
      BY <2>1, <2>9, <3>2
    <3> QED
      BY <3>1, <3>2, <3>3 DEF Before, Less, Eq
  <2> QED
    BY <2>1, <2>3, <2>4, <2>6, <2>7, <2>8 DEF SortReversesTies
<1> QED
  BY <1>1, ChainType, PTL

-----------------------------------------------------------------------------
(* How often a list has a key.                                             *)

\* A number, and none for a key that is not there.
LEMMA TimesType ==
  ASSUME NEW E, NEW l \in Seq(E), NEW k
  PROVE  /\ Times(k, l) \in Nat /\ IsFiniteSet({i \in DOMAIN l : l[i].key = k})
         /\ (\A i \in 1 .. Len(l) : l[i].key # k) => Times(k, l) = 0
         /\ Times(k, l) = 0 => \A i \in 1 .. Len(l) : l[i].key # k
<1>1. DOMAIN l = 1 .. Len(l) /\ Len(l) \in Nat
  OBVIOUS
<1>2. IsFiniteSet(1 .. Len(l))
  BY <1>1, FS_Interval
<1>3. PICK A : A = {i \in 1 .. Len(l) : l[i].key = k}
  OBVIOUS
<1>4. IsFiniteSet(A)
  <2>1. A \in SUBSET (1 .. Len(l))
    BY <1>3
  <2> QED
    BY <1>2, <2>1, FS_Subset
<1>5. Cardinality(A) \in Nat /\ (Cardinality(A) = 0 <=> A = {})
  BY <1>4, FS_CardinalityType, FS_EmptySet
<1>6. Times(k, l) = Cardinality(A)
  BY <1>1, <1>3 DEF Times
<1> QED
  BY <1>1, <1>3, <1>4, <1>5, <1>6

\* With one more element in front.
LEMMA TimesFront ==
  ASSUME NEW E, NEW l \in Seq(E), NEW x \in E, NEW k
  PROVE  Times(k, <<x>> \o l) = Times(k, l) + (IF x.key = k THEN 1 ELSE 0)
<1>1. PICK s \in Seq(E) : /\ s = <<x>> \o l /\ Len(s) = Len(l) + 1 /\ s[1] = x
                          /\ \A i \in 1 .. Len(l) : s[i + 1] = l[i]
  <2>1. /\ <<x>> \o l \in Seq(E) /\ Len(<<x>> \o l) = Len(l) + 1 /\ (<<x>> \o l)[1] = x
        /\ \A i \in 1 .. Len(l) : (<<x>> \o l)[i + 1] = l[i]
    OBVIOUS
  <2> QED
    BY <2>1
<1> DEFINE A == {i \in 1 .. Len(l) : l[i].key = k}
           B == {i \in 2 .. Len(s) : s[i].key = k}
           f == [i \in A |-> i + 1]
<1>2. Times(k, l) = Cardinality(A) /\ IsFiniteSet(A) /\ Cardinality(A) \in Nat
  <2>1. DOMAIN l = 1 .. Len(l)
    OBVIOUS
  <2> QED
    BY <2>1, TimesType DEF Times
<1>3. ExistsBijection(A, B)
  <2>1. f \in [A -> B]
    BY <1>1
  <2>2. \A i, j \in A : f[i] = f[j] => i = j
    OBVIOUS
  <2>3. ASSUME NEW j \in B PROVE \E i \in A : f[i] = j
    <3>1. j - 1 \in 1 .. Len(l) /\ j - 1 + 1 = j
      BY <1>1
    <3>2. l[j - 1] = s[j]
      BY <1>1, <3>1
    <3>3. j - 1 \in A
      BY <3>1, <3>2
    <3> QED
      BY <3>1, <3>3
  <2> HIDE DEF f, A, B
  <2> QED
    BY <2>1, <2>2, <2>3 DEF ExistsBijection, Bijection, Injection, IsInjective, Surjection
<1>4. IsFiniteSet(B) /\ Cardinality(B) = Cardinality(A)
  <2> HIDE DEF A, B
  <2> QED
    BY <1>2, <1>3, FS_Bijection
<1>5. Times(k, s) = Cardinality({i \in 1 .. Len(s) : s[i].key = k})
  <2>1. DOMAIN s = 1 .. Len(s)
    OBVIOUS
  <2> QED
    BY <2>1 DEF Times
<1>6. {i \in 1 .. Len(s) : s[i].key = k} = IF x.key = k THEN B \cup {1} ELSE B
  <2>1. 1 .. Len(s) = (2 .. Len(s)) \cup {1}
    BY <1>1
  <2> QED
    BY <1>1, <2>1
<1>7. 1 \notin B
  OBVIOUS
<1>8. Cardinality(B \cup {1}) = Cardinality(B) + 1
  <2> HIDE DEF B
  <2> QED
    BY <1>4, <1>7, FS_AddElement
<1>9. Times(k, s) = Times(k, l) + (IF x.key = k THEN 1 ELSE 0)
  <2> HIDE DEF A, B
  <2>1. CASE x.key = k
    <3>1. Times(k, s) = Cardinality(B \cup {1})
      BY <1>5, <1>6, <2>1
    <3> QED
      BY <1>2, <1>4, <1>8, <2>1, <3>1
  <2>2. CASE x.key # k
    <3>1. Times(k, s) = Cardinality(B)
      BY <1>5, <1>6, <2>2
    <3> QED
      BY <1>2, <1>4, <2>2, <3>1
  <2> QED
    BY <2>1, <2>2
<1> QED
  BY <1>1, <1>9

\* The rest of a list starts with the next element.
LEMMA RestFront ==
  ASSUME NEW E, NEW l \in Seq(E), NEW i \in 1 .. Len(l)
  PROVE  TakeRest(i - 1, l) = <<l[i]>> \o TakeRest(i, l)
<1>1. PICK s \in Seq(E) : /\ s = TakeRest(i - 1, l) /\ Len(s) = Len(l) - i + 1
                          /\ \A k \in 1 .. Len(s) : s[k] = l[i - 1 + k]
  BY TakeRestFacts
<1>2. PICK t \in Seq(E) : /\ t = TakeRest(i, l) /\ Len(t) = Len(l) - i
                          /\ \A k \in 1 .. Len(t) : t[k] = l[i + k]
  <2>1. i + 1 \in 1 .. Len(l) + 1 /\ i + 1 - 1 = i
    OBVIOUS
  <2>2. PICK h \in 1 .. Len(l) + 1 : h = i + 1
    BY <2>1
  <2>3. /\ TakeRest(h - 1, l) \in Seq(E) /\ Len(TakeRest(h - 1, l)) = Len(l) - h + 1
        /\ \A k \in 1 .. Len(l) - h + 1 : TakeRest(h - 1, l)[k] = l[h - 1 + k]
    BY TakeRestFacts
  <2>4. h - 1 = i /\ Len(l) - h + 1 = Len(l) - i
    BY <2>2
  <2> QED
    BY <2>3, <2>4
<1>3. PICK u \in Seq(E) : u = <<l[i]>> \o t /\ Len(u) = Len(l) - i + 1
  <2>1. l[i] \in E
    OBVIOUS
  <2>2. <<l[i]>> \o t \in Seq(E) /\ Len(<<l[i]>> \o t) = 1 + Len(t)
    BY <2>1
  <2>3. 1 + Len(t) = Len(l) - i + 1
    BY <1>2
  <2> QED
    BY <2>2, <2>3
<1>4. ASSUME NEW k \in 1 .. Len(u) PROVE u[k] = s[k]
  <2>1. CASE k = 1
    <3>1. u[1] = l[i] /\ s[1] = l[i]
      BY <1>1, <1>3
    <3> QED
      BY <2>1, <3>1
  <2>2. CASE k # 1
    <3>1. u[k] = t[k - 1] /\ k - 1 \in 1 .. Len(t)
      BY <1>2, <1>3, <2>2
    <3>2. PICK h \in 1 .. Len(t) : h = k - 1
      BY <3>1
    <3>3. t[h] = l[i + h] /\ k \in 1 .. Len(s) /\ i + h = i - 1 + k
      <4>1. t[h] = l[i + h]
        BY <1>2
      <4>2. Len(u) = Len(s) /\ k \in Nat
        BY <1>1, <1>3
      <4> QED
        BY <3>2, <4>1, <4>2
    <3>4. s[k] = l[i - 1 + k]
      BY <1>1, <3>3
    <3> QED
      BY <3>1, <3>2, <3>3, <3>4
  <2> QED
    BY <2>1, <2>2
<1>5. u = s
  BY <1>1, <1>3, <1>4, SeqEqual
<1> QED
  BY <1>1, <1>2, <1>3, <1>5

-----------------------------------------------------------------------------
(* union_, intersection and difference.                                    *)

\* One step of Walk.
WalkStep(a, b, equal, odd, f, i, j) ==
  IF i > Len(a) THEN IF odd THEN TakeRest(j - 1, b) ELSE <<>>
  ELSE IF j > Len(b) THEN IF odd THEN TakeRest(i - 1, a) ELSE <<>>
  ELSE IF Eq(a[i], b[j]) THEN Keep(a[i], equal) \o f[<<i + 1, j + 1>>]
  ELSE IF Less(a[i], b[j]) THEN Keep(a[i], odd) \o f[<<i + 1, j>>]
  ELSE Keep(b[j], odd) \o f[<<i, j + 1>>]

\* f walks what is left of two lists at each place.
Walks(a, b, equal, odd, f) ==
  /\ Walk(a, b, equal, odd) = f[<<1, 1>>]
  /\ \A i \in 1 .. Len(a) + 1, j \in 1 .. Len(b) + 1 :
       f[<<i, j>>] = WalkStep(a, b, equal, odd, f, i, j)

\* An element put in front or left out.
LEMMA KeepType ==
  ASSUME NEW E, NEW x \in E, NEW l \in Seq(E), NEW kept
  PROVE  Keep(x, kept) \o l \in Seq(E)
<1>1. <<x>> \o l \in Seq(E) /\ <<>> \o l \in Seq(E)
  OBVIOUS
<1> QED
  BY <1>1 DEF Keep

\* There is such an f.
LEMMA WalkEquation ==
  ASSUME NEW E, NEW a \in Seq(E), NEW b \in Seq(E), NEW equal, NEW odd
  PROVE  \E f : Walks(a, b, equal, odd, f)
<1> DEFINE D == Heads(a, b)
           V == Seq(E)
           step(f, p) == WalkStep(a, b, equal, odd, f, p[1], p[2])
           H == [x \in [D -> V] \X D |-> step(x[1], x[2])]
<1>1. V # {} /\ <<>> \in V
  OBVIOUS
<1>2. ASSUME NEW i \in 1 .. Len(a) + 1, NEW j \in 1 .. Len(b) + 1
      PROVE  /\ <<i, j>> \in D
             /\ i <= Len(a) => <<i + 1, j>> \in D /\ a[i] \in E
             /\ j <= Len(b) => <<i, j + 1>> \in D /\ b[j] \in E
             /\ i <= Len(a) /\ j <= Len(b) => <<i + 1, j + 1>> \in D
  BY DEF Heads
<1>3. ASSUME NEW f \in [D -> V], NEW p \in D PROVE step(f, p) \in V
  <2>1. PICK i \in 1 .. Len(a) + 1, j \in 1 .. Len(b) + 1 : p = <<i, j>>
    BY DEF Heads
  <2>2. TakeRest(j - 1, b) \in V /\ TakeRest(i - 1, a) \in V
    BY TakeRestFacts
  <2>3. ASSUME i <= Len(a), j <= Len(b)
        PROVE  /\ Keep(a[i], equal) \o f[<<i + 1, j + 1>>] \in V
               /\ Keep(a[i], odd) \o f[<<i + 1, j>>] \in V
               /\ Keep(b[j], odd) \o f[<<i, j + 1>>] \in V
    <3>1. /\ f[<<i + 1, j + 1>>] \in Seq(E) /\ f[<<i + 1, j>>] \in Seq(E)
          /\ f[<<i, j + 1>>] \in Seq(E) /\ a[i] \in E /\ b[j] \in E
      BY <1>2, <2>3
    <3> QED
      BY <3>1, KeepType
  <2>4. WalkStep(a, b, equal, odd, f, i, j) \in V
    <3>1. i \in Nat /\ j \in Nat /\ Len(a) \in Nat /\ Len(b) \in Nat
      OBVIOUS
    <3> HIDE DEF V, D
    <3> QED
      BY <1>1, <2>2, <2>3, <3>1 DEF WalkStep
  <2> QED
    BY <2>1, <2>4
<1>4. H \in [[D -> V] \X D -> V]
  <2> HIDE DEF step, D, V
  <2> QED
    BY <1>3
<1>5. ASSUME NEW g \in [D -> V], NEW h \in [D -> V], NEW p \in D,
             \A q \in D : q[1] + q[2] > p[1] + p[2] => g[q] = h[q]
      PROVE  H[<<g, p>>] = H[<<h, p>>]
  <2>1. PICK i \in 1 .. Len(a) + 1, j \in 1 .. Len(b) + 1 : p = <<i, j>>
    BY DEF Heads
  <2>2. ASSUME NEW k, NEW m, <<k, m>> \in D, k + m > i + j PROVE g[<<k, m>>] = h[<<k, m>>]
    <3>1. PICK q \in D : q = <<k, m>>
      BY <2>2
    <3>2. q[1] + q[2] > p[1] + p[2]
      BY <2>1, <2>2, <3>1
    <3> QED
      BY <1>5, <3>1, <3>2
  <2>3. ASSUME i <= Len(a), j <= Len(b)
        PROVE  /\ g[<<i + 1, j + 1>>] = h[<<i + 1, j + 1>>]
               /\ g[<<i + 1, j>>] = h[<<i + 1, j>>] /\ g[<<i, j + 1>>] = h[<<i, j + 1>>]
    <3>1. <<i + 1, j + 1>> \in D /\ <<i + 1, j>> \in D /\ <<i, j + 1>> \in D
      BY <1>2, <2>3
    <3>2. i + 1 + (j + 1) > i + j /\ i + 1 + j > i + j /\ i + (j + 1) > i + j
      OBVIOUS
    <3> HIDE DEF D
    <3> QED
      BY <2>2, <3>1, <3>2
  <2>4. WalkStep(a, b, equal, odd, g, i, j) = WalkStep(a, b, equal, odd, h, i, j)
    <3>1. i \in Nat /\ j \in Nat /\ Len(a) \in Nat /\ Len(b) \in Nat
      OBVIOUS
    <3> HIDE DEF V, D
    <3> QED
      BY <2>3, <3>1 DEF WalkStep
  <2>5. H[<<g, p>>] = step(g, p) /\ H[<<h, p>>] = step(h, p)
    <3> HIDE DEF step, D, V
    <3> QED
      OBVIOUS
  <2> QED
    BY <2>1, <2>4, <2>5
<1>6. HasFunction(D, V, H)
  <2>1. Len(a) \in Nat /\ Len(b) \in Nat
    OBVIOUS
  <2> HIDE DEF V, H
  <2> QED
    BY <1>1, <1>4, <1>5, <2>1, HeadsRecursion, Zenon
<1>7. \E f : f = [p \in D |-> step(f, p)]
  <2>1. PICK f \in [D -> V] : \A p \in D : f[p] = H[<<f, p>>]
    BY <1>6 DEF HasFunction
  <2> HIDE DEF step, D, V
  <2>2. \A p \in D : f[p] = step(f, p)
    BY <2>1
  <2>3. f = [p \in D |-> step(f, p)]
    BY <2>1, <2>2
  <2> QED
    BY <2>3
<1> DEFINE walk == CHOOSE f : f = [p \in D |-> step(f, p)]
<1>8. walk = [p \in D |-> step(walk, p)]
  <2> HIDE DEF step, D
  <2> QED
    BY <1>7
<1>9. Walk(a, b, equal, odd) = walk[<<1, 1>>]
  BY DEF Walk, WalkStep
<1> HIDE DEF walk
<1>10. ASSUME NEW i \in 1 .. Len(a) + 1, NEW j \in 1 .. Len(b) + 1
       PROVE  walk[<<i, j>>] = WalkStep(a, b, equal, odd, walk, i, j)
  <2>1. PICK p \in D : p = <<i, j>>
    BY <1>2
  <2>2. walk[p] = step(walk, p)
    <3> HIDE DEF step, D
    <3> QED
      BY <1>8
  <2> QED
    BY <2>1, <2>2
<1> QED
  BY <1>9, <1>10 DEF Walks

\* An element that comes before all of an ordered list, put in front or left out.
LEMMA KeepFacts ==
  ASSUME NEW E, Keyed(E), NEW x \in E, NEW l \in Seq(E), Ordered(l), NEW kept,
         \A y \in 1 .. Len(l) : x.key <= l[y].key
  PROVE  /\ Keep(x, kept) \o l \in Seq(E) /\ Ordered(Keep(x, kept) \o l)
         /\ \A y \in 1 .. Len(Keep(x, kept) \o l) : x.key <= (Keep(x, kept) \o l)[y].key
         /\ \A k : Times(k, Keep(x, kept) \o l)
                     = Times(k, l) + (IF kept /\ x.key = k THEN 1 ELSE 0)
<1>1. CASE kept
  <2>1. PICK s \in Seq(E) : /\ s = <<x>> \o l /\ Len(s) = Len(l) + 1 /\ s[1] = x
                            /\ \A i \in 1 .. Len(l) : s[i + 1] = l[i]
    <3>1. /\ <<x>> \o l \in Seq(E) /\ Len(<<x>> \o l) = Len(l) + 1 /\ (<<x>> \o l)[1] = x
          /\ \A i \in 1 .. Len(l) : (<<x>> \o l)[i + 1] = l[i]
      OBVIOUS
    <3> QED
      BY <3>1
  <2>2. DOMAIN s = 1 .. Len(s) /\ DOMAIN l = 1 .. Len(l)
    OBVIOUS
  <2>3. \A i \in 2 .. Len(s) : i - 1 \in 1 .. Len(l) /\ s[i] = l[i - 1]
    <3> SUFFICES ASSUME NEW i \in 2 .. Len(s) PROVE i - 1 \in 1 .. Len(l) /\ s[i] = l[i - 1]
      OBVIOUS
    <3>1. PICK h : h = i - 1
      OBVIOUS
    <3>2. h \in 1 .. Len(l) /\ h + 1 = i
      BY <2>1, <3>1
    <3> QED
      BY <2>1, <3>1, <3>2
  <2>4. x.key \in Nat /\ \A i \in 1 .. Len(l) : l[i].key \in Nat
    BY DEF Keyed
  <2>5. \A y \in 1 .. Len(s) : x.key <= s[y].key
    <3> SUFFICES ASSUME NEW y \in 1 .. Len(s) PROVE x.key <= s[y].key
      OBVIOUS
    <3>1. CASE y = 1
      BY <2>1, <2>4, <3>1
    <3>2. CASE y # 1
      <4>1. y \in 2 .. Len(s)
        BY <3>2
      <4>2. PICK h \in 1 .. Len(l) : s[y] = l[h]
        BY <2>3, <4>1
      <4> QED
        BY <4>2
    <3> QED
      BY <3>1, <3>2
  <2>6. Ordered(s)
    <3> SUFFICES ASSUME NEW i \in 1 .. Len(s), NEW j \in 1 .. Len(s), i < j
                 PROVE  ~Less(s[j], s[i])
      BY <2>2 DEF Ordered
    <3>1. j \in 2 .. Len(s)
      OBVIOUS
    <3>2. CASE i = 1
      <4>1. x.key <= l[j - 1].key /\ s[j] = l[j - 1] /\ l[j - 1].key \in Nat
        BY <2>3, <2>4, <3>1
      <4> QED
        BY <2>1, <2>4, <3>2, <4>1 DEF Less
    <3>3. CASE i # 1
      <4>1. i \in 2 .. Len(s)
        BY <3>3
      <4>2. PICK h \in 1 .. Len(l) : h = i - 1 /\ s[i] = l[h]
        BY <2>3, <4>1
      <4>3. PICK m \in 1 .. Len(l) : m = j - 1 /\ s[j] = l[m]
        BY <2>3, <3>1
      <4>4. h < m
        BY <4>2, <4>3
      <4> QED
        BY <2>2, <4>2, <4>3, <4>4 DEF Ordered
    <3> QED
      BY <3>2, <3>3
  <2>7. \A k : Times(k, s) = Times(k, l) + (IF x.key = k THEN 1 ELSE 0)
    BY <2>1, TimesFront
  <2>8. Keep(x, kept) \o l = s
    BY <1>1, <2>1 DEF Keep
  <2> QED
    BY <1>1, <2>5, <2>6, <2>7, <2>8
<1>2. CASE ~kept
  <2>1. Keep(x, kept) \o l = l
    <3>1. <<>> \o l = l
      OBVIOUS
    <3> QED
      BY <1>2, <3>1 DEF Keep
  <2>2. ASSUME NEW k PROVE Times(k, l) = Times(k, l) + (IF kept /\ x.key = k THEN 1 ELSE 0)
    <3>1. Times(k, l) \in Nat
      BY TimesType
    <3> QED
      BY <1>2, <3>1
  <2> QED
    BY <2>1, <2>2
<1> QED
  BY <1>1, <1>2

\* What is left of an ordered list.
LEMMA OrderedRest ==
  ASSUME NEW E, Keyed(E), NEW l \in Seq(E), Ordered(l), NEW i \in 1 .. Len(l)
  PROVE  /\ TakeRest(i - 1, l) \in Seq(E) /\ Ordered(TakeRest(i - 1, l))
         /\ \A y \in 1 .. Len(TakeRest(i - 1, l)) : l[i].key <= TakeRest(i - 1, l)[y].key
         /\ \A k : Times(k, TakeRest(i - 1, l))
                     = Times(k, TakeRest(i, l)) + (IF l[i].key = k THEN 1 ELSE 0)
         /\ \A k : Times(k, TakeRest(i, l)) \in Nat
         /\ \A k \in Nat : k < l[i].key => Times(k, TakeRest(i - 1, l)) = 0
<1>1. PICK s \in Seq(E) : /\ s = TakeRest(i - 1, l) /\ Len(s) = Len(l) - i + 1
                          /\ \A k \in 1 .. Len(s) : s[k] = l[i - 1 + k]
  BY TakeRestFacts
<1>2. DOMAIN s = 1 .. Len(s) /\ DOMAIN l = 1 .. Len(l)
  OBVIOUS
<1>3. \A h \in 1 .. Len(l) : l[h].key \in Nat
  BY DEF Keyed
<1>4. ASSUME NEW y \in 1 .. Len(s) PROVE i - 1 + y \in i .. Len(l) /\ s[y] = l[i - 1 + y]
  BY <1>1
<1>5. Ordered(s)
  <2> SUFFICES ASSUME NEW p \in 1 .. Len(s), NEW q \in 1 .. Len(s), p < q
               PROVE  ~Less(s[q], s[p])
    BY <1>2 DEF Ordered
  <2>1. PICK h \in 1 .. Len(l) : h = i - 1 + p /\ s[p] = l[h]
    <3>1. i - 1 + p \in i .. Len(l) /\ s[p] = l[i - 1 + p]
      BY <1>4, Zenon
    <3>2. i - 1 + p \in 1 .. Len(l)
      BY <3>1
    <3> QED
      BY <3>1, <3>2, Zenon
  <2>2. PICK m \in 1 .. Len(l) : m = i - 1 + q /\ s[q] = l[m]
    <3>1. i - 1 + q \in i .. Len(l) /\ s[q] = l[i - 1 + q]
      BY <1>4, Zenon
    <3>2. i - 1 + q \in 1 .. Len(l)
      BY <3>1
    <3> QED
      BY <3>1, <3>2, Zenon
  <2>3. h < m
    BY <2>1, <2>2
  <2> QED
    BY <1>2, <2>1, <2>2, <2>3 DEF Ordered
<1>6. ASSUME NEW y \in 1 .. Len(s) PROVE l[i].key <= s[y].key
  <2>1. PICK h \in i .. Len(l) : s[y] = l[h]
    BY <1>4
  <2>2. h \in 1 .. Len(l) /\ (h = i \/ i < h)
    OBVIOUS
  <2>3. h # i => ~Less(l[h], l[i])
    BY <1>2, <2>2 DEF Ordered
  <2> QED
    BY <1>3, <2>1, <2>2, <2>3 DEF Less
<1>7. TakeRest(i, l) \in Seq(E)
  <2>1. PICK h \in 1 .. Len(l) + 1 : h - 1 = i
    <3>1. i + 1 \in 1 .. Len(l) + 1 /\ i + 1 - 1 = i
      OBVIOUS
    <3> QED
      BY <3>1
  <2>2. TakeRest(h - 1, l) \in Seq(E)
    BY TakeRestFacts
  <2> QED
    BY <2>1, <2>2
<1>8. \A k : Times(k, s) = Times(k, TakeRest(i, l)) + (IF l[i].key = k THEN 1 ELSE 0)
  <2>1. s = <<l[i]>> \o TakeRest(i, l)
    BY <1>1, RestFront
  <2>2. PICK t \in Seq(E) : t = TakeRest(i, l)
    BY <1>7
  <2>3. PICK x \in E : x = l[i]
    OBVIOUS
  <2> QED
    BY <2>1, <2>2, <2>3, TimesFront
<1>9. ASSUME NEW k \in Nat, k < l[i].key PROVE Times(k, s) = 0
  <2>1. \A y \in 1 .. Len(s) : s[y].key # k
    <3> SUFFICES ASSUME NEW y \in 1 .. Len(s) PROVE s[y].key # k
      OBVIOUS
    <3>1. l[i].key <= s[y].key /\ s[y].key \in Nat /\ l[i].key \in Nat
      BY <1>3, <1>6 DEF Keyed
    <3> QED
      BY <1>9, <3>1
  <2> QED
    BY <2>1, TimesType
<1>10. \A k : Times(k, TakeRest(i, l)) \in Nat
  BY <1>7, TimesType
<1> QED
  BY <1>1, <1>5, <1>6, <1>8, <1>9, <1>10

\* What is left of a list at its end.
LEMMA NoRest ==
  ASSUME NEW E, NEW l \in Seq(E)
  PROVE  TakeRest(Len(l), l) = <<>> /\ \A k : Times(k, <<>>) = 0
<1>1. TakeRest(Len(l), l) = <<>>
  BY DEF TakeRest
<1>2. ASSUME NEW k PROVE Times(k, <<>>) = 0
  <2>1. PICK s \in Seq(E) : s = <<>> /\ Len(s) = 0
    <3>1. <<>> \in Seq(E) /\ Len(<<>>) = 0
      OBVIOUS
    <3> QED
      BY <3>1
  <2>2. \A i \in 1 .. Len(s) : s[i].key # k
    BY <2>1
  <2>3. Times(k, s) = 0
    BY <2>2, TimesType
  <2> QED
    BY <2>1, <2>3
<1> QED
  BY <1>1, <1>2

\* How often a set operation leaves a key that its lists have m and n times.
Amount(m, n, equal, odd) ==
  (IF equal THEN IF m < n THEN m ELSE n ELSE 0)
    + (IF odd THEN IF m < n THEN n - m ELSE m - n ELSE 0)

\* The amounts of one step.
LEMMA AmountFacts ==
  ASSUME NEW m \in Nat, NEW n \in Nat, NEW equal, NEW odd
  PROVE  /\ Amount(m, n, equal, odd) \in Nat /\ Amount(m, n, equal, odd) = Amount(n, m, equal, odd)
         /\ Amount(m + 1, n + 1, equal, odd)
              = Amount(m, n, equal, odd) + (IF equal THEN 1 ELSE 0)
         /\ Amount(m + 1, 0, equal, odd) = Amount(m, 0, equal, odd) + (IF odd THEN 1 ELSE 0)
         /\ Amount(m, 0, equal, odd) = (IF odd THEN m ELSE 0)
  BY DEF Amount

\* s is what a set operation is to make of two lists.
Walked(E, r, t, equal, odd, s) ==
  /\ s \in Seq(E) /\ Ordered(s)
  /\ \A k \in Nat : Times(k, s) = Amount(Times(k, r), Times(k, t), equal, odd)

\* It does not matter which list is the first.
LEMMA WalkedSwap ==
  ASSUME NEW E, NEW r \in Seq(E), NEW t \in Seq(E), NEW equal, NEW odd, NEW s,
         Walked(E, r, t, equal, odd, s)
  PROVE  Walked(E, t, r, equal, odd, s)
<1>1. ASSUME NEW k \in Nat PROVE Times(k, s) = Amount(Times(k, t), Times(k, r), equal, odd)
  <2>1. PICK m \in Nat, n \in Nat : m = Times(k, r) /\ n = Times(k, t)
    BY TimesType
  <2>2. Times(k, s) = Amount(m, n, equal, odd)
    BY <2>1 DEF Walked
  <2>3. Amount(m, n, equal, odd) = Amount(n, m, equal, odd)
    BY AmountFacts
  <2> QED
    BY <2>1, <2>2, <2>3
<1> QED
  BY <1>1 DEF Walked

\* It holds no key smaller than those of the lists.
LEMMA WalkedBound ==
  ASSUME NEW E, Keyed(E), NEW r \in Seq(E), NEW t \in Seq(E), NEW equal, NEW odd, NEW s,
         Walked(E, r, t, equal, odd, s), NEW q \in Nat,
         \A y \in 1 .. Len(r) : q <= r[y].key, \A y \in 1 .. Len(t) : q <= t[y].key
  PROVE  \A y \in 1 .. Len(s) : q <= s[y].key
<1> SUFFICES ASSUME NEW y \in 1 .. Len(s) PROVE q <= s[y].key
  OBVIOUS
<1>1. s \in Seq(E)
  BY DEF Walked
<1>2. PICK k \in Nat : k = s[y].key
  BY <1>1 DEF Keyed
<1>3. PICK m \in Nat, n \in Nat : m = Times(k, r) /\ n = Times(k, t)
  BY TimesType
<1>4. Amount(m, n, equal, odd) # 0
  <2>1. Times(k, s) # 0
    BY <1>1, <1>2, TimesType
  <2> QED
    BY <1>3, <2>1 DEF Walked
<1>5. m # 0 \/ n # 0
  BY <1>4 DEF Amount
<1>6. (\E h \in 1 .. Len(r) : r[h].key = k) \/ (\E h \in 1 .. Len(t) : t[h].key = k)
  <2>1. m # 0 => \E h \in 1 .. Len(r) : r[h].key = k
    BY <1>3, TimesType
  <2>2. n # 0 => \E h \in 1 .. Len(t) : t[h].key = k
    BY <1>3, TimesType
  <2> QED
    BY <1>5, <2>1, <2>2
<1> QED
  BY <1>2, <1>6

\* When one of them is used up.
LEMMA WalkedEnd ==
  ASSUME NEW E, Keyed(E), NEW r \in Seq(E), Ordered(r), NEW t \in Seq(E), Len(t) = 0,
         NEW equal, NEW odd
  PROVE  Walked(E, r, t, equal, odd, IF odd THEN r ELSE <<>>)
<1>1. t = <<>>
  OBVIOUS
<1>2. \A k : Times(k, t) = 0
  BY <1>1, NoRest
<1>3. Ordered(t)
  <2>1. DOMAIN t = {}
    OBVIOUS
  <2> QED
    BY <2>1 DEF Ordered
<1>4. PICK s \in Seq(E) : s = IF odd THEN r ELSE t
  OBVIOUS
<1>5. ASSUME NEW k \in Nat PROVE Times(k, s) = Amount(Times(k, r), Times(k, t), equal, odd)
  <2>1. PICK m \in Nat : m = Times(k, r)
    BY TimesType
  <2>2. Amount(m, 0, equal, odd) = IF odd THEN m ELSE 0
    <3>1. 0 \in Nat
      OBVIOUS
    <3> QED
      BY <3>1, AmountFacts
  <2> QED
    BY <1>2, <1>4, <2>1, <2>2
<1>6. Ordered(s)
  BY <1>3, <1>4
<1> QED
  BY <1>1, <1>4, <1>5, <1>6 DEF Walked

\* When their heads are equal.
LEMMA WalkedEqual ==
  ASSUME NEW E, Keyed(E), NEW r \in Seq(E), NEW t \in Seq(E), NEW equal, NEW odd, NEW s,
         Walked(E, r, t, equal, odd, s), NEW x \in E, NEW z \in E, x.key = z.key,
         \A y \in 1 .. Len(r) : x.key <= r[y].key, \A y \in 1 .. Len(t) : x.key <= t[y].key
  PROVE  Walked(E, <<x>> \o r, <<z>> \o t, equal, odd, Keep(x, equal) \o s)
<1>1. s \in Seq(E) /\ Ordered(s)
  BY DEF Walked
<1>2. \A y \in 1 .. Len(s) : x.key <= s[y].key
  <2>1. PICK q \in Nat : q = x.key
    BY DEF Keyed
  <2>2. /\ \A y \in 1 .. Len(r) : q <= r[y].key
        /\ \A y \in 1 .. Len(t) : q <= t[y].key
    BY <2>1
  <2>3. \A y \in 1 .. Len(s) : q <= s[y].key
    BY <2>2, WalkedBound, SMTT(30)
  <2> QED
    BY <2>1, <2>3
<1>3. PICK u : u = Keep(x, equal) \o s
  OBVIOUS
<1>4. /\ u \in Seq(E) /\ Ordered(u)
      /\ \A k : Times(k, u) = Times(k, s) + (IF equal /\ x.key = k THEN 1 ELSE 0)
  BY <1>1, <1>2, <1>3, KeepFacts
<1>5. PICK v, w : v = <<x>> \o r /\ w = <<z>> \o t
  OBVIOUS
<1>6. ASSUME NEW k \in Nat PROVE Times(k, u) = Amount(Times(k, v), Times(k, w), equal, odd)
  <2>1. PICK m \in Nat, n \in Nat : m = Times(k, r) /\ n = Times(k, t)
    BY TimesType
  <2>2. /\ Times(k, v) = m + (IF x.key = k THEN 1 ELSE 0)
        /\ Times(k, w) = n + (IF x.key = k THEN 1 ELSE 0)
    BY <1>5, <2>1, TimesFront
  <2>3. Times(k, s) = Amount(m, n, equal, odd) /\ Amount(m, n, equal, odd) \in Nat
    BY <2>1, AmountFacts DEF Walked
  <2>4. Amount(m + 1, n + 1, equal, odd) = Amount(m, n, equal, odd) + (IF equal THEN 1 ELSE 0)
    BY DEF Amount
  <2>5. CASE x.key = k
    <3>1. Times(k, v) = m + 1 /\ Times(k, w) = n + 1
      BY <2>2, <2>5
    <3>2. Times(k, u) = Times(k, s) + (IF equal THEN 1 ELSE 0)
      BY <1>4, <2>5
    <3> QED
      BY <2>3, <2>4, <3>1, <3>2
  <2>6. CASE x.key # k
    <3>1. Times(k, v) = m /\ Times(k, w) = n
      BY <2>2, <2>6
    <3>2. Times(k, u) = Times(k, s)
      BY <1>4, <2>3, <2>6
    <3> QED
      BY <2>3, <3>1, <3>2
  <2> QED
    BY <2>5, <2>6
<1> QED
  BY <1>3, <1>4, <1>5, <1>6 DEF Walked

\* When the first one's head is smaller.
LEMMA WalkedLess ==
  ASSUME NEW E, Keyed(E), NEW r \in Seq(E), NEW t \in Seq(E), NEW equal, NEW odd, NEW s,
         Walked(E, r, t, equal, odd, s), NEW x \in E,
         \A y \in 1 .. Len(r) : x.key <= r[y].key, \A y \in 1 .. Len(t) : x.key < t[y].key
  PROVE  Walked(E, <<x>> \o r, t, equal, odd, Keep(x, odd) \o s)
<1>1. s \in Seq(E) /\ Ordered(s)
  BY DEF Walked
<1>2. PICK q \in Nat : q = x.key
  BY DEF Keyed
<1>3. \A y \in 1 .. Len(t) : t[y].key \in Nat /\ q < t[y].key
  BY <1>2 DEF Keyed
<1>4. \A y \in 1 .. Len(s) : x.key <= s[y].key
  <2>1. /\ \A y \in 1 .. Len(r) : q <= r[y].key
        /\ \A y \in 1 .. Len(t) : q <= t[y].key
    BY <1>2, <1>3
  <2>2. \A y \in 1 .. Len(s) : q <= s[y].key
    BY <2>1, WalkedBound, SMTT(30)
  <2> QED
    BY <1>2, <2>2
<1>5. PICK u : u = Keep(x, odd) \o s
  OBVIOUS
<1>6. /\ u \in Seq(E) /\ Ordered(u)
      /\ \A k : Times(k, u) = Times(k, s) + (IF odd /\ x.key = k THEN 1 ELSE 0)
  BY <1>1, <1>4, <1>5, KeepFacts
<1>7. PICK v : v = <<x>> \o r
  OBVIOUS
<1>8. ASSUME NEW k \in Nat PROVE Times(k, u) = Amount(Times(k, v), Times(k, t), equal, odd)
  <2>1. PICK m \in Nat, n \in Nat : m = Times(k, r) /\ n = Times(k, t)
    BY TimesType
  <2>2. Times(k, v) = m + (IF x.key = k THEN 1 ELSE 0)
    BY <1>7, <2>1, TimesFront
  <2>3. Times(k, s) = Amount(m, n, equal, odd) /\ Amount(m, n, equal, odd) \in Nat
    BY <2>1, AmountFacts DEF Walked
  <2>4. CASE x.key = k
    <3>1. n = 0
      <4>1. \A y \in 1 .. Len(t) : t[y].key # k
        BY <1>2, <1>3, <2>4
      <4> QED
        BY <2>1, <4>1, TimesType
    <3>2. Times(k, v) = m + 1 /\ Times(k, u) = Times(k, s) + (IF odd THEN 1 ELSE 0)
      BY <1>6, <2>2, <2>4
    <3>3. Amount(m + 1, 0, equal, odd) = Amount(m, 0, equal, odd) + (IF odd THEN 1 ELSE 0)
      BY DEF Amount
    <3> QED
      BY <2>1, <2>3, <3>1, <3>2, <3>3
  <2>5. CASE x.key # k
    <3>1. Times(k, v) = m /\ Times(k, u) = Times(k, s)
      BY <1>6, <2>2, <2>3, <2>5
    <3> QED
      BY <2>1, <2>3, <3>1
  <2> QED
    BY <2>4, <2>5
<1> QED
  BY <1>5, <1>6, <1>7, <1>8 DEF Walked

\* What is left of an ordered list is ordered, and empty at its end.
LEMMA RestIsOrdered ==
  ASSUME NEW E, Keyed(E), NEW l \in Seq(E), Ordered(l), NEW i \in 1 .. Len(l) + 1
  PROVE  Ordered(TakeRest(i - 1, l))
<1>1. CASE i = Len(l) + 1
  <2>1. i - 1 = Len(l)
    BY <1>1
  <2>2. TakeRest(i - 1, l) = <<>>
    BY <2>1, NoRest
  <2>3. DOMAIN <<>> = {}
    OBVIOUS
  <2> QED
    BY <2>2, <2>3 DEF Ordered
<1>2. CASE i # Len(l) + 1
  <2>1. i \in 1 .. Len(l)
    BY <1>2
  <2> QED
    BY <2>1, OrderedRest
<1> QED
  BY <1>1, <1>2

\* The head of what is left of an ordered list, and what comes after it.
LEMMA OrderedHead ==
  ASSUME NEW E, Keyed(E), NEW l \in Seq(E), Ordered(l), NEW i \in 1 .. Len(l)
  PROVE  \E x \in E, r \in Seq(E) :
           /\ x = l[i] /\ r = TakeRest(i, l) /\ TakeRest(i - 1, l) = <<x>> \o r
           /\ \A y \in 1 .. Len(r) : x.key <= r[y].key
           /\ \A y \in 1 .. Len(TakeRest(i - 1, l)) : x.key <= TakeRest(i - 1, l)[y].key
<1>1. PICK x \in E : x = l[i]
  OBVIOUS
<1>2. PICK s \in Seq(E) : s = TakeRest(i - 1, l)
  BY TakeRestFacts
<1>3. PICK r \in Seq(E) : r = TakeRest(i, l)
  <2>1. PICK h \in 1 .. Len(l) + 1 : h - 1 = i
    <3>1. i + 1 \in 1 .. Len(l) + 1 /\ i + 1 - 1 = i
      OBVIOUS
    <3> QED
      BY <3>1
  <2>2. TakeRest(h - 1, l) \in Seq(E)
    BY TakeRestFacts
  <2> QED
    BY <2>1, <2>2
<1>4. s = <<x>> \o r
  BY <1>1, <1>2, <1>3, RestFront
<1>5. \A y \in 1 .. Len(s) : x.key <= s[y].key
  <2>1. \A y \in 1 .. Len(TakeRest(i - 1, l)) : l[i].key <= TakeRest(i - 1, l)[y].key
    BY OrderedRest
  <2> QED
    BY <1>1, <1>2, <2>1
<1>6. ASSUME NEW y \in 1 .. Len(r) PROVE x.key <= r[y].key
  <2>1. y + 1 \in 1 .. Len(s) /\ s[y + 1] = r[y]
    BY <1>4
  <2> QED
    BY <1>5, <2>1
<1> QED
  BY <1>1, <1>2, <1>3, <1>4, <1>5, <1>6

\* Walking two ordered lists gives an ordered list, with each key as often as
\* the operation says.
LEMMA WalkFacts ==
  ASSUME NEW E, Keyed(E), NEW a \in Seq(E), NEW b \in Seq(E), Ordered(a), Ordered(b),
         NEW equal, NEW odd
  PROVE  Walked(E, a, b, equal, odd, Walk(a, b, equal, odd))
<1>1. PICK f : Walks(a, b, equal, odd, f)
  BY WalkEquation
<1> DEFINE T == {p \in (1 .. Len(a) + 1) \X (1 .. Len(b) + 1) :
                   Walked(E, TakeRest(p[1] - 1, a), TakeRest(p[2] - 1, b), equal, odd, f[p])}
<1>2. ASSUME NEW i \in 1 .. Len(a) + 1, NEW j \in 1 .. Len(b) + 1,
             \A k \in 1 .. Len(a) + 1, h \in 1 .. Len(b) + 1 : k + h > i + j => <<k, h>> \in T
      PROVE  Walked(E, TakeRest(i - 1, a), TakeRest(j - 1, b), equal, odd, f[<<i, j>>])
  <2>1. f[<<i, j>>] = WalkStep(a, b, equal, odd, f, i, j)
    BY <1>1 DEF Walks
  <2>2. PICK r \in Seq(E), t \in Seq(E) : /\ r = TakeRest(i - 1, a) /\ Len(r) = Len(a) - i + 1
                                         /\ t = TakeRest(j - 1, b) /\ Len(t) = Len(b) - j + 1
    BY TakeRestFacts
  <2>3. Ordered(r) /\ Ordered(t)
    BY <2>2, RestIsOrdered
  <2>4. i \in Nat /\ j \in Nat /\ Len(a) \in Nat /\ Len(b) \in Nat
    OBVIOUS
  <2>5. CASE i > Len(a)
    <3>1. f[<<i, j>>] = IF odd THEN t ELSE <<>>
      BY <2>1, <2>2, <2>5 DEF WalkStep
    <3>2. Len(r) = 0
      BY <2>2, <2>5
    <3>3. Walked(E, t, r, equal, odd, f[<<i, j>>])
      BY <2>3, <3>1, <3>2, WalkedEnd
    <3>4. Walked(E, r, t, equal, odd, f[<<i, j>>])
      BY <3>3, WalkedSwap
    <3> QED
      BY <2>2, <3>4
  <2>6. CASE ~(i > Len(a)) /\ j > Len(b)
    <3>1. f[<<i, j>>] = IF odd THEN r ELSE <<>>
      BY <2>1, <2>2, <2>6 DEF WalkStep
    <3>2. Len(t) = 0
      BY <2>2, <2>6
    <3>3. Walked(E, r, t, equal, odd, f[<<i, j>>])
      BY <2>3, <3>1, <3>2, WalkedEnd
    <3> QED
      BY <2>2, <3>3
  <2>7. CASE ~(i > Len(a)) /\ ~(j > Len(b))
    <3>1. i \in 1 .. Len(a) /\ j \in 1 .. Len(b)
      BY <2>4, <2>7
    <3>2. PICK x \in E, u \in Seq(E) :
            /\ x = a[i] /\ u = TakeRest(i, a) /\ r = <<x>> \o u
            /\ \A y \in 1 .. Len(u) : x.key <= u[y].key
            /\ \A y \in 1 .. Len(r) : x.key <= r[y].key
      <4>1. \E x \in E, u \in Seq(E) :
              /\ x = a[i] /\ u = TakeRest(i, a) /\ TakeRest(i - 1, a) = <<x>> \o u
              /\ \A y \in 1 .. Len(u) : x.key <= u[y].key
              /\ \A y \in 1 .. Len(TakeRest(i - 1, a)) : x.key <= TakeRest(i - 1, a)[y].key
        BY <3>1, OrderedHead
      <4> QED
        BY <2>2, <4>1
    <3>3. PICK z \in E, v \in Seq(E) :
            /\ z = b[j] /\ v = TakeRest(j, b) /\ t = <<z>> \o v
            /\ \A y \in 1 .. Len(v) : z.key <= v[y].key
            /\ \A y \in 1 .. Len(t) : z.key <= t[y].key
      <4>1. \E z \in E, v \in Seq(E) :
              /\ z = b[j] /\ v = TakeRest(j, b) /\ TakeRest(j - 1, b) = <<z>> \o v
              /\ \A y \in 1 .. Len(v) : z.key <= v[y].key
              /\ \A y \in 1 .. Len(TakeRest(j - 1, b)) : z.key <= TakeRest(j - 1, b)[y].key
        BY <3>1, OrderedHead
      <4> QED
        BY <2>2, <4>1
    <3>4. x.key \in Nat /\ z.key \in Nat
      BY DEF Keyed
    <3>5. PICK k \in 1 .. Len(a) + 1, h \in 1 .. Len(b) + 1 :
            k = i + 1 /\ h = j + 1 /\ k - 1 = i /\ h - 1 = j
      BY <3>1
    <3>6. /\ Walked(E, u, v, equal, odd, f[<<k, h>>])
          /\ Walked(E, u, t, equal, odd, f[<<k, j>>])
          /\ Walked(E, r, v, equal, odd, f[<<i, h>>])
      <4>1. k + h > i + j /\ k + j > i + j /\ i + h > i + j
        BY <2>4, <3>5
      <4>2. <<k, h>> \in T /\ <<k, j>> \in T /\ <<i, h>> \in T
        BY <1>2, <4>1
      <4>3. /\ Walked(E, TakeRest(k - 1, a), TakeRest(h - 1, b), equal, odd, f[<<k, h>>])
            /\ Walked(E, TakeRest(k - 1, a), TakeRest(j - 1, b), equal, odd, f[<<k, j>>])
            /\ Walked(E, TakeRest(i - 1, a), TakeRest(h - 1, b), equal, odd, f[<<i, h>>])
        BY <4>2
      <4> QED
        BY <2>2, <3>2, <3>3, <3>5, <4>3
    <3>7. CASE Eq(x, z)
      <4>1. x.key = z.key
        BY <3>4, <3>7 DEF Eq, Less
      <4>2. f[<<i, j>>] = Keep(x, equal) \o f[<<k, h>>]
        BY <2>1, <2>7, <3>2, <3>3, <3>5, <3>7 DEF WalkStep
      <4>3. \A y \in 1 .. Len(v) : x.key <= v[y].key
        BY <3>3, <4>1
      <4>4. Walked(E, <<x>> \o u, <<z>> \o v, equal, odd, Keep(x, equal) \o f[<<k, h>>])
        BY <3>2, <3>6, <4>1, <4>3, WalkedEqual
      <4> QED
        BY <2>2, <3>2, <3>3, <4>2, <4>4
    <3>8. CASE ~Eq(x, z) /\ Less(x, z)
      <4>1. f[<<i, j>>] = Keep(x, odd) \o f[<<k, j>>]
        BY <2>1, <2>7, <3>2, <3>3, <3>5, <3>8 DEF WalkStep
      <4>2. ASSUME NEW y \in 1 .. Len(t) PROVE x.key < t[y].key
        <5>1. t[y] \in E /\ z.key <= t[y].key
          <6>1. t \in Seq(E)
            BY <3>3
          <6>2. t[y] \in E
            BY <6>1
          <6>3. z.key <= t[y].key
            BY <3>3, Zenon
          <6> QED
            BY <6>2, <6>3
        <5>2. t[y].key \in Nat /\ x.key < z.key
          BY <3>8, <5>1 DEF Keyed, Less
        <5>3. PICK p \in Nat, q \in Nat, n \in Nat : p = x.key /\ q = z.key /\ n = t[y].key
          BY <3>4, <5>2
        <5>4. p < q /\ q <= n
          BY <5>1, <5>2, <5>3, Zenon
        <5>5. p < n
          BY <5>4
        <5> QED
          BY <5>3, <5>5, Zenon
      <4>3. Walked(E, <<x>> \o u, t, equal, odd, Keep(x, odd) \o f[<<k, j>>])
        BY <3>2, <3>6, <4>2, WalkedLess
      <4> QED
        BY <2>2, <3>2, <4>1, <4>3
    <3>9. CASE ~Eq(x, z) /\ ~Less(x, z)
      <4>1. f[<<i, j>>] = Keep(z, odd) \o f[<<i, h>>]
        BY <2>1, <2>7, <3>2, <3>3, <3>5, <3>9 DEF WalkStep
      <4>2. ASSUME NEW y \in 1 .. Len(r) PROVE z.key < r[y].key
        <5>1. r[y] \in E /\ x.key <= r[y].key
          <6>1. r \in Seq(E)
            BY <3>2
          <6>2. r[y] \in E
            BY <6>1
          <6>3. x.key <= r[y].key
            BY <3>2, Zenon
          <6> QED
            BY <6>2, <6>3
        <5>2. r[y].key \in Nat /\ z.key < x.key
          BY <3>9, <5>1 DEF Keyed, Less, Eq
        <5>3. PICK p \in Nat, q \in Nat, n \in Nat : p = z.key /\ q = x.key /\ n = r[y].key
          BY <3>4, <5>2
        <5>4. p < q /\ q <= n
          BY <5>1, <5>2, <5>3, Zenon
        <5>5. p < n
          BY <5>4
        <5> QED
          BY <5>3, <5>5, Zenon
      <4>3. Walked(E, v, r, equal, odd, f[<<i, h>>])
        BY <3>6, WalkedSwap
      <4>4. Walked(E, <<z>> \o v, r, equal, odd, Keep(z, odd) \o f[<<i, h>>])
        BY <3>3, <4>2, <4>3, WalkedLess
      <4>5. Walked(E, t, r, equal, odd, f[<<i, j>>])
        BY <3>3, <4>1, <4>4
      <4>6. Walked(E, r, t, equal, odd, f[<<i, j>>])
        BY <4>5, WalkedSwap
      <4> QED
        BY <2>2, <4>6
    <3> QED
      BY <3>7, <3>8, <3>9
  <2> QED
    BY <2>5, <2>6, <2>7
<1>3. \A i \in 1 .. Len(a) + 1, j \in 1 .. Len(b) + 1 :
        (\A k \in 1 .. Len(a) + 1, h \in 1 .. Len(b) + 1 : k + h > i + j => <<k, h>> \in T)
          => <<i, j>> \in T
  BY <1>2
<1>4. \A i \in 1 .. Len(a) + 1, j \in 1 .. Len(b) + 1 : <<i, j>> \in T
  <2>1. Len(a) \in Nat /\ Len(b) \in Nat
    OBVIOUS
  <2> HIDE DEF T
  <2> QED
    BY <1>3, <2>1, HeadsInduction
<1>5. <<1, 1>> \in T
  <2>1. 1 \in 1 .. Len(a) + 1 /\ 1 \in 1 .. Len(b) + 1
    OBVIOUS
  <2> HIDE DEF T
  <2> QED
    BY <1>4, <2>1
<1>6. Walked(E, TakeRest(1 - 1, a), TakeRest(1 - 1, b), equal, odd, f[<<1, 1>>])
  BY <1>5
<1>7. TakeRest(1 - 1, a) = a /\ TakeRest(1 - 1, b) = b
  BY DEF TakeRest
<1> QED
  BY <1>1, <1>6, <1>7 DEF Walks

\* A sorted list has the elements of the list, in the order of their keys.
LEMMA SortOrders ==
  ASSUME NEW E, Keyed(E), NEW l \in Seq(E)
  PROVE  /\ SortList(l) \in Seq(E) /\ Len(SortList(l)) = Len(l) /\ Ordered(SortList(l))
         /\ Range(SortList(l)) = Range(l)
<1>1. PICK c \in Seq(1 .. Len(l)) : /\ SortList(l) = Listed(l, c) /\ Arranged(l, c)
                                    /\ Len(c) = Len(l) /\ Range(c) = 1 .. 1 + Len(l) - 1
  BY SortArranges DEF SortedAt
<1>2. PICK s \in Seq(E) : /\ s = SortList(l) /\ Len(s) = Len(l)
                          /\ \A k \in 1 .. Len(l) : s[k] = l[c[k]]
  <2>1. /\ Listed(l, c) \in Seq(E) /\ Len(Listed(l, c)) = Len(c)
        /\ \A k \in 1 .. Len(c) : Listed(l, c)[k] = l[c[k]]
    BY ListedFacts
  <2> QED
    BY <1>1, <2>1
<1>3. DOMAIN s = 1 .. Len(l) /\ DOMAIN c = 1 .. Len(l) /\ DOMAIN l = 1 .. Len(l)
  BY <1>1, <1>2
<1>4. 1 .. 1 + Len(l) - 1 = 1 .. Len(l)
  OBVIOUS
<1>5. Range(s) = Range(l)
  <2>1. ASSUME NEW k \in 1 .. Len(l) PROVE s[k] \in Range(l)
    <3>1. c[k] \in 1 .. Len(l) /\ s[k] = l[c[k]]
      BY <1>1, <1>2
    <3> QED
      BY <1>3, <3>1 DEF Range
  <2>2. ASSUME NEW i \in 1 .. Len(l) PROVE l[i] \in Range(s)
    <3>1. PICK k \in 1 .. Len(l) : c[k] = i
      BY <1>1, <1>3, <1>4 DEF Range
    <3> QED
      BY <1>2, <1>3, <3>1 DEF Range
  <2> QED
    BY <1>3, <2>1, <2>2 DEF Range
<1>6. ASSUME NEW i \in 1 .. Len(l), NEW j \in 1 .. Len(l), i < j PROVE ~Less(s[j], s[i])
  <2>1. Before(l, c[i], c[j])
    BY <1>1, <1>6 DEF Arranged
  <2>2. c[i] \in 1 .. Len(l) /\ c[j] \in 1 .. Len(l) /\ s[i] = l[c[i]] /\ s[j] = l[c[j]]
    BY <1>1, <1>2, SMTT(30)
  <2>3. s[i].key \in Nat /\ s[j].key \in Nat
    BY <2>2 DEF Keyed
  <2> QED
    BY <2>1, <2>2, <2>3, SMTT(30) DEF Before, Less
<1>7. Ordered(s)
  BY <1>3, <1>6 DEF Ordered
<1> QED
  BY <1>2, <1>5, <1>7

\* The larger and the smaller of two numbers.
LEMMA MaxMin ==
  ASSUME NEW m \in Nat, NEW n \in Nat
  PROVE  /\ Max({m, n}) = IF m < n THEN n ELSE m
         /\ Min({m, n}) = IF m < n THEN m ELSE n
<1>1. PICK k \in Nat : k = m + n
  OBVIOUS
<1>2. {m, n} \in SUBSET (0 .. k) /\ {m, n} \in SUBSET Nat /\ {m, n} # {}
  BY <1>1
<1>3. Max({m, n}) \in {m, n} /\ \A y \in {m, n} : y <= Max({m, n})
  BY <1>2, MaxFacts
<1>4. Min({m, n}) \in {m, n} /\ \A y \in {m, n} : Min({m, n}) <= y
  BY <1>2, MinFacts
<1>5. Max({m, n}) = IF m < n THEN n ELSE m
  BY <1>3
<1>6. Min({m, n}) = IF m < n THEN m ELSE n
  BY <1>4
<1> QED
  BY <1>5, <1>6

\* The members of one pattern are sorted into an ordered list.
LEMMA MembersType ==
  ASSUME NEW keys \in Seq(Keys)
  PROVE  /\ Members(keys) \in Seq([key : Keys]) /\ Len(Members(keys)) = Len(keys)
         /\ \A i \in 1 .. Len(keys) : Members(keys)[i].key = keys[i]
<1>1. PICK n \in Nat : n = Len(keys)
  OBVIOUS
<1>2. PICK s : s = [i \in 1 .. n |-> [key |-> keys[i]]]
  OBVIOUS
<1>3. \A i \in 1 .. n : [key |-> keys[i]] \in [key : Keys]
  BY <1>1
<1>4. s \in Seq([key : Keys]) /\ Len(s) = n /\ \A i \in 1 .. n : s[i].key = keys[i]
  BY <1>2, <1>3
<1>5. Members(keys) = s
  BY <1>1, <1>2 DEF Members
<1> QED
  BY <1>1, <1>4, <1>5

\* union_, intersection and difference of the sorted parameters of two patterns
\* are sorted, and hold each key as often as they should, however often the
\* patterns repeat it.
THEOREM SetsKeepCount == ObjectsSpec => []SetOperations
<1>1. ChainOK => SetOperations
  <2> DEFINE E == [key : Keys]
             a == SortList(Members(chain[1]))
             b == SortList(Members(chain[2]))
  <2> SUFFICES ASSUME ChainOK, Len(chain) = 2
               PROVE  /\ \A l \in {Union(a, b), Intersection(a, b), Difference(a, b)} : Ordered(l)
                      /\ \A k \in Keys :
                           /\ Times(k, Union(a, b)) = Max({Times(k, a), Times(k, b)})
                           /\ Times(k, Intersection(a, b)) = Min({Times(k, a), Times(k, b)})
                           /\ Times(k, Difference(a, b)) = Max({Times(k, a), Times(k, b)})
                                                             - Min({Times(k, a), Times(k, b)})
                           /\ Times(k, a) <= 1 /\ Times(k, b) <= 1 =>
                                (Times(k, Difference(Union(a, b), b)) > 0
                                   <=> Times(k, a) = 1 /\ Times(k, b) = 0)
    BY Zenon DEF SetOperations
  <2>1. Keyed(E)
    BY KeysAreOrdered
  <2>2. chain[1] \in Seq(Keys) /\ chain[2] \in Seq(Keys)
    BY DEF ChainOK
  <2>3. Members(chain[1]) \in Seq(E) /\ Members(chain[2]) \in Seq(E)
    BY <2>2, MembersType
  <2> HIDE DEF E
  <2>4. a \in Seq(E) /\ b \in Seq(E) /\ Ordered(a) /\ Ordered(b)
    BY <2>1, <2>3, SortOrders
  <2> HIDE DEF a, b
  <2>5. /\ Walked(E, a, b, TRUE, TRUE, Union(a, b))
        /\ Walked(E, a, b, TRUE, FALSE, Intersection(a, b))
        /\ Walked(E, a, b, FALSE, TRUE, Difference(a, b))
    BY <2>1, <2>4, WalkFacts DEF Union, Intersection, Difference
  <2>6. PICK u \in Seq(E) : u = Union(a, b) /\ Ordered(u)
    BY <2>5 DEF Walked
  <2>7. Walked(E, u, b, FALSE, TRUE, Difference(u, b))
    BY <2>1, <2>4, <2>6, WalkFacts DEF Difference
  <2>8. \A l \in {Union(a, b), Intersection(a, b), Difference(a, b)} : Ordered(l)
    BY <2>5 DEF Walked
  <2>9. ASSUME NEW k \in Keys
        PROVE  /\ Times(k, Union(a, b)) = Max({Times(k, a), Times(k, b)})
               /\ Times(k, Intersection(a, b)) = Min({Times(k, a), Times(k, b)})
               /\ Times(k, Difference(a, b)) = Max({Times(k, a), Times(k, b)})
                                                 - Min({Times(k, a), Times(k, b)})
               /\ Times(k, a) <= 1 /\ Times(k, b) <= 1 =>
                    (Times(k, Difference(Union(a, b), b)) > 0
                       <=> Times(k, a) = 1 /\ Times(k, b) = 0)
    <3>1. k \in Nat
      BY ParamsAssumption
    <3>2. PICK m \in Nat, n \in Nat : m = Times(k, a) /\ n = Times(k, b)
      BY <2>4, TimesType
    <3>3. /\ Times(k, Union(a, b)) = Amount(m, n, TRUE, TRUE)
          /\ Times(k, Intersection(a, b)) = Amount(m, n, TRUE, FALSE)
          /\ Times(k, Difference(a, b)) = Amount(m, n, FALSE, TRUE)
          /\ Times(k, Difference(u, b)) = Amount(Times(k, u), n, FALSE, TRUE)
      BY <2>5, <2>7, <3>1, <3>2 DEF Walked
    <3>4. /\ Max({m, n}) = IF m < n THEN n ELSE m
          /\ Min({m, n}) = IF m < n THEN m ELSE n
      BY MaxMin
    <3>5. /\ Amount(m, n, TRUE, TRUE) = IF m < n THEN n ELSE m
          /\ Amount(m, n, TRUE, FALSE) = IF m < n THEN m ELSE n
          /\ Amount(m, n, FALSE, TRUE) = IF m < n THEN n - m ELSE m - n
      BY DEF Amount
    <3>6. PICK q \in Nat : q = (IF m < n THEN n ELSE m) /\ Times(k, u) = q
      BY <2>6, <3>3, <3>5
    <3>7. Times(k, Difference(u, b)) = q - n
      BY <3>3, <3>6 DEF Amount
    <3>8. m <= 1 /\ n <= 1 => (q - n > 0 <=> m = 1 /\ n = 0)
      BY <3>6
    <3>9. Times(k, Difference(Union(a, b), b)) = q - n
      BY <2>6, <3>7
    <3>10. Times(k, Difference(a, b)) = Max({m, n}) - Min({m, n})
      BY <3>3, <3>4, <3>5
    <3> QED
      BY <3>2, <3>3, <3>4, <3>5, <3>8, <3>9, <3>10
  <2> QED
    BY <2>8, <2>9
<1> QED
  BY <1>1, ChainType, PTL

-----------------------------------------------------------------------------
(* set<key> of one member after another.                                   *)

\* The first place of a key in a list, or none.
LEMMA IndexOfFacts ==
  ASSUME NEW E, NEW l \in Seq(E), NEW k
  PROVE  /\ k \in KeysOf(l) <=> \E i \in 1 .. Len(l) : l[i].key = k
         /\ k \notin KeysOf(l) => IndexOf(k, l) = 0
         /\ k \in KeysOf(l) => /\ IndexOf(k, l) \in 1 .. Len(l) /\ l[IndexOf(k, l)].key = k
                               /\ \A i \in 1 .. Len(l) : l[i].key = k => IndexOf(k, l) <= i
<1>1. DOMAIN l = 1 .. Len(l)
  OBVIOUS
<1>2. k \in KeysOf(l) <=> \E i \in 1 .. Len(l) : l[i].key = k
  BY <1>1 DEF KeysOf, Range
<1>3. PICK A : A = {i \in 1 .. Len(l) : l[i].key = k}
  OBVIOUS
<1>4. IndexOf(k, l) = IF A = {} THEN 0 ELSE Min(A)
  BY <1>1, <1>3 DEF IndexOf
<1>5. A # {} => Min(A) \in A /\ \A y \in A : Min(A) <= y
  <2>1. A \in SUBSET Nat
    BY <1>3
  <2> QED
    BY <2>1, MinFacts
<1> QED
  BY <1>2, <1>3, <1>4, <1>5

\* g has what the members set so far make of the object.
SetsEach(t, v, l, x, g) ==
  /\ SetEach(t, v, l, x) = g[1 .. Len(l)] /\ g[1 .. 0] = v
  /\ \A k \in 1 .. Len(l) : g[1 .. k] = SetIn(t, g[1 .. k - 1], l[k].key, x[l[k].key])

\* There is such a g.
LEMMA SetEachEquation ==
  ASSUME NEW E, NEW W, NEW t \in Seq(E), NEW v \in [DOMAIN t -> W], NEW l \in Seq(E), NEW x,
         \A k \in KeysOf(l) : x[k] \in W
  PROVE  \E g : SetsEach(t, v, l, x, g)
<1> DEFINE D == SUBSET (DOMAIN l)
           V == [DOMAIN t -> W]
           step(f, s) == IF s = {} THEN v
                         ELSE SetIn(t, f[s \ {Max(s)}], l[Max(s)].key, x[l[Max(s)].key])
           H == [p \in [D -> V] \X D |-> step(p[1], p[2])]
           measure == [s \in D |-> IF s = {} THEN 0 ELSE Max(s)]
           bound == Len(l) + 1
<1>1. DOMAIN l = 1 .. Len(l) /\ Len(l) \in Nat
  OBVIOUS
<1>2. ASSUME NEW s \in D, s # {}
      PROVE  Max(s) \in s /\ Max(s) \in 1 .. Len(l) /\ \A y \in s : y <= Max(s)
  <2>1. s \in SUBSET (0 .. Len(l))
    BY <1>1
  <2>2. Max(s) \in s /\ \A y \in s : y <= Max(s)
    BY <1>1, <1>2, <2>1, MaxFacts
  <2> QED
    BY <1>1, <2>2
<1>3. V # {}
  OBVIOUS
<1>4. measure \in [D -> Nat] /\ bound \in Nat /\ \A s \in D : measure[s] < bound
  <2>1. ASSUME NEW s \in D PROVE measure[s] \in 0 .. Len(l)
    <3>1. s = {} => measure[s] = 0
      OBVIOUS
    <3>2. s # {} => measure[s] = Max(s)
      OBVIOUS
    <3> HIDE DEF measure, D
    <3> QED
      BY <1>1, <1>2, <3>1, <3>2
  <2>2. measure = [s \in D |-> measure[s]]
    OBVIOUS
  <2> HIDE DEF measure, D
  <2>3. measure \in [D -> Nat]
    BY <1>1, <2>1, <2>2
  <2>4. \A s \in D : measure[s] < bound
    BY <1>1, <2>1
  <2> QED
    BY <1>1, <2>3, <2>4
<1>5. ASSUME NEW f \in [D -> V], NEW s \in D PROVE step(f, s) \in V
  <2>1. CASE s = {}
    BY <2>1
  <2>2. CASE s # {}
    <3>1. PICK m \in 1 .. Len(l) : m = Max(s)
      BY <1>2, <2>2
    <3>2. l[m].key \in KeysOf(l)
      BY <1>1, <3>1 DEF KeysOf, Range
    <3>3. PICK w \in V : w = f[s \ {m}]
      <4>1. s \ {m} \in D
        OBVIOUS
      <4> HIDE DEF D, V
      <4> QED
        BY <4>1
    <3>4. PICK q \in W : q = x[l[m].key]
      BY <3>2
    <3>5. SetIn(t, w, l[m].key, q) \in V
      BY DEF SetIn
    <3> QED
      BY <2>2, <3>1, <3>3, <3>4, <3>5
  <2> QED
    BY <2>1, <2>2
<1>6. H \in [[D -> V] \X D -> V]
  <2> HIDE DEF step, D, V
  <2> QED
    BY <1>5
<1>7. ASSUME NEW g \in [D -> V], NEW h \in [D -> V], NEW s \in D,
             \A y \in D : measure[y] < measure[s] => g[y] = h[y]
      PROVE  H[<<g, s>>] = H[<<h, s>>]
  <2>1. ASSUME s # {} PROVE g[s \ {Max(s)}] = h[s \ {Max(s)}]
    <3>1. PICK m \in 1 .. Len(l) : m = Max(s) /\ m \in s /\ \A y \in s : y <= m
      BY <1>2, <2>1
    <3>2. PICK u \in D : u = s \ {m}
      OBVIOUS
    <3>3. measure[s] = m
      BY <2>1, <3>1
    <3>4. measure[u] < m
      <4>1. CASE u = {}
        BY <4>1
      <4>2. CASE u # {}
        <5>1. measure[u] = Max(u) /\ Max(u) \in u /\ Max(u) \in 1 .. Len(l)
          BY <1>2, <4>2
        <5> QED
          BY <3>1, <3>2, <5>1
      <4> QED
        BY <4>1, <4>2
    <3>5. g[u] = h[u]
      BY <1>7, <3>3, <3>4
    <3> QED
      BY <3>1, <3>2, <3>5
  <2>2. step(g, s) = step(h, s)
    BY <2>1
  <2>3. H[<<g, s>>] = step(g, s) /\ H[<<h, s>>] = step(h, s)
    <3> HIDE DEF step, D, V
    <3> QED
      OBVIOUS
  <2> QED
    BY <2>2, <2>3
<1>8. HasFunction(D, V, H)
  <2> HIDE DEF D, V, H, measure, bound
  <2>1. IsRecursion(D, V, measure, bound, H)
    BY <1>3, <1>4, <1>6, <1>7 DEF IsRecursion
  <2> QED
    BY <2>1, RecursiveFunction
<1>9. \E f : f = [s \in D |-> step(f, s)]
  <2>1. PICK f \in [D -> V] : \A s \in D : f[s] = H[<<f, s>>]
    BY <1>8 DEF HasFunction
  <2> HIDE DEF step, D, V
  <2>2. \A s \in D : f[s] = step(f, s)
    BY <2>1
  <2>3. f = [s \in D |-> step(f, s)]
    BY <2>1, <2>2
  <2> QED
    BY <2>3
<1> DEFINE iter == CHOOSE f : f = [s \in D |-> step(f, s)]
<1>10. iter = [s \in D |-> step(iter, s)]
  <2> HIDE DEF step, D
  <2> QED
    BY <1>9
<1>11. SetEach(t, v, l, x) = iter[DOMAIN l]
  BY DEF SetEach, FoldLeft, MapThenFoldSet
<1> HIDE DEF iter
<1>12. \A s \in D : iter[s] = step(iter, s)
  <2> HIDE DEF step, D
  <2> QED
    BY <1>10
<1>13. iter[1 .. 0] = v
  <2>1. 1 .. 0 = {} /\ {} \in D
    OBVIOUS
  <2> QED
    BY <1>12, <2>1
<1>14. ASSUME NEW k \in 1 .. Len(l)
       PROVE  iter[1 .. k] = SetIn(t, iter[1 .. k - 1], l[k].key, x[l[k].key])
  <2>1. PICK s \in D : s = 1 .. k /\ s # {} /\ k \in s
    <3>1. 1 .. k \in D
      BY <1>1
    <3>2. k \in 1 .. k
      OBVIOUS
    <3> QED
      BY <3>1, <3>2
  <2>2. Max(s) = k
    <3>1. PICK m \in 1 .. Len(l) : m = Max(s) /\ m \in s /\ \A y \in s : y <= m
      BY <1>2, <2>1
    <3>2. m <= k /\ k <= m
      BY <2>1, <3>1
    <3> QED
      BY <3>1, <3>2
  <2>3. s \ {k} = 1 .. k - 1
    BY <2>1
  <2> QED
    BY <1>12, <2>1, <2>2, <2>3
<1> QED
  BY <1>1, <1>11, <1>13, <1>14 DEF SetsEach

\* r has in the first place of each key of l what x has for it, and all else as
\* it was.
SetTo(W, t, v, l, x, r) ==
  /\ r \in [DOMAIN t -> W]
  /\ \A i \in DOMAIN t : r[i] = IF i = IndexOf(t[i].key, t) /\ t[i].key \in KeysOf(l)
                               THEN x[t[i].key] ELSE v[i]

\* set<key> of each member of l does that.
LEMMA SetEachFacts ==
  ASSUME NEW E, NEW W, NEW t \in Seq(E), NEW v \in [DOMAIN t -> W], NEW l \in Seq(E), NEW x,
         \A k \in KeysOf(l) : x[k] \in W
  PROVE  SetTo(W, t, v, l, x, SetEach(t, v, l, x))
<1>1. PICK g : SetsEach(t, v, l, x, g)
  BY SetEachEquation
<1>2. DOMAIN t = 1 .. Len(t) /\ DOMAIN l = 1 .. Len(l) /\ Len(l) \in Nat
  OBVIOUS
<1> DEFINE Done(k, i) == i = IndexOf(t[i].key, t) /\ \E h \in 1 .. k : l[h].key = t[i].key
           T == {k \in Nat : k <= Len(l) =>
                   /\ g[1 .. k] \in [DOMAIN t -> W]
                   /\ \A i \in DOMAIN t : g[1 .. k][i] = IF Done(k, i) THEN x[t[i].key] ELSE v[i]}
<1>3. ASSUME NEW k \in Nat, \A m \in 0 .. k - 1 : m \in T PROVE k \in T
  <2> SUFFICES ASSUME k <= Len(l)
               PROVE  /\ g[1 .. k] \in [DOMAIN t -> W]
                      /\ \A i \in DOMAIN t :
                           g[1 .. k][i] = IF Done(k, i) THEN x[t[i].key] ELSE v[i]
    OBVIOUS
  <2>1. CASE k = 0
    <3>1. \A i \in DOMAIN t : ~Done(0, i)
      OBVIOUS
    <3>2. g[1 .. 0] = v
      BY <1>1 DEF SetsEach
    <3> QED
      BY <2>1, <3>1, <3>2
  <2>2. CASE k # 0
    <3>1. PICK m \in 0 .. k - 1 : m = k - 1 /\ m \in Nat /\ m <= Len(l)
      BY <1>2, <2>2
    <3>2. PICK w \in [DOMAIN t -> W] : /\ w = g[1 .. m]
            /\ \A i \in DOMAIN t : w[i] = IF Done(m, i) THEN x[t[i].key] ELSE v[i]
      <4>1. m \in T
        BY <1>3
      <4> QED
        BY <3>1, <4>1
    <3>3. k \in 1 .. Len(l)
      BY <1>2, <2>2
    <3>4. PICK q : q = l[k].key
      OBVIOUS
    <3>5. x[q] \in W
      <4>1. q \in KeysOf(l)
        BY <1>2, <3>3, <3>4 DEF KeysOf, Range
      <4> QED
        BY <4>1
    <3>6. PICK u : u = g[1 .. k] /\ u = [w EXCEPT ![IndexOf(q, t)] = x[q]]
      <4>1. g[1 .. k] = SetIn(t, g[1 .. k - 1], l[k].key, x[l[k].key])
        BY <1>1, <3>3 DEF SetsEach
      <4> QED
        BY <3>1, <3>2, <3>4, <4>1 DEF SetIn
    <3>7. u \in [DOMAIN t -> W]
      BY <3>2, <3>5, <3>6
    <3>8. ASSUME NEW i \in DOMAIN t PROVE u[i] = IF Done(k, i) THEN x[t[i].key] ELSE v[i]
      <4>1. i = IndexOf(q, t) => t[i].key = q
        <5>1. i # 0
          BY <1>2
        <5> QED
          BY <5>1, IndexOfFacts
      <4>2. 1 .. k = 1 .. m \cup {k}
        BY <3>1, <3>3
      <4>3. Done(k, i) <=> Done(m, i) \/ i = IndexOf(q, t)
        BY <3>4, <4>1, <4>2
      <4>4. CASE i = IndexOf(q, t)
        <5>1. u[i] = x[q]
          BY <3>2, <3>6, <4>4
        <5> HIDE DEF Done
        <5> QED
          BY <4>1, <4>3, <4>4, <5>1
      <4>5. CASE i # IndexOf(q, t)
        <5>1. u[i] = w[i]
          BY <3>2, <3>6, <4>5
        <5> HIDE DEF Done
        <5> QED
          BY <3>2, <4>3, <4>5, <5>1
      <4> QED
        BY <4>4, <4>5
    <3> QED
      BY <3>6, <3>7, <3>8
  <2> QED
    BY <2>1, <2>2
<1>4. Len(l) \in T
  <2> HIDE DEF T
  <2> QED
    BY <1>2, <1>3, Induction
<1>5. PICK r : r = SetEach(t, v, l, x) /\ r = g[1 .. Len(l)]
  BY <1>1 DEF SetsEach
<1>6. /\ r \in [DOMAIN t -> W]
      /\ \A i \in DOMAIN t : r[i] = IF Done(Len(l), i) THEN x[t[i].key] ELSE v[i]
  BY <1>2, <1>4, <1>5
<1>7. \A i \in DOMAIN t : Done(Len(l), i) <=> i = IndexOf(t[i].key, t) /\ t[i].key \in KeysOf(l)
  BY IndexOfFacts
<1> HIDE DEF Done
<1>8. SetTo(W, t, v, l, x, r)
  BY <1>6, <1>7 DEF SetTo
<1> QED
  BY <1>5, <1>8

-----------------------------------------------------------------------------
(* What get<key> reads.                                                    *)

\* The keys of a list are those it has at least once.
LEMMA KeysAndTimes ==
  ASSUME NEW E, NEW l \in Seq(E), NEW k
  PROVE  Times(k, l) \in Nat /\ (k \in KeysOf(l) <=> Times(k, l) # 0)
<1>1. k \in KeysOf(l) <=> \E i \in 1 .. Len(l) : l[i].key = k
  BY IndexOfFacts
<1> QED
  BY <1>1, TimesType

\* The keys that two ordered lists have in common.
LEMMA CommonKeys ==
  ASSUME NEW E, Keyed(E), NEW a \in Seq(E), NEW b \in Seq(E), Ordered(a), Ordered(b)
  PROVE  /\ Intersection(a, b) \in Seq(E)
         /\ KeysOf(Intersection(a, b)) = KeysOf(a) \cap KeysOf(b)
<1>1. PICK s \in Seq(E) : s = Intersection(a, b) /\ Walked(E, a, b, TRUE, FALSE, s)
  <2>1. Walked(E, a, b, TRUE, FALSE, Walk(a, b, TRUE, FALSE))
    BY WalkFacts
  <2> QED
    BY <2>1 DEF Intersection, Walked
<1>2. ASSUME NEW k \in Nat PROVE k \in KeysOf(s) <=> k \in KeysOf(a) /\ k \in KeysOf(b)
  <2>1. PICK m \in Nat, n \in Nat : m = Times(k, a) /\ n = Times(k, b)
    BY TimesType
  <2>2. Times(k, s) = IF m < n THEN m ELSE n
    <3>1. Times(k, s) = Amount(m, n, TRUE, FALSE)
      BY <1>1, <2>1 DEF Walked
    <3> QED
      BY <3>1 DEF Amount
  <2>3. /\ k \in KeysOf(s) <=> Times(k, s) # 0
        /\ k \in KeysOf(a) <=> m # 0
        /\ k \in KeysOf(b) <=> n # 0
    BY <2>1, KeysAndTimes
  <2> QED
    BY <2>2, <2>3
<1>3. ASSUME NEW l \in Seq(E), NEW k \in KeysOf(l) PROVE k \in Nat
  <2>1. PICK i \in 1 .. Len(l) : l[i].key = k
    BY IndexOfFacts
  <2> QED
    BY <2>1 DEF Keyed
<1>4. KeysOf(s) = KeysOf(a) \cap KeysOf(b)
  BY <1>2, <1>3
<1> QED
  BY <1>1, <1>4

\* The keys of a sorted list, of two lists together and of a pattern.
LEMMA KeysOfFacts ==
  /\ \A E : Keyed(E) => \A l \in Seq(E) : KeysOf(SortList(l)) = KeysOf(l)
  /\ \A E : \A a, b \in Seq(E) : KeysOf(a \o b) = KeysOf(a) \cup KeysOf(b)
  /\ \A keys \in Seq(Keys) : KeysOf(Members(keys)) = Range(keys)
<1>1. ASSUME NEW E, Keyed(E), NEW l \in Seq(E) PROVE KeysOf(SortList(l)) = KeysOf(l)
  <2>1. Range(SortList(l)) = Range(l)
    BY <1>1, SortOrders
  <2> QED
    BY <2>1 DEF KeysOf
<1>2. ASSUME NEW E, NEW a \in Seq(E), NEW b \in Seq(E)
      PROVE  KeysOf(a \o b) = KeysOf(a) \cup KeysOf(b)
  <2>1. Range(a \o b) = Range(a) \cup Range(b)
    <3>1. PICK c \in Seq(E) : /\ c = a \o b /\ Len(c) = Len(a) + Len(b)
            /\ \A i \in 1 .. Len(c) : c[i] = IF i <= Len(a) THEN a[i] ELSE b[i - Len(a)]
      <4>1. /\ a \o b \in Seq(E) /\ Len(a \o b) = Len(a) + Len(b)
            /\ \A i \in 1 .. Len(a) + Len(b) :
                 (a \o b)[i] = IF i <= Len(a) THEN a[i] ELSE b[i - Len(a)]
        OBVIOUS
      <4> QED
        BY <4>1
    <3>2. DOMAIN a = 1 .. Len(a) /\ DOMAIN b = 1 .. Len(b) /\ DOMAIN c = 1 .. Len(c)
      OBVIOUS
    <3>3. ASSUME NEW i \in 1 .. Len(c) PROVE c[i] \in Range(a) \cup Range(b)
      <4>1. CASE i <= Len(a)
        BY <3>1, <3>2, <4>1 DEF Range
      <4>2. CASE ~(i <= Len(a))
        <5>1. i - Len(a) \in 1 .. Len(b) /\ c[i] = b[i - Len(a)]
          BY <3>1, <4>2
        <5> QED
          BY <3>2, <5>1 DEF Range
      <4> QED
        BY <4>1, <4>2
    <3>4. ASSUME NEW i \in 1 .. Len(a) PROVE a[i] \in Range(c)
      <4>1. i \in 1 .. Len(c) /\ c[i] = a[i]
        BY <3>1
      <4> QED
        BY <3>2, <4>1 DEF Range
    <3>5. ASSUME NEW i \in 1 .. Len(b) PROVE b[i] \in Range(c)
      <4>1. PICK h : h = i + Len(a)
        OBVIOUS
      <4>2. h \in 1 .. Len(c) /\ ~(h <= Len(a)) /\ h - Len(a) = i
        BY <3>1, <4>1
      <4>3. c[h] = b[i]
        BY <3>1, <4>2
      <4> QED
        BY <3>2, <4>2, <4>3 DEF Range
    <3>6. Range(c) \subseteq Range(a) \cup Range(b)
      BY <3>2, <3>3 DEF Range
    <3>7. Range(a) \subseteq Range(c) /\ Range(b) \subseteq Range(c)
      BY <3>2, <3>4, <3>5 DEF Range
    <3> QED
      BY <3>1, <3>6, <3>7
  <2> QED
    BY <2>1 DEF KeysOf
<1>3. ASSUME NEW keys \in Seq(Keys) PROVE KeysOf(Members(keys)) = Range(keys)
  <2>1. PICK s \in Seq([key : Keys]) : /\ s = Members(keys) /\ Len(s) = Len(keys)
                                       /\ \A i \in 1 .. Len(keys) : s[i].key = keys[i]
    BY MembersType
  <2>2. DOMAIN keys = 1 .. Len(keys)
    OBVIOUS
  <2>3. \A k : k \in KeysOf(s) <=> \E i \in 1 .. Len(s) : s[i].key = k
    BY IndexOfFacts
  <2> QED
    BY <2>1, <2>2, <2>3 DEF Range
<1> QED
  BY <1>1, <1>2, <1>3

\* What is true of the object between two bindings: its type is an ordered list
\* of exactly the keys the chain declares, with a value for each member.
ObjectOK ==
  /\ ChainOK
  /\ type \in Seq([key : Keys]) /\ Ordered(type)
  /\ values \in [DOMAIN type -> Nat \X Nat]
  /\ \A k : k \in KeysOf(type) <=> \E d \in DOMAIN chain : k \in Range(chain[d])
ParamsInv == ObjectOK /\ GetReadsLatest

\* The object converted to a type with more keys has what get<key> reads of it,
\* and nothing else.
LEMMA ConvertedFacts ==
  ASSUME ParamsInv, NEW to \in Seq([key : Keys]), Ordered(to), KeysOf(type) \subseteq KeysOf(to)
  PROVE  /\ Converted(to, type, values) \in [DOMAIN to -> Nat \X Nat]
         /\ \A i \in DOMAIN to :
              Converted(to, type, values)[i]
                = IF i = IndexOf(to[i].key, to) /\ to[i].key \in KeysOf(type)
                  THEN values[IndexOf(to[i].key, type)] ELSE Default
<1> DEFINE E == [key : Keys]
           W == Nat \X Nat
<1>1. type \in Seq(E) /\ Ordered(type) /\ values \in [DOMAIN type -> W] /\ Default \in W
  BY DEF ParamsInv, ObjectOK, Default
<1>2. \A i \in DOMAIN type : values[i] # Default <=> i = IndexOf(type[i].key, type)
  BY DEF ParamsInv, GetReadsLatest
<1>3. Keyed(E)
  BY KeysAreOrdered
<1>4. to \in Seq(E)
  OBVIOUS
<1> HIDE DEF E, W
<1>5. \A k \in KeysOf(type) : IndexOf(k, type) \in DOMAIN type
  <2>1. DOMAIN type = 1 .. Len(type)
    BY <1>1
  <2> QED
    BY <1>1, <2>1, IndexOfFacts
<1>6. CASE to = type
  <2>1. Converted(to, type, values) = values
    BY <1>6 DEF Converted
  <2>2. ASSUME NEW i \in DOMAIN type PROVE type[i].key \in KeysOf(type)
    BY DEF KeysOf, Range
  <2> QED
    BY <1>1, <1>2, <1>6, <2>1, <2>2 DEF W
<1>7. CASE to # type
  <2>1. PICK v : v = [i \in DOMAIN to |-> Default]
    OBVIOUS
  <2>2. v \in [DOMAIN to -> W]
    BY <1>1, <2>1
  <2>3. PICK l \in Seq(E) : l = Intersection(to, type) /\ KeysOf(l) = KeysOf(to) \cap KeysOf(type)
    BY <1>1, <1>3, <1>4, CommonKeys
  <2>4. KeysOf(l) = KeysOf(type)
    BY <2>3
  <2>5. PICK x : x = [k \in KeysOf(type) |-> GetFrom(type, values, k)]
    OBVIOUS
  <2>6. \A k \in KeysOf(type) : x[k] = values[IndexOf(k, type)] /\ x[k] \in W
    BY <1>1, <1>5, <2>5 DEF GetFrom
  <2>7. PICK r : r = SetEach(to, v, l, x)
    OBVIOUS
  <2>8. /\ r \in [DOMAIN to -> W]
        /\ \A i \in DOMAIN to :
             r[i] = IF i = IndexOf(to[i].key, to) /\ to[i].key \in KeysOf(l)
                    THEN x[to[i].key] ELSE v[i]
    <3>1. \A k \in KeysOf(l) : x[k] \in W
      BY <2>4, <2>6
    <3>2. SetTo(W, to, v, l, x, SetEach(to, v, l, x))
      BY <1>4, <2>2, <3>1, SetEachFacts
    <3> QED
      BY <2>7, <3>2 DEF SetTo
  <2>9. Converted(to, type, values) = r
    BY <1>7, <2>1, <2>3, <2>5, <2>7 DEF Converted
  <2> QED
    BY <2>1, <2>4, <2>6, <2>8, <2>9 DEF W
<1> QED
  BY <1>6, <1>7

\* The first place of a name among a pattern's parameters.
LEMMA FirstNamed ==
  ASSUME NEW keys \in Seq(Keys), NEW k \in Range(keys)
  PROVE  /\ SelectInSeq(keys, LAMBDA n : n = k) = Min({i \in DOMAIN keys : keys[i] = k})
         /\ Min({i \in DOMAIN keys : keys[i] = k}) \in Nat
<1>1. DOMAIN keys = 1 .. Len(keys)
  OBVIOUS
<1>2. PICK A : A = {i \in 1 .. Len(keys) : keys[i] = k}
  OBVIOUS
<1>3. A # {} /\ A \in SUBSET Nat
  BY <1>1, <1>2 DEF Range
<1>4. Min(A) \in Nat
  BY <1>3, MinFacts
<1> QED
  BY <1>1, <1>2, <1>3, <1>4 DEF SelectInSeq

\* A binding that declares some parameters.
LEMMA BindFacts ==
  ASSUME ParamsInv, NEW keys \in Seq(Keys), Bind(keys)
  PROVE  /\ type' \in Seq([key : Keys]) /\ Ordered(type')
         /\ KeysOf(type') = KeysOf(type) \cup Range(keys)
         /\ values' \in [DOMAIN type' -> Nat \X Nat]
         /\ \A i \in DOMAIN type' :
              values'[i] = IF i # IndexOf(type'[i].key, type') THEN Default
                           ELSE IF type'[i].key \in Range(keys) THEN Captured(keys, type'[i].key)
                           ELSE values[IndexOf(type'[i].key, type)]
<1> DEFINE E == [key : Keys]
           W == Nat \X Nat
<1>1. Keyed(E)
  BY KeysAreOrdered
<1>2. type \in Seq(E)
  BY DEF ParamsInv, ObjectOK
<1>3. Members(keys) \in Seq(E)
  BY MembersType
<1> HIDE DEF E
<1>4. PICK parsed \in Seq(E) : parsed = SortList(Members(keys)) /\ KeysOf(parsed) = Range(keys)
  <2>1. SortList(Members(keys)) \in Seq(E)
    BY <1>1, <1>3, SortOrders
  <2>2. KeysOf(SortList(Members(keys))) = Range(keys)
    BY <1>1, <1>3, KeysOfFacts
  <2> QED
    BY <2>1, <2>2
<1>5. PICK to \in Seq(E) : /\ to = CombinedType(type, parsed) /\ Ordered(to)
                           /\ KeysOf(to) = KeysOf(type) \cup Range(keys)
  <2>1. PICK l \in Seq(E) : l = type \o parsed
    <3>1. type \o parsed \in Seq(E)
      BY <1>2
    <3> QED
      BY <3>1
  <2>2. SortList(l) \in Seq(E) /\ Ordered(SortList(l))
    BY <1>1, SortOrders
  <2>3. KeysOf(SortList(l)) = KeysOf(l)
    BY <1>1, KeysOfFacts
  <2>4. KeysOf(l) = KeysOf(type) \cup KeysOf(parsed)
    BY <1>2, <2>1, KeysOfFacts
  <2> QED
    BY <1>4, <2>1, <2>2, <2>3, <2>4 DEF CombinedType
<1>6. PICK v : v = Converted(to, type, values)
  OBVIOUS
<1>7. /\ v \in [DOMAIN to -> W]
      /\ \A i \in DOMAIN to : v[i] = IF i = IndexOf(to[i].key, to) /\ to[i].key \in KeysOf(type)
                                     THEN values[IndexOf(to[i].key, type)] ELSE Default
  BY <1>5, <1>6, ConvertedFacts DEF E
<1>8. PICK x : x = [k \in Range(keys) |-> Captured(keys, k)]
  OBVIOUS
<1>9. \A k \in Range(keys) : x[k] = Captured(keys, k) /\ x[k] \in W
  <2>1. Len(chain) + 1 \in Nat
    BY DEF ParamsInv, ObjectOK, ChainOK
  <2> QED
    BY <1>8, <2>1, FirstNamed DEF Captured
<1> HIDE DEF W
<1>10. PICK r : r = SetEach(to, v, parsed, x)
  OBVIOUS
<1>11. /\ r \in [DOMAIN to -> W]
       /\ \A i \in DOMAIN to :
            r[i] = IF i = IndexOf(to[i].key, to) /\ to[i].key \in KeysOf(parsed)
                   THEN x[to[i].key] ELSE v[i]
  <2>1. \A k \in KeysOf(parsed) : x[k] \in W
    BY <1>4, <1>9
  <2>2. SetTo(W, to, v, parsed, x, SetEach(to, v, parsed, x))
    BY <1>7, <2>1, SetEachFacts
  <2> QED
    BY <1>10, <2>2 DEF SetTo
<1>12. type' = to /\ values' = r
  BY <1>4, <1>5, <1>6, <1>8, <1>10 DEF Bind
<1>13. ASSUME NEW i \in DOMAIN to
       PROVE  r[i] = IF i # IndexOf(to[i].key, to) THEN Default
                     ELSE IF to[i].key \in Range(keys) THEN Captured(keys, to[i].key)
                     ELSE values[IndexOf(to[i].key, type)]
  <2>1. to[i].key \in KeysOf(to)
    BY DEF KeysOf, Range
  <2> QED
    BY <1>4, <1>5, <1>7, <1>9, <1>11, <2>1
<1> QED
  BY <1>5, <1>11, <1>12, <1>13 DEF E, W

\* The chain with one more binding.
LEMMA LongerChain ==
  ASSUME ChainOK, NEW keys \in Seq(Keys), chain' = Append(chain, keys)
  PROVE  /\ chain' \in Seq(Seq(Keys)) /\ Len(chain) \in Nat
         /\ DOMAIN chain' = DOMAIN chain \cup {Len(chain) + 1} /\ DOMAIN chain = 1 .. Len(chain)
         /\ chain'[Len(chain) + 1] = keys /\ \A d \in DOMAIN chain : chain'[d] = chain[d]
<1>1. chain \in Seq(Seq(Keys))
  BY DEF ChainOK
<1>2. PICK n \in Nat : n = Len(chain)
  BY <1>1
<1>3. PICK c : c = chain'
  OBVIOUS
<1>4. /\ c \in Seq(Seq(Keys)) /\ Len(c) = n + 1 /\ c[n + 1] = keys
      /\ \A d \in 1 .. n : c[d] = chain[d]
  BY <1>1, <1>2, <1>3
<1>5. DOMAIN c = 1 .. n + 1 /\ DOMAIN chain = 1 .. n /\ 1 .. n + 1 = 1 .. n \cup {n + 1}
  BY <1>1, <1>2, <1>4
<1> QED
  BY <1>2, <1>3, <1>4, <1>5

\* What the deepest binding with a key captured for it.
Latest(c, k) ==
  LET naming == {d \in DOMAIN c : k \in Range(c[d])}
  IN  <<Max(naming), SelectInSeq(c[Max(naming)], LAMBDA n : n = k)>>

\* A binding that declares a key has the latest text for it, and one that does
\* not leaves the latest text as it was.
LEMMA LatestFacts ==
  ASSUME ChainOK, NEW keys \in Seq(Keys), chain' = Append(chain, keys), NEW k
  PROVE  /\ k \in Range(keys) => Captured(keys, k) = Latest(chain', k)
         /\ k \notin Range(keys) /\ (\E d \in DOMAIN chain : k \in Range(chain[d]))
              => Latest(chain', k) = Latest(chain, k)
<1>1. PICK n \in Nat : n = Len(chain)
  BY LongerChain
<1>2. PICK c : c = chain'
  OBVIOUS
<1>3. /\ DOMAIN c = DOMAIN chain \cup {n + 1} /\ DOMAIN chain = 1 .. n
      /\ c[n + 1] = keys /\ \A d \in DOMAIN chain : c[d] = chain[d]
  BY <1>1, <1>2, LongerChain
<1>4. CASE k \in Range(keys)
  <2>1. PICK naming : naming = {d \in DOMAIN c : k \in Range(c[d])}
    OBVIOUS
  <2>2. n + 1 \in naming /\ naming \in SUBSET (0 .. n + 1)
    BY <1>3, <1>4, <2>1
  <2>3. n + 1 \in Nat
    OBVIOUS
  <2>4. Max(naming) \in naming /\ \A y \in naming : y <= Max(naming)
    <3>1. naming # {}
      BY <2>2
    <3> QED
      BY <2>2, <2>3, <3>1, MaxFacts
  <2>5. Max(naming) = n + 1
    <3>1. PICK m \in 0 .. n + 1 : m = Max(naming)
      BY <2>2, <2>4
    <3>2. n + 1 <= m
      BY <2>2, <2>4, <3>1
    <3> QED
      BY <3>1, <3>2
  <2>6. Latest(c, k) = <<n + 1, SelectInSeq(keys, LAMBDA m : m = k)>>
    BY <1>3, <2>1, <2>5 DEF Latest
  <2>7. SelectInSeq(keys, LAMBDA m : m = k) = Min({i \in DOMAIN keys : keys[i] = k})
    BY <1>4, FirstNamed
  <2> QED
    BY <1>1, <1>2, <1>4, <2>6, <2>7 DEF Captured
<1>5. CASE k \notin Range(keys) /\ \E d \in DOMAIN chain : k \in Range(chain[d])
  <2>1. {d \in DOMAIN c : k \in Range(c[d])} = {d \in DOMAIN chain : k \in Range(chain[d])}
    BY <1>3, <1>5
  <2>2. PICK naming : naming = {d \in DOMAIN chain : k \in Range(chain[d])}
    OBVIOUS
  <2>3. Latest(c, k) = <<Max(naming), SelectInSeq(c[Max(naming)], LAMBDA m : m = k)>>
    BY <2>1, <2>2 DEF Latest
  <2>4. Latest(chain, k) = <<Max(naming), SelectInSeq(chain[Max(naming)], LAMBDA m : m = k)>>
    BY <2>2 DEF Latest
  <2>5. Max(naming) \in DOMAIN chain
    <3>1. naming # {} /\ naming \in SUBSET (0 .. n)
      BY <1>3, <1>5, <2>2
    <3>2. Max(naming) \in naming
      BY <3>1, MaxFacts
    <3> QED
      BY <2>2, <3>2
  <2>6. c[Max(naming)] = chain[Max(naming)]
    BY <1>3, <2>5
  <2> QED
    BY <1>2, <1>5, <2>3, <2>4, <2>6
<1> QED
  BY <1>4, <1>5

\* GetReadsLatest in these words.
ReadsByName ==
  /\ \A i \in DOMAIN type : values[i] # Default <=> i = IndexOf(type[i].key, type)
  /\ \A k \in Keys : IF \E d \in DOMAIN chain : k \in Range(chain[d])
                     THEN values[IndexOf(k, type)] = Latest(chain, k)
                     ELSE IndexOf(k, type) = 0

\* They say the same.
LEMMA ReadsLatest == GetReadsLatest <=> ReadsByName
<1>1. \A k \in Keys : {d \in DOMAIN chain : k \in Range(chain[d])} = {}
                        <=> ~\E d \in DOMAIN chain : k \in Range(chain[d])
  OBVIOUS
<1> QED
  BY <1>1 DEF GetReadsLatest, ReadsByName, Latest

\* Each binding keeps the invariant.
LEMMA BindKeeps ==
  ASSUME ParamsInv, NEW keys \in BoundedSeq(Keys, MaxParams), Bind(keys)
  PROVE  ParamsInv'
<1>1. keys \in Seq(Keys) /\ ChainOK /\ chain' = Append(chain, keys)
  BY BoundedSeqIsSeq DEF ParamsInv, ObjectOK, Bind
<1>2. PICK n \in Nat : n = Len(chain)
  BY <1>1, LongerChain
<1>3. PICK c : c = chain'
  OBVIOUS
<1>4. /\ c \in Seq(Seq(Keys)) /\ DOMAIN c = DOMAIN chain \cup {n + 1} /\ DOMAIN chain = 1 .. n
      /\ c[n + 1] = keys /\ \A d \in DOMAIN chain : c[d] = chain[d]
  BY <1>1, <1>2, <1>3, LongerChain
<1> DEFINE E == [key : Keys]
           W == Nat \X Nat
<1>5. PICK to, v :
        /\ to = type' /\ v = values' /\ to \in Seq(E) /\ v \in [DOMAIN to -> W]
        /\ Ordered(to) /\ KeysOf(to) = KeysOf(type) \cup Range(keys)
        /\ \A i \in DOMAIN to :
             v[i] = IF i # IndexOf(to[i].key, to) THEN Default
                    ELSE IF to[i].key \in Range(keys) THEN Captured(keys, to[i].key)
                    ELSE values[IndexOf(to[i].key, type)]
  <2>1. /\ type' \in Seq(E) /\ Ordered(type') /\ KeysOf(type') = KeysOf(type) \cup Range(keys)
        /\ values' \in [DOMAIN type' -> W]
        /\ \A i \in DOMAIN type' :
             values'[i] = IF i # IndexOf(type'[i].key, type') THEN Default
                          ELSE IF type'[i].key \in Range(keys) THEN Captured(keys, type'[i].key)
                          ELSE values[IndexOf(type'[i].key, type)]
    BY <1>1, BindFacts
  <2> HIDE DEF E, W
  <2>2. PICK s, u : s = type' /\ u = values'
    OBVIOUS
  <2> QED
    BY <2>1, <2>2
<1>6. type \in Seq(E)
  BY DEF ParamsInv, ObjectOK
<1>7. \A k : k \in KeysOf(type) <=> \E d \in DOMAIN chain : k \in Range(chain[d])
  BY DEF ParamsInv, ObjectOK
<1>8. /\ \A i \in DOMAIN type : values[i] # Default <=> i = IndexOf(type[i].key, type)
      /\ \A k \in Keys : IF \E d \in DOMAIN chain : k \in Range(chain[d])
                         THEN values[IndexOf(k, type)] = Latest(chain, k)
                         ELSE IndexOf(k, type) = 0
  BY ReadsLatest, Zenon DEF ParamsInv, ReadsByName
<1> HIDE DEF E, W
<1>9. \A k : k \in KeysOf(to) <=> \E d \in DOMAIN c : k \in Range(c[d])
  BY <1>4, <1>5, <1>7
<1>10. ASSUME NEW i \in DOMAIN to PROVE v[i] # Default <=> i = IndexOf(to[i].key, to)
  <2>1. CASE i # IndexOf(to[i].key, to)
    BY <1>5, <2>1
  <2>2. CASE i = IndexOf(to[i].key, to) /\ to[i].key \in Range(keys)
    <3>1. v[i] = Captured(keys, to[i].key)
      BY <1>5, <2>2
    <3>2. Len(chain) + 1 # 0
      BY <1>2
    <3> QED
      BY <2>2, <3>1, <3>2 DEF Captured, Default
  <2>3. CASE i = IndexOf(to[i].key, to) /\ to[i].key \notin Range(keys)
    <3>1. PICK k : k = to[i].key
      OBVIOUS
    <3>2. k \in KeysOf(to)
      BY <3>1 DEF KeysOf, Range
    <3>3. k \in KeysOf(type)
      BY <1>5, <2>3, <3>1, <3>2
    <3>4. IndexOf(k, type) \in DOMAIN type /\ type[IndexOf(k, type)].key = k
      <4>1. DOMAIN type = 1 .. Len(type)
        BY <1>6
      <4> QED
        BY <1>6, <3>3, <4>1, IndexOfFacts
    <3>5. PICK j \in DOMAIN type : j = IndexOf(k, type) /\ type[j].key = k
      BY <3>4
    <3>6. values[j] # Default
      BY <1>8, <3>5
    <3>7. v[i] = values[j]
      BY <1>5, <2>3, <3>1, <3>5
    <3> QED
      BY <2>3, <3>6, <3>7
  <2> QED
    BY <2>1, <2>2, <2>3
<1>11. ASSUME NEW k \in Keys
       PROVE  IF \E d \in DOMAIN c : k \in Range(c[d])
              THEN v[IndexOf(k, to)] = Latest(c, k) ELSE IndexOf(k, to) = 0
  <2>1. CASE k \notin KeysOf(to)
    BY <1>5, <1>9, <2>1, IndexOfFacts
  <2>2. CASE k \in KeysOf(to)
    <3>1. PICK i \in DOMAIN to : i = IndexOf(k, to) /\ to[i].key = k
      <4>1. DOMAIN to = 1 .. Len(to)
        BY <1>5
      <4>2. IndexOf(k, to) \in 1 .. Len(to) /\ to[IndexOf(k, to)].key = k
        BY <1>5, <2>2, IndexOfFacts
      <4> QED
        BY <4>1, <4>2
    <3>2. v[i] = IF k \in Range(keys) THEN Captured(keys, k) ELSE values[IndexOf(k, type)]
      BY <1>5, <3>1
    <3>3. CASE k \in Range(keys)
      <4>1. Captured(keys, k) = Latest(c, k)
        BY <1>1, <1>3, <3>3, LatestFacts
      <4> QED
        BY <1>9, <2>2, <3>1, <3>2, <3>3, <4>1
    <3>4. CASE k \notin Range(keys)
      <4>1. \E d \in DOMAIN chain : k \in Range(chain[d])
        BY <1>5, <1>7, <2>2, <3>4
      <4>2. Latest(c, k) = Latest(chain, k)
        BY <1>1, <1>3, <3>4, <4>1, LatestFacts
      <4>3. values[IndexOf(k, type)] = Latest(chain, k)
        BY <1>8, <4>1
      <4> QED
        BY <1>9, <2>2, <3>1, <3>2, <3>4, <4>2, <4>3
    <3> QED
      BY <3>3, <3>4
  <2> QED
    BY <2>1, <2>2
<1>12. ObjectOK'
  BY <1>3, <1>4, <1>5, <1>9 DEF ObjectOK, ChainOK, E, W
<1>13. GetReadsLatest'
  <2>1. /\ \A i \in DOMAIN type' : values'[i] # Default <=> i = IndexOf(type'[i].key, type')
        /\ \A k \in Keys : IF \E d \in DOMAIN chain' : k \in Range(chain'[d])
                           THEN values'[IndexOf(k, type')] = Latest(chain', k)
                           ELSE IndexOf(k, type') = 0
    BY <1>3, <1>5, <1>10, <1>11
  <2>2. (GetReadsLatest <=> ReadsByName)'
    BY ReadsLatest, PTL
  <2> QED
    BY <2>1, <2>2, Zenon DEF ReadsByName, Default
<1> QED
  BY <1>12, <1>13 DEF ParamsInv

\* What a handler reads with get<key> is the first text the deepest binding with
\* that key captured for it, in chains of any length with any parameters.
THEOREM GetsTheLatest == ObjectsSpec => []GetReadsLatest
<1>1. ObjectsInit => ParamsInv
  <2> SUFFICES ASSUME ObjectsInit PROVE ParamsInv
    OBVIOUS
  <2>1. /\ type = <<>> /\ values = <<>> /\ chain = <<>>
        /\ DOMAIN type = {} /\ DOMAIN chain = {} /\ DOMAIN values = {}
    BY DEF ObjectsInit
  <2>2. ChainOK /\ type \in Seq([key : Keys]) /\ Ordered(type)
    BY <2>1 DEF ChainOK, Ordered
  <2>3. values \in [DOMAIN type -> Nat \X Nat]
    BY <2>1
  <2>4. ASSUME NEW k PROVE k \notin KeysOf(type) /\ IndexOf(k, type) = 0
    <3>1. k \notin KeysOf(type)
      BY <2>1 DEF KeysOf, Range
    <3> QED
      BY <2>2, <3>1, IndexOfFacts
  <2>5. ObjectOK
    BY <2>1, <2>2, <2>3, <2>4 DEF ObjectOK
  <2>6. GetReadsLatest
    BY <2>1, <2>4, ReadsLatest DEF ReadsByName
  <2> QED
    BY <2>5, <2>6 DEF ParamsInv
<1>2. ParamsInv /\ [ObjectsNext]_objects => ParamsInv'
  <2>1. ASSUME ParamsInv, NEW keys \in BoundedSeq(Keys, MaxParams), Bind(keys) PROVE ParamsInv'
    BY <2>1, BindKeeps
  <2>2. ASSUME ParamsInv, UNCHANGED objects PROVE ParamsInv'
    <3>1. type' = type /\ values' = values /\ chain' = chain
      BY <2>2 DEF objects
    <3>2. ChainOK' /\ (type \in Seq([key : Keys]))' /\ (values \in [DOMAIN type -> Nat \X Nat])'
      BY <2>2, <3>1 DEF ParamsInv, ObjectOK, ChainOK
    <3>3. Ordered(type)'
      BY <2>2, <3>1, Zenon DEF ParamsInv, ObjectOK
    <3>4. (\A k : k \in KeysOf(type) <=> \E d \in DOMAIN chain : k \in Range(chain[d]))'
      BY <2>2, <3>1, Zenon DEF ParamsInv, ObjectOK
    <3>5. GetReadsLatest'
      <4>1. ReadsByName
        BY <2>2, ReadsLatest, Zenon DEF ParamsInv
      <4>2. (GetReadsLatest <=> ReadsByName)'
        BY ReadsLatest, PTL
      <4>3. (\A i \in DOMAIN type : values[i] # Default <=> i = IndexOf(type[i].key, type))'
        BY <3>1, <4>1, Zenon DEF ReadsByName, Default
      <4>4. (\A k \in Keys : IF \E d \in DOMAIN chain : k \in Range(chain[d])
                             THEN values[IndexOf(k, type)] = Latest(chain, k)
                             ELSE IndexOf(k, type) = 0)'
        BY <3>1, <4>1, Zenon DEF ReadsByName
      <4> QED
        BY <4>2, <4>3, <4>4, Zenon DEF ReadsByName
    <3> QED
      BY <3>2, <3>3, <3>4, <3>5 DEF ParamsInv, ObjectOK
  <2> QED
    BY <2>1, <2>2 DEF ObjectsNext
<1>3. ParamsInv => GetReadsLatest
  BY DEF ParamsInv
<1> QED
  BY <1>1, <1>2, <1>3, PTL DEF ObjectsSpec

-----------------------------------------------------------------------------
(* The text written for a pattern fills its buffer.                         *)

\* What texts are made of.
Bytes == Lowest + 1 .. Highest - 1

\* These are the numbers of a byte.
LEMMA BytesAre == Bytes = 0 .. 255
BY DEF Bytes, Lowest, Highest

\* Patterns are texts.
LEMMA PatternIsText ==
  ASSUME NEW p \in Patterns
  PROVE  p \in Seq(Bytes) /\ Len(p) \in Nat
BY PatternsAssumption DEF Bytes

\* A place of the scan: the match found last and the position behind it.
Place(m, c) == [found |-> m, current |-> After(m, c)]
Here        == [found |-> current_match, current |-> current]

\* The first place of the scan of p, and the one after another.
FirstPlace(p) == Place(SearchFrom(ParameterRegex, p, 0), 0)
NextPlace(p, at) ==
  Place(IF at.current = Len(p) THEN NoResult ELSE SearchFrom(ParameterRegex, p, at.current),
        at.current)

\* What a place found from position c on says of the text.
IsPlace(p, at, c) ==
  /\ at.found.matched \in BOOLEAN /\ at.current \in c .. Len(p)
  /\ at.found.matched =>
       /\ at.found.from \in c .. Len(p) /\ at.found.to \in at.found.from + 2 .. Len(p)
       /\ at.current = at.found.to
       /\ Group(at.found, 1) = <<at.found.from + 1, at.found.to>>

\* A search gives a place.
LEMMA SearchPlaces ==
  ASSUME NEW p \in Patterns, NEW c \in 0 .. Len(p)
  PROVE  IsPlace(p, Place(SearchFrom(ParameterRegex, p, c), c), c)
<1> DEFINE m == SearchFrom(ParameterRegex, p, c)
<1> Len(p) \in Nat
  BY PatternIsText
<1>1. /\ m.matched \in BOOLEAN
      /\ m.matched => /\ m.from \in c .. Len(p) /\ m.to \in m.from + 2 .. Len(p)
                      /\ Group(m, 1) = <<m.from + 1, m.to>>
  BY SearchAssumption
<1> HIDE DEF m
<1>2. IsPlace(p, Place(m, c), c)
  BY <1>1 DEF IsPlace, Place, After
<1> QED
  BY <1>2 DEF m

\* So do the first search and those that follow.
LEMMA FirstIsPlace ==
  ASSUME NEW p \in Patterns
  PROVE  IsPlace(p, FirstPlace(p), 0)
<1> Len(p) \in Nat
  BY PatternIsText
<1> QED
  BY SearchPlaces DEF FirstPlace

LEMMA NextIsPlace ==
  ASSUME NEW p \in Patterns, NEW at, at.current \in 0 .. Len(p)
  PROVE  IsPlace(p, NextPlace(p, at), at.current)
<1> Len(p) \in Nat
  BY PatternIsText
<1>1. CASE at.current = Len(p)
  <2>1. ASSUME NEW c \in 0 .. Len(p) PROVE IsPlace(p, Place(NoResult, c), c)
    <3>1. ~NoResult.matched /\ NoResult.matched \in BOOLEAN
      BY DEF NoResult
    <3>2. Place(NoResult, c) = [found |-> NoResult, current |-> c]
      BY <3>1 DEF Place, After
    <3>3. Place(NoResult, c).found = NoResult /\ Place(NoResult, c).current = c
      BY <3>2
    <3>4. c \in c .. Len(p)
      OBVIOUS
    <3> QED
      BY <3>1, <3>3, <3>4, Zenon DEF IsPlace
  <2>2. NextPlace(p, at) = Place(NoResult, at.current)
    BY <1>1 DEF NextPlace
  <2> QED
    BY <2>1, <2>2
<1>2. CASE at.current # Len(p)
  <2>1. NextPlace(p, at) = Place(SearchFrom(ParameterRegex, p, at.current), at.current)
    BY <1>2 DEF NextPlace
  <2> QED
    BY <2>1, SearchPlaces
<1> QED
  BY <1>1, <1>2

\* h has the places of the scan, up to the one behind n matches.
IsScan(p, h, n) ==
  /\ h = [i \in 1 .. n + 1 |-> h[i]] /\ h[1] = FirstPlace(p)
  /\ \A i \in 1 .. n : h[i].found.matched /\ h[i + 1] = NextPlace(p, h[i])

\* While counting, the scan is where it is after as many matches.
Counted ==
  /\ beg = 0 /\ res = <<>>
  /\ \E h : IsScan(pattern, h, size) /\ h[size + 1] = Here

\* While copying, the scan goes through the places counted; what is written for
\* each parameter has seven characters more than what it stands for.
Copied ==
  /\ beg \in 0 .. Len(pattern) /\ (current_match.matched => beg <= current_match.from)
  /\ \E h : \E k \in 1 .. size + 1 :
       /\ IsScan(pattern, h, size) /\ ~h[size + 1].found.matched
       /\ h[k] = Here
       /\ Len(res) = beg + 7 * (k - 1)

\* The inductive invariant.
WrittenInv ==
  /\ pattern \in Patterns /\ IsPlace(pattern, Here, 0)
  /\ size \in Nat /\ res \in Seq(Bytes)
  /\ pc \in {"count", "copy", "done"}
  /\ pc = "count" => Counted
  /\ pc = "copy"  => Copied
  /\ pc = "done"  => Len(res) + 1 = Room

\* Advance takes the scan to its next place.
LEMMA Advances ==
  ASSUME WrittenInv, Advance, pattern' = pattern
  PROVE  /\ Here' = NextPlace(pattern, Here)
         /\ IsPlace(pattern, Here', current) /\ IsPlace(pattern, Here', 0)
<1>1. Here' = NextPlace(pattern, Here)
  BY DEF Advance, NextMatch, Here, NextPlace, Place
<1>2. current \in 0 .. Len(pattern) /\ Here.current = current /\ Len(pattern) \in Nat
  BY PatternIsText DEF WrittenInv, IsPlace, Here
<1>3. IsPlace(pattern, Here', current)
  BY <1>1, <1>2, NextIsPlace DEF WrittenInv
<1>4. IsPlace(pattern, Here', 0)
  BY <1>2, <1>3 DEF IsPlace
<1> QED
  BY <1>1, <1>3, <1>4

\* Both scans begin at the first place.
LEMMA Begins ==
  ASSUME pattern' \in Patterns, current_match' = FirstMatch', current' = After(FirstMatch', 0)
  PROVE  Here' = FirstPlace(pattern') /\ IsPlace(pattern', Here', 0)
<1>1. Here' = FirstPlace(pattern')
  BY DEF Here, FirstPlace, Place, FirstMatch
<1> QED
  BY <1>1, FirstIsPlace

\* The text between two places, and the group in the place of the parameter.
LEMMA WrittenLength ==
  ASSUME WrittenInv, current_match.matched, beg \in 0 .. current_match.from
  PROVE  Written \in Seq(Bytes) /\ Len(Written) = (current_match.to - beg) + 7
<1>1. /\ current_match.from \in 0 .. Len(pattern)
      /\ current_match.to \in current_match.from + 2 .. Len(pattern)
      /\ Group(current_match, 1) = <<current_match.from + 1, current_match.to>>
      /\ pattern \in Seq(Bytes) /\ Len(pattern) \in Nat
  BY PatternIsText DEF WrittenInv, IsPlace, Here
<1>2. /\ SubSeq(pattern, beg + 1, current_match.from) \in Seq(Bytes)
      /\ Len(SubSeq(pattern, beg + 1, current_match.from)) = current_match.from - beg
  BY <1>1
<1>3. Name \in Seq(Bytes) /\ Len(Name) = (current_match.to - current_match.from) - 1
  BY <1>1, SMTT(30) DEF Name
<1>4. ASSUME NEW a \in Seq(Bytes), NEW b \in Seq(Bytes)
      PROVE  a \o b \in Seq(Bytes) /\ Len(a \o b) = Len(a) + Len(b)
  OBVIOUS
<1> DEFINE before == SubSeq(pattern, beg + 1, current_match.from)
           open   == Codes(<<"(", "?", "<">>)
           close  == Codes(<<">", "\\", "S", "+", ")">>)
<1>5. Written = ((before \o open) \o Name) \o close
  BY DEF Written
<1>6. open = <<40, 63, 60>> /\ close = <<62, 92, 83, 43, 41>>
  BY DEF Codes, Code
<1> HIDE DEF before, open, close, Name
<1>7. /\ before \in Seq(Bytes) /\ open \in Seq(Bytes) /\ close \in Seq(Bytes)
      /\ Len(before) = current_match.from - beg /\ Len(open) = 3 /\ Len(close) = 5
  BY <1>2, <1>6, BytesAre DEF before
<1>8. before \o open \in Seq(Bytes) /\ Len(before \o open) = Len(before) + Len(open)
  BY <1>7, <1>4
<1>9. /\ (before \o open) \o Name \in Seq(Bytes)
       /\ Len((before \o open) \o Name) = Len(before \o open) + Len(Name)
  BY <1>3, <1>4, <1>8, Zenon
<1>10. /\ ((before \o open) \o Name) \o close \in Seq(Bytes)
       /\ Len(((before \o open) \o Name) \o close) = Len((before \o open) \o Name) + Len(close)
  BY <1>7, <1>4, <1>9, Zenon
<1>11. Written \in Seq(Bytes) /\ Len(Written) = ((Len(before) + Len(open)) + Len(Name)) + Len(close)
  BY <1>5, <1>8, <1>9, <1>10, Zenon
<1> DEFINE from == current_match.from
           to   == current_match.to
<1>12. /\ from \in 0 .. Len(pattern) /\ to \in from + 2 .. Len(pattern) /\ Len(pattern) \in Nat
       /\ Len(before) = from - beg /\ Len(open) = 3 /\ Len(close) = 5
       /\ Len(Name) = (to - from) - 1 /\ beg \in 0 .. from
  BY <1>1, <1>3, <1>7
<1> HIDE DEF from, to
<1>13. Len(Written) = (to - beg) + 7
  BY <1>12, <1>11
<1> QED
  BY <1>13, <1>11 DEF to

\* One more match.
LEMMA CountKeeps ==
  ASSUME WrittenInv, Count
  PROVE  WrittenInv'
<1>1. /\ pc = "count" /\ pc' = "count" /\ current_match.matched /\ size' = size + 1 /\ Advance
      /\ pattern' = pattern /\ beg' = beg /\ res' = res /\ size \in Nat
  BY DEF Count, WrittenInv
<1>2. Here' = NextPlace(pattern, Here) /\ IsPlace(pattern, Here', 0)
  BY <1>1, Advances
<1>3. PICK h : IsScan(pattern, h, size) /\ h[size + 1] = Here
  BY <1>1 DEF WrittenInv, Counted
<1> DEFINE g == [i \in 1 .. size + 2 |-> IF i = size + 2 THEN NextPlace(pattern, Here) ELSE h[i]]
<1>4. \A i \in 1 .. size + 1 : g[i] = h[i]
  BY <1>1
<1>5. g[size + 2] = Here' /\ g = [i \in 1 .. size + 2 |-> g[i]]
  BY <1>1, <1>2
<1> HIDE DEF g
<1>6. IsScan(pattern', g, size') /\ g[size' + 1] = Here'
  <2>1. g[1] = FirstPlace(pattern')
    BY <1>1, <1>3, <1>4 DEF IsScan
  <2>2. ASSUME NEW i \in 1 .. size + 1
        PROVE  g[i].found.matched /\ g[i + 1] = NextPlace(pattern, g[i])
    <3>1. CASE i = size + 1
      <4>1. Here.found = current_match
        BY DEF Here
      <4>2. i \in 1 .. size + 1 /\ i + 1 = size + 2
        BY <3>1, <1>1
      <4>3. g[i] = Here /\ g[i + 1] = Here'
        BY <3>1, <4>2, <1>3, <1>4, <1>5, Zenon
      <4> QED
        BY <4>1, <4>3, <1>1, <1>2, Zenon
    <3>2. CASE i # size + 1
      <4>1. i \in 1 .. size /\ i + 1 \in 1 .. size + 1
        BY <3>2, <1>1
      <4> QED
        BY <4>1, <1>3, <1>4 DEF IsScan
    <3> QED
      BY <3>1, <3>2
  <2>3. size' + 1 = size + 2 /\ 1 .. size' = 1 .. size + 1
    BY <1>1
  <2> QED
    BY <2>1, <2>2, <2>3, <1>1, <1>5 DEF IsScan
<1>7. Counted'
  BY <1>1, <1>6 DEF WrittenInv, Counted
<1> QED
  BY <1>1, <1>2, <1>7 DEF WrittenInv

\* A parameter is copied.
LEMMA CopyKeeps ==
  ASSUME WrittenInv, CopyParameter
  PROVE  WrittenInv'
<1>1. /\ pc = "copy" /\ pc' = "copy" /\ current_match.matched /\ size' = size /\ Advance
      /\ pattern' = pattern /\ beg' = current_match.to /\ res' = res \o Written
      /\ size \in Nat /\ res \in Seq(Bytes) /\ Len(pattern) \in Nat
  BY PatternIsText DEF CopyParameter, WrittenInv
<1>2. /\ Here' = NextPlace(pattern, Here)
      /\ IsPlace(pattern, Here', current) /\ IsPlace(pattern, Here', 0)
  BY <1>1, Advances
<1>3. /\ current_match.from \in 0 .. Len(pattern)
      /\ current_match.to \in current_match.from + 2 .. Len(pattern)
      /\ current = current_match.to
  BY <1>1 DEF WrittenInv, IsPlace, Here
<1>4. beg \in 0 .. current_match.from
  BY <1>1, <1>3 DEF WrittenInv, Copied
<1>5. Written \in Seq(Bytes) /\ Len(Written) = (current_match.to - beg) + 7
  BY <1>1, <1>4, WrittenLength
<1> DEFINE At(h, k) == /\ IsScan(pattern, h, size) /\ ~h[size + 1].found.matched
                       /\ h[k] = Here /\ Len(res) = beg + 7 * (k - 1)
<1>6. PICK h : \E k \in 1 .. size + 1 : At(h, k)
  BY <1>1 DEF WrittenInv, Copied
<1>7. PICK k \in 1 .. size + 1 : At(h, k)
  BY <1>6
<1>8. k \in 1 .. size
  BY <1>1, <1>7 DEF Here
<1>9. h[k + 1] = Here'
  BY <1>2, <1>7, <1>8 DEF IsScan
<1>10. res' \in Seq(Bytes) /\ Len(res') = beg' + 7 * ((k + 1) - 1)
  <2>1. res' \in Seq(Bytes) /\ Len(res') = Len(res) + Len(Written)
    <3>1. res \in Seq(Bytes) /\ Written \in Seq(Bytes) /\ res' = res \o Written
      BY <1>1, <1>5
    <3> QED
      BY <3>1
  <2> DEFINE to == current_match.to
  <2>2. /\ Len(res) = beg + 7 * (k - 1) /\ Len(Written) = (to - beg) + 7
        /\ beg' = to /\ to \in Nat /\ beg \in Nat
    BY <1>1, <1>3, <1>4, <1>5, <1>7, SMTT(30)
  <2> HIDE DEF to
  <2>3. Len(res') = to + 7 * k
    BY <2>1, <2>2
  <2> QED
    BY <2>1, <2>2, <2>3
<1>11. beg' \in 0 .. Len(pattern') /\ (current_match'.matched => beg' <= current_match'.from)
  <2>1. current_match'.matched => current_match'.from \in current .. Len(pattern)
    BY <1>2 DEF IsPlace, Here
  <2> QED
    BY <2>1, <1>1, <1>3
<1>12. Copied'
  <2>1. k + 1 \in 1 .. size' + 1
    BY <1>1, <1>8
  <2>2. IsScan(pattern', h, size') /\ ~h[size' + 1].found.matched
    BY <1>1, <1>7
  <2> QED
    BY <2>1, <2>2, <1>9, <1>10, <1>11 DEF Copied
<1> QED
  BY <1>1, <1>2, <1>10, <1>12 DEF WrittenInv

\* Every step keeps the invariant.
LEMMA WrittenStep ==
  ASSUME WrittenInv, [Next]_vars
  PROVE  WrittenInv'
<1> USE DEF WrittenInv
<1>1. CASE Count
  BY <1>1, CountKeeps
<1>2. CASE ReturnPattern
  <2>1. /\ pc' = "done" /\ res' = pattern /\ size = 0 /\ size' = 0 /\ pattern' = pattern
        /\ current_match' = current_match /\ current' = current
    BY <1>2 DEF ReturnPattern
  <2>2. pattern \in Seq(Bytes) /\ Len(pattern) \in Nat
    BY PatternIsText
  <2> QED
    BY <2>1, <2>2 DEF Room, Here
<1>3. CASE StartCopy
  <2>1. /\ pc = "count" /\ ~current_match.matched /\ pc' = "copy"
        /\ current_match' = FirstMatch /\ current' = After(FirstMatch, 0)
        /\ pattern' = pattern /\ size' = size /\ beg' = beg /\ res' = res
    BY <1>3 DEF StartCopy
  <2>2. FirstMatch' = FirstMatch
    BY <2>1 DEF FirstMatch
  <2>3. Here' = FirstPlace(pattern') /\ IsPlace(pattern', Here', 0)
    BY <2>1, <2>2, Begins
  <2>4. PICK h : IsScan(pattern, h, size) /\ h[size + 1] = Here
    BY <2>1 DEF Counted
  <2>5. beg = 0 /\ Len(res) = 0 /\ Len(pattern) \in Nat
    BY <2>1, PatternIsText DEF Counted
  <2>6. current_match'.matched => current_match'.from \in 0 .. Len(pattern)
    BY <2>1, <2>3 DEF IsPlace, Here
  <2>7. h[1] = Here' /\ ~h[size + 1].found.matched /\ 1 \in 1 .. size + 1
    BY <2>1, <2>3, <2>4 DEF IsScan, Here
  <2>8. Copied'
    <3>1. Len(res') = beg' + 7 * (1 - 1) /\ beg' \in 0 .. Len(pattern')
      BY <2>1, <2>5
    <3>2. current_match'.matched => beg' <= current_match'.from
      BY <2>1, <2>5, <2>6
    <3>3. IsScan(pattern', h, size') /\ ~h[size' + 1].found.matched /\ 1 \in 1 .. size' + 1
      BY <2>1, <2>4, <2>7
    <3> QED
      BY <3>1, <3>2, <3>3, <2>7 DEF Copied
  <2> QED
    BY <2>1, <2>3, <2>8
<1>4. CASE CopyParameter
  BY <1>4, CopyKeeps
<1>5. CASE CopyRest
  <2>1. /\ pc = "copy" /\ ~current_match.matched /\ pc' = "done"
        /\ res' = res \o SubSeq(pattern, beg + 1, Len(pattern))
        /\ pattern' = pattern /\ size' = size
        /\ current_match' = current_match /\ current' = current
    BY <1>5 DEF CopyRest
  <2> DEFINE At(h, k) == /\ IsScan(pattern, h, size) /\ ~h[size + 1].found.matched
                         /\ h[k] = Here /\ Len(res) = beg + 7 * (k - 1)
  <2>2. PICK h : \E k \in 1 .. size + 1 : At(h, k)
    BY <2>1 DEF Copied
  <2>3. PICK k \in 1 .. size + 1 : At(h, k)
    BY <2>2
  <2>4. k = size + 1
    <3>1. Here.found = current_match /\ h[k] = Here
      BY <2>3 DEF Here
    <3>2. k \in 1 .. size => h[k].found.matched
      BY <2>3 DEF IsScan
    <3>3. k \notin 1 .. size
      BY <2>1, <3>1, <3>2, Zenon
    <3> QED
      BY <3>3
  <2>5. pattern \in Seq(Bytes) /\ Len(pattern) \in Nat /\ beg \in 0 .. Len(pattern)
    BY <2>1, PatternIsText DEF Copied
  <2>6. /\ SubSeq(pattern, beg + 1, Len(pattern)) \in Seq(Bytes)
        /\ Len(SubSeq(pattern, beg + 1, Len(pattern))) = Len(pattern) - beg
    BY <2>5
  <2>7. res' \in Seq(Bytes) /\ Len(res') = Len(res) + (Len(pattern) - beg)
    BY <2>1, <2>5, <2>6, SMTT(30)
  <2>8. Len(res') + 1 = Room'
    <3>1. Len(res) = beg + 7 * size
      BY <2>3, <2>4
    <3>2. beg \in Nat /\ size \in Nat /\ size' = size /\ pattern' = pattern
      BY <2>1, <2>5
    <3> QED
      BY <2>5, <2>7, <3>1, <3>2 DEF Room
  <2> QED
    BY <2>1, <2>7, <2>8 DEF Here
<1>6. CASE UNCHANGED vars
  BY <1>6 DEF vars, Counted, Copied, Room, Here
<1> QED
  BY <1>1, <1>2, <1>3, <1>4, <1>5, <1>6 DEF Next

\* It holds at the beginning.
LEMMA WrittenInit == Init => WrittenInv
<1> SUFFICES ASSUME Init PROVE WrittenInv
  OBVIOUS
<1> Len(pattern) \in Nat
  BY PatternIsText DEF Init
<1>1. Here = FirstPlace(pattern)
  BY DEF Init, Here, FirstPlace, Place, FirstMatch
<1>2. IsPlace(pattern, Here, 0)
  BY <1>1, FirstIsPlace DEF Init
<1> DEFINE h == [i \in 1 .. 1 |-> FirstPlace(pattern)]
<1>3. IsScan(pattern, h, 0) /\ h[0 + 1] = Here
  <2>1. h[1] = FirstPlace(pattern) /\ h = [i \in 1 .. 0 + 1 |-> h[i]]
    OBVIOUS
  <2> HIDE DEF h
  <2> QED
    BY <1>1, <2>1 DEF IsScan
<1>4. size = 0 /\ beg = 0 /\ res = <<>> /\ pc = "count" /\ pattern \in Patterns
  BY DEF Init
<1> HIDE DEF h
<1>5. Counted
  BY <1>3, <1>4 DEF Counted
<1> QED
  BY <1>2, <1>4, <1>5 DEF WrittenInv

\* The expression written for a pattern never outgrows the buffer of
\* path_pattern_to_regex and in the end fills it up to the terminator, for every
\* pattern, whatever engine finds the parameters.
THEOREM PatternFits == Spec => []FitsExactly
<1>1. WrittenInv => FitsExactly
  <2> SUFFICES ASSUME WrittenInv PROVE FitsExactly
    OBVIOUS
  <2>1. ASSUME pc = "copy" PROVE Len(res) < Room
    <3>1. PICK k \in 1 .. size + 1 : Len(res) = beg + 7 * (k - 1)
      BY <2>1 DEF WrittenInv, Copied
    <3>2. beg \in 0 .. Len(pattern) /\ Len(pattern) \in Nat /\ size \in Nat
      BY <2>1, PatternIsText DEF WrittenInv, Copied
    <3> QED
      BY <3>1, <3>2 DEF Room
  <2>2. Len(res) \in Nat
    BY DEF WrittenInv
  <2>3. Len(pattern) \in Nat /\ size \in Nat
    BY PatternIsText DEF WrittenInv
  <2> QED
    BY <2>1, <2>2, <2>3 DEF FitsExactly, WrittenInv, Room
<1> QED
  BY WrittenInit, WrittenStep, <1>1, PTL DEF Spec

=============================================================================
