--------------------------- MODULE DispatchProofs ---------------------------
(***************************************************************************)
(* Proofs about patterns and match(), for every pattern, path and tree:    *)
(* what the recursive functions Cuts, Lengths and Match compute, and that  *)
(* starts_with finds the longest prefix a pattern can be laid over.  And   *)
(* about Dispatch, for every tree of routes and every request: what the    *)
(* task yields, who still answers, and the way of a request to its         *)
(* handler.                                                                *)
(***************************************************************************)
EXTENDS Layout, Recursion


-----------------------------------------------------------------------------
(* The recursion of Cuts.                                                  *)

\* Ends are behind the beginning and within the path.
LEMMA EndsFacts ==
  ASSUME NEW element, NEW s, Len(s) \in Nat, NEW o \in 0 .. Len(s)
  PROVE  Ends(element, s, o) \in SUBSET (o + 1 .. Len(s))
BY DEF Ends

\* The cuts from the i-th element and offset o on, by what f says of the next one.
CutStep(p, s, f, i, o) ==
  IF i > Len(p) THEN <<o>>
  ELSE LET ok == {e \in Ends(p[i], s, o) : f[i + 1][e] # <<>>}
       IN  IF ok = {} THEN <<>> ELSE <<o>> \o f[i + 1][Preferred(ok)]

\* f says it of every element and offset.
IsCut(p, s, f) ==
  f = [i \in 1 .. Len(p) + 1 |-> [o \in 0 .. Len(s) |-> CutStep(p, s, f, i, o)]]

\* A cut in front of others.
LEMMA ConsFacts ==
  ASSUME NEW S, NEW x \in S, NEW c \in Seq(S)
  PROVE  /\ <<x>> \o c \in Seq(S) /\ Len(<<x>> \o c) = 1 + Len(c) /\ (<<x>> \o c)[1] = x
         /\ \A j \in 1 .. Len(c) : (<<x>> \o c)[j + 1] = c[j]
<1>1. <<x>> \in Seq(S) /\ Len(<<x>>) = 1 /\ <<x>>[1] = x
  OBVIOUS
<1>2. <<x>> \o c \in Seq(S) /\ Len(<<x>> \o c) = 1 + Len(c)
  BY <1>1
<1>3. (<<x>> \o c)[1] = x /\ \A j \in 1 .. Len(c) : (<<x>> \o c)[j + 1] = c[j]
  BY <1>1
<1> QED
  BY <1>2, <1>3

\* Cuts has a function behind it.
LEMMA CutsEquation ==
  ASSUME NEW p, Len(p) \in Nat, NEW s, Len(s) \in Nat
  PROVE  \E f : /\ Cuts(p, s) = f[1][0]
                /\ IsCut(p, s, f)
<1> DEFINE D == 1 .. Len(p) + 1
           O == 0 .. Len(s)
           V == [O -> Seq(Nat)]
           H == [a \in [D -> V] \X D |-> [o \in O |-> CutStep(p, s, a[1], a[2], o)]]
           size == [i \in D |-> Len(p) + 1 - i]
<1>1. V # {}
  <2>1. [o \in O |-> <<>>] \in V
    OBVIOUS
  <2> QED
    BY <2>1
<1>2. ASSUME NEW f \in [D -> V], NEW i \in D, NEW o \in O
      PROVE  CutStep(p, s, f, i, o) \in Seq(Nat)
  <2>1. CASE i > Len(p)
    BY <2>1 DEF CutStep
  <2>2. CASE ~(i > Len(p))
    <3> DEFINE ok == {e \in Ends(p[i], s, o) : f[i + 1][e] # <<>>}
    <3>1. ok \in SUBSET (0 .. Len(s))
      BY EndsFacts
    <3>2. CASE ok = {}
      BY <2>2, <3>2 DEF CutStep
    <3>3. CASE ok # {}
      <4>1. Max(ok) \in O
        <5> HIDE DEF ok
        <5>1. Len(s) \in Nat
          OBVIOUS
        <5>2. Max(ok) \in ok
          BY <3>1, <3>3, <5>1, MaxFacts
        <5> QED
          BY <3>1, <5>2
      <4>2. i + 1 \in D
        BY <2>2
      <4>3. f[i + 1][Max(ok)] \in Seq(Nat)
        BY <4>1, <4>2
      <4>4. CutStep(p, s, f, i, o) = <<o>> \o f[i + 1][Max(ok)]
        BY <2>2, <3>3 DEF CutStep, Preferred
      <4>5. <<o>> \in Seq(Nat)
        OBVIOUS
      <4> QED
        BY <4>3, <4>4, <4>5
    <3> QED
      BY <3>2, <3>3
  <2> QED
    BY <2>1, <2>2
<1>3. H \in [[D -> V] \X D -> V]
  BY <1>2
<1>4. size \in [D -> Nat] /\ Len(p) + 1 \in Nat /\ \A i \in D : size[i] < Len(p) + 1
  OBVIOUS
<1>5. ASSUME NEW g \in [D -> V], NEW h \in [D -> V], NEW i \in D,
             \A j \in D : size[j] < size[i] => g[j] = h[j]
      PROVE  H[<<g, i>>] = H[<<h, i>>]
  <2>1. ~(i > Len(p)) => g[i + 1] = h[i + 1]
    <3> SUFFICES ASSUME ~(i > Len(p)) PROVE g[i + 1] = h[i + 1]
      OBVIOUS
    <3>1. i + 1 \in D /\ size[i + 1] < size[i]
      OBVIOUS
    <3> QED
      BY <1>5, <3>1
  <2>2. ASSUME NEW o \in O PROVE CutStep(p, s, g, i, o) = CutStep(p, s, h, i, o)
    BY <2>1 DEF CutStep
  <2>3. /\ H[<<g, i>>] = [o \in O |-> CutStep(p, s, g, i, o)]
        /\ H[<<h, i>>] = [o \in O |-> CutStep(p, s, h, i, o)]
    OBVIOUS
  <2> QED
    BY <2>2, <2>3
<1>6. \E f \in [D -> V] : \A i \in D : f[i] = H[<<f, i>>]
  <2> DEFINE bound == Len(p) + 1
  <2>1. size \in [D -> Nat] /\ bound \in Nat /\ \A i \in D : size[i] < bound
    BY <1>4
  <2> HIDE DEF D, V, H, size, bound
  <2>2. \A g, h \in [D -> V], i \in D :
          (\A j \in D : size[j] < size[i] => g[j] = h[j]) => H[<<g, i>>] = H[<<h, i>>]
    BY <1>5
  <2>3. IsRecursion(D, V, size, bound, H)
    BY <1>1, <1>3, <2>1, <2>2 DEF IsRecursion
  <2>4. HasFunction(D, V, H)
    BY <2>3, RecursiveFunction
  <2> QED
    BY <2>4 DEF HasFunction
<1>7. \E f : f = [i \in D |-> [o \in O |-> CutStep(p, s, f, i, o)]]
  <2>1. PICK f \in [D -> V] : \A i \in D : f[i] = H[<<f, i>>]
    BY <1>6
  <2>2. \A i \in D : f[i] = [o \in O |-> CutStep(p, s, f, i, o)]
    BY <2>1
  <2>3. f = [i \in D |-> [o \in O |-> CutStep(p, s, f, i, o)]]
    BY <2>2
  <2> QED
    BY <2>3
<1> DEFINE cut == CHOOSE f : f = [i \in D |-> [o \in O |-> CutStep(p, s, f, i, o)]]
<1>8. cut = [i \in D |-> [o \in O |-> CutStep(p, s, cut, i, o)]]
  BY <1>7
<1>9. Cuts(p, s) = cut[1][0]
  BY DEF Cuts, CutStep
<1> QED
  BY <1>8, <1>9 DEF IsCut

\* A cut is what a step makes of the cuts behind it.
LEMMA CutIsStep ==
  ASSUME NEW p, NEW s, NEW f, IsCut(p, s, f),
         NEW i \in 1 .. Len(p) + 1, NEW o \in 0 .. Len(s)
  PROVE  f[i][o] = CutStep(p, s, f, i, o)
<1> DEFINE row(j) == [q \in 0 .. Len(s) |-> CutStep(p, s, f, j, q)]
<1>1. f = [j \in 1 .. Len(p) + 1 |-> row(j)]
  BY DEF IsCut
<1> HIDE DEF row
<1>2. f[i] = row(i)
  BY <1>1
<1> QED
  BY <1>2 DEF row

\* Behind the last element.
LEMMA CutAtEnd ==
  ASSUME NEW p, Len(p) \in Nat, NEW s, NEW f, IsCut(p, s, f)
  PROVE  \A o \in 0 .. Len(s) : f[Len(p) + 1][o] = <<o>>
<1> SUFFICES ASSUME NEW o \in 0 .. Len(s) PROVE f[Len(p) + 1][o] = <<o>>
  OBVIOUS
<1>1. Len(p) + 1 > Len(p) /\ Len(p) + 1 \in 1 .. Len(p) + 1
  OBVIOUS
<1>2. f[Len(p) + 1][o] = CutStep(p, s, f, Len(p) + 1, o)
  BY <1>1, CutIsStep, Zenon
<1> QED
  BY <1>1, <1>2 DEF CutStep

\* One element: the greedy choice among the ends from which the rest can be cut.
LEMMA CutElement ==
  ASSUME NEW p, Len(p) \in Nat, NEW s, Len(s) \in Nat,
         NEW f, IsCut(p, s, f), NEW i \in 1 .. Len(p), NEW o \in 0 .. Len(s)
  PROVE  \/ f[i][o] = <<>> /\ \A a \in Ends(p[i], s, o) : f[i + 1][a] = <<>>
         \/ \E e \in Ends(p[i], s, o) :
              /\ f[i + 1][e] # <<>> /\ f[i][o] = <<o>> \o f[i + 1][e]
              /\ \A a \in Ends(p[i], s, o) : f[i + 1][a] # <<>> => a <= e
<1> DEFINE ok == {e \in Ends(p[i], s, o) : f[i + 1][e] # <<>>}
<1>1. f[i][o] = IF ok = {} THEN <<>> ELSE <<o>> \o f[i + 1][Max(ok)]
  <2>1. ~(i > Len(p)) /\ i \in 1 .. Len(p) + 1
    OBVIOUS
  <2>2. f[i][o] = CutStep(p, s, f, i, o)
    BY <2>1, CutIsStep
  <2> QED
    BY <2>1, <2>2, Zenon DEF CutStep, Preferred
<1>2. ok \in SUBSET (0 .. Len(s)) /\ Len(s) \in Nat
  BY EndsFacts
<1>3. ok # {} => Max(ok) \in ok /\ \A a \in ok : a <= Max(ok)
  <2> HIDE DEF ok
  <2> QED
    BY <1>2, MaxFacts
<1>4. CASE ok = {}
  BY <1>1, <1>4
<1>5. CASE ok # {}
  <2>1. Max(ok) \in ok /\ f[i][o] = <<o>> \o f[i + 1][Max(ok)] /\ \A a \in ok : a <= Max(ok)
    BY <1>1, <1>3, <1>5
  <2> QED
    BY <2>1
<1> QED
  BY <1>4, <1>5

\* c says where the elements of p from the i-th on can be laid over s from o on.
Laid(p, s, i, o, c) ==
  /\ c \in Seq(0 .. Len(s)) /\ Len(c) = Len(p) + 2 - i /\ c[1] = o
  /\ \A j \in 1 .. Len(p) + 1 - i : c[j + 1] \in Ends(p[i + j - 1], s, c[j])

\* An element in front of the others.
LEMMA LaidCons ==
  ASSUME NEW p, Len(p) \in Nat, NEW s, Len(s) \in Nat,
         NEW i \in 1 .. Len(p), NEW o \in 0 .. Len(s), NEW e \in Ends(p[i], s, o),
         NEW c, Laid(p, s, i + 1, e, c)
  PROVE  Laid(p, s, i, o, <<o>> \o c) /\ (<<o>> \o c)[Len(p) + 2 - i] = c[Len(p) + 1 - i]
<1> DEFINE d == <<o>> \o c
<1>1. c \in Seq(0 .. Len(s)) /\ Len(c) = Len(p) + 1 - i /\ c[1] = e /\ Len(c) \in Nat
  BY DEF Laid
<1>2. d \in Seq(0 .. Len(s)) /\ Len(d) = Len(p) + 2 - i /\ d[1] = o
      /\ \A j \in 1 .. Len(c) : d[j + 1] = c[j]
  <2>1. /\ d \in Seq(0 .. Len(s)) /\ Len(d) = 1 + Len(c) /\ d[1] = o
        /\ \A j \in 1 .. Len(c) : d[j + 1] = c[j]
    <3>1. c \in Seq(0 .. Len(s))
      BY <1>1
    <3>2. d \in Seq(0 .. Len(s))
      BY <3>1, ConsFacts
    <3>3. Len(d) = 1 + Len(c)
      BY <3>1, ConsFacts
    <3>4. d[1] = o
      BY <3>1, ConsFacts
    <3>5. \A j \in 1 .. Len(c) : d[j + 1] = c[j]
      BY <3>1, ConsFacts
    <3> QED
      BY <3>2, <3>3, <3>4, <3>5
  <2> HIDE DEF d
  <2>2. Len(d) = Len(p) + 2 - i
    BY <1>1, <2>1
  <2> QED
    BY <2>1, <2>2
<1>3. ASSUME NEW j \in 1 .. Len(p) + 1 - i PROVE d[j + 1] \in Ends(p[i + j - 1], s, d[j])
  <2>1. CASE j = 1
    <3>1. d[2] = e
      BY <1>1, <1>2
    <3>2. i + j - 1 = i
      BY <2>1
    <3> HIDE DEF d
    <3> QED
      BY <1>2, <2>1, <3>1, <3>2
  <2>2. CASE j # 1
    <3>1. j - 1 \in 1 .. Len(p) + 1 - (i + 1) /\ (j - 1) + 1 = j
          /\ (i + 1) + (j - 1) - 1 = i + j - 1
      BY <2>2
    <3>2. c[(j - 1) + 1] \in Ends(p[(i + 1) + (j - 1) - 1], s, c[j - 1])
      BY <3>1 DEF Laid
    <3>3. d[j + 1] = c[j] /\ d[j] = c[j - 1]
      <4>1. j \in 1 .. Len(c) /\ j - 1 \in 1 .. Len(c)
        BY <1>1, <2>2
      <4> HIDE DEF d
      <4> QED
        BY <1>2, <3>1, <4>1
    <3> QED
      BY <3>1, <3>2, <3>3
  <2> QED
    BY <2>1, <2>2
<1>4. d[Len(p) + 2 - i] = c[Len(p) + 1 - i]
  <2>1. Len(p) + 1 - i \in 1 .. Len(c) /\ (Len(p) + 1 - i) + 1 = Len(p) + 2 - i
    BY <1>1
  <2> HIDE DEF d
  <2> QED
    BY <1>2, <2>1
<1> HIDE DEF d
<1>5. Laid(p, s, i, o, d)
  BY <1>2, <1>3 DEF Laid
<1> QED
  BY <1>4, <1>5 DEF d

\* And without it.
LEMMA LaidTail ==
  ASSUME NEW p, Len(p) \in Nat, NEW s, Len(s) \in Nat,
         NEW i \in 1 .. Len(p), NEW o \in 0 .. Len(s), NEW c, Laid(p, s, i, o, c)
  PROVE  \E e \in Ends(p[i], s, o) : \E d :
           Laid(p, s, i + 1, e, d) /\ d[Len(p) + 1 - i] = c[Len(p) + 2 - i]
<1> DEFINE d == Tail(c)
<1>1. c \in Seq(0 .. Len(s)) /\ Len(c) = Len(p) + 2 - i /\ c[1] = o /\ Len(c) \in Nat /\ c # <<>>
  BY DEF Laid
<1>2. d \in Seq(0 .. Len(s)) /\ Len(d) = Len(p) + 1 - i
      /\ \A j \in 1 .. Len(p) + 1 - i : d[j] = c[j + 1]
  BY <1>1
<1> HIDE DEF d
<1>3. d[1] = c[2] /\ c[2] \in Ends(p[i], s, o)
  <2>1. 1 \in 1 .. Len(p) + 1 - i /\ 1 + 1 = 2 /\ i + 1 - 1 = i
    OBVIOUS
  <2> QED
    BY <1>1, <1>2, <2>1 DEF Laid
<1>4. ASSUME NEW j \in 1 .. Len(p) + 1 - (i + 1)
      PROVE  d[j + 1] \in Ends(p[(i + 1) + j - 1], s, d[j])
  <2>1. /\ j + 1 \in 1 .. Len(p) + 1 - i /\ j \in 1 .. Len(p) + 1 - i
        /\ i + (j + 1) - 1 = (i + 1) + j - 1
    OBVIOUS
  <2>2. c[(j + 1) + 1] \in Ends(p[i + (j + 1) - 1], s, c[j + 1])
    BY <2>1 DEF Laid
  <2> QED
    BY <1>2, <2>1, <2>2
<1>5. Laid(p, s, i + 1, c[2], d)
  BY <1>2, <1>3, <1>4 DEF Laid
<1>6. d[Len(p) + 1 - i] = c[Len(p) + 2 - i]
  <2>1. Len(p) + 1 - i \in 1 .. Len(p) + 1 - i /\ (Len(p) + 1 - i) + 1 = Len(p) + 2 - i
    OBVIOUS
  <2> QED
    BY <1>2, <2>1
<1> QED
  BY <1>3, <1>5, <1>6

\* What Cuts finds is a way to lay the pattern.
LEMMA CutIsLaid ==
  ASSUME NEW p, Len(p) \in Nat, NEW s, Len(s) \in Nat, NEW f, IsCut(p, s, f)
  PROVE  \A i \in 1 .. Len(p) + 1 : \A o \in 0 .. Len(s) :
           f[i][o] # <<>> => Laid(p, s, i, o, f[i][o])
<1> DEFINE Fact(i) == \A o \in 0 .. Len(s) : f[i][o] # <<>> => Laid(p, s, i, o, f[i][o])
           T == {i \in Nat : Fact(i)}
<1>1. Fact(Len(p) + 1)
  <2> SUFFICES ASSUME NEW o \in 0 .. Len(s) PROVE Laid(p, s, Len(p) + 1, o, f[Len(p) + 1][o])
    OBVIOUS
  <2>1. f[Len(p) + 1][o] = <<o>>
    BY CutAtEnd
  <2>2. <<o>> \in Seq(0 .. Len(s)) /\ Len(<<o>>) = 1 /\ <<o>>[1] = o
    OBVIOUS
  <2>3. Len(p) + 2 - (Len(p) + 1) = 1 /\ 1 .. Len(p) + 1 - (Len(p) + 1) = {}
    OBVIOUS
  <2> QED
    BY <2>1, <2>2, <2>3 DEF Laid
<1>2. ASSUME NEW i \in 1 .. Len(p), Fact(i + 1) PROVE Fact(i)
  <2> SUFFICES ASSUME NEW o \in 0 .. Len(s), f[i][o] # <<>> PROVE Laid(p, s, i, o, f[i][o])
    OBVIOUS
  <2>1. \/ f[i][o] = <<>> /\ \A x \in Ends(p[i], s, o) : f[i + 1][x] = <<>>
        \/ \E e \in Ends(p[i], s, o) :
             /\ f[i + 1][e] # <<>> /\ f[i][o] = <<o>> \o f[i + 1][e]
             /\ \A x \in Ends(p[i], s, o) : f[i + 1][x] # <<>> => x <= e
    BY CutElement
  <2>2. PICK e \in Ends(p[i], s, o) : f[i + 1][e] # <<>> /\ f[i][o] = <<o>> \o f[i + 1][e]
    BY <2>1
  <2>3. e \in 0 .. Len(s)
    BY EndsFacts
  <2>4. Laid(p, s, i + 1, e, f[i + 1][e])
    BY <1>2, <2>2, <2>3
  <2> QED
    BY <2>2, <2>4, LaidCons
<1> HIDE DEF Fact
<1>3. Len(p) + 1 \in T /\ \A i \in 1 .. Len(p) : i + 1 \in T => i \in T
  BY <1>1, <1>2
<1> HIDE DEF T
<1>4. \A i \in 1 .. Len(p) + 1 : i \in T
  BY <1>3, StepDown
<1> QED
  BY <1>4 DEF T, Fact

\* Where the pattern can be laid Cuts finds a way, and none ends behind the end of
\* this one, not even one that begins before it: the first ":key" that differs
\* would have taken more.
LEMMA LaidIsCut ==
  ASSUME NEW p, Len(p) \in Nat, NEW s, Len(s) \in Nat, NEW f, IsCut(p, s, f)
  PROVE  \A i \in 1 .. Len(p) + 1 : \A o \in 0 .. Len(s) : \A c :
           Laid(p, s, i, o, c) =>
             /\ f[i][o] # <<>>
             /\ \A b \in o .. Len(s) : f[i][b] # <<>> =>
                  c[Len(p) + 2 - i] <= f[i][b][Len(p) + 2 - i]
<1> DEFINE Longest(i, o, c) ==
             /\ f[i][o] # <<>>
             /\ \A b \in o .. Len(s) : f[i][b] # <<>> =>
                  c[Len(p) + 2 - i] <= f[i][b][Len(p) + 2 - i]
           Fact(i) == \A o \in 0 .. Len(s) : \A c : Laid(p, s, i, o, c) => Longest(i, o, c)
           T == {i \in Nat : Fact(i)}
<1>1. Fact(Len(p) + 1)
  <2> SUFFICES ASSUME NEW o \in 0 .. Len(s), NEW c, Laid(p, s, Len(p) + 1, o, c)
               PROVE  Longest(Len(p) + 1, o, c)
    OBVIOUS
  <2>1. Len(p) + 2 - (Len(p) + 1) = 1 /\ c[1] = o
    BY DEF Laid
  <2>2. f[Len(p) + 1][o] = <<o>>
    BY CutAtEnd
  <2>3. ASSUME NEW b \in o .. Len(s) PROVE c[1] <= f[Len(p) + 1][b][1]
    <3>1. f[Len(p) + 1][b] = <<b>>
      BY CutAtEnd
    <3> QED
      BY <2>1, <3>1
  <2> QED
    BY <2>1, <2>2, <2>3
<1>2. ASSUME NEW i \in 1 .. Len(p), Fact(i + 1) PROVE Fact(i)
  <2> SUFFICES ASSUME NEW o \in 0 .. Len(s), NEW c, Laid(p, s, i, o, c) PROVE Longest(i, o, c)
    OBVIOUS
  <2>1. i + 1 \in 1 .. Len(p) + 1 /\ Len(p) + 2 - (i + 1) = Len(p) + 1 - i
    OBVIOUS
  <2>2. PICK a \in Ends(p[i], s, o) :
          \E d : Laid(p, s, i + 1, a, d) /\ d[Len(p) + 1 - i] = c[Len(p) + 2 - i]
    BY LaidTail
  <2>3. PICK d : Laid(p, s, i + 1, a, d) /\ d[Len(p) + 1 - i] = c[Len(p) + 2 - i]
    BY <2>2
  <2>4. a \in o + 1 .. Len(s) /\ a \in 0 .. Len(s)
    BY EndsFacts
  <2>5. Longest(i + 1, a, d)
    BY <1>2, <2>2, <2>3, <2>4
  <2>6. f[i][o] # <<>>
    <3>1. f[i + 1][a] # <<>>
      BY <2>5
    <3>2. \/ f[i][o] = <<>> /\ \A x \in Ends(p[i], s, o) : f[i + 1][x] = <<>>
          \/ \E e \in Ends(p[i], s, o) :
               /\ f[i + 1][e] # <<>> /\ f[i][o] = <<o>> \o f[i + 1][e]
               /\ \A x \in Ends(p[i], s, o) : f[i + 1][x] # <<>> => x <= e
      BY CutElement
    <3>3. PICK e \in Ends(p[i], s, o) : f[i + 1][e] # <<>> /\ f[i][o] = <<o>> \o f[i + 1][e]
      BY <2>2, <2>3, <3>2, <3>1
    <3>4. e \in 0 .. Len(s)
      BY EndsFacts
    <3>5. Laid(p, s, i + 1, e, f[i + 1][e])
      BY <2>1, <3>3, <3>4, CutIsLaid
    <3>6. Laid(p, s, i, o, f[i][o])
      BY <3>3, <3>5, LaidCons
    <3>7. Len(f[i][o]) = Len(p) + 2 - i /\ Len(p) + 2 - i # 0
      BY <3>6 DEF Laid
    <3> QED
      BY <3>7
  <2>7. ASSUME NEW b \in o .. Len(s), f[i][b] # <<>>
        PROVE  c[Len(p) + 2 - i] <= f[i][b][Len(p) + 2 - i]
    <3>1. b \in 0 .. Len(s)
      OBVIOUS
    <3>2. PICK e \in Ends(p[i], s, b) :
            /\ f[i + 1][e] # <<>> /\ f[i][b] = <<b>> \o f[i + 1][e]
            /\ \A x \in Ends(p[i], s, b) : f[i + 1][x] # <<>> => x <= e
      BY <2>7, <3>1, CutElement, Zenon
    <3>3. e \in b + 1 .. Len(s) /\ e \in 0 .. Len(s)
      BY <3>1, EndsFacts
    <3>4. a <= e
      <4>1. CASE p[i].param
        <5>1. CASE a <= b
          BY <2>4, <3>3, <5>1
        <5>2. CASE ~(a <= b)
          <6>1. a \in Ends(p[i], s, b)
            BY <2>4, <3>1, <4>1, <5>2 DEF Ends
          <6>2. f[i + 1][a] # <<>>
            BY <2>5
          <6> QED
            BY <3>2, <6>1, <6>2
        <5> QED
          BY <5>1, <5>2
      <4>2. CASE ~p[i].param
        <5>1. a = o + 1
          BY <2>2, <2>3, <4>2 DEF Ends
        <5> QED
          BY <3>3, <5>1
      <4> QED
        BY <4>1, <4>2
    <3>5. d[Len(p) + 1 - i] <= f[i + 1][e][Len(p) + 1 - i]
      <4>1. e \in a .. Len(s)
        BY <2>4, <3>3, <3>4
      <4> QED
        BY <2>1, <2>5, <3>2, <4>1
    <3>6. f[i][b][Len(p) + 2 - i] = f[i + 1][e][Len(p) + 1 - i]
      <4>1. Laid(p, s, i + 1, e, f[i + 1][e])
        BY <2>1, <3>2, <3>3, CutIsLaid
      <4>2. (<<b>> \o f[i + 1][e])[Len(p) + 2 - i] = f[i + 1][e][Len(p) + 1 - i]
        BY <3>1, <4>1, LaidCons, ZenonT(40)
      <4> QED
        BY <3>2, <4>2
    <3> QED
      BY <2>2, <2>3, <3>5, <3>6
  <2> QED
    BY <2>6, <2>7
<1> HIDE DEF Fact
<1>3. Len(p) + 1 \in T /\ \A i \in 1 .. Len(p) : i + 1 \in T => i \in T
  BY <1>1, <1>2
<1> HIDE DEF T
<1>4. \A i \in 1 .. Len(p) + 1 : i \in T
  BY <1>3, StepDown
<1> QED
  BY <1>4 DEF T, Fact

\* The recursion of Lengths, over the number of elements.
IsReach(p, s, f) ==
  f = [i \in 0 .. Len(p) |-> IF i = 0 THEN {0} ELSE UNION {Ends(p[i], s, o) : o \in f[i - 1]}]

\* Lengths has a function behind it.
LEMMA LengthsEquation ==
  ASSUME NEW p, Len(p) \in Nat, NEW s, Len(s) \in Nat
  PROVE  \E f : Lengths(p, s) = f[Len(p)] /\ IsReach(p, s, f)
                /\ \A i \in 0 .. Len(p) : f[i] \in SUBSET (0 .. Len(s))
<1> DEFINE D == 0 .. Len(p)
           V == SUBSET (0 .. Len(s))
           step(f, i) == IF i = 0 THEN {0} ELSE UNION {Ends(p[i], s, o) : o \in f[i - 1]}
           H == [a \in [D -> V] \X D |-> step(a[1], a[2])]
           size == [i \in D |-> i]
           bound == Len(p) + 1
<1>1. V # {} /\ size \in [D -> Nat] /\ bound \in Nat /\ \A i \in D : size[i] < bound
  OBVIOUS
<1>2. ASSUME NEW f \in [D -> V], NEW i \in D PROVE step(f, i) \in V
  <2>1. CASE i = 0
    BY <2>1
  <2>2. CASE i # 0
    <3>1. f[i - 1] \in V
      BY <2>2
    <3>2. \A o \in f[i - 1] : Ends(p[i], s, o) \in V
      BY <3>1, EndsFacts
    <3> QED
      BY <2>2, <3>2
  <2> QED
    BY <2>1, <2>2
<1>3. H \in [[D -> V] \X D -> V]
  BY <1>2
<1>4. \A g, h \in [D -> V], i \in D :
        (\A j \in D : size[j] < size[i] => g[j] = h[j]) => H[<<g, i>>] = H[<<h, i>>]
  <2> SUFFICES ASSUME NEW g \in [D -> V], NEW h \in [D -> V], NEW i \in D,
                      \A j \in D : size[j] < size[i] => g[j] = h[j]
               PROVE  H[<<g, i>>] = H[<<h, i>>]
    OBVIOUS
  <2>1. i # 0 => i - 1 \in D /\ size[i - 1] < size[i]
    OBVIOUS
  <2>2. i # 0 => g[i - 1] = h[i - 1]
    BY <2>1
  <2>3. H[<<g, i>>] = step(g, i) /\ H[<<h, i>>] = step(h, i)
    <3> HIDE DEF step, D, V
    <3> QED
      OBVIOUS
  <2> QED
    BY <2>2, <2>3
<1>5. HasFunction(D, V, H)
  <2> HIDE DEF D, V, H, size, bound
  <2>1. IsRecursion(D, V, size, bound, H)
    BY <1>1, <1>3, <1>4 DEF IsRecursion
  <2> QED
    BY <2>1, RecursiveFunction
<1>6. \E f : f = [i \in D |-> step(f, i)]
  <2>1. PICK f \in [D -> V] : \A i \in D : f[i] = H[<<f, i>>]
    BY <1>5 DEF HasFunction
  <2>2. \A i \in D : f[i] = step(f, i)
    BY <2>1
  <2> HIDE DEF step
  <2>3. f = [i \in D |-> step(f, i)]
    BY <2>2
  <2> QED
    BY <2>3
<1> DEFINE reach == CHOOSE f : f = [i \in D |-> step(f, i)]
<1>7. reach = [i \in D |-> step(reach, i)]
  BY <1>6
<1>8. Lengths(p, s) = reach[Len(p)]
  BY DEF Lengths
<1> HIDE DEF reach
<1>9. \A n \in Nat : n \in {i \in Nat : i <= Len(p) => reach[i] \in V}
  <2> DEFINE T == {i \in Nat : i <= Len(p) => reach[i] \in V}
  <2>1. ASSUME NEW n \in Nat, \A m \in 0 .. n - 1 : m \in T PROVE n \in T
    <3> SUFFICES ASSUME n <= Len(p) PROVE reach[n] \in V
      OBVIOUS
    <3>1. reach[n] = step(reach, n)
      <4>1. n \in D
        OBVIOUS
      <4> HIDE DEF step, D
      <4> QED
        BY <1>7, <4>1
    <3>2. CASE n = 0
      BY <3>1, <3>2
    <3>3. CASE n # 0
      <4>1. reach[n - 1] \in V
        <5>1. n - 1 \in 0 .. n - 1 /\ n - 1 <= Len(p)
          BY <3>3
        <5> QED
          BY <2>1, <5>1
      <4>2. \A o \in reach[n - 1] : Ends(p[n], s, o) \in V
        BY <4>1, EndsFacts
      <4> QED
        BY <3>1, <3>3, <4>2
    <3> QED
      BY <3>2, <3>3
  <2> HIDE DEF T
  <2>2. \A n \in Nat : n \in T
    BY <2>1, Induction
  <2> QED
    BY <2>2 DEF T
<1>10. \A i \in 0 .. Len(p) : reach[i] \in V
  BY <1>9
<1>11. IsReach(p, s, reach)
  BY <1>7, Zenon DEF IsReach
<1> QED
  BY <1>8, <1>10, <1>11

\* What is reached in front of an element and behind it.
LEMMA ReachFacts ==
  ASSUME NEW p, Len(p) \in Nat, NEW s, NEW f, IsReach(p, s, f)
  PROVE  /\ f[0] = {0}
         /\ \A i \in 1 .. Len(p) : f[i] = UNION {Ends(p[i], s, o) : o \in f[i - 1]}
<1> DEFINE step(i) == IF i = 0 THEN {0} ELSE UNION {Ends(p[i], s, o) : o \in f[i - 1]}
<1>1. f = [i \in 0 .. Len(p) |-> step(i)]
  BY DEF IsReach
<1> HIDE DEF step
<1>2. \A i \in 0 .. Len(p) : f[i] = step(i)
  BY <1>1
<1>3. f[0] = {0}
  <2>1. f[0] = step(0)
    BY <1>2
  <2> QED
    BY <2>1 DEF step
<1>4. ASSUME NEW i \in 1 .. Len(p) PROVE f[i] = UNION {Ends(p[i], s, o) : o \in f[i - 1]}
  <2>1. f[i] = step(i) /\ i # 0
    BY <1>2
  <2> QED
    BY <2>1 DEF step
<1> QED
  BY <1>3, <1>4

\* A way to lay the elements from the i-th on, from where those before it end, ends
\* at one of the Lengths.
LEMMA LaidIsReached ==
  ASSUME NEW p, Len(p) \in Nat, NEW s, Len(s) \in Nat, NEW f, IsReach(p, s, f),
         \A i \in 0 .. Len(p) : f[i] \in SUBSET (0 .. Len(s))
  PROVE  \A i \in 1 .. Len(p) + 1 : \A o \in f[i - 1] : \A c :
           Laid(p, s, i, o, c) => c[Len(p) + 2 - i] \in f[Len(p)]
<1> DEFINE Fact(i) == \A o \in f[i - 1] : \A c :
                        Laid(p, s, i, o, c) => c[Len(p) + 2 - i] \in f[Len(p)]
           T == {i \in Nat : Fact(i)}
<1>1. Fact(Len(p) + 1)
  <2>1. Len(p) + 1 - 1 = Len(p) /\ Len(p) + 2 - (Len(p) + 1) = 1
    OBVIOUS
  <2> QED
    BY <2>1 DEF Laid
<1>2. ASSUME NEW i \in 1 .. Len(p), Fact(i + 1) PROVE Fact(i)
  <2> SUFFICES ASSUME NEW o \in f[i - 1], NEW c, Laid(p, s, i, o, c)
               PROVE  c[Len(p) + 2 - i] \in f[Len(p)]
    OBVIOUS
  <2>1. o \in 0 .. Len(s)
    <3>1. i - 1 \in 0 .. Len(p)
      OBVIOUS
    <3> QED
      BY <3>1
  <2>2. PICK e \in Ends(p[i], s, o) :
          \E d : Laid(p, s, i + 1, e, d) /\ d[Len(p) + 1 - i] = c[Len(p) + 2 - i]
    BY <2>1, LaidTail
  <2>3. PICK d : Laid(p, s, i + 1, e, d) /\ d[Len(p) + 1 - i] = c[Len(p) + 2 - i]
    BY <2>2
  <2>4. e \in f[i] /\ (i + 1) - 1 = i /\ Len(p) + 2 - (i + 1) = Len(p) + 1 - i
    BY ReachFacts
  <2> QED
    BY <1>2, <2>2, <2>3, <2>4
<1> HIDE DEF Fact
<1>3. Len(p) + 1 \in T /\ \A i \in 1 .. Len(p) : i + 1 \in T => i \in T
  BY <1>1, <1>2
<1> HIDE DEF T
<1>4. \A i \in 1 .. Len(p) + 1 : i \in T
  BY <1>3, StepDown
<1> QED
  BY <1>4 DEF T, Fact

\* And each of the Lengths has a way to it.
LEMMA ReachedIsLaid ==
  ASSUME NEW p, Len(p) \in Nat, NEW s, Len(s) \in Nat, NEW f, IsReach(p, s, f),
         \A i \in 0 .. Len(p) : f[i] \in SUBSET (0 .. Len(s)), NEW l \in f[Len(p)]
  PROVE  \E c : Laid(p, s, 1, 0, c) /\ c[Len(p) + 1] = l
<1> DEFINE Fact(i) == \E o \in f[i - 1] : \E c : Laid(p, s, i, o, c) /\ c[Len(p) + 2 - i] = l
           T == {i \in Nat : Fact(i)}
<1>1. Fact(Len(p) + 1)
  <2>1. Len(p) + 1 - 1 = Len(p) /\ Len(p) + 2 - (Len(p) + 1) = 1
        /\ 1 .. Len(p) + 1 - (Len(p) + 1) = {}
    OBVIOUS
  <2>2. l \in 0 .. Len(s)
    OBVIOUS
  <2>3. <<l>> \in Seq(0 .. Len(s)) /\ Len(<<l>>) = 1 /\ <<l>>[1] = l
    BY <2>2
  <2>4. Laid(p, s, Len(p) + 1, l, <<l>>)
    BY <2>1, <2>3 DEF Laid
  <2> QED
    BY <2>1, <2>3, <2>4
<1>2. ASSUME NEW i \in 1 .. Len(p), Fact(i + 1) PROVE Fact(i)
  <2>1. (i + 1) - 1 = i /\ Len(p) + 2 - (i + 1) = Len(p) + 1 - i /\ i - 1 \in 0 .. Len(p)
    OBVIOUS
  <2>2. PICK e \in f[i] : \E c : Laid(p, s, i + 1, e, c) /\ c[Len(p) + 1 - i] = l
    BY <1>2, <2>1
  <2>3. PICK c : Laid(p, s, i + 1, e, c) /\ c[Len(p) + 1 - i] = l
    BY <2>2
  <2>4. PICK o \in f[i - 1] : e \in Ends(p[i], s, o)
    BY ReachFacts
  <2>5. o \in 0 .. Len(s)
    BY <2>1
  <2>6. Laid(p, s, i, o, <<o>> \o c) /\ (<<o>> \o c)[Len(p) + 2 - i] = l
    BY <2>3, <2>4, <2>5, LaidCons
  <2> QED
    BY <2>6
<1> HIDE DEF Fact
<1>3. Len(p) + 1 \in T /\ \A i \in 1 .. Len(p) : i + 1 \in T => i \in T
  BY <1>1, <1>2
<1> HIDE DEF T
<1>4. 1 \in T
  <2>1. 1 \in 1 .. Len(p) + 1
    OBVIOUS
  <2> QED
    BY <1>3, <2>1, StepDown
<1>5. PICK o \in f[1 - 1] : \E c : Laid(p, s, 1, o, c) /\ c[Len(p) + 2 - 1] = l
  BY <1>4 DEF T, Fact
<1>6. o = 0 /\ Len(p) + 2 - 1 = Len(p) + 1
  BY ReachFacts
<1> QED
  BY <1>5, <1>6

-----------------------------------------------------------------------------
(* What a pattern matches.                                                 *)

\* The greedy choice of each ":key" in turn, with backtracking inside the pattern,
\* finds the longest prefix over which the pattern can be laid, and one if there is
\* any (starts_with of a pattern from path_pattern_to_regex).
THEOREM LongestPrefix ==
  ASSUME NEW p, Len(p) \in Nat, NEW s, Len(s) \in Nat
  PROVE  /\ Lengths(p, s) \in SUBSET (0 .. Len(s))
         /\ StartsWith(p, s) <=> Lengths(p, s) # {}
         /\ StartsWith(p, s) =>
              /\ MatchLen(p, s) \in Lengths(p, s)
              /\ \A l \in Lengths(p, s) : l <= MatchLen(p, s)
              /\ MatchLen(p, s) = Max(Lengths(p, s))
              /\ Laid(p, s, 1, 0, Cuts(p, s))
<1>1. PICK f : Cuts(p, s) = f[1][0] /\ IsCut(p, s, f)
  BY CutsEquation
<1>2. PICK g : /\ Lengths(p, s) = g[Len(p)] /\ IsReach(p, s, g)
               /\ \A i \in 0 .. Len(p) : g[i] \in SUBSET (0 .. Len(s))
  BY LengthsEquation
<1>3. Lengths(p, s) \in SUBSET (0 .. Len(s))
  <2>1. Len(p) \in 0 .. Len(p)
    OBVIOUS
  <2> QED
    BY <1>2, <2>1
<1>4. 1 \in 1 .. Len(p) + 1 /\ 0 \in 0 .. Len(s) /\ 0 \in g[1 - 1] /\ Len(p) + 2 - 1 = Len(p) + 1
  BY <1>2, ReachFacts
<1>5. ASSUME StartsWith(p, s)
      PROVE  Laid(p, s, 1, 0, Cuts(p, s)) /\ MatchLen(p, s) \in Lengths(p, s)
  <2>1. Laid(p, s, 1, 0, f[1][0])
    BY <1>1, <1>4, <1>5, CutIsLaid DEF StartsWith
  <2>2. f[1][0][Len(p) + 2 - 1] \in g[Len(p)]
    BY <1>2, <1>4, <2>1, LaidIsReached
  <2> QED
    BY <1>1, <1>2, <1>4, <2>1, <2>2 DEF MatchLen
<1>6. ASSUME NEW l \in Lengths(p, s) PROVE StartsWith(p, s) /\ l <= MatchLen(p, s)
  <2>1. PICK c : Laid(p, s, 1, 0, c) /\ c[Len(p) + 1] = l
    BY <1>2, ReachedIsLaid
  <2>2. /\ f[1][0] # <<>>
        /\ \A b \in 0 .. Len(s) : f[1][b] # <<>> => c[Len(p) + 2 - 1] <= f[1][b][Len(p) + 2 - 1]
    BY <1>1, <1>4, <2>1, LaidIsCut
  <2> QED
    BY <1>1, <1>4, <2>1, <2>2 DEF StartsWith, MatchLen
<1>7. ASSUME StartsWith(p, s) PROVE MatchLen(p, s) = Max(Lengths(p, s))
  <2>1. Max(Lengths(p, s)) \in Lengths(p, s) /\ MatchLen(p, s) <= Max(Lengths(p, s))
    BY <1>3, <1>5, <1>7, MaxFacts
  <2>2. Max(Lengths(p, s)) <= MatchLen(p, s)
    BY <1>6, <2>1
  <2> QED
    BY <1>3, <1>5, <1>7, <2>1, <2>2
<1> QED
  BY <1>3, <1>5, <1>6, <1>7

\* What is left of a path.
LEMMA RestFacts ==
  ASSUME NEW Text, NEW path \in Seq(Text), NEW o \in 0 .. Len(path)
  PROVE  /\ Rest(path, o) \in Seq(Text) /\ Len(Rest(path, o)) = Len(path) - o
         /\ Len(Rest(path, o)) \in Nat
         /\ \A i \in 1 .. Len(path) - o : Rest(path, o)[i] = path[o + i]
BY DEF Rest

-----------------------------------------------------------------------------
(* A path cut by one pattern after the other.                              *)

\* c says where the elements of tr are cut out of path, up to o, and what of it
\* the parameters ps hold.
Spells(path, tr, ps, o, c) ==
  /\ c \in Seq(0 .. Len(path)) /\ Len(c) = Len(tr) + 1 /\ c[1] = 0 /\ c[Len(tr) + 1] = o
  /\ \A i \in 1 .. Len(tr) :
       /\ c[i + 1] \in Ends(tr[i], path, c[i])
       /\ tr[i].param => ps[tr[i].name] = SubSeq(path, c[i] + 1, c[i + 1])

\* The parameters qs hold what ps hold for the elements of tr, and what d cuts out
\* of s for those of p.
KeepsNames(tr, ps, qs) ==
  \A i \in 1 .. Len(tr) : tr[i].param => qs[tr[i].name] = ps[tr[i].name]
Captured(p, s, d, qs) ==
  \A j \in 1 .. Len(p) : p[j].param => qs[p[j].name] = SubSeq(s, d[j] + 1, d[j + 1])

\* An end in the rest of a path is one in the path.
LEMMA EndsInRest ==
  ASSUME NEW Text, NEW path \in Seq(Text), NEW o \in 0 .. Len(path)
  PROVE  \A element : \A a \in 0 .. Len(path) - o : \A b \in Ends(element, Rest(path, o), a) :
           /\ o + b \in Ends(element, path, o + a)
           /\ SubSeq(Rest(path, o), a + 1, b) = SubSeq(path, o + a + 1, o + b)
<1> SUFFICES ASSUME NEW element, NEW a \in 0 .. Len(path) - o,
                    NEW b \in Ends(element, Rest(path, o), a)
             PROVE  /\ o + b \in Ends(element, path, o + a)
                    /\ SubSeq(Rest(path, o), a + 1, b) = SubSeq(path, o + a + 1, o + b)
  OBVIOUS
<1> DEFINE s == Rest(path, o)
<1>1. /\ s \in Seq(Text) /\ Len(s) = Len(path) - o
      /\ \A i \in 1 .. Len(path) - o : s[i] = path[o + i]
  BY RestFacts
<1>2. b \in a + 1 .. Len(s) /\ Len(path) \in Nat
  BY <1>1, EndsFacts
<1>3. o + a \in 0 .. Len(path) /\ o + b \in o + a + 1 .. Len(path)
  BY <1>1, <1>2
<1>4. o + b \in Ends(element, path, o + a)
  <2>1. CASE element.param
    BY <1>3, <2>1 DEF Ends
  <2>2. CASE ~element.param
    <3>1. b = a + 1 /\ s[b] = element.name
      BY <2>2 DEF Ends
    <3>2. b \in 1 .. Len(path) - o
      BY <1>1, <1>2
    <3>3. path[o + b] = element.name
      BY <1>1, <3>1, <3>2
    <3>4. o + b = (o + a) + 1 /\ o + b <= Len(path)
      BY <1>3, <3>1
    <3> QED
      BY <2>2, <3>3, <3>4 DEF Ends
  <2> QED
    BY <2>1, <2>2
<1>5. SubSeq(s, a + 1, b) = SubSeq(path, o + a + 1, o + b)
  <2>1. /\ o + 1 \in 1 .. Len(path) /\ Len(path) \in 1 .. Len(path)
        /\ a + 1 \in 1 .. Len(path) - (o + 1) + 1 /\ b \in 1 .. Len(path) - (o + 1) + 1
        /\ (o + 1) + (a + 1) - 1 = o + a + 1 /\ (o + 1) + b - 1 = o + b
    BY <1>1, <1>2
  <2>2. SubSeq(SubSeq(path, o + 1, Len(path)), a + 1, b)
          = SubSeq(path, (o + 1) + (a + 1) - 1, (o + 1) + b - 1)
    BY <2>1, SubSeqOfSubSeq
  <2> QED
    BY <2>1, <2>2 DEF Rest
<1> QED
  BY <1>3, <1>4, <1>5

\* One more pattern.
LEMMA SpellsOn ==
  ASSUME NEW Text, NEW path \in Seq(Text), NEW Element, NEW tr \in Seq(Element),
         NEW ps, NEW o \in 0 .. Len(path), NEW c, Spells(path, tr, ps, o, c),
         NEW p \in Seq(Element), NEW d, Laid(p, Rest(path, o), 1, 0, d), NEW qs,
         KeepsNames(tr, ps, qs), Captured(p, Rest(path, o), d, qs)
  PROVE  \E e : Spells(path, tr \o p, qs, o + d[Len(p) + 1], e)
<1> DEFINE s == Rest(path, o)
           n == Len(tr)
           m == Len(p)
           e == [i \in 1 .. n + m + 1 |-> IF i <= n + 1 THEN c[i] ELSE o + d[i - n]]
<1>1. \A element : \A a \in 0 .. Len(path) - o : \A b \in Ends(element, Rest(path, o), a) :
        /\ o + b \in Ends(element, path, o + a)
        /\ SubSeq(Rest(path, o), a + 1, b) = SubSeq(path, o + a + 1, o + b)
  BY EndsInRest
<1>2. /\ Len(path) \in Nat /\ Len(s) = Len(path) - o /\ n \in Nat /\ m \in Nat
      /\ tr \o p \in Seq(Element) /\ Len(tr \o p) = n + m
      /\ \A i \in 1 .. n : (tr \o p)[i] = tr[i]
      /\ \A j \in 1 .. m : (tr \o p)[n + j] = p[j]
  BY RestFacts
<1>3. /\ \A i \in 1 .. n + 1 : c[i] \in 0 .. Len(path)
      /\ c[1] = 0 /\ c[n + 1] = o
      /\ \A i \in 1 .. n : /\ c[i + 1] \in Ends(tr[i], path, c[i])
                           /\ tr[i].param => ps[tr[i].name] = SubSeq(path, c[i] + 1, c[i + 1])
  BY <1>2 DEF Spells
<1>4. /\ \A j \in 1 .. m + 1 : d[j] \in 0 .. Len(path) - o
      /\ d[1] = 0
      /\ \A j \in 1 .. m : d[j + 1] \in Ends(p[j], s, d[j])
  <2>1. d \in Seq(0 .. Len(s)) /\ Len(d) = m + 1 /\ d[1] = 0
    BY <1>2 DEF Laid
  <2>2. ASSUME NEW j \in 1 .. m PROVE d[j + 1] \in Ends(p[j], s, d[j])
    <3>1. j \in 1 .. Len(p) + 1 - 1 /\ 1 + j - 1 = j
      BY <1>2
    <3>2. d[j + 1] \in Ends(p[1 + j - 1], Rest(path, o), d[j])
      BY <3>1 DEF Laid
    <3> QED
      BY <3>1, <3>2
  <2>3. \A j \in 1 .. m + 1 : d[j] \in 0 .. Len(path) - o
    <3> HIDE DEF m, s
    <3> QED
      BY <1>2, <2>1
  <2> QED
    BY <2>1, <2>2, <2>3
<1> HIDE DEF n, m, s
<1>5. \A i \in 1 .. n + 1 : e[i] = c[i]
  BY <1>2
<1>6. ASSUME NEW j \in 1 .. m + 1 PROVE e[n + j] = o + d[j]
  <2>1. n + j \in 1 .. n + m + 1
    BY <1>2
  <2>2. CASE j = 1
    BY <1>2, <1>3, <1>4, <2>1, <2>2
  <2>3. CASE j # 1
    <3>1. ~(n + j <= n + 1) /\ (n + j) - n = j
      BY <1>2, <2>3
    <3> QED
      BY <2>1, <3>1
  <2> QED
    BY <2>2, <2>3
<1> HIDE DEF e
<1>7. ASSUME NEW i \in 1 .. n + m + 1 PROVE e[i] \in 0 .. Len(path)
  <2>1. CASE i <= n + 1
    <3>1. i \in 1 .. n + 1
      BY <1>2, <2>1
    <3> QED
      BY <1>3, <1>5, <3>1, Zenon
  <2>2. CASE ~(i <= n + 1)
    <3>1. PICK j \in 1 .. m + 1 : i = n + j
      <4>1. i - n \in 1 .. m + 1 /\ i = n + (i - n)
        BY <1>2, <2>2
      <4> QED
        BY <4>1
    <3>2. e[i] = o + d[j] /\ d[j] \in 0 .. Len(path) - o
      BY <1>4, <1>6, <3>1
    <3>3. PICK x \in 0 .. Len(path) - o : x = d[j]
      BY <3>2
    <3>4. e[i] = o + x
      BY <3>2, <3>3
    <3> QED
      BY <1>2, <3>4
  <2> QED
    BY <2>1, <2>2
<1>8. e \in Seq(0 .. Len(path)) /\ Len(e) = n + m + 1
  <2>1. e = [i \in 1 .. n + m + 1 |-> IF i <= n + 1 THEN c[i] ELSE o + d[i - n]]
    BY DEF e
  <2>2. e \in [1 .. n + m + 1 -> 0 .. Len(path)] /\ n + m + 1 \in Nat
    <3> DEFINE last == n + m + 1
               whole(i) == IF i <= n + 1 THEN c[i] ELSE o + d[i - n]
    <3>1. last \in Nat /\ e = [i \in 1 .. last |-> whole(i)]
      BY <1>2, <2>1
    <3>2. \A i \in 1 .. last : e[i] \in 0 .. Len(path)
      BY <1>7
    <3> HIDE DEF last, whole
    <3>3. e \in [1 .. last -> 0 .. Len(path)]
      BY <3>1, <3>2
    <3> QED
      BY <3>1, <3>3 DEF last
  <2>3. e \in Seq(0 .. Len(path))
    BY <2>2, SeqDef
  <2> QED
    BY <2>2, <2>3, LenProperties
<1>9. e[1] = 0 /\ e[n + m + 1] = o + d[m + 1]
  BY <1>2, <1>3, <1>5, <1>6
<1>10. ASSUME NEW i \in 1 .. n + m
      PROVE  /\ e[i + 1] \in Ends((tr \o p)[i], path, e[i])
             /\ (tr \o p)[i].param =>
                  qs[(tr \o p)[i].name] = SubSeq(path, e[i] + 1, e[i + 1])
  <2>1. CASE i <= n
    <3>1. i \in 1 .. n /\ i \in 1 .. n + 1 /\ i + 1 \in 1 .. n + 1
      BY <1>2, <2>1
    <3>2. e[i] = c[i] /\ e[i + 1] = c[i + 1] /\ (tr \o p)[i] = tr[i]
      BY <1>2, <1>5, <3>1
    <3>3. tr[i].param => qs[tr[i].name] = ps[tr[i].name]
      BY <3>1 DEF n, KeepsNames
    <3> QED
      BY <1>3, <3>1, <3>2, <3>3
  <2>2. CASE ~(i <= n)
    <3>1. PICK j \in 1 .. m : i = n + j
      <4>1. i - n \in 1 .. m /\ i = n + (i - n)
        BY <1>2, <2>2
      <4> QED
        BY <4>1
    <3>2. j \in 1 .. m + 1 /\ j + 1 \in 1 .. m + 1 /\ i + 1 = n + (j + 1)
      BY <1>2, <3>1
    <3>3. e[i] = o + d[j] /\ e[i + 1] = o + d[j + 1] /\ (tr \o p)[i] = p[j]
      BY <1>2, <1>6, <3>1, <3>2
    <3>4. d[j] \in 0 .. Len(path) - o /\ d[j + 1] \in Ends(p[j], Rest(path, o), d[j])
      BY <1>4, <3>2 DEF s
    <3>5. /\ o + d[j + 1] \in Ends(p[j], path, o + d[j])
          /\ SubSeq(Rest(path, o), d[j] + 1, d[j + 1]) = SubSeq(path, o + d[j] + 1, o + d[j + 1])
      BY <1>1, <3>4, Zenon
    <3>6. p[j].param => qs[p[j].name] = SubSeq(Rest(path, o), d[j] + 1, d[j + 1])
      BY DEF m, Captured
    <3> QED
      BY <3>3, <3>5, <3>6
  <2> QED
    BY <2>1, <2>2
<1>11. Spells(path, tr \o p, qs, o + d[m + 1], e)
  <2>1. Len(tr \o p) = n + m
    BY <1>2
  <2> QED
    BY <1>8, <1>9, <1>10, <2>1 DEF Spells
<1> QED
  BY <1>11 DEF m

\* What has been cut up to its end is the path.
LEMMA SpeltOut ==
  ASSUME NEW Text, NEW path \in Seq(Text), NEW Element, NEW tr \in Seq(Element), NEW ps,
         NEW c, Spells(path, tr, ps, Len(path), c), NEW text,
         text = [i \in 1 .. Len(tr) |->
                   IF tr[i].param THEN ps[tr[i].name] ELSE <<tr[i].name>>]
  PROVE  FlattenSeq(text) = path /\ \A i \in 1 .. Len(text) : text[i] # <<>>
<1>1. Len(tr) \in Nat /\ Len(path) \in Nat
  OBVIOUS
<1>2. /\ \A i \in 1 .. Len(tr) + 1 : c[i] \in 0 .. Len(path)
      /\ c[1] = 0 /\ c[Len(tr) + 1] = Len(path)
  BY <1>1 DEF Spells
<1>3. ASSUME NEW i \in 1 .. Len(tr)
      PROVE  /\ c[i] \in 0 .. Len(path) /\ c[i + 1] \in c[i] + 1 .. Len(path)
             /\ (IF tr[i].param THEN ps[tr[i].name] ELSE <<tr[i].name>>)
                  = SubSeq(path, c[i] + 1, c[i + 1])
  <2>1. /\ c[i] \in 0 .. Len(path) /\ c[i + 1] \in Ends(tr[i], path, c[i])
        /\ tr[i].param => ps[tr[i].name] = SubSeq(path, c[i] + 1, c[i + 1])
    <3>1. i \in 1 .. Len(tr) + 1
      BY <1>1
    <3> QED
      BY <1>2, <3>1 DEF Spells
  <2>2. c[i + 1] \in c[i] + 1 .. Len(path)
    BY <1>1, <2>1, EndsFacts
  <2>3. CASE ~tr[i].param
    <3>1. c[i + 1] = c[i] + 1 /\ path[c[i] + 1] = tr[i].name
      BY <2>1, <2>3 DEF Ends
    <3> DEFINE a == c[i] + 1
    <3>2. a \in 1 .. Len(path)
      BY <2>1, <2>2, <3>1
    <3> HIDE DEF a
    <3>3. SubSeq(path, a, a) = <<path[a]>>
      <4> DEFINE u == SubSeq(path, a, a)
                 v == <<path[a]>>
      <4>1. u \in Seq(Text) /\ Len(u) = 1 /\ u[1] = path[a]
        BY <3>2
      <4>2. v \in Seq(Text) /\ Len(v) = 1 /\ v[1] = path[a]
        BY <3>2
      <4> HIDE DEF u, v
      <4>3. u = v
        BY <4>1, <4>2
      <4> QED
        BY <4>3 DEF u, v
    <3> QED
      BY <2>1, <2>2, <2>3, <3>1, <3>3 DEF a
  <2> QED
    BY <2>1, <2>2, <2>3
<1> DEFINE pieces == [i \in 1 .. Len(tr) |-> SubSeq(path, c[i] + 1, c[i + 1])]
<1>4. text = pieces
  BY <1>3
<1>5. FlattenSeq(pieces) = SubSeq(path, 1, c[Len(tr) + 1])
  <2>1. \A i \in 1 .. Len(tr) : c[i] <= c[i + 1]
    <3> SUFFICES ASSUME NEW i \in 1 .. Len(tr) PROVE c[i] <= c[i + 1]
      OBVIOUS
    <3>1. c[i] \in 0 .. Len(path) /\ c[i + 1] \in c[i] + 1 .. Len(path)
      BY <1>3
    <3> QED
      BY <3>1
  <2> HIDE DEF pieces
  <2>2. pieces = [i \in 1 .. Len(tr) |-> SubSeq(path, c[i] + 1, c[i + 1])]
    BY DEF pieces
  <2> QED
    BY <1>1, <1>2, <2>1, <2>2, FlattenCuts
<1>6. FlattenSeq(text) = path
  BY <1>2, <1>4, <1>5, SubSeqFull
<1>7. ASSUME NEW i \in 1 .. Len(tr) PROVE text[i] # <<>>
  <2>1. \A a \in 0 .. Len(path) : \A b \in a + 1 .. Len(path) : SubSeq(path, a + 1, b) # <<>>
    <3> TAKE a \in 0 .. Len(path)
    <3> TAKE b \in a + 1 .. Len(path)
    <3>1. Len(SubSeq(path, a + 1, b)) = b - a /\ b - a # 0
      OBVIOUS
    <3> QED
      BY <3>1
  <2>2. c[i] \in 0 .. Len(path) /\ c[i + 1] \in c[i] + 1 .. Len(path)
    BY <1>3
  <2>3. SubSeq(path, c[i] + 1, c[i + 1]) # <<>>
    BY <2>1, <2>2, Zenon
  <2>4. text[i] = SubSeq(path, c[i] + 1, c[i + 1])
    BY <1>4
  <2> QED
    BY <2>3, <2>4, Zenon
<1>8. DOMAIN text = 1 .. Len(tr) /\ Len(text) = Len(tr)
  OBVIOUS
<1> QED
  BY <1>6, <1>7, <1>8
-----------------------------------------------------------------------------
(* The recursion of match().                                               *)

\* What match() of node m says at offset b, by what f says of its children.
MatchStep(verb, path, f, m, b) ==
  LET t == Tree[m] IN
    \/ t.kind = "end_point" /\ EndPointMatch(m, verb, path, b)
    \/ /\ t.kind = "binding" /\ StartsWith(t.pattern, Rest(path, b))
       /\ f[t.next][b + MatchLen(t.pattern, Rest(path, b))]
    \/ t.kind = "group" /\ \E i \in DOMAIN t.routes : f[t.routes[i]][b]
    \/ t.kind = "middleware" /\ f[t.next][b]

\* Where the children of a node are.
LEMMA ChildFacts ==
  ASSUME NEW n \in Nodes
  PROVE  /\ Tree[n].kind \in {"binding", "middleware"} => Tree[n].next \in n + 1 .. Len(Tree)
         /\ Tree[n].kind = "group" =>
              /\ Tree[n].routes \in Seq(n + 1 .. Len(Tree))
              /\ \A i \in DOMAIN Tree[n].routes : Tree[n].routes[i] \in n + 1 .. Len(Tree)
<1>1. Tree[n].kind = "group" => Tree[n].routes \in Seq(n + 1 .. Len(Tree))
  BY TreeAssumption
<1> QED
  BY <1>1, TreeAssumption

\* Match has a function behind it.
LEMMA MatchEquation ==
  ASSUME NEW verb, NEW path, Len(path) \in Nat
  PROVE  \E f :
           /\ \A n, o : Match(n, verb, path, o) = f[n][o]
           /\ \A n \in Nodes, o \in 0 .. Len(path) : f[n][o] = MatchStep(verb, path, f, n, o)
<1> DEFINE D == Nodes
           O == 0 .. Len(path)
           V == [O -> BOOLEAN]
           row(f, m) == [b \in O |-> MatchStep(verb, path, f, m, b)]
           H == [a \in [D -> V] \X D |-> row(a[1], a[2])]
           size == [m \in D |-> Len(Tree) - m]
           bound == Len(Tree)
<1>1. size \in [D -> Nat] /\ bound \in Nat /\ \A m \in D : size[m] < bound
  BY TreeAssumption
<1>2. V # {}
  <2>1. [o \in O |-> TRUE] \in V
    OBVIOUS
  <2> QED
    BY <2>1
<1>3. ASSUME NEW f, NEW m PROVE row(f, m) \in V
  BY DEF MatchStep
<1>4. H \in [[D -> V] \X D -> V]
  <2> HIDE DEF row, D, V
  <2> QED
    BY <1>3
<1>5. \A g, h \in [D -> V], m \in D :
        (\A j \in D : size[j] < size[m] => g[j] = h[j]) => H[<<g, m>>] = H[<<h, m>>]
  <2> SUFFICES ASSUME NEW g \in [D -> V], NEW h \in [D -> V], NEW m \in D,
                      \A j \in D : size[j] < size[m] => g[j] = h[j]
               PROVE  H[<<g, m>>] = H[<<h, m>>]
    OBVIOUS
  <2>1. ASSUME NEW j \in m + 1 .. Len(Tree) PROVE g[j] = h[j]
    <3>1. j \in D /\ m \in D /\ size[j] < size[m]
      BY TreeAssumption
    <3> QED
      BY <3>1
  <2>2. ASSUME NEW b \in O PROVE MatchStep(verb, path, g, m, b) = MatchStep(verb, path, h, m, b)
    <3>1. Tree[m].kind \in {"binding", "middleware"} => g[Tree[m].next] = h[Tree[m].next]
      BY <2>1, ChildFacts
    <3>2. Tree[m].kind = "group" =>
            \A i \in DOMAIN Tree[m].routes : g[Tree[m].routes[i]] = h[Tree[m].routes[i]]
      BY <2>1, ChildFacts
    <3> QED
      BY <3>1, <3>2 DEF MatchStep
  <2>3. row(g, m) = row(h, m)
    BY <2>2
  <2>4. H[<<g, m>>] = row(g, m) /\ H[<<h, m>>] = row(h, m)
    <3> HIDE DEF row, D, V
    <3> QED
      OBVIOUS
  <2> QED
    BY <2>3, <2>4
<1>6. HasFunction(D, V, H)
  <2> HIDE DEF D, V, H, size, bound
  <2>1. IsRecursion(D, V, size, bound, H)
    BY <1>1, <1>2, <1>4, <1>5 DEF IsRecursion
  <2> QED
    BY <2>1, RecursiveFunction
<1>7. \E f : f = [m \in D |-> row(f, m)]
  <2>1. PICK f \in [D -> V] : \A m \in D : f[m] = H[<<f, m>>]
    BY <1>6 DEF HasFunction
  <2> HIDE DEF row, D, V
  <2>2. \A m \in D : f[m] = row(f, m)
    BY <2>1
  <2>3. f = [m \in D |-> row(f, m)]
    BY <2>1, <2>2
  <2> QED
    BY <2>3
<1> DEFINE match == CHOOSE f : f = [m \in D |-> row(f, m)]
<1>8. match = [m \in D |-> row(match, m)]
  <2> HIDE DEF row, D
  <2> QED
    BY <1>7
<1>9. \A n, o : Match(n, verb, path, o) = match[n][o]
  BY DEF Match, MatchStep
<1> HIDE DEF match
<1>10. ASSUME NEW n \in Nodes, NEW o \in 0 .. Len(path)
       PROVE  match[n][o] = MatchStep(verb, path, match, n, o)
  <2>1. match[n] = row(match, n)
    <3> HIDE DEF row
    <3> QED
      BY <1>8
  <2> QED
    BY <2>1
<1> QED
  BY <1>9, <1>10

\* match() of each kind of node, when it is asked within the path.
LEMMA MatchFacts ==
  ASSUME NEW verb, NEW path, Len(path) \in Nat, NEW n \in Nodes, NEW o \in 0 .. Len(path)
  PROVE  /\ Match(n, verb, path, o) \in BOOLEAN
         /\ Tree[n].kind = "end_point" =>
              (Match(n, verb, path, o) <=> verb = Tree[n].verb /\ o = Len(path))
         /\ Tree[n].kind = "binding" =>
              (Match(n, verb, path, o) <=>
                 /\ StartsWith(Tree[n].pattern, Rest(path, o))
                 /\ Match(Tree[n].next, verb, path, o + MatchLen(Tree[n].pattern, Rest(path, o))))
         /\ Tree[n].kind = "group" =>
              (Match(n, verb, path, o) <=>
                 \E i \in DOMAIN Tree[n].routes : Match(Tree[n].routes[i], verb, path, o))
         /\ Tree[n].kind = "middleware" =>
              (Match(n, verb, path, o) <=> Match(Tree[n].next, verb, path, o))
<1>1. PICK f : /\ \A m, b : Match(m, verb, path, b) = f[m][b]
               /\ \A m \in Nodes, b \in 0 .. Len(path) : f[m][b] = MatchStep(verb, path, f, m, b)
  BY MatchEquation
<1>2. Match(n, verb, path, o) = MatchStep(verb, path, f, n, o)
  BY <1>1
<1> DEFINE node == Tree[n]
           AtEnd     == verb = node.verb /\ o = Len(path)
           AtBinding == /\ StartsWith(node.pattern, Rest(path, o))
                        /\ Match(node.next, verb, path, o + MatchLen(node.pattern, Rest(path, o)))
           AtGroup   == \E i \in DOMAIN node.routes : Match(node.routes[i], verb, path, o)
           Behind    == Match(node.next, verb, path, o)
           Asked(bound, routed, passed) ==
             \/ node.kind = "end_point" /\ AtEnd
             \/ node.kind = "binding" /\ bound
             \/ node.kind = "group" /\ routed
             \/ node.kind = "middleware" /\ passed
<1>3. MatchStep(verb, path, f, n, o) =
        Asked(StartsWith(node.pattern, Rest(path, o))
                /\ f[node.next][o + MatchLen(node.pattern, Rest(path, o))],
              \E i \in DOMAIN node.routes : f[node.routes[i]][o], f[node.next][o])
  BY DEF MatchStep, EndPointMatch
<1>4. MatchStep(verb, path, f, n, o) = Asked(AtBinding, AtGroup, Behind)
  BY <1>1, <1>3, Zenon
<1> HIDE DEF node, AtBinding, AtGroup, AtEnd, Behind
<1>5. /\ Match(n, verb, path, o) \in BOOLEAN
      /\ node.kind = "end_point" => (Match(n, verb, path, o) <=> AtEnd)
      /\ node.kind = "binding" => (Match(n, verb, path, o) <=> AtBinding)
      /\ node.kind = "group" => (Match(n, verb, path, o) <=> AtGroup)
      /\ node.kind = "middleware" => (Match(n, verb, path, o) <=> Behind)
  BY <1>2, <1>4
<1> QED
  BY <1>5 DEF node, AtBinding, AtGroup, AtEnd, Behind


-----------------------------------------------------------------------------
(* What the task yields.                                                   *)

\* A handler has returned exactly when "true" is on its way up or has arrived:
\* nothing on the way changes it, and nothing else produces it.
Yields == completed \in BOOLEAN /\ (completed <=> mode \in {"back", "done"} /\ value = "true")

\* What is called, folded, handled or written leaves Yields alone: it starts in
\* another mode than "back" and hands back something else than "true".
LEMMA YieldsOnTheWay ==
  ASSUME Yields, Call \/ Fold \/ Write \/ HandlerSend \/ HandlerThrow
  PROVE  Yields'
<1>1. ASSUME Bind \/ AssertFails \/ BindGarbage PROVE Yields'
  BY <1>1 DEF Yields, Bind, AssertFails, BindGarbage, Calling, CallNext, GiveBack, history
<1>2. ASSUME CallGroup \/ ServerFault \/ CallEndPoint PROVE Yields'
  BY <1>2 DEF Yields, CallGroup, ServerFault, CallEndPoint, Running, Calling, CallNext, history
<1>3. ASSUME Observe \/ NotFound \/ ObjectBody \/ CookieParser PROVE Yields'
  BY <1>3 DEF Yields, Observe, NotFound, ObjectBody, CookieParser, Running, Calling, CallNext,
              Answer, GiveBack, history
<1>4. ASSUME Fold PROVE Yields'
  <2>1. ASSUME FoldCall PROVE Yields'
    BY <2>1 DEF Yields, FoldCall, history
  <2>2. ASSUME FoldSkip PROVE Yields'
    BY <2>2 DEF Yields, FoldSkip, history
  <2>3. ASSUME FoldEnd PROVE Yields'
    BY <2>3 DEF Yields, FoldEnd, GiveBack, history
  <2> QED
    BY <1>4, <2>1, <2>2, <2>3 DEF Fold
<1>5. ASSUME Write \/ HandlerSend \/ HandlerThrow PROVE Yields'
  BY <1>5 DEF Yields, Write, WriteDone, WriteFail, HandlerSend, HandlerThrow, Answer, GiveBack,
              history
<1> QED
  BY <1>1, <1>2, <1>3, <1>4, <1>5 DEF Call

\* Every step keeps Yields, and so it always holds.
LEMMA YieldsNext == Yields /\ [Next]_vars => Yields'
<1> SUFFICES ASSUME Yields, [Next]_vars PROVE Yields'
  OBVIOUS
<1>1. CASE UNCHANGED vars
  BY <1>1 DEF vars, Yields
<1>2. CASE HandlerReturn
  BY <1>2 DEF Yields, HandlerReturn, GiveBack
<1>3. CASE Back
  BY <1>3 DEF Yields, Back, GroupBack, FaultBack, Finish, Answer, GiveBack, history
<1>4. CASE PeerReset
  BY <1>4 DEF Yields, PeerReset, history
<1> QED
  BY <1>1, <1>2, <1>3, <1>4, YieldsOnTheWay DEF Next, Serve, Handler

\* The same, of behaviours.
LEMMA YieldsAlways == Spec => []Yields
<1>1. Init => Yields
  BY DEF Init, Yields
<1> QED
  BY <1>1, YieldsNext, PTL DEF Spec

\* The task of the root yields true if and only if a handler returned (the
\* co_return of end_point, the folds of group, the try of server_fault).
THEOREM TrueIsServed == Spec => []TrueMeansServed
<1>1. Yields => TrueMeansServed
  BY DEF Yields, TrueMeansServed
<1> QED
  BY <1>1, YieldsAlways, PTL

\* Behind a handler that returned no other one is called (the "||" of group).
THEOREM FoldStops == Spec => NothingAfterServed
<1>1. Yields /\ [Next]_vars => [completed => ran' = ran]_vars
  <2> SUFFICES ASSUME Yields, completed, Next PROVE ran' = ran
    OBVIOUS
  <2>1. mode \in {"back", "done"}
    BY DEF Yields
  <2>2. ~CallEndPoint
    BY <2>1 DEF CallEndPoint, Calling
  <2>3. ASSUME Call PROVE ran' = ran
    BY <2>1, <2>3 DEF Call, Bind, AssertFails, BindGarbage, CallGroup, Observe, NotFound,
       ServerFault, ObjectBody, CookieParser, CallEndPoint, Running, Calling
  <2>4. ASSUME Fold \/ Write \/ Handler PROVE ran' = ran
    BY <2>1, <2>4 DEF Fold, FoldCall, FoldSkip, FoldEnd, Write, WriteDone, WriteFail,
       Handler, HandlerSend, HandlerReturn, HandlerThrow
  <2>5. ASSUME Back \/ PeerReset PROVE ran' = ran
    BY <2>5 DEF Back, GroupBack, FaultBack, Finish, PeerReset, history
  <2> QED
    BY <2>3, <2>4, <2>5 DEF Next, Serve
<1> QED
  BY <1>1, YieldsAlways, PTL DEF Spec, NothingAfterServed

-----------------------------------------------------------------------------
(* Sequences of frames.                                                    *)

\* A frame on top of the others.
LEMMA PushFacts ==
  ASSUME NEW s \in Seq(Frame), NEW f \in Frame
  PROVE  /\ Append(s, f) \in Seq(Frame) /\ Append(s, f) # <<>>
         /\ Len(s) \in Nat /\ Len(Append(s, f)) = Len(s) + 1
         /\ Last(Append(s, f)) = f /\ Append(s, f)[Len(s) + 1] = f
         /\ \A i \in 1 .. Len(s) : Append(s, f)[i] = s[i]
<1>1. /\ Append(s, f) \in Seq(Frame) /\ Len(s) \in Nat /\ Len(Append(s, f)) = Len(s) + 1
      /\ \A i \in 1 .. Len(s) : Append(s, f)[i] = s[i]
      /\ Append(s, f)[Len(s) + 1] = f
  OBVIOUS
<1> QED
  BY <1>1 DEF Last

\* The frame on top, and what is below it.
LEMMA PopFacts ==
  ASSUME NEW s \in Seq(Frame), s # <<>>
  PROVE  /\ Last(s) \in Frame /\ Last(s) = s[Len(s)]
         /\ Front(s) \in Seq(Frame)
         /\ Len(s) \in Nat \ {0} /\ Len(Front(s)) = Len(s) - 1
         /\ \A i \in 1 .. Len(s) - 1 : Front(s)[i] = s[i]
<1>1. Len(s) \in Nat \ {0} /\ Len(s) \in 1 .. Len(s)
  OBVIOUS
<1>2. Front(s) = [i \in 1 .. Len(s) - 1 |-> s[i]]
  BY <1>1 DEF Front
<1>3. Front(s) \in Seq(Frame) /\ Len(Front(s)) = Len(s) - 1
  BY <1>1, <1>2
<1> QED
  BY <1>1, <1>2, <1>3 DEF Last

\* Another frame in the place of the one on top.
LEMMA ReplaceFacts ==
  ASSUME NEW s \in Seq(Frame), s # <<>>, NEW f \in Frame, NEW r, r = [s EXCEPT ![Len(s)] = f]
  PROVE  /\ r \in Seq(Frame) /\ r # <<>> /\ Len(r) = Len(s) /\ Last(r) = f
         /\ Len(s) \in Nat \ {0} /\ r[Len(s)] = f
         /\ \A i \in 1 .. Len(s) - 1 : r[i] = s[i]
<1>1. Len(s) \in Nat \ {0} /\ Len(s) \in 1 .. Len(s)
  OBVIOUS
<1>2. r \in Seq(Frame) /\ Len(r) = Len(s)
  OBVIOUS
<1>3. r[Len(s)] = f /\ \A i \in 1 .. Len(s) - 1 : r[i] = s[i]
  BY <1>1
<1> QED
  BY <1>1, <1>2, <1>3 DEF Last

-----------------------------------------------------------------------------
(* The answers after the first one.                                        *)

\* What the steps need of the types.
Shape ==
  /\ at \in Nodes /\ live \in BOOLEAN /\ stack \in Seq(Frame)
  /\ sends \in Nat /\ sent \in Seq(Statuses)
  /\ mode = "sending" => sending \in Statuses
  /\ mode = "fold" => stack # <<>> /\ Tree[Top.node].kind = "group"

\* A group holds the request only until it has given it to its first route.
Spent ==
  \A i \in 1 .. Len(stack) :
    \/ Tree[stack[i].node].kind # "group" \/ ~stack[i].live
    \/ mode = "fold" /\ i = Len(stack)

\* Who still holds the response after an answer: a handler that has sent it, and
\* the copies of server_fault.
Answered ==
  sent # <<>> =>
    /\ mode = "call" => ~live
    /\ mode = "fold" => ~Top.live
    /\ mode = "handler" /\ live => sends # 0
    /\ mode = "sending" => sending = "500"

\* After the first answer there are 500s only.
Repeats == \A i \in 2 .. Len(sent) : sent[i] = "500"

Framed == Shape /\ Spent
Contained == Framed /\ Answered /\ Repeats

\* What a call does that neither keeps a frame nor answers.
Passes ==
  /\ mode = "call" /\ mode' \in {"call", "back", "aborted"} /\ at' \in Nodes
  /\ UNCHANGED <<live, stack, sends, sent>>

\* not_found answers.
Refuses ==
  /\ mode = "call" /\ live /\ mode' = "sending" /\ sending' = "404"
  /\ UNCHANGED <<at, live, stack, sends, sent>>

\* Children are nodes.
LEMMA NextIsNode ==
  ASSUME at \in Nodes, Tree[at].kind \in {"binding", "middleware"}
  PROVE  Tree[at].next \in Nodes
<1>1. Tree[at].next \in at + 1 .. Len(Tree) /\ at \in 1 .. Len(Tree)
  BY TreeAssumption
<1> QED
  BY <1>1, TreeAssumption

\* The routes of a group are nodes.
LEMMA RouteIsNode ==
  ASSUME NEW n \in Nodes, Tree[n].kind = "group", NEW i \in Nat \ {0}, i <= Len(Tree[n].routes)
  PROVE  Tree[n].routes[i] \in Nodes
<1>1. Tree[n].routes \in Seq(n + 1 .. Len(Tree)) /\ n \in 1 .. Len(Tree)
  BY TreeAssumption
<1>2. Tree[n].routes[i] \in n + 1 .. Len(Tree)
  BY <1>1
<1> QED
  BY <1>1, <1>2, TreeAssumption

\* Such steps move no frame, and answer nothing but a live request.
LEMMA PassStep ==
  ASSUME Framed, Passes \/ Refuses
  PROVE  Framed' /\ (Answered /\ Repeats => Answered' /\ Repeats')
<1>1. CASE Passes
  BY <1>1 DEF Framed, Shape, Spent, Answered, Repeats, Passes
<1>2. CASE Refuses
  <2>1. Framed'
    BY <1>2 DEF Framed, Shape, Spent, Refuses, Statuses
  <2>2. ASSUME Answered, Repeats PROVE Answered' /\ Repeats'
    BY <1>2, <2>2 DEF Answered, Repeats, Refuses
  <2> QED
    BY <2>1, <2>2
<1> QED
  BY <1>1, <1>2

\* The calls that neither keep a frame nor answer.
LEMMA CallsPass ==
  ASSUME Framed, Bind \/ AssertFails \/ BindGarbage \/ Observe \/ ObjectBody \/ CookieParser
  PROVE  Passes
<1>1. at \in Nodes
  BY DEF Framed, Shape
<1>2. ASSUME Bind \/ BindGarbage PROVE Passes
  BY <1>1, <1>2, NextIsNode
     DEF Passes, Bind, BindGarbage, Calling, CallNext, GiveBack, wire, history
<1>3. ASSUME AssertFails PROVE Passes
  BY <1>1, <1>3 DEF Passes, AssertFails, Calling, request, wire, history
<1>4. ASSUME Observe \/ ObjectBody \/ CookieParser PROVE Passes
  BY <1>1, <1>4, NextIsNode
     DEF Passes, Observe, ObjectBody, CookieParser, Running, Calling, CallNext, GiveBack,
         request, wire, history
<1> QED
  BY <1>2, <1>3, <1>4

\* not_found answers, or passes the request on.
LEMMA NotFoundPasses ==
  ASSUME Framed, NotFound
  PROVE  Passes \/ (~Known /\ Refuses)
<1>1. at \in Nodes /\ live \in BOOLEAN /\ mode = "call"
  BY DEF Framed, Shape, NotFound, Running, Calling
<1>2. CASE Known
  BY <1>1, <1>2, NextIsNode DEF Passes, NotFound, Running, Calling, CallNext, request
<1>3. CASE ~Known /\ live
  BY <1>1, <1>3 DEF Refuses, NotFound, Answer, request
<1>4. CASE ~Known /\ ~live
  BY <1>1, <1>4 DEF Passes, NotFound, Answer, GiveBack, request
<1> QED
  BY <1>2, <1>3, <1>4

\* A frame for a group, or for server_fault.
LEMMA PushStep ==
  ASSUME Framed, CallGroup \/ ServerFault
  PROVE  Framed' /\ (Answered /\ Repeats => Answered' /\ Repeats')
<1> DEFINE f == [node |-> at, live |-> live, next |-> 1]
<1>1. f \in Frame /\ mode = "call" /\ at \in Nodes /\ live \in BOOLEAN /\ stack \in Seq(Frame)
  BY DEF Framed, Shape, Frame, CallGroup, ServerFault, Running, Calling
<1>2. stack' = Append(stack, f) /\ UNCHANGED <<live, sends, sent>>
  BY DEF CallGroup, ServerFault, request, wire
<1>3. /\ Len(stack') = Len(stack) + 1 /\ Len(stack) \in Nat
      /\ stack' \in Seq(Frame) /\ stack' # <<>> /\ Last(stack') = f
      /\ stack'[Len(stack) + 1] = f /\ \A i \in 1 .. Len(stack) : stack'[i] = stack[i]
  BY <1>1, <1>2, PushFacts
<1>4. \A i \in 1 .. Len(stack') : i \in 1 .. Len(stack) \/ i = Len(stack) + 1
  BY <1>3
<1>5. f.node = at /\ f.live = live
  OBVIOUS
<1>6. \A i \in 1 .. Len(stack) : Tree[stack[i].node].kind # "group" \/ ~stack[i].live
  BY <1>1 DEF Framed, Spent
<1>7. CASE CallGroup
  <2>1. mode' = "fold" /\ at' = at /\ Tree[at].kind = "group"
    BY <1>7 DEF CallGroup, Calling
  <2>2. Shape'
    BY <1>1, <1>2, <1>3, <1>5, <2>1 DEF Framed, Shape, Top
  <2>3. Spent'
    BY <1>3, <1>4, <1>6, <2>1 DEF Spent
  <2>4. ASSUME Answered, Repeats PROVE Answered' /\ Repeats'
    BY <1>1, <1>2, <1>3, <1>5, <2>1, <2>4 DEF Answered, Repeats, Top
  <2> QED
    BY <2>2, <2>3, <2>4 DEF Framed
<1>8. CASE ServerFault
  <2>1. mode' = "call" /\ at' \in Nodes /\ Tree[at].kind = "middleware"
    BY <1>1, <1>8, NextIsNode DEF ServerFault, Running, Calling, CallNext
  <2>2. Shape'
    BY <1>1, <1>2, <1>3, <2>1 DEF Framed, Shape
  <2>3. Spent'
    BY <1>3, <1>4, <1>5, <1>6, <2>1 DEF Spent
  <2>4. ASSUME Answered, Repeats PROVE Answered' /\ Repeats'
    BY <1>1, <1>2, <2>1, <2>4 DEF Answered, Repeats
  <2> QED
    BY <2>2, <2>3, <2>4 DEF Framed
<1> QED
  BY <1>7, <1>8

\* The frame of the group that is at work.
LEMMA FoldFrame ==
  ASSUME Framed, mode = "fold"
  PROVE  /\ stack \in Seq(Frame) /\ stack # <<>> /\ Tree[Top.node].kind = "group"
         /\ Top \in Frame /\ Top = stack[Len(stack)] /\ Len(stack) \in Nat \ {0}
         /\ Top.node \in Nodes /\ Top.live \in BOOLEAN /\ Top.next \in Nat \ {0}
         /\ \A b \in BOOLEAN : /\ Tried(Top, b) \in Frame
                               /\ Tried(Top, b).node = Top.node /\ Tried(Top, b).live = b
                               /\ Tried(Top, b).next = Top.next + 1
<1>1. stack \in Seq(Frame) /\ stack # <<>> /\ Tree[Top.node].kind = "group"
  BY DEF Framed, Shape
<1>2. /\ Top \in Frame /\ Top = stack[Len(stack)] /\ Len(stack) \in Nat \ {0}
      /\ Top.node \in Nodes /\ Top.live \in BOOLEAN /\ Top.next \in Nat \ {0}
  BY <1>1, PopFacts DEF Top, Frame
<1>3. \A b \in BOOLEAN : /\ Tried(Top, b) \in Frame
                         /\ Tried(Top, b).node = Top.node /\ Tried(Top, b).live = b
                         /\ Tried(Top, b).next = Top.next + 1
  BY <1>2 DEF Tried, Frame
<1> QED
  BY <1>1, <1>2, <1>3

\* A route of a group is tried or skipped: either way it is behind the frame.
LEMMA FoldFacts ==
  ASSUME Framed, mode = "fold", NEW b \in BOOLEAN,
         stack' = [stack EXCEPT ![Len(stack)] = Tried(@, b)]
  PROVE  /\ Len(stack') = Len(stack) /\ stack' \in Seq(Frame) /\ stack' # <<>>
         /\ stack'[Len(stack)] = Tried(Top, b) /\ Last(stack') = Tried(Top, b)
         /\ \A i \in 1 .. Len(stack) - 1 : stack'[i] = stack[i]
<1> DEFINE f == Tried(Top, b)
<1>1. stack' = [stack EXCEPT ![Len(stack)] = f]
  <2>1. Top = stack[Len(stack)]
    BY FoldFrame
  <2>2. f = Tried(stack[Len(stack)], b)
    BY <2>1
  <2> HIDE DEF f
  <2> QED
    BY <2>2
<1>2. f \in Frame /\ stack \in Seq(Frame) /\ stack # <<>>
  BY FoldFrame
<1> HIDE DEF f
<1>3. /\ stack' \in Seq(Frame) /\ stack' # <<>> /\ Len(stack') = Len(stack) /\ Last(stack') = f
      /\ Len(stack) \in Nat \ {0} /\ stack'[Len(stack)] = f
      /\ \A i \in 1 .. Len(stack) - 1 : stack'[i] = stack[i]
  <2>1. /\ stack' \in Seq(Frame) /\ stack' # <<>> /\ Len(stack') = Len(stack)
    BY <1>1, <1>2, ReplaceFacts
  <2>2. Len(stack) \in Nat \ {0} /\ stack'[Len(stack)] = f
    BY <1>1, <1>2, ReplaceFacts
  <2>3. Last(stack') = f
    BY <2>1, <2>2 DEF Last
  <2>4. \A i \in 1 .. Len(stack) - 1 : stack'[i] = stack[i]
    BY <1>1, <1>2, ReplaceFacts
  <2> QED
    BY <2>1, <2>2, <2>3, <2>4
<1> QED
  BY <1>3 DEF f

\* Both keep the frames below, and the group that has called a route is spent.
LEMMA FoldStep ==
  ASSUME Framed, FoldCall \/ FoldSkip
  PROVE  Framed' /\ (Answered /\ Repeats => Answered' /\ Repeats')
<1>1. mode = "fold" /\ UNCHANGED <<sends, sent>> /\ at \in Nodes /\ live \in BOOLEAN
  BY DEF FoldCall, FoldSkip, wire, Framed, Shape
<1>2. /\ stack \in Seq(Frame) /\ stack # <<>> /\ Tree[Top.node].kind = "group"
      /\ Top = stack[Len(stack)] /\ Len(stack) \in Nat \ {0}
      /\ Top.node \in Nodes /\ Top.live \in BOOLEAN /\ Top.next \in Nat \ {0}
      /\ \A b \in BOOLEAN : Tried(Top, b).node = Top.node /\ Tried(Top, b).live = b
  BY <1>1, FoldFrame
<1>3. \A i \in 1 .. Len(stack) - 1 : Tree[stack[i].node].kind # "group" \/ ~stack[i].live
  BY <1>1, <1>2 DEF Framed, Spent
<1>4. \A i \in 1 .. Len(stack) : i \in 1 .. Len(stack) - 1 \/ i = Len(stack)
  BY <1>2
<1>5. CASE FoldCall
  <2>1. mode' = "call" /\ at' = Tree[Top.node].routes[Top.next] /\ live' = Top.live
        /\ Top.next <= Len(Tree[Top.node].routes)
        /\ stack' = [stack EXCEPT ![Len(stack)] = Tried(@, FALSE)]
    BY <1>5 DEF FoldCall
  <2>2. /\ stack' \in Seq(Frame) /\ Len(stack') = Len(stack)
        /\ stack'[Len(stack)] = Tried(Top, FALSE)
        /\ \A i \in 1 .. Len(stack) - 1 : stack'[i] = stack[i]
    BY <1>1, <2>1, FoldFacts
  <2>3. Shape'
    BY <1>1, <1>2, <2>1, <2>2, RouteIsNode DEF Framed, Shape
  <2>4. Spent'
    BY <1>2, <1>3, <1>4, <2>2 DEF Spent
  <2>5. ASSUME Answered, Repeats PROVE Answered' /\ Repeats'
    BY <1>1, <2>1, <2>5 DEF Answered, Repeats
  <2> QED
    BY <2>3, <2>4, <2>5 DEF Framed
<1>6. CASE FoldSkip
  <2>1. /\ mode' = mode /\ UNCHANGED <<at, live>>
        /\ stack' = [stack EXCEPT ![Len(stack)] = Tried(@, Top.live)]
    BY <1>6 DEF FoldSkip, request
  <2>2. /\ stack' \in Seq(Frame) /\ Len(stack') = Len(stack) /\ stack' # <<>>
        /\ Last(stack') = Tried(Top, Top.live)
        /\ stack'[Len(stack)] = Tried(Top, Top.live)
        /\ \A i \in 1 .. Len(stack) - 1 : stack'[i] = stack[i]
    BY <1>1, <1>2, <2>1, FoldFacts
  <2>3. Top'.node = Top.node /\ Top'.live = Top.live
    BY <1>2, <2>2 DEF Top
  <2>4. Shape'
    BY <1>1, <1>2, <2>1, <2>2, <2>3 DEF Framed, Shape
  <2>5. Spent'
    BY <1>1, <1>2, <1>3, <1>4, <2>1, <2>2 DEF Spent
  <2>6. ASSUME Answered, Repeats PROVE Answered' /\ Repeats'
    BY <1>1, <2>1, <2>3, <2>6 DEF Answered, Repeats
  <2> QED
    BY <2>4, <2>5, <2>6 DEF Framed
<1> QED
  BY <1>5, <1>6

\* The frame on top is done: none that is left is about to try a route.
LEMMA PopKeeps ==
  ASSUME Framed, stack # <<>>, stack' = Front(stack), mode' # "fold"
  PROVE  stack' \in Seq(Frame) /\ Spent'
<1>1. /\ stack' \in Seq(Frame) /\ Len(stack') = Len(stack) - 1 /\ Len(stack) \in Nat \ {0}
      /\ \A i \in 1 .. Len(stack) - 1 : stack'[i] = stack[i]
  BY PopFacts DEF Framed, Shape
<1>2. \A i \in 1 .. Len(stack') : i \in 1 .. Len(stack) /\ i # Len(stack) /\ stack'[i] = stack[i]
  BY <1>1
<1> QED
  BY <1>1, <1>2 DEF Framed, Spent

\* What a group does when it is left, or goes on to its next route.
LEMMA GroupFacts ==
  ASSUME Framed, FoldEnd \/ GroupBack
  PROVE  /\ stack # <<>> /\ Tree[Top.node].kind = "group" /\ stack \in Seq(Frame)
         /\ UNCHANGED <<at, live, sends, sent>>
         /\ \/ mode' = "back" /\ stack' = Front(stack)
            \/ mode = "back" /\ mode' = "fold" /\ stack' = stack /\ Top' = Top /\ ~Top.live
<1>1. /\ stack # <<>> /\ Tree[Top.node].kind = "group" /\ stack \in Seq(Frame)
      /\ UNCHANGED <<at, live, sends, sent>>
  BY DEF Framed, Shape, FoldEnd, GroupBack, request, wire
<1>2. \/ mode' = "back" /\ stack' = Front(stack)
      \/ mode = "back" /\ mode' = "fold" /\ stack' = stack
  BY DEF FoldEnd, GroupBack, GiveBack
<1>3. ASSUME mode = "back", stack' = stack PROVE Top' = Top /\ ~Top.live
  <2>1. Top = stack[Len(stack)] /\ Len(stack) \in 1 .. Len(stack)
    BY <1>1, PopFacts DEF Top
  <2>2. ~Top.live
    BY <1>1, <1>3, <2>1 DEF Framed, Spent
  <2>3. Top' = Top
    BY <1>3 DEF Top
  <2> QED
    BY <2>2, <2>3
<1> QED
  BY <1>1, <1>2, <1>3

\* A group is left, or goes on to its next route.
LEMMA GroupStep ==
  ASSUME Framed, FoldEnd \/ GroupBack
  PROVE  Framed' /\ (Answered /\ Repeats => Answered' /\ Repeats')
<1>1. /\ stack # <<>> /\ Tree[Top.node].kind = "group" /\ stack \in Seq(Frame)
      /\ UNCHANGED <<at, live, sends, sent>>
  BY GroupFacts
<1>2. CASE mode' = "back" /\ stack' = Front(stack)
  <2>1. Framed'
    BY <1>1, <1>2, PopKeeps DEF Framed, Shape
  <2> QED
    BY <1>1, <1>2, <2>1 DEF Answered, Repeats
<1>3. CASE mode = "back" /\ mode' = "fold" /\ stack' = stack /\ Top' = Top /\ ~Top.live
  <2>1. Shape'
    BY <1>1, <1>3 DEF Framed, Shape
  <2>2. Spent'
    BY <1>3 DEF Framed, Spent
  <2>3. ASSUME Answered, Repeats PROVE Answered' /\ Repeats'
    BY <1>1, <1>3, <2>3 DEF Answered, Repeats
  <2> QED
    BY <2>1, <2>2, <2>3 DEF Framed
<1> QED
  BY <1>2, <1>3, GroupFacts

\* What server_fault does when it is left: it answers 500, or hands on what it got.
LEMMA FaultFacts ==
  ASSUME FaultBack
  PROVE  /\ mode = "back" /\ stack # <<>> /\ stack' = Front(stack)
         /\ UNCHANGED <<input, at, request, sends, sent, link, history>>
         /\ \/ mode' = "sending" /\ sending' = "500" /\ value = "std" /\ Top.live
            \/ mode' = "back" /\ value' = "std" /\ value = "std" /\ ~Top.live
            \/ mode' = "back" /\ value' = value /\ value # "std"
<1>1. /\ mode = "back" /\ stack # <<>> /\ stack' = Front(stack)
      /\ UNCHANGED <<input, at, request, sends, sent, link, history>>
  BY DEF FaultBack
<1>2. CASE value = "std" /\ Top.live
  BY <1>1, <1>2 DEF FaultBack, Answer
<1>3. CASE value = "std" /\ ~Top.live
  BY <1>1, <1>3, Zenon DEF FaultBack, Answer, GiveBack
<1>4. CASE value # "std"
  BY <1>1, <1>4, Zenon DEF FaultBack, GiveBack
<1> QED
  BY <1>2, <1>3, <1>4

\* server_fault is left; it may answer 500 first.
LEMMA FaultStep ==
  ASSUME Framed, FaultBack
  PROVE  Framed' /\ (Answered /\ Repeats => Answered' /\ Repeats')
<1>1. stack # <<>> /\ stack' = Front(stack) /\ UNCHANGED <<at, live, sends, sent>>
  BY FaultFacts DEF request
<1>2. mode' = "back" \/ (mode' = "sending" /\ sending' = "500")
  BY FaultFacts
<1>3. Framed'
  BY <1>1, <1>2, PopKeeps DEF Framed, Shape, Statuses
<1> QED
  BY <1>1, <1>2, <1>3 DEF Answered, Repeats

\* A handler begins, sends, and ends.
LEMMA HandlerStep ==
  ASSUME Framed, CallEndPoint \/ Handler
  PROVE  Framed' /\ (MaxSends <= 1 /\ Answered /\ Repeats => Answered' /\ Repeats')
<1>1. CASE CallEndPoint
  BY <1>1 DEF CallEndPoint, Calling, Framed, Shape, Spent, Answered, Repeats, request
<1>2. CASE HandlerSend
  <2>1. CASE live
    <3>1. /\ mode = "handler" /\ mode' = "sending" /\ sending' = "ok" /\ sends < MaxSends
          /\ UNCHANGED <<at, live, stack, sends, sent>>
      BY <1>2, <2>1 DEF HandlerSend, Answer, request
    <3>2. Framed'
      BY <3>1 DEF Framed, Shape, Spent, Statuses
    <3>3. ASSUME MaxSends <= 1, Answered, Repeats PROVE Answered' /\ Repeats'
      <4>1. sends = 0
        BY <3>1, <3>3, HandlerAssumption DEF Framed, Shape
      <4>2. sent = <<>>
        BY <2>1, <3>1, <3>3, <4>1 DEF Answered
      <4> QED
        BY <3>1, <3>3, <4>2 DEF Answered, Repeats
    <3> QED
      BY <3>2, <3>3
  <2>2. CASE ~live
    BY <1>2, <2>2 DEF HandlerSend, Answer, GiveBack, request,
       Framed, Shape, Spent, Answered, Repeats
  <2> QED
    BY <2>1, <2>2
<1>3. CASE HandlerReturn \/ HandlerThrow
  BY <1>3 DEF HandlerReturn, HandlerThrow, GiveBack, request, wire,
     Framed, Shape, Spent, Answered, Repeats
<1> QED
  BY <1>1, <1>2, <1>3 DEF Handler

\* A write completes or fails.
LEMMA WriteStep ==
  ASSUME Framed, Write
  PROVE  Framed' /\ (Answered /\ Repeats => Answered' /\ Repeats')
<1>1. CASE WriteDone
  <2>1. /\ mode = "sending" /\ mode' \in {"handler", "back"} /\ UNCHANGED <<at, live, stack>>
        /\ sent' = Append(sent, sending) /\ sending \in Statuses /\ sent \in Seq(Statuses)
        /\ sends \in Nat
        /\ \/ mode' = "handler" /\ sends' = sends + 1
           \/ mode' = "back" /\ sends' = sends
    BY <1>1 DEF WriteDone, GiveBack, request, Framed, Shape
  <2>2. Framed'
    BY <2>1 DEF Framed, Shape, Spent
  <2>3. Answered'
    BY <2>1 DEF Answered
  <2>4. ASSUME Answered, Repeats PROVE Repeats'
    <3>1. /\ Len(sent) \in Nat /\ Len(sent') = Len(sent) + 1 /\ sent'[Len(sent) + 1] = sending
          /\ \A i \in 1 .. Len(sent) : sent'[i] = sent[i]
      BY <2>1
    <3>2. Len(sent) # 0 => sending = "500"
      BY <2>1, <2>4 DEF Answered
    <3> QED
      BY <2>4, <3>1, <3>2 DEF Repeats
  <2> QED
    BY <2>2, <2>3, <2>4
<1>2. CASE WriteFail
  BY <1>2 DEF WriteFail, GiveBack, request, wire, Framed, Shape, Spent, Answered, Repeats
<1> QED
  BY <1>1, <1>2 DEF Write

\* Every step keeps the frames in order, and, if handlers answer at most once,
\* what is known of the answers.
LEMMA FramedNext ==
  ASSUME Framed, [Next]_vars
  PROVE  Framed' /\ (MaxSends <= 1 /\ Answered /\ Repeats => Answered' /\ Repeats')
<1>1. CASE UNCHANGED vars
  BY <1>1 DEF vars, Framed, Shape, Spent, Answered, Repeats, Top
<1>2. CASE PeerReset
  BY <1>2 DEF PeerReset, request, Framed, Shape, Spent, Answered, Repeats, Top
<1>3. CASE Finish
  BY <1>3 DEF Finish, request, wire, Framed, Shape, Spent, Answered, Repeats
<1>4. CASE Call
  BY <1>4, CallsPass, PassStep, NotFoundPasses, PushStep, HandlerStep DEF Call
<1>5. CASE Fold \/ Back
  BY <1>3, <1>5, FoldStep, GroupStep, FaultStep DEF Fold, Back
<1>6. CASE Write \/ Handler
  BY <1>6, WriteStep, HandlerStep
<1> QED
  BY <1>1, <1>2, <1>4, <1>5, <1>6 DEF Next, Serve

\* Every step keeps Contained, if handlers answer at most once.
LEMMA ContainedNext == ASSUME MaxSends <= 1 PROVE Contained /\ [Next]_vars => Contained'
BY FramedNext DEF Contained

\* Contained holds of a request that has not been passed to anybody yet.
LEMMA ContainedInit == Init => Contained
<1> SUFFICES ASSUME Init PROVE Contained
  OBVIOUS
<1>1. at \in Nodes
  BY InputsAssumption DEF Init
<1>2. stack = <<>> /\ sent = <<>> /\ sends = 0 /\ mode = "call" /\ live = TRUE
  BY DEF Init
<1> QED
  BY <1>1, <1>2 DEF Contained, Framed, Shape, Spent, Answered, Repeats

-----------------------------------------------------------------------------
(* What reaches the session.                                               *)

\* The root has not been called, its frame is at the bottom of the stack with a
\* copy of the response, it answers 500, or its outcome is on the way out.
Covered ==
  \/ mode = "call" /\ stack = <<>> /\ live
     /\ Tree[at].kind = "middleware" /\ Tree[at].fn = "server_fault"
  \/ /\ stack # <<>> /\ mode # "done"
     /\ stack[1].live /\ Tree[stack[1].node].kind = "middleware"
  \/ stack = <<>> /\ mode = "sending" /\ sending = "500"
  \/ stack = <<>> /\ mode \in {"back", "done"} /\ (value = "std" => link = "down")
  \/ stack = <<>> /\ mode = "aborted"

Reaches == Contained /\ Covered

\* The frame at the bottom is not that of a group: a group never empties the stack.
LEMMA GroupAboveBottom ==
  ASSUME Reaches, stack # <<>>, Tree[Top.node].kind = "group"
  PROVE  /\ Len(stack) \in Nat /\ Len(stack) > 1 /\ Len(stack) # 1
         /\ stack[1].live /\ Tree[stack[1].node].kind = "middleware"
<1>1. Top = stack[Len(stack)] /\ Len(stack) \in Nat \ {0}
  BY PopFacts DEF Reaches, Contained, Framed, Shape, Top
<1>2. stack[1].live /\ Tree[stack[1].node].kind = "middleware"
  BY DEF Reaches, Covered
<1>3. Len(stack) # 1
  BY <1>1, <1>2
<1> QED
  BY <1>1, <1>2, <1>3

\* A call: without frames it is that of the root, which keeps one.
LEMMA CallCovered ==
  ASSUME Reaches, Call
  PROVE  Covered'
<1>1. mode = "call" /\ stack \in Seq(Frame) /\ live \in BOOLEAN /\ at \in Nodes
  BY DEF Reaches, Contained, Framed, Shape, Call, Bind, AssertFails, BindGarbage, CallGroup, Observe,
     NotFound, ServerFault, ObjectBody, CookieParser, CallEndPoint, Running, Calling
<1>2. mode' # "done"
  BY DEF Call, Bind, AssertFails, BindGarbage, CallGroup, Observe, NotFound, ServerFault,
     ObjectBody, CookieParser, CallEndPoint, CallNext, Answer, GiveBack
<1>3. CASE CallGroup \/ ServerFault
  <2> DEFINE f == [node |-> at, live |-> live, next |-> 1]
  <2>1. stack' = Append(stack, f) /\ f \in Frame /\ f.live = live /\ f.node = at
    BY <1>1, <1>3 DEF CallGroup, ServerFault, Frame
  <2> HIDE DEF f
  <2>2. CASE stack = <<>>
    <3>1. stack' # <<>> /\ stack'[1] = f
      BY <2>1, <2>2
    <3>2. live /\ Tree[at].kind = "middleware"
      BY <1>1, <2>2 DEF Reaches, Covered
    <3> QED
      BY <1>2, <2>1, <3>1, <3>2 DEF Covered
  <2>3. CASE stack # <<>>
    <3>1. stack' # <<>> /\ stack'[1] = stack[1]
      BY <1>1, <2>1, <2>3
    <3> QED
      BY <1>2, <2>3, <3>1 DEF Reaches, Covered
  <2> QED
    BY <2>2, <2>3
<1>4. CASE ~(CallGroup \/ ServerFault)
  <2>1. stack' = stack
    BY <1>4 DEF Call, Bind, AssertFails, BindGarbage, Observe, NotFound, ObjectBody,
       CookieParser, CallEndPoint, request
  <2>2. stack # <<>>
    <3> SUFFICES ASSUME stack = <<>> PROVE FALSE
      OBVIOUS
    <3>1. Tree[at].kind = "middleware" /\ Tree[at].fn = "server_fault"
      BY <1>1 DEF Reaches, Covered
    <3> QED
      BY <1>4, <3>1 DEF Call, Bind, AssertFails, BindGarbage, Observe, NotFound, ObjectBody,
         CookieParser, CallEndPoint, Running, Calling, Observers
  <2> QED
    BY <1>1, <1>2, <2>1, <2>2 DEF Reaches, Covered
<1> QED
  BY <1>3, <1>4

\* The fold of a group, and its end.
LEMMA GroupCovered ==
  ASSUME Reaches, Fold \/ GroupBack
  PROVE  Covered'
<1>1. stack # <<>> /\ Tree[Top.node].kind = "group" /\ stack \in Seq(Frame)
  BY DEF Reaches, Contained, Framed, Shape, Fold, FoldCall, FoldSkip, FoldEnd, GroupBack
<1>2. /\ Len(stack) \in Nat /\ Len(stack) > 1 /\ Len(stack) # 1
      /\ stack[1].live /\ Tree[stack[1].node].kind = "middleware"
  BY <1>1, GroupAboveBottom
<1>3. stack' # <<>> /\ stack'[1] = stack[1]
  <2>1. CASE stack' = stack
    BY <1>1, <2>1
  <2>2. CASE stack' = Front(stack)
    BY <1>1, <1>2, <2>2, PopFacts
  <2>3. CASE \E f : stack' = [stack EXCEPT ![Len(stack)] = f]
    <3>1. PICK f : stack' = [stack EXCEPT ![Len(stack)] = f]
      BY <2>3
    <3>2. DOMAIN stack = 1 .. Len(stack) /\ 1 \in DOMAIN stack /\ Len(stack) # 1
      <4>1. 1 \in 1 .. Len(stack)
        BY <1>2
      <4>2. Len(stack) # 1
        BY <1>2
      <4>3. DOMAIN stack = 1 .. Len(stack)
        BY <1>1
      <4> QED
        BY <4>1, <4>3, <4>2
    <3>3. stack'[1] = stack[1] /\ DOMAIN stack' = DOMAIN stack
      BY <3>1, <3>2
    <3> QED
      BY <3>2, <3>3
  <2> QED
    BY <2>1, <2>2, <2>3 DEF Fold, FoldCall, FoldSkip, FoldEnd, GroupBack
<1>4. mode' # "done"
  BY DEF Fold, FoldCall, FoldSkip, FoldEnd, GroupBack, GiveBack
<1> QED
  BY <1>2, <1>3, <1>4 DEF Covered

\* The end of server_fault: that of the root has a copy to answer with.
LEMMA FaultCovered ==
  ASSUME Reaches, FaultBack
  PROVE  Covered'
<1>1. /\ stack # <<>> /\ stack \in Seq(Frame) /\ stack' = Front(stack)
      /\ stack[1].live /\ Tree[stack[1].node].kind = "middleware"
  BY DEF Reaches, Contained, Framed, Shape, Covered, FaultBack
<1>2. /\ Top = stack[Len(stack)] /\ Len(stack) \in Nat \ {0}
      /\ stack' \in Seq(Frame) /\ Len(stack') = Len(stack) - 1
      /\ \A i \in 1 .. Len(stack) - 1 : stack'[i] = stack[i]
  BY <1>1, PopFacts DEF Top
<1>3. CASE Len(stack) > 1
  <2>1. stack' # <<>> /\ stack'[1] = stack[1]
    BY <1>2, <1>3
  <2>2. mode' # "done"
    <3>1. CASE value = "std" /\ Top.live
      BY <3>1 DEF FaultBack, Answer
    <3>2. CASE value = "std" /\ ~Top.live
      BY <3>2, Zenon DEF FaultBack, Answer, GiveBack
    <3>3. CASE value # "std"
      BY <3>3, Zenon DEF FaultBack, GiveBack
    <3> QED
      BY <3>1, <3>2, <3>3
  <2> QED
    BY <1>1, <2>1, <2>2 DEF Covered
<1>4. CASE Len(stack) = 1
  <2>1. stack' = <<>> /\ Top.live
    BY <1>1, <1>2, <1>4
  <2>2. CASE value = "std"
    <3>1. mode' = "sending" /\ sending' = "500"
      BY <2>1, <2>2 DEF FaultBack, Answer
    <3> QED
      BY <2>1, <3>1 DEF Covered
  <2>3. CASE value # "std"
    <3>1. mode' = "back" /\ value' = value
      BY <2>3, Zenon DEF FaultBack, GiveBack
    <3> QED
      BY <2>1, <2>3, <3>1 DEF Covered
  <2> QED
    BY <2>2, <2>3
<1> QED
  BY <1>2, <1>3, <1>4

\* Handlers, writes, and the end: the stack stays.
LEMMA OthersCovered ==
  ASSUME Reaches, Handler \/ Write \/ Finish \/ PeerReset \/ UNCHANGED vars
  PROVE  Covered'
<1>1. stack' = stack
  BY DEF Handler, HandlerSend, HandlerReturn, HandlerThrow, Write, WriteDone, WriteFail, Finish,
     PeerReset, vars
<1>2. CASE stack # <<>>
  <2>1. mode # "done"
    BY <1>2 DEF Reaches, Covered
  <2>2. mode' # "done"
    BY <1>2, <2>1 DEF Handler, HandlerSend, HandlerReturn, HandlerThrow, Write, WriteDone,
       WriteFail, Finish, PeerReset, vars, Answer, GiveBack
  <2> QED
    BY <1>1, <1>2, <2>2 DEF Reaches, Covered
<1>3. CASE stack = <<>> /\ (Handler \/ Write \/ Finish)
  BY <1>1, <1>3 DEF Reaches, Covered, Handler, HandlerSend, HandlerReturn, HandlerThrow,
     Write, WriteDone, WriteFail, Finish, GiveBack, wire
<1>4. CASE stack = <<>> /\ (PeerReset \/ UNCHANGED vars)
  BY <1>1, <1>4 DEF Reaches, Covered, PeerReset, request, vars
<1> QED
  BY <1>2, <1>3, <1>4

\* Both parts of the invariant always hold.
LEMMA ReachesAlways == ASSUME MaxSends <= 1, RootFault PROVE Spec => []Reaches
<1>1. Init => Reaches
  <2> SUFFICES ASSUME Init PROVE Covered
    BY ContainedInit DEF Reaches
  <2>1. mode = "call" /\ stack = <<>> /\ live = TRUE /\ at = input.app /\ input \in Inputs
    BY DEF Init
  <2> QED
    BY <2>1 DEF Covered, RootFault
<1>2. Reaches /\ [Next]_vars => Reaches'
  <2> SUFFICES ASSUME Reaches, [Next]_vars PROVE Reaches'
    OBVIOUS
  <2>1. Contained'
    BY ContainedNext DEF Reaches
  <2>2. Covered'
    BY CallCovered, GroupCovered, FaultCovered, OthersCovered DEF Next, Serve, Fold, Back
  <2> QED
    BY <2>1, <2>2 DEF Reaches
<1> QED
  BY <1>1, <1>2, PTL DEF Spec

\* Under a server_fault at the root, when handlers answer at most once, no
\* std::exception but that of a lost connection reaches the session, and every
\* answer after the first one is a 500 (the catch of server_fault_mw, the moves
\* of the response through group and binding).
THEOREM FaultsAreContained ==
  ASSUME MaxSends <= 1, RootFault
  PROVE  Spec => []FaultContained
<1>1. Reaches => FaultContained
  <2> SUFFICES ASSUME Reaches PROVE FaultContained
    OBVIOUS
  <2>1. \A i \in 2 .. Len(sent) : sent[i] = "500"
    BY DEF Reaches, Contained, Repeats
  <2>2. mode = "done" /\ value = "std" => link = "down"
    BY DEF Reaches, Covered
  <2> QED
    BY <2>1, <2>2 DEF FaultContained
<1> QED
  BY <1>1, ReachesAlways, PTL

-----------------------------------------------------------------------------
(* The reference for routing, node by node.                                *)

\* Whether e serves request x from node n and offset o on, by what f says of the
\* children of n; paths are split at the longest prefix.
ServeStep(x, e, f, n, o) ==
  LET t    == Tree[n]
      ends == {o + l : l \in Lengths(t.pattern, Rest(x.path, o))}
  IN  \/ t.kind = "end_point" /\ n = e /\ t.verb = x.verb /\ o = Len(x.path)
      \/ /\ t.kind = "binding"
         /\ \E b \in ends : (TRUE => b = Max(ends)) /\ f[t.next][b]
      \/ t.kind = "group" /\ \E i \in DOMAIN t.routes : f[t.routes[i]][o]
      \/ t.kind = "middleware" /\ f[t.next][o]

\* The function ServesRequest defines by recursion.
ServesFcn(x, e) ==
  CHOOSE f : f = [n \in Nodes |-> [o \in 0 .. Len(x.path) |-> ServeStep(x, e, f, n, o)]]
ServesAt(x, e, n, o) == ServesFcn(x, e)[n][o]

\* ServesRequest is ServesAt at the root, and ServesAt follows its equation.
LEMMA ServesEquation ==
  ASSUME NEW x, Len(x.path) \in Nat, NEW e
  PROVE  /\ ServesRequest(x, e, TRUE) = ServesAt(x, e, x.app, 0)
         /\ \A n \in Nodes, o \in 0 .. Len(x.path) :
              ServesAt(x, e, n, o) = ServeStep(x, e, ServesFcn(x, e), n, o)
<1> DEFINE D == Nodes
           O == 0 .. Len(x.path)
           V == [O -> BOOLEAN]
           row(f, m) == [b \in O |-> ServeStep(x, e, f, m, b)]
           H == [a \in [D -> V] \X D |-> row(a[1], a[2])]
           size == [m \in D |-> Len(Tree) - m]
           bound == Len(Tree)
<1>1. size \in [D -> Nat] /\ bound \in Nat /\ \A m \in D : size[m] < bound
  BY TreeAssumption
<1>2. V # {}
  <2>1. [o \in O |-> TRUE] \in V
    OBVIOUS
  <2> QED
    BY <2>1
<1>3. ASSUME NEW f, NEW m PROVE row(f, m) \in V
  BY DEF ServeStep
<1>4. H \in [[D -> V] \X D -> V]
  <2> HIDE DEF row, D, V
  <2> QED
    BY <1>3
<1>5. \A g, h \in [D -> V], m \in D :
        (\A j \in D : size[j] < size[m] => g[j] = h[j]) => H[<<g, m>>] = H[<<h, m>>]
  <2> SUFFICES ASSUME NEW g \in [D -> V], NEW h \in [D -> V], NEW m \in D,
                      \A j \in D : size[j] < size[m] => g[j] = h[j]
               PROVE  H[<<g, m>>] = H[<<h, m>>]
    OBVIOUS
  <2>1. ASSUME NEW j \in m + 1 .. Len(Tree) PROVE g[j] = h[j]
    <3>1. j \in D /\ m \in D /\ size[j] < size[m]
      BY TreeAssumption
    <3> QED
      BY <3>1
  <2>2. ASSUME NEW b \in O PROVE ServeStep(x, e, g, m, b) = ServeStep(x, e, h, m, b)
    <3>1. Tree[m].kind \in {"binding", "middleware"} => g[Tree[m].next] = h[Tree[m].next]
      BY <2>1, ChildFacts
    <3>2. Tree[m].kind = "group" =>
            \A i \in DOMAIN Tree[m].routes : g[Tree[m].routes[i]] = h[Tree[m].routes[i]]
      BY <2>1, ChildFacts
    <3> QED
      BY <3>1, <3>2 DEF ServeStep
  <2>3. row(g, m) = row(h, m)
    BY <2>2
  <2>4. H[<<g, m>>] = row(g, m) /\ H[<<h, m>>] = row(h, m)
    <3> HIDE DEF row, D, V
    <3> QED
      OBVIOUS
  <2> QED
    BY <2>3, <2>4
<1>6. HasFunction(D, V, H)
  <2> HIDE DEF D, V, H, size, bound
  <2>1. IsRecursion(D, V, size, bound, H)
    BY <1>1, <1>2, <1>4, <1>5 DEF IsRecursion
  <2> QED
    BY <2>1, RecursiveFunction
<1>7. \E f : f = [m \in D |-> row(f, m)]
  <2>1. PICK f \in [D -> V] : \A m \in D : f[m] = H[<<f, m>>]
    BY <1>6 DEF HasFunction
  <2> HIDE DEF row, D, V
  <2>2. \A m \in D : f[m] = row(f, m)
    BY <2>1
  <2>3. f = [m \in D |-> row(f, m)]
    BY <2>1, <2>2
  <2> QED
    BY <2>3
<1> DEFINE serves == CHOOSE f : f = [m \in D |-> row(f, m)]
<1>8. serves = [m \in D |-> row(serves, m)]
  <2> HIDE DEF row, D
  <2> QED
    BY <1>7
<1>9. ServesRequest(x, e, TRUE) = serves[x.app][0]
  BY DEF ServesRequest, ServeStep
<1>10. ServesFcn(x, e) = serves
  BY DEF ServesFcn
<1> HIDE DEF serves
<1>11. ASSUME NEW n \in Nodes, NEW o \in 0 .. Len(x.path)
       PROVE  serves[n][o] = ServeStep(x, e, serves, n, o)
  <2>1. serves[n] = row(serves, n)
    <3> HIDE DEF row
    <3> QED
      BY <1>8
  <2> QED
    BY <2>1
<1> QED
  BY <1>9, <1>10, <1>11 DEF ServesAt

\* The end of a binding's match.
After(n, path, o) == o + MatchLen(Tree[n].pattern, Rest(path, o))

\* It is within the path, and the last of the ends ServesRequest chooses from.
LEMMA AfterFacts ==
  ASSUME NEW Text, NEW path \in Seq(Text), NEW n \in Nodes, Tree[n].kind = "binding",
         NEW o \in 0 .. Len(path)
  PROVE  LET ends == {o + l : l \in Lengths(Tree[n].pattern, Rest(path, o))}
         IN  /\ StartsWith(Tree[n].pattern, Rest(path, o)) <=> ends # {}
             /\ ends # {} => /\ After(n, path, o) \in ends /\ After(n, path, o) = Max(ends)
                             /\ After(n, path, o) \in 0 .. Len(path)
<1> DEFINE p == Tree[n].pattern
           s == Rest(path, o)
           L == Lengths(p, s)
           ends == {o + l : l \in L}
<1>1. Len(path) \in Nat /\ Len(s) \in Nat /\ Len(s) = Len(path) - o
  BY RestFacts
<1>2. Len(p) \in Nat
  BY TreeAssumption
<1>3. /\ L \in SUBSET (0 .. Len(s)) /\ (StartsWith(p, s) <=> L # {})
      /\ StartsWith(p, s) => MatchLen(p, s) \in L /\ \A l \in L : l <= MatchLen(p, s)
  BY <1>1, <1>2, LongestPrefix
<1> HIDE DEF s, p, L
<1>4. ends \in SUBSET (0 .. Len(path)) /\ (ends # {} <=> L # {})
  BY <1>1, <1>3
<1>5. ASSUME ends # {}
      PROVE  o + MatchLen(p, s) \in ends /\ o + MatchLen(p, s) = Max(ends)
  <2>1. MatchLen(p, s) \in L /\ (\A l \in L : l <= MatchLen(p, s)) /\ MatchLen(p, s) \in Nat
    <3>1. StartsWith(p, s)
      BY <1>3, <1>4, <1>5, Zenon
    <3>2. MatchLen(p, s) \in L /\ \A l \in L : l <= MatchLen(p, s)
      BY <1>3, <3>1, Zenon
    <3>3. MatchLen(p, s) \in 0 .. Len(s)
      BY <1>3, <3>2, Zenon
    <3> QED
      BY <3>2, <3>3
  <2>2. Max(ends) \in ends /\ \A y \in ends : y <= Max(ends)
    <3> HIDE DEF ends
    <3> QED
      BY <1>1, <1>4, <1>5, MaxFacts
  <2>3. PICK l \in L : Max(ends) = o + l
    BY <2>2
  <2>4. o + MatchLen(p, s) \in ends
    BY <2>1
  <2>5. o + MatchLen(p, s) <= Max(ends)
    BY <2>2, <2>4
  <2>6. l <= MatchLen(p, s) /\ l \in Nat
    BY <1>3, <2>1, <2>3
  <2> QED
    BY <2>1, <2>3, <2>4, <2>5, <2>6
<1> HIDE DEF ends
<1>6. /\ StartsWith(p, s) <=> ends # {}
      /\ ends # {} => /\ o + MatchLen(p, s) \in ends /\ o + MatchLen(p, s) = Max(ends)
                      /\ o + MatchLen(p, s) \in 0 .. Len(path)
  BY <1>3, <1>4, <1>5
<1> QED
  BY <1>6 DEF After, p, s, L, ends

\* Who serves a request from a node of each kind.
LEMMA ServesFacts ==
  ASSUME NEW x, NEW Text, x.path \in Seq(Text), NEW e, NEW n \in Nodes,
         NEW o \in 0 .. Len(x.path)
  PROVE  /\ ServesAt(x, e, n, o) \in BOOLEAN
         /\ Tree[n].kind = "end_point" =>
              (ServesAt(x, e, n, o) <=> n = e /\ Tree[n].verb = x.verb /\ o = Len(x.path))
         /\ Tree[n].kind = "binding" =>
              (ServesAt(x, e, n, o) <=>
                 /\ StartsWith(Tree[n].pattern, Rest(x.path, o))
                 /\ ServesAt(x, e, Tree[n].next, After(n, x.path, o)))
         /\ Tree[n].kind = "group" =>
              (ServesAt(x, e, n, o) <=>
                 \E i \in DOMAIN Tree[n].routes : ServesAt(x, e, Tree[n].routes[i], o))
         /\ Tree[n].kind = "middleware" =>
              (ServesAt(x, e, n, o) <=> ServesAt(x, e, Tree[n].next, o))
<1>1. ServesAt(x, e, n, o) = ServeStep(x, e, ServesFcn(x, e), n, o)
  <2>1. Len(x.path) \in Nat
    OBVIOUS
  <2> QED
    BY <2>1, ServesEquation, Zenon
<1>2. CASE Tree[n].kind # "binding"
  BY <1>1, <1>2 DEF ServeStep, ServesAt
<1>3. CASE Tree[n].kind = "binding"
  <2> DEFINE ends == {o + l : l \in Lengths(Tree[n].pattern, Rest(x.path, o))}
             f == ServesFcn(x, e)
  <2>1. /\ StartsWith(Tree[n].pattern, Rest(x.path, o)) <=> ends # {}
        /\ ends # {} => /\ After(n, x.path, o) \in ends /\ After(n, x.path, o) = Max(ends)
    BY <1>3, AfterFacts
  <2>2. ServeStep(x, e, f, n, o) <=> \E b \in ends : b = Max(ends) /\ f[Tree[n].next][b]
    BY <1>3 DEF ServeStep
  <2>3. ServeStep(x, e, f, n, o) \in BOOLEAN
    BY DEF ServeStep
  <2> HIDE DEF ends, f
  <2>4. ServeStep(x, e, f, n, o) <=>
          StartsWith(Tree[n].pattern, Rest(x.path, o)) /\ f[Tree[n].next][After(n, x.path, o)]
    BY <2>1, <2>2
  <2> QED
    BY <1>1, <1>3, <2>3, <2>4 DEF ServesAt, f
<1> QED
  BY <1>2, <1>3

\* match() of a node accepts what some end point below it serves.
LEMMA MatchIsServed ==
  ASSUME NEW x, NEW Text, x.path \in Seq(Text)
  PROVE  \A n \in Nodes, o \in 0 .. Len(x.path) :
           Match(n, x.verb, x.path, o) <=> \E e \in Nodes : ServesAt(x, e, n, o)
<1> DEFINE Fact(n) == \A o \in 0 .. Len(x.path) :
                        Match(n, x.verb, x.path, o) <=> \E e \in Nodes : ServesAt(x, e, n, o)
           T == {n \in Nat : Fact(n)}
<1>1. ASSUME NEW n \in 1 .. Len(Tree), \A j \in n + 1 .. Len(Tree) : Fact(j)
      PROVE  Fact(n)
  <2> SUFFICES ASSUME NEW o \in 0 .. Len(x.path)
               PROVE  Match(n, x.verb, x.path, o) <=> \E e \in Nodes : ServesAt(x, e, n, o)
    OBVIOUS
  <2>1. n \in Nodes /\ Len(x.path) \in Nat
    BY TreeAssumption
  <2>2. CASE Tree[n].kind = "end_point"
    <3>1. Match(n, x.verb, x.path, o) <=> x.verb = Tree[n].verb /\ o = Len(x.path)
      BY <2>1, <2>2, MatchFacts
    <3>2. \A e : ServesAt(x, e, n, o) <=> n = e /\ Tree[n].verb = x.verb /\ o = Len(x.path)
      BY <2>1, <2>2, ServesFacts
    <3> QED
      BY <2>1, <3>1, <3>2
  <2>3. CASE Tree[n].kind = "binding"
    <3>1. Match(n, x.verb, x.path, o) <=>
            /\ StartsWith(Tree[n].pattern, Rest(x.path, o))
            /\ Match(Tree[n].next, x.verb, x.path, After(n, x.path, o))
      BY <2>1, <2>3, MatchFacts DEF After
    <3>2. \A e : ServesAt(x, e, n, o) <=>
            /\ StartsWith(Tree[n].pattern, Rest(x.path, o))
            /\ ServesAt(x, e, Tree[n].next, After(n, x.path, o))
      BY <2>1, <2>3, ServesFacts
    <3>3. StartsWith(Tree[n].pattern, Rest(x.path, o)) => After(n, x.path, o) \in 0 .. Len(x.path)
      BY <2>1, <2>3, AfterFacts
    <3>4. Tree[n].next \in n + 1 .. Len(Tree)
      BY <2>1, <2>3, ChildFacts
    <3> QED
      BY <1>1, <3>1, <3>2, <3>3, <3>4
  <2>4. CASE Tree[n].kind = "group"
    <3>1. Match(n, x.verb, x.path, o) <=>
            \E i \in DOMAIN Tree[n].routes : Match(Tree[n].routes[i], x.verb, x.path, o)
      BY <2>1, <2>4, MatchFacts
    <3>2. \A e : ServesAt(x, e, n, o) <=>
            \E i \in DOMAIN Tree[n].routes : ServesAt(x, e, Tree[n].routes[i], o)
      BY <2>1, <2>4, ServesFacts
    <3>3. \A i \in DOMAIN Tree[n].routes : Tree[n].routes[i] \in n + 1 .. Len(Tree)
      BY <2>1, <2>4, ChildFacts
    <3>4. \A i \in DOMAIN Tree[n].routes :
            Match(Tree[n].routes[i], x.verb, x.path, o) <=>
              \E e \in Nodes : ServesAt(x, e, Tree[n].routes[i], o)
      BY <1>1, <3>3
    <3> QED
      BY <3>1, <3>2, <3>4, Zenon
  <2>5. CASE Tree[n].kind = "middleware"
    <3>1. Match(n, x.verb, x.path, o) <=> Match(Tree[n].next, x.verb, x.path, o)
      BY <2>1, <2>5, MatchFacts
    <3>2. \A e : ServesAt(x, e, n, o) <=> ServesAt(x, e, Tree[n].next, o)
      BY <2>1, <2>5, ServesFacts
    <3>3. Tree[n].next \in n + 1 .. Len(Tree)
      BY <2>1, <2>5, ChildFacts
    <3> QED
      BY <1>1, <3>1, <3>2, <3>3
  <2> QED
    BY <2>1, <2>2, <2>3, <2>4, <2>5, TreeAssumption
<1>2. \A n \in 1 .. Len(Tree) : (\A j \in n + 1 .. Len(Tree) : j \in T) => n \in T
  <2> HIDE DEF Fact
  <2>1. ASSUME NEW n \in 1 .. Len(Tree), \A j \in n + 1 .. Len(Tree) : j \in T PROVE n \in T
    BY <1>1, <2>1, TreeAssumption
  <2> QED
    BY <2>1
<1> HIDE DEF T
<1>3. \A n \in 1 .. Len(Tree) : n \in T
  BY <1>2, Descent, TreeAssumption
<1> QED
  BY <1>3, TreeAssumption DEF T

\* What serves a request from n on is below n.
LEMMA ServedInside ==
  ASSUME NEW last, InOrder(last), NEW x, NEW Text, x.path \in Seq(Text), NEW e
  PROVE  \A n \in Nodes, o \in 0 .. Len(x.path) :
           ServesAt(x, e, n, o) => e \in Nodes /\ n <= e /\ e <= last[n]
<1> DEFINE Fact(n) == \A o \in 0 .. Len(x.path) :
                        ServesAt(x, e, n, o) => e \in Nodes /\ n <= e /\ e <= last[n]
           T == {n \in Nat : Fact(n)}
<1>1. ASSUME NEW n \in 1 .. Len(Tree), \A j \in n + 1 .. Len(Tree) : Fact(j)
      PROVE  Fact(n)
  <2> SUFFICES ASSUME NEW o \in 0 .. Len(x.path), ServesAt(x, e, n, o)
               PROVE  e \in Nodes /\ n <= e /\ e <= last[n]
    OBVIOUS
  <2>1. n \in Nodes /\ last[n] \in Nodes /\ n <= last[n] /\ Nodes = 1 .. Len(Tree)
        /\ Len(Tree) \in Nat
    BY TreeAssumption DEF InOrder
  <2>2. CASE Tree[n].kind = "end_point"
    <3>1. n = e
      BY <2>1, <2>2, ServesFacts
    <3> QED
      BY <2>1, <3>1
  <2>3. ASSUME NEW m \in n + 1 .. Len(Tree), last[m] <= last[n],
               NEW b \in 0 .. Len(x.path), ServesAt(x, e, m, b)
        PROVE  e \in Nodes /\ n <= e /\ e <= last[n]
    <3>1. e \in Nodes /\ m <= e /\ e <= last[m]
      BY <1>1, <2>3
    <3>2. last[m] \in Nodes
      BY <2>1 DEF InOrder
    <3> QED
      BY <2>1, <2>3, <3>1, <3>2
  <2>4. CASE Tree[n].kind = "binding"
    <3>1. /\ StartsWith(Tree[n].pattern, Rest(x.path, o))
          /\ ServesAt(x, e, Tree[n].next, After(n, x.path, o))
      BY <2>1, <2>4, ServesFacts
    <3>2. After(n, x.path, o) \in 0 .. Len(x.path)
      BY <2>1, <2>4, <3>1, AfterFacts
    <3>3. Tree[n].next \in n + 1 .. Len(Tree) /\ last[Tree[n].next] <= last[n]
      BY <2>1, <2>4, ChildFacts DEF InOrder
    <3> QED
      BY <2>3, <3>1, <3>2, <3>3
  <2>5. CASE Tree[n].kind = "group"
    <3>1. PICK i \in DOMAIN Tree[n].routes : ServesAt(x, e, Tree[n].routes[i], o)
      BY <2>1, <2>5, ServesFacts
    <3>2. Tree[n].routes[i] \in n + 1 .. Len(Tree) /\ last[Tree[n].routes[i]] <= last[n]
      BY <2>1, <2>5, ChildFacts DEF InOrder
    <3> QED
      BY <2>3, <3>1, <3>2
  <2>6. CASE Tree[n].kind = "middleware"
    <3>1. ServesAt(x, e, Tree[n].next, o)
      BY <2>1, <2>6, ServesFacts
    <3>2. Tree[n].next \in n + 1 .. Len(Tree) /\ last[Tree[n].next] <= last[n]
      BY <2>1, <2>6, ChildFacts DEF InOrder
    <3> QED
      BY <2>3, <3>1, <3>2
  <2> QED
    BY <2>1, <2>2, <2>4, <2>5, <2>6, TreeAssumption
<1>2. \A n \in 1 .. Len(Tree) : (\A j \in n + 1 .. Len(Tree) : j \in T) => n \in T
  <2> HIDE DEF Fact
  <2>1. ASSUME NEW n \in 1 .. Len(Tree), \A j \in n + 1 .. Len(Tree) : j \in T PROVE n \in T
    BY <1>1, <2>1, TreeAssumption
  <2> QED
    BY <2>1
<1> HIDE DEF T
<1>3. \A n \in 1 .. Len(Tree) : n \in T
  BY <1>2, Descent, TreeAssumption
<1> QED
  BY <1>3, TreeAssumption DEF T

-----------------------------------------------------------------------------
(* The way of a request that has not been moved away.                      *)

\* What match() of node n says of request x from offset o on.
MatchAt(x, n, o) == Match(n, x.verb, x.path, o)

\* Nothing below n is reached that the root does not reach ...
OnTheWay(x, n, o) ==
  /\ n \in Nodes /\ o \in 0 .. Len(x.path)
  /\ \A e \in Nodes : ServesAt(x, e, n, o) => ServesAt(x, e, x.app, 0)

\* ... and, with the nodes numbered as they are written, nothing that serves the
\* request has been passed by.
NonePassed(last, x, n, o) ==
  InOrder(last) =>
    \A e \in Nodes : ServesAt(x, e, x.app, 0) /\ e <= last[n] => ServesAt(x, e, n, o)

\* Node n is called with request x at offset o; group n comes to its k-th route;
\* the handler of n runs.
CalledRight(last, U, x, n, o) ==
  /\ OnTheWay(x, n, o) /\ NonePassed(last, x, n, o)
  /\ (n \in U /\ o = 0) \/ MatchAt(x, n, o)
FoldsRight(last, U, x, n, o, k) ==
  /\ CalledRight(last, U, x, n, o) /\ Tree[n].kind = "group"
  /\ \A j \in DOMAIN Tree[n].routes : j < k => ~MatchAt(x, Tree[n].routes[j], o)
HandlesRight(last, x, n, o) ==
  /\ OnTheWay(x, n, o) /\ NonePassed(last, x, n, o)
  /\ Tree[n].kind = "end_point" /\ MatchAt(x, n, o)

\* The paths of the requests.
LEMMA PathFacts ==
  ASSUME NEW x \in Inputs
  PROVE  x.path \in Seq(Range(x.path)) /\ Len(x.path) \in Nat /\ 0 \in 0 .. Len(x.path)
         /\ x.app \in Nodes
BY InputsAssumption

\* The root.
LEMMA CalledAtRoot ==
  ASSUME NEW last, NEW U, Entrances(U), NEW x \in Inputs
  PROVE  CalledRight(last, U, x, x.app, 0)
BY PathFacts DEF CalledRight, OnTheWay, NonePassed, Entrances

\* Through a node with one child.
LEMMA CalledNext ==
  ASSUME NEW last, NEW U, NEW x \in Inputs, NEW n, NEW o, CalledRight(last, U, x, n, o),
         NEW b,
         \/ Tree[n].kind = "middleware" /\ b = o
         \/ /\ Tree[n].kind = "binding" /\ StartsWith(Tree[n].pattern, Rest(x.path, o))
            /\ b = After(n, x.path, o)
  PROVE  /\ MatchAt(x, n, o) <=> MatchAt(x, Tree[n].next, b)
         /\ (Tree[n].next \in U /\ b = 0) \/ MatchAt(x, Tree[n].next, b) =>
              CalledRight(last, U, x, Tree[n].next, b)
<1> DEFINE m == Tree[n].next
<1>1. /\ x.path \in Seq(Range(x.path)) /\ Len(x.path) \in Nat
      /\ n \in Nodes /\ o \in 0 .. Len(x.path)
  BY PathFacts DEF CalledRight, OnTheWay
<1>2. \A e : ServesAt(x, e, n, o) <=> ServesAt(x, e, m, b)
  <2>1. CASE Tree[n].kind = "middleware"
    <3>1. b = o
      BY <2>1
    <3> QED
      BY <1>1, <2>1, <3>1, ServesFacts
  <2>2. CASE Tree[n].kind = "binding"
    <3>1. StartsWith(Tree[n].pattern, Rest(x.path, o)) /\ b = After(n, x.path, o)
      BY <2>2
    <3>2. \A e : ServesAt(x, e, n, o) <=>
            /\ StartsWith(Tree[n].pattern, Rest(x.path, o))
            /\ ServesAt(x, e, Tree[n].next, After(n, x.path, o))
      BY <1>1, <2>2, ServesFacts
    <3> QED
      BY <3>1, <3>2
  <2> QED
    BY <2>1, <2>2
<1>3. m \in Nodes /\ b \in 0 .. Len(x.path)
  <2>1. m \in n + 1 .. Len(Tree)
    BY <1>1, ChildFacts
  <2>2. b \in 0 .. Len(x.path)
    BY <1>1, AfterFacts
  <2> QED
    BY <1>1, <2>1, <2>2, TreeAssumption
<1>4. MatchAt(x, n, o) <=> MatchAt(x, m, b)
  BY <1>1, MatchFacts DEF MatchAt, After
<1>5. OnTheWay(x, m, b)
  BY <1>2, <1>3 DEF CalledRight, OnTheWay
<1>6. NonePassed(last, x, m, b)
  <2> SUFFICES ASSUME InOrder(last), NEW e \in Nodes, ServesAt(x, e, x.app, 0), e <= last[m]
               PROVE  ServesAt(x, e, m, b)
    BY DEF NonePassed
  <2>1. last[m] <= last[n] /\ last[m] \in Nodes /\ last[n] \in Nodes
    BY <1>1, <1>3 DEF InOrder
  <2>2. e <= last[n]
    BY <2>1, TreeAssumption
  <2> QED
    BY <1>2, <2>2 DEF CalledRight, NonePassed
<1> QED
  BY <1>4, <1>5, <1>6 DEF CalledRight

\* To a route of a group, and past it.
LEMMA CalledRoute ==
  ASSUME NEW last, NEW U, NEW x \in Inputs, NEW n, NEW o, NEW k \in DOMAIN Tree[n].routes,
         FoldsRight(last, U, x, n, o, k)
  PROVE  /\ MatchAt(x, Tree[n].routes[k], o) => CalledRight(last, U, x, Tree[n].routes[k], o)
         /\ ~MatchAt(x, Tree[n].routes[k], o) => FoldsRight(last, U, x, n, o, k + 1)
<1> DEFINE m == Tree[n].routes[k]
<1>1. /\ x.path \in Seq(Range(x.path)) /\ Len(x.path) \in Nat
      /\ n \in Nodes /\ o \in 0 .. Len(x.path) /\ Tree[n].kind = "group"
  BY PathFacts DEF FoldsRight, CalledRight, OnTheWay
<1>2. /\ \A i \in DOMAIN Tree[n].routes : Tree[n].routes[i] \in Nodes
      /\ DOMAIN Tree[n].routes = 1 .. Len(Tree[n].routes) /\ Len(Tree[n].routes) \in Nat
  BY <1>1, ChildFacts, TreeAssumption
<1>3. \A e : ServesAt(x, e, n, o) <=>
        \E i \in DOMAIN Tree[n].routes : ServesAt(x, e, Tree[n].routes[i], o)
  BY <1>1, ServesFacts
<1>4. OnTheWay(x, m, o)
  BY <1>1, <1>2, <1>3 DEF FoldsRight, CalledRight, OnTheWay
<1>5. NonePassed(last, x, m, o)
  <2> SUFFICES ASSUME InOrder(last), NEW e \in Nodes, ServesAt(x, e, x.app, 0), e <= last[m]
               PROVE  ServesAt(x, e, m, o)
    BY DEF NonePassed
  <2>1. last[m] <= last[n] /\ last[m] \in Nodes /\ last[n] \in Nodes
    BY <1>1, <1>2 DEF InOrder
  <2>2. e <= last[n]
    BY <2>1, TreeAssumption
  <2>3. ServesAt(x, e, n, o)
    BY <2>2 DEF FoldsRight, CalledRight, NonePassed
  <2>4. PICK i \in DOMAIN Tree[n].routes : ServesAt(x, e, Tree[n].routes[i], o)
    BY <1>3, <2>3
  <2>5. MatchAt(x, Tree[n].routes[i], o)
    BY <1>1, <1>2, <2>4, MatchIsServed DEF MatchAt
  <2>6. ~(i < k)
    BY <2>5 DEF FoldsRight
  <2>7. ~(k < i)
    <3> SUFFICES ASSUME k < i PROVE FALSE
      OBVIOUS
    <3>1. last[m] < Tree[n].routes[i]
      BY <1>1 DEF InOrder
    <3>2. Tree[n].routes[i] <= e
      BY <1>1, <1>2, <2>4, ServedInside
    <3> QED
      BY <1>2, <2>1, <3>1, <3>2, TreeAssumption
  <2>8. i = k
    BY <1>2, <2>6, <2>7
  <2> QED
    BY <2>4, <2>8
<1>6. ASSUME ~MatchAt(x, m, o) PROVE FoldsRight(last, U, x, n, o, k + 1)
  <2>1. ASSUME NEW j \in DOMAIN Tree[n].routes, j < k + 1
        PROVE  ~MatchAt(x, Tree[n].routes[j], o)
    <3>1. j < k \/ j = k
      BY <1>2, <2>1
    <3> QED
      BY <1>6, <3>1 DEF FoldsRight
  <2> QED
    BY <2>1 DEF FoldsRight
<1> QED
  BY <1>4, <1>5, <1>6 DEF CalledRight

\* To a handler.
LEMMA CalledEnd ==
  ASSUME NEW last, NEW U, Entrances(U), NEW x \in Inputs, NEW n, NEW o,
         CalledRight(last, U, x, n, o), Tree[n].kind = "end_point"
  PROVE  HandlesRight(last, x, n, o)
BY DEF CalledRight, HandlesRight, Entrances

\* The handler is that of the first end point that serves the request.
LEMMA HandlesFirst ==
  ASSUME NEW last, InOrder(last), NEW x \in Inputs, NEW n, NEW o, HandlesRight(last, x, n, o)
  PROVE  /\ n \in Nodes /\ ServesRequest(x, n, TRUE)
         /\ \A e \in 1 .. n - 1 : ~ServesRequest(x, e, TRUE)
<1>1. /\ x.path \in Seq(Range(x.path)) /\ Len(x.path) \in Nat
      /\ n \in Nodes /\ o \in 0 .. Len(x.path) /\ Nodes = 1 .. Len(Tree) /\ Len(Tree) \in Nat
  BY PathFacts, TreeAssumption DEF HandlesRight, OnTheWay
<1>2. \A e : ServesRequest(x, e, TRUE) = ServesAt(x, e, x.app, 0)
  BY <1>1, ServesEquation, Zenon
<1>3. \A e : ServesAt(x, e, n, o) => e = n
  BY <1>1, ServesFacts DEF HandlesRight
<1>4. ServesAt(x, n, n, o)
  <2>1. Match(n, x.verb, x.path, o) <=> x.verb = Tree[n].verb /\ o = Len(x.path)
    BY <1>1, MatchFacts DEF HandlesRight
  <2>2. x.verb = Tree[n].verb /\ o = Len(x.path)
    BY <2>1 DEF HandlesRight, MatchAt
  <2>3. ServesAt(x, n, n, o) <=> n = n /\ Tree[n].verb = x.verb /\ o = Len(x.path)
    BY <1>1, ServesFacts DEF HandlesRight
  <2> QED
    BY <2>2, <2>3
<1>5. ASSUME NEW e \in 1 .. n - 1 PROVE ~ServesAt(x, e, x.app, 0)
  <2>1. last[n] \in Nodes /\ n <= last[n]
    BY <1>1 DEF InOrder
  <2>2. e \in Nodes /\ e <= last[n] /\ e # n
    BY <1>1, <2>1
  <2> QED
    BY <1>3, <2>2 DEF HandlesRight, NonePassed
<1>6. ServesAt(x, n, x.app, 0)
  BY <1>1, <1>4 DEF HandlesRight, OnTheWay
<1> QED
  BY <1>1, <1>2, <1>5, <1>6

-----------------------------------------------------------------------------
(* Which handler runs.                                                     *)

\* Whoever holds the live request holds it rightly.
Placed(last, U) ==
  /\ input \in Inputs
  /\ mode = "call" /\ live => CalledRight(last, U, input, at, off)
  /\ mode = "fold" /\ Top.live => FoldsRight(last, U, input, Top.node, off, Top.next)
  /\ (mode = "handler" \/ (mode = "sending" /\ sending = "ok")) /\ live =>
       HandlesRight(last, input, at, off)

\* A call is passed on, or nobody gets the request.
LEMMA PlacedCall ==
  ASSUME NEW last, NEW U, Entrances(U), Framed, Placed(last, U),
         Bind \/ AssertFails \/ BindGarbage \/ Observe \/ NotFound \/ ServerFault \/ ObjectBody
           \/ CookieParser
  PROVE  Placed(last, U)'
<1>1. mode = "call" /\ at \in Nodes /\ input \in Inputs /\ UNCHANGED <<input, live>>
  BY DEF Framed, Shape, Placed, Bind, AssertFails, BindGarbage, Observe, NotFound, ServerFault,
     ObjectBody, CookieParser, Running, Calling, request
<1>2. ASSUME mode' # "call", mode' # "fold", mode' # "handler",
             mode' = "sending" => sending' # "ok"
      PROVE  Placed(last, U)'
  BY <1>1, <1>2 DEF Placed
<1>3. ASSUME mode' = "call", ~live PROVE Placed(last, U)'
  BY <1>1, <1>3 DEF Placed
<1>4. ASSUME live, mode' = "call", at' = Tree[at].next, NEW b, off' = b,
             \/ Tree[at].kind = "middleware" /\ b = off
             \/ /\ Tree[at].kind = "binding" /\ Fits(Tree[at])
                /\ b = After(at, Path, off),
             (Tree[at].next \in U /\ b = 0) \/ MatchAt(input, Tree[at].next, b)
      PROVE  Placed(last, U)'
  <2>1. CalledRight(last, U, input, at, off)
    BY <1>1, <1>4 DEF Placed
  <2>2. CalledRight(last, U, input, Tree[at].next, b)
    BY <1>1, <1>4, <2>1, CalledNext DEF Fits, Path
  <2>3. CalledRight(last, U, input', at', off')
    BY <1>1, <1>4, <2>2
  <2> QED
    BY <1>1, <1>4, <2>3 DEF Placed
<1>5. ASSUME live PROVE CalledRight(last, U, input, at, off)
  BY <1>1, <1>5 DEF Placed
<1>6. ASSUME live, Tree[at].kind = "binding" PROVE Asserts \/ MatchAt(input, at, off)
  BY <1>5, <1>6 DEF CalledRight, Entrances
<1>7. ASSUME live, Tree[at].kind = "binding", MatchAt(input, at, off)
      PROVE  Fits(Tree[at]) /\ MatchAt(input, Tree[at].next, After(at, Path, off))
  <2>1. off \in 0 .. Len(Path) /\ Len(Path) \in Nat
    BY <1>1, <1>5, <1>7, PathFacts DEF CalledRight, OnTheWay, Path
  <2> QED
    BY <1>1, <1>7, <2>1, MatchFacts DEF MatchAt, Fits, After, Path
<1>8. CASE Bind
  <2>1. /\ mode' = "call" /\ at' = Tree[at].next /\ live /\ Tree[at].kind = "binding"
        /\ Fits(Tree[at]) /\ off' = After(at, Path, off)
        /\ Asserts => MatchAt(input, Tree[at].next, After(at, Path, off))
    BY <1>8 DEF Bind, Calling, CallNext, NextMatches, MatchAt, After, Path
  <2> QED
    BY <1>4, <1>6, <1>7, <2>1
<1>9. CASE AssertFails
  BY <1>2, <1>9 DEF AssertFails
<1>10. CASE BindGarbage
  <2>1. /\ Tree[at].kind = "binding" /\ (live => ~Asserts /\ ~Fits(Tree[at]))
        /\ mode' = "back" \/ mode' = "call"
    BY <1>10 DEF BindGarbage, Calling, CallNext, GiveBack
  <2>2. ~live
    BY <1>6, <1>7, <2>1
  <2> QED
    BY <1>2, <1>3, <2>1, <2>2
<1>11. CASE NotFound
  <2>1. /\ Tree[at].kind = "middleware" /\ Tree[at].fn = "not_found"
        /\ off' = off /\ mode' \in {"call", "sending", "back"}
    BY <1>11 DEF NotFound, Running, Calling, CallNext, Answer, GiveBack, request
  <2>2. CASE mode' = "call" /\ live
    <3>1. at' = Tree[at].next /\ MatchAt(input, Tree[at].next, 0)
      BY <1>11, <2>2 DEF NotFound, CallNext, Answer, GiveBack, Known, MatchAt, Path
    <3>2. MatchAt(input, Tree[at].next, off)
      <4>1. CASE off = 0
        BY <3>1, <4>1
      <4>2. CASE off # 0
        BY <1>1, <1>5, <2>1, <2>2, <4>2, CalledNext DEF CalledRight
      <4> QED
        BY <4>1, <4>2
    <3> QED
      BY <1>4, <2>1, <2>2, <3>1, <3>2
  <2>3. mode' = "sending" => sending' # "ok"
    BY <1>11 DEF NotFound, CallNext, Answer, GiveBack
  <2> QED
    BY <1>2, <1>3, <2>1, <2>2, <2>3
<1>12. CASE Observe \/ ServerFault \/ ObjectBody \/ CookieParser
  <2>1. /\ Tree[at].kind = "middleware" /\ Tree[at].fn # "not_found" /\ off' = off
        /\ mode' = "back" \/ (mode' = "call" /\ at' = Tree[at].next)
    BY <1>12 DEF Observe, ServerFault, ObjectBody, CookieParser, Running, Calling, CallNext,
       GiveBack, request, Observers
  <2>2. CASE mode' = "call" /\ live
    <3>1. (Tree[at].next \in U /\ off = 0) \/ MatchAt(input, Tree[at].next, off)
      <4>1. CASE at \in U /\ off = 0
        BY <2>1, <4>1 DEF Entrances
      <4>2. CASE MatchAt(input, at, off)
        BY <1>1, <1>5, <2>1, <2>2, <4>2, CalledNext
      <4> QED
        BY <1>5, <2>2, <4>1, <4>2 DEF CalledRight
    <3> QED
      BY <1>4, <2>1, <2>2, <3>1
  <2> QED
    BY <1>2, <1>3, <2>1, <2>2
<1> QED
  BY <1>8, <1>9, <1>10, <1>11, <1>12

\* A group is called, comes to a route, and ends.
LEMMA PlacedGroup ==
  ASSUME NEW last, NEW U, Entrances(U), Framed, Placed(last, U), CallGroup \/ Fold \/ GroupBack
  PROVE  Placed(last, U)'
<1>1. input \in Inputs /\ UNCHANGED <<input, off>>
  BY DEF Placed, CallGroup, Fold, FoldCall, FoldSkip, FoldEnd, GroupBack, request
<1>2. CASE CallGroup
  <2> DEFINE f == [node |-> at, live |-> live, next |-> 1]
  <2>1. /\ mode = "call" /\ Tree[at].kind = "group" /\ mode' = "fold" /\ live' = live
        /\ stack' = Append(stack, f)
    BY <1>2 DEF CallGroup, Calling, request
  <2>2. f \in Frame /\ stack \in Seq(Frame) /\ f.node = at /\ f.live = live /\ f.next = 1
    BY DEF Framed, Shape, Frame
  <2> HIDE DEF f
  <2>3. Top' = f
    <3>1. /\ stack' \in Seq(Frame) /\ Len(stack') = Len(stack) + 1
          /\ stack'[Len(stack) + 1] = f
      BY <2>1, <2>2, PushFacts
    <3> QED
      BY <3>1 DEF Top, Last
  <2>4. live => FoldsRight(last, U, input, at, off, 1)
    <3>1. live => CalledRight(last, U, input, at, off)
      BY <2>1 DEF Placed
    <3>2. \A j \in DOMAIN Tree[at].routes : ~(j < 1)
      <4>1. at \in Nodes /\ Tree[at].kind = "group"
        BY <2>1 DEF Framed, Shape
      <4>2. Tree[at].routes \in Seq(at + 1 .. Len(Tree))
        BY <4>1, ChildFacts
      <4> QED
        BY <4>2
    <3> QED
      BY <2>1, <3>1, <3>2 DEF FoldsRight
  <2> QED
    BY <1>1, <2>1, <2>2, <2>3, <2>4 DEF Placed
<1>3. CASE FoldCall \/ FoldSkip
  <2> DEFINE n == Top.node
             k == Top.next
             m == Tree[n].routes[k]
  <2>1. /\ mode = "fold" /\ k <= Len(Tree[n].routes)
        /\ n \in Nodes /\ Tree[n].kind = "group" /\ k \in Nat \ {0} /\ Top.live \in BOOLEAN
        /\ \A b \in BOOLEAN : /\ Tried(Top, b).node = n /\ Tried(Top, b).live = b
                              /\ Tried(Top, b).next = k + 1
    <3>1. mode = "fold" /\ k <= Len(Tree[n].routes)
      BY <1>3 DEF FoldCall, FoldSkip
    <3> QED
      BY <3>1, FoldFrame
  <2>2. k \in DOMAIN Tree[n].routes
    <3>1. Tree[n].routes \in Seq(n + 1 .. Len(Tree))
      BY <2>1, ChildFacts
    <3> QED
      BY <2>1, <3>1
  <2>3. Top.live => FoldsRight(last, U, input, n, off, k)
    BY <2>1 DEF Placed
  <2>4. CASE FoldCall
    <3>1. /\ mode' = "call" /\ at' = m /\ live' = Top.live
          /\ Top.live => MatchAt(input, m, off)
      BY <2>4 DEF FoldCall, DoIdxMatches, MatchAt, Path
    <3>2. Top.live => CalledRight(last, U, input, m, off)
      BY <1>1, <2>2, <2>3, <3>1, CalledRoute
    <3>3. live' => CalledRight(last, U, input', at', off')
      BY <1>1, <3>1, <3>2
    <3> QED
      BY <1>1, <3>1, <3>3 DEF Placed
  <2>5. CASE FoldSkip
    <3>1. mode' = "fold" /\ (Top.live => ~MatchAt(input, m, off))
      BY <2>1, <2>5 DEF FoldSkip, DoIdxMatches, MatchAt, Path
    <3>2. Top.live => FoldsRight(last, U, input, n, off, k + 1)
      BY <1>1, <2>2, <2>3, <3>1, CalledRoute
    <3>3. Top'.node = n /\ Top'.live = Top.live /\ Top'.next = k + 1
      <4>1. stack' = [stack EXCEPT ![Len(stack)] = Tried(@, Top.live)]
        BY <2>5 DEF FoldSkip
      <4>2. Last(stack') = Tried(Top, Top.live)
        BY <2>1, <4>1, FoldFacts
      <4> QED
        BY <2>1, <4>2 DEF Top
    <3>4. Top'.live => FoldsRight(last, U, input', Top'.node, off', Top'.next)
      BY <1>1, <3>2, <3>3
    <3> QED
      BY <1>1, <3>1, <3>4 DEF Placed
  <2> QED
    BY <1>3, <2>4, <2>5
<1>4. CASE FoldEnd \/ GroupBack
  <2>1. mode' = "back" \/ (mode' = "fold" /\ Top' = Top /\ ~Top.live)
    BY <1>4, GroupFacts
  <2> QED
    BY <1>1, <2>1 DEF Placed
<1> QED
  BY <1>2, <1>3, <1>4 DEF Fold

\* A handler begins, sends and ends; nothing else brings one back.
LEMMA PlacedRest ==
  ASSUME NEW last, NEW U, Entrances(U), Framed, Placed(last, U),
         CallEndPoint \/ Handler \/ Write \/ FaultBack \/ Finish \/ PeerReset \/ UNCHANGED vars
  PROVE  Placed(last, U)'
<1>1. input \in Inputs /\ UNCHANGED <<input, at, off, live>>
  BY DEF Placed, CallEndPoint, Handler, HandlerSend, HandlerReturn, HandlerThrow, Write,
     WriteDone, WriteFail, FaultBack, Finish, PeerReset, request, vars
<1>2. ASSUME mode' # "call", mode' # "fold",
             (mode' = "handler" \/ (mode' = "sending" /\ sending' = "ok")) /\ live =>
               HandlesRight(last, input, at, off)
      PROVE  Placed(last, U)'
  <2>1. (mode' = "handler" \/ (mode' = "sending" /\ sending' = "ok")) /\ live' =>
          HandlesRight(last, input', at', off')
    BY <1>1, <1>2
  <2> QED
    BY <1>1, <1>2, <2>1 DEF Placed
<1>3. CASE CallEndPoint
  <2>1. mode = "call" /\ Tree[at].kind = "end_point" /\ mode' = "handler"
    BY <1>3 DEF CallEndPoint, Calling
  <2>2. live => HandlesRight(last, input, at, off)
    BY <1>1, <2>1, CalledEnd DEF Placed
  <2> QED
    BY <1>2, <2>1, <2>2
<1>4. CASE Handler
  <2>1. mode = "handler" /\ mode' \in {"sending", "back"}
    BY <1>4 DEF Handler, HandlerSend, HandlerReturn, HandlerThrow, Answer, GiveBack
  <2> QED
    BY <1>2, <2>1 DEF Placed
<1>5. CASE Write
  <2>1. mode = "sending" /\ mode' \in {"handler", "back"} /\ (mode' = "handler" => sending = "ok")
    BY <1>5 DEF Write, WriteDone, WriteFail, GiveBack
  <2> QED
    BY <1>2, <2>1 DEF Placed
<1>6. CASE FaultBack
  <2>1. mode' = "back" \/ (mode' = "sending" /\ sending' = "500")
    BY <1>6, FaultFacts
  <2> QED
    BY <1>2, <2>1
<1>7. CASE Finish
  BY <1>2, <1>7 DEF Finish
<1>8. CASE PeerReset \/ UNCHANGED vars
  <2>1. UNCHANGED <<input, mode, at, off, live, stack, sending>>
    BY <1>8 DEF PeerReset, request, vars
  <2> QED
    BY <2>1 DEF Placed, Top
<1> QED
  BY <1>3, <1>4, <1>5, <1>6, <1>7, <1>8

\* Both parts of the invariant always hold.
LEMMA PlacedAlways ==
  ASSUME NEW last, NEW U, Entrances(U)
  PROVE  Spec => [](Framed /\ Placed(last, U))
<1>1. Init => Framed /\ Placed(last, U)
  <2> SUFFICES ASSUME Init PROVE Placed(last, U)
    BY ContainedInit DEF Contained
  <2>1. mode = "call" /\ input \in Inputs /\ at = input.app /\ off = 0
    BY DEF Init
  <2> QED
    BY <2>1, CalledAtRoot DEF Placed
<1>2. Framed /\ Placed(last, U) /\ [Next]_vars => Framed' /\ Placed(last, U)'
  <2> SUFFICES ASSUME Framed, Placed(last, U), [Next]_vars PROVE Framed' /\ Placed(last, U)'
    OBVIOUS
  <2>1. Framed'
    BY FramedNext
  <2>2. Placed(last, U)'
    BY PlacedCall, PlacedGroup, PlacedRest DEF Next, Serve, Call, Back
  <2> QED
    BY <2>1, <2>2
<1> QED
  BY <1>1, <1>2, PTL DEF Spec

\* With the nodes numbered as the routes are written, and behind entrances that
\* make sure of match() -- a not_found, a group, or the asserts of a binding --
\* a live request only ever comes to the handler of the first end point that
\* serves it (match() of binding and group, the fold of group, the greedy match
\* of the patterns).
THEOREM FirstMatchIsServed ==
  ASSUME NEW last, InOrder(last), NEW U, Entrances(U)
  PROVE  Spec => []FirstMatchWins
<1>1. Framed /\ Placed(last, U) => FirstMatchWins
  <2> SUFFICES ASSUME Placed(last, U), mode = "handler", live
               PROVE  Serves(at, TRUE) /\ \A e \in 1 .. at - 1 : ~Serves(e, TRUE)
    BY DEF FirstMatchWins, Handling
  <2>1. HandlesRight(last, input, at, off) /\ input \in Inputs
    BY DEF Placed
  <2> QED
    BY <2>1, HandlesFirst DEF Serves
<1> QED
  BY <1>1, PlacedAlways, PTL

-----------------------------------------------------------------------------
(* Trees in which nobody declines a request he has taken.                  *)

\* Guarded, node by node.
LEMMA GuardedFacts ==
  ASSUME NEW n \in Nodes
  PROVE  /\ Guarded(n) \in BOOLEAN
         /\ Guarded(n) <=> /\ Tree[n].kind = "middleware"
                           /\ Tree[n].fn = "not_found" \/ Guarded(Tree[n].next)
<1> DEFINE D == Nodes
           V == BOOLEAN
           row(f, m) == /\ Tree[m].kind = "middleware"
                        /\ Tree[m].fn = "not_found" \/ f[Tree[m].next]
           H == [a \in [D -> V] \X D |-> row(a[1], a[2])]
           size == [m \in D |-> Len(Tree) - m]
           bound == Len(Tree)
<1>1. size \in [D -> Nat] /\ bound \in Nat /\ \A m \in D : size[m] < bound
  BY TreeAssumption
<1>2. H \in [[D -> V] \X D -> V]
  OBVIOUS
<1>3. \A g, h \in [D -> V], m \in D :
        (\A j \in D : size[j] < size[m] => g[j] = h[j]) => H[<<g, m>>] = H[<<h, m>>]
  <2> SUFFICES ASSUME NEW g \in [D -> V], NEW h \in [D -> V], NEW m \in D,
                      \A j \in D : size[j] < size[m] => g[j] = h[j]
               PROVE  H[<<g, m>>] = H[<<h, m>>]
    OBVIOUS
  <2>1. Tree[m].kind = "middleware" => g[Tree[m].next] = h[Tree[m].next]
    <3> SUFFICES ASSUME Tree[m].kind = "middleware" PROVE g[Tree[m].next] = h[Tree[m].next]
      OBVIOUS
    <3>1. Tree[m].next \in m + 1 .. Len(Tree)
      BY ChildFacts
    <3>2. Tree[m].next \in D /\ size[Tree[m].next] < size[m]
      BY <3>1, TreeAssumption
    <3> QED
      BY <3>2
  <2>2. row(g, m) = row(h, m)
    BY <2>1
  <2>3. H[<<g, m>>] = row(g, m) /\ H[<<h, m>>] = row(h, m)
    <3> HIDE DEF row, D, V
    <3> QED
      OBVIOUS
  <2> QED
    BY <2>2, <2>3
<1>4. V # {}
  OBVIOUS
<1>5. HasFunction(D, V, H)
  <2> HIDE DEF D, V, H, size, bound
  <2>1. IsRecursion(D, V, size, bound, H)
    BY <1>1, <1>2, <1>3, <1>4 DEF IsRecursion
  <2> QED
    BY <2>1, RecursiveFunction
<1>6. \E f : f = [m \in D |-> row(f, m)]
  <2>1. PICK f \in [D -> V] : \A m \in D : f[m] = H[<<f, m>>]
    BY <1>5 DEF HasFunction
  <2> HIDE DEF row, D, V
  <2>2. \A m \in D : f[m] = row(f, m)
    BY <2>1
  <2>3. f = [m \in D |-> row(f, m)]
    BY <2>1, <2>2
  <2> QED
    BY <2>3
<1> DEFINE guarded == CHOOSE f : f = [m \in D |-> row(f, m)]
<1>7. guarded = [m \in D |-> row(guarded, m)]
  <2> HIDE DEF row, D
  <2> QED
    BY <1>6
<1>8. \A m : Guarded(m) = guarded[m]
  BY DEF Guarded
<1> HIDE DEF guarded
<1>9. guarded[n] = row(guarded, n)
  <2> HIDE DEF row
  <2> QED
    BY <1>7
<1> QED
  BY <1>8, <1>9

\* Some end point serves request x; node n has lost none that does.
Served(x) == \E e \in Nodes : ServesAt(x, e, x.app, 0)
Whole(x, n) == \A e \in Nodes : ServesAt(x, e, x.app, 0) => ServesAt(x, e, n, 0)

\* No frame is that of a group; all frames of groups are above those of server_fault,
\* which hold live copies of the response.
NoGroup == \A i \in 1 .. Len(stack) : Tree[stack[i].node].kind # "group"
Kept ==
  \A i \in 1 .. Len(stack) :
    \/ Tree[stack[i].node].kind = "middleware" /\ stack[i].live
    \/ \A j \in i .. Len(stack) : Tree[stack[j].node].kind = "group"

\* The request stays live until it is handled, and "false" is not handed to a group.
Carried(Inner) ==
  /\ Kept
  /\ mode = "call" =>
       live /\ (at \in Inner \/ (off = 0 /\ NoGroup /\ Whole(input, at)))
  /\ mode = "fold" => Top.live
  /\ mode = "handler" \/ (mode = "sending" /\ sending = "ok") => live
  /\ mode = "sending" /\ sending # "ok" => NoGroup
  /\ mode = "back" /\ value = "false" => NoGroup

\* Without a not_found in front, only what is served gets past the first binding;
\* with one no assert fails.
Watched(U) ==
  /\ mode = "call" => \/ MatchAt(input, at, off)
                      \/ IF Guarded(input.app) THEN Guarded(at) ELSE at \in U /\ ~Guarded(at)
  /\ mode = "aborted" => ~Guarded(input.app)
  /\ mode \in {"fold", "handler", "sending", "back", "done"} =>
       Served(input) \/ Guarded(input.app)

\* Another frame.
LEMMA KeptPush ==
  ASSUME Framed, Kept, NEW f \in Frame, stack' = Append(stack, f),
         \/ Tree[f.node].kind = "group"
         \/ Tree[f.node].kind = "middleware" /\ f.live /\ NoGroup
  PROVE  Kept' /\ (Tree[f.node].kind = "middleware" => NoGroup')
<1>1. /\ Len(stack') = Len(stack) + 1 /\ Len(stack) \in Nat
      /\ stack'[Len(stack) + 1] = f /\ \A i \in 1 .. Len(stack) : stack'[i] = stack[i]
  BY PushFacts DEF Framed, Shape
<1>2. \A i \in 1 .. Len(stack') : i \in 1 .. Len(stack) \/ i = Len(stack) + 1
  BY <1>1
<1>3. CASE Tree[f.node].kind = "group"
  <2>1. ASSUME NEW i \in 1 .. Len(stack'),
               ~(Tree[stack'[i].node].kind = "middleware" /\ stack'[i].live)
        PROVE  \A j \in i .. Len(stack') : Tree[stack'[j].node].kind = "group"
    <3>1. CASE i = Len(stack) + 1
      <4>1. \A j \in i .. Len(stack') : j = Len(stack) + 1
        BY <1>1, <3>1
      <4> QED
        BY <1>1, <1>3, <4>1
    <3>2. CASE i \in 1 .. Len(stack)
      <4>1. \A j \in i .. Len(stack) : Tree[stack[j].node].kind = "group"
        BY <1>1, <2>1, <3>2 DEF Kept
      <4>2. \A j \in i .. Len(stack') : j \in i .. Len(stack) \/ j = Len(stack) + 1
        BY <1>1, <3>2
      <4>3. \A j \in i .. Len(stack) : stack'[j] = stack[j]
        BY <1>1, <3>2
      <4> QED
        BY <1>1, <1>3, <4>1, <4>2, <4>3
    <3> QED
      BY <1>2, <3>1, <3>2
  <2> QED
    BY <1>3, <2>1 DEF Kept
<1>4. CASE Tree[f.node].kind = "middleware" /\ f.live /\ NoGroup
  <2>1. ASSUME NEW i \in 1 .. Len(stack')
        PROVE  Tree[stack'[i].node].kind = "middleware" /\ stack'[i].live
    <3>1. CASE i = Len(stack) + 1
      BY <1>1, <1>4, <3>1
    <3>2. CASE i \in 1 .. Len(stack)
      <4>1. Tree[stack[i].node].kind # "group" /\ i \in i .. Len(stack)
        BY <1>1, <1>4, <3>2 DEF NoGroup
      <4> QED
        BY <1>1, <3>2, <4>1 DEF Kept
    <3> QED
      BY <1>2, <3>1, <3>2
  <2> QED
    BY <2>1 DEF Kept, NoGroup
<1> QED
  BY <1>3, <1>4

\* One less.  Below a server_fault there is no group.
LEMMA KeptPop ==
  ASSUME Framed, Kept, stack # <<>>, stack' = Front(stack)
  PROVE  /\ Kept' /\ (NoGroup => NoGroup')
         /\ Tree[Top.node].kind = "middleware" => Top.live /\ NoGroup'
<1>1. /\ Top = stack[Len(stack)] /\ Len(stack) \in Nat \ {0} /\ Len(stack) \in 1 .. Len(stack)
      /\ Len(stack') = Len(stack) - 1 /\ \A i \in 1 .. Len(stack) - 1 : stack'[i] = stack[i]
  BY PopFacts DEF Framed, Shape, Top
<1>2. ASSUME NEW i \in 1 .. Len(stack')
      PROVE  /\ i \in 1 .. Len(stack) /\ stack'[i] = stack[i] /\ Len(stack) \in i .. Len(stack)
             /\ \A j \in i .. Len(stack') : j \in i .. Len(stack) /\ stack'[j] = stack[j]
  BY <1>1
<1>3. Kept'
  BY <1>2 DEF Kept
<1>4. NoGroup => NoGroup'
  BY <1>2 DEF NoGroup
<1>5. ASSUME Tree[Top.node].kind = "middleware" PROVE Top.live /\ NoGroup'
  <2>1. Top.live
    <3>1. Len(stack) \in Len(stack) .. Len(stack)
      BY <1>1
    <3> QED
      BY <1>1, <1>5, <3>1 DEF Kept
  <2>2. NoGroup'
    BY <1>1, <1>2, <1>5 DEF Kept, NoGroup
  <2> QED
    BY <2>1, <2>2
<1> QED
  BY <1>3, <1>4, <1>5

\* A request that match() accepts on its way is served.
LEMMA MatchedIsServed ==
  ASSUME NEW x \in Inputs, NEW n, NEW o, OnTheWay(x, n, o), MatchAt(x, n, o)
  PROVE  Served(x)
<1>1. x.path \in Seq(Range(x.path)) /\ n \in Nodes /\ o \in 0 .. Len(x.path)
  BY PathFacts DEF OnTheWay
<1>2. PICK e \in Nodes : ServesAt(x, e, n, o)
  BY <1>1, MatchIsServed DEF MatchAt
<1> QED
  BY <1>2 DEF OnTheWay, Served

\* A binding that is called rightly fits, or its asserts see to it.
LEMMA BoundRight ==
  ASSUME NEW last, NEW U, Entrances(U), NEW x \in Inputs, NEW n, NEW o,
         CalledRight(last, U, x, n, o), Tree[n].kind = "binding"
  PROVE  \/ Asserts /\ n \in U /\ ~MatchAt(x, n, o)
         \/ /\ MatchAt(x, n, o) /\ StartsWith(Tree[n].pattern, Rest(x.path, o))
            /\ MatchAt(x, Tree[n].next, After(n, x.path, o))
<1>1. x.path \in Seq(Range(x.path)) /\ n \in Nodes /\ o \in 0 .. Len(x.path) /\ Len(x.path) \in Nat
  BY PathFacts DEF CalledRight, OnTheWay
<1>2. CASE MatchAt(x, n, o)
  BY <1>1, <1>2, MatchFacts DEF MatchAt, After
<1>3. CASE ~MatchAt(x, n, o)
  BY <1>3 DEF CalledRight, Entrances
<1> QED
  BY <1>2, <1>3

\* A group that is called rightly has a route for the request among those it has
\* not tried, if groups are no entrances.
LEMMA FoldFinds ==
  ASSUME NEW last, NEW U, Firm(U), NEW x \in Inputs, NEW n, NEW o, NEW k \in Nat,
         FoldsRight(last, U, x, n, o, k)
  PROVE  MatchAt(x, n, o) /\ k <= Len(Tree[n].routes)
<1>1. /\ x.path \in Seq(Range(x.path)) /\ n \in Nodes /\ o \in 0 .. Len(x.path)
      /\ Len(x.path) \in Nat /\ Tree[n].kind = "group"
  BY PathFacts DEF FoldsRight, CalledRight, OnTheWay
<1>2. MatchAt(x, n, o)
  BY <1>1 DEF FoldsRight, CalledRight, Firm
<1>3. PICK i \in DOMAIN Tree[n].routes : MatchAt(x, Tree[n].routes[i], o)
  BY <1>1, <1>2, MatchFacts DEF MatchAt
<1>4. ~(i < k)
  BY <1>3 DEF FoldsRight
<1>5. DOMAIN Tree[n].routes = 1 .. Len(Tree[n].routes) /\ Len(Tree[n].routes) \in Nat
  BY <1>1, ChildFacts
<1> QED
  BY <1>2, <1>4, <1>5

\* The calls that neither keep a frame nor call a handler.
LEMMA CarriedCall ==
  ASSUME NEW last, NEW U, Entrances(U), NEW Inner, Steadfast(Inner),
         Framed, Placed(last, U), Carried(Inner),
         Bind \/ AssertFails \/ BindGarbage \/ Observe \/ NotFound \/ ObjectBody \/ CookieParser
  PROVE  Carried(Inner)'
<1>1. /\ mode = "call" /\ live /\ at \in Nodes /\ input \in Inputs /\ Kept
      /\ at \in Inner \/ (off = 0 /\ NoGroup /\ Whole(input, at))
      /\ CalledRight(last, U, input, at, off)
      /\ UNCHANGED <<input, live, stack>>
  <2>1. mode = "call" /\ UNCHANGED <<input, live, stack>>
    BY DEF Bind, AssertFails, BindGarbage, Observe, NotFound, ObjectBody, CookieParser, Running,
       Calling, request
  <2> QED
    BY <2>1 DEF Framed, Shape, Placed, Carried
<1>2. Kept' /\ (NoGroup => NoGroup')
  BY <1>1 DEF Kept, NoGroup
<1>3. ASSUME mode' = "call", at' = Tree[at].next, off' = off, Tree[at].kind = "middleware"
      PROVE  Carried(Inner)'
  <2>1. CASE at \in Inner
    <3>1. at' \in Inner
      BY <1>3, <2>1 DEF Steadfast
    <3> QED
      BY <1>1, <1>2, <1>3, <3>1 DEF Carried
  <2>2. CASE off = 0 /\ NoGroup /\ Whole(input, at)
    <3>1. Whole(input, Tree[at].next)
      <4>1. 0 \in 0 .. Len(input.path) /\ input.path \in Seq(Range(input.path))
        BY <1>1, PathFacts
      <4>2. \A e : ServesAt(input, e, at, 0) <=> ServesAt(input, e, Tree[at].next, 0)
        BY <1>1, <1>3, <4>1, ServesFacts
      <4> QED
        BY <2>2, <4>2 DEF Whole
    <3>2. Whole(input', at')
      BY <1>1, <1>3, <3>1
    <3> QED
      BY <1>1, <1>2, <1>3, <2>2, <3>2 DEF Carried
  <2> QED
    BY <1>1, <2>1, <2>2
<1>4. ASSUME mode' = "back", value' = "false" => NoGroup PROVE Carried(Inner)'
  BY <1>2, <1>4 DEF Carried
<1>5. CASE Bind
  <2>1. mode' = "call" /\ at' = Tree[at].next /\ Tree[at].kind = "binding"
    BY <1>5 DEF Bind, Calling, CallNext
  <2>2. at' \in Inner
    BY <1>1, <2>1 DEF Steadfast
  <2> QED
    BY <1>1, <1>2, <2>1, <2>2 DEF Carried
<1>6. CASE AssertFails
  BY <1>2, <1>6 DEF AssertFails, Carried
<1>7. CASE BindGarbage
  <2>1. Tree[at].kind = "binding" /\ ~Asserts /\ ~Fits(Tree[at])
    BY <1>1, <1>7 DEF BindGarbage, Calling
  <2> QED
    BY <1>1, <2>1, BoundRight DEF Fits, Path
<1>8. CASE Observe
  BY <1>3, <1>8 DEF Observe, Running, Calling, CallNext, request
<1>9. CASE ObjectBody
  BY <1>3, <1>4, <1>9 DEF ObjectBody, Running, Calling, CallNext, GiveBack, request
<1>10. CASE CookieParser
  <2>1. NoGroup
    BY <1>1, <1>10 DEF CookieParser, Running, Calling, Steadfast, Observers
  <2> QED
    BY <1>3, <1>4, <1>10, <2>1 DEF CookieParser, Running, Calling, CallNext, request, GiveBack
<1>11. CASE NotFound
  <2>1. NoGroup
    BY <1>1, <1>11 DEF NotFound, Running, Calling, Steadfast, Observers
  <2>2. CASE Known
    BY <1>3, <1>11, <2>2 DEF NotFound, Running, Calling, CallNext, request
  <2>3. CASE ~Known
    <3>1. mode' = "sending" /\ sending' = "404"
      BY <1>1, <1>11, <2>3 DEF NotFound, Answer
    <3> QED
      BY <1>2, <2>1, <3>1 DEF Carried
  <2> QED
    BY <2>2, <2>3
<1> QED
  BY <1>5, <1>6, <1>7, <1>8, <1>9, <1>10, <1>11

\* server_fault keeps a frame, and its end.
LEMMA CarriedFault ==
  ASSUME NEW last, NEW U, NEW Inner, Steadfast(Inner),
         Framed, Placed(last, U), Carried(Inner), ServerFault \/ FaultBack
  PROVE  Carried(Inner)'
<1>1. CASE ServerFault
  <2> DEFINE f == [node |-> at, live |-> live, next |-> 1]
  <2>1. /\ mode = "call" /\ Tree[at].kind = "middleware" /\ Tree[at].fn = "server_fault"
        /\ mode' = "call" /\ at' = Tree[at].next /\ UNCHANGED <<input, off, live>>
        /\ stack' = Append(stack, f)
    BY <1>1 DEF ServerFault, Running, Calling, CallNext, request
  <2>2. /\ f \in Frame /\ f.node = at /\ f.live = live
        /\ at \in Nodes /\ input \in Inputs /\ live /\ Kept
    BY <2>1 DEF Framed, Shape, Frame, Placed, Carried
  <2>3. off = 0 /\ NoGroup /\ Whole(input, at)
    BY <2>1 DEF Carried, Steadfast, Observers
  <2> HIDE DEF f
  <2>4. Kept' /\ NoGroup'
    BY <2>1, <2>2, <2>3, KeptPush
  <2>5. Whole(input, Tree[at].next)
    <3>1. 0 \in 0 .. Len(input.path) /\ input.path \in Seq(Range(input.path))
      BY <2>2, PathFacts
    <3>2. \A e : ServesAt(input, e, at, 0) <=> ServesAt(input, e, Tree[at].next, 0)
      BY <2>1, <2>2, <3>1, ServesFacts
    <3> QED
      BY <2>3, <3>2 DEF Whole
  <2>6. Whole(input', at')
    BY <2>1, <2>5
  <2> QED
    BY <2>1, <2>2, <2>3, <2>4, <2>6 DEF Carried
<1>2. CASE FaultBack
  <2>1. /\ stack # <<>> /\ stack' = Front(stack) /\ Tree[Top.node].kind = "middleware" /\ Kept
        /\ mode = "back"
    BY <1>2 DEF FaultBack, Carried
  <2>2. Kept' /\ NoGroup'
    BY <2>1, KeptPop
  <2>3. mode' = "back" \/ (mode' = "sending" /\ sending' = "500")
    BY <1>2, FaultFacts
  <2> QED
    BY <2>2, <2>3 DEF Carried
<1> QED
  BY <1>1, <1>2

\* A group finds a route for the live request, and hands up what it gets.
LEMMA CarriedGroup ==
  ASSUME NEW last, NEW U, Firm(U), NEW Inner, Steadfast(Inner),
         Framed, Placed(last, U), Carried(Inner), CallGroup \/ Fold \/ GroupBack
  PROVE  Carried(Inner)' /\ ~FoldEnd /\ (GroupBack => value # "false" /\ mode' = "back")
<1>1. input \in Inputs /\ UNCHANGED <<input, off>> /\ Kept
  BY DEF Placed, Carried, CallGroup, Fold, FoldCall, FoldSkip, FoldEnd, GroupBack, request
<1>2. ASSUME CallGroup PROVE Carried(Inner)'
  <2> DEFINE f == [node |-> at, live |-> live, next |-> 1]
  <2>1. /\ mode = "call" /\ Tree[at].kind = "group" /\ mode' = "fold" /\ live
        /\ stack' = Append(stack, f)
    BY <1>2 DEF CallGroup, Calling, Carried
  <2>2. f \in Frame /\ stack \in Seq(Frame) /\ f.node = at /\ f.live = live
    BY DEF Framed, Shape, Frame
  <2> HIDE DEF f
  <2>3. Kept'
    BY <1>1, <2>1, <2>2, KeptPush
  <2>4. Top' = f
    <3>1. /\ stack' \in Seq(Frame) /\ Len(stack') = Len(stack) + 1
          /\ stack'[Len(stack) + 1] = f
      BY <2>1, <2>2, PushFacts
    <3> QED
      BY <3>1 DEF Top, Last
  <2> QED
    BY <2>1, <2>2, <2>3, <2>4 DEF Carried
<1>3. ASSUME FoldCall \/ FoldSkip PROVE Carried(Inner)'
  <2> DEFINE n == Top.node
             k == Top.next
  <2>1. /\ mode = "fold" /\ k <= Len(Tree[n].routes)
        /\ n \in Nodes /\ Tree[n].kind = "group" /\ k \in Nat \ {0} /\ Top.live
        /\ Top = stack[Len(stack)] /\ Len(stack) \in Nat \ {0}
        /\ \A b \in BOOLEAN : Tried(Top, b).node = n /\ Tried(Top, b).live = b
    <3>1. mode = "fold" /\ k <= Len(Tree[n].routes)
      BY <1>3 DEF FoldCall, FoldSkip
    <3>2. Top.live
      BY <3>1 DEF Carried
    <3> QED
      BY <3>1, <3>2, FoldFrame
  <2>2. Tree[n].routes[k] \in Inner
    <3>1. Tree[n].routes \in Seq(n + 1 .. Len(Tree))
      BY <2>1, ChildFacts
    <3>2. k \in DOMAIN Tree[n].routes
      BY <2>1, <3>1
    <3> QED
      BY <2>1, <3>2 DEF Steadfast
  <2>3. ASSUME NEW b \in BOOLEAN, stack' = [stack EXCEPT ![Len(stack)] = Tried(@, b)]
        PROVE  Kept' /\ Top'.live = b
    <3>1. /\ Len(stack') = Len(stack) /\ stack'[Len(stack)] = Tried(Top, b)
          /\ Last(stack') = Tried(Top, b)
          /\ \A i \in 1 .. Len(stack) - 1 : stack'[i] = stack[i]
      BY <2>1, <2>3, FoldFacts
    <3>2. \A i \in 1 .. Len(stack') :
            /\ i \in 1 .. Len(stack) /\ stack'[i].node = stack[i].node
            /\ i = Len(stack) \/ stack'[i] = stack[i]
            /\ \A j \in i .. Len(stack') : j \in i .. Len(stack) /\ j \in 1 .. Len(stack')
      BY <2>1, <3>1
    <3>3. \A j \in Len(stack) .. Len(stack) : j = Len(stack)
      BY <2>1
    <3>4. Kept'
      BY <1>1, <2>1, <3>1, <3>2, <3>3 DEF Kept
    <3> QED
      BY <2>1, <3>1, <3>4 DEF Top
  <2>4. CASE FoldCall
    <3>1. /\ mode' = "call" /\ at' = Tree[n].routes[k] /\ live' = Top.live
          /\ stack' = [stack EXCEPT ![Len(stack)] = Tried(@, FALSE)]
      BY <2>4 DEF FoldCall
    <3>2. at' \in Inner /\ live' /\ Kept'
      BY <2>1, <2>2, <2>3, <3>1
    <3> QED
      BY <3>1, <3>2 DEF Carried
  <2>5. CASE FoldSkip
    <3>1. mode' = "fold" /\ stack' = [stack EXCEPT ![Len(stack)] = Tried(@, Top.live)]
      BY <2>1, <2>5 DEF FoldSkip
    <3>2. Top'.live /\ Kept'
      BY <2>1, <2>3, <3>1
    <3> QED
      BY <3>1, <3>2 DEF Carried
  <2> QED
    BY <1>3, <2>4, <2>5
<1>4. ~FoldEnd
  <2> SUFFICES ASSUME FoldEnd PROVE FALSE
    OBVIOUS
  <2>1. mode = "fold" /\ Top.next > Len(Tree[Top.node].routes)
    BY DEF FoldEnd
  <2>2. FoldsRight(last, U, input, Top.node, off, Top.next)
    BY <2>1 DEF Carried, Placed
  <2>3. Top.next <= Len(Tree[Top.node].routes) /\ Top.next \in Nat /\ Top.node \in Nodes
        /\ Tree[Top.node].kind = "group"
    BY <1>1, <2>1, <2>2, FoldFrame, FoldFinds
  <2>4. Len(Tree[Top.node].routes) \in Nat
    BY <2>3, ChildFacts
  <2> QED
    BY <2>1, <2>3, <2>4
<1>5. ASSUME GroupBack PROVE Carried(Inner)' /\ value # "false" /\ mode' = "back"
  <2>1. mode = "back" /\ stack # <<>> /\ Tree[Top.node].kind = "group"
    BY <1>5 DEF GroupBack
  <2>2. value # "false"
    <3>1. Top = stack[Len(stack)] /\ Len(stack) \in 1 .. Len(stack)
      BY <2>1, PopFacts DEF Framed, Shape, Top
    <3>2. ~NoGroup
      BY <2>1, <3>1 DEF NoGroup
    <3> QED
      BY <2>1, <3>2 DEF Carried
  <2>3. mode' = "back" /\ value' = value /\ stack' = Front(stack)
    BY <1>5, <2>2 DEF GroupBack, GiveBack
  <2>4. Kept'
    BY <1>1, <2>1, <2>3, KeptPop
  <2> QED
    BY <2>2, <2>3, <2>4 DEF Carried
<1> QED
  BY <1>2, <1>3, <1>4, <1>5 DEF Fold

\* Handlers, writes and the end.
LEMMA CarriedRest ==
  ASSUME NEW Inner, Framed, Carried(Inner),
         CallEndPoint \/ Handler \/ Write \/ Finish \/ PeerReset \/ UNCHANGED vars
  PROVE  Carried(Inner)'
<1>1. UNCHANGED <<input, at, off, live, stack>> /\ Kept
  BY DEF Carried, CallEndPoint, Handler, HandlerSend, HandlerReturn, HandlerThrow, Write,
     WriteDone, WriteFail, Finish, PeerReset, request, vars
<1>2. Kept' /\ (NoGroup => NoGroup')
  BY <1>1 DEF Kept, NoGroup
<1>3. CASE CallEndPoint
  BY <1>1, <1>2, <1>3 DEF CallEndPoint, Calling, Carried
<1>4. CASE Handler
  <2>1. live
    BY <1>4 DEF Handler, HandlerSend, HandlerReturn, HandlerThrow, Carried
  <2>2. \/ mode' = "sending" /\ sending' = "ok"
        \/ mode' = "back" /\ value' # "false"
    BY <1>4, <2>1 DEF Handler, HandlerSend, HandlerReturn, HandlerThrow, Answer, GiveBack
  <2> QED
    BY <1>1, <1>2, <2>1, <2>2 DEF Carried
<1>5. CASE Write
  <2>1. \/ mode' = "handler" /\ mode = "sending" /\ sending = "ok"
        \/ mode' = "back" /\ (value' = "false" => mode = "sending" /\ sending # "ok")
    BY <1>5 DEF Write, WriteDone, WriteFail, GiveBack
  <2> QED
    BY <1>1, <1>2, <2>1 DEF Carried
<1>6. CASE Finish
  BY <1>2, <1>6 DEF Finish, Carried
<1>7. CASE PeerReset \/ UNCHANGED vars
  <2>1. UNCHANGED <<mode, value, sending, stack>>
    BY <1>7 DEF PeerReset, request, vars
  <2>2. Top' = Top
    BY <2>1 DEF Top
  <2>3. mode' = "call" /\ at \notin Inner => Whole(input', at')
    <3>1. mode = "call" /\ at \notin Inner => Whole(input, at)
      BY DEF Carried
    <3> QED
      BY <1>1, <2>1, <3>1
  <2> QED
    BY <1>1, <1>2, <2>1, <2>2, <2>3 DEF Carried
<1> QED
  BY <1>3, <1>4, <1>5, <1>6, <1>7

\* A call: an assert fails only where there is no not_found in front.
LEMMA WatchedCall ==
  ASSUME NEW last, NEW U, Entrances(U), Firm(U), NEW Inner, Steadfast(Inner),
         Framed, Placed(last, U), Carried(Inner), Watched(U), Call
  PROVE  Watched(U)'
<1>1. /\ mode = "call" /\ live /\ at \in Nodes /\ input \in Inputs
      /\ at \in Inner \/ off = 0
      /\ CalledRight(last, U, input, at, off) /\ OnTheWay(input, at, off)
      /\ UNCHANGED input
  <2>1. mode = "call" /\ UNCHANGED input
    BY DEF Call, Bind, AssertFails, BindGarbage, CallGroup, Observe, NotFound, ServerFault,
       ObjectBody, CookieParser, CallEndPoint, Running, Calling
  <2> QED
    BY <2>1 DEF Framed, Shape, Placed, Carried, CalledRight
<1>2. \/ MatchAt(input, at, off)
      \/ IF Guarded(input.app) THEN Guarded(at) ELSE at \in U /\ ~Guarded(at)
  BY <1>1 DEF Watched
<1>3. MatchAt(input, at, off) => Served(input)
  BY <1>1, MatchedIsServed
<1>4. Guarded(at) <=> /\ Tree[at].kind = "middleware"
                      /\ Tree[at].fn = "not_found" \/ Guarded(Tree[at].next)
  BY <1>1, GuardedFacts
<1>5. ASSUME mode' \in {"fold", "handler", "sending", "back"}, Served(input) \/ Guarded(input.app)
      PROVE  Watched(U)'
  BY <1>1, <1>5 DEF Watched
<1>6. ASSUME mode' = "call", at' = Tree[at].next, NEW b, off' = b,
             \/ MatchAt(input, Tree[at].next, b)
             \/ IF Guarded(input.app) THEN Guarded(Tree[at].next)
                                      ELSE Tree[at].next \in U /\ ~Guarded(Tree[at].next)
      PROVE  Watched(U)'
  <2>1. \/ MatchAt(input', at', off')
        \/ IF Guarded(input'.app) THEN Guarded(at') ELSE at' \in U /\ ~Guarded(at')
    BY <1>1, <1>6
  <2> QED
    BY <1>6, <2>1 DEF Watched
<1>7. CASE Tree[at].kind = "binding"
  <2>1. ~MatchAt(input, at, off) => ~Guarded(input.app)
    BY <1>2, <1>4, <1>7
  <2>2. \/ Asserts /\ ~MatchAt(input, at, off)
        \/ /\ Fits(Tree[at]) /\ NextMatches(Tree[at])
    BY <1>1, <1>7, BoundRight DEF Fits, NextMatches, MatchAt, Path, After
  <2>3. Bind \/ AssertFails
    <3>1. ~BindGarbage
      BY <1>1, <2>2 DEF BindGarbage
    <3> QED
      BY <1>7, <3>1 DEF Call, CallGroup, Observe, NotFound, ServerFault, ObjectBody,
         CookieParser, CallEndPoint, Running, Calling
  <2>4. CASE Bind
    <3>1. /\ mode' = "call" /\ at' = Tree[at].next /\ off' = After(at, Path, off)
          /\ MatchAt(input, Tree[at].next, After(at, Path, off))
      <4>1. mode' = "call" /\ at' = Tree[at].next /\ off' = After(at, Path, off)
        BY <2>4 DEF Bind, CallNext, After
      <4>2. MatchAt(input, at, off) => MatchAt(input, Tree[at].next, After(at, Path, off))
        BY <1>1, <1>7, BoundRight DEF Path
      <4>3. Asserts => MatchAt(input, Tree[at].next, After(at, Path, off))
        BY <2>4 DEF Bind, NextMatches, MatchAt, After, Path
      <4> QED
        BY <2>2, <4>1, <4>2, <4>3, <1>1, <1>7, BoundRight DEF Path
    <3> QED
      BY <1>6, <3>1
  <2>5. CASE AssertFails
    <3>1. mode' = "aborted" /\ ~MatchAt(input, at, off)
      BY <1>1, <2>2, <2>5 DEF AssertFails
    <3> QED
      BY <1>1, <2>1, <3>1 DEF Watched
  <2> QED
    BY <2>3, <2>4, <2>5
<1>8. CASE Tree[at].kind \in {"group", "end_point"}
  <2>1. Served(input)
    <3>1. MatchAt(input, at, off)
      BY <1>1, <1>8 DEF CalledRight, Entrances, Firm
    <3> QED
      BY <1>3, <3>1
  <2>2. mode' \in {"fold", "handler"}
    BY <1>8 DEF Call, Bind, AssertFails, BindGarbage, CallGroup, Observe, NotFound, ServerFault,
       ObjectBody, CookieParser, CallEndPoint, Running, Calling
  <2> QED
    BY <1>5, <2>1, <2>2
<1>9. CASE Tree[at].kind = "middleware"
  <2>1. /\ Observe \/ NotFound \/ ServerFault \/ ObjectBody \/ CookieParser
        /\ off' = off
    BY <1>9 DEF Call, Bind, AssertFails, BindGarbage, CallGroup, Observe, NotFound, ServerFault,
       ObjectBody, CookieParser, CallEndPoint, Running, Calling, request
  <2>2. MatchAt(input, at, off) <=> MatchAt(input, Tree[at].next, off)
    BY <1>1, <1>9, CalledNext
  <2>3. CASE ~(\/ MatchAt(input, at, off)
               \/ IF Guarded(input.app) THEN Guarded(Tree[at].next)
                                        ELSE Tree[at].next \in U /\ ~Guarded(Tree[at].next))
    <3>1. CASE Guarded(input.app)
      <4>1. Tree[at].fn = "not_found" /\ ~MatchAt(input, Tree[at].next, off)
        BY <1>2, <1>4, <2>2, <2>3, <3>1
      <4>2. NotFound /\ off = 0
        BY <1>1, <1>9, <2>1, <4>1 DEF Steadfast, Observe, ServerFault, ObjectBody, CookieParser,
           Running, Observers
      <4>3. mode' = "sending"
        BY <1>1, <4>1, <4>2 DEF NotFound, Known, Answer, MatchAt, Path
      <4> QED
        BY <1>5, <3>1, <4>3
    <3>2. CASE ~Guarded(input.app)
      <4>1. at \in U /\ ~Guarded(at) /\ Tree[at].fn # "not_found" /\ ~Guarded(Tree[at].next)
        BY <1>2, <1>4, <1>9, <2>3, <3>2
      <4> QED
        BY <1>9, <2>3, <3>2, <4>1 DEF Entrances
    <3> QED
      BY <3>1, <3>2
  <2>4. CASE \/ MatchAt(input, at, off)
             \/ IF Guarded(input.app) THEN Guarded(Tree[at].next)
                                      ELSE Tree[at].next \in U /\ ~Guarded(Tree[at].next)
    <3>1. CASE mode' = "call"
      <4>1. at' = Tree[at].next
        BY <2>1, <3>1 DEF Observe, NotFound, ServerFault, ObjectBody, CookieParser, CallNext,
           GiveBack, Answer
      <4> QED
        BY <1>6, <2>1, <2>2, <2>4, <3>1, <4>1
    <3>2. CASE mode' # "call"
      <4>1. mode' \in {"sending", "back"} /\ ~Observe /\ ~ServerFault
        BY <2>1, <3>2 DEF Observe, NotFound, ServerFault, ObjectBody, CookieParser, CallNext,
           GiveBack, Answer
      <4>2. Served(input) \/ Guarded(input.app)
        <5> SUFFICES ASSUME ~Served(input), ~Guarded(input.app) PROVE FALSE
          OBVIOUS
        <5>1. at \in U /\ ~Guarded(at)
          BY <1>2, <1>3
        <5>2. Tree[at].fn \in Observers \cup {"server_fault"}
          BY <1>9, <5>1 DEF Firm
        <5> QED
          BY <2>1, <4>1, <5>2 DEF NotFound, ObjectBody, CookieParser, Running, Observers
      <4> QED
        BY <1>5, <4>1, <4>2
    <3> QED
      BY <3>1, <3>2
  <2> QED
    BY <2>3, <2>4
<1> QED
  BY <1>1, <1>7, <1>8, <1>9, TreeAssumption

\* The steps behind it.
LEMMA WatchedRest ==
  ASSUME NEW last, NEW U, Firm(U), NEW Inner, Steadfast(Inner),
         Framed, Placed(last, U), Carried(Inner), Watched(U),
         Fold \/ Back \/ Write \/ Handler \/ PeerReset \/ UNCHANGED vars
  PROVE  Watched(U)'
<1>1. UNCHANGED input
  BY DEF Fold, FoldCall, FoldSkip, FoldEnd, Back, GroupBack, FaultBack, Finish, Write, WriteDone,
     WriteFail, Handler, HandlerSend, HandlerReturn, HandlerThrow, PeerReset, vars
<1>2. CASE FoldCall
  <2> DEFINE m == Tree[Top.node].routes[Top.next]
  <2>1. /\ mode' = "call" /\ at' = m /\ off' = off
        /\ Top.live => MatchAt(input, m, off)
    BY <1>2 DEF FoldCall, DoIdxMatches, MatchAt, Path
  <2>2. MatchAt(input, m, off)
    BY <1>2, <2>1 DEF FoldCall, Carried
  <2>3. MatchAt(input', at', off')
    BY <1>1, <2>1, <2>2
  <2> QED
    BY <2>1, <2>3 DEF Watched
<1>3. CASE FoldSkip \/ Write \/ Handler \/ Finish \/ FaultBack
  <2>1. mode \in {"fold", "handler", "sending", "back"}
        /\ mode' \in {"fold", "handler", "sending", "back", "done"}
    <3>1. CASE FoldSkip \/ Write \/ Handler \/ Finish
      BY <3>1 DEF FoldSkip, Write, WriteDone, WriteFail, Handler, HandlerSend, HandlerReturn,
         HandlerThrow, Answer, GiveBack, Finish
    <3>2. CASE FaultBack
      BY <3>2, FaultFacts
    <3> QED
      BY <1>3, <3>1, <3>2
  <2> QED
    BY <1>1, <2>1 DEF Watched
<1>4. CASE FoldEnd \/ GroupBack
  <2>1. mode = "back" /\ mode' = "back"
    BY <1>4, CarriedGroup DEF Fold, GroupBack
  <2> QED
    BY <1>1, <2>1 DEF Watched
<1>5. CASE PeerReset \/ UNCHANGED vars
  <2>1. UNCHANGED <<input, mode, at, off>>
    BY <1>5 DEF PeerReset, request, vars
  <2>2. \/ MatchAt(input, at, off)
        \/ IF Guarded(input.app) THEN Guarded(at) ELSE at \in U /\ ~Guarded(at)
        \/ mode # "call"
    BY DEF Watched
  <2>3. \/ MatchAt(input', at', off')
        \/ IF Guarded(input'.app) THEN Guarded(at') ELSE at' \in U /\ ~Guarded(at')
        \/ mode' # "call"
    BY <2>1, <2>2
  <2> QED
    BY <2>1, <2>3 DEF Watched
<1> QED
  BY <1>2, <1>3, <1>4, <1>5 DEF Fold, Back

\* All parts of the invariant.
Steady(last, U, Inner) == Framed /\ Placed(last, U) /\ Carried(Inner) /\ Watched(U)

\* They always hold.
LEMMA SteadyAlways ==
  ASSUME NEW last, NEW U, Entrances(U), Firm(U), NEW Inner, Steadfast(Inner)
  PROVE  Spec => []Steady(last, U, Inner)
<1>1. Init => Carried(Inner) /\ Watched(U)
  <2> SUFFICES ASSUME Init PROVE Carried(Inner) /\ Watched(U)
    OBVIOUS
  <2>1. /\ mode = "call" /\ live /\ input \in Inputs /\ at = input.app /\ off = 0
        /\ stack = <<>>
    BY DEF Init
  <2>2. 1 .. Len(stack) = {}
    BY <2>1
  <2>3. Whole(input, at)
    BY <2>1 DEF Whole
  <2>4. at \in U
    BY <2>1 DEF Entrances
  <2> QED
    BY <2>1, <2>2, <2>3, <2>4 DEF Carried, Kept, NoGroup, Watched
<1>2. Framed /\ Placed(last, U) /\ Carried(Inner) /\ Watched(U) /\ [Next]_vars
        => Carried(Inner)' /\ Watched(U)'
  <2> SUFFICES ASSUME Framed, Placed(last, U), Carried(Inner), Watched(U), [Next]_vars
               PROVE  Carried(Inner)' /\ Watched(U)'
    OBVIOUS
  <2>1. Carried(Inner)'
    BY CarriedCall, CarriedFault, CarriedGroup, CarriedRest DEF Next, Serve, Call, Fold, Back
  <2>2. Watched(U)'
    BY WatchedCall, WatchedRest DEF Next, Serve
  <2> QED
    BY <2>1, <2>2
<1>3. Spec => [](Framed /\ Placed(last, U))
  BY PlacedAlways
<1> QED
  BY <1>1, <1>2, <1>3, PTL DEF Spec, Steady

\* When nothing behind a binding or a group declines or catches, no assert fails in
\* an application that has a not_found in front; one that has none, and only
\* watches and catches in front of its first binding, survives only the requests
\* an end point serves (the asserts of binding, not_found_mw, the call of the root
\* in server_impl).
THEOREM SurvivesWhatIsServed ==
  ASSUME NEW U, Entrances(U), Firm(U), NEW Inner, Steadfast(Inner)
  PROVE  Spec => []SurvivesOnlyServed
<1>1. PICK last : last = [n \in Nodes |-> n]
  OBVIOUS
<1>2. Steady(last, U, Inner) => SurvivesOnlyServed
  <2> SUFFICES ASSUME Steady(last, U, Inner) PROVE SurvivesOnlyServed
    OBVIOUS
  <2>1. CASE Guarded(input.app)
    BY <2>1 DEF Steady, Watched, SurvivesOnlyServed
  <2>2. CASE ~Guarded(input.app)
    <3>1. mode \in {"handler", "done"} => Served(input)
      BY <2>2 DEF Steady, Watched
    <3>2. \A e : Serves(e, TRUE) = ServesAt(input, e, input.app, 0)
      <4>1. Len(input.path) \in Nat
        BY PathFacts DEF Steady, Placed
      <4> QED
        BY <4>1, ServesEquation, Zenon DEF Serves
    <3> QED
      BY <2>2, <3>1, <3>2 DEF SurvivesOnlyServed, Served
  <2> QED
    BY <2>1, <2>2
<1> QED
  BY <1>2, SteadyAlways, PTL

-----------------------------------------------------------------------------
(* One answer to a request.                                                *)

\* What has been sent, wherever the request is; a 500 to nobody leaves no trace.
Accounted ==
  /\ mode \in {"call", "fold"} => sent = <<>> /\ ran = <<>>
  /\ mode = "handler" =>
       /\ Served(input)
       /\ (sends = 0 /\ sent = <<>>) \/ (sends = 1 /\ sent = <<"ok">>)
  /\ mode = "sending" =>
       /\ sent = <<>>
       /\ \/ sending = "ok" /\ Served(input) /\ sends = 0
          \/ sending = "404" /\ ~Served(input) /\ ran = <<>>
          \/ sending = "500" /\ (Served(input) \/ link = "down")
  /\ mode \in {"back", "done"} =>
       \/ value = "true" /\ sent = <<"ok">> /\ Served(input)
       \/ value = "false" /\ sent = <<"404">> /\ ~Served(input) /\ ran = <<>>
       \/ value = "false" /\ sent = <<"500">> /\ Served(input)
       \/ value = "std" /\ sent = <<>> /\ (Served(input) \/ link = "down")
       \/ value = "other" /\ sent = <<>> /\ Served(input)
  /\ mode = "aborted" => sent = <<>>

\* not_found refuses what nobody serves, and nothing else.
LEMMA RefusesUnserved ==
  ASSUME NEW x \in Inputs, NEW n \in Nodes, Tree[n].kind = "middleware", Whole(x, n),
         ~MatchAt(x, Tree[n].next, 0)
  PROVE  ~Served(x)
<1> SUFFICES ASSUME NEW e \in Nodes, ServesAt(x, e, x.app, 0) PROVE FALSE
  BY DEF Served
<1>1. x.path \in Seq(Range(x.path)) /\ 0 \in 0 .. Len(x.path) /\ Len(x.path) \in Nat
  BY PathFacts
<1>2. ServesAt(x, e, n, 0)
  BY DEF Whole
<1>3. MatchAt(x, n, 0)
  BY <1>1, <1>2, MatchIsServed DEF MatchAt
<1> QED
  BY <1>1, <1>3, MatchFacts DEF MatchAt

\* A call.
LEMMA AccountedCall ==
  ASSUME NEW last, NEW U, Entrances(U), Plain(U), Answers, NEW Inner, Steadfast(Inner),
         Framed, Placed(last, U), Carried(Inner), Accounted, Call
  PROVE  Accounted'
<1>1. /\ mode = "call" /\ live /\ at \in Nodes /\ input \in Inputs
      /\ at \in Inner \/ (off = 0 /\ Whole(input, at))
      /\ CalledRight(last, U, input, at, off) /\ OnTheWay(input, at, off)
      /\ sent = <<>> /\ ran = <<>> /\ UNCHANGED <<input, sent>>
  <2>1. mode = "call" /\ UNCHANGED <<input, sent>>
    BY DEF Call, Bind, AssertFails, BindGarbage, CallGroup, Observe, NotFound, ServerFault,
       ObjectBody, CookieParser, CallEndPoint, Running, Calling, wire
  <2> QED
    BY <2>1 DEF Framed, Shape, Placed, Carried, CalledRight, Accounted
<1>2. at \notin U => Served(input)
  BY <1>1, MatchedIsServed DEF CalledRight
<1>3. ASSUME mode' \in {"call", "fold", "aborted"}, ran' = ran PROVE Accounted'
  BY <1>1, <1>3 DEF Accounted
<1>4. CASE Bind \/ AssertFails \/ CallGroup \/ Observe \/ ServerFault
  BY <1>3, <1>4 DEF Bind, AssertFails, CallGroup, Observe, ServerFault, CallNext, history
<1>5. ~BindGarbage
  <2> SUFFICES ASSUME BindGarbage PROVE FALSE
    OBVIOUS
  <2>1. Tree[at].kind = "binding" /\ ~Asserts /\ ~Fits(Tree[at])
    BY <1>1 DEF BindGarbage, Calling
  <2> QED
    BY <1>1, <2>1, BoundRight DEF Fits, Path
<1>6. ~CookieParser
  BY <1>1 DEF CookieParser, Running, Calling, Answers
<1>7. CASE ObjectBody
  <2>1. Tree[at].kind = "middleware" /\ Tree[at].fn = "object_body" /\ ran' = ran
    BY <1>7 DEF ObjectBody, Running, Calling, history
  <2>2. Served(input)
    BY <1>2, <2>1 DEF Plain, Observers
  <2>3. mode' = "call" \/ (mode' = "back" /\ value' = "std")
    BY <1>7 DEF ObjectBody, CallNext, GiveBack
  <2> QED
    BY <1>1, <1>3, <2>1, <2>2, <2>3 DEF Accounted
<1>8. CASE NotFound
  <2>1. Tree[at].kind = "middleware" /\ Tree[at].fn = "not_found" /\ ran' = ran
    BY <1>8 DEF NotFound, Running, Calling, history
  <2>2. CASE Known
    BY <1>3, <1>8, <2>1, <2>2 DEF NotFound, CallNext
  <2>3. CASE ~Known
    <3>1. off = 0 /\ Whole(input, at)
      BY <1>1, <2>1 DEF Steadfast, Observers
    <3>2. ~Served(input)
      BY <1>1, <2>1, <2>3, <3>1, RefusesUnserved DEF Known, MatchAt, Path
    <3>3. mode' = "sending" /\ sending' = "404"
      BY <1>1, <1>8, <2>3 DEF NotFound, Answer
    <3> QED
      BY <1>1, <2>1, <3>2, <3>3 DEF Accounted
  <2> QED
    BY <2>2, <2>3
<1>9. CASE CallEndPoint
  <2>1. mode' = "handler" /\ sends' = 0 /\ Tree[at].kind = "end_point"
    BY <1>9 DEF CallEndPoint, Calling
  <2>2. Served(input)
    BY <1>2, <2>1 DEF Entrances
  <2> QED
    BY <1>1, <2>1, <2>2 DEF Accounted
<1> QED
  BY <1>4, <1>5, <1>6, <1>7, <1>8, <1>9 DEF Call

\* Groups and server_fault.
LEMMA AccountedBack ==
  ASSUME NEW last, NEW U, Firm(U), NEW Inner, Steadfast(Inner),
         Framed, Placed(last, U), Carried(Inner), Accounted, Fold \/ Back
  PROVE  Accounted'
<1>1. CASE FoldCall \/ FoldSkip
  <2>1. mode = "fold" /\ mode' \in {"call", "fold"} /\ UNCHANGED <<sent, ran>>
    BY <1>1 DEF FoldCall, FoldSkip, wire, history
  <2> QED
    BY <2>1 DEF Accounted
<1>2. ~FoldEnd
  BY CarriedGroup DEF Fold
<1>3. CASE GroupBack
  <2>1. value # "false"
    BY <1>3, CarriedGroup
  <2>2. mode = "back" /\ mode' = "back" /\ value' = value /\ UNCHANGED <<input, sent, ran, link>>
    BY <1>3, <2>1 DEF GroupBack, GiveBack, wire, history
  <2> QED
    BY <2>2 DEF Accounted
<1>4. CASE FaultBack
  <2>1. mode = "back" /\ stack # <<>> /\ Tree[Top.node].kind = "middleware"
        /\ stack' = Front(stack) /\ Kept
    BY <1>4 DEF FaultBack, Carried
  <2>2. Top.live
    BY <2>1, KeptPop
  <2>3. /\ UNCHANGED <<input, sent, ran, link>>
        /\ \/ mode' = "sending" /\ sending' = "500" /\ value = "std"
           \/ mode' = "back" /\ value' = value
    BY <1>4, <2>2, FaultFacts DEF history
  <2> QED
    BY <2>1, <2>3 DEF Accounted
<1>5. CASE Finish
  BY <1>5 DEF Finish, Accounted, wire, history
<1> QED
  BY <1>1, <1>2, <1>3, <1>4, <1>5 DEF Fold, Back

\* Handlers and writes.
LEMMA AccountedRest ==
  ASSUME Answers, NEW Inner, Carried(Inner), Accounted,
         Handler \/ Write \/ PeerReset \/ UNCHANGED vars
  PROVE  Accounted'
<1>1. CASE Handler
  <2>1. /\ mode = "handler" /\ live /\ Served(input) /\ UNCHANGED <<input, sent>>
        /\ (sends = 0 /\ sent = <<>>) \/ (sends = 1 /\ sent = <<"ok">>)
    BY <1>1 DEF Handler, HandlerSend, HandlerReturn, HandlerThrow, Accounted, Carried, wire
  <2>2. CASE HandlerSend
    <3>1. mode' = "sending" /\ sending' = "ok" /\ sends = 0 /\ sends' = sends
      BY <2>1, <2>2 DEF HandlerSend, Answer, Answers
    <3> QED
      BY <2>1, <3>1 DEF Accounted
  <2>3. CASE HandlerReturn
    BY <2>1, <2>3 DEF HandlerReturn, GiveBack, Answers, Accounted
  <2>4. CASE HandlerThrow
    <3>1. mode' = "back" /\ value' \in {"std", "other"} /\ sent = <<>>
      BY <2>1, <2>4 DEF HandlerThrow, GiveBack, Answers
    <3> QED
      BY <2>1, <3>1 DEF Accounted
  <2> QED
    BY <1>1, <2>2, <2>3, <2>4 DEF Handler
<1>2. CASE WriteDone
  <2>1. /\ mode = "sending" /\ link = "up" /\ sent' = Append(sent, sending) /\ sent = <<>>
        /\ UNCHANGED <<input, ran, link>>
        /\ \/ sending = "ok" /\ mode' = "handler" /\ sends' = sends + 1
           \/ sending # "ok" /\ mode' = "back" /\ value' = "false"
    BY <1>2 DEF WriteDone, Accounted, GiveBack, history
  <2>2. sent' = <<sending>>
    BY <2>1
  <2> QED
    BY <2>1, <2>2 DEF Accounted
<1>3. CASE WriteFail
  BY <1>3 DEF WriteFail, GiveBack, Accounted, wire, history
<1>4. CASE PeerReset \/ UNCHANGED vars
  <2>1. /\ UNCHANGED <<input, mode, value, sends, sending, sent, ran>>
        /\ link' = link \/ link' = "down"
    BY <1>4 DEF PeerReset, vars, history
  <2> QED
    BY <2>1 DEF Accounted
<1> QED
  BY <1>1, <1>2, <1>3, <1>4 DEF Write

\* The states of a request.
Modes == {"call", "fold", "back", "handler", "sending", "done", "aborted"}
ModeOK == mode \in Modes

\* A request is always in one of them.
LEMMA ModesAlways == Spec => []ModeOK
<1>1. Init => ModeOK
  BY DEF Init, ModeOK, Modes
<1>2. ModeOK /\ [Next]_vars => ModeOK'
  <2> SUFFICES ASSUME ModeOK, [Next]_vars PROVE ModeOK'
    OBVIOUS
  <2>1. CASE Call
    BY <2>1 DEF Call, Bind, AssertFails, BindGarbage, CallGroup, Observe, NotFound, ServerFault,
       ObjectBody, CookieParser, CallEndPoint, CallNext, Answer, GiveBack, ModeOK, Modes
  <2>2. CASE Fold \/ Back
    BY <2>2 DEF Fold, Back, FoldCall, FoldSkip, FoldEnd, GroupBack, FaultBack, Finish, Answer,
       GiveBack, ModeOK, Modes
  <2>3. CASE Handler \/ Write \/ PeerReset \/ UNCHANGED vars
    BY <2>3 DEF Handler, HandlerSend, HandlerReturn, HandlerThrow, Write, WriteDone, WriteFail,
       PeerReset, Answer, GiveBack, vars, ModeOK, Modes
  <2> QED
    BY <2>1, <2>2, <2>3 DEF Next, Serve
<1> QED
  BY <1>1, <1>2, PTL DEF Spec

\* All parts of the invariant.
Balanced(last, U, Inner) == Steady(last, U, Inner) /\ Accounted

\* They always hold.
LEMMA AccountedAlways ==
  ASSUME NEW last, NEW U, Entrances(U), Plain(U), Answers, NEW Inner, Steadfast(Inner)
  PROVE  Spec => []Balanced(last, U, Inner)
<1>1. Firm(U)
  BY GuardedFacts DEF Plain, Firm, Entrances
<1>2. Spec => []Steady(last, U, Inner)
  BY <1>1, SteadyAlways
<1>3. Init => Accounted
  BY DEF Init, Accounted
<1>4. Steady(last, U, Inner) /\ Accounted /\ [Next]_vars => Accounted'
  <2> SUFFICES ASSUME Steady(last, U, Inner), Accounted, [Next]_vars PROVE Accounted'
    OBVIOUS
  <2> QED
    BY <1>1, AccountedCall, AccountedBack, AccountedRest DEF Steady, Next, Serve
<1>5. Spec => Init /\ [][Next]_vars
  BY PTL DEF Spec
<1> QED
  BY <1>2, <1>3, <1>4, <1>5, PTL DEF Balanced

\* Under a server_fault at the root, with handlers that answer once, and in trees
\* where nobody declines in silence: a request is answered once, unless the peer
\* leaves or something else than a std::exception is thrown, with 404 if and only
\* if no end point serves it, in which case no handler has run (not_found_mw,
\* server_fault_mw, the fold of group, the tasks that are awaited in turn).
THEOREM AnswersOnce ==
  ASSUME RootFault, NEW U, Entrances(U), Plain(U), Answers, NEW Inner, Steadfast(Inner)
  PROVE  Spec => []AnsweredOnce
<1>1. PICK last : last = [n \in Nodes |-> n]
  OBVIOUS
<1>2. Spec => []Reaches
  BY ReachesAlways DEF Answers
<1>3. Balanced(last, U, Inner) /\ Reaches /\ ModeOK => AnsweredOnce
  <2> SUFFICES ASSUME Steady(last, U, Inner), Accounted, Reaches, ModeOK
               PROVE  AnsweredOnce
    BY DEF Balanced
  <2>1. (\A e \in Nodes : ~Serves(e, TRUE)) <=> ~Served(input)
    <3>1. Len(input.path) \in Nat
      BY PathFacts DEF Steady, Placed
    <3>2. \A e : Serves(e, TRUE) = ServesAt(input, e, input.app, 0)
      BY <3>1, ServesEquation, Zenon DEF Serves
    <3> QED
      BY <3>2 DEF Served
  <2>2. \/ sent = <<>>
        \/ sent = <<"404">> /\ ran = <<>> /\ mode \in {"back", "done"} /\ ~Served(input)
        \/ sent \in {<<"ok">>, <<"500">>} /\ Served(input)
    BY DEF Accounted, ModeOK, Modes
  <2>3. mode = "done" /\ link = "up" /\ value # "other" => sent # <<>>
    BY DEF Reaches, Covered, Accounted
  <2>4. Len(<<>>) = 0 /\ Len(<<"ok">>) = 1 /\ Len(<<"404">>) = 1 /\ Len(<<"500">>) = 1
        /\ <<"404">> # <<"ok">> /\ <<"404">> # <<"500">> /\ <<"404">> # <<>>
    OBVIOUS
  <2>5. Len(sent) <= 1
    <3>1. sent \in {<<>>, <<"ok">>, <<"404">>, <<"500">>}
      BY <2>2
    <3>2. Len(sent) \in {0, 1}
      BY <2>4, <3>1, Zenon
    <3> QED
      BY <3>2
  <2>6. sent = <<"404">> => ran = <<>>
    BY <2>2, <2>4
  <2>7. sent # <<>> => Len(sent) = 1
    BY <2>2, <2>4
  <2>8. sent # <<>> => (sent = <<"404">> <=> ~Served(input))
    BY <2>2, <2>4
  <2>9. mode = "done" /\ link = "up" /\ value # "other"
           => Len(sent) = 1 /\ (sent = <<"404">> <=> \A e \in Nodes : ~Serves(e, TRUE))
    BY <2>1, <2>3, <2>7, <2>8
  <2> QED
    BY <2>5, <2>6, <2>9 DEF AnsweredOnce
<1> QED
  BY <1>2, <1>3, AccountedAlways, ModesAlways, PTL

-----------------------------------------------------------------------------
(* The parameters a handler sees.                                          *)

\* The elements of the patterns of the tree.
Elements == UNION {Range(Tree[n].pattern) : n \in {m \in Nodes : Tree[m].kind = "binding"}}

\* While the request has not been moved away, the trail and the parameters spell
\* what has been consumed, and the keys to come are new.
Spelt == \E c : Spells(Path, trail, params, off, c)
Rebuilt(K) ==
  /\ trail \in Seq(Elements)
  /\ live => off \in 0 .. Len(Path) /\ Spelt
  /\ mode = "call" /\ live => Names(trail) \cap K[at] = {}
  /\ mode = "fold" /\ Top.live => live /\ Names(trail) \cap K[Top.node] = {}

\* The pattern of a binding.
LEMMA PatternFacts ==
  ASSUME NEW n \in Nodes, Tree[n].kind = "binding"
  PROVE  /\ Tree[n].pattern \in Seq(Elements)
         /\ \A i \in 1 .. Len(Tree[n].pattern) :
              Tree[n].pattern[i].param => Tree[n].pattern[i].name \in Keys
<1> DEFINE p == Tree[n].pattern
<1>1. p \in Seq(Range(p)) /\ \A i \in 1 .. Len(p) : p[i].param => p[i].name \in Keys
  BY TreeAssumption
<1>2. Range(p) \subseteq Elements
  BY DEF Elements
<1>3. p \in Seq(Elements)
  <2> HIDE DEF p
  <2> QED
    BY <1>1, <1>2, SeqMonotonic
<1> QED
  BY <1>1, <1>3

\* The keys of elements are keys.
LEMMA ElementKey ==
  ASSUME NEW e \in Elements, e.param
  PROVE  e.name \in Keys
<1>1. PICK n \in Nodes : Tree[n].kind = "binding" /\ e \in Range(Tree[n].pattern)
  BY DEF Elements
<1>2. PICK i \in DOMAIN Tree[n].pattern : e = Tree[n].pattern[i]
  BY <1>1 DEF Range
<1>3. i \in 1 .. Len(Tree[n].pattern)
  BY <1>1, <1>2, PatternFacts
<1> QED
  BY <1>1, <1>2, <1>3, PatternFacts

\* The names of a trail.
LEMMA NamesFacts ==
  ASSUME NEW S, NEW a \in Seq(S), NEW b \in Seq(S)
  PROVE  /\ \A i \in 1 .. Len(a) : a[i].param => a[i].name \in Names(a)
         /\ Names(a \o b) \subseteq Names(a) \cup Names(b)
<1>1. DOMAIN a = 1 .. Len(a) /\ DOMAIN b = 1 .. Len(b) /\ Len(a) \in Nat /\ Len(b) \in Nat
      /\ DOMAIN (a \o b) = 1 .. Len(a) + Len(b)
      /\ \A i \in 1 .. Len(a) : (a \o b)[i] = a[i]
      /\ \A j \in 1 .. Len(b) : (a \o b)[Len(a) + j] = b[j]
  OBVIOUS
<1>2. \A i \in 1 .. Len(a) : a[i].param => a[i].name \in Names(a)
  BY <1>1 DEF Names
<1>3. \A j \in 1 .. Len(b) : b[j].param => b[j].name \in Names(b)
  BY <1>1 DEF Names
<1>4. ASSUME NEW x \in Names(a \o b) PROVE x \in Names(a) \cup Names(b)
  <2>1. PICK i \in 1 .. Len(a) + Len(b) : (a \o b)[i].param /\ x = (a \o b)[i].name
    BY <1>1 DEF Names
  <2>2. CASE i <= Len(a)
    <3>1. i \in 1 .. Len(a) /\ (a \o b)[i] = a[i]
      BY <1>1, <2>2
    <3> QED
      BY <1>2, <2>1, <3>1
  <2>3. CASE ~(i <= Len(a))
    <3>1. PICK j \in 1 .. Len(b) : i = Len(a) + j
      <4>1. i - Len(a) \in 1 .. Len(b) /\ i = Len(a) + (i - Len(a))
        BY <1>1, <2>3
      <4> QED
        BY <4>1
    <3>2. (a \o b)[i] = b[j]
      BY <1>1, <3>1
    <3> QED
      BY <1>3, <2>1, <3>2
  <2> QED
    BY <2>2, <2>3
<1> QED
  BY <1>2, <1>4

\* A binding sets the parameters of its pattern, and no other.
LEMMA BoundFacts ==
  ASSUME NEW K, Distinct(K), NEW n \in Nodes, Tree[n].kind = "binding", NEW s
  PROVE  /\ \A k \in Keys \ Names(Tree[n].pattern) : Bound(Tree[n].pattern, s)[k] = params[k]
         /\ Captured(Tree[n].pattern, s, Cuts(Tree[n].pattern, s), Bound(Tree[n].pattern, s))
<1> DEFINE p == Tree[n].pattern
           here(k) == {i \in DOMAIN p : p[i].param /\ p[i].name = k}
<1>1. \A k \in Keys : Bound(p, s)[k] =
        IF here(k) = {} THEN params[k] ELSE Capture(p, s, Min(here(k)))
  BY DEF Bound
<1>2. p \in Seq(Elements) /\ DOMAIN p = 1 .. Len(p)
  BY PatternFacts
<1>3. ASSUME NEW k \in Keys \ Names(p) PROVE Bound(p, s)[k] = params[k]
  <2>1. here(k) = {}
    BY DEF Names
  <2> HIDE DEF here, p
  <2> QED
    BY <1>1, <2>1
<1>4. ASSUME NEW j \in 1 .. Len(p), p[j].param
      PROVE  Bound(p, s)[p[j].name] = SubSeq(s, Cuts(p, s)[j] + 1, Cuts(p, s)[j + 1])
  <2> DEFINE k == p[j].name
  <2>1. k \in Keys
    BY <1>4, PatternFacts
  <2>2. here(k) = {j}
    <3>1. j \in here(k)
      BY <1>2, <1>4
    <3>2. ASSUME NEW i \in here(k) PROVE i = j
      BY <1>2, <1>4 DEF Distinct
    <3> QED
      BY <3>1, <3>2
  <2>3. Min({j}) = j
    <3>1. {j} \in SUBSET Nat /\ {j} # {}
      BY <1>2
    <3>2. Min({j}) \in {j}
      BY <3>1, MinFacts
    <3> QED
      BY <3>2
  <2>4. Bound(p, s)[k] = Capture(p, s, j)
    <3> HIDE DEF here, k, p
    <3>1. here(k) # {} /\ Min(here(k)) = j
      BY <2>2, <2>3
    <3> QED
      BY <1>1, <2>1, <3>1
  <2> QED
    BY <2>4 DEF Capture
<1>5. Captured(p, s, Cuts(p, s), Bound(p, s))
  <2> HIDE DEF p
  <2> QED
    BY <1>4 DEF Captured
<1> QED
  BY <1>3, <1>5

\* A binding adds what it consumes.
LEMMA RebuiltBind ==
  ASSUME NEW K, Distinct(K), Framed, input \in Inputs, Rebuilt(K), Bind
  PROVE  Rebuilt(K)'
<1> DEFINE p == Tree[at].pattern
           s == Rest(Path, off)
           qs == Bound(p, s)
           o == off + MatchLen(p, s)
<1>1. /\ mode = "call" /\ live /\ at \in Nodes /\ Tree[at].kind = "binding" /\ StartsWith(p, s)
      /\ mode' = "call" /\ at' = Tree[at].next /\ params' = qs /\ off' = o
      /\ trail' = trail \o p /\ UNCHANGED <<input, live>>
  BY DEF Bind, Calling, CallNext, Fits, Framed, Shape
<1>2. /\ trail \in Seq(Elements) /\ off \in 0 .. Len(Path) /\ Names(trail) \cap K[at] = {}
      /\ \E c : Spells(Path, trail, params, off, c)
  BY <1>1 DEF Rebuilt, Spelt
<1>3. Path \in Seq(Range(Path)) /\ Len(Path) \in Nat
  BY PathFacts DEF Path
<1>4. p \in Seq(Elements) /\ Len(p) \in Nat
  BY <1>1, PatternFacts
<1>5. /\ Names(p) \subseteq K[at] /\ K[Tree[at].next] \subseteq K[at]
      /\ Names(p) \cap K[Tree[at].next] = {}
  BY <1>1 DEF Distinct
<1>6. /\ \A k \in Keys \ Names(p) : qs[k] = params[k]
      /\ Captured(p, s, Cuts(p, s), qs)
  BY <1>1, BoundFacts
<1>7. Laid(p, s, 1, 0, Cuts(p, s)) /\ MatchLen(p, s) \in 0 .. Len(s) /\ Len(s) = Len(Path) - off
  <2>1. Len(s) \in Nat /\ Len(s) = Len(Path) - off
    BY <1>2, <1>3, RestFacts
  <2>2. Lengths(p, s) \in SUBSET (0 .. Len(s)) /\ MatchLen(p, s) \in Lengths(p, s)
        /\ Laid(p, s, 1, 0, Cuts(p, s))
    BY <1>1, <1>4, <2>1, LongestPrefix
  <2> QED
    BY <2>1, <2>2
<1> HIDE DEF p, s, qs
<1>8. KeepsNames(trail, params, qs)
  <2>1. ASSUME NEW i \in 1 .. Len(trail), trail[i].param
        PROVE  trail[i].name \in Keys /\ trail[i].name \notin Names(p)
    <3>1. trail[i].name \in Names(trail)
      BY <1>2, <1>4, <2>1, NamesFacts
    <3>2. trail[i] \in Elements
      BY <1>2
    <3> QED
      BY <1>2, <1>5, <2>1, <3>1, <3>2, ElementKey
  <2> QED
    BY <1>6, <2>1 DEF KeepsNames
<1>9. o \in 0 .. Len(Path)
  BY <1>2, <1>3, <1>7
<1>10. \E e : Spells(Path, trail \o p, qs, o, e)
  <2>1. PICK c : Spells(Path, trail, params, off, c)
    BY <1>2
  <2>2. \E e : Spells(Path, trail \o p, qs, off + Cuts(p, s)[Len(p) + 1], e)
    BY <1>2, <1>3, <1>4, <1>6, <1>7, <1>8, <2>1, SpellsOn DEF s
  <2> QED
    BY <2>2 DEF MatchLen
<1>11. Names(trail \o p) \cap K[Tree[at].next] = {}
  <2>1. Names(trail \o p) \subseteq Names(trail) \cup Names(p)
    BY <1>2, <1>4, NamesFacts
  <2> QED
    BY <1>2, <1>5, <2>1
<1>12. trail' \in Seq(Elements)
  BY <1>1, <1>2, <1>4
<1>13. Path' = Path
  BY <1>1 DEF Path
<1>14. Spelt'
  <2> HIDE DEF o
  <2>1. Spells(Path', trail', params', off', CHOOSE e : Spells(Path, trail \o p, qs, o, e))
    BY <1>1, <1>10, <1>13
  <2> QED
    BY <2>1 DEF Spelt
<1> QED
  BY <1>1, <1>9, <1>11, <1>12, <1>13, <1>14 DEF Rebuilt

\* A group asks its routes on the request as it got it.
LEMMA RebuiltGroup ==
  ASSUME NEW K, Distinct(K), Framed, Rebuilt(K), CallGroup \/ Fold \/ GroupBack
  PROVE  Rebuilt(K)'
<1>1. UNCHANGED <<input, off, params, trail>>
  BY DEF CallGroup, Fold, FoldCall, FoldSkip, FoldEnd, GroupBack, request
<1>2. ASSUME live' => live, mode' = "call" /\ live' => Names(trail) \cap K[at'] = {},
             mode' = "fold" /\ Top'.live => live' /\ Names(trail) \cap K[Top'.node] = {}
      PROVE  Rebuilt(K)'
  <2>1. Path' = Path /\ (Spelt' <=> Spelt)
    BY <1>1 DEF Path, Spelt
  <2> QED
    BY <1>1, <1>2, <2>1 DEF Rebuilt
<1>3. CASE CallGroup
  <2> DEFINE f == [node |-> at, live |-> live, next |-> 1]
  <2>1. mode = "call" /\ mode' = "fold" /\ live' = live /\ stack' = Append(stack, f)
    BY <1>3 DEF CallGroup, Calling, request
  <2>2. f \in Frame /\ stack \in Seq(Frame) /\ f.node = at /\ f.live = live
    BY DEF Framed, Shape, Frame
  <2> HIDE DEF f
  <2>3. Top' = f
    BY <2>1, <2>2, PushFacts DEF Top
  <2> QED
    BY <1>2, <2>1, <2>2, <2>3 DEF Rebuilt
<1>4. CASE FoldCall \/ FoldSkip
  <2> DEFINE n == Top.node
             m == Tree[n].routes[Top.next]
  <2>1. /\ mode = "fold" /\ Top.next <= Len(Tree[n].routes)
        /\ n \in Nodes /\ Tree[n].kind = "group" /\ Top.next \in Nat \ {0}
        /\ Top.live \in BOOLEAN
        /\ Tried(Top, Top.live).node = n /\ Tried(Top, Top.live).live = Top.live
    <3>1. mode = "fold" /\ Top.next <= Len(Tree[n].routes)
      BY <1>4 DEF FoldCall, FoldSkip
    <3> QED
      BY <3>1, FoldFrame
  <2>2. Top.live => live /\ Names(trail) \cap K[n] = {}
    BY <2>1 DEF Rebuilt
  <2>3. CASE FoldCall
    <3>1. mode' = "call" /\ at' = m /\ live' = Top.live
      BY <2>3 DEF FoldCall
    <3>2. K[m] \subseteq K[n]
      <4>1. Tree[n].routes \in Seq(n + 1 .. Len(Tree))
        BY <2>1, ChildFacts
      <4>2. Top.next \in DOMAIN Tree[n].routes
        BY <2>1, <4>1
      <4> QED
        BY <2>1, <4>2 DEF Distinct
    <3> QED
      BY <1>2, <2>2, <3>1, <3>2
  <2>4. CASE FoldSkip
    <3>1. mode' = "fold" /\ live' = live
          /\ stack' = [stack EXCEPT ![Len(stack)] = Tried(@, Top.live)]
      BY <2>1, <2>4 DEF FoldSkip, request
    <3>2. Last(stack') = Tried(Top, Top.live)
      BY <2>1, <3>1, FoldFacts
    <3>3. Top'.node = n /\ Top'.live = Top.live
      BY <2>1, <3>2 DEF Top
    <3> QED
      BY <1>2, <2>2, <3>1, <3>3
  <2> QED
    BY <1>4, <2>3, <2>4
<1>5. CASE FoldEnd \/ GroupBack
  <2>1. live' = live /\ (mode' = "back" \/ (mode' = "fold" /\ Top' = Top /\ ~Top.live))
    BY <1>5, GroupFacts
  <2> QED
    BY <1>2, <2>1
<1> QED
  BY <1>3, <1>4, <1>5 DEF Fold

\* The other steps leave the request as it is, or it has been moved away.
LEMMA RebuiltRest ==
  ASSUME NEW last, NEW U, Entrances(U), NEW K, Distinct(K), Framed, Placed(last, U), Rebuilt(K),
         \/ AssertFails \/ BindGarbage \/ Observe \/ NotFound \/ ServerFault \/ ObjectBody
         \/ CookieParser \/ CallEndPoint \/ Handler \/ Write \/ FaultBack \/ Finish
         \/ PeerReset \/ UNCHANGED vars
  PROVE  Rebuilt(K)'
<1>1. UNCHANGED <<input, trail, live>>
  BY DEF AssertFails, BindGarbage, Observe, NotFound, ServerFault, ObjectBody, CookieParser,
     Running, Calling, CallEndPoint, Handler, HandlerSend, HandlerReturn, HandlerThrow, Write,
     WriteDone, WriteFail, FaultBack, Finish, PeerReset, request, vars
<1>2. ASSUME live => UNCHANGED <<off, params>>,
             mode' = "call" /\ live => Names(trail) \cap K[at'] = {},
             mode' = "fold" => mode = "fold" /\ stack' = stack
      PROVE  Rebuilt(K)'
  <2>1. Path' = Path /\ (live => (Spelt' <=> Spelt))
    BY <1>1, <1>2 DEF Path, Spelt
  <2>2. mode' = "fold" => mode = "fold" /\ Top' = Top
    BY <1>2 DEF Top
  <2> QED
    BY <1>1, <1>2, <2>1, <2>2 DEF Rebuilt
<1>3. CASE BindGarbage
  <2>1. mode = "call" /\ Tree[at].kind = "binding" /\ mode' \in {"back", "call"}
        /\ (live => ~Asserts /\ ~Fits(Tree[at]))
    BY <1>3 DEF BindGarbage, Calling, CallNext, GiveBack
  <2>2. ~live
    <3>1. SUFFICES ASSUME live PROVE FALSE
      OBVIOUS
    <3>2. CalledRight(last, U, input, at, off) /\ input \in Inputs
      BY <2>1, <3>1 DEF Placed
    <3> QED
      BY <2>1, <3>1, <3>2, BoundRight DEF Fits, Path
  <2> QED
    BY <1>2, <2>1, <2>2
<1>4. CASE Observe \/ NotFound \/ ServerFault \/ ObjectBody \/ CookieParser
  <2>1. /\ mode = "call" /\ Tree[at].kind = "middleware" /\ UNCHANGED <<off, params>>
        /\ \/ mode' \in {"sending", "back"}
           \/ mode' = "call" /\ at' = Tree[at].next
    BY <1>4 DEF Observe, NotFound, ServerFault, ObjectBody, CookieParser, Running, Calling,
       CallNext, Answer, GiveBack, request
  <2>2. K[Tree[at].next] \subseteq K[at]
    BY <2>1 DEF Distinct, Framed, Shape
  <2> QED
    BY <1>2, <2>1, <2>2 DEF Rebuilt
<1>5. CASE AssertFails \/ CallEndPoint \/ Handler \/ Write \/ FaultBack \/ Finish
  <2>1. UNCHANGED <<off, params>> /\ mode' \notin {"call", "fold"}
    BY <1>5 DEF AssertFails, CallEndPoint, Handler, HandlerSend, HandlerReturn, HandlerThrow,
       Answer, GiveBack, Write, WriteDone, WriteFail, FaultBack, Finish, request
  <2> QED
    BY <1>2, <2>1
<1>6. CASE PeerReset \/ UNCHANGED vars
  <2>1. UNCHANGED <<mode, at, off, params, stack>>
    BY <1>6 DEF PeerReset, request, vars
  <2> QED
    BY <1>2, <2>1 DEF Rebuilt
<1> QED
  BY <1>3, <1>4, <1>5, <1>6

\* A request that nobody has been called with spells nothing yet.
LEMMA RebuiltInit == ASSUME NEW K, Init PROVE Rebuilt(K)
<1>1. /\ mode = "call" /\ off = 0 /\ trail = <<>> /\ live = TRUE /\ input \in Inputs
  BY DEF Init
<1>2. Len(Path) \in Nat
  BY <1>1, PathFacts DEF Path
<1>3. Spells(Path, <<>>, params, 0, <<0>>)
  BY <1>2 DEF Spells
<1>4. Names(<<>>) = {}
  BY DEF Names
<1> QED
  BY <1>1, <1>2, <1>3, <1>4 DEF Rebuilt, Spelt

\* What is known of a live request and of its parameters.
Spelling(last, U, K) == Framed /\ Placed(last, U) /\ Rebuilt(K)

\* It always holds.
LEMMA SpellingAlways ==
  ASSUME NEW last, NEW U, Entrances(U), NEW K, Distinct(K)
  PROVE  Spec => []Spelling(last, U, K)
<1>1. Init => Rebuilt(K)
  BY RebuiltInit
<1>2. Framed /\ Placed(last, U) /\ Rebuilt(K) /\ [Next]_vars => Rebuilt(K)'
  <2> SUFFICES ASSUME Framed, Placed(last, U), Rebuilt(K), [Next]_vars PROVE Rebuilt(K)'
    OBVIOUS
  <2>1. input \in Inputs
    BY DEF Placed
  <2> QED
    BY <2>1, RebuiltBind, RebuiltGroup, RebuiltRest DEF Next, Serve, Call, Back
<1>3. Framed /\ Placed(last, U) /\ Rebuilt(K) <=> Spelling(last, U, K)
  BY DEF Spelling
<1> QED
  BY <1>1, <1>2, <1>3, PlacedAlways, PTL DEF Spec

\* With no key twice on one way through the tree, and behind entrances that make
\* sure of match(), the parameters and the literals on the way to the handler put
\* together are the path, and no parameter is empty (binding::operator(), the
\* captures of starts_with, request::with_params).
THEOREM ParamsAreThePath ==
  ASSUME NEW U, Entrances(U), NEW K, Distinct(K)
  PROVE  Spec => []ParamsRebuildPath
<1>1. PICK last : last = [n \in Nodes |-> n]
  OBVIOUS
<1>2. Spelling(last, U, K) => ParamsRebuildPath
  <2> SUFFICES ASSUME Placed(last, U), Rebuilt(K), Handling
               PROVE  ParamsRebuildPath
    BY DEF Spelling, ParamsRebuildPath
  <2>1. HandlesRight(last, input, at, off) /\ input \in Inputs /\ live
    BY DEF Placed, Handling
  <2>2. Path \in Seq(Range(Path)) /\ Len(Path) \in Nat
    BY <2>1, PathFacts DEF Path
  <2>3. off = Len(Path)
    BY <2>1, <2>2, MatchFacts DEF HandlesRight, OnTheWay, MatchAt, Path
  <2>4. trail \in Seq(Elements) /\ \E c : Spells(Path, trail, params, Len(Path), c)
    BY <2>1, <2>3 DEF Rebuilt, Spelt
  <2>5. PICK c : Spells(Path, trail, params, Len(Path), c)
    BY <2>4
  <2>6. PICK text : text = [i \in 1 .. Len(trail) |->
                              IF trail[i].param THEN params[trail[i].name] ELSE <<trail[i].name>>]
    OBVIOUS
  <2>7. FlattenSeq(text) = Path /\ \A i \in 1 .. Len(text) : text[i] # <<>>
    BY <2>2, <2>4, <2>5, <2>6, SpeltOut
  <2> QED
    BY <2>6, <2>7 DEF ParamsRebuildPath
<1> QED
  BY <1>2, SpellingAlways, PTL

=============================================================================
