----------------------------- MODULE MetaLists -----------------------------
(***************************************************************************)
(* The compile-time lists of v60::meta.  An element has a key, by which    *)
(* the comparators order it, and may differ from another with the same     *)
(* key; keys are numbers in the order of their texts.                      *)
(***************************************************************************)
EXTENDS Naturals, Sequences, FiniteSetsExt

Less(x, y) == x.key < y.key
Eq(x, y)   == ~Less(x, y) /\ ~Less(y, x)

Take(n, l)  == SubSeq(l, 1, n)
TakeRest(n, l) == SubSeq(l, n + 1, Len(l))

\* Where two lists are walked side by side.
Heads(a, b) == (1 .. Len(a) + 1) \X (1 .. Len(b) + 1)

Merge_LeftFirst(a, b) ==
  LET merge[p \in Heads(a, b)] ==
        IF p[1] > Len(a) THEN TakeRest(p[2] - 1, b)
        ELSE IF p[2] > Len(b) THEN TakeRest(p[1] - 1, a)
        ELSE IF ~Less(b[p[2]], a[p[1]]) THEN <<a[p[1]]>> \o merge[<<p[1] + 1, p[2]>>]
        ELSE <<b[p[2]]>> \o merge[<<p[1], p[2] + 1>>]
  IN  merge[<<1, 1>>]

\* Of two heads that are equal, b's goes first.
Merge(a, b) ==
  LET merge[p \in Heads(a, b)] ==
        IF p[1] > Len(a) THEN TakeRest(p[2] - 1, b)
        ELSE IF p[2] > Len(b) THEN TakeRest(p[1] - 1, a)
        ELSE IF Less(a[p[1]], b[p[2]]) THEN <<a[p[1]]>> \o merge[<<p[1] + 1, p[2]>>]
        ELSE <<b[p[2]]>> \o merge[<<p[1], p[2] + 1>>]
  IN  merge[<<1, 1>>]

\* sort_list: the two halves are sorted and merged; two elements are swapped
\* unless the first one is less.
Spans(l) == {p \in (1 .. Len(l) + 1) \X (0 .. Len(l)) : p[1] + p[2] <= Len(l) + 1}
SortList(l) ==
  LET sort[p \in Spans(l)] ==   \* so many elements from there on
        LET from == p[1]
            n    == p[2]
        IN  IF n <= 1 THEN SubSeq(l, from, from + n - 1)
            ELSE IF n = 2 THEN IF Less(l[from], l[from + 1]) THEN <<l[from], l[from + 1]>>
                                                             ELSE <<l[from + 1], l[from]>>
            ELSE Merge(sort[<<from, n \div 2>>], sort[<<from + n \div 2, n - n \div 2>>])
  IN  sort[<<1, Len(l)>>]

\* union_, intersection and difference walk two sorted lists alike: of heads
\* that are equal the first is kept or both are dropped, otherwise the smaller
\* one is kept or dropped.
Keep(x, kept) == IF kept THEN <<x>> ELSE <<>>
Walk(a, b, equal, odd) ==
  LET walk[p \in Heads(a, b)] ==
        IF p[1] > Len(a) THEN IF odd THEN TakeRest(p[2] - 1, b) ELSE <<>>
        ELSE IF p[2] > Len(b) THEN IF odd THEN TakeRest(p[1] - 1, a) ELSE <<>>
        ELSE IF Eq(a[p[1]], b[p[2]])
        THEN Keep(a[p[1]], equal) \o walk[<<p[1] + 1, p[2] + 1>>]
        ELSE IF Less(a[p[1]], b[p[2]]) THEN Keep(a[p[1]], odd) \o walk[<<p[1] + 1, p[2]>>]
        ELSE Keep(b[p[2]], odd) \o walk[<<p[1], p[2] + 1>>]
  IN  walk[<<1, 1>>]

Union(a, b) == Walk(a, b, TRUE, TRUE)
Intersection(a, b) == Walk(a, b, TRUE, FALSE)
Difference_OneSided(a, b) == SelectSeq(a, LAMBDA x : \A i \in DOMAIN b : ~Eq(x, b[i]))
Difference(a, b) == Walk(a, b, FALSE, TRUE)

\* index_of: the first element with the key, or 0 (-1 there).
IndexOf(key, l) ==
  LET at == {i \in DOMAIN l : l[i].key = key} IN IF at = {} THEN 0 ELSE Min(at)

=============================================================================
