------------------------------- MODULE Regex -------------------------------
(***************************************************************************)
(* The matching engine of the vendored ctre, for the nodes that the        *)
(* expressions of v60 are made of.  A text is a sequence of character      *)
(* codes, a position the number of characters before it.                   *)
(*                                                                         *)
(* evaluate() is overloaded on the head of a stack of nodes and marks: Eval *)
(* has one disjunct of its CASE for each overload.  A greedy repeat becomes *)
(* a possessive one, which never gives a character back, when the          *)
(* characters its content can start with and those that can follow it do   *)
(* not collide; what can follow is found by first() and compared as sets of *)
(* intervals.                                                              *)
(***************************************************************************)
EXTENDS RegexNodes, FiniteSetsExt, SequencesExt

-----------------------------------------------------------------------------
(* What a stack of nodes can start with: a sequence of classes, "any" for    *)
(* can_be_anything.                                                          *)

RECURSIVE First(_, _)
First(l, stack) ==
  IF stack = <<>> THEN l
  ELSE LET head == Head(stack)
           rest == Tail(stack)
       IN  CASE head.op \in {"accept", "end_mark", "end_cycle_mark", "assert_subject_end"} -> l
             [] head.op = "numeric_mark" -> First(l, rest)
             [] head.op \in {"sequence", "capture"} -> First(l, head.content \o rest)
             [] head.op \in {"repeat", "possessive"} ->
                  First(IF head.least = 0 THEN First(l, rest) ELSE l, head.content \o rest)
             [] head.op = "select" ->
                  IF head.options = <<>> THEN l
                  ELSE First(First(l, <<Head(head.options)>> \o rest),
                             <<Select(Tail(head.options))>> \o rest)
             [] head.op = "string" -> Append(l, Character(Head(head.text)))
             [] head.op = "class" -> Append(l, head)
             [] head.op = "any" -> <<head>>

\* negative_helper: the gaps between the items, taken in the order they are
\* written in; out of order it leaves larger gaps than there are.
Gap(done, item) ==
  [start |-> item[2] + 1,
   gaps  |-> IF done.start < item[1] THEN Append(done.gaps, <<done.start, item[1] - 1>>)
             ELSE done.gaps]

Gaps(items) == FoldLeft(Gap, [start |-> Lowest, gaps |-> <<>>], items)

Complement(items) ==
  LET all == Gaps(items)
  IN  IF all.start < Highest THEN Append(all.gaps, <<all.start, Highest>>) ELSE all.gaps

\* The intervals that populate() inserts for a class, and that check() asks for.
Intervals(class) ==
  IF class.op = "any" THEN <<<<Lowest, Highest>>>>
  ELSE IF class.negative THEN Complement(class.items)
  ELSE class.items

Overlap(r, q) == \/ r[1] <= q[1] /\ q[1] <= r[2]
                 \/ r[1] <= q[2] /\ q[2] <= r[2]
                 \/ q[1] <= r[1] /\ r[1] <= q[2]
                 \/ q[1] <= r[2] /\ r[2] <= q[2]

\* Whether a character that class k can match may start what class f begins.
Meets(k, f) ==
  \E m \in DOMAIN Intervals(k) :
    f.op = "any" \/ \E n \in DOMAIN Intervals(f) : Overlap(Intervals(k)[m], Intervals(f)[n])

Collides_FirstOnly(content, tail) == content # <<>> /\ tail # <<>> /\ Meets(content[1], tail[1])
Collides(content, tail) == \E i \in DOMAIN content, j \in DOMAIN tail : Meets(content[i], tail[j])

-----------------------------------------------------------------------------
(* evaluate().                                                               *)

StartGroup(r, id, p) == [r EXCEPT !.groups = (id :> <<p, Group(r, id)[2]>>) @@ @]
EndGroup(r, id, p)   == [r EXCEPT !.groups = (id :> <<Group(r, id)[1], p>>) @@ @]

StartsAt(text, s, p) ==
  /\ p + Len(text) <= Len(s)
  /\ \A i \in DOMAIN text : s[p + i] = text[i]

\* block is flags::block_empty_match.
RECURSIVE Eval(_, _, _, _, _)

\* One round of a repeat's content.
Inner(s, p, r, rep) == Eval(s, p, TRUE, r, rep.content \o <<Mark("end_cycle_mark")>>)
Rounds(rep, i) == rep.most = 0 \/ i < rep.most

RECURSIVE EvalPossessive(_, _, _, _, _, _, _)
EvalPossessive(s, p, began, block, r, stack, i) ==
  LET rep   == Head(stack)
      inner == Inner(s, p, r, rep)
  IN  IF Rounds(rep, i) /\ inner.matched
      THEN EvalPossessive(s, inner.to, began, block, [inner EXCEPT !.matched = FALSE], stack, i + 1)
      ELSE IF Rounds(rep, i) /\ i < rep.least THEN NoResult
      ELSE Eval(s, p, block /\ p = began, r, Tail(stack))

RECURSIVE EvalRecursive(_, _, _, _, _)
EvalRecursive_NoRetry(s, p, r, stack, i) ==
  LET inner == Inner(s, p, r, Head(stack))
  IN  IF Rounds(Head(stack), i) /\ inner.matched
      THEN EvalRecursive(s, inner.to, [inner EXCEPT !.matched = FALSE], stack, i + 1)
      ELSE Eval(s, p, FALSE, r, Tail(stack))

EvalRecursive_Lazy(s, p, r, stack, i) ==
  LET inner == Inner(s, p, r, Head(stack))
      over  == Eval(s, p, FALSE, r, Tail(stack))
  IN  IF ~over.matched /\ Rounds(Head(stack), i) /\ inner.matched
      THEN EvalRecursive(s, inner.to, [inner EXCEPT !.matched = FALSE], stack, i + 1)
      ELSE over

EvalRecursive(s, p, r, stack, i) ==
  LET rep    == Head(stack)
      inner  == Inner(s, p, r, rep)
      deeper == EvalRecursive(s, inner.to, [inner EXCEPT !.matched = FALSE], stack, i + 1)
  IN  IF Rounds(rep, i) /\ inner.matched /\ deeper.matched THEN deeper
      ELSE Eval(s, p, FALSE, r, Tail(stack))

\* The rounds a greedy repeat must do before it may stop.
RECURSIVE EvalGreedy(_, _, _, _, _)
EvalGreedy(s, p, r, stack, i) ==
  LET inner == Inner(s, p, r, Head(stack))
  IN  IF i < Head(stack).least
      THEN IF inner.matched
           THEN EvalGreedy(s, inner.to, [inner EXCEPT !.matched = FALSE], stack, i + 1)
           ELSE NoResult
      ELSE EvalRecursive(s, p, r, stack, i)

Eval(s, p, block, r, stack) ==
  LET head == Head(stack)
      rest == Tail(stack)
      One  == Eval(s, p + 1, FALSE, r, rest)
  IN  CASE head.op = "accept" -> [r EXCEPT !.matched = TRUE]
        [] head.op = "start_mark" -> Eval(s, p, block, [r EXCEPT !.from = p], rest)
        [] head.op = "end_mark" -> Eval(s, p, block, [r EXCEPT !.to = p], rest)
        [] head.op = "end_cycle_mark" ->
             IF block THEN NoResult ELSE [r EXCEPT !.to = p, !.matched = TRUE]
        [] head.op = "assert_subject_end" ->
             IF p = Len(s) THEN Eval(s, p, block, r, rest) ELSE NoResult
        [] head.op = "class" ->
             IF p < Len(s) /\ MatchChar(head, s[p + 1]) THEN One ELSE NoResult
        [] head.op = "any" -> IF p < Len(s) THEN One ELSE NoResult
        [] head.op = "string" ->
             IF StartsAt(head.text, s, p)
             THEN Eval(s, p + Len(head.text), block /\ head.text = <<>>, r, rest) ELSE NoResult
        [] head.op = "select" ->
             IF head.options = <<>> THEN NoResult
             ELSE LET first == Eval(s, p, block, r, <<Head(head.options)>> \o rest)
                  IN  IF first.matched THEN first
                      ELSE Eval(s, p, block, r, <<Select(Tail(head.options))>> \o rest)
        [] head.op = "sequence" -> Eval(s, p, block, r, head.content \o rest)
        [] head.op = "capture" ->
             Eval(s, p, block, StartGroup(r, head.id, p),
                  head.content \o <<NumericMark(head.id)>> \o rest)
        [] head.op = "numeric_mark" -> Eval(s, p, block, EndGroup(r, head.id, p), rest)
        [] head.op = "possessive" -> EvalPossessive(s, p, p, block, r, stack, 0)
        [] head.op = "repeat" ->
             IF ~Collides(First(<<>>, head.content), First(<<>>, rest))
             THEN EvalPossessive(s, p, p, block, r, stack, 0)
             ELSE EvalGreedy(s, p, r, stack, 0)

-----------------------------------------------------------------------------
(* The methods.                                                              *)

ExecAt(re, s, p, marks) ==
  Eval(s, p, FALSE, NoResult, <<Mark("start_mark"), re>> \o marks \o <<Mark("end_mark"), Mark("accept")>>)

StartsWith(re, s) == ExecAt(re, s, 0, <<>>)
Matches(re, s)    == ExecAt(re, s, 0, <<Mark("assert_subject_end")>>)

\* From the first of the positions where one matches.
SearchAmong(re, s, positions) ==
  LET hits == {q \in positions : ExecAt(re, s, q, <<>>).matched}
  IN  IF hits = {} THEN NoResult ELSE ExecAt(re, s, Min(hits), <<>>)

Search(re, s, p) == SearchAmong(re, s, p .. Len(s))

=============================================================================
