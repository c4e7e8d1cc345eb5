--------------------------- MODULE RegexReference ---------------------------
(* What an expression means, apart from how ctre finds it: the language of a *)
(* node, and all the ways to lay a sequence of nodes over a subject from a   *)
(* position, as the positions they end at.  Only properties use this module. *)
EXTENDS Regex

RECURSIVE In(_, _)
In(w, e) ==
  CASE e.op = "class"   -> Len(w) = 1 /\ MatchChar(e, w[1])
    [] e.op = "any"     -> Len(w) = 1
    [] e.op = "string"  -> w = e.text
    [] e.op = "select"  -> \E i \in DOMAIN e.options : In(w, e.options[i])
    [] e.op = "capture" -> In(w, e.content[1])
    [] e.op = "repeat"  ->
         \/ w = <<>> /\ e.least = 0
         \/ \E n \in 1 .. Len(w) :
              LET k == Len(w) \div n IN
              /\ k * n = Len(w) /\ k >= e.least /\ (e.most = 0 \/ k <= e.most)
              /\ \A j \in 0 .. k - 1 : In(SubSeq(w, j * n + 1, j * n + n), e.content[1])

Layouts(es, s, p) ==
  LET lay[i \in 0 .. Len(es)] ==
        IF i = 0 THEN {<<p>>}
        ELSE UNION {{Append(c, q) : q \in {x \in c[i] .. Len(s) : In(SubSeq(s, c[i] + 1, x), es[i])}}
                      : c \in lay[i - 1]}
  IN  lay[Len(es)]

\* Each node takes as much as the ones before it and the match as a whole allow.
Greediest(layouts) ==
  CHOOSE c \in layouts : \A d \in layouts :
    d = c \/ \E i \in DOMAIN c : d[i] < c[i] /\ \A j \in 1 .. i - 1 : d[j] = c[j]

\* The result that a layout stands for.
Shows(result, es, c) ==
  /\ result.matched /\ result.from = c[1] /\ result.to = c[Len(es) + 1]
  /\ \A i \in DOMAIN es : es[i].op = "capture" => Group(result, es[i].id) = <<c[i], c[i + 1]>>

Agrees(result, es, layouts) ==
  IF layouts = {} THEN ~result.matched ELSE Shows(result, es, Greediest(layouts))
=============================================================================
