-------------------------- MODULE HttpConnection --------------------------
(***************************************************************************)
(* What a persistent HTTP connection promises its client, whatever the     *)
(* server does inside: responses come back in the order of the requests,   *)
(* one each, and none follows a response that announced the end of the     *)
(* connection.  The server may give up on a connection at any time.        *)
(***************************************************************************)
EXTENDS Naturals, Sequences

CONSTANTS Conns, Requests

VARIABLES
  asked,     \* requests the client has sent
  answers,   \* responses it has been sent: whose, and whether they announce close
  open       \* the server may still answer

vars == <<asked, answers, open>>

Init ==
  /\ asked   = [c \in Conns |-> <<>>]
  /\ answers = [c \in Conns |-> <<>>]
  /\ open    = [c \in Conns |-> TRUE]

Ask(c) ==
  /\ \E r \in Requests : asked' = [asked EXCEPT ![c] = Append(@, r)]
  /\ UNCHANGED <<answers, open>>

\* The next answer is for the first request that has none; if it announces
\* the close it is the last one.
Answer(c) ==
  /\ open[c]
  /\ Len(answers[c]) < Len(asked[c])
  /\ \E last \in BOOLEAN :
       /\ answers' = [answers EXCEPT ![c] =
                        Append(@, [req |-> Len(@) + 1, last |-> last])]
       /\ open' = [open EXCEPT ![c] = ~last]
  /\ UNCHANGED asked

GiveUp(c) ==
  /\ open' = [open EXCEPT ![c] = FALSE]
  /\ UNCHANGED <<asked, answers>>

Next == \E c \in Conns : Ask(c) \/ Answer(c) \/ GiveUp(c)

Spec == Init /\ [][Next]_vars

=============================================================================
