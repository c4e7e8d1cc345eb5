---------------------------- MODULE ServerProofs ----------------------------
(***************************************************************************)
(* Proofs about Server, for any number of connections, threads, calls of   *)
(* listen() and descriptors.                                               *)
(***************************************************************************)
EXTENDS Server, TLAPS

-----------------------------------------------------------------------------
(* Sequences.                                                              *)

Distinct(s) == \A i, j \in 1 .. Len(s) : s[i] = s[j] => i = j

\* Appending a new element.
LEMMA AppendFacts ==
  ASSUME NEW S, NEW s \in Seq(S), NEW e \in S,
         Distinct(s), \A i \in 1 .. Len(s) : s[i] # e
  PROVE  /\ Append(s, e) \in Seq(S)
         /\ Distinct(Append(s, e))
         /\ \A i \in 1 .. Len(Append(s, e)) :
              Append(s, e)[i] = e \/ \E j \in 1 .. Len(s) : Append(s, e)[i] = s[j]
         /\ \A i \in 1 .. Len(s) : \E j \in 1 .. Len(Append(s, e)) : Append(s, e)[j] = s[i]
         /\ \E j \in 1 .. Len(Append(s, e)) : Append(s, e)[j] = e
<1>1. /\ Append(s, e) \in Seq(S) /\ Len(s) \in Nat
      /\ Len(Append(s, e)) = Len(s) + 1
      /\ \A i \in 1 .. Len(s) : Append(s, e)[i] = s[i]
      /\ Append(s, e)[Len(s) + 1] = e
  OBVIOUS
<1>2. \A i \in 1 .. Len(Append(s, e)) : i \in 1 .. Len(s) \/ i = Len(s) + 1
  BY <1>1
<1>3. /\ Len(s) + 1 \in 1 .. Len(Append(s, e))
      /\ \A i \in 1 .. Len(s) : i \in 1 .. Len(Append(s, e))
  BY <1>1
<1> QED
  BY <1>1, <1>2, <1>3 DEF Distinct

\* Taking the first element away.
LEMMA TailFacts ==
  ASSUME NEW S, NEW s \in Seq(S), s # <<>>, Distinct(s)
  PROVE  /\ Head(s) \in S /\ Tail(s) \in Seq(S)
         /\ \E j \in 1 .. Len(s) : Head(s) = s[j]
         /\ Distinct(Tail(s))
         /\ \A i \in 1 .. Len(Tail(s)) :
              Tail(s)[i] # Head(s) /\ \E j \in 1 .. Len(s) : Tail(s)[i] = s[j]
         /\ \A i \in 1 .. Len(s) :
              s[i] = Head(s) \/ \E j \in 1 .. Len(Tail(s)) : Tail(s)[j] = s[i]
<1>1. /\ Len(s) \in Nat \ {0} /\ Head(s) = s[1] /\ Head(s) \in S
      /\ Tail(s) \in Seq(S) /\ Len(Tail(s)) = Len(s) - 1
      /\ \A i \in 1 .. Len(s) - 1 : Tail(s)[i] = s[i + 1]
  OBVIOUS
<1>2. \A i \in 1 .. Len(Tail(s)) : i + 1 \in 1 .. Len(s) /\ i + 1 # 1 /\ Tail(s)[i] = s[i + 1]
  BY <1>1
<1>3. 1 \in 1 .. Len(s)
  BY <1>1
<1>4. Distinct(Tail(s))
  BY <1>1, <1>2 DEF Distinct
<1>5. \A i \in 1 .. Len(s) : i = 1 \/ (i - 1 \in 1 .. Len(Tail(s)) /\ Tail(s)[i - 1] = s[i])
  BY <1>1
<1>6. \A i \in 1 .. Len(Tail(s)) : Tail(s)[i] # Head(s)
  BY <1>1, <1>2, <1>3 DEF Distinct
<1> QED
  BY <1>1, <1>2, <1>3, <1>4, <1>5, <1>6

-----------------------------------------------------------------------------
(* The invariant.                                                          *)

\* A coroutine is in the queue once, on one thread, or neither.
Queued ==
  /\ Distinct(queue)
  /\ \A i \in 1 .. Len(queue) : co[queue[i]] = "queued"

\* A thread is in a coroutine that runs, and no other thread is.
Threaded ==
  /\ \A t \in Threads : at[t] \in Coroutines => co[at[t]] = "running"
  /\ OneThreadPerCoroutine

\* Connections before they have a session: with the kernel, in the backlog of one
\* listener, or taken by the accept of one listener that has completed.
Waiting ==
  /\ \A l, m \in Calls : \A i \in 1 .. Len(backlog[l]), j \in 1 .. Len(backlog[m]) :
       backlog[l][i] = backlog[m][j] => l = m /\ i = j
  /\ \A l \in Calls : \A i \in 1 .. Len(backlog[l]) : co[backlog[l][i]] = "backlog"
  /\ \A c \in Conns : co[c] = "backlog" =>
       \E l \in Calls : \E i \in 1 .. Len(backlog[l]) : backlog[l][i] = c
  /\ \A l \in Calls : taken[l] \in Conns => co[taken[l]] = "accepted"
  /\ \A l, m \in Calls : taken[l] \in Conns /\ taken[l] = taken[m] => l = m
  /\ \A c \in Conns : co[c] = "accepted" => \E l \in Calls : taken[l] = c

\* They are with a listener only while its acceptor is open.
Listening ==
  \A l \in Calls :
    /\ backlog[l] # <<>> => l \in acceptor
    /\ taken[l] # Nothing => l \in acceptor
    /\ l \in acceptor => co[l] \in {"queued", "pending", "running"}
    /\ co[l] = "pending" => taken[l] = Nothing /\ l \in acceptor

\* At most one call is under way; a call that was not made has no listener.
Once ==
  /\ \A l \in Calls : calls[l] = "none" => co[l] = "absent"
  /\ \A l, m \in Calls : calls[l] = "made" /\ calls[m] = "made" => l = m
  /\ caller = "outside" => \A l \in Calls : calls[l] # "made"
  /\ ~stopped => \A l \in Calls : calls[l] # "returned"
  /\ \A l, m \in Calls :
       l # m /\ Ran(l) /\ Ran(m) => calls[l] = "thrown" \/ calls[m] = "thrown"

\* Nothing is under way: whatever coroutine is left is a listener in the queue.
Drained ==
  /\ \A k \in Coroutines : co[k] \notin {"pending", "running"}
  /\ \A c \in Conns : co[c] \notin {"queued", "backlog", "accepted"}
  /\ acceptor = {}

\* No thread of the server is in run().
Idle == \A t \in Threads : at[t] \in {"unborn", "left"}

\* An io_context that has stopped has nothing left that could run, and neither
\* has one that no thread is in.
Stopping ==
  /\ stopped \/ Idle => Drained
  /\ \A t \in Threads : at[t] = "left" => stopped
  /\ caller = "outside" => Idle
  /\ caller = "spawning" => at[Main] = "unborn"

Inv == TypeOK /\ Queued /\ Threaded /\ Waiting /\ Listening /\ Once /\ Stopping

-----------------------------------------------------------------------------

\* What the assumptions say about names.
LEMMA Kinds ==
  /\ \A c \in Conns, l \in Calls : c # l
  /\ \A k \in Coroutines : k # "unborn" /\ k # "free" /\ k # "left"
  /\ Nothing \notin Conns /\ Error \notin Conns /\ Nothing # Error
  /\ Threads = Workers \cup {Main} /\ Main \notin Workers /\ Conns \subseteq Coroutines /\ Calls \subseteq Coroutines
  BY ConnsAssumption, NamesAssumption, ThreadsAssumption DEF Coroutines, Threads, Nothing, Error

\* Nothing has been started.
LEMMA InvInit == Init => Inv
<1> SUFFICES ASSUME Init PROVE Inv
  OBVIOUS
<1> USE Kinds DEF Init
<1>1. TypeOK
  <2>1. at \in [Threads -> {"unborn", "free", "left"} \cup Coroutines]
    OBVIOUS
  <2>2. co \in [Coroutines -> Stages]
    BY DEF Stages
  <2>3. queue \in Seq(Coroutines) /\ backlog \in [Calls -> Seq(Conns)]
    OBVIOUS
  <2> QED
    BY <2>1, <2>2, <2>3 DEF TypeOK
<1>2. Queued
  BY DEF Queued, Distinct
<1>3. Threaded
  BY DEF Threaded, OneThreadPerCoroutine
<1>4. Waiting /\ Listening
  BY DEF Waiting, Listening
<1>5. Once /\ Stopping
  BY DEF Once, Ran, Stopping, Idle, Drained
<1> QED
  BY <1>1, <1>2, <1>3, <1>4, <1>5 DEF Inv

\* A call of listen().
LEMMA ListenStep ==
  ASSUME Inv, NEW l \in Calls, Listen(l)
  PROVE  Inv'
<1> USE Kinds
<1>1. l \in Coroutines /\ \A i \in 1 .. Len(queue) : queue[i] # l
  BY DEF Inv, TypeOK, Queued, Once, Listen
<1>2. /\ Append(queue, l) \in Seq(Coroutines)
      /\ Distinct(Append(queue, l))
      /\ \A i \in 1 .. Len(Append(queue, l)) :
           Append(queue, l)[i] = l \/ \E j \in 1 .. Len(queue) : Append(queue, l)[i] = queue[j]
  BY <1>1, AppendFacts DEF Inv, TypeOK, Queued
<1>3. TypeOK'
  BY <1>2 DEF Inv, TypeOK, Stages, Listen
<1>4. Queued'
  BY <1>2 DEF Inv, TypeOK, Listen, Queued
<1>5. Threaded'
  BY DEF Inv, Listen, Threaded, OneThreadPerCoroutine
<1>6. Waiting'
  BY DEF Inv, TypeOK, Listen, Waiting, Once
<1>7. Drained /\ Drained'
  BY DEF Inv, TypeOK, Listen, Stopping, Drained
<1>8. Listening'
  BY <1>7 DEF Inv, Listen, Listening, Drained
<1>9. Once'
  BY <1>7 DEF Inv, TypeOK, Listen, Once, Ran, Drained
<1>10. Stopping'
  BY <1>7 DEF Inv, Listen, Stopping
<1> QED
  BY <1>3, <1>4, <1>5, <1>6, <1>8, <1>9, <1>10 DEF Inv

\* The thread that calls listen() goes on, or the process ends.
LEMMA CallerStep ==
  ASSUME Inv, StartWorkerFails \/ RunCaller \/ \E w \in Workers : StartWorker(w)
  PROVE  Inv'
<1> USE Kinds
<1>1. /\ UNCHANGED <<calls, co, queue, stopped, acceptor, backlog, taken>>
      /\ caller' # "outside"
  BY DEF StartWorkerFails, RunCaller, StartWorker, socket
<1>2. TypeOK'
  BY DEF Inv, TypeOK, StartWorkerFails, RunCaller, StartWorker, socket
<1>3. Queued'
  BY <1>1 DEF Inv, Queued
<1>4. Threaded'
  <2>1. \A t \in Threads : at'[t] = at[t] \/ at'[t] = "free"
    BY DEF Inv, TypeOK, StartWorkerFails, RunCaller, StartWorker
  <2>2. \A t \in Threads : at'[t] \in Coroutines => at'[t] = at[t]
    BY <2>1
  <2> QED
    BY <1>1, <2>2 DEF Inv, Threaded, OneThreadPerCoroutine
<1>5. Waiting'
  BY <1>1 DEF Inv, Waiting
<1>6. Listening'
  BY <1>1 DEF Inv, Listening
<1>7. Once'
  BY <1>1 DEF Inv, Once, Ran
<1>8. Drained' <=> Drained
  BY <1>1 DEF Drained
<1>9. Stopping'
  BY <1>8 DEF Inv, TypeOK, StartWorkerFails, RunCaller, StartWorker, socket, Stopping, Idle
<1> QED
  BY <1>2, <1>3, <1>4, <1>5, <1>6, <1>7, <1>9 DEF Inv

\* A call of listen() is over: it returns, or its first thread does not start.
LEMMA SettleStep ==
  ASSUME Inv, Return \/ ListenThrows
  PROVE  Inv'
<1> USE Kinds
<1>1. /\ UNCHANGED <<at, co, queue, stopped, acceptor, backlog, taken>>
      /\ caller' = "outside"
  BY DEF Return, ListenThrows, socket
<1>2. PICK how \in {"returned", "thrown"} :
        /\ calls' = [l \in Calls |-> IF calls[l] = "made" THEN how ELSE calls[l]]
        /\ how = "returned" => \A t \in Threads : at[t] = "left"
  BY DEF Return, ListenThrows, Settle
<1>3. TypeOK'
  BY <1>1, <1>2 DEF Inv, TypeOK
<1>4. Queued' /\ Threaded' /\ Waiting' /\ Listening'
  BY <1>1 DEF Inv, Queued, Threaded, OneThreadPerCoroutine, Waiting, Listening
<1>5. how = "returned" => stopped
  BY <1>2 DEF Inv, Stopping
<1>6. Once'
  BY <1>1, <1>2, <1>5 DEF Inv, TypeOK, Once, Ran
<1>7. Idle
  BY <1>1 DEF Inv, Return, ListenThrows, Stopping, Idle
<1>8. Stopping'
  BY <1>1, <1>7 DEF Inv, Stopping, Idle, Drained
<1> QED
  BY <1>3, <1>4, <1>6, <1>8 DEF Inv

\* A coroutine runs only while the io_context has not stopped and a thread is in
\* run().
LEMMA RunningFacts ==
  ASSUME Inv, NEW t \in Threads, NEW k \in Coroutines, Running(t, k)
  PROVE  /\ ~stopped /\ ~Idle /\ caller # "outside"
         /\ \A l \in Calls : calls[l] # "returned"
         /\ \A s \in Threads : at[s] # "left"
         /\ \A s \in Threads : s # t => at[s] # k
         /\ caller = "spawning" => t # Main
  BY Kinds DEF Inv, TypeOK, Running, Threaded, OneThreadPerCoroutine, Stopping, Idle, Drained, Once

\* A thread that has left a coroutine is in run() and free.
LEMMA FreeIsBusy ==
  ASSUME NEW t \in Threads, at \in [Threads -> {"unborn", "free", "left"} \cup Coroutines],
         at' = [at EXCEPT ![t] = "free"]
  PROVE  ~Idle'
  BY DEF Idle

\* What a thread does that leaves a coroutine waiting disturbs no rest.
LEMMA PauseStops ==
  ASSUME Inv, NEW t \in Threads, NEW k \in Coroutines, Running(t, k),
         at' = [at EXCEPT ![t] = "free"], caller' = caller, stopped' = stopped
  PROVE  Stopping'
<1>1. /\ ~stopped /\ caller # "outside" /\ (caller = "spawning" => t # Main)
      /\ \A s \in Threads : at[s] # "left"
  BY RunningFacts
<1>2. ~Idle' /\ \A s \in Threads : at'[s] # "left"
  BY <1>1, FreeIsBusy DEF Inv, TypeOK
<1> QED
  BY <1>1, <1>2, Kinds DEF Inv, TypeOK, Stopping

\* A thread takes a coroutine.
LEMMA TakeStep ==
  ASSUME Inv, NEW t \in Threads, Take(t)
  PROVE  Inv'
<1> USE Kinds
<1>1. /\ Head(queue) \in Coroutines /\ Tail(queue) \in Seq(Coroutines)
      /\ \E j \in 1 .. Len(queue) : Head(queue) = queue[j]
      /\ Distinct(Tail(queue))
      /\ \A i \in 1 .. Len(Tail(queue)) :
           Tail(queue)[i] # Head(queue) /\ \E j \in 1 .. Len(queue) : Tail(queue)[i] = queue[j]
  BY TailFacts DEF Inv, TypeOK, Queued, Take
<1>2. TypeOK'
  BY <1>1 DEF Inv, TypeOK, Stages, Take, socket
<1>3. Queued'
  BY <1>1 DEF Inv, TypeOK, Take, Queued
<1>4. Threaded'
  BY <1>1 DEF Inv, TypeOK, Take, Queued, Threaded, OneThreadPerCoroutine
<1>5. co[Head(queue)] = "queued" /\ co' = [co EXCEPT ![Head(queue)] = "running"]
  BY <1>1 DEF Inv, Queued, Take
<1>6. UNCHANGED <<caller, calls, stopped, acceptor, backlog, taken>> /\ ~stopped
  BY DEF Take, socket
<1>7. Waiting'
  BY <1>1, <1>5, <1>6 DEF Inv, TypeOK, Waiting
<1>8. Listening'
  BY <1>1, <1>5, <1>6 DEF Inv, TypeOK, Listening
<1>9. Once'
  <2>1. \A l \in Calls : calls[l] \in {"none", "made", "thrown"}
    BY <1>6 DEF Inv, TypeOK, Once
  <2>2. \A l \in Calls : co'[l] # "absent" => calls[l] # "none"
    BY <1>1, <1>5 DEF Inv, TypeOK, Once
  <2>3. \A l \in Calls : Ran(l)' => calls[l] # "none"
    <3>1. \A l \in acceptor : co'[l] # "absent"
      BY <1>1, <1>5 DEF Inv, TypeOK, Listening
    <3> QED
      BY <2>2, <3>1, <1>6 DEF Ran
  <2> QED
    BY <1>1, <1>5, <1>6, <2>1, <2>2, <2>3 DEF Inv, TypeOK, Once
<1>10. Stopping'
  <2>1. ~Idle'
    BY <1>1 DEF Inv, TypeOK, Take, Idle
  <2> QED
    BY <1>6, <2>1 DEF Inv, TypeOK, Take, Stopping, Idle
<1> QED
  BY <1>2, <1>3, <1>4, <1>7, <1>8, <1>9, <1>10 DEF Inv

\* A thread leaves run().
LEMMA LeaveStep ==
  ASSUME Inv, NEW t \in Threads, Leave(t)
  PROVE  Inv'
<1> USE Kinds
<1>1. TypeOK'
  BY DEF Inv, TypeOK, Leave, socket
<1>2. Queued' /\ Waiting' /\ Listening' /\ Once'
  BY DEF Inv, Leave, socket, Queued, Waiting, Listening, Once, Ran
<1>3. Threaded'
  BY DEF Inv, TypeOK, Leave, Threaded, OneThreadPerCoroutine
<1>4. Stopping'
  BY DEF Inv, TypeOK, Leave, socket, Stopping, Idle, Drained
<1> QED
  BY <1>1, <1>2, <1>3, <1>4 DEF Inv

\* The acceptor opens.
LEMMA OpenStep ==
  ASSUME Inv, NEW t \in Threads, NEW l \in Calls, Open(t, l)
  PROVE  Inv'
<1> USE Kinds
<1>0. Running(t, l) /\ l \in Coroutines
  BY DEF Open
<1>1. TypeOK'
  BY DEF Inv, TypeOK, Stages, Open
<1>2. Queued'
  BY DEF Inv, TypeOK, Running, Open, Queued
<1>3. Threaded'
  BY <1>0, RunningFacts DEF Inv, TypeOK, Running, Open, Threaded, OneThreadPerCoroutine
<1>4. Waiting'
  BY DEF Inv, TypeOK, Open, Waiting
<1>5. Listening'
  BY DEF Inv, TypeOK, Open, Listening
<1>6. Once'
  BY DEF Inv, TypeOK, Running, Open, Once, Ran
<1>7. Stopping'
  BY <1>0, PauseStops DEF Open
<1> QED
  BY <1>1, <1>2, <1>3, <1>4, <1>5, <1>6, <1>7 DEF Inv

\* When the last coroutine is over, nothing is under way.
LEMMA LastOneDrains ==
  ASSUME Inv, NEW t \in Threads, NEW k \in Coroutines, Running(t, k), Finish(t, k),
         co' \in [Coroutines -> Stages], co'[k] = "finished",
         \A c \in Coroutines :
           c # k => co'[c] = co[c] \/ (co[c] = "backlog" /\ co'[c] = "refused"),
         \A l \in acceptor' : l # k /\ l \in acceptor,
         \A c \in Conns : co'[c] \in {"backlog", "accepted"} => \E l \in acceptor' : TRUE,
         caller' = caller
  PROVE  Stopping'
<1> USE Kinds
<1>1. ~Idle' /\ ~stopped /\ caller # "outside" /\ \A s \in Threads : at[s] # "left"
  BY RunningFacts, FreeIsBusy DEF Inv, TypeOK, Finish
<1>2. ASSUME OutOfWork(k) PROVE Drained'
  <2>1. \A c \in Coroutines : c # k => co[c] \notin {"queued", "pending", "running"}
    BY <1>2 DEF OutOfWork, Alive
  <2>2. acceptor' = {}
    BY <2>1 DEF Inv, TypeOK, Listening
  <2>3. \A c \in Coroutines : co'[c] \notin {"queued", "pending", "running"}
    BY <2>1
  <2> QED
    BY <2>2, <2>3 DEF Drained
<1>3. \A s \in Threads : at'[s] # "left"
  BY <1>1 DEF Inv, TypeOK, Finish
<1>4. caller' = "spawning" => at'[Main] = "unborn"
  BY <1>1 DEF Inv, TypeOK, Running, Finish, Stopping
<1> QED
  BY <1>1, <1>2, <1>3, <1>4 DEF Stopping, Finish

\* It does not.
LEMMA OpenFailsStep ==
  ASSUME Inv, NEW t \in Threads, NEW l \in Calls, OpenFails(t, l)
  PROVE  Inv'
<1> USE Kinds
<1>0. Running(t, l) /\ l \in Coroutines /\ Finish(t, l)
  BY DEF OpenFails
<1>1. TypeOK'
  <2>1. stopped' \in BOOLEAN
    BY <1>0, Zenon DEF Finish, OutOfWork, Inv, TypeOK
  <2> QED
    BY <2>1 DEF Inv, TypeOK, Stages, OpenFails, Finish, socket
<1>2. Queued'
  BY DEF Inv, TypeOK, Running, OpenFails, Queued
<1>3. Threaded'
  BY <1>0, RunningFacts DEF Inv, TypeOK, Running, OpenFails, Finish, Threaded,
     OneThreadPerCoroutine
<1>4. Waiting'
  BY DEF Inv, TypeOK, OpenFails, socket, Waiting
<1>5. Listening'
  BY DEF Inv, TypeOK, OpenFails, socket, Listening
<1>6. Once'
  BY <1>0, RunningFacts DEF Inv, TypeOK, Running, OpenFails, socket, Once, Ran
<1>7. Stopping'
  <2>1. /\ co' \in [Coroutines -> Stages] /\ co'[l] = "finished"
        /\ \A k \in Coroutines : k # l => co'[k] = co[k]
        /\ acceptor' = acceptor /\ l \notin acceptor /\ caller' = caller
    BY <1>1 DEF Inv, TypeOK, OpenFails, socket
  <2>2. \A c \in Conns : co'[c] \in {"backlog", "accepted"} => \E m \in acceptor' : TRUE
    BY <1>4, <1>5, <2>1 DEF Waiting, Listening
  <2> QED
    BY <1>0, <2>1, <2>2, LastOneDrains
<1> QED
  BY <1>1, <1>2, <1>3, <1>4, <1>5, <1>6, <1>7 DEF Inv

\* A session is spawned.
LEMMA AcceptedStep ==
  ASSUME Inv, NEW t \in Threads, NEW l \in Calls, Accepted(t, l)
  PROVE  Inv'
<1> USE Kinds
<1>0. Running(t, l) /\ l \in Coroutines
  BY DEF Accepted
<1> DEFINE c == taken[l]
<1>1. c \in Conns /\ c \in Coroutines /\ co[c] = "accepted" /\ \A i \in 1 .. Len(queue) : queue[i] # c
  BY DEF Inv, TypeOK, Queued, Waiting, Accepted
<1>2. /\ Append(queue, c) \in Seq(Coroutines)
      /\ Distinct(Append(queue, c))
      /\ \A i \in 1 .. Len(Append(queue, c)) :
           Append(queue, c)[i] = c \/ \E j \in 1 .. Len(queue) : Append(queue, c)[i] = queue[j]
  <2> HIDE DEF c
  <2> QED
    BY <1>1, AppendFacts DEF Inv, TypeOK, Queued
<1>3. /\ co[l] = "running" /\ co' = [co EXCEPT ![l] = "pending", ![c] = "queued"]
      /\ taken' = [taken EXCEPT ![l] = Nothing] /\ l # c
      /\ UNCHANGED <<caller, calls, stopped, acceptor, backlog>>
  BY <1>1 DEF Running, Accepted
<1>4. TypeOK'
  BY <1>2, <1>3 DEF Inv, TypeOK, Stages, Accepted
<1>5. Queued'
  BY <1>1, <1>2, <1>3 DEF Inv, TypeOK, Accepted, Queued
<1>6. Threaded'
  BY <1>0, <1>1, <1>3, RunningFacts DEF Inv, TypeOK, Running, Accepted, Threaded,
     OneThreadPerCoroutine
<1>7. Waiting'
  <2>1. \A d \in Conns : d # c => co'[d] = co[d]
    BY <1>1, <1>3 DEF Inv, TypeOK
  <2>2. co'[c] = "queued"
    BY <1>1, <1>3 DEF Inv, TypeOK
  <2>3. \A m \in Calls : m # l => taken'[m] = taken[m] /\ (taken[m] \in Conns => taken[m] # c)
    BY <1>1, <1>3 DEF Inv, TypeOK, Waiting
  <2>4. taken'[l] = Nothing /\ Nothing \notin Conns
    BY <1>3 DEF Inv, TypeOK
  <2>5. \A m \in Calls : \A i \in 1 .. Len(backlog[m]) :
          backlog[m][i] \in Conns /\ backlog[m][i] # c /\ co[backlog[m][i]] = "backlog"
    BY <1>1 DEF Inv, TypeOK, Waiting
  <2> HIDE DEF c
  <2>6. /\ \A m, n \in Calls : \A i \in 1 .. Len(backlog'[m]), j \in 1 .. Len(backlog'[n]) :
             backlog'[m][i] = backlog'[n][j] => m = n /\ i = j
        /\ \A m \in Calls : \A i \in 1 .. Len(backlog'[m]) : co'[backlog'[m][i]] = "backlog"
        /\ \A d \in Conns : co'[d] = "backlog" =>
             \E m \in Calls : \E i \in 1 .. Len(backlog'[m]) : backlog'[m][i] = d
    <3>1. \A d \in Conns : co'[d] = "backlog" => co[d] = "backlog"
      BY <2>1, <2>2
    <3>2. \A m \in Calls : \A i \in 1 .. Len(backlog[m]) : co'[backlog[m][i]] = "backlog"
      BY <2>1, <2>5
    <3>3. backlog' = backlog
      BY <1>3
    <3>4. /\ \A m, n \in Calls : \A i \in 1 .. Len(backlog[m]), j \in 1 .. Len(backlog[n]) :
               backlog[m][i] = backlog[n][j] => m = n /\ i = j
          /\ \A d \in Conns : co[d] = "backlog" =>
               \E m \in Calls : \E i \in 1 .. Len(backlog[m]) : backlog[m][i] = d
      BY DEF Inv, Waiting
    <3>5. \A m, n \in Calls : \A i \in 1 .. Len(backlog'[m]), j \in 1 .. Len(backlog'[n]) :
            backlog'[m][i] = backlog'[n][j] => m = n /\ i = j
      BY <3>3, <3>4
    <3>6. \A m \in Calls : \A i \in 1 .. Len(backlog'[m]) : co'[backlog'[m][i]] = "backlog"
      BY <3>2, <3>3
    <3>7. \A d \in Conns : co'[d] = "backlog" =>
            \E m \in Calls : \E i \in 1 .. Len(backlog'[m]) : backlog'[m][i] = d
      BY <3>1, <3>3, <3>4
    <3> QED
      BY <3>5, <3>6, <3>7
  <2>7. \A m \in Calls : taken'[m] \in Conns => m # l /\ taken'[m] = taken[m] /\ taken[m] # c
    BY <2>3, <2>4
  <2>8. \A d \in Conns : co'[d] = "accepted" => \E m \in Calls : taken'[m] = d
    <3> SUFFICES ASSUME NEW d \in Conns, co'[d] = "accepted" PROVE \E m \in Calls : taken'[m] = d
      OBVIOUS
    <3>1. d # c /\ co[d] = "accepted"
      BY <2>1, <2>2
    <3>2. PICK m \in Calls : taken[m] = d
      BY <3>1 DEF Inv, Waiting
    <3>3. m # l
      BY <3>1, <3>2 DEF c
    <3> QED
      BY <2>3, <3>2, <3>3
  <2>9. /\ \A m \in Calls : taken'[m] \in Conns => co'[taken'[m]] = "accepted"
        /\ \A m, n \in Calls : taken'[m] \in Conns /\ taken'[m] = taken'[n] => m = n
    BY <2>1, <2>7 DEF Inv, Waiting
  <2> QED
    BY <2>6, <2>8, <2>9 DEF Waiting
<1>8. Listening'
  <2>1. l \in acceptor
    BY <1>1 DEF Inv, Listening
  <2> QED
    BY <1>1, <1>3, <2>1 DEF Inv, TypeOK, Listening
<1>9. Once'
  <2>1. \A m \in Calls : m # l => co'[m] = co[m]
    BY <1>1, <1>3 DEF Inv, TypeOK
  <2>2. co'[l] = "pending"
    BY <1>1, <1>3 DEF Inv, TypeOK
  <2>3. \A m \in Calls : Ran(m)' <=> Ran(m)
    BY <1>3, <2>1, <2>2 DEF Ran
  <2> HIDE DEF c
  <2> QED
    BY <1>3, <2>1, <2>2, <2>3 DEF Inv, Once
<1>10. Stopping'
  BY <1>0, <1>3, PauseStops DEF Accepted
<1> QED
  BY <1>4, <1>5, <1>6, <1>7, <1>8, <1>9, <1>10 DEF Inv

\* An accept loop ends.
LEMMA AcceptThrowsStep ==
  ASSUME Inv, NEW t \in Threads, NEW l \in Calls, AcceptThrows(t, l)
  PROVE  Inv'
<1> USE Kinds
<1>0. Running(t, l) /\ l \in Coroutines /\ Finish(t, l) /\ taken[l] = Error /\ l \in acceptor
  BY DEF AcceptThrows, Inv, Listening
<1>1. Range(backlog[l]) = {backlog[l][i] : i \in 1 .. Len(backlog[l])}
  BY DEF Inv, TypeOK, Range
<1>2. \A k \in Range(backlog[l]) : k \in Conns /\ k # l /\ co[k] = "backlog"
  <2>1. backlog[l] \in Seq(Conns)
    BY DEF Inv, TypeOK
  <2>2. \A i \in 1 .. Len(backlog[l]) : backlog[l][i] \in Conns
    BY <2>1
  <2>3. \A i \in 1 .. Len(backlog[l]) : co[backlog[l][i]] = "backlog"
    BY DEF Inv, Waiting
  <2> QED
    BY <1>1, <2>2, <2>3
<1>3. /\ co' \in [Coroutines -> Stages] /\ co'[l] = "finished"
      /\ \A k \in Range(backlog[l]) : co'[k] = "refused"
      /\ \A k \in Coroutines : k # l /\ k \notin Range(backlog[l]) => co'[k] = co[k]
  BY <1>2 DEF Inv, TypeOK, Stages, AcceptThrows
<1>4. /\ at' = [at EXCEPT ![t] = "free"] /\ acceptor' = acceptor \ {l}
      /\ backlog' = [backlog EXCEPT ![l] = <<>>] /\ taken' = [taken EXCEPT ![l] = Nothing]
      /\ UNCHANGED <<caller, calls, queue>>
  BY DEF AcceptThrows, Finish
<1>5. co[l] = "running" /\ at[t] = l
  BY <1>0 DEF Running
<1>6. TypeOK'
  <2>1. stopped' \in BOOLEAN
    BY <1>0, Zenon DEF Finish, OutOfWork, Inv, TypeOK
  <2>2. backlog' \in [Calls -> Seq(Conns)] /\ taken' \in [Calls -> Conns \cup {Nothing, Error}]
    BY <1>4 DEF Inv, TypeOK
  <2>3. at' \in [Threads -> {"unborn", "free", "left"} \cup Coroutines] /\ acceptor' \subseteq Calls
    BY <1>4 DEF Inv, TypeOK
  <2> QED
    BY <1>3, <1>4, <2>1, <2>2, <2>3 DEF Inv, TypeOK
<1>7. \A k \in Coroutines : co[k] # "backlog" /\ k # l => co'[k] = co[k]
  BY <1>2, <1>3
<1>8. Queued'
  <2>1. \A i \in 1 .. Len(queue) : queue[i] \in Coroutines /\ co[queue[i]] = "queued"
    BY DEF Inv, TypeOK, Queued
  <2>2. \A i \in 1 .. Len(queue) : co'[queue[i]] = "queued"
    BY <1>5, <1>7, <2>1
  <2> QED
    BY <1>4, <2>2 DEF Inv, Queued
<1>9. Threaded'
  <2>1. \A s \in Threads : at'[s] \in Coroutines => s # t /\ at'[s] = at[s] /\ at[s] # l
    BY <1>0, <1>4, RunningFacts DEF Inv, TypeOK
  <2>2. \A s \in Threads : at'[s] \in Coroutines => co'[at'[s]] = "running"
    BY <1>7, <2>1 DEF Inv, Threaded
  <2>3. OneThreadPerCoroutine'
    BY <2>1 DEF Inv, Threaded, OneThreadPerCoroutine
  <2> QED
    BY <2>2, <2>3 DEF Threaded
<1>10. Waiting'
  <2>1. \A m \in Calls : m # l => backlog'[m] = backlog[m] /\ taken'[m] = taken[m]
    BY <1>4 DEF Inv, TypeOK
  <2>2. backlog'[l] = <<>> /\ Len(backlog'[l]) = 0 /\ taken'[l] = Nothing
    BY <1>4 DEF Inv, TypeOK
  <2>3. \A m \in Calls : \A i \in 1 .. Len(backlog'[m]) :
          m # l /\ backlog'[m][i] = backlog[m][i] /\ i \in 1 .. Len(backlog[m])
    BY <2>1, <2>2
  <2>4. \A m, n \in Calls : \A i \in 1 .. Len(backlog'[m]), j \in 1 .. Len(backlog'[n]) :
          backlog'[m][i] = backlog'[n][j] => m = n /\ i = j
    BY <2>3 DEF Inv, Waiting
  <2>5. \A m \in Calls : \A i \in 1 .. Len(backlog'[m]) : co'[backlog'[m][i]] = "backlog"
    <3> SUFFICES ASSUME NEW m \in Calls, NEW i \in 1 .. Len(backlog'[m])
                 PROVE  co'[backlog'[m][i]] = "backlog"
      OBVIOUS
    <3>1. m # l /\ backlog'[m][i] = backlog[m][i] /\ i \in 1 .. Len(backlog[m])
      BY <2>3
    <3>2. backlog[m][i] \in Conns /\ co[backlog[m][i]] = "backlog"
      BY <3>1 DEF Inv, TypeOK, Waiting
    <3>3. backlog[m][i] \notin Range(backlog[l])
      BY <1>1, <3>1 DEF Inv, Waiting
    <3> QED
      BY <1>3, <3>1, <3>2, <3>3
  <2>6. ASSUME NEW d \in Conns, co'[d] = "backlog"
        PROVE  \E m \in Calls : \E i \in 1 .. Len(backlog'[m]) : backlog'[m][i] = d
    <3>1. d \notin Range(backlog[l]) /\ co[d] = "backlog"
      BY <1>3, <2>6
    <3>2. PICK m \in Calls : \E i \in 1 .. Len(backlog[m]) : backlog[m][i] = d
      BY <3>1 DEF Inv, Waiting
    <3>3. m # l
      BY <1>1, <3>1, <3>2
    <3> QED
      BY <2>1, <3>2, <3>3
  <2>7. \A m \in Calls : taken'[m] \in Conns => m # l /\ taken'[m] = taken[m]
    BY <2>1, <2>2
  <2>8. /\ \A m \in Calls : taken'[m] \in Conns => co'[taken'[m]] = "accepted"
        /\ \A m, n \in Calls : taken'[m] \in Conns /\ taken'[m] = taken'[n] => m = n
    BY <1>7, <2>7 DEF Inv, Waiting
  <2>9. ASSUME NEW d \in Conns, co'[d] = "accepted" PROVE \E m \in Calls : taken'[m] = d
    <3>1. co[d] = "accepted"
      BY <1>3, <2>9
    <3>2. PICK m \in Calls : taken[m] = d
      BY <3>1 DEF Inv, Waiting
    <3>3. m # l
      BY <1>0, <3>2
    <3> QED
      BY <2>1, <3>2, <3>3
  <2> QED
    BY <2>4, <2>5, <2>6, <2>8, <2>9 DEF Waiting
<1>11. Listening'
  BY <1>3, <1>4, <1>7 DEF Inv, TypeOK, Listening
<1>12. Once'
  <2>1. \A m \in Calls : m # l => co'[m] = co[m]
    BY <1>2, <1>3
  <2>2. \A m \in Calls : Ran(m)' <=> Ran(m)
    BY <1>0, <1>3, <1>4, <2>1 DEF Ran
  <2>3. \A m \in Calls : calls[m] # "returned"
    BY <1>0, RunningFacts
  <2> QED
    BY <1>4, <1>5, <2>1, <2>2, <2>3 DEF Inv, Once
<1>13. Stopping'
  <2>1. \A k \in Coroutines :
          k # l => co'[k] = co[k] \/ (co[k] = "backlog" /\ co'[k] = "refused")
    BY <1>2, <1>3
  <2>2. \A c \in Conns : co'[c] \in {"backlog", "accepted"} => \E m \in acceptor' : TRUE
    BY <1>10, <1>11 DEF Waiting, Listening
  <2>3. \A m \in acceptor' : m # l /\ m \in acceptor
    BY <1>4
  <2> QED
    BY <1>0, <1>3, <1>4, <2>1, <2>2, <2>3, LastOneDrains
<1> QED
  BY <1>6, <1>8, <1>9, <1>10, <1>11, <1>12, <1>13 DEF Inv

\* A session waits.
LEMMA SuspendStep ==
  ASSUME Inv, NEW t \in Threads, NEW c \in Conns, Suspend(t, c)
  PROVE  Inv'
<1> USE Kinds
<1>0. Running(t, c) /\ c \in Coroutines
  BY DEF Suspend
<1>1. TypeOK'
  BY DEF Inv, TypeOK, Stages, Suspend, socket
<1>2. Queued'
  BY DEF Inv, TypeOK, Running, Suspend, Queued
<1>3. Threaded'
  BY <1>0, RunningFacts DEF Inv, TypeOK, Running, Suspend, Threaded, OneThreadPerCoroutine
<1>4. Waiting'
  BY DEF Inv, TypeOK, Running, Suspend, socket, Waiting
<1>5. Listening' /\ Once'
  BY DEF Inv, TypeOK, Suspend, socket, Listening, Once, Ran
<1>6. Stopping'
  BY <1>0, PauseStops DEF Suspend
<1> QED
  BY <1>1, <1>2, <1>3, <1>4, <1>5, <1>6 DEF Inv

\* A session ends.
LEMMA SessionEndsStep ==
  ASSUME Inv, NEW t \in Threads, NEW c \in Conns, SessionEnds(t, c)
  PROVE  Inv'
<1> USE Kinds
<1>0. Running(t, c) /\ c \in Coroutines /\ Finish(t, c)
  BY DEF SessionEnds
<1>1. TypeOK'
  <2>1. stopped' \in BOOLEAN
    BY <1>0, Zenon DEF Finish, OutOfWork, Inv, TypeOK
  <2> QED
    BY <2>1 DEF Inv, TypeOK, Stages, SessionEnds, Finish, socket
<1>2. Queued'
  BY DEF Inv, TypeOK, Running, SessionEnds, Queued
<1>3. Threaded'
  BY <1>0, RunningFacts DEF Inv, TypeOK, Running, SessionEnds, Finish, Threaded,
     OneThreadPerCoroutine
<1>4. Waiting'
  BY DEF Inv, TypeOK, Running, SessionEnds, socket, Waiting
<1>5. Listening'
  BY DEF Inv, TypeOK, SessionEnds, socket, Listening
<1>6. Once'
  BY <1>0, RunningFacts DEF Inv, TypeOK, SessionEnds, socket, Once, Ran
<1>7. Stopping'
  <2>1. /\ co' \in [Coroutines -> Stages] /\ co'[c] = "finished"
        /\ \A k \in Coroutines : k # c => co'[k] = co[k]
        /\ acceptor' = acceptor /\ caller' = caller
    BY <1>1 DEF Inv, TypeOK, SessionEnds, socket
  <2>2. \A d \in Conns : co'[d] \in {"backlog", "accepted"} => \E m \in acceptor' : TRUE
    BY <1>4, <1>5, <2>1 DEF Waiting, Listening
  <2>3. \A m \in acceptor' : m # c /\ m \in acceptor
    BY <2>1 DEF Inv, TypeOK
  <2> QED
    BY <1>0, <2>1, <2>2, <2>3, LastOneDrains
<1> QED
  BY <1>1, <1>2, <1>3, <1>4, <1>5, <1>6, <1>7 DEF Inv

\* A client connects.
LEMMA ConnectStep ==
  ASSUME Inv, NEW c \in Conns, NEW l \in Calls, Connect(c, l)
  PROVE  Inv'
<1> USE Kinds
<1> DEFINE s == backlog[l]
<1>1. /\ s \in Seq(Conns) /\ Append(s, c) \in Seq(Conns) /\ Len(s) \in Nat
      /\ Len(Append(s, c)) = Len(s) + 1 /\ Append(s, c)[Len(s) + 1] = c
      /\ \A i \in 1 .. Len(s) : Append(s, c)[i] = s[i]
      /\ \A i \in 1 .. Len(Append(s, c)) : i \in 1 .. Len(s) \/ i = Len(s) + 1
      /\ \A i \in 1 .. Len(s) : i \in 1 .. Len(Append(s, c))
      /\ Len(s) + 1 \in 1 .. Len(Append(s, c)) /\ Len(s) + 1 \notin 1 .. Len(s)
  <2>1. s \in Seq(Conns)
    BY DEF Inv, TypeOK
  <2> HIDE DEF s
  <2> QED
    BY <2>1
<1>2. /\ l \in acceptor /\ co[c] = "absent" /\ co' = [co EXCEPT ![c] = "backlog"]
      /\ backlog' = [backlog EXCEPT ![l] = Append(s, c)]
      /\ UNCHANGED <<caller, calls, at, queue, stopped, acceptor, taken>>
  BY DEF Connect
<1>3. TypeOK'
  BY <1>1, <1>2 DEF Inv, TypeOK, Stages
<1>4. Queued'
  BY <1>2 DEF Inv, TypeOK, Queued
<1>5. Threaded'
  BY <1>2 DEF Inv, TypeOK, Threaded, OneThreadPerCoroutine
<1>6. \A m \in Calls : \A i \in 1 .. Len(backlog[m]) : backlog[m][i] \in Conns /\ backlog[m][i] # c
  BY <1>2 DEF Inv, TypeOK, Waiting
<1>7. Waiting'
  <2>1. /\ backlog'[l] = Append(s, c)
        /\ \A m \in Calls : m # l => backlog'[m] = backlog[m]
    BY <1>2 DEF Inv, TypeOK
  <2>2. co'[c] = "backlog" /\ \A d \in Conns : d # c => co'[d] = co[d]
    BY <1>2 DEF Inv, TypeOK
  <2>3. \A m \in Calls : \A i \in 1 .. Len(backlog'[m]) :
          \/ m = l /\ i = Len(s) + 1 /\ backlog'[m][i] = c
          \/ /\ i \in 1 .. Len(backlog[m]) /\ backlog'[m][i] = backlog[m][i]
             /\ backlog[m][i] # c /\ backlog[m][i] \in Conns
    BY <1>1, <1>6, <2>1
  <2>4. \A m \in Calls : \A i \in 1 .. Len(backlog[m]) :
          i \in 1 .. Len(backlog'[m]) /\ backlog'[m][i] = backlog[m][i]
    BY <1>1, <2>1
  <2>5. Len(s) + 1 \in 1 .. Len(backlog'[l]) /\ backlog'[l][Len(s) + 1] = c
    BY <1>1, <2>1
  <2> HIDE DEF s
  <2>6. \A m, n \in Calls : \A i \in 1 .. Len(backlog'[m]), j \in 1 .. Len(backlog'[n]) :
          backlog'[m][i] = backlog'[n][j] => m = n /\ i = j
    BY <2>3 DEF Inv, Waiting
  <2>7. \A m \in Calls : \A i \in 1 .. Len(backlog'[m]) : co'[backlog'[m][i]] = "backlog"
    BY <2>2, <2>3 DEF Inv, Waiting
  <2>8. ASSUME NEW d \in Conns, co'[d] = "backlog"
        PROVE  \E m \in Calls : \E i \in 1 .. Len(backlog'[m]) : backlog'[m][i] = d
    <3>1. CASE d = c
      BY <2>5, <3>1
    <3>2. CASE d # c
      <4>1. PICK m \in Calls : \E i \in 1 .. Len(backlog[m]) : backlog[m][i] = d
        BY <2>2, <2>8, <3>2 DEF Inv, Waiting
      <4> QED
        BY <2>4, <4>1
    <3> QED
      BY <3>1, <3>2
  <2>9. /\ \A m \in Calls : taken[m] \in Conns => taken[m] # c
        /\ \A d \in Conns : co'[d] = "accepted" => co[d] = "accepted"
    BY <1>2, <2>2 DEF Inv, Waiting
  <2> QED
    BY <1>2, <2>2, <2>6, <2>7, <2>8, <2>9 DEF Inv, Waiting
<1>8. Listening'
  BY <1>2 DEF Inv, TypeOK, Listening
<1>9. Once'
  BY <1>2 DEF Inv, TypeOK, Once, Ran
<1>10. Stopping'
  BY <1>2 DEF Inv, TypeOK, Stopping, Idle, Drained
<1> QED
  BY <1>3, <1>4, <1>5, <1>7, <1>8, <1>9, <1>10 DEF Inv

\* An operation of a session completes.
LEMMA SocketReadyStep ==
  ASSUME Inv, NEW c \in Conns, SocketReady(c)
  PROVE  Inv'
<1> USE Kinds
<1>1. c \in Coroutines /\ \A i \in 1 .. Len(queue) : queue[i] # c
  BY DEF Inv, TypeOK, Queued, SocketReady
<1>2. /\ Append(queue, c) \in Seq(Coroutines)
      /\ Distinct(Append(queue, c))
      /\ \A i \in 1 .. Len(Append(queue, c)) :
           Append(queue, c)[i] = c \/ \E j \in 1 .. Len(queue) : Append(queue, c)[i] = queue[j]
  BY <1>1, AppendFacts DEF Inv, TypeOK, Queued
<1>3. TypeOK'
  BY <1>2 DEF Inv, TypeOK, Stages, SocketReady, socket
<1>4. Queued'
  BY <1>2 DEF Inv, TypeOK, SocketReady, Queued
<1>5. Threaded'
  BY DEF Inv, TypeOK, SocketReady, Threaded, OneThreadPerCoroutine
<1>6. Waiting'
  BY DEF Inv, TypeOK, SocketReady, socket, Waiting
<1>7. Listening' /\ Once'
  BY DEF Inv, TypeOK, SocketReady, socket, Listening, Once, Ran
<1>8. Stopping'
  BY <1>1 DEF Inv, TypeOK, SocketReady, socket, Stopping, Idle, Drained
<1> QED
  BY <1>3, <1>4, <1>5, <1>6, <1>7, <1>8 DEF Inv

\* A listener whose accept is under way is queued when it completes.
LEMMA ListenerQueued ==
  ASSUME Inv, NEW l \in Calls, co[l] = "pending"
  PROVE  /\ l \in Coroutines /\ l \in acceptor /\ taken[l] = Nothing
         /\ Append(queue, l) \in Seq(Coroutines) /\ Distinct(Append(queue, l))
         /\ \A i \in 1 .. Len(Append(queue, l)) :
              \/ Append(queue, l)[i] = l
              \/ \E j \in 1 .. Len(queue) : Append(queue, l)[i] = queue[j]
<1>1. l \in Coroutines /\ \A i \in 1 .. Len(queue) : queue[i] # l
  BY Kinds DEF Inv, Queued
<1> QED
  BY <1>1, AppendFacts DEF Inv, TypeOK, Queued, Listening

\* An accept completes.
LEMMA AcceptDoneStep ==
  ASSUME Inv, NEW l \in Calls, AcceptDone(l)
  PROVE  Inv'
<1> USE Kinds
<1> DEFINE s == backlog[l]
           h == Head(backlog[l])
<1>1. /\ co[l] = "pending" /\ s # <<>> /\ s \in Seq(Conns)
      /\ taken' = [taken EXCEPT ![l] = h] /\ backlog' = [backlog EXCEPT ![l] = Tail(s)]
      /\ co' = [co EXCEPT ![l] = "queued", ![h] = "accepted"]
      /\ queue' = Append(queue, l)
      /\ UNCHANGED <<caller, calls, at, stopped, acceptor>>
  BY DEF AcceptDone, Inv, TypeOK
<1>2. /\ l \in Coroutines /\ l \in acceptor /\ taken[l] = Nothing
      /\ Append(queue, l) \in Seq(Coroutines) /\ Distinct(Append(queue, l))
      /\ \A i \in 1 .. Len(Append(queue, l)) :
           Append(queue, l)[i] = l \/ \E j \in 1 .. Len(queue) : Append(queue, l)[i] = queue[j]
  BY <1>1, ListenerQueued
<1>3. /\ Len(s) \in Nat \ {0} /\ h = s[1] /\ h \in Conns /\ 1 \in 1 .. Len(s)
      /\ Tail(s) \in Seq(Conns) /\ Len(Tail(s)) = Len(s) - 1
      /\ \A i \in 1 .. Len(Tail(s)) : i + 1 \in 1 .. Len(s) /\ Tail(s)[i] = s[i + 1] /\ i + 1 # 1
      /\ \A i \in 1 .. Len(s) : i = 1 \/ (i - 1 \in 1 .. Len(Tail(s)) /\ Tail(s)[i - 1] = s[i])
  <2> DEFINE z == s
  <2>1. z \in Seq(Conns) /\ z # <<>> /\ h = Head(z)
    BY <1>1
  <2> HIDE DEF z, h
  <2>2. /\ Len(z) \in Nat \ {0} /\ h = z[1] /\ h \in Conns /\ 1 \in 1 .. Len(z)
        /\ Tail(z) \in Seq(Conns) /\ Len(Tail(z)) = Len(z) - 1
        /\ \A i \in 1 .. Len(z) - 1 : Tail(z)[i] = z[i + 1]
    BY <2>1
  <2>3. /\ \A i \in 1 .. Len(Tail(z)) : i + 1 \in 1 .. Len(z) /\ Tail(z)[i] = z[i + 1] /\ i + 1 # 1
        /\ \A i \in 1 .. Len(z) : i = 1 \/ (i - 1 \in 1 .. Len(Tail(z)) /\ Tail(z)[i - 1] = z[i])
    BY <2>2
  <2> QED
    BY <2>2, <2>3 DEF z
<1>4. co[h] = "backlog" /\ h # l /\ h \in Coroutines
  BY <1>3 DEF Inv, Waiting
<1>5. /\ co'[l] = "queued" /\ co'[h] = "accepted"
      /\ \A k \in Coroutines : k # l /\ k # h => co'[k] = co[k]
      /\ \A m \in Calls : m # l => co'[m] = co[m] /\ taken'[m] = taken[m] /\ backlog'[m] = backlog[m]
      /\ taken'[l] = h /\ backlog'[l] = Tail(s)
  BY <1>1, <1>2, <1>3, <1>4 DEF Inv, TypeOK
<1> HIDE DEF s, h
<1>6. TypeOK'
  <2>1. backlog' \in [Calls -> Seq(Conns)] /\ taken' \in [Calls -> Conns \cup {Nothing, Error}]
    BY <1>1, <1>3 DEF Inv, TypeOK
  <2>2. co' \in [Coroutines -> Stages]
    BY <1>1 DEF Inv, TypeOK, Stages
  <2> QED
    BY <1>1, <1>2, <2>1, <2>2 DEF Inv, TypeOK
<1>7. Queued'
  <2>1. \A i \in 1 .. Len(queue) : queue[i] \in Coroutines /\ co[queue[i]] = "queued"
    BY DEF Inv, TypeOK, Queued
  <2>2. \A i \in 1 .. Len(queue) : co'[queue[i]] = "queued"
    BY <1>4, <1>5, <2>1
  <2>3. \A i \in 1 .. Len(queue') :
          queue'[i] = l \/ \E j \in 1 .. Len(queue) : queue'[i] = queue[j]
    BY <1>1, <1>2
  <2>4. \A i \in 1 .. Len(queue') : co'[queue'[i]] = "queued"
    BY <1>5, <2>2, <2>3
  <2>5. Distinct(queue')
    BY <1>1, <1>2, Zenon
  <2> QED
    BY <2>4, <2>5 DEF Queued
<1>8. Threaded'
  BY <1>1, <1>4, <1>5 DEF Inv, TypeOK, Threaded, OneThreadPerCoroutine
<1>9. Waiting'
  <2>1. \A m \in Calls : \A i \in 1 .. Len(backlog'[m]) :
          \E j \in 1 .. Len(backlog[m]) :
            /\ backlog'[m][i] = backlog[m][j] /\ j = (IF m = l THEN i + 1 ELSE i)
            /\ m = l => j # 1
    <3> SUFFICES ASSUME NEW m \in Calls, NEW i \in 1 .. Len(backlog'[m])
                 PROVE  \E j \in 1 .. Len(backlog[m]) :
                          /\ backlog'[m][i] = backlog[m][j] /\ j = (IF m = l THEN i + 1 ELSE i)
                          /\ m = l => j # 1
      OBVIOUS
    <3>1. CASE m # l
      BY <1>5, <3>1
    <3>2. CASE m = l
      <4>1. i \in 1 .. Len(Tail(s)) /\ backlog'[m][i] = Tail(s)[i] /\ backlog[m] = s
        BY <1>5, <3>2 DEF s
      <4>2. i + 1 \in 1 .. Len(s) /\ Tail(s)[i] = s[i + 1] /\ i + 1 # 1
        BY <1>3, <4>1
      <4> QED
        BY <3>2, <4>1, <4>2
    <3> QED
      BY <3>1, <3>2
  <2>2. \A m \in Calls : \A i \in 1 .. Len(backlog'[m]) : i \in Nat
    BY <1>6 DEF TypeOK
  <2>3. \A m, n \in Calls : \A i \in 1 .. Len(backlog'[m]), j \in 1 .. Len(backlog'[n]) :
          backlog'[m][i] = backlog'[n][j] => m = n /\ i = j
    <3> SUFFICES ASSUME NEW m \in Calls, NEW n \in Calls, NEW i \in 1 .. Len(backlog'[m]),
                        NEW j \in 1 .. Len(backlog'[n]), backlog'[m][i] = backlog'[n][j]
                 PROVE  m = n /\ i = j
      OBVIOUS
    <3>1. PICK p \in 1 .. Len(backlog[m]) :
            backlog'[m][i] = backlog[m][p] /\ p = (IF m = l THEN i + 1 ELSE i)
      BY <2>1
    <3>2. PICK q \in 1 .. Len(backlog[n]) :
            backlog'[n][j] = backlog[n][q] /\ q = (IF n = l THEN j + 1 ELSE j)
      BY <2>1
    <3>3. m = n /\ p = q
      <4>1. backlog[m][p] = backlog[n][q]
        BY <3>1, <3>2
      <4> QED
        BY <4>1 DEF Inv, Waiting
    <3> QED
      BY <2>2, <3>1, <3>2, <3>3
  <2>4. \A m \in Calls : \A i \in 1 .. Len(backlog'[m]) : co'[backlog'[m][i]] = "backlog"
    <3> SUFFICES ASSUME NEW m \in Calls, NEW i \in 1 .. Len(backlog'[m])
                 PROVE  co'[backlog'[m][i]] = "backlog"
      OBVIOUS
    <3>1. PICK p \in 1 .. Len(backlog[m]) :
            backlog'[m][i] = backlog[m][p] /\ (m = l => p # 1)
      BY <2>1
    <3>2. backlog[m][p] \in Conns /\ co[backlog[m][p]] = "backlog"
      BY DEF Inv, TypeOK, Waiting
    <3>3. backlog[m][p] # h
      BY <1>3, <3>1 DEF Inv, Waiting, s
    <3> QED
      BY <1>5, <3>1, <3>2, <3>3
  <2>5. ASSUME NEW d \in Conns, co'[d] = "backlog"
        PROVE  \E m \in Calls : \E i \in 1 .. Len(backlog'[m]) : backlog'[m][i] = d
    <3>1. d # h /\ co[d] = "backlog"
      BY <1>5, <2>5
    <3>2. PICK m \in Calls : \E i \in 1 .. Len(backlog[m]) : backlog[m][i] = d
      BY <3>1 DEF Inv, Waiting
    <3>3. CASE m = l
      <4>1. PICK i \in 1 .. Len(s) : s[i] = d
        BY <3>2, <3>3 DEF s
      <4>2. i # 1 /\ i - 1 \in 1 .. Len(Tail(s)) /\ Tail(s)[i - 1] = d
        BY <1>3, <3>1, <4>1
      <4> QED
        BY <1>5, <4>2
    <3>4. CASE m # l
      BY <1>5, <3>2, <3>4
    <3> QED
      BY <3>3, <3>4
  <2>6. \A m \in Calls : taken[m] \in Conns => m # l /\ taken[m] # h /\ co[taken[m]] = "accepted"
    BY <1>2, <1>4 DEF Inv, Waiting
  <2>7. /\ \A m \in Calls : taken'[m] \in Conns => co'[taken'[m]] = "accepted"
        /\ \A m, n \in Calls : taken'[m] \in Conns /\ taken'[m] = taken'[n] => m = n
    <3>1. \A m \in Calls : taken'[m] \in Conns =>
            \/ m = l /\ taken'[m] = h
            \/ m # l /\ taken'[m] = taken[m] /\ taken[m] # h /\ co[taken[m]] = "accepted"
      BY <1>5, <2>6
    <3> QED
      BY <1>3, <1>5, <3>1 DEF Inv, Waiting
  <2>8. ASSUME NEW d \in Conns, co'[d] = "accepted" PROVE \E m \in Calls : taken'[m] = d
    <3>1. CASE d = h
      BY <1>5, <3>1
    <3>2. CASE d # h
      <4>1. PICK m \in Calls : taken[m] = d
        BY <1>5, <2>8, <3>2 DEF Inv, Waiting
      <4> QED
        BY <1>5, <2>6, <4>1
    <3> QED
      BY <3>1, <3>2
  <2> QED
    BY <2>3, <2>4, <2>5, <2>7, <2>8 DEF Waiting
<1>10. Listening'
  BY <1>1, <1>2, <1>5 DEF Inv, Listening
<1>11. Once'
  <2>1. \A m \in Calls : Ran(m)' <=> Ran(m)
    BY <1>1, <1>2, <1>5 DEF Ran
  <2> QED
    BY <1>1, <1>5, <2>1 DEF Inv, Once
<1>12. Stopping'
  BY <1>1, <1>2 DEF Inv, Stopping, Idle, Drained
<1> QED
  BY <1>6, <1>7, <1>8, <1>9, <1>10, <1>11, <1>12 DEF Inv

\* An accept fails.
LEMMA AcceptFailsStep ==
  ASSUME Inv, NEW l \in Calls, AcceptFails(l)
  PROVE  Inv'
<1> USE Kinds
<1>1. /\ l \in Coroutines /\ l \in acceptor /\ taken[l] = Nothing
      /\ Append(queue, l) \in Seq(Coroutines) /\ Distinct(Append(queue, l))
      /\ \A i \in 1 .. Len(Append(queue, l)) :
           Append(queue, l)[i] = l \/ \E j \in 1 .. Len(queue) : Append(queue, l)[i] = queue[j]
  BY ListenerQueued DEF AcceptFails
<1>2. TypeOK'
  BY <1>1 DEF Inv, TypeOK, Stages, AcceptFails
<1>3. Queued'
  BY <1>1 DEF Inv, TypeOK, AcceptFails, Queued
<1>4. Threaded'
  BY DEF Inv, TypeOK, AcceptFails, Threaded, OneThreadPerCoroutine
<1>5. Waiting'
  BY <1>1 DEF Inv, TypeOK, AcceptFails, Waiting
<1>6. Listening' /\ Once'
  BY <1>1 DEF Inv, TypeOK, AcceptFails, Listening, Once, Ran
<1>7. Stopping'
  BY <1>1 DEF Inv, AcceptFails, Stopping, Idle, Drained
<1> QED
  BY <1>2, <1>3, <1>4, <1>5, <1>6, <1>7 DEF Inv

\* Every step keeps the invariant.
LEMMA InvNext == Inv /\ [Next]_vars => Inv'
<1> SUFFICES ASSUME Inv, [Next]_vars PROVE Inv'
  OBVIOUS
<1>1. CASE UNCHANGED vars
  BY <1>1 DEF vars, Inv, TypeOK, Queued, Threaded, OneThreadPerCoroutine, Waiting,
              Listening, Once, Ran, Stopping, Idle, Drained
<1>2. ASSUME NEW t \in Threads, Thread(t) PROVE Inv'
  BY <1>2, TakeStep, LeaveStep, OpenStep, OpenFailsStep, AcceptedStep, AcceptThrowsStep,
     SuspendStep, SessionEndsStep DEF Thread
<1>3. ASSUME Clients \/ \E l \in Calls : Kernel(l) PROVE Inv'
  BY <1>3, AcceptDoneStep, AcceptFailsStep, ConnectStep, SocketReadyStep DEF Kernel, Clients
<1>4. ASSUME Caller \/ ListenThrows \/ StartWorkerFails PROVE Inv'
  BY <1>4, CallerStep, SettleStep DEF Caller
<1> QED
  BY <1>1, <1>2, <1>3, <1>4, ListenStep DEF Next

\* The invariant always holds.
LEMMA InvAlways == Spec => []Inv
<1> QED
  BY InvInit, InvNext, PTL DEF Spec

-----------------------------------------------------------------------------
(* The properties.                                                         *)

\* Every variable keeps its type (server.cpp).
THEOREM TypeCorrect == Spec => []TypeOK
<1>1. Inv => TypeOK
  BY DEF Inv
<1> QED
  BY <1>1, InvAlways, PTL

\* No two threads are ever in the same session (io_context::run(), server.cpp).
THEOREM SessionsNeedNoLock == Spec => []OneThreadPerCoroutine
<1>1. Inv => OneThreadPerCoroutine
  BY DEF Inv, Threaded
<1> QED
  BY <1>1, InvAlways, PTL

\* The io_context stops with the last session, and listen() is left, by return or
\* by the exception of its first thread, when nothing is under way (server.cpp,
\* listen).
THEOREM NothingIsCutOff == Spec => []ReturnsDrained
<1>1. Inv => ReturnsDrained
  <2> SUFFICES ASSUME Inv PROVE ReturnsDrained
    OBVIOUS
  <2>1. stopped => Drained
    BY DEF Inv, Stopping
  <2>2. caller = "outside" => Idle /\ Drained
    BY DEF Inv, Stopping
  <2>3. Drained => \A c \in Conns : ~Alive(c) /\ co[c] \notin {"backlog", "accepted"}
    BY Kinds DEF Drained, Alive
  <2> QED
    BY <2>1, <2>2, <2>3 DEF Drained, Idle, ReturnsDrained
<1> QED
  BY <1>1, InvAlways, PTL

\* After a call of listen() has returned no listener runs again, because nothing
\* restarts the io_context; of two that ran, one was left behind by a call whose
\* first thread did not start (server.cpp, listen).
THEOREM OnlyOneListens == Spec => []ListensOnce
<1>1. Inv => ListensOnce
  <2> SUFFICES ASSUME Inv PROVE ListensOnce
    OBVIOUS
  <2>1. (\E m \in Calls : calls[m] = "returned") => stopped
    BY DEF Inv, Once, TypeOK
  <2>2. stopped => \A l \in Calls : co[l] \notin {"pending", "running"}
    BY Kinds DEF Inv, Stopping, Drained
  <2> QED
    BY <2>1, <2>2 DEF Inv, Once, ListensOnce
<1> QED
  BY <1>1, InvAlways, PTL
=============================================================================
