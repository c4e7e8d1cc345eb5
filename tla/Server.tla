------------------------------- MODULE Server -------------------------------
(***************************************************************************)
(* server_impl::listen, the accept loop do_listen and the threads that run *)
(* the io_context.  A coroutine is the listener of one call of listen() or *)
(* the session of one connection; module Session models what a session     *)
(* does, here it only runs, waits for its socket and ends.                 *)
(*                                                                         *)
(* The io_context keeps completed operations in a queue.  A thread inside  *)
(* run() takes one, resumes its coroutine up to the next co_await, and     *)
(* takes another; every thread leaves when the io_context has stopped,     *)
(* which it does by itself once no coroutine is left.                      *)
(***************************************************************************)
EXTENDS Naturals, Sequences, SequencesExt

CONSTANTS
  Conns,         \* connections clients may open
  Main,          \* the thread that calls listen()
  Workers,       \* the threads listen() starts: max(1, hardware_concurrency) - 1
  Calls,         \* calls of listen() the application makes
  Descriptors    \* connections the process has file descriptors for

Coroutines == Conns \cup Calls
Threads    == Workers \cup {Main}

ASSUME ThreadsAssumption == Main \notin Workers /\ IsFiniteSet(Workers)
ASSUME ConnsAssumption ==
  /\ Conns \cap Calls = {} /\ IsFiniteSet(Conns)
  /\ Descriptors \in Nat

VARIABLES
  caller,    \* where the thread that calls listen() is
  calls,     \* each call of listen(): not made, under way, or how it was left
  at,        \* each thread: not started, in run(), in a coroutine, or left
  co,        \* each coroutine: how far it is
  queue,     \* coroutines whose operation has completed
  stopped,   \* the io_context has stopped
  acceptor,  \* the listeners whose acceptor is open
  backlog,   \* each listener: connections the kernel has and it has not
  taken      \* each listener: what async_accept completed with, a connection or an error

vars == <<caller, calls, at, co, queue, stopped, acceptor, backlog, taken>>
socket == <<acceptor, backlog, taken>>

Nothing == "nothing"
Error   == "error"

ASSUME NamesAssumption ==
  /\ Coroutines \cap {"unborn", "free", "left"} = {}
  /\ Nothing \notin Conns /\ Error \notin Conns

Init ==
  /\ caller = "outside" /\ calls = [l \in Calls |-> "none"]
  /\ at = [t \in Threads |-> "unborn"]
  /\ co = [k \in Coroutines |-> "absent"]
  /\ queue = <<>> /\ stopped = FALSE
  /\ acceptor = {}
  /\ backlog = [l \in Calls |-> <<>>] /\ taken = [l \in Calls |-> Nothing]

\* A coroutine that counts as work of the io_context.
Alive(k) == co[k] \in {"queued", "pending", "running"}

\* The connections that hold a file descriptor of the process.
Held == {c \in Conns : Alive(c) \/ \E l \in Calls : taken[l] = c}

Running(t, k) == at[t] = k /\ co[k] = "running"

-----------------------------------------------------------------------------
(* listen(), on the calling thread.                                        *)

Listen_Restart(l) ==
  /\ caller = "outside" /\ calls[l] = "none"
  /\ caller' = "spawning" /\ calls' = [calls EXCEPT ![l] = "made"]
  /\ at' = [t \in Threads |-> "unborn"]
  /\ co' = [co EXCEPT ![l] = "queued"]
  /\ queue' = Append(queue, l)
  /\ stopped' = FALSE
  /\ UNCHANGED <<acceptor, backlog, taken>>

\* co_spawn of do_listen; nothing restarts an io_context that has stopped.
Listen(l) ==
  /\ caller = "outside" /\ calls[l] = "none"
  /\ caller' = "spawning" /\ calls' = [calls EXCEPT ![l] = "made"]
  /\ at' = [t \in Threads |-> "unborn"]
  /\ co' = [co EXCEPT ![l] = "queued"]
  /\ queue' = Append(queue, l)
  /\ UNCHANGED <<stopped, acceptor, backlog, taken>>

StartWorker(w) ==
  /\ caller = "spawning" /\ at[w] = "unborn"
  /\ at' = [at EXCEPT ![w] = "free"]
  /\ UNCHANGED <<caller, calls, co, queue, stopped, socket>>

\* The call under way is over.
Settle(how) ==
  calls' = [l \in Calls |-> IF calls[l] = "made" THEN how ELSE calls[l]]

\* The system has no thread for the first worker: emplace_back throws, the
\* vector is empty, and the exception leaves listen().  Nobody takes do_listen
\* back: it stays with the io_context, for a later call to run.
ListenThrows ==
  /\ caller = "spawning" /\ Workers # {} /\ \A w \in Workers : at[w] = "unborn"
  /\ caller' = "outside" /\ Settle("thrown")
  /\ UNCHANGED <<at, co, queue, stopped, socket>>

\* It has none for a later one: the vector destroys threads nobody has joined,
\* which ends the process.
StartWorkerFails ==
  /\ caller = "spawning"
  /\ \E v, w \in Workers : at[v] # "unborn" /\ at[w] = "unborn"
  /\ caller' = "terminated"
  /\ UNCHANGED <<calls, at, co, queue, stopped, socket>>

RunCaller ==
  /\ caller = "spawning" /\ \A w \in Workers : at[w] # "unborn"
  /\ caller' = "running" /\ at' = [at EXCEPT ![Main] = "free"]
  /\ UNCHANGED <<calls, co, queue, stopped, socket>>

Return_NoJoin ==
  /\ caller = "running" /\ at[Main] = "left"
  /\ caller' = "outside" /\ Settle("returned")
  /\ UNCHANGED <<at, co, queue, stopped, socket>>

\* Its own run() has returned and every worker is joined.
Return ==
  /\ caller = "running" /\ \A t \in Threads : at[t] = "left"
  /\ caller' = "outside" /\ Settle("returned")
  /\ UNCHANGED <<at, co, queue, stopped, socket>>

-----------------------------------------------------------------------------
(* The threads inside io_context::run().                                   *)

Take(t) ==
  /\ at[t] = "free" /\ ~stopped /\ queue # <<>>
  /\ at' = [at EXCEPT ![t] = Head(queue)]
  /\ co' = [co EXCEPT ![Head(queue)] = "running"]
  /\ queue' = Tail(queue)
  /\ UNCHANGED <<caller, calls, stopped, socket>>

Leave(t) ==
  /\ at[t] = "free" /\ stopped
  /\ at' = [at EXCEPT ![t] = "left"]
  /\ UNCHANGED <<caller, calls, co, queue, stopped, socket>>

OutOfWork_WorkGuard(k) == FALSE
\* The last coroutine is gone with k: the io_context stops.
OutOfWork(k) == \A other \in Coroutines \ {k} : ~Alive(other)

\* Coroutine k, run by thread t, is over; an exception that leaves it is given
\* to "detached", which drops it.
Finish(t, k) ==
  /\ at' = [at EXCEPT ![t] = "free"]
  /\ stopped' = (stopped \/ OutOfWork(k))

-----------------------------------------------------------------------------
(* do_listen.                                                              *)

\* open, set_option, bind and listen have succeeded: accept.
Open(t, l) ==
  /\ Running(t, l) /\ l \notin acceptor
  /\ acceptor' = acceptor \cup {l}
  /\ at' = [at EXCEPT ![t] = "free"]
  /\ co' = [co EXCEPT ![l] = "pending"]
  /\ UNCHANGED <<caller, calls, queue, stopped, backlog, taken>>

\* One of them has failed: co_return.
OpenFails(t, l) ==
  /\ Running(t, l) /\ l \notin acceptor
  /\ Finish(t, l)
  /\ co' = [co EXCEPT ![l] = "finished"]
  /\ UNCHANGED <<caller, calls, queue, socket>>

\* async_accept has a connection: spawn its session, accept the next one.
Accepted(t, l) ==
  /\ Running(t, l) /\ taken[l] \in Conns
  /\ at' = [at EXCEPT ![t] = "free"]
  /\ co' = [co EXCEPT ![l] = "pending", ![taken[l]] = "queued"]
  /\ queue' = Append(queue, taken[l])
  /\ taken' = [taken EXCEPT ![l] = Nothing]
  /\ UNCHANGED <<caller, calls, stopped, acceptor, backlog>>

\* async_accept throws: do_listen is left, its acceptor closes, and the kernel
\* resets what the backlog holds.
AcceptThrows(t, l) ==
  /\ Running(t, l) /\ taken[l] = Error
  /\ Finish(t, l)
  /\ co' = [k \in Coroutines |-> CASE k = l -> "finished"
                                   [] k \in Range(backlog[l]) -> "refused"
                                   [] OTHER -> co[k]]
  /\ acceptor' = acceptor \ {l}
  /\ backlog' = [backlog EXCEPT ![l] = <<>>] /\ taken' = [taken EXCEPT ![l] = Nothing]
  /\ UNCHANGED <<caller, calls, queue>>

-----------------------------------------------------------------------------
(* A session: module Session from the threads' point of view.              *)

Suspend_Detached(t, c) ==
  /\ Running(t, c)
  /\ at' = [at EXCEPT ![t] = "free"]
  /\ co' = [co EXCEPT ![c] = "pending"]
  /\ queue' = Append(queue, c)
  /\ UNCHANGED <<caller, calls, stopped, socket>>

\* co_await of the read or of a write, its only operation under way.
Suspend(t, c) ==
  /\ Running(t, c)
  /\ at' = [at EXCEPT ![t] = "free"]
  /\ co' = [co EXCEPT ![c] = "pending"]
  /\ UNCHANGED <<caller, calls, queue, stopped, socket>>

SessionEnds(t, c) ==
  /\ Running(t, c)
  /\ Finish(t, c)
  /\ co' = [co EXCEPT ![c] = "finished"]
  /\ UNCHANGED <<caller, calls, queue, socket>>

-----------------------------------------------------------------------------
(* Clients and the kernel.                                                 *)

Connect(c, l) ==
  /\ l \in acceptor /\ co[c] = "absent"
  /\ co' = [co EXCEPT ![c] = "backlog"]
  /\ backlog' = [backlog EXCEPT ![l] = Append(@, c)]
  /\ UNCHANGED <<caller, calls, at, queue, stopped, acceptor, taken>>

\* A read or a write of the session is complete, well or not.
SocketReady(c) ==
  /\ co[c] = "pending"
  /\ co' = [co EXCEPT ![c] = "queued"]
  /\ queue' = Append(queue, c)
  /\ UNCHANGED <<caller, calls, at, stopped, socket>>

AcceptDone_OneAtATime(l) ==
  /\ co[l] = "pending" /\ backlog[l] # <<>> /\ Held = {}
  /\ taken' = [taken EXCEPT ![l] = Head(backlog[l])]
  /\ backlog' = [backlog EXCEPT ![l] = Tail(@)]
  /\ co' = [co EXCEPT ![l] = "queued", ![Head(backlog[l])] = "accepted"]
  /\ queue' = Append(queue, l)
  /\ UNCHANGED <<caller, calls, at, stopped, acceptor>>

AcceptDone(l) ==
  /\ co[l] = "pending" /\ backlog[l] # <<>> /\ Cardinality(Held) < Descriptors
  /\ taken' = [taken EXCEPT ![l] = Head(backlog[l])]
  /\ backlog' = [backlog EXCEPT ![l] = Tail(@)]
  /\ co' = [co EXCEPT ![l] = "queued", ![Head(backlog[l])] = "accepted"]
  /\ queue' = Append(queue, l)
  /\ UNCHANGED <<caller, calls, at, stopped, acceptor>>

\* Without a free descriptor accept() fails, a connection being there or not.
AcceptFails(l) ==
  /\ co[l] = "pending" /\ Cardinality(Held) >= Descriptors
  /\ taken' = [taken EXCEPT ![l] = Error]
  /\ co' = [co EXCEPT ![l] = "queued"]
  /\ queue' = Append(queue, l)
  /\ UNCHANGED <<caller, calls, at, stopped, acceptor, backlog>>

-----------------------------------------------------------------------------

Caller == (\E w \in Workers : StartWorker(w)) \/ RunCaller \/ Return

Thread(t) ==
  \/ Take(t) \/ Leave(t)
  \/ \E l \in Calls : Open(t, l) \/ OpenFails(t, l) \/ Accepted(t, l) \/ AcceptThrows(t, l)
  \/ \E c \in Conns : Suspend(t, c) \/ SessionEnds(t, c)

Kernel(l) == AcceptDone(l) \/ AcceptFails(l)

Clients == \E c \in Conns : SocketReady(c) \/ \E l \in Calls : Connect(c, l)

Next ==
  /\ caller # "terminated"
  /\ \/ \E l \in Calls : Listen(l) \/ Kernel(l)
     \/ Caller \/ ListenThrows \/ StartWorkerFails
     \/ (\E t \in Threads : Thread(t)) \/ Clients

Spec == Init /\ [][Next]_vars

\* Threads are scheduled, handlers return to the next co_await, and the kernel
\* completes an accept that can be; no client owes the server anything.
Step(A) == caller # "terminated" /\ A
FairSpec ==
  /\ Spec
  /\ \A t \in Threads : WF_vars(Step(Thread(t)))
  /\ \A l \in Calls : WF_vars(Step(Kernel(l)))
  /\ WF_vars(Step(Caller))

-----------------------------------------------------------------------------
(* Properties.                                                             *)

Stages == {"absent", "backlog", "accepted", "refused", "queued", "pending", "running", "finished"}

\* Every variable has its type.
TypeOK ==
  /\ caller \in {"outside", "spawning", "running", "terminated"}
  /\ calls \in [Calls -> {"none", "made", "thrown", "returned"}]
  /\ at \in [Threads -> {"unborn", "free", "left"} \cup Coroutines]
  /\ co \in [Coroutines -> Stages]
  /\ queue \in Seq(Coroutines)
  /\ stopped \in BOOLEAN /\ acceptor \subseteq Calls
  /\ backlog \in [Calls -> Seq(Conns)]
  /\ taken \in [Calls -> Conns \cup {Nothing, Error}]

\* No two threads are ever in the same session, so its locals (close, buffer)
\* need no lock and what it does between two co_awaits is one step for it.
OneThreadPerCoroutine ==
  \A s, t \in Threads : at[s] = at[t] /\ at[s] \in Coroutines => s = t

\* The io_context stops only when no session is left, whatever became of the
\* listeners; and when listen() is left, by return or by an exception, no
\* connection it accepted is still being served, no acceptor is open and no
\* thread it started is still running: nothing of the server is cut off by the
\* destruction that may follow.
ReturnsDrained ==
  /\ stopped => \A k \in Conns : ~Alive(k)
  /\ caller = "outside" =>
    /\ \A c \in Conns : ~Alive(c) /\ co[c] \notin {"backlog", "accepted"}
    /\ \A t \in Threads : at[t] \in {"unborn", "left"}
    /\ acceptor = {}

Ran(l) == l \in acceptor \/ co[l] \notin {"absent", "queued"}

\* A server object listens once.  The io_context is never restarted: after a
\* call of listen() has returned no listener runs again, of that call or of any
\* other.  Two listeners run only when one of them was left behind by a call that
\* threw before it had a thread.
ListensOnce ==
  /\ (\E m \in Calls : calls[m] = "returned") =>
       \A l \in Calls : co[l] \notin {"pending", "running"}
  /\ \A l, m \in Calls :
       l # m /\ Ran(l) /\ Ran(m) => calls[l] = "thrown" \/ calls[m] = "thrown"

\* A connection the kernel has taken gets its session, or the accept loop has
\* failed, however long the other sessions wait for their clients.
ConnectionsServed ==
  \A c \in Conns :
    co[c] = "backlog" ~> (co[c] # "backlog" /\ co[c] # "accepted") \/ caller = "terminated"

\* A server whose accept loops have ended and whose sessions are over lets
\* listen() return, and so does one whose io_context had stopped before.
ListenEnds ==
  (caller = "running" /\ (stopped \/ \A k \in Coroutines : ~Alive(k))) ~> (caller = "outside")

\* An error of accept is reported and the loop goes on.
AcceptLoopSurvives ==
  [][acceptor \subseteq acceptor']_vars

=============================================================================
