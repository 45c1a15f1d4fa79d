------------------------------ MODULE TaskPool -------------------------------
(***************************************************************************)
(* What the pool promises, with no mutex and nobody asleep: it queues each *)
(* task it is given, no task twice, until it is closed; its threads take   *)
(* the oldest and run it, one at a time each; and it is gone only when     *)
(* everything it ever accepted has run.  ThreadPool is shown to implement  *)
(* it, and so is the pool that AsyncLogger is composed with.               *)
(***************************************************************************)
EXTENDS Integers, Sequences

CONSTANTS
  Tasks,
  Workers,     (* its threads                                     *)
  NoTask       (* what an idle thread runs                        *)

VARIABLES
  queue,       (* the tasks accepted and not taken, oldest first  *)
  running,     (* the task of each thread                         *)
  finished,    (* the tasks that have run                         *)
  closed,      (* no task is accepted any more                    *)
  gone         (* the pool has been destroyed                     *)

poolVars == <<queue, running, finished, closed, gone>>

PoolInit ==
  /\ queue = <<>>
  /\ running = [w \in Workers |-> NoTask]
  /\ finished = {}
  /\ closed = FALSE
  /\ gone = FALSE

Queued == {queue[i] : i \in DOMAIN queue}

Running == {running[w] : w \in Workers} \ {NoTask}

(* What the pool has been given before, it is not given again.              *)
Accept(t) ==
  /\ ~closed
  /\ t \notin Queued \cup Running \cup finished
  /\ queue' = Append(queue, t)
  /\ UNCHANGED <<running, finished, closed, gone>>

Take(w) ==
  /\ running[w] = NoTask
  /\ queue # <<>>
  /\ running' = [running EXCEPT ![w] = Head(queue)]
  /\ queue' = Tail(queue)
  /\ UNCHANGED <<finished, closed, gone>>

Finish(w) ==
  /\ running[w] # NoTask
  /\ finished' = finished \cup {running[w]}
  /\ running' = [running EXCEPT ![w] = NoTask]
  /\ UNCHANGED <<queue, closed, gone>>

Close ==
  /\ ~closed
  /\ closed' = TRUE
  /\ UNCHANGED <<queue, running, finished, gone>>

End ==
  /\ closed
  /\ Queued \cup Running = {}
  /\ gone' = TRUE
  /\ UNCHANGED <<queue, running, finished, closed>>

PoolNext ==
  \/ \E t \in Tasks : Accept(t)
  \/ \E w \in Workers : Take(w) \/ Finish(w)
  \/ Close
  \/ End

PoolSpec == PoolInit /\ [][PoolNext]_poolVars

(* A task is in the queue, in one place of it, or with one thread, or it    *)
(* has run: nothing runs twice, however many threads look for work.         *)
OnePlaceEach ==
  /\ \A i, j \in DOMAIN queue : queue[i] = queue[j] => i = j
  /\ \A v, w \in Workers : running[v] = running[w] /\ running[v] # NoTask => v = w
  /\ Queued \cap Running = {}
  /\ (Queued \cup Running) \cap finished = {}
=============================================================================
