----------------------------- MODULE ThreadPool ------------------------------
(***************************************************************************)
(* ThreadPool (logSystem/logsCode/ThreadPoll.hpp): workers that take tasks *)
(* from one queue under one mutex and sleep on one condition variable,     *)
(* callers that add tasks and notify after they have released the mutex,   *)
(* and a destructor that stops, wakes and joins the workers.               *)
(*                                                                         *)
(* A worker holds the mutex over several steps, because it may be seen     *)
(* between its predicate and its sleep.  The critical sections of enqueue  *)
(* and of the destructor are one step each, taken when the mutex is free.  *)
(***************************************************************************)
EXTENDS Integers, Sequences, FiniteSets

CONSTANTS
  Workers,      (* the threads of the pool; config.conf asks for three      *)
  Callers,      (* the threads that call enqueue                            *)
  Nobody,       (* the owner of a free mutex, and no task                   *)
  MaxEnqueue,   (* bound: calls of enqueue per caller                       *)
  MaxSpurious   (* bound: spurious wakeups in a behaviour                   *)

ASSUME PoolAssumption ==
  /\ IsFiniteSet(Workers)
  /\ IsFiniteSet(Callers)
  /\ Nobody \notin Workers \cup [caller : Callers, call : 1 .. MaxEnqueue]
  /\ MaxEnqueue \in Nat
  /\ MaxSpurious \in Nat

VARIABLES
  queue_mutex,   (* Nobody, or the worker that holds it                     *)
  stop,
  tasks,         (* the queue                                               *)
  wpc,           (* where each worker is                                    *)
  task,          (* the task each worker has taken                          *)
  epc,           (* where each caller is in enqueue                         *)
  calls,         (* how many times each caller has called enqueue           *)
  dpc,           (* where the owner is in the destructor                    *)
  accepted,      (* history: the tasks queued, in order                     *)
  started,       (* history: the tasks taken, in order                      *)
  finished,      (* history: the tasks that have run                        *)
  spurious       (* history: spurious wakeups so far                        *)

callVars == <<epc, calls>>
vars == <<queue_mutex, stop, tasks, wpc, task, epc, calls, dpc, accepted,
          started, finished, spurious>>

Tasks == [caller : Callers, call : 1 .. MaxEnqueue]

(* The workers asleep on condition.                                         *)
Sleeping == {w \in Workers : wpc[w] = "waiting"}

(* The constructor has started every worker.                                *)
Constructed == \A w \in Workers : wpc[w] # "unborn"

Init ==
  /\ queue_mutex = Nobody
  /\ stop = FALSE
  /\ tasks = <<>>
  /\ wpc = [w \in Workers |-> "unborn"]
  /\ task = [w \in Workers |-> Nobody]
  /\ epc = [c \in Callers |-> "idle"]
  /\ calls = [c \in Callers |-> 0]
  /\ dpc = "running"
  /\ accepted = <<>>
  /\ started = <<>>
  /\ finished = {}
  /\ spurious = 0

(* workers.emplace_back: the thread runs while the constructor goes on.     *)
Spawn(w) ==
  /\ wpc[w] = "unborn"
  /\ wpc' = [wpc EXCEPT ![w] = "lock"]
  /\ UNCHANGED <<queue_mutex, stop, tasks, task, callVars, dpc, accepted, started,
                 finished, spurious>>

-----------------------------------------------------------------------------
(* The loop of a worker                                                      *)

WorkerLock(w) ==
  /\ wpc[w] = "lock"
  /\ queue_mutex = Nobody
  /\ queue_mutex' = w
  /\ wpc' = [wpc EXCEPT ![w] = "test"]
  /\ UNCHANGED <<stop, tasks, task, callVars, dpc, accepted, started, finished,
                 spurious>>

\* mutant: the wait looks at the queue once more only, not at stop.
WaitPredicate_NoStop == tasks # <<>>

WaitPredicate == stop \/ tasks # <<>>

WorkerTest(w) ==
  /\ wpc[w] = "test"
  /\ wpc' = [wpc EXCEPT ![w] = IF WaitPredicate THEN "take" ELSE "block"]
  /\ UNCHANGED <<queue_mutex, stop, tasks, task, callVars, dpc, accepted, started,
                 finished, spurious>>

WorkerBlock(w) ==
  /\ wpc[w] = "block"
  /\ queue_mutex' = Nobody
  /\ wpc' = [wpc EXCEPT ![w] = "waiting"]
  /\ UNCHANGED <<stop, tasks, task, callVars, dpc, accepted, started, finished,
                 spurious>>

\* mutant: a stopped pool drops what is queued.
ExitTest_StopOnly == stop

ExitTest == stop /\ tasks = <<>>

WorkerExit(w) ==
  /\ wpc[w] = "take"
  /\ ExitTest
  /\ queue_mutex' = Nobody
  /\ wpc' = [wpc EXCEPT ![w] = "done"]
  /\ UNCHANGED <<stop, tasks, task, callVars, dpc, accepted, started, finished,
                 spurious>>

(* tasks.pop()                                                              *)
Popped == Tail(tasks)

WorkerTake(w) ==
  /\ wpc[w] = "take"
  /\ ~ExitTest
  /\ task' = [task EXCEPT ![w] = Head(tasks)]
  /\ tasks' = Popped
  /\ started' = Append(started, Head(tasks))
  /\ queue_mutex' = Nobody
  /\ wpc' = [wpc EXCEPT ![w] = "run"]
  /\ UNCHANGED <<stop, callVars, dpc, accepted, finished, spurious>>

(* task(): a packaged_task keeps what the function throws, so the worker    *)
(* always comes back to the queue.                                          *)
WorkerRun(w) ==
  /\ wpc[w] = "run"
  /\ finished' = finished \cup {task[w]}
  /\ task' = [task EXCEPT ![w] = Nobody]
  /\ wpc' = [wpc EXCEPT ![w] = "lock"]
  /\ UNCHANGED <<queue_mutex, stop, tasks, callVars, dpc, accepted, started,
                 spurious>>

-----------------------------------------------------------------------------
(* enqueue                                                                   *)

EnqueueCall(c) ==
  /\ Constructed
  /\ dpc # "gone"
  /\ epc[c] = "idle"
  /\ calls[c] < MaxEnqueue
  /\ epc' = [epc EXCEPT ![c] = "want"]
  /\ calls' = [calls EXCEPT ![c] = @ + 1]
  /\ UNCHANGED <<queue_mutex, stop, tasks, wpc, task, dpc, accepted, started,
                 finished, spurious>>

\* mutant: a stopped pool goes on accepting.
Rejects_Never == FALSE

Rejects == stop

(* throw runtime_error: nothing is queued and nobody notified.              *)
EnqueueReject(c) ==
  /\ epc[c] = "want"
  /\ queue_mutex = Nobody
  /\ Rejects
  /\ epc' = [epc EXCEPT ![c] = "idle"]
  /\ UNCHANGED <<queue_mutex, stop, tasks, wpc, task, calls, dpc, accepted, started,
                 finished, spurious>>

\* mutant: the task does not know which call it belongs to.
TaskOf_Uncounted(c) == [caller |-> c, call |-> 0]

(* The packaged task c is queueing: who queues it, and its how-manieth.     *)
TaskOf(c) == [caller |-> c, call |-> calls[c]]

EnqueuePush(c) ==
  /\ epc[c] = "want"
  /\ queue_mutex = Nobody
  /\ ~Rejects
  /\ tasks' = Append(tasks, TaskOf(c))
  /\ accepted' = Append(accepted, TaskOf(c))
  /\ epc' = [epc EXCEPT ![c] = "notify"]
  /\ UNCHANGED <<queue_mutex, stop, wpc, task, calls, dpc, started, finished,
                 spurious>>

\* mutant: nobody is told of the task.
NotifyOne_Missing == wpc' = wpc

(* condition.notify_one(): one of the sleeping workers, whichever.          *)
NotifyOne ==
  IF Sleeping # {}
  THEN \E w \in Sleeping : wpc' = [wpc EXCEPT ![w] = "lock"]
  ELSE wpc' = wpc

(* After the mutex is released.                                             *)
EnqueueNotify(c) ==
  /\ epc[c] = "notify"
  /\ NotifyOne
  /\ epc' = [epc EXCEPT ![c] = "idle"]
  /\ UNCHANGED <<queue_mutex, stop, tasks, task, calls, dpc, accepted, started,
                 finished, spurious>>

-----------------------------------------------------------------------------
(* ~ThreadPool                                                               *)

\* mutant: stop is set without the mutex.
StopLock_Missing == TRUE

(* The destructor sets stop under the mutex.                                *)
StopLock == queue_mutex = Nobody

DestroySet ==
  /\ Constructed
  /\ dpc = "running"
  /\ StopLock
  /\ stop' = TRUE
  /\ dpc' = "notify"
  /\ UNCHANGED <<queue_mutex, tasks, wpc, task, callVars, accepted, started,
                 finished, spurious>>

\* mutant: notify_one() there as well.
NotifyAll_One == NotifyOne

(* condition.notify_all()                                                   *)
NotifyAll == wpc' = [w \in Workers |-> IF w \in Sleeping THEN "lock" ELSE wpc[w]]

DestroyNotify ==
  /\ dpc = "notify"
  /\ NotifyAll
  /\ dpc' = "join"
  /\ UNCHANGED <<queue_mutex, stop, tasks, task, callVars, accepted, started,
                 finished, spurious>>

(* Every worker joined and the members destroyed.  A caller still inside    *)
(* enqueue would then use a destroyed mutex; main joins the threads that    *)
(* log before it deletes the pool, and the model goes no further than that. *)
DestroyJoin ==
  /\ dpc = "join"
  /\ \A w \in Workers : wpc[w] = "done"
  /\ \A c \in Callers : epc[c] = "idle"
  /\ dpc' = "gone"
  /\ UNCHANGED <<queue_mutex, stop, tasks, wpc, task, callVars, accepted, started,
                 finished, spurious>>

-----------------------------------------------------------------------------
(* The standard lets wait return without a notification.                     *)
SpuriousWakeup ==
  /\ spurious < MaxSpurious
  /\ spurious' = spurious + 1
  /\ \E w \in Sleeping : wpc' = [wpc EXCEPT ![w] = "lock"]
  /\ UNCHANGED <<queue_mutex, stop, tasks, task, callVars, dpc, accepted, started,
                 finished>>

Worker(w) ==
  \/ Spawn(w) \/ WorkerLock(w) \/ WorkerTest(w) \/ WorkerBlock(w)
  \/ WorkerExit(w) \/ WorkerTake(w) \/ WorkerRun(w)

enqueue(c) ==
  EnqueueCall(c) \/ EnqueueReject(c) \/ EnqueuePush(c) \/ EnqueueNotify(c)

Destroy == DestroySet \/ DestroyNotify \/ DestroyJoin

Next ==
  \/ \E w \in Workers : Worker(w)
  \/ \E c \in Callers : enqueue(c)
  \/ Destroy
  \/ SpuriousWakeup

Spec == Init /\ [][Next]_vars

(* Every thread keeps running; a caller need not call and the owner need    *)
(* not destroy the pool.  A task returns: start_backup tries to connect     *)
(* five times and sends once.                                               *)
Fairness ==
  /\ \A w \in Workers : WF_vars(Worker(w))
  /\ \A c \in Callers : WF_vars(EnqueueReject(c) \/ EnqueuePush(c) \/ EnqueueNotify(c))
  /\ WF_vars(DestroyNotify \/ DestroyJoin)

FairSpec == Spec /\ Fairness

-----------------------------------------------------------------------------
(* The shape of the state.                                                   *)
TypeOK ==
  /\ queue_mutex \in Workers \cup {Nobody}
  /\ stop \in BOOLEAN
  /\ tasks \in Seq(Tasks)
  /\ wpc \in [Workers -> {"unborn", "lock", "test", "block", "waiting", "take",
                          "run", "done"}]
  /\ task \in [Workers -> Tasks \cup {Nobody}]
  /\ epc \in [Callers -> {"idle", "want", "notify"}]
  /\ calls \in [Callers -> 0 .. MaxEnqueue]
  /\ dpc \in {"running", "notify", "join", "gone"}
  /\ accepted \in Seq(Tasks)
  /\ started \in Seq(Tasks)
  /\ finished \subseteq Tasks
  /\ spurious \in 0 .. MaxSpurious

(* Tasks are taken in the order in which enqueue accepted them, each by one *)
(* worker: what was taken, then what is queued, is what was accepted, so no *)
(* error is backed up twice.                                                *)
TakenInOrder == started \o tasks = accepted

(* The workers that will look at the queue before they sleep.               *)
Awake == {w \in Workers : wpc[w] \in {"lock", "test", "take"}}

Notifying == {c \in Callers : epc[c] = "notify"}

(* No task waits behind a running one while a worker sleeps: as long as     *)
(* somebody sleeps, every queued task has a worker of its own that is awake *)
(* or about to be woken, although enqueue notifies after the unlock and a   *)
(* notification with no sleeper is lost.                                    *)
NoTaskBehindASleeper ==
  Sleeping # {} => Len(tasks) <= Cardinality(Awake) + Cardinality(Notifying)

(* Once notify_all has been called no worker sleeps or will: the predicate  *)
(* is evaluated under the mutex stop was set under.  (AsyncWorker::Stop,    *)
(* which sets its flag without the mutex, has no such property.)            *)
NobodySleepsThroughStop ==
  dpc \in {"join", "gone"} => \A w \in Workers : wpc[w] \notin {"block", "waiting"}

(* When the destructor returns everything ever accepted has run.            *)
DrainedWhenGone ==
  dpc = "gone" => finished = {accepted[i] : i \in 1 .. Len(accepted)}

(* Who could go on: the thread's next step waits for nothing, or for a mutex*)
(* that is free, or for ends that have come.                                *)
WorkerReady(w) ==
  \/ wpc[w] \in {"unborn", "test", "block", "take", "run"}
  \/ wpc[w] = "lock" /\ queue_mutex = Nobody

CallerReady(c) ==
  \/ epc[c] = "notify"
  \/ epc[c] = "want" /\ queue_mutex = Nobody

OwnerReady ==
  \/ dpc = "notify"
  \/ /\ dpc = "join"
     /\ \A w \in Workers : wpc[w] = "done"
     /\ \A c \in Callers : epc[c] = "idle"

AtRest ==
  /\ \A w \in Workers : ~WorkerReady(w)
  /\ \A c \in Callers : ~CallerReady(c)
  /\ ~OwnerReady

(* The pool hangs nowhere: when no thread can go on by itself, every call   *)
(* of enqueue has returned, all that was accepted has run, and either every *)
(* worker sleeps until somebody calls, or the destructor has returned.      *)
RestsOnlyWhenDone ==
  AtRest =>
    /\ \A c \in Callers : epc[c] = "idle"
    /\ tasks = <<>>
    /\ finished = {accepted[i] : i \in 1 .. Len(accepted)}
    /\ dpc = "gone" \/ (dpc = "running" /\ Sleeping = Workers)

(* The detailed specification implements the abstract pool, for which a     *)
(* task is a call of enqueue: none is queued twice, and none is left, in the*)
(* queue or in a worker's hands, when the destructor returns.               *)
Pool ==
  INSTANCE TaskPool WITH
    queue <- tasks, running <- task, closed <- stop, gone <- (dpc = "gone"),
    NoTask <- Nobody

ImplementsPool == Pool!PoolSpec

-----------------------------------------------------------------------------
(* Liveness, under FairSpec.                                                 *)

(* What enqueue accepted runs, also when the pool is destroyed.             *)
AcceptedRuns ==
  \A t \in Tasks :
    (\E i \in 1 .. Len(accepted) : accepted[i] = t) ~> (t \in finished)

(* The destructor returns.                                                  *)
DestroyReturns == (dpc = "notify") ~> (dpc = "gone")
=============================================================================
