-------------------------- MODULE ThreadPoolProofs ---------------------------
(***************************************************************************)
(* Of ThreadPool, for every number of workers, callers and tasks: it is a  *)
(* TaskPool, so no task runs twice and a pool that is gone has run all it  *)
(* accepted; tasks are taken in the order of acceptance, no worker sleeps  *)
(* through the destructor's stop or beside a task, and it comes to rest    *)
(* only when all is done.                                                  *)
(*                                                                         *)
(* The invariants the runs check are not inductive: that nobody sleeps     *)
(* after notify_all needs who holds the mutex and what the holder has seen *)
(* of stop and the queue, draining needs that a stopped pool with a        *)
(* finished worker accepts nothing any more, and that a task is accepted   *)
(* only once needs that calls are numbered per caller.                     *)
(***************************************************************************)
EXTENDS ThreadPool, SequenceTheorems, FiniteSetTheorems, TLAPS

WorkerPlaces ==
  {"unborn", "lock", "test", "block", "waiting", "take", "run", "done"}

(* A worker holds the mutex from its lock to its sleep, exit or task.       *)
LockInv ==
  \A w \in Workers : queue_mutex = w <=> wpc[w] \in {"test", "block", "take"}

(* What a worker has seen under the mutex still holds.                      *)
SeenInv ==
  \A w \in Workers :
    /\ wpc[w] = "block" => ~WaitPredicate
    /\ wpc[w] = "take" => WaitPredicate
    /\ wpc[w] = "done" => ExitTest
    /\ wpc[w] = "run" <=> task[w] # Nobody

(* The destructor's progress, and that only calls in progress count.        *)
StopInv ==
  /\ stop <=> dpc # "running"
  /\ dpc = "gone" => \A w \in Workers : wpc[w] = "done"
  /\ \A c \in Callers : epc[c] = "want" => calls[c] \in 1 .. MaxEnqueue

(* What was taken is running or has run.                                    *)
TakenInv ==
  \A i \in 1 .. Len(started) :
    started[i] \in finished \/ \E w \in Workers : task[w] = started[i]

(* What runs or has run was taken.                                          *)
OnlyTakenInv ==
  /\ \A t \in finished : \E i \in 1 .. Len(started) : started[i] = t
  /\ \A w \in Workers : task[w] # Nobody =>
       \E i \in 1 .. Len(started) : started[i] = task[w]

IInv ==
  /\ TypeOK
  /\ LockInv
  /\ SeenInv
  /\ StopInv
  /\ TakenInv
  /\ OnlyTakenInv
  /\ TakenInOrder
  /\ NobodySleepsThroughStop

-----------------------------------------------------------------------------
(* Taking the head of the queue moves it from one side to the other.        *)
LEMMA MoveHead ==
  ASSUME NEW s \in Seq(Tasks), NEW q \in Seq(Tasks), q # <<>>
  PROVE  /\ Head(q) \in Tasks
         /\ Tail(q) \in Seq(Tasks)
         /\ Append(s, Head(q)) \o Tail(q) = s \o q
<1>1. Head(q) \in Tasks /\ Tail(q) \in Seq(Tasks)
  BY HeadTailProperties
<1>2. q = <<Head(q)>> \o Tail(q)
  <2>1. Len(q) \in Nat \ {0}
    BY EmptySeq
  <2>2. SubSeq(q, 1, Len(q)) = <<q[1]>> \o SubSeq(q, 2, Len(q))
    BY <2>1, SubSeqRecursiveFirst
  <2>3. SubSeq(q, 1, Len(q)) = q /\ SubSeq(q, 2, Len(q)) = Tail(q)
    BY SubSeqFull, TailIsSubSeq
  <2>4. Head(q) = q[1]
    OBVIOUS
  <2> QED
    BY <2>2, <2>3, <2>4
<1>3. Append(s, Head(q)) = s \o <<Head(q)>> /\ <<Head(q)>> \in Seq(Tasks)
  BY <1>1, AppendIsConcat
<1> QED
  BY <1>1, <1>2, <1>3, ConcatAssociative

LEMMA InitIInv == Init => IInv
<1> SUFFICES ASSUME Init PROVE IInv
  OBVIOUS
<1>1. <<>> \in Seq(Tasks) /\ Len(<<>>) = 0 /\ <<>> \o <<>> = <<>>
  BY EmptySeq, ConcatEmptySeq
<1>2. TypeOK
  <2>1. calls \in [Callers -> 0 .. MaxEnqueue] /\ spurious \in 0 .. MaxSpurious
    BY PoolAssumption DEF Init
  <2> QED
    BY <1>1, <2>1 DEF Init, TypeOK
<1>3. LockInv /\ SeenInv /\ StopInv
  BY PoolAssumption DEF Init, LockInv, SeenInv, StopInv
<1>4. TakenInv /\ OnlyTakenInv /\ TakenInOrder /\ NobodySleepsThroughStop
  BY <1>1 DEF Init, TakenInv, OnlyTakenInv, TakenInOrder, NobodySleepsThroughStop
<1> QED
  BY <1>2, <1>3, <1>4 DEF IInv

(* The steps of a worker that take no task and end none.                    *)
LEMMA WorkerStep ==
  ASSUME IInv, NEW w \in Workers,
         \/ Spawn(w) \/ WorkerLock(w) \/ WorkerTest(w) \/ WorkerBlock(w) \/ WorkerExit(w)
  PROVE  IInv'
<1> USE DEF IInv
<1>1. /\ UNCHANGED <<stop, tasks, task, callVars, dpc, accepted, started, finished, spurious>>
      /\ \E pc \in WorkerPlaces : wpc' = [wpc EXCEPT ![w] = pc]
  BY DEF Spawn, WorkerLock, WorkerTest, WorkerBlock, WorkerExit, WorkerPlaces
<1>2. TypeOK'
  BY <1>1 DEF TypeOK, WorkerPlaces, callVars, Spawn, WorkerLock, WorkerTest, WorkerBlock, WorkerExit
<1>3. LockInv'
  BY PoolAssumption DEF TypeOK, LockInv, Spawn, WorkerLock, WorkerTest, WorkerBlock, WorkerExit
<1>4. SeenInv'
  BY DEF TypeOK, SeenInv, WaitPredicate, ExitTest,
         Spawn, WorkerLock, WorkerTest, WorkerBlock, WorkerExit
<1>5. StopInv'
  BY <1>1 DEF TypeOK, StopInv, callVars, Spawn, WorkerLock, WorkerTest, WorkerBlock, WorkerExit
<1>6. TakenInv' /\ OnlyTakenInv' /\ TakenInOrder'
  BY <1>1 DEF TakenInv, OnlyTakenInv, TakenInOrder
<1>7. NobodySleepsThroughStop'
  BY <1>1 DEF TypeOK, StopInv, NobodySleepsThroughStop, WaitPredicate, SeenInv,
              Spawn, WorkerLock, WorkerTest, WorkerBlock, WorkerExit
<1> QED
  BY <1>2, <1>3, <1>4, <1>5, <1>6, <1>7

LEMMA TakeStep ==
  ASSUME IInv, NEW w \in Workers, WorkerTake(w)
  PROVE  IInv'
<1> USE DEF IInv
<1>1. tasks # <<>> /\ tasks \in Seq(Tasks) /\ started \in Seq(Tasks)
  BY DEF TypeOK, SeenInv, WaitPredicate, ExitTest, WorkerTake
<1>2. /\ Head(tasks) \in Tasks
      /\ Tail(tasks) \in Seq(Tasks)
      /\ Append(started, Head(tasks)) \o Tail(tasks) = started \o tasks
  BY <1>1, MoveHead
<1>3. /\ started' = Append(started, Head(tasks))
      /\ started' \in Seq(Tasks)
      /\ Len(started') = Len(started) + 1 /\ Len(started) \in Nat
      /\ \A i \in 1 .. Len(started) : started'[i] = started[i]
      /\ started'[Len(started) + 1] = Head(tasks)
  BY <1>1, <1>2, AppendProperties, LenProperties DEF WorkerTake
<1>4. tasks' = Tail(tasks) /\ task' = [task EXCEPT ![w] = Head(tasks)]
  BY DEF WorkerTake, Popped
<1>5. /\ wpc' = [wpc EXCEPT ![w] = "run"] /\ wpc[w] = "take" /\ queue_mutex' = Nobody
      /\ UNCHANGED <<stop, epc, calls, dpc, accepted, finished, spurious>>
  BY DEF WorkerTake, callVars
<1>6. TypeOK'
  BY <1>2, <1>3, <1>4, <1>5 DEF TypeOK
<1>7. LockInv'
  BY <1>5, PoolAssumption DEF TypeOK, LockInv
<1>8. task[w] = Nobody /\ Head(tasks) # Nobody
  BY <1>2, <1>5, PoolAssumption DEF SeenInv, Tasks
<1>9. SeenInv'
  <2>1. \A v \in Workers : v # w => wpc[v] \notin {"block", "take", "done"}
    BY <1>1, <1>5 DEF LockInv, SeenInv, ExitTest
  <2> QED
    BY <1>4, <1>5, <1>8, <2>1 DEF TypeOK, SeenInv
<1>10. StopInv'
  BY <1>1, <1>5 DEF TypeOK, StopInv
<1>11. TakenInv'
  <2> SUFFICES ASSUME NEW i \in 1 .. Len(started')
               PROVE  started'[i] \in finished' \/ \E v \in Workers : task'[v] = started'[i]
    BY DEF TakenInv
  <2>1. CASE i = Len(started) + 1
    BY <1>3, <1>4, <2>1 DEF TypeOK
  <2>2. CASE i \in 1 .. Len(started)
    <3>1. started'[i] = started[i] /\ started[i] \in Tasks
      BY <1>1, <1>3, <2>2, ElementOfSeq
    <3>2. CASE started[i] \in finished
      BY <1>5, <3>1, <3>2
    <3>3. CASE \E v \in Workers : task[v] = started[i]
      <4>1. PICK v \in Workers : task[v] = started[i]
        BY <3>3
      <4>2. v # w
        BY <1>8, <3>1, <4>1, PoolAssumption DEF Tasks
      <4> QED
        BY <1>4, <3>1, <4>1, <4>2 DEF TypeOK
    <3> QED
      BY <2>2, <3>2, <3>3 DEF TakenInv
  <2> QED
    BY <1>3, <2>1, <2>2
<1>12. OnlyTakenInv'
  <2>1. \A i \in 1 .. Len(started) : i \in 1 .. Len(started')
    BY <1>3
  <2>2. Len(started) + 1 \in 1 .. Len(started')
    BY <1>3
  <2>3. ASSUME NEW t \in finished' PROVE \E i \in 1 .. Len(started') : started'[i] = t
    BY <1>3, <1>5, <2>1 DEF OnlyTakenInv
  <2>4. ASSUME NEW v \in Workers, task'[v] # Nobody
        PROVE  \E i \in 1 .. Len(started') : started'[i] = task'[v]
    <3>1. CASE v = w
      BY <1>3, <1>4, <2>2, <3>1 DEF TypeOK
    <3>2. CASE v # w
      BY <1>3, <1>4, <2>1, <2>4, <3>2 DEF TypeOK, OnlyTakenInv
    <3> QED
      BY <3>1, <3>2
  <2> QED
    BY <2>3, <2>4 DEF OnlyTakenInv
<1>13. TakenInOrder'
  BY <1>2, <1>3, <1>4, <1>5 DEF TakenInOrder
<1>14. NobodySleepsThroughStop'
  BY <1>5 DEF TypeOK, NobodySleepsThroughStop
<1> QED
  BY <1>6, <1>7, <1>9, <1>10, <1>11, <1>12, <1>13, <1>14

LEMMA RunStep ==
  ASSUME IInv, NEW w \in Workers, WorkerRun(w)
  PROVE  IInv'
<1> USE DEF IInv
<1>1. /\ finished' = finished \cup {task[w]} /\ task' = [task EXCEPT ![w] = Nobody]
      /\ wpc' = [wpc EXCEPT ![w] = "lock"] /\ wpc[w] = "run"
      /\ UNCHANGED <<queue_mutex, stop, tasks, epc, calls, dpc, accepted, started, spurious>>
  BY DEF WorkerRun, callVars
<1>2. task[w] \in Tasks /\ task[w] # Nobody
  BY <1>1 DEF TypeOK, SeenInv
<1>3. TypeOK'
  BY <1>1, <1>2 DEF TypeOK
<1>4. LockInv' /\ SeenInv'
  BY <1>1, <1>2 DEF TypeOK, LockInv, SeenInv, WaitPredicate, ExitTest
<1>5. StopInv'
  BY <1>1 DEF TypeOK, StopInv
<1>6. TakenInv'
  BY <1>1 DEF TypeOK, TakenInv
<1>7. OnlyTakenInv'
  BY <1>1, <1>2 DEF TypeOK, OnlyTakenInv
<1>8. TakenInOrder' /\ NobodySleepsThroughStop'
  BY <1>1 DEF TypeOK, TakenInOrder, NobodySleepsThroughStop
<1> QED
  BY <1>3, <1>4, <1>5, <1>6, <1>7, <1>8

LEMMA EnqueueStep ==
  ASSUME IInv, NEW c \in Callers, EnqueueCall(c) \/ EnqueueReject(c) \/ EnqueueNotify(c)
  PROVE  IInv'
<1> USE DEF IInv
<1>1. UNCHANGED <<queue_mutex, stop, tasks, task, dpc, accepted, started, finished, spurious>>
  BY DEF EnqueueCall, EnqueueReject, EnqueueNotify
<1>2. \/ wpc' = wpc
      \/ \E w \in Sleeping : wpc' = [wpc EXCEPT ![w] = "lock"]
  BY DEF EnqueueCall, EnqueueReject, EnqueueNotify, NotifyOne
<1>3. /\ wpc' \in [Workers -> WorkerPlaces]
      /\ \A w \in Workers : \/ wpc'[w] = wpc[w]
                            \/ wpc[w] = "waiting" /\ wpc'[w] = "lock"
  BY <1>2 DEF TypeOK, Sleeping, WorkerPlaces
<1>4. /\ epc' \in [Callers -> {"idle", "want", "notify"}]
      /\ calls' \in [Callers -> 0 .. MaxEnqueue]
      /\ \A d \in Callers : epc'[d] = "want" => calls'[d] \in 1 .. MaxEnqueue
  <2>1. CASE EnqueueCall(c)
    <3>1. calls[c] + 1 \in 1 .. MaxEnqueue
      BY <2>1, PoolAssumption DEF TypeOK, EnqueueCall
    <3>2. calls' \in [Callers -> 0 .. MaxEnqueue]
      BY <2>1, <3>1 DEF TypeOK, EnqueueCall
    <3> QED
      BY <2>1, <3>1, <3>2 DEF TypeOK, StopInv, EnqueueCall
  <2>2. CASE EnqueueReject(c) \/ EnqueueNotify(c)
    BY <2>2 DEF TypeOK, StopInv, EnqueueReject, EnqueueNotify
  <2> QED
    BY <2>1, <2>2
<1>5. TypeOK'
  BY <1>1, <1>3, <1>4 DEF TypeOK, WorkerPlaces
<1>6. LockInv' /\ SeenInv'
  BY <1>1, <1>3 DEF LockInv, SeenInv, WaitPredicate, ExitTest
<1>7. StopInv' /\ NobodySleepsThroughStop'
  BY <1>1, <1>3, <1>4 DEF StopInv, NobodySleepsThroughStop
<1>8. TakenInv' /\ OnlyTakenInv' /\ TakenInOrder'
  BY <1>1 DEF TakenInv, OnlyTakenInv, TakenInOrder
<1> QED
  BY <1>5, <1>6, <1>7, <1>8

(* A push finds the mutex free, so no worker has seen the queue it changes. *)
LEMMA PushStep ==
  ASSUME IInv, NEW c \in Callers, EnqueuePush(c)
  PROVE  IInv'
<1> USE DEF IInv
<1> DEFINE t == TaskOf(c)
<1>1. t \in Tasks
  BY DEF EnqueuePush, TaskOf, StopInv, Tasks
<1>2. tasks' = Append(tasks, t) /\ accepted' = Append(accepted, t)
  BY DEF EnqueuePush
<1>3. /\ ~stop /\ queue_mutex = Nobody
      /\ epc' = [epc EXCEPT ![c] = "notify"]
      /\ UNCHANGED <<queue_mutex, stop, wpc, task, calls, dpc, started, finished, spurious>>
  BY DEF EnqueuePush, Rejects
<1> HIDE DEF t
<1>4. tasks' \in Seq(Tasks) /\ accepted' \in Seq(Tasks)
  BY <1>1, <1>2, AppendProperties DEF TypeOK
<1>5. TypeOK'
  BY <1>3, <1>4 DEF TypeOK
<1>6. LockInv'
  BY <1>3 DEF LockInv
<1>7. SeenInv'
  BY <1>3, PoolAssumption DEF LockInv, SeenInv, ExitTest
<1>8. StopInv' /\ NobodySleepsThroughStop'
  BY <1>3 DEF TypeOK, StopInv, NobodySleepsThroughStop
<1>9. TakenInv' /\ OnlyTakenInv'
  BY <1>3 DEF TakenInv, OnlyTakenInv
<1>10. TakenInOrder'
  <2>1. /\ tasks \in Seq(Tasks) /\ started \in Seq(Tasks) /\ <<t>> \in Seq(Tasks)
        /\ started \o tasks \in Seq(Tasks)
    BY <1>1, ConcatProperties DEF TypeOK
  <2>2. /\ Append(tasks, t) = tasks \o <<t>>
        /\ Append(started \o tasks, t) = (started \o tasks) \o <<t>>
    BY <1>1, <2>1, AppendIsConcat
  <2>3. accepted = started \o tasks
    BY DEF TakenInOrder
  <2>4. tasks' = tasks \o <<t>> /\ accepted' = (started \o tasks) \o <<t>>
    BY <1>2, <2>2, <2>3
  <2>5. started \o (tasks \o <<t>>) = (started \o tasks) \o <<t>>
    BY <2>1, ConcatAssociative
  <2> QED
    BY <1>3, <2>4, <2>5 DEF TakenInOrder
<1> QED
  BY <1>5, <1>6, <1>7, <1>8, <1>9, <1>10

(* The destructor sets stop when the mutex is free and wakes every sleeper. *)
LEMMA DestroyStep ==
  ASSUME IInv, Destroy \/ SpuriousWakeup
  PROVE  IInv'
<1> USE DEF IInv
<1>1. UNCHANGED <<queue_mutex, tasks, task, epc, calls, accepted, started, finished>>
  BY DEF Destroy, DestroySet, DestroyNotify, DestroyJoin, SpuriousWakeup, callVars
<1>2. /\ wpc' \in [Workers -> WorkerPlaces]
      /\ \A w \in Workers : \/ wpc'[w] = wpc[w]
                            \/ wpc[w] = "waiting" /\ wpc'[w] = "lock"
  <2>1. CASE DestroySet \/ DestroyJoin
    BY <2>1 DEF TypeOK, WorkerPlaces, DestroySet, DestroyJoin
  <2>2. CASE DestroyNotify
    BY <2>2 DEF TypeOK, WorkerPlaces, DestroyNotify, NotifyAll, Sleeping
  <2>3. CASE SpuriousWakeup
    BY <2>3 DEF TypeOK, WorkerPlaces, SpuriousWakeup, Sleeping
  <2> QED
    BY <2>1, <2>2, <2>3 DEF Destroy
<1>3. TypeOK'
  <2>1. spurious' \in 0 .. MaxSpurious
    BY PoolAssumption
    DEF TypeOK, Destroy, DestroySet, DestroyNotify, DestroyJoin, SpuriousWakeup
  <2>2. stop' \in BOOLEAN /\ dpc' \in {"running", "notify", "join", "gone"}
    BY DEF TypeOK, Destroy, DestroySet, DestroyNotify, DestroyJoin, SpuriousWakeup
  <2> QED
    BY <1>1, <1>2, <2>1, <2>2 DEF TypeOK, WorkerPlaces
<1>4. LockInv'
  BY <1>1, <1>2 DEF LockInv
<1>5. SeenInv'
  <2>1. CASE DestroySet
    BY <1>1, <2>1, PoolAssumption
    DEF DestroySet, StopLock, TypeOK, LockInv, SeenInv, WaitPredicate, ExitTest
  <2>2. CASE stop' = stop
    BY <1>1, <1>2, <2>2 DEF SeenInv, WaitPredicate, ExitTest
  <2> QED
    BY <2>1, <2>2 DEF Destroy, DestroyNotify, DestroyJoin, SpuriousWakeup
<1>6. StopInv'
  BY <1>1, <1>2
  DEF TypeOK, StopInv, Destroy, DestroySet, DestroyNotify, DestroyJoin, SpuriousWakeup
<1>7. NobodySleepsThroughStop'
  <2>1. CASE DestroyNotify
    <3>1. stop
      BY <2>1 DEF StopInv, DestroyNotify
    <3>2. \A w \in Workers : wpc[w] # "block"
      BY <3>1 DEF SeenInv, WaitPredicate
    <3> QED
      BY <2>1, <3>2 DEF TypeOK, DestroyNotify, NotifyAll, Sleeping, NobodySleepsThroughStop
  <2>2. CASE DestroySet \/ DestroyJoin \/ SpuriousWakeup
    BY <1>2, <2>2 DEF NobodySleepsThroughStop, DestroySet, DestroyJoin, SpuriousWakeup
  <2> QED
    BY <2>1, <2>2 DEF Destroy
<1>8. TakenInv' /\ OnlyTakenInv' /\ TakenInOrder'
  BY <1>1 DEF TakenInv, OnlyTakenInv, TakenInOrder
<1> QED
  BY <1>3, <1>4, <1>5, <1>6, <1>7, <1>8

LEMMA StutterStep ==
  ASSUME IInv, UNCHANGED vars
  PROVE  IInv'
BY DEF IInv, TypeOK, LockInv, SeenInv, StopInv, TakenInv, OnlyTakenInv, TakenInOrder,
       NobodySleepsThroughStop, WaitPredicate, ExitTest, vars

(* The inductive invariant of ThreadPool.                                   *)
THEOREM Invariance == Spec => []IInv
<1>1. IInv /\ [Next]_vars => IInv'
  <2> SUFFICES ASSUME IInv, [Next]_vars PROVE IInv'
    OBVIOUS
  <2>1. ASSUME NEW w \in Workers, Worker(w) PROVE IInv'
    BY <2>1, WorkerStep, TakeStep, RunStep DEF Worker
  <2>2. ASSUME NEW c \in Callers, enqueue(c) PROVE IInv'
    BY <2>2, EnqueueStep, PushStep DEF enqueue
  <2>3. CASE Destroy \/ SpuriousWakeup
    BY <2>3, DestroyStep
  <2>4. CASE UNCHANGED vars
    BY <2>4, StutterStep
  <2> QED
    BY <2>1, <2>2, <2>3, <2>4 DEF Next
<1> QED
  BY InitIInv, <1>1, PTL DEF Spec

-----------------------------------------------------------------------------
(* What follows from the invariant.                                         *)

(* Every variable of the pool keeps its type.                               *)
THEOREM TypeCorrect == Spec => []TypeOK
<1>1. IInv => TypeOK
  BY DEF IInv
<1> QED
  BY Invariance, <1>1, PTL

(* Workers take tasks in the order in which enqueue accepted them.          *)
THEOREM FirstInFirstTaken == Spec => []TakenInOrder
<1>1. IInv => TakenInOrder
  BY DEF IInv
<1> QED
  BY Invariance, <1>1, PTL

(* After the destructor's notify_all no worker sleeps, or ever will.        *)
THEOREM StopIsHeard == Spec => []NobodySleepsThroughStop
<1>1. IInv => NobodySleepsThroughStop
  BY DEF IInv
<1> QED
  BY Invariance, <1>1, PTL

(* When the workers have nothing to take and nothing to run, all has run.   *)
LEMMA AllHasRun ==
  ASSUME IInv, tasks = <<>>, \A w \in Workers : task[w] = Nobody
  PROVE  finished = {accepted[i] : i \in 1 .. Len(accepted)}
<1>1. accepted = started
  BY ConcatEmptySeq DEF IInv, TypeOK, TakenInOrder
<1>2. \A i \in 1 .. Len(started) : started[i] \in finished
  <2> SUFFICES ASSUME NEW i \in 1 .. Len(started) PROVE started[i] \in finished
    OBVIOUS
  <2>1. started[i] \in Tasks
    BY ElementOfSeq DEF IInv, TypeOK
  <2>2. started[i] # Nobody
    BY <2>1, PoolAssumption DEF Tasks
  <2> QED
    BY <2>2 DEF IInv, TakenInv
<1> QED
  BY <1>1, <1>2 DEF IInv, OnlyTakenInv

(* A pool that has a worker has run everything when its destructor returns. *)
THEOREM Drained ==
  ASSUME Workers # {}
  PROVE  Spec => []DrainedWhenGone
<1>1. IInv => DrainedWhenGone
  <2> SUFFICES ASSUME IInv, dpc = "gone"
               PROVE  finished = {accepted[i] : i \in 1 .. Len(accepted)}
    BY DEF DrainedWhenGone
  <2>1. \A w \in Workers : wpc[w] = "done" /\ task[w] = Nobody /\ tasks = <<>>
    BY DEF IInv, StopInv, SeenInv, ExitTest
  <2>2. tasks = <<>>
    BY <2>1
  <2> QED
    BY <2>1, <2>2, AllHasRun
<1> QED
  BY Invariance, <1>1, PTL

-----------------------------------------------------------------------------
(* Every queued task has a worker of its own as long as somebody sleeps.    *)

LEMMA FiniteParts ==
  /\ IsFiniteSet(Awake) /\ Cardinality(Awake) \in Nat
  /\ IsFiniteSet(Notifying) /\ Cardinality(Notifying) \in Nat
<1>1. Awake \in SUBSET Workers /\ Notifying \in SUBSET Callers
  BY DEF Awake, Notifying
<1>2. IsFiniteSet(Awake) /\ IsFiniteSet(Notifying)
  BY <1>1, PoolAssumption, FS_Subset
<1> QED
  BY <1>2, FS_CardinalityType

LEMMA BehindWorkerStep ==
  ASSUME IInv, NoTaskBehindASleeper, NEW w \in Workers, Worker(w)
  PROVE  NoTaskBehindASleeper'
<1> USE DEF NoTaskBehindASleeper, IInv
<1>0. Len(tasks) \in Nat
  BY LenProperties DEF TypeOK
<1>1. epc' = epc /\ Notifying' = Notifying
  BY DEF Worker, Spawn, WorkerLock, WorkerTest, WorkerBlock, WorkerExit, WorkerTake,
         WorkerRun, callVars, Notifying
<1>2. CASE tasks = <<>> /\ tasks' = tasks
  <2>1. Len(tasks') = 0
    BY <1>2, EmptySeq
  <2>2. IsFiniteSet(Awake') /\ IsFiniteSet(Notifying)
    <3>1. Awake' \in SUBSET Workers
      BY DEF Awake
    <3> QED
      BY <3>1, FiniteParts, PoolAssumption, FS_Subset
  <2> QED
    BY <1>1, <2>1, <2>2, FS_CardinalityType
<1>3. CASE Spawn(w) \/ WorkerRun(w)
  <2>1. /\ Awake' = Awake \cup {w} /\ w \notin Awake
        /\ Sleeping' = Sleeping /\ tasks' = tasks
    BY <1>3 DEF TypeOK, Spawn, WorkerRun, Awake, Sleeping
  <2>2. Cardinality(Awake') = Cardinality(Awake) + 1
    BY <2>1, FiniteParts, FS_AddElement
  <2> QED
    BY <1>0, <1>1, <2>1, <2>2, FiniteParts
<1>4. CASE WorkerLock(w) \/ (WorkerTest(w) /\ WaitPredicate)
  <2>1. Awake' = Awake /\ Sleeping' = Sleeping /\ tasks' = tasks
    BY <1>4 DEF TypeOK, WorkerLock, WorkerTest, Awake, Sleeping
  <2> QED
    BY <1>1, <2>1
<1>5. CASE WorkerTake(w)
  <2>1. tasks # <<>>
    BY <1>5 DEF SeenInv, WaitPredicate, ExitTest, WorkerTake
  <2>2. Len(tasks') = Len(tasks) - 1
    BY <1>5, <2>1, HeadTailProperties DEF TypeOK, WorkerTake, Popped
  <2>3. Awake' = Awake \ {w} /\ w \in Awake /\ Sleeping' = Sleeping
    BY <1>5 DEF TypeOK, WorkerTake, Awake, Sleeping
  <2>4. Cardinality(Awake') = Cardinality(Awake) - 1
    BY <2>3, FiniteParts, FS_RemoveElement
  <2> QED
    BY <1>0, <1>1, <2>2, <2>3, <2>4, FiniteParts
<1>6. CASE \/ WorkerTest(w) /\ ~WaitPredicate
           \/ WorkerBlock(w)
           \/ WorkerExit(w)
  BY <1>2, <1>6 DEF SeenInv, WaitPredicate, ExitTest, WorkerTest, WorkerBlock, WorkerExit
<1> QED
  BY <1>3, <1>4, <1>5, <1>6 DEF Worker

LEMMA BehindEnqueueStep ==
  ASSUME IInv, NoTaskBehindASleeper, NEW c \in Callers, enqueue(c)
  PROVE  NoTaskBehindASleeper'
<1> USE DEF NoTaskBehindASleeper, IInv
<1>0. Len(tasks) \in Nat
  BY LenProperties DEF TypeOK
<1>1. CASE EnqueueCall(c) \/ EnqueueReject(c)
  <2>1. Notifying' = Notifying /\ wpc' = wpc /\ tasks' = tasks
    BY <1>1 DEF TypeOK, EnqueueCall, EnqueueReject, Notifying
  <2> QED
    BY <2>1 DEF Awake, Sleeping
<1>2. CASE EnqueuePush(c)
  <2>1. Len(tasks') = Len(tasks) + 1
    <3>1. TaskOf(c) \in Tasks
      BY <1>2 DEF EnqueuePush, TaskOf, StopInv, Tasks
    <3> QED
      BY <1>2, <3>1, AppendProperties DEF TypeOK, EnqueuePush
  <2>2. wpc' = wpc /\ Notifying' = Notifying \cup {c} /\ c \notin Notifying
    BY <1>2 DEF TypeOK, EnqueuePush, Notifying
  <2>3. Cardinality(Notifying') = Cardinality(Notifying) + 1
    BY <2>2, FiniteParts, FS_AddElement
  <2>4. Awake' = Awake /\ Sleeping' = Sleeping
    BY <2>2 DEF Awake, Sleeping
  <2> QED
    BY <1>0, <2>1, <2>3, <2>4, FiniteParts
<1>3. CASE EnqueueNotify(c)
  <2>1. Notifying' = Notifying \ {c} /\ c \in Notifying /\ tasks' = tasks
    BY <1>3 DEF TypeOK, EnqueueNotify, Notifying
  <2>2. Cardinality(Notifying') = Cardinality(Notifying) - 1
    BY <2>1, FiniteParts, FS_RemoveElement
  <2>3. CASE Sleeping = {}
    BY <1>3, <2>3 DEF EnqueueNotify, NotifyOne, Sleeping
  <2>4. CASE Sleeping # {}
    <3>1. PICK w \in Sleeping : wpc' = [wpc EXCEPT ![w] = "lock"]
      BY <1>3, <2>4 DEF EnqueueNotify, NotifyOne
    <3>2. Awake' = Awake \cup {w} /\ w \notin Awake
      BY <3>1 DEF TypeOK, Awake, Sleeping
    <3>3. Cardinality(Awake') = Cardinality(Awake) + 1
      BY <3>2, FiniteParts, FS_AddElement
    <3> QED
      BY <1>0, <2>1, <2>2, <2>4, <3>3, FiniteParts
  <2> QED
    BY <2>3, <2>4
<1> QED
  BY <1>1, <1>2, <1>3 DEF enqueue

LEMMA BehindOtherStep ==
  ASSUME IInv, NoTaskBehindASleeper, Destroy \/ SpuriousWakeup
  PROVE  NoTaskBehindASleeper'
<1> USE DEF NoTaskBehindASleeper, IInv
<1>0. Len(tasks) \in Nat
  BY LenProperties DEF TypeOK
<1>1. tasks' = tasks /\ Notifying' = Notifying
  BY DEF Destroy, DestroySet, DestroyNotify, DestroyJoin, SpuriousWakeup, callVars, Notifying
<1>2. CASE DestroySet \/ DestroyJoin
  BY <1>1, <1>2 DEF DestroySet, DestroyJoin, Awake, Sleeping
<1>3. CASE DestroyNotify
  BY <1>3 DEF DestroyNotify, NotifyAll, Sleeping
<1>4. CASE SpuriousWakeup
  <2>1. PICK w \in Sleeping : wpc' = [wpc EXCEPT ![w] = "lock"]
    BY <1>4 DEF SpuriousWakeup
  <2>2. Awake' = Awake \cup {w} /\ w \notin Awake
    BY <2>1 DEF TypeOK, Awake, Sleeping
  <2>3. Cardinality(Awake') = Cardinality(Awake) + 1
    BY <2>2, FiniteParts, FS_AddElement
  <2> QED
    BY <1>0, <1>1, <2>1, <2>3, FiniteParts
<1> QED
  BY <1>2, <1>3, <1>4 DEF Destroy

(* No task waits behind a running one while a worker sleeps.                *)
THEOREM NoneBehind == Spec => []NoTaskBehindASleeper
<1>1. Init => NoTaskBehindASleeper
  BY DEF Init, NoTaskBehindASleeper, Sleeping
<1>2. IInv /\ NoTaskBehindASleeper /\ [Next]_vars => NoTaskBehindASleeper'
  <2> SUFFICES ASSUME IInv, NoTaskBehindASleeper, [Next]_vars
               PROVE  NoTaskBehindASleeper'
    OBVIOUS
  <2>1. CASE UNCHANGED vars
    BY <2>1 DEF vars, NoTaskBehindASleeper, Sleeping, Awake, Notifying
  <2>2. CASE Next
    BY <2>2, BehindWorkerStep, BehindEnqueueStep, BehindOtherStep DEF Next
  <2> QED
    BY <2>1, <2>2
<1> QED
  BY <1>1, <1>2, Invariance, PTL DEF Spec

-----------------------------------------------------------------------------
(* The abstract pool.                                                       *)

(* A caller has queued no call it has not made, and not yet the one it is   *)
(* about to queue.                                                          *)
CallInv ==
  \A i \in 1 .. Len(accepted) :
    /\ accepted[i].call <= calls[accepted[i].caller]
    /\ epc[accepted[i].caller] = "want" => accepted[i].call < calls[accepted[i].caller]

LEMMA CallStep ==
  ASSUME IInv, CallInv, [Next]_vars
  PROVE  CallInv'
<1>1. /\ accepted \in Seq(Tasks) /\ Len(accepted) \in Nat
      /\ epc \in [Callers -> {"idle", "want", "notify"}]
      /\ calls \in [Callers -> 0 .. MaxEnqueue]
  BY LenProperties DEF IInv, TypeOK
<1>2. \A i \in 1 .. Len(accepted) :
        accepted[i].caller \in Callers /\ accepted[i].call \in Nat
  <2>1. \A i \in 1 .. Len(accepted) : accepted[i] \in Tasks
    BY <1>1, ElementOfSeq
  <2>2. \A t \in Tasks : t.caller \in Callers /\ t.call \in Nat
    BY DEF Tasks
  <2> QED
    BY <2>1, <2>2
<1>3. CASE UNCHANGED <<accepted, epc, calls>>
  BY <1>3 DEF CallInv
<1>4. ASSUME NEW c \in Callers, EnqueueCall(c) PROVE CallInv'
  <2>1. /\ accepted' = accepted /\ epc[c] = "idle"
        /\ epc' = [epc EXCEPT ![c] = "want"] /\ calls' = [calls EXCEPT ![c] = calls[c] + 1]
    BY <1>4 DEF EnqueueCall
  <2>2. \A d \in Callers : calls'[d] \in Nat /\ calls[d] \in Nat /\ calls[d] <= calls'[d]
    BY <1>1, <2>1, PoolAssumption
  <2>3. calls[c] < calls'[c]
    BY <1>1, <2>1, PoolAssumption
  <2>4. \A d \in Callers : d # c => calls'[d] = calls[d] /\ epc'[d] = epc[d]
    BY <1>1, <2>1
  <2> QED
    BY <1>1, <1>2, <2>1, <2>2, <2>3, <2>4 DEF CallInv
<1>5. ASSUME NEW c \in Callers, EnqueueReject(c) \/ EnqueueNotify(c) PROVE CallInv'
  <2>1. accepted' = accepted /\ calls' = calls /\ epc' = [epc EXCEPT ![c] = "idle"]
    BY <1>5 DEF EnqueueReject, EnqueueNotify
  <2>2. \A d \in Callers : epc'[d] = "want" => epc[d] = "want"
    BY <1>1, <2>1
  <2> QED
    BY <1>2, <2>1, <2>2 DEF CallInv
<1>6. ASSUME NEW c \in Callers, EnqueuePush(c) PROVE CallInv'
  <2> DEFINE t == TaskOf(c)
  <2>1. /\ t \in Tasks /\ t.caller = c /\ t.call = calls[c]
        /\ accepted' = Append(accepted, t)
        /\ calls' = calls /\ epc' = [epc EXCEPT ![c] = "notify"]
    BY <1>6 DEF EnqueuePush, TaskOf, IInv, StopInv, Tasks
  <2> HIDE DEF t
  <2>2. /\ Len(accepted') = Len(accepted) + 1
        /\ \A i \in 1 .. Len(accepted) : accepted'[i] = accepted[i]
        /\ accepted'[Len(accepted) + 1] = t
    BY <1>1, <2>1, AppendProperties
  <2> SUFFICES ASSUME NEW i \in 1 .. Len(accepted')
               PROVE  /\ accepted'[i].call <= calls[accepted'[i].caller]
                      /\ epc'[accepted'[i].caller] # "want"
                           \/ accepted'[i].call < calls[accepted'[i].caller]
    BY <2>1 DEF CallInv
  <2>3. CASE i = Len(accepted) + 1
    BY <1>1, <2>1, <2>2, <2>3
  <2>4. CASE i \in 1 .. Len(accepted)
    BY <1>1, <1>2, <2>1, <2>2, <2>4 DEF CallInv
  <2> QED
    BY <1>1, <2>2, <2>3, <2>4
<1>7. ASSUME NEW w \in Workers, Worker(w) PROVE CallInv'
  BY <1>3, <1>7 DEF Worker, Spawn, WorkerLock, WorkerTest, WorkerBlock, WorkerExit,
                    WorkerTake, WorkerRun, callVars
<1>8. CASE Destroy \/ SpuriousWakeup
  BY <1>3, <1>8 DEF Destroy, DestroySet, DestroyNotify, DestroyJoin, SpuriousWakeup, callVars
<1>9. CASE UNCHANGED vars
  BY <1>3, <1>9 DEF vars, callVars
<1> QED
  BY <1>4, <1>5, <1>6, <1>7, <1>8, <1>9 DEF Next, enqueue

LEMMA CallsCounted == Spec => []CallInv
<1>1. Init => CallInv
  BY EmptySeq DEF Init, CallInv
<1>2. IInv /\ CallInv /\ [Next]_vars => CallInv'
  BY CallStep
<1> QED
  BY <1>1, <1>2, Invariance, PTL DEF Spec

(* All the pool knows of has been accepted.                                 *)
LEMMA KnownWasAccepted ==
  ASSUME IInv, NEW t \in Pool!Queued \cup Pool!Running \cup finished
  PROVE  \E i \in 1 .. Len(accepted) : accepted[i] = t
<1>1. /\ tasks \in Seq(Tasks) /\ started \in Seq(Tasks) /\ accepted = started \o tasks
      /\ Len(tasks) \in Nat /\ Len(started) \in Nat
  BY LenProperties DEF IInv, TypeOK, TakenInOrder
<1>2. /\ Len(accepted) = Len(started) + Len(tasks)
      /\ \A i \in 1 .. Len(accepted) :
           accepted[i] = IF i <= Len(started) THEN started[i] ELSE tasks[i - Len(started)]
  BY <1>1, ConcatProperties
<1>3. CASE t \in Pool!Queued
  <2>1. PICK i \in DOMAIN tasks : t = tasks[i]
    BY <1>3 DEF Pool!Queued
  <2>2. i \in 1 .. Len(tasks)
    BY <1>1
  <2>3. i + Len(started) \in 1 .. Len(accepted) /\ ~(i + Len(started) <= Len(started))
        /\ (i + Len(started)) - Len(started) = i
    BY <1>1, <1>2, <2>2
  <2>4. accepted[i + Len(started)] = tasks[i]
    BY <1>2, <2>3
  <2> QED
    BY <2>1, <2>3, <2>4
<1>4. CASE t \in Pool!Running \cup finished
  <2>1. \E i \in 1 .. Len(started) : started[i] = t
    BY <1>4 DEF Pool!Running, IInv, OnlyTakenInv
  <2>2. PICK i \in 1 .. Len(started) : started[i] = t
    BY <2>1
  <2>3. i \in 1 .. Len(accepted) /\ i <= Len(started)
    BY <1>1, <1>2, <2>2
  <2>4. accepted[i] = started[i]
    BY <1>2, <2>3
  <2> QED
    BY <2>2, <2>3, <2>4
<1> QED
  BY <1>3, <1>4

LEMMA InitPool == Init => Pool!PoolInit
BY DEF Init, Pool!PoolInit

LEMMA StepPool ==
  ASSUME IInv, CallInv, Workers # {}, [Next]_vars
  PROVE  [Pool!PoolNext]_(Pool!poolVars)
<1> USE DEF Pool!PoolNext
<1>1. CASE UNCHANGED <<tasks, task, finished, stop, dpc>>
  BY <1>1 DEF Pool!poolVars
<1>2. ASSUME NEW w \in Workers, WorkerTake(w) PROVE Pool!Take(w)
  <2>1. task[w] = Nobody /\ tasks # <<>>
    BY <1>2 DEF IInv, SeenInv, WaitPredicate, ExitTest, WorkerTake
  <2> QED
    BY <1>2, <2>1 DEF WorkerTake, Popped, Pool!Take
<1>3. ASSUME NEW w \in Workers, WorkerRun(w) PROVE Pool!Finish(w)
  BY <1>3 DEF WorkerRun, IInv, SeenInv, Pool!Finish
<1>4. ASSUME NEW c \in Callers, EnqueuePush(c) PROVE Pool!Accept(TaskOf(c))
  <2>1. TaskOf(c).call = calls[c] /\ TaskOf(c).caller = c /\ epc[c] = "want"
    BY <1>4 DEF TaskOf, EnqueuePush
  <2>2. \A i \in 1 .. Len(accepted) : accepted[i] # TaskOf(c)
    <3> SUFFICES ASSUME NEW i \in 1 .. Len(accepted), accepted[i] = TaskOf(c) PROVE FALSE
      OBVIOUS
    <3>1. calls[c] < calls[c] /\ calls[c] \in Nat
      BY <2>1 DEF CallInv, IInv, TypeOK
    <3> QED
      BY <3>1
  <2>3. TaskOf(c) \notin Pool!Queued \cup Pool!Running \cup finished
    BY <2>2, KnownWasAccepted
  <2>4. /\ ~stop /\ tasks' = Append(tasks, TaskOf(c))
        /\ UNCHANGED <<task, finished, stop, dpc>>
    BY <1>4 DEF EnqueuePush, Rejects
  <2> QED
    BY <2>3, <2>4 DEF Pool!Accept
<1>5. CASE DestroySet
  <2>1. stop = FALSE
    BY <1>5 DEF DestroySet, IInv, TypeOK, StopInv
  <2>2. (dpc = "gone") = FALSE /\ (dpc' = "gone") = FALSE
    BY <1>5 DEF DestroySet
  <2>3. Pool!Close
    BY <1>5, <2>1, <2>2 DEF DestroySet, Pool!Close
  <2> QED
    BY <2>3
<1>6. CASE DestroyJoin
  <2>1. stop /\ \A w \in Workers : task[w] = Nobody /\ tasks = <<>>
    BY <1>6 DEF DestroyJoin, IInv, StopInv, SeenInv, ExitTest
  <2>2. tasks = <<>>
    BY <2>1
  <2>3. Pool!Queued \cup Pool!Running = {}
    BY <2>1, <2>2, EmptySeq DEF Pool!Queued, Pool!Running
  <2>4. Pool!End
    BY <1>6, <2>1, <2>3 DEF DestroyJoin, Pool!End
  <2> QED
    BY <2>4
<1>7. CASE DestroyNotify \/ SpuriousWakeup
  <2>1. UNCHANGED <<tasks, task, finished, stop>> /\ (dpc' = "gone" <=> dpc = "gone")
    BY <1>7 DEF DestroyNotify, SpuriousWakeup
  <2>2. (dpc' = "gone") = (dpc = "gone")
    BY <2>1
  <2> QED
    BY <2>1, <2>2 DEF Pool!poolVars
<1>8. ASSUME NEW w \in Workers,
             \/ Spawn(w) \/ WorkerLock(w) \/ WorkerTest(w) \/ WorkerBlock(w) \/ WorkerExit(w)
      PROVE  UNCHANGED Pool!poolVars
  BY <1>8 DEF Pool!poolVars, Spawn, WorkerLock, WorkerTest, WorkerBlock, WorkerExit
<1>9. ASSUME NEW c \in Callers, EnqueueCall(c) \/ EnqueueReject(c) \/ EnqueueNotify(c)
      PROVE  UNCHANGED Pool!poolVars
  BY <1>9 DEF Pool!poolVars, EnqueueCall, EnqueueReject, EnqueueNotify
<1>10. ASSUME NEW c \in Callers, EnqueuePush(c) PROVE Pool!PoolNext
  <2>1. TaskOf(c) \in Tasks
    BY <1>10 DEF EnqueuePush, TaskOf, IInv, StopInv, Tasks
  <2> QED
    BY <1>4, <1>10, <2>1
<1>11. ASSUME NEW w \in Workers, Worker(w) PROVE [Pool!PoolNext]_(Pool!poolVars)
  BY <1>2, <1>3, <1>8, <1>11 DEF Worker
<1>12. ASSUME NEW c \in Callers, enqueue(c) PROVE [Pool!PoolNext]_(Pool!poolVars)
  BY <1>9, <1>10, <1>12 DEF enqueue
<1>13. CASE UNCHANGED vars
  BY <1>1, <1>13 DEF vars
<1> QED
  BY <1>5, <1>6, <1>7, <1>11, <1>12, <1>13 DEF Next, Destroy

(* A pool with a worker implements the abstract pool: no call is queued     *)
(* twice, tasks are taken oldest first, and none is left when it is gone.   *)
THEOREM PoolRefinement ==
  ASSUME Workers # {}
  PROVE  Spec => ImplementsPool
<1>1. IInv /\ CallInv /\ [Next]_vars => [Pool!PoolNext]_(Pool!poolVars)
  BY StepPool
<1> QED
  BY InitPool, <1>1, Invariance, CallsCounted, PTL DEF Spec, ImplementsPool, Pool!PoolSpec

-----------------------------------------------------------------------------
(* Each task once                                                            *)

(* The same places, from the module that proves about them.                 *)
Places ==
  INSTANCE TaskPoolProofs WITH
    queue <- tasks, running <- task, closed <- stop, gone <- (dpc = "gone"),
    NoTask <- Nobody

(* A call of enqueue is at one place at a time: no task is queued twice or  *)
(* run by two workers, and none is left in the queue or in a worker's hands *)
(* that has already run (ThreadPoll.hpp:41-53, 78-84).                      *)
THEOREM EachTaskOnce ==
  ASSUME Workers # {}
  PROVE  Spec => []Pool!OnePlaceEach
<1>1. Nobody \notin Tasks
  BY PoolAssumption DEF Tasks
<1>2. ImplementsPool => Places!PoolSpec
  BY PTL
     DEF ImplementsPool, Pool!PoolSpec, Places!PoolSpec, Pool!PoolInit, Places!PoolInit,
         Pool!PoolNext, Places!PoolNext, Pool!poolVars, Places!poolVars,
         Pool!Accept, Places!Accept, Pool!Take, Places!Take, Pool!Finish, Places!Finish,
         Pool!Close, Places!Close, Pool!End, Places!End,
         Pool!Queued, Places!Queued, Pool!Running, Places!Running
<1>3. Places!PoolSpec => []Places!OnePlaceEach
  BY <1>1, Places!RunsOnce
<1>4. Places!OnePlaceEach => Pool!OnePlaceEach
  BY DEF Places!OnePlaceEach, Pool!OnePlaceEach,
         Pool!Queued, Places!Queued, Pool!Running, Places!Running
<1>5. QED
  BY <1>2, <1>3, <1>4, PoolRefinement, PTL

-----------------------------------------------------------------------------
(* Nothing hangs.                                                           *)

(* Somebody who holds the mutex can go on.                                  *)
LEMMA MutexFreeAtRest ==
  ASSUME IInv, AtRest
  PROVE  queue_mutex = Nobody
BY DEF IInv, TypeOK, LockInv, AtRest, WorkerReady

(* A pool with a worker comes to rest only when every call has returned and *)
(* everything has run: no wakeup is lost, by enqueue or by the destructor.  *)
THEOREM NothingHangs ==
  ASSUME Workers # {}
  PROVE  Spec => []RestsOnlyWhenDone
<1>1. IInv /\ NoTaskBehindASleeper => RestsOnlyWhenDone
  <2> SUFFICES ASSUME IInv, NoTaskBehindASleeper, AtRest
               PROVE  /\ \A c \in Callers : epc[c] = "idle"
                      /\ tasks = <<>>
                      /\ finished = {accepted[i] : i \in 1 .. Len(accepted)}
                      /\ dpc = "gone" \/ (dpc = "running" /\ Sleeping = Workers)
    BY DEF RestsOnlyWhenDone
  <2>1. queue_mutex = Nobody
    BY MutexFreeAtRest
  <2>2. \A w \in Workers : wpc[w] \in {"waiting", "done"}
    BY <2>1 DEF AtRest, WorkerReady, IInv, TypeOK
  <2>3. \A c \in Callers : epc[c] = "idle"
    BY <2>1 DEF AtRest, CallerReady, IInv, TypeOK
  <2>4. tasks = <<>>
    <3>1. CASE Sleeping # {}
      <4>1. Awake = {} /\ Notifying = {}
        BY <2>2, <2>3 DEF Awake, Notifying
      <4>2. Len(tasks) <= 0
        BY <3>1, <4>1, FS_EmptySet DEF NoTaskBehindASleeper
      <4> QED
        BY <4>2, LenProperties, EmptySeq DEF IInv, TypeOK
    <3>2. CASE Sleeping = {}
      <4>1. PICK w \in Workers : wpc[w] = "done"
        BY <2>2, <3>2 DEF Sleeping
      <4> QED
        BY <4>1 DEF IInv, SeenInv, ExitTest
    <3> QED
      BY <3>1, <3>2
  <2>5. finished = {accepted[i] : i \in 1 .. Len(accepted)}
    <3>1. \A w \in Workers : task[w] = Nobody
      BY <2>2 DEF IInv, SeenInv
    <3> QED
      BY <2>4, <3>1, AllHasRun
  <2>6. dpc = "gone" \/ (dpc = "running" /\ Sleeping = Workers)
    <3>1. CASE dpc = "running"
      <4>1. \A w \in Workers : wpc[w] # "done"
        BY <3>1 DEF IInv, StopInv, SeenInv, ExitTest
      <4> QED
        BY <2>2, <3>1, <4>1 DEF Sleeping
    <3>2. CASE dpc = "join"
      <4>1. \A w \in Workers : wpc[w] = "done"
        BY <2>2, <3>2 DEF IInv, NobodySleepsThroughStop
      <4> QED
        BY <2>3, <3>2, <4>1 DEF AtRest, OwnerReady
    <3> QED
      BY <3>1, <3>2 DEF AtRest, OwnerReady, IInv, TypeOK
  <2> QED
    BY <2>3, <2>4, <2>5, <2>6
<1> QED
  BY <1>1, Invariance, NoneBehind, PTL
=============================================================================
