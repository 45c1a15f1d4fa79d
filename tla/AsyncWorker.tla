----------------------------- MODULE AsyncWorker -----------------------------
(***************************************************************************)
(* mylog::AsyncWorker (logSystem/logsCode/AsyncWorker.hpp): producers push *)
(* messages into one buffer while a consumer thread swaps it with a second *)
(* one and hands the second to a callback.  One mutex and two condition    *)
(* variables; Stop() sets an atomic flag without taking the mutex.         *)
(*                                                                         *)
(* A step is what a thread does between two points where another thread    *)
(* can see or change what it uses.  A thread inside pthread_cond_wait is   *)
(* at "waiting" (it has released the mutex in the same step); a            *)
(* notification, or a spurious wakeup, sends it to ask for the mutex again.*)
(***************************************************************************)
EXTENDS AsyncBuffer

CONSTANTS
  Producers,    (* the threads that log                                     *)
  Consumer,     (* thread_                                                  *)
  Nobody,       (* the owner of a free mutex                                *)
  AsyncType,    (* async_type_: "ASYNC_SAFE" blocks a full producer         *)
  Lens,         (* the sizes a formatted message may have                   *)
  MaxPush,      (* bound: pushes per producer                               *)
  MaxSpurious   (* bound: spurious wakeups in a behaviour                   *)

ASSUME WorkerAssumption ==
  /\ Consumer \notin Producers
  /\ Nobody \notin Producers \cup {Consumer}
  /\ AsyncType \in {"ASYNC_SAFE", "ASYNC_UNSAFE"}
  /\ Lens \subseteq Nat \ {0}      \* LogMessage::format never yields ""
  /\ MaxPush \in Nat
  /\ MaxSpurious \in Nat

VARIABLES
  constructed,       (* the constructor has returned: callback_ is set      *)
  mtx,               (* the owner of mtx_                                   *)
  stop,              (* stop_                                               *)
  buffer_productor,
  buffer_consumer,
  ppc,               (* where each producer is in Push                      *)
  plen,              (* its argument len, 0 outside Push                    *)
  sent,              (* how many pushes it has begun                        *)
  cpc,               (* where the consumer is in ThreadEntry                *)
  spc,               (* where the owner is in Stop, called by ~AsyncWorker  *)
  accepted,          (* history: the messages written, in order             *)
  delivered,         (* history: the messages the callback got, in order    *)
  spurious           (* history: spurious wakeups so far                    *)

pushVars == <<ppc, plen, sent>>
history  == <<accepted, delivered>>
vars == <<constructed, mtx, stop, buffer_productor, buffer_consumer, ppc, plen,
          sent, cpc, spc, accepted, delivered, spurious>>

Messages == [src : Producers, seq : 1 .. MaxPush, len : Lens]

\* mutant: the length is lost, an empty message is written.
MessageOf_Empty(p) == [src |-> p, seq |-> sent[p], len |-> 0]

(* The message p is pushing: who pushes, its how-manieth, and how long.      *)
MessageOf(p) == [src |-> p, seq |-> sent[p], len |-> plen[p]]

(* The producers blocked on cond_productor_.                                 *)
Waiting == {p \in Producers : ppc[p] = "waiting"}

\* mutant: nobody is woken.
Notified_Nobody == cpc

(* Where the consumer is after a notification of cond_consumer_.             *)
Notified == IF cpc = "waiting" THEN "lock" ELSE cpc

Init ==
  /\ constructed = FALSE
  /\ mtx = Nobody
  /\ stop = FALSE
  /\ buffer_productor = NewBuffer
  /\ buffer_consumer = NewBuffer
  /\ ppc = [p \in Producers |-> "idle"]
  /\ plen = [p \in Producers |-> 0]
  /\ sent = [p \in Producers |-> 0]
  /\ cpc = "lock"
  /\ spc = "running"
  /\ accepted = <<>>
  /\ delivered = <<>>
  /\ spurious = 0

(* thread_ is declared before callback_, so it starts before callback_ is    *)
(* initialised: Init has the consumer running, and this step comes later.    *)
Construct ==
  /\ ~constructed
  /\ constructed' = TRUE
  /\ UNCHANGED <<mtx, stop, buffer_productor, buffer_consumer, pushVars, cpc,
                 spc, history, spurious>>

-----------------------------------------------------------------------------
(* Push(data, len)                                                           *)

(* A caller holds a shared pointer to the logger, so nobody pushes once the  *)
(* destructor runs.                                                          *)
PushCall(p) ==
  /\ constructed
  /\ spc = "running"
  /\ ppc[p] = "idle"
  /\ sent[p] < MaxPush
  /\ \E len \in Lens : plen' = [plen EXCEPT ![p] = len]
  /\ sent' = [sent EXCEPT ![p] = @ + 1]
  /\ ppc' = [ppc EXCEPT ![p] = "want"]
  /\ UNCHANGED <<constructed, mtx, stop, buffer_productor, buffer_consumer, cpc,
                 spc, history, spurious>>

PushLock(p) ==
  /\ ppc[p] = "want"
  /\ mtx = Nobody
  /\ mtx' = p
  /\ ppc' = [ppc EXCEPT ![p] = "locked"]
  /\ UNCHANGED <<constructed, stop, buffer_productor, buffer_consumer, plen,
                 sent, cpc, spc, history, spurious>>

HasRoom(p) ==
  AsyncType = "ASYNC_SAFE" => plen[p] <= WriteableSize(buffer_productor)

PushWait(p) ==
  /\ ppc[p] = "locked"
  /\ ~HasRoom(p)
  /\ mtx' = Nobody
  /\ ppc' = [ppc EXCEPT ![p] = "waiting"]
  /\ UNCHANGED <<constructed, stop, buffer_productor, buffer_consumer, plen,
                 sent, cpc, spc, history, spurious>>

PushWrite(p) ==
  /\ ppc[p] = "locked"
  /\ HasRoom(p)
  /\ buffer_productor' = Write(buffer_productor, MessageOf(p))
  /\ accepted' = Append(accepted, MessageOf(p))
  /\ ppc' = [ppc EXCEPT ![p] = "written"]
  /\ UNCHANGED <<constructed, mtx, stop, buffer_consumer, plen, sent, cpc, spc,
                 delivered, spurious>>

(* cond_consumer_.notify_one(), and the lock's destructor.                   *)
PushNotify(p) ==
  /\ ppc[p] = "written"
  /\ cpc' = Notified
  /\ mtx' = Nobody
  /\ ppc' = [ppc EXCEPT ![p] = "idle"]
  /\ plen' = [plen EXCEPT ![p] = 0]
  /\ UNCHANGED <<constructed, stop, buffer_productor, buffer_consumer, sent, spc,
                 history, spurious>>

-----------------------------------------------------------------------------
(* ThreadEntry()                                                             *)

ConsumerLock ==
  /\ cpc = "lock"
  /\ mtx = Nobody
  /\ mtx' = Consumer
  /\ cpc' = "test"
  /\ UNCHANGED <<constructed, stop, buffer_productor, buffer_consumer, pushVars,
                 spc, history, spurious>>

\* mutants: the wait has no predicate, or forgets stop_.
WaitPredicate_None == TRUE
WaitPredicate_NoStop == ~IsEmpty(buffer_productor)

(* The predicate of cond_consumer_.wait.                                     *)
WaitPredicate == stop \/ ~IsEmpty(buffer_productor)

ConsumerTest ==
  /\ cpc = "test"
  /\ cpc' = IF WaitPredicate THEN "swap" ELSE "block"
  /\ UNCHANGED <<constructed, mtx, stop, buffer_productor, buffer_consumer,
                 pushVars, spc, history, spurious>>

(* The predicate was false: release the mutex and sleep, atomically.         *)
ConsumerBlock ==
  /\ cpc = "block"
  /\ mtx' = Nobody
  /\ cpc' = "waiting"
  /\ UNCHANGED <<constructed, stop, buffer_productor, buffer_consumer, pushVars,
                 spc, history, spurious>>

\* mutant: the swap wakes no producer.
NotifyOneProducer_Missing == ppc' = ppc

(* cond_productor_.notify_one(): one of the blocked producers, whichever.    *)
NotifyOneProducer ==
  IF AsyncType = "ASYNC_SAFE" /\ Waiting # {}
  THEN \E p \in Waiting : ppc' = [ppc EXCEPT ![p] = "want"]
  ELSE ppc' = ppc

ConsumerSwap ==
  /\ cpc = "swap"
  /\ buffer_consumer' = buffer_productor
  /\ buffer_productor' = buffer_consumer
  /\ NotifyOneProducer
  /\ mtx' = Nobody
  /\ cpc' = "deliver"
  /\ UNCHANGED <<constructed, stop, plen, sent, spc, history, spurious>>

(* The callback and Reset; a swap with an empty buffer skips both.           *)
ConsumerDeliver ==
  /\ cpc = "deliver"
  /\ IF IsEmpty(buffer_consumer)
     THEN UNCHANGED <<delivered, buffer_consumer>>
     ELSE /\ delivered' = delivered \o buffer_consumer.data
          /\ buffer_consumer' = Reset(buffer_consumer)
  /\ cpc' = "check"
  /\ UNCHANGED <<constructed, mtx, stop, buffer_productor, pushVars, spc,
                 accepted, spurious>>

\* mutant: the thread ends although data is waiting.
ExitTest_StopOnly == stop

(* The exit test, which reads buffer_productor_ without the mutex.           *)
ExitTest == stop /\ IsEmpty(buffer_productor)

ConsumerCheck ==
  /\ cpc = "check"
  /\ cpc' = IF ExitTest THEN "done" ELSE "lock"
  /\ UNCHANGED <<constructed, mtx, stop, buffer_productor, buffer_consumer,
                 pushVars, spc, history, spurious>>

-----------------------------------------------------------------------------
(* Stop(), which only ~AsyncWorker calls                                     *)

(* The logger is shared_ptr-owned by whoever logs through it, so its worker  *)
(* is destroyed only when every producer has returned from Push.             *)
NoPushInProgress == \A p \in Producers : ppc[p] = "idle"

StopSet ==
  /\ constructed
  /\ spc = "running"
  /\ NoPushInProgress
  /\ stop' = TRUE
  /\ spc' = "notify"
  /\ UNCHANGED <<constructed, mtx, buffer_productor, buffer_consumer, pushVars,
                 cpc, history, spurious>>

(* notify_all: only a consumer that already sleeps hears it.                 *)
StopNotify ==
  /\ spc = "notify"
  /\ cpc' = Notified
  /\ spc' = "join"
  /\ UNCHANGED <<constructed, mtx, stop, buffer_productor, buffer_consumer,
                 pushVars, history, spurious>>

StopJoin ==
  /\ spc = "join"
  /\ cpc = "done"
  /\ spc' = "stopped"
  /\ UNCHANGED <<constructed, mtx, stop, buffer_productor, buffer_consumer,
                 pushVars, cpc, history, spurious>>

-----------------------------------------------------------------------------
(* The standard lets wait return without a notification.                     *)
SpuriousWakeup ==
  /\ spurious < MaxSpurious
  /\ spurious' = spurious + 1
  /\ \/ /\ cpc = "waiting"
        /\ cpc' = "lock"
        /\ UNCHANGED ppc
     \/ /\ \E p \in Waiting : ppc' = [ppc EXCEPT ![p] = "want"]
        /\ UNCHANGED cpc
  /\ UNCHANGED <<constructed, mtx, stop, buffer_productor, buffer_consumer, plen,
                 sent, spc, history>>

Push(p) ==
  PushCall(p) \/ PushLock(p) \/ PushWait(p) \/ PushWrite(p) \/ PushNotify(p)

ThreadEntry ==
  \/ ConsumerLock \/ ConsumerTest \/ ConsumerBlock
  \/ ConsumerSwap \/ ConsumerDeliver \/ ConsumerCheck

Stop == StopSet \/ StopNotify \/ StopJoin

Next ==
  \/ Construct
  \/ \E p \in Producers : Push(p)
  \/ ThreadEntry
  \/ Stop
  \/ SpuriousWakeup

Spec == Init /\ [][Next]_vars

(* Every thread keeps running: weak fairness of each thread's own steps. A   *)
(* caller need not log, the owner need not call Stop, and no spurious wakeup *)
(* is owed to anyone.                                                        *)
Fairness ==
  /\ WF_vars(Construct)
  /\ WF_vars(ThreadEntry)
  /\ WF_vars(StopNotify \/ StopJoin)
  /\ \A p \in Producers :
        WF_vars(PushLock(p) \/ PushWait(p) \/ PushWrite(p) \/ PushNotify(p))

FairSpec == Spec /\ Fairness

-----------------------------------------------------------------------------
Buffers == [size : Nat, write_pos : Nat, read_pos : Nat, data : Seq(Messages)]

(* The shape of the state.                                                   *)
TypeOK ==
  /\ constructed \in BOOLEAN
  /\ mtx \in Producers \cup {Consumer, Nobody}
  /\ stop \in BOOLEAN
  /\ buffer_productor \in Buffers
  /\ buffer_consumer \in Buffers
  /\ ppc \in [Producers -> {"idle", "want", "locked", "waiting", "written"}]
  /\ plen \in [Producers -> Lens \cup {0}]
  /\ sent \in [Producers -> 0 .. MaxPush]
  /\ cpc \in {"lock", "test", "block", "waiting", "swap", "deliver", "check", "done"}
  /\ spc \in {"running", "notify", "join", "stopped"}
  /\ accepted \in Seq(Messages)
  /\ delivered \in Seq(Messages)
  /\ spurious \in 0 .. MaxSpurious

(* Nothing is lost, repeated or reordered between Push and the callback:     *)
(* what was delivered, then what the consumer holds, then what waits in the  *)
(* producers' buffer, is what was accepted.  The swap keeps it only because  *)
(* the consumer's buffer was reset before the mutex was asked for.           *)
InOrderNoLoss ==
  delivered \o buffer_consumer.data \o buffer_productor.data = accepted

(* No write passes the end of a buffer's vector, so std::copy in             *)
(* Buffer::Push stays inside what ToBeEnough made room for.                  *)
NoOverrun ==
  /\ buffer_productor.write_pos <= buffer_productor.size
  /\ buffer_consumer.write_pos <= buffer_consumer.size

(* The thread starts before callback_ is initialised; it must not get past   *)
(* the wait, where it could call callback_, until the constructor is done.   *)
CallbackReady == cpc \in {"swap", "deliver", "check", "done"} => constructed

(* No lost wakeup from Push: if the consumer sleeps on a buffer with data in *)
(* it, the producer that wrote the data is still about to notify.            *)
NoLostPushWakeup ==
  cpc = "waiting" /\ ~IsEmpty(buffer_productor)
    => \E p \in Producers : ppc[p] = "written"

(* The sizes config.conf intends: any message fits an empty buffer.          *)
LensFit == \A len \in Lens : len <= BufferSize

(* A swap wakes one producer, not all.  That is enough: while a producer is  *)
(* blocked, either the buffer has data, so that another swap will come, or   *)
(* some producer is awake and will put data there.                           *)
NoStrandedProducer ==
  Waiting # {} =>
     \/ ~IsEmpty(buffer_productor)
     \/ \E p \in Producers : ppc[p] \in {"want", "locked", "written"}

(* Stop leaves nothing behind.  The exit test reads buffer_productor_        *)
(* without the mutex, but only when stop_ is set, and nobody writes then;    *)
(* when the thread has returned the callback has had all that was pushed;    *)
(* and when Stop has lost its wakeup, so that the thread sleeps for ever     *)
(* (see StopReturns), no message sleeps with it.                             *)
StopLeavesNothing ==
  /\ cpc = "check" /\ stop => \A p \in Producers : ppc[p] = "idle"
  /\ cpc = "done" => delivered = accepted
  /\ cpc = "waiting" /\ spc \in {"join", "stopped"} => delivered = accepted

(* Who could go on: the thread's next step waits for nothing, for a mutex    *)
(* that is free or for an end that has come.                                 *)
PusherReady(p) ==
  \/ ppc[p] \in {"locked", "written"}
  \/ ppc[p] = "want" /\ mtx = Nobody

ConsumerReady ==
  \/ cpc \in {"test", "block", "swap", "deliver", "check"}
  \/ cpc = "lock" /\ mtx = Nobody

OwnerReady ==
  \/ ~constructed
  \/ spc = "notify"
  \/ spc = "join" /\ cpc = "done"

AtRest ==
  /\ \A p \in Producers : ~PusherReady(p)
  /\ ~ConsumerReady
  /\ ~OwnerReady

(* The worker hangs at one place only: when no thread can go on by itself,   *)
(* every Push has returned, the callback has had everything, and either the  *)
(* consumer sleeps until somebody pushes or stops, or Stop has returned, or  *)
(* Stop has lost its wakeup (see StopReturns).                               *)
RestsOnlyWhenDelivered ==
  AtRest =>
    /\ NoPushInProgress
    /\ delivered = accepted
    /\ \/ cpc = "waiting" /\ spc \in {"running", "join"}
       \/ cpc = "done" /\ spc = "stopped"

(* The steps ThreadEntry still takes once Stop has notified it.              *)
StepsLeft ==
  CASE cpc = "lock"    -> 5
    [] cpc = "test"    -> 4
    [] cpc = "swap"    -> 3
    [] cpc = "deliver" -> IF IsEmpty(buffer_productor) THEN 2 ELSE 7
    [] cpc = "check"   -> IF IsEmpty(buffer_productor) THEN 1 ELSE 6
    [] OTHER           -> 0

(* A consumer that is awake when Stop joins stays awake, always has a step   *)
(* to take, and ends after at most seven of its own, whatever else happens.  *)
AwakeConsumerEnds ==
  [][spc = "join" /\ cpc \notin {"block", "waiting"} =>
       /\ ConsumerReady \/ cpc = "done"
       /\ cpc' \notin {"block", "waiting"}
       /\ StepsLeft' <= StepsLeft
       /\ ThreadEntry => StepsLeft' < StepsLeft]_vars

(* The detailed specification implements the abstract channel.               *)
Channel ==
  INSTANCE LogChannel WITH closed <- stop, finished <- (cpc = "done")

ImplementsChannel == Channel!ChannelSpec

-----------------------------------------------------------------------------
Contains(seq, m) == \E i \in 1 .. Len(seq) : seq[i] = m

(* Liveness, under FairSpec.                                                 *)

(* Push returns: a producer blocked on a full buffer gets its turn.          *)
PushReturns ==
  \A p \in Producers : (ppc[p] = "want") ~> (ppc[p] = "idle")

(* What was accepted reaches the callback, whether or not Stop is called.    *)
EverythingDelivered ==
  \A m \in Messages : Contains(accepted, m) ~> Contains(delivered, m)

(* Stop returns if the consumer is awake once notify_all has been called.    *)
StopReturnsIfAwake ==
  (spc = "join" /\ cpc \notin {"block", "waiting"}) ~> (spc = "stopped")

(* What the comments on Stop say (AsyncWorker.hpp:90-93): the thread         *)
(* finishes its data and ends, and join waits for that.                      *)
StopReturns == (spc = "notify") ~> (spc = "stopped")
=============================================================================
