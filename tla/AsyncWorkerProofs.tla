------------------------- MODULE AsyncWorkerProofs --------------------------
(***************************************************************************)
(* What the runs show of AsyncWorker on small instances, proved for every  *)
(* number of producers, message size, buffer size and number of pushes.    *)
(*                                                                         *)
(* InOrderNoLoss is not inductive: the swap keeps it only if the           *)
(* consumer's buffer is empty, and the exit test only if nobody is writing *)
(* when stop_ is set.  IInv adds who holds the mutex, what the buffers'    *)
(* positions say of their data, and what each place in a thread implies.   *)
(***************************************************************************)
EXTENDS AsyncWorker, SequenceTheorems, TLAPS

(* mtx_ is held exactly between a thread's lock and its unlock.             *)
LockInv ==
  /\ mtx = Consumer <=> cpc \in {"test", "block", "swap"}
  /\ \A p \in Producers : mtx = p <=> ppc[p] \in {"locked", "written"}

(* A buffer is read from its start, is empty when its positions say so, and *)
(* ends inside its vector, which never shrinks.                             *)
PosInv(buf) ==
  /\ buf.read_pos = 0
  /\ buf.write_pos = 0 <=> buf.data = <<>>
  /\ buf.write_pos <= buf.size
  /\ BufferSize <= buf.size

BufferInv ==
  /\ PosInv(buffer_productor)
  /\ PosInv(buffer_consumer)
  /\ cpc # "deliver" => buffer_consumer.data = <<>>

(* A call of Push has its arguments and a worker to push to, and has put    *)
(* its message in the buffer when it notifies.                              *)
CallInv ==
  \A p \in Producers :
     /\ ppc[p] # "idle" => constructed /\ plen[p] \in Lens /\ sent[p] \in 1 .. MaxPush
     /\ ppc[p] = "written" => ~IsEmpty(buffer_productor)

(* stop_ is set by the destructor, when nobody pushes any more.             *)
StopInv ==
  /\ stop <=> spc # "running"
  /\ stop => constructed /\ NoPushInProgress

(* What the consumer knows at each place, and that only a constructed       *)
(* worker has data.                                                         *)
ConsumerInv ==
  /\ ~IsEmpty(buffer_productor) => constructed
  /\ cpc = "block" => IsEmpty(buffer_productor)
  /\ cpc = "done" => ExitTest
  /\ CallbackReady
  /\ NoLostPushWakeup

IInv ==
  /\ TypeOK
  /\ LockInv
  /\ BufferInv
  /\ CallInv
  /\ StopInv
  /\ ConsumerInv
  /\ InOrderNoLoss

-----------------------------------------------------------------------------
(* Lemmas about the buffer's operations.                                    *)

(* A new buffer is well formed and holds nothing.                           *)
LEMMA NewBufferOK ==
  /\ NewBuffer \in Buffers
  /\ PosInv(NewBuffer)
  /\ NewBuffer.data = <<>>
  /\ IsEmpty(NewBuffer)
BY BufferAssumption DEF NewBuffer, Buffers, PosInv, IsEmpty

(* Emptiness of the positions is emptiness of the data.                     *)
LEMMA EmptyData ==
  ASSUME NEW buf \in Buffers, PosInv(buf)
  PROVE  IsEmpty(buf) <=> buf.data = <<>>
BY DEF IsEmpty, PosInv, Buffers

(* What ToBeEnough resizes to has room for the data.                        *)
LEMMA ToBeEnoughOK ==
  ASSUME NEW buf \in Buffers, PosInv(buf), NEW len \in Nat
  PROVE  LET b == ToBeEnough(buf, len)
         IN  /\ b \in Buffers
             /\ b = [buf EXCEPT !.size = b.size]
             /\ buf.size <= b.size
             /\ buf.write_pos + len <= b.size
<1>1. GrownSize(buf.size, len) \in Nat
  BY BufferAssumption DEF GrownSize, Buffers
<1>2. GrownSize(buf.size, len) >= buf.size + len
  BY BufferAssumption DEF GrownSize, Buffers
<1> QED
  BY <1>1, <1>2 DEF ToBeEnough, WriteableSize, Buffers, PosInv

(* Buffer::Push appends the message inside the vector.                      *)
LEMMA WriteOK ==
  ASSUME NEW buf \in Buffers, PosInv(buf), NEW msg \in Messages
  PROVE  /\ Write(buf, msg) \in Buffers
         /\ PosInv(Write(buf, msg))
         /\ Write(buf, msg).data = Append(buf.data, msg)
         /\ ~IsEmpty(Write(buf, msg))
<1> DEFINE b == ToBeEnough(buf, msg.len)
<1>1. msg.len \in Nat \ {0}
  BY WorkerAssumption DEF Messages
<1>2. /\ b \in Buffers
      /\ b = [buf EXCEPT !.size = b.size]
      /\ buf.size <= b.size
      /\ buf.write_pos + msg.len <= b.size
  BY <1>1, ToBeEnoughOK
<1>3. /\ b.data = buf.data
      /\ b.write_pos = buf.write_pos
      /\ b.read_pos = buf.read_pos
  BY <1>2 DEF Buffers
<1>4. /\ buf.data \in Seq(Messages)
      /\ Append(buf.data, msg) \in Seq(Messages)
      /\ Append(buf.data, msg) # <<>>
  BY AppendProperties DEF Buffers
<1>5. /\ Write(buf, msg).size = b.size
      /\ Write(buf, msg).write_pos = b.write_pos + msg.len
      /\ Write(buf, msg).read_pos = b.read_pos
      /\ Write(buf, msg).data = Append(b.data, msg)
  BY <1>2 DEF Write, Buffers
<1>6. Write(buf, msg) = [b EXCEPT !.write_pos = b.write_pos + msg.len,
                                  !.data = Append(b.data, msg)]
  BY DEF Write
<1> HIDE DEF b
<1>7. Write(buf, msg) \in Buffers
  <2>1. /\ b.write_pos + msg.len \in Nat
        /\ Append(b.data, msg) \in Seq(Messages)
    BY <1>1, <1>2, <1>3, <1>4 DEF Buffers
  <2> QED
    BY <1>2, <2>1, <1>6 DEF Buffers
<1>8. /\ BufferSize \in Nat
      /\ buf.write_pos \in Nat /\ buf.size \in Nat /\ b.size \in Nat
  BY <1>2, BufferAssumption DEF Buffers
<1>9. PosInv(Write(buf, msg)) /\ ~IsEmpty(Write(buf, msg))
  BY <1>1, <1>2, <1>3, <1>4, <1>5, <1>8 DEF PosInv, IsEmpty
<1> QED
  BY <1>3, <1>5, <1>7, <1>9

(* Reset empties a buffer and keeps its vector.                             *)
LEMMA ResetOK ==
  ASSUME NEW buf \in Buffers, PosInv(buf)
  PROVE  /\ Reset(buf) \in Buffers
         /\ PosInv(Reset(buf))
         /\ Reset(buf).data = <<>>
<1>1. <<>> \in Seq(Messages)
  BY EmptySeq
<1>2. Reset(buf) \in Buffers
  BY <1>1 DEF Reset, Buffers
<1>3. /\ Reset(buf).size = buf.size
      /\ Reset(buf).write_pos = 0
      /\ Reset(buf).read_pos = 0
      /\ Reset(buf).data = <<>>
  BY DEF Reset, Buffers
<1> QED
  BY <1>2, <1>3 DEF Buffers, PosInv

-----------------------------------------------------------------------------
(* The invariant holds initially and every action keeps it.                 *)

LEMMA InitIInv == Init => IInv
<1> SUFFICES ASSUME Init PROVE IInv
  OBVIOUS
<1>1. <<>> \in Seq(Messages)
  BY EmptySeq
<1>2. TypeOK
  <2>1. /\ sent \in [Producers -> 0 .. MaxPush]
        /\ plen \in [Producers -> Lens \cup {0}]
        /\ spurious \in 0 .. MaxSpurious
    BY WorkerAssumption DEF Init
  <2>2. buffer_productor \in Buffers /\ buffer_consumer \in Buffers
    BY NewBufferOK DEF Init
  <2> QED
    BY <1>1, <2>1, <2>2 DEF Init, TypeOK
<1>3. LockInv
  BY WorkerAssumption DEF Init, LockInv
<1>4. BufferInv
  BY NewBufferOK DEF Init, BufferInv
<1>5. CallInv /\ StopInv /\ ConsumerInv
  BY NewBufferOK
  DEF Init, CallInv, StopInv, ConsumerInv, CallbackReady, NoLostPushWakeup
<1>6. InOrderNoLoss
  BY <1>1, NewBufferOK, ConcatEmptySeq DEF Init, InOrderNoLoss
<1> QED
  BY <1>2, <1>3, <1>4, <1>5, <1>6 DEF IInv

(* The message being pushed is a message.                                   *)
LEMMA MessageOfType ==
  ASSUME IInv, NEW p \in Producers, ppc[p] # "idle"
  PROVE  MessageOf(p) \in Messages
BY DEF IInv, CallInv, MessageOf, Messages

(* A push appends its message to both sides of InOrderNoLoss.               *)
LEMMA ConcatAppend ==
  ASSUME NEW s \in Seq(Messages), NEW t \in Seq(Messages),
         NEW u \in Seq(Messages), NEW m \in Messages
  PROVE  s \o t \o Append(u, m) = Append(s \o t \o u, m)
<1>1. /\ s \o t \in Seq(Messages)
      /\ (s \o t) \o u \in Seq(Messages)
      /\ <<m>> \in Seq(Messages)
  BY ConcatProperties
<1>2. Append(u, m) = u \o <<m>> /\ Append((s \o t) \o u, m) = ((s \o t) \o u) \o <<m>>
  BY <1>1, AppendIsConcat
<1> QED
  BY <1>1, <1>2, ConcatAssociative

(* Construct and the steps of Push but PushWrite leave both buffers alone.  *)
LEMMA PushStep ==
  ASSUME IInv, NEW p \in Producers,
         PushCall(p) \/ PushLock(p) \/ PushWait(p) \/ PushNotify(p)
  PROVE  IInv'
<1> USE DEF IInv
<1>1. CASE PushCall(p)
  <2>1. TypeOK'
    BY <1>1, WorkerAssumption DEF TypeOK, PushCall, history
  <2>2. LockInv'
    BY <1>1 DEF TypeOK, LockInv, PushCall
  <2>3. BufferInv' /\ InOrderNoLoss'
    BY <1>1 DEF BufferInv, InOrderNoLoss, PosInv, PushCall, history
  <2>4. CallInv'
    BY <1>1, WorkerAssumption DEF TypeOK, CallInv, PushCall, IsEmpty
  <2>5. StopInv'
    BY <1>1 DEF StopInv, PushCall
  <2>6. ConsumerInv'
    BY <1>1 DEF TypeOK, ConsumerInv, PushCall, IsEmpty, ExitTest, CallbackReady, NoLostPushWakeup
  <2> QED
    BY <2>1, <2>2, <2>3, <2>4, <2>5, <2>6
<1>2. CASE PushLock(p)
  <2>1. TypeOK'
    BY <1>2 DEF TypeOK, PushLock, history
  <2>2. LockInv'
    BY <1>2, WorkerAssumption DEF TypeOK, LockInv, PushLock
  <2>3. BufferInv' /\ InOrderNoLoss'
    BY <1>2 DEF BufferInv, InOrderNoLoss, PosInv, PushLock, history
  <2>4. CallInv'
    BY <1>2 DEF TypeOK, CallInv, PushLock, IsEmpty
  <2>5. StopInv'
    BY <1>2 DEF StopInv, PushLock, NoPushInProgress
  <2>6. ConsumerInv'
    BY <1>2 DEF TypeOK, ConsumerInv, PushLock, IsEmpty, ExitTest, CallbackReady, NoLostPushWakeup
  <2> QED
    BY <2>1, <2>2, <2>3, <2>4, <2>5, <2>6
<1>3. CASE PushWait(p)
  <2>1. TypeOK'
    BY <1>3 DEF TypeOK, PushWait, history
  <2>2. LockInv'
    BY <1>3, WorkerAssumption DEF TypeOK, LockInv, PushWait
  <2>3. BufferInv' /\ InOrderNoLoss'
    BY <1>3 DEF BufferInv, InOrderNoLoss, PosInv, PushWait, history
  <2>4. CallInv'
    BY <1>3 DEF TypeOK, CallInv, PushWait, IsEmpty
  <2>5. StopInv'
    BY <1>3 DEF StopInv, PushWait, NoPushInProgress
  <2>6. ConsumerInv'
    BY <1>3 DEF TypeOK, ConsumerInv, PushWait, IsEmpty, ExitTest, CallbackReady, NoLostPushWakeup
  <2> QED
    BY <2>1, <2>2, <2>3, <2>4, <2>5, <2>6
<1>4. CASE PushNotify(p)
  <2>1. TypeOK'
    BY <1>4 DEF TypeOK, PushNotify, Notified, history
  <2>2. LockInv'
    BY <1>4, WorkerAssumption DEF TypeOK, LockInv, PushNotify, Notified
  <2>3. BufferInv' /\ InOrderNoLoss'
    BY <1>4 DEF BufferInv, InOrderNoLoss, PosInv, PushNotify, Notified, history
  <2>4. CallInv'
    BY <1>4 DEF TypeOK, CallInv, PushNotify, IsEmpty
  <2>5. StopInv'
    BY <1>4 DEF StopInv, PushNotify, NoPushInProgress
  <2>6. ConsumerInv'
    BY <1>4 DEF TypeOK, ConsumerInv, PushNotify, Notified, IsEmpty, ExitTest,
                CallbackReady, NoLostPushWakeup
  <2> QED
    BY <2>1, <2>2, <2>3, <2>4, <2>5, <2>6
<1> QED
  BY <1>1, <1>2, <1>3, <1>4

(* The message goes to the end of both the buffer and the history.          *)
LEMMA PushWriteStep ==
  ASSUME IInv, NEW p \in Producers, PushWrite(p)
  PROVE  IInv'
<1> DEFINE m == MessageOf(p)
<1>1. m \in Messages
  BY MessageOfType DEF PushWrite
<1>2. /\ buffer_productor \in Buffers /\ PosInv(buffer_productor)
      /\ buffer_productor.data \in Seq(Messages)
      /\ buffer_consumer.data \in Seq(Messages)
      /\ accepted \in Seq(Messages) /\ delivered \in Seq(Messages)
  BY DEF IInv, TypeOK, BufferInv, Buffers
<1>3. /\ buffer_productor' \in Buffers /\ PosInv(buffer_productor')
      /\ buffer_productor'.data = Append(buffer_productor.data, m)
      /\ ~IsEmpty(buffer_productor')
  BY <1>1, <1>2, WriteOK DEF PushWrite
<1>4. accepted' = Append(accepted, m)
  BY DEF PushWrite
<1> HIDE DEF m
<1>5. TypeOK'
  BY <1>1, <1>2, <1>3, <1>4, AppendProperties DEF IInv, TypeOK, PushWrite
<1>6. LockInv'
  BY DEF IInv, TypeOK, LockInv, PushWrite
<1>7. BufferInv'
  BY <1>3 DEF IInv, BufferInv, PosInv, PushWrite
<1>8. CallInv' /\ StopInv'
  BY <1>3 DEF IInv, TypeOK, CallInv, StopInv, NoPushInProgress, IsEmpty, PushWrite
<1>9. ConsumerInv'
  <2>1. ppc[p] = "locked" /\ mtx = p /\ constructed /\ ~stop
    BY DEF IInv, TypeOK, LockInv, CallInv, StopInv, NoPushInProgress, PushWrite
  <2>2. cpc # "block" /\ cpc # "done"
    BY <2>1, WorkerAssumption DEF IInv, LockInv, ConsumerInv, ExitTest
  <2>3. ppc'[p] = "written"
    BY DEF IInv, TypeOK, PushWrite
  <2> QED
    BY <2>1, <2>2, <2>3 DEF IInv, ConsumerInv, CallbackReady, NoLostPushWakeup, PushWrite
<1>10. InOrderNoLoss'
  <2>1. delivered' = delivered /\ buffer_consumer' = buffer_consumer
    BY DEF PushWrite
  <2>2. delivered \o buffer_consumer.data \o buffer_productor.data = accepted
    BY DEF IInv, InOrderNoLoss
  <2>3. delivered \o buffer_consumer.data \o Append(buffer_productor.data, m)
          = Append(delivered \o buffer_consumer.data \o buffer_productor.data, m)
    BY <1>1, <1>2, ConcatAppend
  <2> QED
    BY <1>3, <1>4, <2>1, <2>2, <2>3 DEF InOrderNoLoss
<1> QED
  BY <1>5, <1>6, <1>7, <1>8, <1>9, <1>10 DEF IInv

(* The consumer's steps that leave both buffers alone.                      *)
LEMMA ConsumerStep ==
  ASSUME IInv, ConsumerLock \/ ConsumerTest \/ ConsumerBlock \/ ConsumerCheck
  PROVE  IInv'
<1> USE DEF IInv
<1>1. CASE ConsumerLock
  <2>1. TypeOK' /\ LockInv'
    BY <1>1, WorkerAssumption DEF TypeOK, LockInv, ConsumerLock, pushVars, history
  <2>2. BufferInv' /\ InOrderNoLoss'
    BY <1>1 DEF BufferInv, InOrderNoLoss, PosInv, ConsumerLock, history
  <2>3. CallInv' /\ StopInv' /\ ConsumerInv'
    BY <1>1 DEF CallInv, StopInv, ConsumerInv, NoPushInProgress, ExitTest, IsEmpty,
                CallbackReady, NoLostPushWakeup, ConsumerLock, pushVars
  <2> QED
    BY <2>1, <2>2, <2>3
<1>2. CASE ConsumerTest
  <2>1. TypeOK' /\ LockInv'
    BY <1>2, WorkerAssumption DEF TypeOK, LockInv, ConsumerTest, pushVars, history
  <2>2. BufferInv' /\ InOrderNoLoss'
    BY <1>2 DEF BufferInv, InOrderNoLoss, PosInv, ConsumerTest, history
  <2>3. CallInv' /\ StopInv' /\ ConsumerInv'
    BY <1>2 DEF CallInv, StopInv, ConsumerInv, NoPushInProgress, ExitTest, IsEmpty,
                WaitPredicate, CallbackReady, NoLostPushWakeup, ConsumerTest, pushVars
  <2> QED
    BY <2>1, <2>2, <2>3
<1>3. CASE ConsumerBlock
  <2>1. TypeOK' /\ LockInv'
    BY <1>3, WorkerAssumption DEF TypeOK, LockInv, ConsumerBlock, pushVars, history
  <2>2. BufferInv' /\ InOrderNoLoss'
    BY <1>3 DEF BufferInv, InOrderNoLoss, PosInv, ConsumerBlock, history
  <2>3. CallInv' /\ StopInv' /\ ConsumerInv'
    BY <1>3 DEF CallInv, StopInv, ConsumerInv, NoPushInProgress, ExitTest, IsEmpty,
                CallbackReady, NoLostPushWakeup, ConsumerBlock, pushVars
  <2> QED
    BY <2>1, <2>2, <2>3
<1>4. CASE ConsumerCheck
  <2>1. TypeOK' /\ LockInv'
    BY <1>4, WorkerAssumption DEF TypeOK, LockInv, ConsumerCheck, pushVars, history
  <2>2. BufferInv' /\ InOrderNoLoss'
    BY <1>4 DEF BufferInv, InOrderNoLoss, PosInv, ConsumerCheck, history
  <2>3. CallInv' /\ StopInv' /\ ConsumerInv'
    BY <1>4 DEF CallInv, StopInv, ConsumerInv, NoPushInProgress, ExitTest, IsEmpty,
                CallbackReady, NoLostPushWakeup, ConsumerCheck, pushVars
  <2> QED
    BY <2>1, <2>2, <2>3
<1> QED
  BY <1>1, <1>2, <1>3, <1>4

(* The swap: the consumer's buffer is empty, so exchanging the two keeps    *)
(* the order of what they hold.                                             *)
LEMMA SwapStep ==
  ASSUME IInv, ConsumerSwap
  PROVE  IInv'
<1>1. /\ buffer_consumer.data = <<>>
      /\ buffer_productor.data \in Seq(Messages)
      /\ delivered \in Seq(Messages)
  BY DEF IInv, TypeOK, BufferInv, Buffers, ConsumerSwap
<1>2. mtx = Consumer /\ \A p \in Producers : ppc[p] \in {"idle", "want", "waiting"}
  BY WorkerAssumption DEF IInv, TypeOK, LockInv, ConsumerSwap
<1>3. \/ ppc' = ppc
      \/ \E p \in Waiting : ppc' = [ppc EXCEPT ![p] = "want"]
  BY DEF ConsumerSwap, NotifyOneProducer
<1>4. /\ ppc' \in [Producers -> {"idle", "want", "locked", "waiting", "written"}]
      /\ \A p \in Producers : /\ ppc'[p] \in {"idle", "want", "waiting"}
                              /\ ppc'[p] = "idle" <=> ppc[p] = "idle"
  BY <1>2, <1>3 DEF IInv, TypeOK, Waiting
<1>5. TypeOK'
  BY <1>4 DEF IInv, TypeOK, ConsumerSwap, history
<1>6. LockInv'
  BY <1>4, WorkerAssumption DEF IInv, LockInv, ConsumerSwap
<1>7. BufferInv'
  BY DEF IInv, BufferInv, PosInv, ConsumerSwap
<1>8. CallInv' /\ StopInv'
  BY <1>4 DEF IInv, CallInv, StopInv, NoPushInProgress, ConsumerSwap
<1>9. ConsumerInv'
  <2>1. IsEmpty(buffer_consumer)
    BY <1>1, EmptyData DEF IInv, TypeOK, BufferInv
  <2> QED
    BY <2>1 DEF IInv, ConsumerInv, CallbackReady, NoLostPushWakeup, ConsumerSwap
<1>10. InOrderNoLoss'
  <2>1. delivered \o <<>> = delivered
    BY <1>1, ConcatEmptySeq
  <2>2. (delivered \o buffer_productor.data) \o <<>> = delivered \o buffer_productor.data
    BY <1>1, ConcatEmptySeq, ConcatProperties
  <2> QED
    BY <1>1, <2>1, <2>2 DEF IInv, InOrderNoLoss, ConsumerSwap, history
<1> QED
  BY <1>5, <1>6, <1>7, <1>8, <1>9, <1>10 DEF IInv

(* The callback gets what the consumer's buffer holds, and Reset empties it.*)
LEMMA DeliverStep ==
  ASSUME IInv, ConsumerDeliver
  PROVE  IInv'
<1>1. /\ buffer_consumer \in Buffers /\ PosInv(buffer_consumer)
      /\ buffer_consumer.data \in Seq(Messages)
      /\ buffer_productor.data \in Seq(Messages)
      /\ delivered \in Seq(Messages)
  BY DEF IInv, TypeOK, BufferInv, Buffers
<1>2. /\ buffer_consumer' \in Buffers /\ PosInv(buffer_consumer')
      /\ buffer_consumer'.data = <<>>
      /\ delivered' = delivered \o buffer_consumer.data
  <2>1. CASE IsEmpty(buffer_consumer)
    BY <1>1, <2>1, EmptyData, ConcatEmptySeq DEF ConsumerDeliver
  <2>2. CASE ~IsEmpty(buffer_consumer)
    BY <1>1, <2>2, ResetOK DEF ConsumerDeliver
  <2> QED
    BY <2>1, <2>2
<1>3. delivered' \in Seq(Messages) /\ delivered' \o <<>> = delivered'
  BY <1>1, <1>2, ConcatProperties, ConcatEmptySeq
<1>4. TypeOK' /\ LockInv'
  BY <1>2, <1>3, WorkerAssumption DEF IInv, TypeOK, LockInv, ConsumerDeliver, pushVars
<1>5. BufferInv'
  BY <1>2 DEF IInv, BufferInv, PosInv, ConsumerDeliver
<1>6. CallInv' /\ StopInv' /\ ConsumerInv'
  BY DEF IInv, CallInv, StopInv, ConsumerInv, NoPushInProgress, ExitTest, IsEmpty,
         CallbackReady, NoLostPushWakeup, ConsumerDeliver, pushVars
<1>7. InOrderNoLoss'
  BY <1>2, <1>3 DEF IInv, InOrderNoLoss, ConsumerDeliver
<1> QED
  BY <1>4, <1>5, <1>6, <1>7 DEF IInv

(* The constructor, the destructor and the spurious wakeups.                *)
LEMMA OwnerStep ==
  ASSUME IInv, Construct \/ Stop \/ SpuriousWakeup
  PROVE  IInv'
<1> USE DEF IInv
<1>1. CASE Construct
  <2>1. TypeOK' /\ LockInv'
    BY <1>1 DEF TypeOK, LockInv, Construct, pushVars, history
  <2>2. BufferInv' /\ InOrderNoLoss'
    BY <1>1 DEF BufferInv, InOrderNoLoss, PosInv, Construct, history
  <2>3. CallInv' /\ StopInv' /\ ConsumerInv'
    BY <1>1 DEF CallInv, StopInv, ConsumerInv, NoPushInProgress, ExitTest, IsEmpty,
                CallbackReady, NoLostPushWakeup, Construct, pushVars
  <2> QED
    BY <2>1, <2>2, <2>3
<1>2. CASE StopSet
  <2>1. TypeOK' /\ LockInv'
    BY <1>2 DEF TypeOK, LockInv, StopSet, pushVars, history
  <2>2. BufferInv' /\ InOrderNoLoss'
    BY <1>2 DEF BufferInv, InOrderNoLoss, PosInv, StopSet, history
  <2>3. CallInv' /\ StopInv' /\ ConsumerInv'
    BY <1>2 DEF TypeOK, CallInv, StopInv, ConsumerInv, NoPushInProgress, ExitTest, IsEmpty,
                CallbackReady, NoLostPushWakeup, StopSet, pushVars
  <2> QED
    BY <2>1, <2>2, <2>3
<1>3. CASE StopNotify
  <2>1. TypeOK' /\ LockInv'
    BY <1>3 DEF TypeOK, LockInv, StopNotify, Notified, pushVars, history
  <2>2. BufferInv' /\ InOrderNoLoss'
    BY <1>3 DEF BufferInv, InOrderNoLoss, PosInv, StopNotify, Notified, history
  <2>3. CallInv' /\ StopInv' /\ ConsumerInv'
    BY <1>3 DEF CallInv, StopInv, ConsumerInv, NoPushInProgress, ExitTest, IsEmpty,
                Notified, CallbackReady, NoLostPushWakeup, StopNotify, pushVars
  <2> QED
    BY <2>1, <2>2, <2>3
<1>4. CASE StopJoin
  <2>1. TypeOK' /\ LockInv'
    BY <1>4 DEF TypeOK, LockInv, StopJoin, pushVars, history
  <2>2. BufferInv' /\ InOrderNoLoss'
    BY <1>4 DEF BufferInv, InOrderNoLoss, PosInv, StopJoin, history
  <2>3. CallInv' /\ StopInv' /\ ConsumerInv'
    BY <1>4 DEF CallInv, StopInv, ConsumerInv, NoPushInProgress, ExitTest, IsEmpty,
                CallbackReady, NoLostPushWakeup, StopJoin, pushVars
  <2> QED
    BY <2>1, <2>2, <2>3
<1>5. CASE SpuriousWakeup
  <2>1. \/ cpc = "waiting" /\ cpc' = "lock" /\ ppc' = ppc
        \/ cpc' = cpc /\ \E p \in Waiting : ppc' = [ppc EXCEPT ![p] = "want"]
    BY <1>5 DEF SpuriousWakeup
  <2>2. /\ ppc' \in [Producers -> {"idle", "want", "locked", "waiting", "written"}]
        /\ \A p \in Producers : \/ ppc'[p] = ppc[p]
                                \/ ppc[p] = "waiting" /\ ppc'[p] = "want"
    <3>1. CASE ppc' = ppc
      BY <3>1 DEF TypeOK
    <3>2. CASE \E p \in Waiting : ppc' = [ppc EXCEPT ![p] = "want"]
      BY <3>2 DEF TypeOK, Waiting
    <3> QED
      BY <2>1, <3>1, <3>2
  <2>3. /\ cpc' \in {"lock", "test", "block", "waiting", "swap", "deliver", "check", "done"}
        /\ \/ cpc' = cpc
           \/ cpc = "waiting" /\ cpc' = "lock"
    BY <2>1 DEF TypeOK
  <2>4. TypeOK'
    BY <1>5, <2>2, <2>3, WorkerAssumption DEF TypeOK, SpuriousWakeup, history
  <2>5. LockInv'
    BY <1>5, <2>2, <2>3 DEF LockInv, SpuriousWakeup
  <2>6. BufferInv' /\ InOrderNoLoss'
    BY <1>5, <2>3 DEF BufferInv, InOrderNoLoss, PosInv, SpuriousWakeup, history
  <2>7. CallInv' /\ StopInv'
    BY <1>5, <2>2 DEF CallInv, StopInv, NoPushInProgress, IsEmpty, SpuriousWakeup
  <2>8. ConsumerInv'
    <3>1. \A p \in Producers : ppc[p] = "written" => ppc'[p] = "written"
      BY <2>2
    <3> QED
      BY <1>5, <2>3, <3>1 DEF ConsumerInv, ExitTest, IsEmpty, CallbackReady,
                              NoLostPushWakeup, SpuriousWakeup
  <2> QED
    BY <2>4, <2>5, <2>6, <2>7, <2>8
<1> QED
  BY <1>1, <1>2, <1>3, <1>4, <1>5 DEF Stop

(* A step that changes nothing keeps the invariant.                         *)
LEMMA StutterStep ==
  ASSUME IInv, UNCHANGED vars
  PROVE  IInv'
<1>1. TypeOK' /\ LockInv'
  BY DEF IInv, TypeOK, LockInv, vars
<1>2. BufferInv' /\ InOrderNoLoss'
  BY DEF IInv, BufferInv, PosInv, InOrderNoLoss, vars
<1>3. CallInv' /\ StopInv' /\ ConsumerInv'
  BY DEF IInv, CallInv, StopInv, ConsumerInv, NoPushInProgress, ExitTest, IsEmpty,
         CallbackReady, NoLostPushWakeup, vars
<1> QED
  BY <1>1, <1>2, <1>3 DEF IInv

(* The inductive invariant of AsyncWorker.                                  *)
THEOREM Invariance == Spec => []IInv
<1>1. IInv /\ [Next]_vars => IInv'
  <2> SUFFICES ASSUME IInv, [Next]_vars PROVE IInv'
    OBVIOUS
  <2>1. ASSUME NEW p \in Producers, Push(p) PROVE IInv'
    BY <2>1, PushStep, PushWriteStep DEF Push
  <2>2. CASE ThreadEntry
    BY <2>2, ConsumerStep, SwapStep, DeliverStep DEF ThreadEntry
  <2>3. CASE Construct \/ Stop \/ SpuriousWakeup
    BY <2>3, OwnerStep
  <2>4. CASE UNCHANGED vars
    BY <2>4, StutterStep
  <2> QED
    BY <2>1, <2>2, <2>3, <2>4 DEF Next
<1> QED
  BY InitIInv, <1>1, PTL DEF Spec

-----------------------------------------------------------------------------
(* What follows from the invariant alone.                                   *)

(* Every variable of the worker keeps its type.                             *)
THEOREM TypeCorrect == Spec => []TypeOK
<1>1. IInv => TypeOK
  BY DEF IInv
<1> QED
  BY Invariance, <1>1, PTL

(* Double buffering loses, repeats and reorders nothing between Push and    *)
(* the callback.                                                            *)
THEOREM OrderKept == Spec => []InOrderNoLoss
<1>1. IInv => InOrderNoLoss
  BY DEF IInv
<1> QED
  BY Invariance, <1>1, PTL

(* Buffer::Push never writes past the end of the vector.                    *)
THEOREM WritesInside == Spec => []NoOverrun
<1>1. IInv => NoOverrun
  BY DEF IInv, BufferInv, PosInv, NoOverrun
<1> QED
  BY Invariance, <1>1, PTL

(* The thread never reaches the callback before the constructor has set it. *)
THEOREM CallbackSet == Spec => []CallbackReady
<1>1. IInv => CallbackReady
  BY DEF IInv, ConsumerInv
<1> QED
  BY Invariance, <1>1, PTL

(* Push's notification is never lost.                                       *)
THEOREM PushWakes == Spec => []NoLostPushWakeup
<1>1. IInv => NoLostPushWakeup
  BY DEF IInv, ConsumerInv
<1> QED
  BY Invariance, <1>1, PTL

(* With both buffers empty everything accepted has been delivered.          *)
LEMMA EmptyMeansDelivered ==
  ASSUME IInv, cpc # "deliver", IsEmpty(buffer_productor)
  PROVE  delivered = accepted
<1>1. buffer_productor.data = <<>> /\ buffer_consumer.data = <<>>
  BY EmptyData DEF IInv, TypeOK, BufferInv
<1>2. delivered \in Seq(Messages) /\ accepted \in Seq(Messages)
  BY DEF IInv, TypeOK
<1>3. delivered \o <<>> = delivered
  BY <1>2, ConcatEmptySeq
<1> QED
  BY <1>1, <1>3 DEF IInv, InOrderNoLoss

(* Whatever the moment of Stop, no message is left undelivered, and nobody  *)
(* writes while the exit test reads without the mutex.                      *)
THEOREM NothingLeft == Spec => []StopLeavesNothing
<1>1. IInv => StopLeavesNothing
  <2> SUFFICES ASSUME IInv PROVE StopLeavesNothing
    OBVIOUS
  <2>1. cpc = "check" /\ stop => \A p \in Producers : ppc[p] = "idle"
    BY DEF IInv, StopInv, NoPushInProgress
  <2>2. cpc = "done" => delivered = accepted
    BY EmptyMeansDelivered DEF IInv, ConsumerInv, ExitTest
  <2>3. ASSUME cpc = "waiting", spc \in {"join", "stopped"}
        PROVE  delivered = accepted
    <3>1. \A p \in Producers : ppc[p] = "idle"
      BY <2>3 DEF IInv, StopInv, NoPushInProgress
    <3>2. IsEmpty(buffer_productor)
      BY <2>3, <3>1 DEF IInv, ConsumerInv, NoLostPushWakeup
    <3> QED
      BY <2>3, <3>2, EmptyMeansDelivered
  <2> QED
    BY <2>1, <2>2, <2>3 DEF StopLeavesNothing
<1> QED
  BY Invariance, <1>1, PTL

-----------------------------------------------------------------------------
(* One notify_one per swap is enough when every message fits an empty       *)
(* buffer; without LensFit it is not (see FittingPushReturns).              *)

StrandInv ==
  /\ NoStrandedProducer
  /\ Waiting # {} => AsyncType = "ASYNC_SAFE"

LEMMA StrandStep ==
  ASSUME LensFit, IInv, IInv', StrandInv, [Next]_vars
  PROVE  StrandInv'
<1> USE DEF StrandInv, NoStrandedProducer, Waiting
<1>1. ASSUME NEW p \in Producers, PushCall(p) PROVE StrandInv'
  BY <1>1 DEF PushCall, IInv, TypeOK, IsEmpty
<1>2. ASSUME NEW p \in Producers, PushLock(p) PROVE StrandInv'
  BY <1>2 DEF PushLock, IInv, TypeOK, IsEmpty
<1>3. ASSUME NEW p \in Producers, PushWait(p) PROVE StrandInv'
  <2>1. AsyncType = "ASYNC_SAFE" /\ ~(plen[p] <= WriteableSize(buffer_productor))
    BY <1>3 DEF PushWait, HasRoom
  <2>2. plen[p] \in Nat /\ plen[p] <= BufferSize
    BY <1>3, WorkerAssumption DEF PushWait, IInv, CallInv, LensFit
  <2>3. ~IsEmpty(buffer_productor)
    <3>1. buffer_productor.size \in Nat /\ buffer_productor.write_pos \in Nat
      BY DEF IInv, TypeOK, Buffers
    <3>2. buffer_productor.read_pos = 0 /\ BufferSize <= buffer_productor.size
      BY DEF IInv, BufferInv, PosInv
    <3> QED
      BY <2>1, <2>2, <3>1, <3>2, BufferAssumption DEF IsEmpty, WriteableSize
  <2> QED
    BY <1>3, <2>1, <2>3 DEF PushWait, IsEmpty
<1>4. ASSUME NEW p \in Producers, PushWrite(p) PROVE StrandInv'
  BY <1>4 DEF PushWrite, IInv, TypeOK
<1>5. ASSUME NEW p \in Producers, PushNotify(p) PROVE StrandInv'
  BY <1>5 DEF PushNotify, IInv, TypeOK, CallInv, IsEmpty
<1>6. CASE ConsumerSwap
  <2>1. CASE AsyncType = "ASYNC_SAFE" /\ Waiting # {}
    <3>1. PICK p \in Waiting : ppc' = [ppc EXCEPT ![p] = "want"]
      BY <1>6, <2>1 DEF ConsumerSwap, NotifyOneProducer
    <3>2. ppc'[p] = "want"
      BY <3>1 DEF IInv, TypeOK
    <3> QED
      BY <2>1, <3>1, <3>2
  <2>2. CASE ~(AsyncType = "ASYNC_SAFE" /\ Waiting # {})
    <3>1. ppc' = ppc
      BY <1>6, <2>2 DEF ConsumerSwap, NotifyOneProducer
    <3> QED
      BY <2>2, <3>1
  <2> QED
    BY <2>1, <2>2
<1>7. CASE ConsumerLock \/ ConsumerTest \/ ConsumerBlock \/ ConsumerDeliver \/ ConsumerCheck
  BY <1>7 DEF ConsumerLock, ConsumerTest, ConsumerBlock, ConsumerDeliver, ConsumerCheck,
              IsEmpty, pushVars
<1>8. CASE Construct \/ Stop
  BY <1>8 DEF Construct, Stop, StopSet, StopNotify, StopJoin, IsEmpty, pushVars
<1>9. CASE SpuriousWakeup
  <2>1. CASE ppc' = ppc
    BY <1>9, <2>1 DEF SpuriousWakeup, IsEmpty
  <2>2. CASE \E p \in Waiting : ppc' = [ppc EXCEPT ![p] = "want"]
    <3>1. PICK p \in Waiting : ppc' = [ppc EXCEPT ![p] = "want"]
      BY <2>2
    <3>2. ppc'[p] = "want"
      BY <3>1 DEF IInv, TypeOK
    <3> QED
      BY <3>1, <3>2
  <2> QED
    BY <1>9, <2>1, <2>2 DEF SpuriousWakeup
<1>10. CASE UNCHANGED vars
  BY <1>10 DEF vars, IsEmpty
<1> QED
  BY <1>1, <1>2, <1>3, <1>4, <1>5, <1>6, <1>7, <1>8, <1>9, <1>10
  DEF Next, Push, ThreadEntry

(* No producer sleeps through its turn.                                     *)
THEOREM NoneStranded ==
  ASSUME LensFit
  PROVE  Spec => []NoStrandedProducer
<1>1. Init => StrandInv
  BY DEF Init, StrandInv, NoStrandedProducer, Waiting
<1>2. IInv /\ IInv' /\ StrandInv /\ [Next]_vars => StrandInv'
  BY StrandStep
<1>3. StrandInv => NoStrandedProducer
  BY DEF StrandInv
<1> QED
  BY <1>1, <1>2, <1>3, Invariance, PTL DEF Spec

-----------------------------------------------------------------------------
(* Where the worker can come to rest.                                       *)

(* Stop has returned only if the thread has ended, and that is for good.    *)
EndInv == spc = "stopped" => cpc = "done"

LEMMA EndStep ==
  ASSUME EndInv, [Next]_vars
  PROVE  EndInv'
<1> USE DEF EndInv
<1>1. ASSUME NEW p \in Producers, Push(p) PROVE EndInv'
  BY <1>1 DEF Push, PushCall, PushLock, PushWait, PushWrite, PushNotify, Notified
<1>2. CASE ThreadEntry
  BY <1>2 DEF ThreadEntry, ConsumerLock, ConsumerTest, ConsumerBlock, ConsumerSwap,
              ConsumerDeliver, ConsumerCheck
<1>3. CASE Construct \/ Stop \/ SpuriousWakeup \/ UNCHANGED vars
  BY <1>3 DEF Construct, Stop, StopSet, StopNotify, StopJoin, Notified, SpuriousWakeup, vars
<1> QED
  BY <1>1, <1>2, <1>3 DEF Next

(* At rest nobody holds the mutex, and the consumer sleeps or has ended.    *)
LEMMA ConsumerAtRest ==
  ASSUME IInv, AtRest
  PROVE  mtx = Nobody /\ cpc \in {"waiting", "done"}
<1>1. mtx = Nobody
  <2>1. cpc \notin {"test", "block", "swap"}
    BY DEF AtRest, ConsumerReady
  <2>2. \A p \in Producers : ppc[p] \notin {"locked", "written"}
    BY DEF AtRest, PusherReady
  <2> QED
    BY <2>1, <2>2 DEF IInv, TypeOK, LockInv
<1> QED
  BY <1>1 DEF AtRest, ConsumerReady, IInv, TypeOK

(* If every message fits a buffer, the worker comes to rest only when every *)
(* Push has returned and the callback has had everything; a thread is then  *)
(* left behind only by the Stop that lost its wakeup                        *)
(* (AsyncWorker.hpp:34-72, 88-108).                                         *)
THEOREM NothingHangs ==
  ASSUME LensFit
  PROVE  Spec => []RestsOnlyWhenDelivered
<1>1. IInv /\ EndInv /\ NoStrandedProducer => RestsOnlyWhenDelivered
  <2> SUFFICES ASSUME IInv, EndInv, NoStrandedProducer, AtRest
               PROVE  /\ NoPushInProgress
                      /\ delivered = accepted
                      /\ \/ cpc = "waiting" /\ spc \in {"running", "join"}
                         \/ cpc = "done" /\ spc = "stopped"
    BY DEF RestsOnlyWhenDelivered
  <2>1. mtx = Nobody /\ cpc \in {"waiting", "done"}
    BY ConsumerAtRest
  <2>2. \A p \in Producers : ppc[p] \in {"idle", "waiting"}
    BY <2>1 DEF AtRest, PusherReady, IInv, TypeOK
  <2>3. IsEmpty(buffer_productor)
    <3>1. CASE cpc = "waiting"
      BY <2>2, <3>1 DEF IInv, ConsumerInv, NoLostPushWakeup
    <3>2. CASE cpc = "done"
      BY <3>2 DEF IInv, ConsumerInv, ExitTest
    <3> QED
      BY <2>1, <3>1, <3>2
  <2>4. NoPushInProgress
    BY <2>2, <2>3 DEF NoPushInProgress, NoStrandedProducer, Waiting
  <2>5. delivered = accepted
    BY <2>1, <2>3, EmptyMeansDelivered
  <2>6. cpc = "waiting" => spc \in {"running", "join"}
    BY DEF AtRest, OwnerReady, EndInv, IInv, TypeOK
  <2>7. cpc = "done" => spc = "stopped"
    BY DEF AtRest, OwnerReady, IInv, TypeOK, StopInv, ConsumerInv, ExitTest
  <2> QED
    BY <2>1, <2>4, <2>5, <2>6, <2>7
<1>2. Init => EndInv
  BY DEF Init, EndInv
<1>3. EndInv /\ [Next]_vars => EndInv'
  BY EndStep
<1> QED
  BY <1>1, <1>2, <1>3, Invariance, NoneStranded, PTL DEF Spec

(* Once Stop joins, a consumer that is awake is never in want of the mutex, *)
(* sleeps no more, and is done after seven steps at most                    *)
(* (AsyncWorker.hpp:34-72, 88-95).                                         *)
THEOREM StopEndsTheAwake == Spec => AwakeConsumerEnds
<1>1. ASSUME IInv, [Next]_vars, spc = "join", cpc \notin {"block", "waiting"}
      PROVE  /\ ConsumerReady \/ cpc = "done"
             /\ cpc' \notin {"block", "waiting"}
             /\ StepsLeft' <= StepsLeft
             /\ ThreadEntry => StepsLeft' < StepsLeft
  <2>1. stop /\ \A p \in Producers : ppc[p] = "idle"
    BY <1>1 DEF IInv, StopInv, NoPushInProgress
  <2>2. StepsLeft \in 0 .. 7
    BY DEF StepsLeft
  <2>3. ConsumerReady \/ cpc = "done"
    BY <1>1, <2>1 DEF IInv, TypeOK, LockInv, ConsumerReady
  <2>4. ASSUME ThreadEntry
        PROVE  cpc' \notin {"block", "waiting"} /\ StepsLeft' < StepsLeft
    <3>1. CASE ConsumerLock
      BY <3>1 DEF ConsumerLock, StepsLeft
    <3>2. CASE ConsumerTest
      BY <2>1, <3>2 DEF ConsumerTest, WaitPredicate, StepsLeft
    <3>3. CASE ConsumerBlock
      BY <1>1, <3>3 DEF ConsumerBlock
    <3>4. CASE ConsumerSwap
      <4>1. IsEmpty(buffer_productor')
        <5>1. buffer_consumer.data = <<>>
          BY <1>1, <3>4 DEF ConsumerSwap, IInv, BufferInv
        <5>2. IsEmpty(buffer_consumer)
          BY <1>1, <5>1, EmptyData DEF IInv, TypeOK, BufferInv
        <5> QED
          BY <3>4, <5>2 DEF ConsumerSwap, IsEmpty
      <4> QED
        BY <3>4, <4>1 DEF ConsumerSwap, StepsLeft, IsEmpty
    <3>5. CASE ConsumerDeliver
      BY <3>5 DEF ConsumerDeliver, StepsLeft, IsEmpty
    <3>6. CASE ConsumerCheck
      BY <2>1, <3>6 DEF ConsumerCheck, ExitTest, StepsLeft
    <3> QED
      BY <2>4, <3>1, <3>2, <3>3, <3>4, <3>5, <3>6 DEF ThreadEntry
  <2>5. ASSUME ~ThreadEntry
        PROVE  cpc' \notin {"block", "waiting"} /\ StepsLeft' = StepsLeft
    <3>1. cpc' = cpc /\ buffer_productor' = buffer_productor
      <4>1. ASSUME NEW p \in Producers, Push(p) PROVE FALSE
        BY <1>1, <2>1, <4>1
           DEF Push, PushCall, PushLock, PushWait, PushWrite, PushNotify
      <4>2. CASE Construct \/ Stop \/ SpuriousWakeup \/ UNCHANGED vars
        BY <1>1, <2>1, <4>2
           DEF Construct, Stop, StopSet, StopNotify, StopJoin, SpuriousWakeup, Waiting, vars
      <4> QED
        BY <1>1, <2>5, <4>1, <4>2 DEF Next
    <3> QED
      BY <1>1, <3>1 DEF StepsLeft, IsEmpty
  <2>6. StepsLeft' < StepsLeft \/ StepsLeft' = StepsLeft => StepsLeft' <= StepsLeft
    <3>1. StepsLeft' \in 0 .. 7
      BY DEF StepsLeft
    <3> QED
      BY <2>2, <3>1
  <2> QED
    BY <2>3, <2>4, <2>5, <2>6
<1> QED
  BY <1>1, Invariance, PTL DEF Spec, AwakeConsumerEnds

-----------------------------------------------------------------------------
(* The worker implements the channel: a step of Push that writes accepts,   *)
(* a call of the callback delivers, StopSet closes, and the exit test of a  *)
(* drained worker finishes.  Every other step changes nothing the channel   *)
(* shows.                                                                   *)

LEMMA InitMaps == Init => Channel!ChannelInit
BY DEF Init, Channel!ChannelInit

(* The batch the callback gets is the oldest part of what is undelivered.   *)
LEMMA DeliverMaps ==
  ASSUME IInv, ConsumerDeliver, ~IsEmpty(buffer_consumer)
  PROVE  Channel!Deliver
<1> DEFINE d == delivered
           c == buffer_consumer.data
           p == buffer_productor.data
<1>1. d \in Seq(Messages) /\ c \in Seq(Messages) /\ p \in Seq(Messages)
  BY DEF IInv, TypeOK, Buffers
<1>2. c # <<>>
  BY EmptyData DEF IInv, TypeOK, BufferInv
<1>3. delivered' = d \o c /\ accepted = (d \o c) \o p
  BY DEF ConsumerDeliver, IInv, InOrderNoLoss
<1> HIDE DEF d, c, p
<1>4. d \o c \in Seq(Messages) /\ Len(d \o c) = Len(d) + Len(c)
  BY <1>1, ConcatProperties
<1>5. Len(c) \in Nat \ {0} /\ Len(d) \in Nat /\ Len(p) \in Nat
  BY <1>1, <1>2, EmptySeq, LenProperties
<1>6. Len(accepted) = Len(d \o c) + Len(p)
  BY <1>1, <1>3, <1>4, ConcatProperties
<1>7. SubSeq(accepted, 1, Len(d \o c)) = d \o c
  <2>1. 1 \in 1 .. Len(d \o c) /\ Len(d \o c) \in 1 .. Len(d \o c)
    BY <1>4, <1>5
  <2>2. SubSeq((d \o c) \o p, 1, Len(d \o c)) = SubSeq(d \o c, 1, Len(d \o c))
    BY <1>1, <1>4, <2>1, SubSeqOfConcat1
  <2> QED
    BY <1>3, <1>4, <2>2, SubSeqFull
<1>8. Len(d \o c) \in (Len(delivered) + 1) .. Len(accepted)
  BY <1>4, <1>5, <1>6 DEF d
<1>9. cpc # "done" /\ cpc' # "done" /\ UNCHANGED <<accepted, stop>>
  BY DEF ConsumerDeliver
<1> QED
  BY <1>3, <1>7, <1>8, <1>9 DEF Channel!Deliver

LEMMA StepMaps ==
  ASSUME IInv, [Next]_vars
  PROVE  [Channel!ChannelNext]_Channel!channelVars
<1> USE DEF Channel!channelVars
<1>1. ASSUME NEW p \in Producers, PushWrite(p) PROVE Channel!Accept
  <2>1. ~stop
    BY <1>1 DEF PushWrite, IInv, StopInv, NoPushInProgress
  <2>2. MessageOf(p) \in Messages
    BY <1>1, MessageOfType DEF PushWrite
  <2> QED
    BY <1>1, <2>1, <2>2 DEF PushWrite, Channel!Accept
<1>2. ASSUME NEW p \in Producers,
             PushCall(p) \/ PushLock(p) \/ PushWait(p) \/ PushNotify(p)
      PROVE  UNCHANGED Channel!channelVars
  BY <1>2 DEF PushCall, PushLock, PushWait, PushNotify, Notified, history
<1>3. CASE ConsumerDeliver
  <2>1. CASE IsEmpty(buffer_consumer)
    BY <1>3, <2>1 DEF ConsumerDeliver
  <2>2. CASE ~IsEmpty(buffer_consumer)
    BY <1>3, <2>2, DeliverMaps DEF Channel!ChannelNext
  <2> QED
    BY <2>1, <2>2
<1>4. CASE ConsumerCheck
  <2>1. CASE ExitTest
    BY <1>4, <2>1, EmptyMeansDelivered
    DEF ConsumerCheck, ExitTest, history, Channel!Finish, Channel!ChannelNext
  <2>2. CASE ~ExitTest
    BY <1>4, <2>2 DEF ConsumerCheck, history
  <2> QED
    BY <2>1, <2>2
<1>5. CASE ConsumerLock \/ ConsumerTest \/ ConsumerBlock \/ ConsumerSwap
  BY <1>5 DEF ConsumerLock, ConsumerTest, ConsumerBlock, ConsumerSwap, history
<1>6. CASE StopSet
  <2>1. ~stop
    BY <1>6 DEF StopSet, IInv, StopInv
  <2> QED
    BY <1>6, <2>1 DEF StopSet, history, Channel!Close, Channel!ChannelNext
<1>7. CASE Construct \/ StopNotify \/ StopJoin \/ SpuriousWakeup
  BY <1>7 DEF Construct, StopNotify, StopJoin, SpuriousWakeup, Notified, history
<1>8. CASE UNCHANGED vars
  BY <1>8 DEF vars
<1> QED
  BY <1>1, <1>2, <1>3, <1>4, <1>5, <1>6, <1>7, <1>8
  DEF Next, Push, ThreadEntry, Stop, Channel!ChannelNext

(* Threads, mutex and two buffers behave as the channel of LogChannel.      *)
THEOREM Refinement == Spec => ImplementsChannel
<1>1. IInv /\ [Next]_vars => [Channel!ChannelNext]_Channel!channelVars
  BY StepMaps
<1> QED
  BY InitMaps, <1>1, Invariance, PTL DEF Spec, ImplementsChannel, Channel!ChannelSpec
=============================================================================
