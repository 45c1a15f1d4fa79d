--------------------------- MODULE TaskPoolProofs ----------------------------
(***************************************************************************)
(* What every pool that implements TaskPool has: a task is at one place at *)
(* a time, and what has run stays run.                                     *)
(***************************************************************************)
EXTENDS TaskPool, SequenceTheorems, TLAPS

PoolTypeOK ==
  /\ queue \in Seq(Tasks)
  /\ running \in [Workers -> Tasks \cup {NoTask}]
  /\ finished \subseteq Tasks

LEMMA PlacesStep ==
  ASSUME NoTask \notin Tasks, PoolTypeOK, OnePlaceEach, [PoolNext]_poolVars
  PROVE  PoolTypeOK' /\ OnePlaceEach'
<1> USE DEF PoolTypeOK
<1>0. Len(queue) \in Nat /\ DOMAIN queue = 1 .. Len(queue)
  BY LenProperties
<1>1. ASSUME NEW t \in Tasks, Accept(t) PROVE PoolTypeOK' /\ OnePlaceEach'
  <2>1. /\ queue' = Append(queue, t) /\ t \notin Queued \cup Running \cup finished
        /\ UNCHANGED <<running, finished>>
    BY <1>1 DEF Accept
  <2>2. /\ queue' \in Seq(Tasks) /\ DOMAIN queue' = 1 .. Len(queue) + 1
        /\ \A i \in 1 .. Len(queue) : queue'[i] = queue[i]
        /\ queue'[Len(queue) + 1] = t
    BY <1>0, <2>1, AppendProperties, LenProperties
  <2>3. Queued' = Queued \cup {t} /\ Running' = Running
    <3>1. ASSUME NEW i \in 1 .. Len(queue) + 1
          PROVE  i \in 1 .. Len(queue) \/ i = Len(queue) + 1
      BY <1>0
    <3>2. 1 .. Len(queue) \subseteq 1 .. Len(queue) + 1 /\ Len(queue) + 1 \in 1 .. Len(queue) + 1
      BY <1>0
    <3> QED
      BY <1>0, <2>1, <2>2, <3>1, <3>2 DEF Queued, Running
  <2>4. \A i, j \in DOMAIN queue' : queue'[i] = queue'[j] => i = j
    <3> SUFFICES ASSUME NEW i \in 1 .. Len(queue) + 1, NEW j \in 1 .. Len(queue) + 1,
                        queue'[i] = queue'[j]
                 PROVE  i = j
      BY <2>2
    <3>1. \A k \in 1 .. Len(queue) : queue[k] # t
      BY <1>0, <2>1 DEF Queued
    <3>2. \A k \in 1 .. Len(queue) + 1 : k \in 1 .. Len(queue) \/ k = Len(queue) + 1
      BY <1>0
    <3> QED
      BY <1>0, <2>2, <3>1, <3>2 DEF OnePlaceEach
  <2> QED
    BY <2>1, <2>2, <2>3, <2>4 DEF OnePlaceEach
<1>2. ASSUME NEW w \in Workers, Take(w) PROVE PoolTypeOK' /\ OnePlaceEach'
  <2>1. /\ running[w] = NoTask /\ queue # <<>> /\ queue' = Tail(queue)
        /\ running' = [running EXCEPT ![w] = Head(queue)] /\ finished' = finished
    BY <1>2 DEF Take
  <2>2. /\ Len(queue) >= 1 /\ Head(queue) \in Tasks /\ Head(queue) = queue[1]
        /\ queue' \in Seq(Tasks) /\ DOMAIN queue' = 1 .. Len(queue) - 1
        /\ \A i \in 1 .. Len(queue) - 1 : queue'[i] = queue[i + 1]
    BY <1>0, <2>1, HeadTailProperties, LenProperties, EmptySeq
  <2>3. Head(queue) # NoTask
    BY <2>2
  <2>4. Queued' \subseteq Queued /\ queue[1] \in Queued /\ queue[1] \notin Queued'
    <3>1. \A i \in 1 .. Len(queue) - 1 : i + 1 \in 1 .. Len(queue) /\ i + 1 # 1
      BY <1>0
    <3>2. 1 \in 1 .. Len(queue)
      BY <1>0, <2>2
    <3>3. queue[1] \in Queued
      BY <1>0, <3>2 DEF Queued
    <3>4. ASSUME NEW x \in Queued' PROVE x \in Queued /\ x # queue[1]
      <4>1. PICK i \in 1 .. Len(queue) - 1 : x = queue[i + 1]
        BY <2>2 DEF Queued
      <4> QED
        BY <1>0, <3>1, <3>2, <4>1 DEF Queued, OnePlaceEach
    <3> QED
      BY <3>3, <3>4
  <2>5. Running' = Running \cup {queue[1]}
    BY <2>1, <2>2, <2>3 DEF Running
  <2>6. \A i, j \in DOMAIN queue' : queue'[i] = queue'[j] => i = j
    <3> SUFFICES ASSUME NEW i \in 1 .. Len(queue) - 1, NEW j \in 1 .. Len(queue) - 1,
                        queue[i + 1] = queue[j + 1]
                 PROVE  i = j
      BY <2>2
    <3>1. i + 1 \in DOMAIN queue /\ j + 1 \in DOMAIN queue
      BY <1>0
    <3>2. i + 1 = j + 1
      BY <3>1 DEF OnePlaceEach
    <3> QED
      BY <3>2
  <2>7. \A u, v \in Workers : running'[u] = running'[v] /\ running'[u] # NoTask => u = v
    <3>1. \A v \in Workers : running[v] # queue[1]
      BY <2>2, <2>3, <2>4 DEF OnePlaceEach, Running
    <3> QED
      BY <2>1, <2>2, <3>1 DEF OnePlaceEach
  <2>8. PoolTypeOK'
    BY <2>1, <2>2
  <2> QED
    BY <2>1, <2>4, <2>5, <2>6, <2>7, <2>8 DEF OnePlaceEach
<1>3. ASSUME NEW w \in Workers, Finish(w) PROVE PoolTypeOK' /\ OnePlaceEach'
  <2>1. /\ running[w] # NoTask /\ finished' = finished \cup {running[w]}
        /\ running' = [running EXCEPT ![w] = NoTask] /\ queue' = queue
    BY <1>3 DEF Finish
  <2>2. running[w] \in Running /\ Running' = Running \ {running[w]} /\ Queued' = Queued
    BY <2>1 DEF Running, Queued, OnePlaceEach
  <2>3. \A u, v \in Workers : running'[u] = running'[v] /\ running'[u] # NoTask => u = v
    BY <2>1 DEF OnePlaceEach
  <2>4. PoolTypeOK'
    BY <2>1
  <2> QED
    BY <2>1, <2>2, <2>3, <2>4 DEF OnePlaceEach
<1>4. CASE UNCHANGED <<queue, running, finished>>
  BY <1>4 DEF OnePlaceEach, Queued, Running
<1>5. CASE Close \/ End \/ UNCHANGED poolVars
  BY <1>4, <1>5 DEF Close, End, poolVars
<1> QED
  BY <1>1, <1>2, <1>3, <1>5 DEF PoolNext

(* In every pool that implements TaskPool no task is at two places, so none *)
(* runs twice.                                                              *)
THEOREM RunsOnce ==
  ASSUME NoTask \notin Tasks
  PROVE  PoolSpec => []OnePlaceEach
<1>1. PoolInit => PoolTypeOK /\ OnePlaceEach
  BY EmptySeq DEF PoolInit, PoolTypeOK, OnePlaceEach, Queued, Running
<1>2. PoolTypeOK /\ OnePlaceEach /\ [PoolNext]_poolVars => PoolTypeOK' /\ OnePlaceEach'
  BY PlacesStep
<1> QED
  BY <1>1, <1>2, PTL DEF PoolSpec
=============================================================================
