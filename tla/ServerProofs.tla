----------------------------- MODULE ServerProofs -----------------------------
(***************************************************************************)
(* Theorems about the life of the server, for every buffer size, number of *)
(* threads and number of requests.                                         *)
(*                                                                         *)
(* The invariant says what each place of main implies of the objects and   *)
(* of t1 (Stages), and accounts for every statement and every task         *)
(* (Accounts): a statement is being made, waits, is flushed or is in the   *)
(* sinks; a task is about to be queued, queued, running or done.           *)
(***************************************************************************)
EXTENDS Server, TLAPS

Rising  == {"GetConfig", "ThreadPool", "AddLogger", "DataManager",
            "ReadConfig", "InitLoad", "StartService"}
Falling == {"delete", "exit", "statics", "ended"}

Stages ==
  /\ main = "GetConfig" => config = "none"
  /\ main \in (Rising \cup Falling \cup {"Join"}) \ {"GetConfig", "ended"} =>
       config = "up"
  /\ main \in {"GetConfig", "ThreadPool"} => tp = "null"
  /\ main \in (Rising \cup {"Join"}) \ {"GetConfig", "ThreadPool"} => tp = "up"
  /\ main = "delete" => tp \in {"up", "stopping"}
  /\ main \in {"GetConfig", "ThreadPool", "AddLogger"} => eton = "none"
  /\ main \in (Rising \cup {"Join", "delete"}) \ {"GetConfig", "ThreadPool", "AddLogger"} =>
       eton = "up"
  /\ main \in {"statics", "ended"} => eton = "gone"
  /\ main \in Rising => t1 = "none"
  /\ main \in Falling => t1 = "ended" /\ saying = "nothing"
  /\ t1 = "ended" => saying = "nothing"
  /\ main \in Falling \ {"delete"} => tp = "gone"
  /\ eton = "missed" => main = "exit"

Accounts ==
  /\ said = flushed + flushing + waiting + (IF saying = "nothing" THEN 0 ELSE 1)
  /\ serious = done + running + queued + (IF saying = "serious" THEN 1 ELSE 0)
  /\ running <= thread_count
  /\ tp = "gone" /\ thread_count > 0 => queued = 0

IInv == TypeOK /\ Stages /\ UsedWhileThere /\ Accounts

LEMMA InitIInv == Init => IInv
BY DEF Init, IInv, TypeOK, Stages, UsedWhileThere, Accounts, Rising, Falling

(* The actions of main.                                                      *)
LEMMA MainKeepsIInv ==
  ASSUME IInv, MainStep
  PROVE  IInv'
<1> USE ServerAssumption DEF IInv, TypeOK, Stages, UsedWhileThere, Accounts,
        Rising, Falling, confVars, logVars, poolVars, sayVars, Silent, Say
<1>1. CASE GetConfig
  BY <1>1 DEF GetConfig
<1>2. CASE NewThreadPool
  BY <1>2 DEF NewThreadPool
<1>3. CASE AddLogger
  BY <1>3 DEF AddLogger
<1>4. CASE NewDataManager
  BY <1>4 DEF NewDataManager
<1>5. CASE ReadConfig
  BY <1>5 DEF ReadConfig
<1>6. CASE InitLoad
  BY <1>6 DEF InitLoad
<1>7. CASE StartService
  BY <1>7 DEF StartService
<1>8. CASE Join
  BY <1>8 DEF Join
<1>9. CASE DeletePool
  BY <1>9 DEF DeletePool
<1>10. CASE DestroyEton
  BY <1>10 DEF DestroyEton
<1>11. CASE DestroyConfig
  BY <1>11 DEF DestroyConfig
<1> QED
  BY <1>1, <1>2, <1>3, <1>4, <1>5, <1>6, <1>7, <1>8, <1>9, <1>10, <1>11
  DEF MainStep

(* The actions of the other threads, and the one that ends them all.         *)
LEMMA OthersKeepIInv ==
  ASSUME IInv, Next, ~MainStep
  PROVE  IInv'
<1> USE DEF IInv, TypeOK, Stages, UsedWhileThere, Accounts,
        Rising, Falling, confVars, logVars, poolVars, sayVars, Silent, Say, Alive
<1>1. CASE Alive /\ Service
  BY <1>1 DEF Service
<1>2. CASE Alive /\ RunModule
  BY <1>2 DEF RunModule
<1>3. CASE Alive /\ ServiceReturns
  BY <1>3 DEF ServiceReturns
<1>4. CASE Alive /\ GenHandler
  BY <1>4 DEF GenHandler
<1>5. CASE Alive /\ DispatchFails
  BY <1>5 DEF DispatchFails
<1>6. CASE Alive /\ Abort
  BY <1>6 DEF Abort
<1>7. CASE Enqueue
  BY <1>7 DEF Enqueue
<1>8. CASE Push
  BY <1>8 DEF Push
<1>9. CASE Swap
  BY <1>9 DEF Swap
<1>10. CASE RealFlush
  BY <1>10 DEF RealFlush
<1>11. CASE TakeTask
  <2>1. thread_count' = thread_count /\ running' = running + 1 /\ running < thread_count
    BY <1>11 DEF TakeTask
  <2>2. TypeOK' /\ Stages' /\ UsedWhileThere'
    BY <1>11 DEF TakeTask
  <2>3. Accounts'
    BY <1>11, <2>1 DEF TakeTask
  <2> QED
    BY <2>2, <2>3
<1>12. CASE start_backup
  BY <1>12 DEF start_backup
<1>13. CASE WakesUnasked
  BY <1>13 DEF WakesUnasked
<1> QED
  BY <1>1, <1>2, <1>3, <1>4, <1>5, <1>6, <1>7, <1>8, <1>9, <1>10, <1>11, <1>12, <1>13
  DEF Next, ServiceStep, Logging, WorkerStep, PoolStep

LEMMA NextIInv == IInv /\ [Next]_vars => IInv'
<1> SUFFICES ASSUME IInv, [Next]_vars PROVE IInv'
  OBVIOUS
<1>1. CASE MainStep
  BY <1>1, MainKeepsIInv
<1>2. CASE Next /\ ~MainStep
  BY <1>2, OthersKeepIInv
<1>3. CASE UNCHANGED vars
  BY <1>3 DEF vars, confVars, logVars, poolVars, sayVars, IInv, TypeOK, Stages,
              UsedWhileThere, Accounts, Rising, Falling
<1> QED
  BY <1>1, <1>2, <1>3

LEMMA AlwaysIInv == Spec => []IInv
BY InitIInv, NextIInv, PTL DEF Spec

-----------------------------------------------------------------------------
(* No statement, flush or backup of any behaviour meets an object that is    *)
(* not there yet or no longer.                                               *)
THEOREM EverythingThere == Spec => []UsedWhileThere
<1>1. IInv => UsedWhileThere
  BY DEF IInv
<1> QED
  BY <1>1, AlwaysIInv, PTL

(* A server that has ended has written all it said, and sent off all of it   *)
(* that was serious if the pool had a thread.                                *)
THEOREM EverythingKept == Spec => []NothingSaidIsLost
<1>1. IInv => NothingSaidIsLost
  <2> SUFFICES ASSUME IInv, main = "ended" PROVE NothingSaidIsLost
    BY DEF NothingSaidIsLost
  <2>1. eton = "gone" /\ tp = "gone" /\ saying = "nothing"
    BY DEF IInv, Stages, Falling
  <2>2. waiting = 0 /\ flushing = 0 /\ running = 0
    BY <2>1 DEF IInv, UsedWhileThere, TypeOK
  <2> QED
    BY <2>1, <2>2 DEF IInv, Accounts, TypeOK, NothingSaidIsLost
<1> QED
  BY <1>1, AlwaysIInv, PTL

-----------------------------------------------------------------------------
(* Without room in the buffer the first statement is never finished, so main *)
(* stays in front of the second.                                             *)
Stuck ==
  buffer_size = 0 /\ config # "none" =>
    /\ main \in {"ThreadPool", "AddLogger", "DataManager", "ReadConfig"}
    /\ main = "ReadConfig" => saying # "nothing"

(* If config.conf gives no buffer_size, the server never serves and never    *)
(* ends, whatever else it gives.                                             *)
THEOREM Unconfigured == Spec => []HangsUnconfigured
<1>1. Init => Stuck
  BY DEF Init, Stuck
<1>2. IInv /\ Stuck /\ [Next]_vars => Stuck'
  <2> SUFFICES ASSUME IInv, Stuck, [Next]_vars PROVE Stuck'
    OBVIOUS
  <2> USE DEF Stuck, confVars, logVars, poolVars, sayVars, Silent, Say
  <2>1. CASE MainStep
    BY <2>1 DEF MainStep, GetConfig, NewThreadPool, AddLogger, NewDataManager,
       ReadConfig, InitLoad, StartService, Join, DeletePool, DestroyEton,
       DestroyConfig, IInv, Stages, Rising, Falling
  <2>2. CASE Alive /\ (ServiceStep \/ GenHandler \/ DispatchFails \/ Abort)
    BY <2>2 DEF Alive, ServiceStep, Service, RunModule, ServiceReturns,
       GenHandler, DispatchFails, Abort, IInv, Stages, Rising
  <2>3. CASE Logging
    BY <2>3 DEF Logging, Enqueue, Push, HasRoom, IInv, TypeOK
  <2>4. CASE WorkerStep \/ PoolStep \/ UNCHANGED vars
    BY <2>4 DEF WorkerStep, PoolStep, Swap, RealFlush, TakeTask, start_backup, vars
  <2>5. CASE WakesUnasked
    BY <2>5 DEF WakesUnasked
  <2> QED
    BY <2>1, <2>2, <2>3, <2>4, <2>5 DEF Next
<1>3. Stuck => HangsUnconfigured
  BY DEF Stuck, HangsUnconfigured
<1> QED
  BY <1>1, <1>2, <1>3, AlwaysIInv, PTL DEF Spec

-----------------------------------------------------------------------------
(* Once main joins, t1 has been started.                                     *)
Started == main = "Join" => t1 # "none"

LEMMA StartedStep == Started /\ [Next]_vars => Started'
<1> SUFFICES ASSUME Started, [Next]_vars PROVE Started'
  OBVIOUS
<1> USE DEF Started
<1>1. CASE MainStep
  BY <1>1 DEF MainStep, GetConfig, NewThreadPool, AddLogger, NewDataManager, ReadConfig,
     InitLoad, StartService, Join, DeletePool, DestroyEton, DestroyConfig
<1>2. CASE Alive /\ (ServiceStep \/ GenHandler \/ DispatchFails)
  BY <1>2 DEF ServiceStep, Service, RunModule, ServiceReturns, GenHandler, DispatchFails
<1>3. CASE Alive /\ Abort
  BY <1>3 DEF Abort
<1>4. CASE Logging \/ WorkerStep \/ PoolStep \/ WakesUnasked
  BY <1>4 DEF Logging, Enqueue, Push, WorkerStep, Swap, RealFlush, PoolStep, TakeTask,
     start_backup, WakesUnasked
<1>5. CASE UNCHANGED vars
  BY <1>5 DEF vars
<1> QED
  BY <1>1, <1>2, <1>3, <1>4, <1>5 DEF Next

(* Pool, worker, t1 and main wait for each other at one place only, where   *)
(* ~AsyncWorker joins a worker its notification missed.  A server that is   *)
(* configured and does not abort comes to rest there, at its end or in the  *)
(* service, with all it said written and all that was serious sent off      *)
(* (Test.cpp:8-33, ThreadPoll.hpp:90-99, AsyncWorker.hpp:88-108).           *)
THEOREM NothingHangs == Spec => []RestsOnlyWhenAllIsKept
<1>1. IInv /\ Started /\ NothingSaidIsLost => RestsOnlyWhenAllIsKept
  <2> SUFFICES ASSUME IInv, Started, Alive, buffer_size # 0 \/ saying # "plain",
                      ~LoggingReady, ~WorkerReady, ~PoolReady, ~ServiceReady, ~MainReady
               PROVE  /\ \/ main = "Join" /\ t1 \in {"serving", "hanging"}
                         \/ main = "exit" /\ eton = "missed"
                      /\ saying = "nothing"
                      /\ flushed = said
                      /\ thread_count > 0 => done = serious
    BY DEF RestsOnlyWhenAllIsKept, AtRest, Alive, NothingSaidIsLost, IInv, Stages, Falling
  <2> USE DEF IInv, TypeOK
  <2>1. flushing = 0 /\ waiting = 0
    BY DEF WorkerReady, UsedWhileThere
  <2>2. saying = "nothing"
    BY <2>1 DEF LoggingReady, HasRoom
  <2>3. main \notin Rising \cup {"statics"} /\ (main = "exit" => eton = "missed")
    BY <2>1, <2>2 DEF MainReady, Rising
  <2>4. running = 0
    BY DEF PoolReady
  <2>5. main # "delete"
    <3> SUFFICES ASSUME main = "delete" PROVE FALSE
      OBVIOUS
    <3>1. tp = "stopping" /\ thread_count > 0 /\ queued > 0
      BY <2>4 DEF MainReady
    <3> QED
      BY <2>4, <3>1 DEF PoolReady
  <2>6. main = "Join" \/ (main = "exit" /\ eton = "missed")
    BY <2>3, <2>5 DEF Alive, Rising
  <2>7. main = "Join" => t1 \in {"serving", "hanging"}
    BY <2>2 DEF Started, ServiceReady, MainReady
  <2>8. flushed = said
    BY <2>1, <2>2 DEF Accounts
  <2>9. ASSUME thread_count > 0 PROVE done = serious
    <3>1. tp = "up" \/ tp = "gone"
      BY <2>6 DEF Stages, Rising, Falling
    <3>2. queued = 0
      BY <2>4, <2>9, <3>1 DEF PoolReady, Accounts
    <3> QED
      BY <2>2, <2>4, <3>2 DEF Accounts
  <2> QED
    BY <2>2, <2>6, <2>7, <2>8, <2>9
<1>2. Init => Started
  BY DEF Init, Started
<1> QED
  BY <1>1, <1>2, StartedStep, AlwaysIInv, EverythingKept, PTL DEF Spec
=============================================================================
