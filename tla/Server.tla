-------------------------------- MODULE Server --------------------------------
(***************************************************************************)
(* The life of the server (src/server/Test.cpp), from the first line of    *)
(* main to the last static object: the two configurations are read, the    *)
(* pool, the logger, the DataManager and the thread of the service are     *)
(* made, one after the other, and all but the DataManager are taken down   *)
(* again.                                                                  *)
(*                                                                         *)
(* The worker of the logger is what LogChannel promises of it and what     *)
(* AsyncWorker shows of Stop, which may miss a worker about to sleep; the  *)
(* pool is what ThreadPool proves of it, a handler what it may log and     *)
(* whether it returns (StorageService).  A message is counted, not named.  *)
(***************************************************************************)
EXTENDS Integers

CONSTANTS
  BufferSize,     (* buffer_size of config.conf, in messages              *)
  ThreadCount,    (* thread_count of config.conf                          *)
  MaxRequests     (* bound: the requests that arrive                      *)

ASSUME ServerAssumption ==
  BufferSize \in Nat /\ ThreadCount \in Nat /\ MaxRequests \in Nat

VARIABLES
  main,          (* what main does next                                     *)
  t1,            (* what the thread of the service does next                *)
  config,        (* *g_conf_data, a static object: "none", "up", "gone"     *)
  buffer_size,   (* its two values that decide what can run                 *)
  thread_count,
  tp,            (* the pool: "null", "up", "stopping", "gone"              *)
  eton,          (* the LoggerManager: "none", "up", "gone", and, while     *)
                 (* ~AsyncWorker joins, "stopping" with a worker that has   *)
                 (* seen stop_ or will, "missed" with one that sleeps       *)
  saying,        (* what the thread that logs has still to do of its        *)
                 (* statement: "serious" (enqueue, Push), "plain" (Push)    *)
  requests,
  said, serious,               (* history: statements begun, ERROR or FATAL *)
  waiting, flushing, flushed,  (* messages: pushed, swapped, in the sinks   *)
  queued, running, done        (* tasks of the pool                         *)

confVars == <<config, buffer_size, thread_count>>
logVars == <<waiting, flushing, flushed>>
poolVars == <<queued, running, done>>
sayVars == <<saying, said, serious>>
vars == <<main, t1, confVars, tp, eton, sayVars, requests, logVars, poolVars>>

Init ==
  /\ main = "GetConfig"
  /\ t1 = "none"
  /\ config = "none" /\ buffer_size = 0 /\ thread_count = 0
  /\ tp = "null"
  /\ eton = "none"
  /\ saying = "nothing" /\ said = 0 /\ serious = 0
  /\ requests = 0
  /\ waiting = 0 /\ flushing = 0 /\ flushed = 0
  /\ queued = 0 /\ running = 0 /\ done = 0

(* The process is there.                                                    *)
Alive == main \notin {"ended", "aborted"}

-----------------------------------------------------------------------------
(* Log statements                                                            *)

(* A thread logs: main before it starts t1, then t1.  One statement stands  *)
(* for those of a step, and is serious if one of them may be.               *)
Say(level) ==
  /\ saying = "nothing"
  /\ saying' = level
  /\ said' = said + 1
  /\ serious' = serious + (IF level = "serious" THEN 1 ELSE 0)

Silent == saying = "nothing" /\ UNCHANGED sayVars

(* serialize, an ERROR or a FATAL: tp->enqueue(start_backup, data).         *)
Enqueue ==
  /\ Alive
  /\ saying = "serious"
  /\ saying' = "plain"
  /\ queued' = queued + 1
  /\ UNCHANGED <<main, t1, confVars, tp, eton, said, serious, requests,
                 logVars, running, done>>

\* mutant: a key with a typing error reads as nought.
HasRoom_Misspelt == FALSE

(* No buffer of the worker grows: its Push waits until the message fits.    *)
HasRoom == waiting < buffer_size

Push ==
  /\ Alive
  /\ saying = "plain"
  /\ HasRoom
  /\ saying' = "nothing"
  /\ waiting' = waiting + 1
  /\ UNCHANGED <<main, t1, confVars, tp, eton, said, serious, requests,
                 flushing, flushed, poolVars>>

(* The thread of the worker, and a thread of the pool.                      *)
Swap ==
  /\ Alive
  /\ eton \in {"up", "stopping"}
  /\ flushing = 0 /\ waiting > 0
  /\ flushing' = waiting
  /\ waiting' = 0
  /\ UNCHANGED <<main, t1, confVars, tp, eton, sayVars, requests, flushed,
                 poolVars>>

RealFlush ==
  /\ Alive
  /\ flushing > 0
  /\ flushed' = flushed + flushing
  /\ flushing' = 0
  /\ UNCHANGED <<main, t1, confVars, tp, eton, sayVars, requests, waiting,
                 poolVars>>

TakeTask ==
  /\ Alive
  /\ tp \in {"up", "stopping"}
  /\ queued > 0 /\ running < thread_count
  /\ queued' = queued - 1
  /\ running' = running + 1
  /\ UNCHANGED <<main, t1, confVars, tp, eton, sayVars, requests, logVars, done>>

start_backup ==
  /\ Alive
  /\ running > 0
  /\ running' = running - 1
  /\ done' = done + 1
  /\ UNCHANGED <<main, t1, confVars, tp, eton, sayVars, requests, logVars,
                 queued>>

-----------------------------------------------------------------------------
(* main, up                                                                  *)

(* A file that cannot be read, and a key that is not in it, give nought.    *)
GetConfig ==
  /\ main = "GetConfig"
  /\ config' = "up"
  /\ buffer_size' \in {0, BufferSize}
  /\ thread_count' \in {0, ThreadCount}
  /\ main' = "ThreadPool"
  /\ Silent
  /\ UNCHANGED <<t1, tp, eton, requests, logVars, poolVars>>

NewThreadPool ==
  /\ main = "ThreadPool"
  /\ tp' = "up"
  /\ main' = "AddLogger"
  /\ Silent
  /\ UNCHANGED <<t1, confVars, eton, requests, logVars, poolVars>>

AddLogger ==
  /\ main = "AddLogger"
  /\ eton' = "up"
  /\ main' = "DataManager"
  /\ Silent
  /\ UNCHANGED <<t1, confVars, tp, requests, logVars, poolVars>>

(* DataManager construct start, the first message there is.                 *)
NewDataManager ==
  /\ main = "DataManager"
  /\ Say("plain")
  /\ main' = "ReadConfig"
  /\ UNCHANGED <<t1, confVars, tp, eton, requests, logVars, poolVars>>

(* storage::Config: ReadConfig complicate, or the FATAL of a file that      *)
(* cannot be read, or the ERROR of one that is no JSON.  What it leaves in  *)
(* server_port_ shows when the port is bound.                               *)
ReadConfig ==
  /\ main = "ReadConfig"
  /\ \E level \in {"plain", "serious"} : Say(level)
  /\ main' = "InitLoad"
  /\ UNCHANGED <<t1, confVars, tp, eton, requests, logVars, poolVars>>

InitLoad ==
  /\ main = "InitLoad"
  /\ \E level \in {"plain", "serious"} : Say(level)
  /\ main' = "StartService"
  /\ UNCHANGED <<t1, confVars, tp, eton, requests, logVars, poolVars>>

StartService ==
  /\ main = "StartService"
  /\ Silent
  /\ t1' = "Service"
  /\ main' = "Join"
  /\ UNCHANGED <<confVars, tp, eton, requests, logVars, poolVars>>

-----------------------------------------------------------------------------
(* The thread of the service                                                 *)

Service ==
  /\ t1 = "Service"
  /\ Say("plain")
  /\ t1' = "RunModule"
  /\ UNCHANGED <<main, confVars, tp, eton, requests, logVars, poolVars>>

(* event_base_new, evhttp_bind_socket: if one fails, a FATAL and the end.   *)
RunModule ==
  /\ t1 = "RunModule"
  /\ \/ Silent /\ t1' = "serving"
     \/ Say("serious") /\ t1' = "returning"
  /\ UNCHANGED <<main, confVars, tp, eton, requests, logVars, poolVars>>

(* A request; its handler may wait for the lock of the table for ever.      *)
GenHandler ==
  /\ t1 = "serving"
  /\ requests < MaxRequests
  /\ requests' = requests + 1
  /\ \E level \in {"plain", "serious"} : Say(level)
  /\ t1' \in {"serving", "hanging"}
  /\ UNCHANGED <<main, confVars, tp, eton, logVars, poolVars>>

DispatchFails ==
  /\ t1 = "serving"
  /\ Say("serious")
  /\ t1' = "returning"
  /\ UNCHANGED <<main, confVars, tp, eton, requests, logVars, poolVars>>

ServiceReturns ==
  /\ t1 = "returning"
  /\ Silent
  /\ t1' = "ended"
  /\ UNCHANGED <<main, confVars, tp, eton, requests, logVars, poolVars>>

-----------------------------------------------------------------------------
(* main, down                                                                *)

\* mutant: the thread is detached.
Join_Detached ==
  /\ main = "Join"
  /\ main' = "delete"
  /\ UNCHANGED <<t1, confVars, tp, eton, sayVars, requests, logVars, poolVars>>

(* t1.join()                                                                *)
Join ==
  /\ main = "Join"
  /\ t1 = "ended"
  /\ main' = "delete"
  /\ UNCHANGED <<t1, confVars, tp, eton, sayVars, requests, logVars, poolVars>>

\* mutant: the pool is left to the end of the process.
DeletePool_Leaked ==
  /\ main = "delete"
  /\ main' = "exit"
  /\ UNCHANGED <<t1, confVars, tp, eton, sayVars, requests, logVars, poolVars>>

(* delete tp: no thread ends before the queue is empty.  Without a thread   *)
(* there is nobody to wait for.                                             *)
DeletePool ==
  /\ main = "delete"
  /\ \/ tp = "up" /\ tp' = "stopping" /\ UNCHANGED main
     \/ /\ tp = "stopping"
        /\ thread_count > 0 => queued = 0 /\ running = 0
        /\ tp' = "gone"
        /\ main' = "exit"
  /\ UNCHANGED <<t1, confVars, eton, sayVars, requests, logVars, poolVars>>

(* return 0, static objects, the youngest first.  ~AsyncWorker waits for    *)
(* its thread, which ends when nothing is left.  Stop sets stop_ and        *)
(* notifies without the mutex: a worker that has found nothing to do and    *)
(* stop_ false, and does not sleep yet, misses the one notification there   *)
(* is, and sleeps.                                                          *)
DestroyEton ==
  /\ main = "exit"
  /\ \/ eton = "up" /\ eton' = "stopping" /\ UNCHANGED main
     \/ /\ eton = "up"
        /\ waiting = 0 /\ flushing = 0
        /\ eton' = "missed"
        /\ UNCHANGED main
     \/ /\ eton = "stopping"
        /\ waiting = 0 /\ flushing = 0
        /\ eton' = "gone"
        /\ main' = "statics"
  /\ UNCHANGED <<t1, confVars, tp, sayVars, requests, logVars, poolVars>>

(* A wait of the standard library may return unasked; it need not.          *)
WakesUnasked ==
  /\ Alive
  /\ eton = "missed"
  /\ eton' = "stopping"
  /\ UNCHANGED <<main, t1, confVars, tp, sayVars, requests, logVars, poolVars>>

DestroyConfig ==
  /\ main = "statics"
  /\ config' = "gone"
  /\ main' = "ended"
  /\ UNCHANGED <<t1, buffer_size, thread_count, tp, eton, sayVars, requests,
                 logVars, poolVars>>

(* An exception nobody catches, or a failed assertion: JSON of the wrong    *)
(* shape in a configuration or the storage file, a request no handler       *)
(* stands.                                                                  *)
Abort ==
  /\ main \in {"GetConfig", "ReadConfig", "InitLoad"} \/ t1 = "serving"
  /\ Silent
  /\ main' = "aborted"
  /\ UNCHANGED <<t1, confVars, tp, eton, requests, logVars, poolVars>>

-----------------------------------------------------------------------------
MainStep ==
  \/ GetConfig \/ NewThreadPool \/ AddLogger \/ NewDataManager
  \/ ReadConfig \/ InitLoad \/ StartService
  \/ Join \/ DeletePool \/ DestroyEton \/ DestroyConfig

(* What t1 does by itself: all but serve.                                   *)
ServiceStep == Service \/ RunModule \/ ServiceReturns

Logging == Enqueue \/ Push
WorkerStep == Swap \/ RealFlush
PoolStep == TakeTask \/ start_backup

Next ==
  \/ MainStep
  \/ Alive /\ ServiceStep
  \/ Alive /\ (GenHandler \/ DispatchFails)
  \/ Alive /\ Abort
  \/ Logging \/ WorkerStep \/ PoolStep
  \/ WakesUnasked

(* Every thread runs on.  Nobody has to send a request, nothing has to go   *)
(* wrong, and nobody has to wake unasked.                                   *)
Fairness ==
  /\ WF_vars(MainStep) /\ WF_vars(Alive /\ ServiceStep)
  /\ WF_vars(Logging) /\ WF_vars(WorkerStep) /\ WF_vars(PoolStep)

Spec == Init /\ [][Next]_vars /\ Fairness

-----------------------------------------------------------------------------
(* The types; proved of every behaviour with the rest (ServerProofs).       *)
TypeOK ==
  /\ main \in {"GetConfig", "ThreadPool", "AddLogger", "DataManager",
               "ReadConfig", "InitLoad", "StartService", "Join", "delete",
               "exit", "statics", "ended", "aborted"}
  /\ t1 \in {"none", "Service", "RunModule", "serving", "hanging",
             "returning", "ended"}
  /\ config \in {"none", "up", "gone"}
  /\ tp \in {"null", "up", "stopping", "gone"}
  /\ eton \in {"none", "up", "stopping", "missed", "gone"}
  /\ saying \in {"nothing", "plain", "serious"}
  /\ {buffer_size, thread_count, requests, said, serious, waiting, flushing,
      flushed, queued, running, done} \subseteq Nat

(* Nothing is used before it is there or after it is gone, until the last   *)
(* static object: no statement without the logger, no ERROR or FATAL to a   *)
(* pool that is not there or stops (AsyncLogger.hpp:40 says that does not   *)
(* happen), no flush and no backup without the configuration they read.     *)
UsedWhileThere ==
  /\ saying # "nothing" => eton = "up"
  /\ saying = "serious" => tp = "up"
  /\ waiting + flushing > 0 => eton \in {"up", "stopping"} /\ config = "up"
  /\ running > 0 => tp \in {"up", "stopping"} /\ config = "up"

(* When the process has ended in the usual way, every statement there was   *)
(* is in the sinks, and, if the pool had a thread at all, every ERROR and   *)
(* FATAL has been sent off.                                                 *)
NothingSaidIsLost ==
  main = "ended" =>
    /\ flushed = said
    /\ thread_count > 0 => done = serious

(* Who could go on by itself: a statement with room for its message, the    *)
(* worker and the pool with something to do, a step of t1 or of main that   *)
(* waits for nothing, or for what has come.                                 *)
LoggingReady == saying = "serious" \/ (saying = "plain" /\ HasRoom)

WorkerReady ==
  \/ flushing > 0
  \/ waiting > 0 /\ eton \in {"up", "stopping"}

PoolReady ==
  \/ running > 0
  \/ queued > 0 /\ running < thread_count /\ tp \in {"up", "stopping"}

ServiceReady == saying = "nothing" /\ t1 \in {"Service", "RunModule", "returning"}

MainReady ==
  \/ /\ saying = "nothing"
     /\ main \in {"GetConfig", "ThreadPool", "AddLogger", "DataManager",
                  "ReadConfig", "InitLoad", "StartService"}
  \/ main = "Join" /\ t1 = "ended"
  \/ /\ main = "delete"
     /\ tp = "stopping" /\ thread_count > 0 => queued = 0 /\ running = 0
  \/ main = "exit" /\ eton # "missed" /\ (eton = "stopping" => waiting = 0 /\ flushing = 0)
  \/ main = "statics"

AtRest ==
  Alive => ~LoggingReady /\ ~WorkerReady /\ ~PoolReady /\ ~ServiceReady /\ ~MainReady

(* The server comes to rest at four places only: it has aborted; it has no  *)
(* buffer_size and hangs in a statement; it has ended, or serves, or hangs  *)
(* in a request; or ~AsyncWorker joins a worker that missed the             *)
(* notification of Stop (AsyncWorker.hpp:88-94).  At the last two all that  *)
(* was said is written and sent off: no rest costs a message.               *)
RestsOnlyWhenAllIsKept ==
  AtRest =>
    \/ main = "aborted"
    \/ buffer_size = 0 /\ saying = "plain"
    \/ /\ \/ main = "ended"
          \/ main = "Join" /\ t1 \in {"serving", "hanging"}
          \/ main = "exit" /\ eton = "missed"
       /\ saying = "nothing"
       /\ flushed = said
       /\ thread_count > 0 => done = serious

(* Without a buffer_size (Config.hpp:22) the server neither serves nor ends: *)
(* main waits in the first statement of all.                                 *)
HangsUnconfigured ==
  config # "none" /\ buffer_size = 0 =>
    main \in {"ThreadPool", "AddLogger", "DataManager", "ReadConfig"}

(* With one it serves, or the service returns, or it aborts.  And when the   *)
(* service has returned the process ends, or ~AsyncWorker joins a worker     *)
(* that missed the notification of Stop: nothing else keeps it, and the pool *)
(* never does.                                                               *)
ServesIfConfigured ==
  /\ []HangsUnconfigured
  /\ main = "ThreadPool" /\ buffer_size > 0 ~>
       t1 \in {"serving", "ended"} \/ main = "aborted"
  /\ t1 = "ended" ~> main = "ended" \/ eton = "missed"
=============================================================================
