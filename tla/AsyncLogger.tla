----------------------------- MODULE AsyncLogger -----------------------------
(***************************************************************************)
(* A log statement from end to end (logSystem/logsCode/AsyncLogger.hpp):   *)
(* threads add loggers to the LoggerManager, get them by name and log;     *)
(* serialize gives ERROR and FATAL messages to the pool, whose threads run *)
(* start_backup of RemoteBackup, and then every message to the worker.     *)
(*                                                                         *)
(* The parts that have modules of their own come in by what they promise:  *)
(* the worker is a log that accepts messages (LogChannel; a Push that has  *)
(* to wait is one that is not taken yet), the pool a queue whose tasks are *)
(* taken in order, each by one thread (TaskPool).  Nobody closes either    *)
(* while threads still log (Test.cpp:26-34).                               *)
(***************************************************************************)
EXTENDS LoggerManager, RemoteBackup, FiniteSets

CONSTANTS
  Workers,    (* the threads of the pool                                    *)
  Levels      (* the levels that are logged                                 *)

ASSUME LoggerAssumption ==
  /\ IsFiniteSet(Messages)
  /\ Workers # {}
  /\ Levels \subseteq {"DEBUG", "INFO", "WARN", "ERROR", "FATAL"}
  /\ None \notin Messages \cup Levels

VARIABLES
  lpc,         (* where each thread is in a log statement                   *)
  msg,         (* the message it logs                                       *)
  level,       (* the level of each message that has been logged            *)
  this,        (* the logger it goes to                                     *)
  log,         (* what each logger's worker has accepted                    *)
  tasks,       (* the queue of the pool                                     *)
  running      (* the task of each of its threads                           *)

poolVars == <<tasks, running>>
loggerVars == <<lpc, msg, level, this, log>>
vars == <<managerVars, backupVars, poolVars, loggerVars>>

Unused == {m \in Messages : level[m] = None}

Init ==
  /\ ManagerInit
  /\ BackupInit
  /\ lpc = [t \in Threads |-> "idle"]
  /\ msg = [t \in Threads |-> None]
  /\ level = [m \in Messages |-> None]
  /\ this = [m \in Messages |-> None]
  /\ log = [l \in Loggers |-> <<>>]
  /\ tasks = <<>>
  /\ running = [w \in Workers |-> None]

-----------------------------------------------------------------------------
Manage(t) ==
  /\ \/ \E name \in Names : Build(t, name)
     \/ LoggerExist(t)
     \/ AddLogger(t)
  /\ UNCHANGED <<backupVars, poolVars, loggerVars>>

\* mutant: FATAL is forgotten.
BackedUp_Error(lvl) == lvl = "ERROR"

(* serialize's test of the level.                                           *)
BackedUp(lvl) == lvl \in {"ERROR", "FATAL"}

(* GetLogger(name)->Error(...) and its like, as far as that test.  A thread *)
(* logs by the name it has added.                                           *)
Log(t, lvl) ==
  /\ mpc[t] = "added"
  /\ lpc[t] = "idle"
  /\ Unused # {}
  /\ LET m == CHOOSE m \in Unused : TRUE IN
       /\ msg' = [msg EXCEPT ![t] = m]
       /\ level' = [level EXCEPT ![m] = lvl]
       /\ this' = [this EXCEPT ![m] = GetLogger(built[t].name)]
  /\ lpc' = [lpc EXCEPT ![t] = IF BackedUp(lvl) THEN "enqueue" ELSE "flush"]
  /\ UNCHANGED <<managerVars, backupVars, poolVars, log>>

(* tp->enqueue(start_backup, data)                                          *)
Enqueue(t) ==
  /\ lpc[t] = "enqueue"
  /\ tasks' = Append(tasks, msg[t])
  /\ lpc' = [lpc EXCEPT ![t] = "flush"]
  /\ UNCHANGED <<managerVars, backupVars, running, msg, level, this, log>>

(* asyncworker->Push(data, len), of the logger the statement is called on.  *)
Flush(t) ==
  /\ lpc[t] = "flush"
  /\ log' = [log EXCEPT ![this[msg[t]]] = Append(@, msg[t])]
  /\ lpc' = [lpc EXCEPT ![t] = "idle"]
  /\ msg' = [msg EXCEPT ![t] = None]
  /\ UNCHANGED <<managerVars, backupVars, poolVars, level, this>>

(* A thread of the pool that has no task, or whose task is done.            *)
Free(w) == running[w] \in {None} \cup {m \in Messages : spc[m] = "done"}

Take(w) ==
  /\ Free(w)
  /\ tasks # <<>>
  /\ tasks' = Tail(tasks)
  /\ running' = [running EXCEPT ![w] = Head(tasks)]
  /\ StartBackup(Head(tasks))
  /\ UNCHANGED <<managerVars, loggerVars>>

Run(w) ==
  /\ ~Free(w)
  /\ Sender(running[w])
  /\ UNCHANGED <<managerVars, poolVars, loggerVars>>

Receive(m) == Receiver(m) /\ UNCHANGED <<managerVars, poolVars, loggerVars>>

Disturb == Environment /\ UNCHANGED <<managerVars, poolVars, loggerVars>>

Serialize(t) == Enqueue(t) \/ Flush(t)

Next ==
  \/ \E t \in Threads :
       \/ Manage(t)
       \/ \E lvl \in Levels : Log(t, lvl)
       \/ Serialize(t)
  \/ \E w \in Workers : Take(w) \/ Run(w)
  \/ \E m \in Messages : Receive(m)
  \/ Disturb

Spec == Init /\ [][Next]_vars

(* The system runs threads that can run, here and at the receiver, and a    *)
(* Push returns (AsyncWorker!PushReturns).  Nobody owes a log statement, nor*)
(* a receiver that is up.                                                   *)
FairSpec ==
  /\ Spec
  /\ \A t \in Threads : WF_vars(Serialize(t))
  /\ \A w \in Workers : WF_vars(Take(w)) /\ WF_vars(Run(w))
  /\ \A m \in Messages : WF_vars(Receive(m))

-----------------------------------------------------------------------------
Logged(m) == \E l \in Loggers : \E i \in DOMAIN log[l] : log[l][i] = m

(* Types.  A statement has found its logger: GetLogger is not asked for a   *)
(* name before it was added, so no null pointer is called.                  *)
TypeOK ==
  /\ ManagerTypeOK
  /\ BackupTypeOK
  /\ lpc \in [Threads -> {"idle", "enqueue", "flush"}]
  /\ msg \in [Threads -> Messages \cup {None}]
  /\ level \in [Messages -> Levels \cup {None}]
  /\ this \in [Messages -> Loggers \cup {None}]
  /\ \A m \in Messages : level[m] # None => this[m] \in Loggers
  /\ log \in [Loggers -> Seq(Messages)]
  /\ tasks \in Seq(Messages)
  /\ running \in [Workers -> Messages \cup {None}]

(* All messages logged under a name are in one log, in whatever order the   *)
(* threads looked for the name and inserted it: there are never two workers *)
(* that write what was meant for one (Manager.hpp:36-42).                   *)
OneLogPerName ==
  \A m, n \in Messages \ Unused : this[m].name = this[n].name => this[m] = this[n]

(* readme.md:43: ERROR and FATAL messages go to the remote server (not WARN *)
(* and INFO, as CliBackupLog.hpp:1 has it).  They do before they are logged *)
(* here, so a Push that blocks cannot keep one back; and nothing else does, *)
(* and nothing twice (AsyncLogger.hpp:28-46).                               *)
SeriousGoesOut ==
  /\ \A m \in Messages : Logged(m) /\ level[m] \in {"ERROR", "FATAL"} =>
       spc[m] # "idle" \/ \E i \in DOMAIN tasks : tasks[i] = m
  /\ \A i \in DOMAIN tasks :
       /\ level[tasks[i]] \in {"ERROR", "FATAL"}
       /\ spc[tasks[i]] = "idle"
       /\ \A j \in DOMAIN tasks : tasks[i] = tasks[j] => i = j

(* Every serious message's backup comes to its end, whether the receiver is *)
(* up, down or dies: no thread of the pool is kept by it, and the tasks     *)
(* behind it are taken (CliBackupLog.hpp:30-39).                            *)
BackupsEnd ==
  \A m \in Messages : (level[m] \in {"ERROR", "FATAL"}) ~> (spc[m] = "done")

(* A name keeps its logger: what GetLogger has returned for it once it goes *)
(* on returning, whoever adds the name again (Manager.hpp:36-52).           *)
NamesKeepTheirLoggers ==
  [][\A name \in DOMAIN loggers_ :
       name \in DOMAIN loggers_' /\ loggers_'[name] = loggers_[name]]_vars

(* The pool here is the one that ThreadPool implements: a task is a message *)
(* that goes out, and it has run when its sender is done.                   *)
Pool ==
  INSTANCE TaskPool WITH
    Tasks <- Messages, NoTask <- None, queue <- tasks,
    running <- [w \in Workers |-> IF Free(w) THEN None ELSE running[w]],
    finished <- {m \in Messages : spc[m] = "done"}, closed <- FALSE, gone <- FALSE

ImplementsPool == Pool!PoolSpec

(* The connections a sender may still try, and its write.                   *)
StepsLeft(m) ==
  CASE spc[m] = "connect" -> cnt[m] + 1
    [] spc[m] = "write"   -> 1
    [] OTHER              -> 0

(* A backup is over after as many steps as it has attempts, and one more,   *)
(* whatever receiver and network do: each step of its sender leaves fewer,  *)
(* and nothing else gives it more (CliBackupLog.hpp:30-47).                 *)
BackupsShorten ==
  [][\A m \in Messages :
       /\ spc[m] = "idle" => StepsLeft(m)' <= Attempts + 1
       /\ spc[m] # "idle" => StepsLeft(m)' <= StepsLeft(m)
       /\ Sender(m) => StepsLeft(m)' < StepsLeft(m)]_vars

(* Who could go on by itself: a statement always; a thread of the pool if   *)
(* it has a backup to run, or none and a task is queued; the receiver if it *)
(* is up and a connection waits, or has read, or there is something to read.*)
AtRest ==
  /\ \A t \in Threads : lpc[t] = "idle"
  /\ \A w \in Workers : Free(w) /\ tasks = <<>>
  /\ \A m \in Messages :
       /\ ~(listening /\ conn[m] = "queued")
       /\ ~(conn[m] = "open" /\ sent[m] > 0)
       /\ conn[m] # "read"

(* When nothing can go on, every statement has been logged, every serious   *)
(* message has had its backup, and every message that was written into a    *)
(* connection is recorded, unless the connection was broken or the disk of  *)
(* the receiver did not take the record: none is forgotten in a queue, by a *)
(* thread of the pool or by the receiver (AsyncLogger.hpp:28-46,            *)
(* CliBackupLog.hpp:30-47, ServerBackupLog.hpp:64-112).                     *)
RestsOnlyWhenDone ==
  AtRest =>
    \A m \in Messages \ Unused :
      /\ Logged(m)
      /\ level[m] \in {"ERROR", "FATAL"} => spc[m] = "done"
      /\ sent[m] > 0 => Records(m) # {} \/ m \in cut \cup unsaved
=============================================================================
