---------------------------- MODULE LoggerManager ----------------------------
(***************************************************************************)
(* LoggerManager (logSystem/logsCode/Manager.hpp): the map from names to   *)
(* loggers, behind one mutex.  AddLogger looks and inserts in two critical *)
(* sections, so threads that add the same name can both pass the look.     *)
(*                                                                         *)
(* A critical section is one step.  A logger is who built it and its name. *)
(***************************************************************************)
EXTENDS Integers, Sequences

CONSTANTS
  Threads,    (* the threads that add loggers and log                       *)
  Names,      (* the names they give them                                   *)
  Default,    (* "default", the name of the manager's own logger            *)
  None        (* no thread, no logger, no message                           *)

ASSUME ManagerAssumption ==
  /\ Default \in Names
  /\ None \notin Threads

VARIABLES
  loggers_,   (* the map                                                    *)
  mpc,        (* where each thread is in AddLogger                          *)
  built       (* the logger each thread has built and adds                  *)

managerVars == <<loggers_, mpc, built>>

(* Built by None: the manager's own.                                        *)
Loggers == [by : Threads \cup {None}, name : Names]

ManagerTypeOK ==
  /\ loggers_ \in UNION {[S -> Loggers] : S \in SUBSET Names}
  /\ mpc \in [Threads -> {"build", "exist", "insert", "added"}]
  /\ built \in [Threads -> Loggers \cup {None}]

(* The constructor of LoggerManager.                                        *)
ManagerInit ==
  /\ loggers_ = [name \in {Default} |-> [by |-> None, name |-> name]]
  /\ mpc = [t \in Threads |-> "build"]
  /\ built = [t \in Threads |-> None]

(* LoggerBuilder::Build, whose result AddLogger is called with.             *)
Build(t, name) ==
  /\ mpc[t] = "build"
  /\ built' = [built EXCEPT ![t] = [by |-> t, name |-> name]]
  /\ mpc' = [mpc EXCEPT ![t] = "exist"]
  /\ UNCHANGED loggers_

\* mutant: the test is inverted.
Found_Not(name) == name \notin DOMAIN loggers_

Found(name) == name \in DOMAIN loggers_

(* The first critical section of AddLogger.                                 *)
LoggerExist(t) ==
  /\ mpc[t] = "exist"
  /\ mpc' = [mpc EXCEPT ![t] = IF Found(built[t].name) THEN "added" ELSE "insert"]
  /\ UNCHANGED <<loggers_, built>>

\* mutant: loggers_[name] = logger.
Inserted_Replacing(logger) ==
  [name \in DOMAIN loggers_ \cup {logger.name} |->
     IF name = logger.name THEN logger ELSE loggers_[name]]

(* unordered_map::insert keeps the entry that is there; the logger that was *)
(* not taken is destroyed when the caller lets go of it.                    *)
Inserted(logger) ==
  [name \in DOMAIN loggers_ \cup {logger.name} |->
     IF name \in DOMAIN loggers_ THEN loggers_[name] ELSE logger]

(* The second.                                                              *)
AddLogger(t) ==
  /\ mpc[t] = "insert"
  /\ loggers_' = Inserted(built[t])
  /\ mpc' = [mpc EXCEPT ![t] = "added"]
  /\ UNCHANGED built

(* A name that is not there gives a null pointer.                           *)
GetLogger(name) == IF name \in DOMAIN loggers_ THEN loggers_[name] ELSE None
=============================================================================
