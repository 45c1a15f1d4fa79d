-------------------------- MODULE AsyncLoggerProofs --------------------------
(***************************************************************************)
(* Theorems about AsyncLogger, for every number of threads, names,         *)
(* messages, workers, attempts, sizes and breaks.                          *)
(***************************************************************************)
EXTENDS AsyncLogger, TLAPS

-----------------------------------------------------------------------------
(* One log per name                                                          *)

(* Under its name the map holds a logger of that name.  A thread that is in *)
(* AddLogger has built one, and one that has left it finds its name.        *)
MapInv ==
  /\ \E S \in SUBSET Names : loggers_ \in [S -> Loggers]
  /\ \A name \in DOMAIN loggers_ : loggers_[name].name = name
  /\ mpc \in [Threads -> {"build", "exist", "insert", "added"}]
  /\ built \in [Threads -> Loggers \cup {None}]
  /\ \A t \in Threads : mpc[t] # "build" => built[t] \in Loggers
  /\ \A t \in Threads : mpc[t] = "added" => built[t].name \in DOMAIN loggers_

(* What a statement found is what the map still holds.                      *)
FoundInv ==
  /\ level \in [Messages -> Levels \cup {None}]
  /\ this \in [Messages -> Loggers \cup {None}]
  /\ \A m \in Messages \ Unused :
       /\ this[m] \in Loggers
       /\ this[m].name \in DOMAIN loggers_
       /\ this[m] = loggers_[this[m].name]

NameInv == MapInv /\ FoundInv

(* An insertion keeps every entry and adds at most the one of the logger.   *)
LEMMA InsertedKeeps ==
  ASSUME MapInv, NEW logger \in Loggers
  PROVE  /\ \E S \in SUBSET Names : Inserted(logger) \in [S -> Loggers]
         /\ DOMAIN Inserted(logger) = DOMAIN loggers_ \cup {logger.name}
         /\ \A name \in DOMAIN loggers_ : Inserted(logger)[name] = loggers_[name]
         /\ \A name \in DOMAIN Inserted(logger) : Inserted(logger)[name].name = name
<1>1. logger.name \in Names
  BY DEF Loggers
<1>2. PICK S \in SUBSET Names : loggers_ \in [S -> Loggers]
  BY DEF MapInv
<1>3. Inserted(logger) = [name \in S \cup {logger.name} |->
                            IF name \in S THEN loggers_[name] ELSE logger]
  BY <1>2 DEF Inserted
<1>4. Inserted(logger) \in [S \cup {logger.name} -> Loggers]
  BY <1>2, <1>3
<1>5. S \cup {logger.name} \in SUBSET Names
  BY <1>1
<1>6. QED
  BY <1>2, <1>3, <1>4, <1>5 DEF MapInv

LEMMA NameInit == Init => NameInv
<1> SUFFICES ASSUME Init PROVE NameInv
  OBVIOUS
<1> USE DEF Init, ManagerInit
<1>1. [by |-> None, name |-> Default] \in Loggers
  BY ManagerAssumption DEF Loggers
<1>2. /\ {Default} \in SUBSET Names
      /\ loggers_ \in [{Default} -> Loggers]
  BY <1>1, ManagerAssumption
<1>3. MapInv
  BY <1>2 DEF MapInv
<1>4. Unused = Messages
  BY DEF Unused
<1>5. FoundInv
  BY <1>4 DEF FoundInv
<1>6. QED
  BY <1>3, <1>5 DEF NameInv

LEMMA NameStep == NameInv /\ [Next]_vars => NameInv'
<1> SUFFICES ASSUME NameInv, [Next]_vars PROVE NameInv'
  OBVIOUS
<1> USE DEF NameInv
<1>1. ASSUME NEW t \in Threads, NEW name \in Names, Build(t, name),
             UNCHANGED loggerVars
      PROVE  NameInv'
  <2>1. [by |-> t, name |-> name] \in Loggers
    BY DEF Loggers
  <2>2. MapInv'
    BY <1>1, <2>1 DEF MapInv, Build
  <2>3. FoundInv'
    BY <1>1 DEF FoundInv, Build, loggerVars, Unused
  <2>4. QED
    BY <2>2, <2>3
<1>2. ASSUME NEW t \in Threads, LoggerExist(t), UNCHANGED loggerVars
      PROVE  NameInv'
  <2>1. MapInv'
    BY <1>2 DEF MapInv, LoggerExist, Found
  <2>2. FoundInv'
    BY <1>2 DEF FoundInv, LoggerExist, loggerVars, Unused
  <2>3. QED
    BY <2>1, <2>2
<1>3. ASSUME NEW t \in Threads, AddLogger(t), UNCHANGED loggerVars
      PROVE  NameInv'
  <2>1. built[t] \in Loggers
    BY <1>3 DEF MapInv, AddLogger
  <2>2. /\ \E S \in SUBSET Names : loggers_' \in [S -> Loggers]
        /\ DOMAIN loggers_' = DOMAIN loggers_ \cup {built[t].name}
        /\ \A name \in DOMAIN loggers_ : loggers_'[name] = loggers_[name]
        /\ \A name \in DOMAIN loggers_' : loggers_'[name].name = name
    BY <1>3, <2>1, InsertedKeeps DEF AddLogger
  <2>3. MapInv'
    BY <1>3, <2>1, <2>2 DEF MapInv, AddLogger
  <2>4. FoundInv'
    BY <1>3, <2>2 DEF FoundInv, loggerVars, Unused
  <2>5. QED
    BY <2>3, <2>4
<1>4. ASSUME NEW t \in Threads, NEW lvl \in Levels, Log(t, lvl)
      PROVE  NameInv'
  <2> DEFINE m == CHOOSE m \in Unused : TRUE
  <2>1. /\ m \in Messages
        /\ level' = [level EXCEPT ![m] = lvl]
        /\ this' = [this EXCEPT ![m] = GetLogger(built[t].name)]
        /\ UNCHANGED managerVars
    BY <1>4 DEF Log, Unused
  <2> HIDE DEF m
  <2>2. /\ GetLogger(built[t].name) \in Loggers
        /\ GetLogger(built[t].name).name \in DOMAIN loggers_
        /\ GetLogger(built[t].name) = loggers_[GetLogger(built[t].name).name]
    BY <1>4 DEF MapInv, Log, GetLogger
  <2>3. MapInv'
    BY <2>1 DEF MapInv, managerVars
  <2>4. FoundInv'
    BY <2>1, <2>2 DEF FoundInv, managerVars, Unused
  <2>5. QED
    BY <2>3, <2>4
<1>5. ASSUME UNCHANGED <<managerVars, level, this>>
      PROVE  NameInv'
  BY <1>5 DEF MapInv, FoundInv, managerVars, Unused
<1>6. CASE UNCHANGED vars
  BY <1>5, <1>6 DEF vars, loggerVars
<1>7. ASSUME NEW t \in Threads, Serialize(t)
      PROVE  NameInv'
  BY <1>5, <1>7 DEF Serialize, Enqueue, Flush
<1>8. ASSUME NEW w \in Workers, Take(w) \/ Run(w)
      PROVE  NameInv'
  BY <1>5, <1>8 DEF Take, Run, loggerVars
<1>9. CASE (\E m \in Messages : Receive(m)) \/ Disturb
  BY <1>5, <1>9 DEF Receive, Disturb, loggerVars
<1>10. QED
  BY <1>1, <1>2, <1>3, <1>4, <1>6, <1>7, <1>8, <1>9 DEF Next, Manage

-----------------------------------------------------------------------------
(* One record each                                                           *)

BackupInv ==
  /\ BackupTypeOK
  /\ \A m \in Messages :
       /\ spc[m] = "connect" => cnt[m] > 0
       /\ spc[m] \in {"idle", "connect"} => conn[m] = "none"
       /\ spc[m] # "done" => sent[m] = 0
       /\ conn[m] = "read" => buff[m] \in 1 .. sent[m]
       /\ Records(m) # {} => conn[m] = "closed"
  /\ OneRecordEach

LEMMA BackupInitInv == Init => BackupInv
<1> SUFFICES ASSUME BackupInit PROVE BackupInv
  BY DEF Init
<1> USE BackupAssumption DEF BackupInit
<1>1. BackupTypeOK
  BY DEF BackupTypeOK
<1>2. \A m \in Messages : Records(m) = {}
  BY DEF Records
<1>3. QED
  BY <1>1, <1>2 DEF BackupInv, OneRecordEach

LEMMA SizesAreNat == \A f \in [Messages -> Sizes \cup {0}] : \A m \in Messages : f[m] \in Nat
<1> SUFFICES ASSUME NEW f \in [Messages -> Sizes \cup {0}], NEW m \in Messages
             PROVE  f[m] \in Nat
  OBVIOUS
<1>1. Sizes \cup {0} \subseteq Nat
  BY BackupAssumption
<1>2. QED
  BY <1>1

LEMMA SenderStep ==
  ASSUME BackupInv, NEW m \in Messages, StartBackup(m) \/ Sender(m)
  PROVE  BackupInv'
<1> USE BackupAssumption DEF BackupInv
<1>1. \A n \in Messages : UNCHANGED logfile => Records(n)' = Records(n)
  BY DEF Records
<1>2. CASE StartBackup(m)
  <2>1. BackupTypeOK'
    BY <1>2 DEF StartBackup, BackupTypeOK
  <2>2. QED
    BY <1>1, <1>2, <2>1 DEF StartBackup, BackupTypeOK, OneRecordEach
<1>3. CASE Connect(m)
  <2>1. BackupTypeOK'
    BY <1>3 DEF Connect, BackupTypeOK
  <2>2. QED
    BY <1>1, <1>3, <2>1 DEF Connect, BackupTypeOK, OneRecordEach
<1>4. CASE ConnectFails(m)
  <2>1. /\ cnt[m] - 1 \in 0 .. Attempts
        /\ cnt' = [cnt EXCEPT ![m] = cnt[m] - 1]
        /\ spc' = [spc EXCEPT ![m] = IF cnt[m] - 1 <= 0 THEN "done" ELSE "connect"]
        /\ spc[m] = "connect"
        /\ UNCHANGED <<conn, sent, buff, listening, logfile, cut, unsaved, breaks>>
    BY <1>4 DEF ConnectFails, CountedDown, BackupTypeOK
  <2>2. BackupTypeOK'
    BY <2>1 DEF BackupTypeOK
  <2>3. QED
    BY <1>1, <2>1, <2>2 DEF BackupTypeOK, OneRecordEach
<1>5. CASE SendMessage(m)
  <2>1. PICK size \in Sizes : sent' = [sent EXCEPT ![m] = size]
    BY <1>5 DEF SendMessage
  <2>2. BackupTypeOK'
    BY <1>5, <2>1 DEF SendMessage, BackupTypeOK
  <2>3. /\ conn[m] # "read"
        /\ Records(m) = {}
    BY <1>5 DEF SendMessage, OneRecordEach
  <2>4. /\ spc' = [spc EXCEPT ![m] = "done"] /\ sent' = [sent EXCEPT ![m] = size]
        /\ cnt' = cnt /\ conn' = conn /\ buff' = buff
        /\ \A n \in Messages : Records(n)' = Records(n)
    BY <1>1, <1>5, <2>1 DEF SendMessage
  <2>5. OneRecordEach'
    <3>1. ASSUME NEW n \in Messages, NEW i \in Records(n)', NEW j \in Records(n)'
          PROVE  i = j /\ logfile'[i].bytes \in 1 .. sent'[n]
      <4>1. i \in Records(n) /\ j \in Records(n) /\ n # m
        BY <2>3, <2>4
      <4>2. sent'[n] = sent[n] /\ logfile' = logfile
        BY <1>5, <2>4, <4>1 DEF SendMessage, BackupTypeOK
      <4>3. QED
        BY <4>1, <4>2 DEF OneRecordEach
    <3>2. QED
      BY <3>1 DEF OneRecordEach
  <2>6. ASSUME NEW n \in Messages
        PROVE  /\ spc'[n] = "connect" => cnt'[n] > 0
               /\ spc'[n] \in {"idle", "connect"} => conn'[n] = "none"
               /\ spc'[n] # "done" => sent'[n] = 0
               /\ conn'[n] = "read" => buff'[n] \in 1 .. sent'[n]
               /\ Records(n)' # {} => conn'[n] = "closed"
    <3>1. CASE n = m
      BY <2>3, <2>4, <3>1 DEF BackupTypeOK
    <3>2. CASE n # m
      BY <2>4, <3>2 DEF BackupTypeOK
    <3>3. QED
      BY <3>1, <3>2
  <2>7. QED
    BY <2>2, <2>5, <2>6
<1>6. CASE SendFails(m)
  <2>1. BackupTypeOK'
    BY <1>6 DEF SendFails, BackupTypeOK
  <2>2. QED
    BY <1>1, <1>6, <2>1 DEF SendFails, BackupTypeOK, OneRecordEach
<1>7. QED
  BY <1>2, <1>3, <1>4, <1>5, <1>6 DEF Sender

(* A record is appended, whole or in part.                                   *)
LEMMA RecordStep ==
  ASSUME BackupInv, NEW m \in Messages, NEW n \in 1 .. buff[m], conn[m] = "read",
         logfile' = Append(logfile, [message |-> m, bytes |-> n]),
         conn' = [conn EXCEPT ![m] = "closed"], buff' = [buff EXCEPT ![m] = 0],
         UNCHANGED <<senderVars, sent, listening, cut>>,
         unsaved' \in SUBSET Messages, breaks' \in 0 .. MaxBreaks
  PROVE  BackupInv'
<1> USE BackupAssumption DEF BackupInv
<1> DEFINE record == [message |-> m, bytes |-> n]
<1>1. /\ n \in 1 .. sent[m]
      /\ n \in 1 .. BuffSize
      /\ Records(m) = {}
  <2>2. /\ buff[m] \in 1 .. sent[m]
        /\ Records(m) = {}
    OBVIOUS
  <2>3. /\ buff \in [Messages -> 0 .. BuffSize]
        /\ sent \in [Messages -> Sizes \cup {0}]
    BY DEF BackupTypeOK
  <2>4. /\ buff[m] \in 0 .. BuffSize
        /\ sent[m] \in Nat
    BY <2>3, SizesAreNat
  <2>5. n \in 1 .. BuffSize /\ n \in 1 .. sent[m]
    BY <2>2, <2>4
  <2>6. QED
    BY <2>2, <2>5
<1>2. record \in [message : Messages, bytes : 1 .. BuffSize]
  BY <1>1
<1>3. /\ logfile \in Seq([message : Messages, bytes : 1 .. BuffSize])
      /\ logfile' \in Seq([message : Messages, bytes : 1 .. BuffSize])
      /\ DOMAIN logfile' = DOMAIN logfile \cup {Len(logfile) + 1}
      /\ \A i \in DOMAIN logfile : logfile'[i] = logfile[i]
      /\ logfile'[Len(logfile) + 1] = record
  <2> DEFINE T == [message : Messages, bytes : 1 .. BuffSize]
  <2>1. /\ logfile \in Seq(T)
        /\ record \in T
        /\ logfile' = Append(logfile, record)
    BY <1>1, <1>2 DEF BackupTypeOK
  <2> HIDE DEF T, record
  <2>2. /\ logfile' \in Seq(T)
        /\ DOMAIN logfile' = DOMAIN logfile \cup {Len(logfile) + 1}
        /\ \A i \in DOMAIN logfile : logfile'[i] = logfile[i]
        /\ logfile'[Len(logfile) + 1] = record
    BY <2>1
  <2>3. QED
    BY <2>1, <2>2 DEF T
<1>4. BackupTypeOK'
  BY <1>1, <1>3 DEF BackupTypeOK, senderVars
<1>5. /\ Records(m)' = {Len(logfile) + 1}
      /\ \A k \in Messages \ {m} : Records(k)' = Records(k)
  <2>1. Records(m)' = {Len(logfile) + 1}
    BY <1>1, <1>3 DEF Records
  <2>2. \A k \in Messages \ {m} : Records(k)' = Records(k)
    BY <1>3 DEF Records
  <2>3. QED
    BY <2>1, <2>2
<1>6. OneRecordEach'
  <2>1. ASSUME NEW k \in Messages, NEW i \in Records(k)', NEW j \in Records(k)'
        PROVE  i = j /\ logfile'[i].bytes \in 1 .. sent'[k]
    <3>1. CASE k = m
      BY <1>1, <1>3, <1>5, <2>1, <3>1
    <3>2. CASE k # m
      BY <1>1, <1>3, <1>5, <2>1, <3>2 DEF OneRecordEach, Records
    <3>3. QED
      BY <3>1, <3>2
  <2>2. QED
    BY <2>1 DEF OneRecordEach
<1>7. QED
  BY <1>1, <1>4, <1>5, <1>6 DEF BackupTypeOK, senderVars

LEMMA ReceiverStep ==
  ASSUME BackupInv, NEW m \in Messages, Receiver(m)
  PROVE  BackupInv'
<1> USE BackupAssumption DEF BackupInv
<1>1. \A n \in Messages : UNCHANGED logfile => Records(n)' = Records(n)
  BY DEF Records
<1>2. CASE Accept(m)
  <2>1. BackupTypeOK'
    BY <1>2 DEF Accept, BackupTypeOK, senderVars
  <2>2. QED
    BY <1>1, <1>2, <2>1 DEF Accept, BackupTypeOK, senderVars, OneRecordEach
<1>3. CASE Read(m)
  <2>1. PICK r_ret \in 1 .. BuffSize :
          /\ r_ret <= sent[m]
          /\ buff' = [buff EXCEPT ![m] = r_ret]
          /\ conn' = [conn EXCEPT ![m] = "read"]
    <3>1. \A r_ret \in 1 .. BuffSize : Handles(r_ret)
      BY DEF Handles
    <3>2. QED
      BY <1>3, <3>1 DEF Read
  <2>2. BackupTypeOK'
    BY <1>3, <2>1 DEF Read, BackupTypeOK, senderVars
  <2>3. QED
    BY <1>1, <1>3, <2>1, <2>2 DEF Read, BackupTypeOK, senderVars, OneRecordEach
<1>4. CASE BackupLog(m)
  <2>1. /\ BackupTypeOK /\ buff[m] \in 1 .. buff[m]
        /\ conn[m] = "read" /\ logfile' = Append(logfile, [message |-> m, bytes |-> buff[m]])
    <3>1. buff[m] \in Nat /\ buff[m] \in 1 .. sent[m]
      BY <1>4 DEF BackupLog, BackupTypeOK
    <3>2. QED
      BY <1>4, <3>1, SizesAreNat DEF BackupLog, BackupTypeOK
  <2>2. QED
    BY <1>4, <2>1, RecordStep DEF BackupLog, AfterRecord, BackupTypeOK
<1>5. QED
  BY <1>2, <1>3, <1>4 DEF Receiver

LEMMA EnvironmentStep ==
  ASSUME BackupInv, Environment
  PROVE  BackupInv'
<1> USE BackupAssumption DEF BackupInv
<1>1. \A n \in Messages : UNCHANGED logfile => Records(n)' = Records(n)
  BY DEF Records
<1>2. ASSUME NEW S \in SUBSET Alive, Broken(S),
             UNCHANGED <<senderVars, sent, logfile, unsaved>>, listening' \in BOOLEAN
      PROVE  BackupInv'
  <2>1. BackupTypeOK'
    BY <1>2 DEF Broken, Alive, BackupTypeOK, senderVars
  <2>2. QED
    <3>1. \A m \in Messages :
            /\ m \in S => conn[m] \in {"queued", "open", "read"} /\ conn'[m] = "closed"
            /\ m \notin S => conn'[m] = conn[m] /\ buff'[m] = buff[m]
      BY <1>2 DEF Broken, Alive
    <3>2. UNCHANGED <<spc, cnt, sent, logfile>>
      BY <1>2 DEF senderVars
    <3>3. OneRecordEach'
      BY <1>1, <3>2 DEF OneRecordEach
    <3>4. QED
      BY <1>1, <2>1, <3>1, <3>2, <3>3
<1>3. CASE ReceiverDies
  BY <1>2, <1>3 DEF ReceiverDies
<1>4. CASE ReceiverStarts
  <2>1. BackupTypeOK'
    BY <1>4 DEF ReceiverStarts, BackupTypeOK, senderVars
  <2>2. QED
    BY <1>1, <1>4, <2>1 DEF ReceiverStarts, senderVars, OneRecordEach
<1>5. ASSUME NEW m \in Messages, ConnectionBreaks(m)
      PROVE  BackupInv'
  <2>1. {m} \in SUBSET Alive
    BY <1>5 DEF ConnectionBreaks, Alive
  <2>2. QED
    BY <1>2, <1>5, <2>1 DEF ConnectionBreaks, BackupTypeOK
<1>6. ASSUME NEW m \in Messages, BackupLogFails(m)
      PROVE  BackupInv'
  <2>1. /\ conn[m] = "read" /\ conn' = [conn EXCEPT ![m] = "closed"]
        /\ buff' = [buff EXCEPT ![m] = 0] /\ unsaved' \in SUBSET Messages
        /\ breaks' \in 0 .. MaxBreaks /\ UNCHANGED <<senderVars, sent, listening, cut>>
    BY <1>6 DEF BackupLogFails, AfterRecord, BackupTypeOK
  <2>2. CASE UNCHANGED logfile
    <3>1. BackupTypeOK'
      BY <2>1, <2>2 DEF BackupTypeOK, senderVars
    <3>2. QED
      BY <1>1, <2>1, <2>2, <3>1 DEF BackupTypeOK, senderVars, OneRecordEach
  <2>3. ASSUME NEW n \in 1 .. buff[m] - 1,
               logfile' = Append(logfile, [message |-> m, bytes |-> n])
        PROVE  BackupInv'
    <3>1. n \in 1 .. buff[m]
      <4>1. buff[m] \in Nat
        BY DEF BackupTypeOK
      <4>2. QED
        BY <4>1, <2>3
    <3>2. QED
      BY <2>1, <2>3, <3>1, RecordStep
  <2>4. QED
    BY <1>6, <2>2, <2>3 DEF BackupLogFails
<1>7. QED
  BY <1>3, <1>4, <1>5, <1>6 DEF Environment

LEMMA BackupStep ==
  ASSUME BackupInv, [Next]_vars, tasks \in Seq(Messages),
         running \in [Workers -> Messages \cup {None}]
  PROVE  BackupInv'
<1>1. ASSUME UNCHANGED backupVars PROVE BackupInv'
  BY <1>1 DEF BackupInv, BackupTypeOK, OneRecordEach, Records, backupVars, senderVars
<1>2. CASE UNCHANGED vars
  BY <1>1, <1>2 DEF vars
<1>3. ASSUME NEW t \in Threads,
             Manage(t) \/ (\E lvl \in Levels : Log(t, lvl)) \/ Serialize(t)
      PROVE  BackupInv'
  BY <1>1, <1>3 DEF Manage, Log, Serialize, Enqueue, Flush
<1>4. ASSUME NEW w \in Workers, Take(w)
      PROVE  BackupInv'
  <2>1. Head(tasks) \in Messages
    BY <1>4 DEF Take
  <2>2. QED
    BY <1>4, <2>1, SenderStep DEF Take
<1>5. ASSUME NEW w \in Workers, Run(w)
      PROVE  BackupInv'
  <2>1. running[w] \in Messages
    BY <1>5 DEF Run, Free
  <2>2. QED
    BY <1>5, <2>1, SenderStep DEF Run
<1>6. ASSUME NEW m \in Messages, Receive(m)
      PROVE  BackupInv'
  BY <1>6, ReceiverStep DEF Receive
<1>7. CASE Disturb
  BY <1>7, EnvironmentStep DEF Disturb
<1>8. QED
  BY <1>2, <1>3, <1>4, <1>5, <1>6, <1>7 DEF Next
-----------------------------------------------------------------------------
(* Serious messages go out                                                   *)

Serious == {m \in Messages : level[m] \in {"ERROR", "FATAL"}}

(* What the pool has, or has had.                                           *)
Given == {m \in Messages : spc[m] # "idle" \/ \E i \in DOMAIN tasks : tasks[i] = m}

Kept == {m \in Messages : Logged(m)}

LogTypeOK ==
  /\ lpc \in [Threads -> {"idle", "enqueue", "flush"}]
  /\ msg \in [Threads -> Messages \cup {None}]
  /\ level \in [Messages -> Levels \cup {None}]
  /\ log \in [Loggers -> Seq(Messages)]
  /\ tasks \in Seq(Messages)
  /\ running \in [Workers -> Messages \cup {None}]

(* Two statements never log the same message, and a message is given to the *)
(* pool by the one that logs it, between its two steps.                     *)
OutInv ==
  /\ LogTypeOK
  /\ \A t \in Threads : lpc[t] # "idle" => msg[t] \in Messages \ Unused
  /\ \A t, u \in Threads :
       lpc[t] # "idle" /\ lpc[u] # "idle" /\ msg[t] = msg[u] => t = u
  /\ \A t \in Threads : lpc[t] = "enqueue" => msg[t] \in Serious \ (Given \cup Kept)
  /\ \A t \in Threads : lpc[t] = "flush" /\ msg[t] \in Serious => msg[t] \in Given
  /\ Unused \cap (Given \cup Kept) = {}
  /\ SeriousGoesOut

LEMMA OutInit == Init => OutInv
<1> SUFFICES ASSUME Init PROVE OutInv
  OBVIOUS
<1> USE DEF Init, BackupInit
<1>1. LogTypeOK
  BY DEF LogTypeOK
<1>2. Given = {} /\ Kept = {}
  BY DEF Given, Kept, Logged
<1>3. SeriousGoesOut
  BY <1>2 DEF SeriousGoesOut, Kept
<1>4. QED
  BY <1>1, <1>2, <1>3 DEF OutInv, Unused

LEMMA KeptGiven == SeriousGoesOut => Kept \cap Serious \subseteq Given
BY DEF SeriousGoesOut, Kept, Serious, Given

(* Steps that leave the statements and the queue alone, and no message in a *)
(* sender that was not.                                                     *)
LEMMA OutKept ==
  ASSUME OutInv, UNCHANGED <<lpc, msg, level, log, tasks, running>>,
         \A m \in Messages : (spc'[m] = "idle") = (spc[m] = "idle")
  PROVE  OutInv'
<1>1. Given' = Given /\ Kept' = Kept /\ Serious' = Serious
  BY DEF Given, Kept, Logged, Serious
<1>2. Unused' = Unused
  BY DEF Unused
<1>3. Unused \subseteq Messages
  BY DEF Unused
<1>4. LogTypeOK'
  BY DEF OutInv, LogTypeOK
<1>5. SeriousGoesOut'
  <2>1. \A i \in DOMAIN tasks : tasks[i] \in Messages
    BY DEF OutInv, LogTypeOK
  <2>2. (Kept \cap Serious \subseteq Given)'
    BY <1>1, KeptGiven DEF OutInv
  <2>3. \A i \in DOMAIN tasks' :
          /\ level'[tasks'[i]] \in {"ERROR", "FATAL"}
          /\ spc'[tasks'[i]] = "idle"
          /\ \A j \in DOMAIN tasks' : tasks'[i] = tasks'[j] => i = j
    BY <2>1 DEF OutInv, SeriousGoesOut
  <2>4. QED
    BY <2>2, <2>3 DEF SeriousGoesOut, Kept, Serious, Given
<1>6. QED
  BY <1>1, <1>2, <1>3, <1>4, <1>5 DEF OutInv

LEMMA OutLog ==
  ASSUME OutInv, NEW t \in Threads, NEW lvl \in Levels, Log(t, lvl)
  PROVE  OutInv'
<1>1. PICK m \in Unused :
      /\ lpc[t] = "idle"
      /\ msg' = [msg EXCEPT ![t] = m]
      /\ level' = [level EXCEPT ![m] = lvl]
      /\ lpc' = [lpc EXCEPT ![t] = IF BackedUp(lvl) THEN "enqueue" ELSE "flush"]
      /\ UNCHANGED <<spc, tasks, running, log>>
  BY DEF Log, poolVars, backupVars, senderVars
<1>2. /\ m \in Messages
      /\ m \notin Given
      /\ m \notin Kept
  BY <1>1 DEF OutInv, Unused
<1>3. LogTypeOK'
  BY <1>1, <1>2 DEF OutInv, LogTypeOK
<1>4. Unused' = Unused \ {m}
  BY <1>1, <1>2, LoggerAssumption DEF Unused, OutInv, LogTypeOK
<1>5. Given' = Given /\ Kept' = Kept
  BY <1>1 DEF Given, Kept, Logged
<1>6. /\ \A n \in Messages \ {m} : level'[n] = level[n]
      /\ level'[m] = lvl
  BY <1>1, <1>2 DEF OutInv, LogTypeOK
<1>7. /\ msg'[t] = m
      /\ lpc'[t] = IF BackedUp(lvl) THEN "enqueue" ELSE "flush"
      /\ \A u \in Threads \ {t} : msg'[u] = msg[u] /\ lpc'[u] = lpc[u]
  BY <1>1 DEF OutInv, LogTypeOK
<1>8. \A u \in Threads \ {t} : lpc[u] # "idle" => msg[u] \in Messages /\ msg[u] # m
  BY <1>1 DEF OutInv
<1>9. /\ lpc'[t] = "enqueue" => m \in Serious'
      /\ lpc'[t] = "flush" => m \notin Serious'
  BY <1>2, <1>6, <1>7 DEF Serious, BackedUp
<1>10. \A n \in Messages \ {m} : n \in Serious' <=> n \in Serious
  BY <1>6 DEF Serious
<1>11. SeriousGoesOut'
  <2>1. \A i \in DOMAIN tasks : tasks[i] \in Messages \ {m}
    BY <1>2 DEF OutInv, LogTypeOK, Given
  <2>2. \A i \in DOMAIN tasks' :
          /\ level'[tasks'[i]] \in {"ERROR", "FATAL"}
          /\ spc'[tasks'[i]] = "idle"
          /\ \A j \in DOMAIN tasks' : tasks'[i] = tasks'[j] => i = j
    BY <1>1, <1>6, <2>1 DEF OutInv, SeriousGoesOut
  <2>3. (Kept \cap Serious \subseteq Given)'
    <3>1. Kept \cap Serious \subseteq Given
      BY KeptGiven DEF OutInv
    <3>2. Kept \subseteq Messages
      BY DEF Kept
    <3>3. QED
      BY <1>2, <1>5, <1>10, <3>1, <3>2
  <2>4. QED
    BY <2>2, <2>3 DEF SeriousGoesOut, Kept, Serious, Given
<1>12. /\ \A u \in Threads : lpc'[u] # "idle" => msg'[u] \in Messages \ Unused'
       /\ \A u, v \in Threads :
            lpc'[u] # "idle" /\ lpc'[v] # "idle" /\ msg'[u] = msg'[v] => u = v
  BY <1>2, <1>4, <1>7, <1>8 DEF OutInv
<1>13. /\ \A u \in Threads : lpc'[u] = "enqueue" =>
            msg'[u] \in Serious' \ (Given' \cup Kept')
       /\ \A u \in Threads : lpc'[u] = "flush" /\ msg'[u] \in Serious' => msg'[u] \in Given'
  <2>1. \A u \in Threads \ {t} :
          /\ lpc[u] = "enqueue" => msg[u] \in Serious \ (Given \cup Kept)
          /\ lpc[u] = "flush" /\ msg[u] \in Serious => msg[u] \in Given
          /\ lpc[u] # "idle" => (msg[u] \in Serious' <=> msg[u] \in Serious)
    BY <1>8, <1>10 DEF OutInv
  <2>2. ASSUME NEW u \in Threads, u # t
        PROVE  /\ lpc'[u] = "enqueue" => msg'[u] \in Serious' \ (Given' \cup Kept')
               /\ lpc'[u] = "flush" /\ msg'[u] \in Serious' => msg'[u] \in Given'
    <3>1. msg'[u] = msg[u] /\ lpc'[u] = lpc[u]
      BY <1>7, <2>2
    <3>2. QED
      BY <1>5, <2>1, <2>2, <3>1
  <2>3. /\ lpc'[t] = "enqueue" => msg'[t] \in Serious' \ (Given' \cup Kept')
        /\ lpc'[t] = "flush" /\ msg'[t] \in Serious' => msg'[t] \in Given'
    BY <1>2, <1>5, <1>7, <1>9
  <2>4. QED
    BY <2>2, <2>3
<1>14. Unused' \cap (Given' \cup Kept') = {}
  BY <1>4, <1>5 DEF OutInv
<1>15. QED
  BY <1>3, <1>11, <1>12, <1>13, <1>14 DEF OutInv

LEMMA OutEnqueue ==
  ASSUME OutInv, NEW t \in Threads, Enqueue(t)
  PROVE  OutInv'
<1> DEFINE m == msg[t]
<1>1. /\ lpc[t] = "enqueue"
      /\ tasks' = Append(tasks, m)
      /\ lpc' = [lpc EXCEPT ![t] = "flush"]
      /\ UNCHANGED <<spc, running, msg, level, log>>
  BY DEF Enqueue, backupVars, senderVars
<1>2. /\ m \in Messages
      /\ m \in Serious
      /\ m \notin Given
      /\ m \notin Kept
  BY <1>1 DEF OutInv
<1> HIDE DEF m
<1>3. /\ tasks \in Seq(Messages)
      /\ tasks' \in Seq(Messages)
      /\ DOMAIN tasks' = DOMAIN tasks \cup {Len(tasks) + 1}
      /\ Len(tasks) + 1 \notin DOMAIN tasks
      /\ \A i \in DOMAIN tasks : tasks'[i] = tasks[i]
      /\ tasks'[Len(tasks) + 1] = m
  BY <1>1, <1>2 DEF OutInv, LogTypeOK
<1>4. LogTypeOK'
  BY <1>1, <1>3 DEF OutInv, LogTypeOK
<1>5. Given' = Given \cup {m}
  BY <1>1, <1>2, <1>3 DEF Given
<1>6. Kept' = Kept /\ Serious' = Serious /\ Unused' = Unused
  BY <1>1 DEF Kept, Logged, Serious, Unused
<1>7. /\ lpc'[t] = "flush"
      /\ \A u \in Threads \ {t} : lpc'[u] = lpc[u]
  BY <1>1 DEF OutInv, LogTypeOK
<1>8. /\ m \notin Unused
      /\ \A u \in Threads \ {t} : lpc[u] # "idle" => msg[u] # m
  BY <1>1 DEF OutInv, m
<1>9. SeriousGoesOut'
  <2>1. \A i \in DOMAIN tasks : tasks[i] # m
    BY <1>2, <1>3 DEF Given
  <2>2. \A i \in DOMAIN tasks' :
          /\ level'[tasks'[i]] \in {"ERROR", "FATAL"}
          /\ spc'[tasks'[i]] = "idle"
          /\ \A j \in DOMAIN tasks' : tasks'[i] = tasks'[j] => i = j
    <3>1. /\ level[m] \in {"ERROR", "FATAL"}
          /\ spc[m] = "idle"
      BY <1>2 DEF Serious, Given
    <3>2. \A i, j \in DOMAIN tasks :
            /\ level[tasks[i]] \in {"ERROR", "FATAL"}
            /\ spc[tasks[i]] = "idle"
            /\ tasks[i] = tasks[j] => i = j
      BY DEF OutInv, SeriousGoesOut
    <3>3. QED
      BY <1>1, <1>3, <2>1, <3>1, <3>2
  <2>3. (Kept \cap Serious \subseteq Given)'
    BY <1>5, <1>6, KeptGiven DEF OutInv
  <2>4. QED
    BY <2>2, <2>3 DEF SeriousGoesOut, Kept, Serious, Given
<1>10. \A u \in Threads : lpc'[u] # "idle" => lpc[u] # "idle"
  BY <1>1, <1>7
<1>11. QED
  BY <1>1, <1>4, <1>5, <1>6, <1>7, <1>8, <1>9, <1>10 DEF OutInv, m

LEMMA OutFlush ==
  ASSUME OutInv, NEW t \in Threads, Flush(t), this[msg[t]] \in Loggers
  PROVE  OutInv'
<1> DEFINE m == msg[t]
           l == this[m]
<1>1. /\ lpc[t] = "flush"
      /\ log' = [log EXCEPT ![l] = Append(@, m)]
      /\ lpc' = [lpc EXCEPT ![t] = "idle"]
      /\ msg' = [msg EXCEPT ![t] = None]
      /\ UNCHANGED <<spc, tasks, running, level>>
  BY DEF Flush, poolVars, backupVars, senderVars
<1>2. /\ m \in Messages \ Unused
      /\ l \in Loggers
      /\ m \in Serious => m \in Given
  BY <1>1 DEF OutInv
<1>3. \A u \in Threads \ {t} : lpc[u] # "idle" => msg[u] # m
  BY <1>1 DEF OutInv
<1> HIDE DEF m, l
<1>4. /\ log[l] \in Seq(Messages)
      /\ log'[l] = Append(log[l], m)
      /\ \A k \in Loggers \ {l} : log'[k] = log[k]
      /\ log' \in [Loggers -> Seq(Messages)]
  BY <1>1, <1>2 DEF OutInv, LogTypeOK
<1>5. /\ DOMAIN log'[l] = DOMAIN log[l] \cup {Len(log[l]) + 1}
      /\ \A i \in DOMAIN log[l] : log'[l][i] = log[l][i]
      /\ log'[l][Len(log[l]) + 1] = m
  BY <1>2, <1>4
<1>6. LogTypeOK'
  BY <1>1, <1>4 DEF OutInv, LogTypeOK
<1>7. Kept' \subseteq Kept \cup {m}
  <2>1. ASSUME NEW n \in Messages, n # m, NEW k \in Loggers,
               NEW i \in DOMAIN log'[k], log'[k][i] = n
        PROVE  \E j \in DOMAIN log[k] : log[k][j] = n
    BY <1>4, <1>5, <2>1
  <2>2. QED
    BY <2>1 DEF Kept, Logged
<1>8. Given' = Given /\ Serious' = Serious /\ Unused' = Unused
  BY <1>1 DEF Given, Serious, Unused
<1>9. /\ lpc'[t] = "idle"
      /\ \A u \in Threads \ {t} : msg'[u] = msg[u] /\ lpc'[u] = lpc[u]
  BY <1>1 DEF OutInv, LogTypeOK
<1>10. SeriousGoesOut'
  <2>1. (Kept \cap Serious \subseteq Given)'
    BY <1>2, <1>7, <1>8, KeptGiven DEF OutInv
  <2>2. \A i \in DOMAIN tasks' :
          /\ level'[tasks'[i]] \in {"ERROR", "FATAL"}
          /\ spc'[tasks'[i]] = "idle"
          /\ \A j \in DOMAIN tasks' : tasks'[i] = tasks'[j] => i = j
    BY <1>1 DEF OutInv, SeriousGoesOut
  <2>3. QED
    BY <2>1, <2>2 DEF SeriousGoesOut, Kept, Serious, Given
<1>11. \A u \in Threads \ {t} : lpc[u] # "idle" => msg[u] \in Messages
  BY DEF OutInv
<1>12. QED
  BY <1>2, <1>3, <1>6, <1>7, <1>8, <1>9, <1>10, <1>11 DEF OutInv

LEMMA OutTake ==
  ASSUME OutInv, BackupTypeOK, NEW w \in Workers, Take(w)
  PROVE  OutInv'
<1> DEFINE m == Head(tasks)
<1>1. /\ tasks # <<>>
      /\ tasks' = Tail(tasks)
      /\ running' = [running EXCEPT ![w] = m]
      /\ spc' = [spc EXCEPT ![m] = "connect"]
      /\ UNCHANGED <<lpc, msg, level, log>>
  BY DEF Take, StartBackup, loggerVars
<1>2. /\ tasks \in Seq(Messages)
      /\ m \in Messages
      /\ m = tasks[1]
      /\ 1 \in DOMAIN tasks
      /\ tasks' \in Seq(Messages)
      /\ DOMAIN tasks' = 1 .. (Len(tasks) - 1)
      /\ DOMAIN tasks = 1 .. Len(tasks)
      /\ \A i \in DOMAIN tasks' : tasks'[i] = tasks[i + 1]
      /\ Len(tasks) \in Nat
  BY <1>1 DEF OutInv, LogTypeOK
<1> HIDE DEF m
<1>3. LogTypeOK'
  BY <1>1, <1>2 DEF OutInv, LogTypeOK
<1>4. /\ spc'[m] = "connect"
      /\ \A n \in Messages \ {m} : spc'[n] = spc[n]
  BY <1>1, <1>2 DEF BackupTypeOK
<1>5. \A i, j \in DOMAIN tasks :
        /\ level[tasks[i]] \in {"ERROR", "FATAL"}
        /\ spc[tasks[i]] = "idle"
        /\ tasks[i] = tasks[j] => i = j
  BY DEF OutInv, SeriousGoesOut
<1>6. \A i \in DOMAIN tasks' : tasks'[i] \in Messages /\ tasks'[i] # m
  BY <1>2, <1>5
<1>7. Given' = Given
  <2>1. ASSUME NEW n \in Messages, n # m
        PROVE  (\E i \in DOMAIN tasks : tasks[i] = n) <=> (\E i \in DOMAIN tasks' : tasks'[i] = n)
    <3>1. ASSUME NEW i \in DOMAIN tasks, tasks[i] = n
          PROVE  \E j \in DOMAIN tasks' : tasks'[j] = n
      <4>1. i # 1
        BY <1>2, <2>1, <3>1
      <4>2. i - 1 \in DOMAIN tasks' /\ tasks'[i - 1] = tasks[i]
        BY <1>2, <4>1
      <4>3. QED
        BY <3>1, <4>2
    <3>2. ASSUME NEW i \in DOMAIN tasks', tasks'[i] = n
          PROVE  \E j \in DOMAIN tasks : tasks[j] = n
      BY <1>2, <3>2
    <3>3. QED
      BY <3>1, <3>2
  <2>2. m \in Given /\ m \in Given'
    BY <1>2, <1>4 DEF Given
  <2>3. \A n \in Messages \ {m} : n \in Given' <=> n \in Given
    BY <1>4, <2>1 DEF Given
  <2>4. Given \subseteq Messages /\ Given' \subseteq Messages
    BY DEF Given
  <2>5. QED
    BY <2>2, <2>3, <2>4
<1>8. Kept' = Kept /\ Serious' = Serious /\ Unused' = Unused
  BY <1>1 DEF Kept, Logged, Serious, Unused
<1>9. SeriousGoesOut'
  <2>1. (Kept \cap Serious \subseteq Given)'
    BY <1>7, <1>8, KeptGiven DEF OutInv
  <2>2. \A i \in DOMAIN tasks' :
          /\ level'[tasks'[i]] \in {"ERROR", "FATAL"}
          /\ spc'[tasks'[i]] = "idle"
          /\ \A j \in DOMAIN tasks' : tasks'[i] = tasks'[j] => i = j
    <3>1. \A i \in DOMAIN tasks' : i \in Nat /\ i + 1 \in DOMAIN tasks
      BY <1>2
    <3>2. QED
      BY <1>1, <1>2, <1>4, <1>5, <1>6, <3>1
  <2>3. QED
    BY <2>1, <2>2 DEF SeriousGoesOut, Kept, Serious, Given
<1>10. QED
  BY <1>1, <1>3, <1>7, <1>8, <1>9 DEF OutInv

(* A sender that is at work, the receiver and the network put no message in *)
(* a sender that was not.                                                   *)
LEMMA OutRest ==
  ASSUME OutInv, BackupTypeOK, UNCHANGED <<managerVars, poolVars, loggerVars>>,
         (\E m \in Messages : Sender(m) \/ Receiver(m)) \/ Environment
  PROVE  OutInv'
<1>1. UNCHANGED <<lpc, msg, level, log, tasks, running>>
  BY DEF poolVars, loggerVars
<1>2. ASSUME NEW m \in Messages, Sender(m)
      PROVE  \A n \in Messages : (spc'[n] = "idle") = (spc[n] = "idle")
  BY <1>2 DEF BackupTypeOK, Sender, Connect, ConnectFails, SendMessage, SendFails
<1>3. ASSUME NEW m \in Messages, Receiver(m)
      PROVE  UNCHANGED spc
  BY <1>3 DEF Receiver, Accept, Read, BackupLog, senderVars
<1>4. CASE Environment
  BY <1>4, <1>1, OutKept
     DEF Environment, ReceiverDies, ReceiverStarts, ConnectionBreaks, BackupLogFails, senderVars
<1>5. QED
  BY <1>1, <1>2, <1>3, <1>4, OutKept

LEMMA OutStep ==
  ASSUME OutInv, BackupTypeOK, FoundInv, [Next]_vars
  PROVE  OutInv'
<1>1. ASSUME UNCHANGED <<lpc, msg, level, log, tasks, running, spc>>
      PROVE  OutInv'
  BY <1>1, OutKept
<1>2. CASE UNCHANGED vars
  BY <1>1, <1>2 DEF vars, loggerVars, poolVars, backupVars, senderVars
<1>3. ASSUME NEW t \in Threads, Manage(t)
      PROVE  OutInv'
  BY <1>1, <1>3 DEF Manage, loggerVars, poolVars, backupVars, senderVars
<1>4. ASSUME NEW t \in Threads, NEW lvl \in Levels, Log(t, lvl)
      PROVE  OutInv'
  BY <1>4, OutLog
<1>5. ASSUME NEW t \in Threads, Enqueue(t)
      PROVE  OutInv'
  BY <1>5, OutEnqueue
<1>6. ASSUME NEW t \in Threads, Flush(t)
      PROVE  OutInv'
  <2>1. msg[t] \in Messages \ Unused
    BY <1>6 DEF OutInv, Flush
  <2>2. this[msg[t]] \in Loggers
    BY <2>1 DEF FoundInv
  <2>3. QED
    BY <1>6, <2>2, OutFlush
<1>7. ASSUME NEW w \in Workers, Take(w)
      PROVE  OutInv'
  BY <1>7, OutTake
<1>8. ASSUME NEW w \in Workers, Run(w)
      PROVE  OutInv'
  <2>1. running[w] \in Messages
    BY <1>8 DEF Run, Free, OutInv, LogTypeOK
  <2>2. QED
    BY <1>8, <2>1, OutRest DEF Run
<1>9. CASE (\E m \in Messages : Receive(m)) \/ Disturb
  BY <1>9, OutRest DEF Receive, Disturb
<1>10. QED
  BY <1>2, <1>3, <1>4, <1>5, <1>6, <1>7, <1>8, <1>9 DEF Next, Serialize

-----------------------------------------------------------------------------
(* The theorems                                                              *)

IInv == NameInv /\ BackupInv /\ OutInv

THEOREM Inductive == Spec => []IInv
<1>1. Init => IInv
  BY NameInit, BackupInitInv, OutInit DEF IInv
<1>2. IInv /\ [Next]_vars => IInv'
  <2> SUFFICES ASSUME IInv, [Next]_vars PROVE IInv'
    OBVIOUS
  <2>1. NameInv'
    BY NameStep DEF IInv
  <2>2. /\ tasks \in Seq(Messages)
        /\ running \in [Workers -> Messages \cup {None}]
    BY DEF IInv, OutInv, LogTypeOK
  <2>3. BackupInv'
    BY <2>2, BackupStep DEF IInv
  <2>4. OutInv'
    BY OutStep DEF IInv, NameInv, BackupInv
  <2>5. QED
    BY <2>1, <2>3, <2>4 DEF IInv
<1>3. QED
  BY <1>1, <1>2, PTL DEF Spec

(* Every behaviour of threads, pool, receiver and network stays within the  *)
(* types, and no log statement calls a null logger (Manager.hpp:44-52).     *)
THEOREM TypeCorrect == Spec => []TypeOK
<1>1. IInv => TypeOK
  <2> SUFFICES ASSUME IInv PROVE TypeOK
    OBVIOUS
  <2>1. ManagerTypeOK
    BY DEF IInv, NameInv, MapInv, ManagerTypeOK
  <2>2. \A m \in Messages : level[m] # None => this[m] \in Loggers
    BY DEF IInv, NameInv, FoundInv, Unused
  <2>3. QED
    BY <2>1, <2>2 DEF IInv, NameInv, FoundInv, BackupInv, OutInv, LogTypeOK, TypeOK
<1>2. QED
  BY <1>1, Inductive, PTL

(* Whatever the order in which threads look for a name and insert it, the   *)
(* messages of one name go to one log (Manager.hpp:36-42).                  *)
THEOREM OneLog == Spec => []OneLogPerName
<1>1. IInv => OneLogPerName
  BY DEF IInv, NameInv, FoundInv, OneLogPerName
<1>2. QED
  BY <1>1, Inductive, PTL

(* The receiver's file has at most one record of a message, a piece from its*)
(* beginning (CliBackupLog.hpp:30-47, ServerBackupLog.hpp:64-76).           *)
THEOREM OneRecord == Spec => []OneRecordEach
<1>1. IInv => OneRecordEach
  BY DEF IInv, BackupInv
<1>2. QED
  BY <1>1, Inductive, PTL

(* What is logged as ERROR or FATAL has been given to the pool before, once,*)
(* and nothing else has (AsyncLogger.hpp:28-46).                            *)
THEOREM SeriousFirst == Spec => []SeriousGoesOut
<1>1. IInv => SeriousGoesOut
  BY DEF IInv, OutInv
<1>2. QED
  BY <1>1, Inductive, PTL

(* A name keeps its logger: insert leaves what is there, and nothing else   *)
(* changes the map (Manager.hpp:36-52).                                     *)
THEOREM NamesKept == Spec => NamesKeepTheirLoggers
<1>1. ASSUME IInv, [Next]_vars, NEW name \in DOMAIN loggers_
      PROVE  name \in DOMAIN loggers_' /\ loggers_'[name] = loggers_[name]
  <2>1. ASSUME NEW t \in Threads, AddLogger(t)
        PROVE  name \in DOMAIN loggers_' /\ loggers_'[name] = loggers_[name]
    <3>1. built[t] \in Loggers
      BY <1>1, <2>1 DEF IInv, NameInv, MapInv, AddLogger
    <3>2. MapInv
      BY <1>1 DEF IInv, NameInv
    <3>3. /\ DOMAIN Inserted(built[t]) = DOMAIN loggers_ \cup {built[t].name}
          /\ \A n \in DOMAIN loggers_ : Inserted(built[t])[n] = loggers_[n]
      BY <3>1, <3>2, InsertedKeeps
    <3>4. QED
      BY <1>1, <2>1, <3>3 DEF AddLogger
  <2>2. CASE UNCHANGED loggers_
    BY <2>2
  <2>3. QED
    BY <1>1, <2>1, <2>2
       DEF Next, Manage, Build, LoggerExist, Log, Serialize, Enqueue, Flush, Take, Run,
           Receive, Disturb, vars, managerVars
<1>2. IInv /\ [Next]_vars =>
        [\A name \in DOMAIN loggers_ :
           name \in DOMAIN loggers_' /\ loggers_'[name] = loggers_[name]]_vars
  BY <1>1
<1>3. QED
  BY <1>2, Inductive, PTL DEF Spec, NamesKeepTheirLoggers

-----------------------------------------------------------------------------
(* The pool's threads and their backups                                      *)

(* A thread of the pool has a message that is going out or has; a message   *)
(* that is going out has a thread, and only one.                            *)
WorkInv ==
  /\ \A w \in Workers : running[w] # None => spc[running[w]] # "idle"
  /\ \A v, w \in Workers : running[v] = running[w] /\ running[v] # None => v = w
  /\ \A m \in Messages : spc[m] \in {"connect", "write"} => \E w \in Workers : running[w] = m

(* What a step does to the senders: a thread of the pool starts one or lets *)
(* its own go on; nothing else touches them.                                *)
LEMMA SendersStep ==
  ASSUME IInv, [Next]_vars
  PROVE  \/ \E w \in Workers :
              /\ Take(w)
              /\ tasks \in Seq(Messages) /\ tasks # <<>>
              /\ Head(tasks) \in Messages
              /\ spc[Head(tasks)] = "idle"
              /\ spc' = [spc EXCEPT ![Head(tasks)] = "connect"]
              /\ cnt' = [cnt EXCEPT ![Head(tasks)] = Attempts]
         \/ \E w \in Workers :
              /\ Run(w)
              /\ running[w] \in Messages
              /\ UNCHANGED <<tasks, running>>
              /\ spc[running[w]] \in {"connect", "write"}
              /\ \E pc \in {"connect", "write", "done"} :
                   spc' = [spc EXCEPT ![running[w]] = pc]
         \/ UNCHANGED <<spc, cnt, running>>
<1>1. ASSUME NEW w \in Workers, Take(w)
      PROVE  /\ tasks \in Seq(Messages) /\ tasks # <<>>
             /\ Head(tasks) \in Messages
             /\ spc[Head(tasks)] = "idle"
             /\ spc' = [spc EXCEPT ![Head(tasks)] = "connect"]
             /\ cnt' = [cnt EXCEPT ![Head(tasks)] = Attempts]
  BY <1>1 DEF Take, StartBackup, IInv, OutInv, LogTypeOK
<1>2. ASSUME NEW w \in Workers, Run(w)
      PROVE  /\ running[w] \in Messages
             /\ UNCHANGED <<tasks, running>>
             /\ spc[running[w]] \in {"connect", "write"}
             /\ \E pc \in {"connect", "write", "done"} :
                  spc' = [spc EXCEPT ![running[w]] = pc]
  <2>1. running[w] \in Messages
    BY <1>2 DEF Run, Free, IInv, OutInv, LogTypeOK
  <2>2. QED
    BY <1>2, <2>1 DEF Run, poolVars, Sender, Connect, ConnectFails, SendMessage, SendFails
<1>3. CASE \/ \E t \in Threads :
                Manage(t) \/ (\E lvl \in Levels : Log(t, lvl)) \/ Serialize(t)
           \/ \E m \in Messages : Receive(m)
           \/ Disturb
           \/ UNCHANGED vars
  BY <1>3 DEF Manage, Log, Serialize, Enqueue, Flush, Receive, Receiver, Accept, Read, BackupLog,
              Disturb, Environment, ReceiverDies, ReceiverStarts, ConnectionBreaks, BackupLogFails,
              vars, backupVars, senderVars, poolVars
<1>4. QED
  BY <1>1, <1>2, <1>3 DEF Next

LEMMA WorkStep ==
  ASSUME IInv, WorkInv, [Next]_vars
  PROVE  WorkInv'
<1> USE DEF WorkInv
<1>1. /\ spc \in [Messages -> {"idle", "connect", "write", "done"}]
      /\ running \in [Workers -> Messages \cup {None}]
      /\ None \notin Messages
  BY LoggerAssumption DEF IInv, BackupInv, BackupTypeOK, OutInv, LogTypeOK
<1>2. ASSUME NEW w \in Workers, Take(w), Head(tasks) \in Messages, spc[Head(tasks)] = "idle",
             spc' = [spc EXCEPT ![Head(tasks)] = "connect"]
      PROVE  WorkInv'
  <2> DEFINE m == Head(tasks)
  <2>1. /\ m \in Messages /\ spc[m] = "idle" /\ Free(w)
        /\ spc' = [spc EXCEPT ![m] = "connect"] /\ running' = [running EXCEPT ![w] = m]
    BY <1>2 DEF Take
  <2> HIDE DEF m
  <2>2. \A v \in Workers : running[v] # m
    BY <1>1, <2>1
  <2>3. ASSUME NEW n \in Messages, spc'[n] \in {"connect", "write"}
        PROVE  \E v \in Workers : running'[v] = n
    <3>1. CASE n = m
      BY <1>1, <2>1, <3>1
    <3>2. CASE n # m
      <4>1. spc[n] \in {"connect", "write"}
        BY <1>1, <2>1, <2>3, <3>2
      <4>2. PICK v \in Workers : running[v] = n
        BY <4>1
      <4>3. v # w
        BY <1>1, <2>1, <4>1, <4>2 DEF Free
      <4>4. QED
        BY <1>1, <2>1, <4>2, <4>3
    <3>3. QED
      BY <3>1, <3>2
  <2>4. QED
    BY <1>1, <2>1, <2>2, <2>3
<1>3. ASSUME NEW m \in Messages, spc[m] \in {"connect", "write"}, running' = running,
             NEW pc \in {"connect", "write", "done"}, spc' = [spc EXCEPT ![m] = pc]
      PROVE  WorkInv'
  BY <1>1, <1>3
<1>4. CASE UNCHANGED <<spc, running>>
  BY <1>4
<1>5. QED
  BY <1>2, <1>3, <1>4, SendersStep

LEMMA Work == Spec => []WorkInv
<1>1. Init => WorkInv
  BY DEF Init, BackupInit, WorkInv
<1>2. IInv /\ WorkInv /\ [Next]_vars => WorkInv'
  BY WorkStep
<1>3. QED
  BY <1>1, <1>2, Inductive, PTL DEF Spec

LEMMA PoolMaps ==
  ASSUME IInv, WorkInv, [Next]_vars
  PROVE  [Pool!PoolNext]_(Pool!poolVars)
<1> DEFINE held == [w \in Workers |-> IF Free(w) THEN None ELSE running[w]]
           over == {m \in Messages : spc[m] = "done"}
<1> USE DEF WorkInv, Pool!PoolNext
<1>1. /\ spc \in [Messages -> {"idle", "connect", "write", "done"}]
      /\ running \in [Workers -> Messages \cup {None}]
      /\ None \notin Messages
  BY LoggerAssumption DEF IInv, BackupInv, BackupTypeOK, OutInv, LogTypeOK
<1>2. \A w \in Workers : ~Free(w) <=> running[w] \in Messages /\ spc[running[w]] # "done"
  BY <1>1 DEF Free
<1>3. ASSUME NEW w \in Workers, Take(w), Head(tasks) \in Messages, spc[Head(tasks)] = "idle",
             spc' = [spc EXCEPT ![Head(tasks)] = "connect"], tasks # <<>>
      PROVE  Pool!Take(w)
  <2> DEFINE m == Head(tasks)
  <2>1. /\ m \in Messages /\ spc[m] = "idle" /\ Free(w) /\ tasks' = Tail(tasks)
        /\ spc' = [spc EXCEPT ![m] = "connect"] /\ running' = [running EXCEPT ![w] = m]
    BY <1>3 DEF Take
  <2> HIDE DEF m
  <2>2. ~Free(w)'
    BY <1>1, <2>1 DEF Free
  <2>3. \A v \in Workers \ {w} : (Free(v)' <=> Free(v)) /\ running'[v] = running[v]
    BY <1>1, <2>1 DEF Free
  <2>4. held' = [held EXCEPT ![w] = m]
    <3>1. running'[w] = m
      BY <1>1, <2>1
    <3>2. \A v \in Workers : (IF Free(v)' THEN None ELSE running'[v]) = IF v = w THEN m ELSE held[v]
      BY <2>2, <2>3, <3>1
    <3>3. held' = [v \in Workers |-> IF v = w THEN m ELSE held[v]]
      BY <3>2
    <3>4. QED
      BY <3>3
  <2>5. over' = over
    BY <1>1, <2>1
  <2>6. held[w] = None
    BY <2>1
  <2>7. QED
    BY <1>3, <2>1, <2>4, <2>5, <2>6 DEF Pool!Take, m
<1>4. ASSUME NEW w \in Workers, Run(w), running[w] \in Messages, UNCHANGED <<tasks, running>>,
             NEW pc \in {"connect", "write", "done"}, spc' = [spc EXCEPT ![running[w]] = pc],
             spc[running[w]] \in {"connect", "write"}
      PROVE  [Pool!PoolNext]_(Pool!poolVars)
  <2>1. \A v \in Workers \ {w} : Free(v)' = Free(v)
    <3> SUFFICES ASSUME NEW v \in Workers \ {w} PROVE Free(v)' = Free(v)
      OBVIOUS
    <3>1. running[v] \in Messages => spc'[running[v]] = spc[running[v]]
      BY <1>1, <1>4
    <3>2. QED
      BY <1>1, <1>4, <3>1 DEF Free
  <2>2. held[w] = running[w] /\ running[w] # None
    BY <1>1, <1>4 DEF Free
  <2>3. CASE pc = "done"
    <3>1. Free(w)'
      BY <1>1, <1>4, <2>3 DEF Free
    <3>2. held' = [held EXCEPT ![w] = None]
      BY <1>4, <2>1, <3>1
    <3>3. over' = over \cup {running[w]}
      BY <1>1, <1>4, <2>3
    <3>4. Pool!Finish(w)
      BY <1>4, <2>2, <3>2, <3>3 DEF Pool!Finish
    <3>5. QED
      BY <3>4
  <2>4. CASE pc # "done"
    <3>1. ~Free(w)' /\ ~Free(w)
      BY <1>1, <1>4, <2>4 DEF Free
    <3>2. held' = held
      BY <1>4, <2>1, <3>1
    <3>3. over' = over
      BY <1>1, <1>4, <2>4
    <3>4. QED
      BY <1>4, <3>2, <3>3 DEF Pool!poolVars
  <2>5. QED
    BY <2>3, <2>4
<1>5. ASSUME NEW t \in Threads, Enqueue(t)
      PROVE  Pool!PoolNext
  <2>1. msg[t] \in Messages \ Given
    BY <1>5 DEF Enqueue, IInv, OutInv, Serious
  <2>2. \A i \in DOMAIN tasks : tasks[i] # msg[t]
    BY <2>1 DEF Given
  <2>3. spc[msg[t]] = "idle"
    BY <2>1 DEF Given
  <2>4. \A w \in Workers : running[w] # msg[t]
    BY <1>1, <2>1, <2>3
  <2>5. UNCHANGED <<running, spc>> /\ tasks' = Append(tasks, msg[t])
    BY <1>5 DEF Enqueue, backupVars, senderVars
  <2>6. held' = held /\ over' = over
    BY <2>5 DEF Free
  <2>7. msg[t] \notin Pool!Queued \cup Pool!Running \cup over
    <3>1. msg[t] \notin Pool!Queued
      BY <2>2 DEF Pool!Queued
    <3>2. msg[t] \notin Pool!Running
      BY <1>1, <2>1, <2>4 DEF Pool!Running
    <3>3. QED
      BY <2>3, <3>1, <3>2
  <2>8. Pool!Accept(msg[t])
    BY <2>5, <2>6, <2>7 DEF Pool!Accept
  <2>9. QED
    BY <2>1, <2>8
<1>6. ASSUME UNCHANGED <<tasks, running, spc>>
      PROVE  UNCHANGED Pool!poolVars
  BY <1>6 DEF Pool!poolVars, Free
<1>7. CASE \/ \E t \in Threads :
                Manage(t) \/ (\E lvl \in Levels : Log(t, lvl)) \/ Flush(t)
           \/ \E m \in Messages : Receive(m)
           \/ Disturb
           \/ UNCHANGED vars
  <2>1. UNCHANGED <<tasks, running, spc>>
    BY <1>7 DEF Manage, Log, Flush, Receive, Receiver, Accept, Read, BackupLog, Disturb,
                Environment, ReceiverDies, ReceiverStarts, ConnectionBreaks, BackupLogFails, vars,
                backupVars, senderVars, poolVars
  <2>2. QED
    BY <1>6, <2>1
<1>8. ASSUME NEW w \in Workers, Take(w)
      PROVE  [Pool!PoolNext]_(Pool!poolVars)
  <2>1. /\ Head(tasks) \in Messages /\ spc[Head(tasks)] = "idle" /\ tasks # <<>>
        /\ spc' = [spc EXCEPT ![Head(tasks)] = "connect"]
    BY <1>8 DEF Take, StartBackup, IInv, OutInv, LogTypeOK
  <2>2. Pool!Take(w)
    BY <1>3, <1>8, <2>1
  <2>3. QED
    BY <2>2
<1>9. ASSUME NEW w \in Workers, Run(w)
      PROVE  [Pool!PoolNext]_(Pool!poolVars)
  <2>1. running[w] \in Messages
    BY <1>9 DEF Run, Free, IInv, OutInv, LogTypeOK
  <2>2. /\ UNCHANGED <<tasks, running>>
        /\ spc[running[w]] \in {"connect", "write"}
        /\ \E pc \in {"connect", "write", "done"} :
             spc' = [spc EXCEPT ![running[w]] = pc]
    BY <1>9, <2>1 DEF Run, poolVars, Sender, Connect, ConnectFails, SendMessage, SendFails
  <2>3. QED
    BY <1>4, <1>9, <2>1, <2>2
<1>10. QED
  BY <1>5, <1>7, <1>8, <1>9 DEF Next, Serialize

(* The pool of AsyncLogger implements the abstract pool, as ThreadPool does *)
(* (PoolRefinement there): the composition asks of it no more than that.    *)
THEOREM LoggerPoolRefinement == Spec => ImplementsPool
<1>1. Init => Pool!PoolInit
  <2> SUFFICES ASSUME Init PROVE Pool!PoolInit
    OBVIOUS
  <2>1. \A w \in Workers : Free(w)
    BY DEF Init, Free
  <2>2. {m \in Messages : spc[m] = "done"} = {}
    BY DEF Init, BackupInit
  <2>3. QED
    BY <2>1, <2>2 DEF Init, Pool!PoolInit
<1>2. IInv /\ WorkInv /\ [Next]_vars => [Pool!PoolNext]_(Pool!poolVars)
  BY PoolMaps
<1>3. QED
  BY <1>1, <1>2, Inductive, Work, PTL DEF Spec, ImplementsPool, Pool!PoolSpec

(* The same places, from the module that proves about them.                 *)
Places ==
  INSTANCE TaskPoolProofs WITH
    Tasks <- Messages, NoTask <- None, queue <- tasks,
    running <- [w \in Workers |-> IF Free(w) THEN None ELSE running[w]],
    finished <- {m \in Messages : spc[m] = "done"}, closed <- FALSE, gone <- FALSE

(* A serious message is backed up by one thread of the pool, once: it is at *)
(* one place of the queue, in one thread's hands, or done                   *)
(* (AsyncLogger.hpp:28-46, ThreadPoll.hpp:41-53).                           *)
THEOREM EachBackupOnce == Spec => []Pool!OnePlaceEach
<1>1. None \notin Messages
  BY LoggerAssumption
<1>2. ImplementsPool => Places!PoolSpec
  BY PTL
     DEF ImplementsPool, Pool!PoolSpec, Places!PoolSpec, Pool!PoolInit, Places!PoolInit,
         Pool!PoolNext, Places!PoolNext, Pool!poolVars, Places!poolVars,
         Pool!Accept, Places!Accept, Pool!Take, Places!Take, Pool!Finish, Places!Finish,
         Pool!Close, Places!Close, Pool!End, Places!End,
         Pool!Queued, Places!Queued, Pool!Running, Places!Running
<1>3. Places!PoolSpec => []Places!OnePlaceEach
  BY <1>1, Places!RunsOnce
<1>4. Places!OnePlaceEach => Pool!OnePlaceEach
  BY DEF Places!OnePlaceEach, Pool!OnePlaceEach,
         Pool!Queued, Places!Queued, Pool!Running, Places!Running
<1>5. QED
  BY <1>2, <1>3, <1>4, LoggerPoolRefinement, PTL

(* A backup is over after as many steps as it has attempts, and one more    *)
(* (CliBackupLog.hpp:30-47): what BackupsEnd needs besides fairness.        *)
THEOREM BackupsAreBounded == Spec => BackupsShorten
<1>1. ASSUME IInv, [Next]_vars, NEW m \in Messages
      PROVE  /\ spc[m] = "idle" => StepsLeft(m)' <= Attempts + 1
             /\ spc[m] # "idle" => StepsLeft(m)' <= StepsLeft(m)
             /\ Sender(m) => StepsLeft(m)' < StepsLeft(m)
  <2>1. /\ spc \in [Messages -> {"idle", "connect", "write", "done"}]
        /\ cnt \in [Messages -> 0 .. Attempts] /\ Attempts \in Nat
        /\ spc[m] = "connect" => cnt[m] > 0
    BY <1>1, BackupAssumption DEF IInv, BackupInv, BackupTypeOK
  <2>2. ASSUME NEW n \in Messages, Sender(n)
        PROVE  /\ spc[n] # "idle"
               /\ StepsLeft(n)' \in Int /\ StepsLeft(n) \in Int /\ StepsLeft(n)' < StepsLeft(n)
               /\ m # n => StepsLeft(m)' = StepsLeft(m)
    <3>1. CASE ConnectFails(n)
      BY <2>1, <3>1, <1>1 DEF ConnectFails, CountedDown, StepsLeft, IInv, BackupInv
    <3>2. CASE Connect(n)
      BY <2>1, <3>2, <1>1 DEF Connect, StepsLeft, IInv, BackupInv
    <3>3. CASE SendMessage(n) \/ SendFails(n)
      BY <2>1, <3>3 DEF SendMessage, SendFails, StepsLeft
    <3>4. QED
      BY <2>2, <3>1, <3>2, <3>3 DEF Sender
  <2>3. StepsLeft(m) \in Nat /\ (spc[m] = "idle" => StepsLeft(m) = 0)
    BY <2>1 DEF StepsLeft
  <2>4. CASE \E w \in Workers : Run(w)
    <3>1. PICK w \in Workers : Run(w)
      BY <2>4
    <3>2. running[w] \in Messages /\ Sender(running[w])
      BY <1>1, <3>1 DEF Run, Free, IInv, OutInv, LogTypeOK
    <3>3. CASE m = running[w]
      <4>1. Sender(m)
        BY <3>2, <3>3 DEF Sender, Connect, ConnectFails, SendMessage, SendFails
      <4>2. QED
        BY <2>2, <2>3, <4>1
    <3>4. CASE m # running[w]
      <4>1. StepsLeft(m)' = StepsLeft(m)
        BY <2>2, <3>2, <3>4
      <4>2. ~Sender(m)
        BY <2>2, <3>2, <3>4, <4>1, <2>3
      <4>3. QED
        BY <2>1, <2>3, <4>1, <4>2
    <3>5. QED
      BY <3>3, <3>4
  <2>5. CASE \E w \in Workers : /\ Head(tasks) \in Messages
                                /\ spc[Head(tasks)] = "idle"
                                /\ spc' = [spc EXCEPT ![Head(tasks)] = "connect"]
                                /\ cnt' = [cnt EXCEPT ![Head(tasks)] = Attempts]
    <3>1. /\ m = Head(tasks) => spc[m] = "idle" /\ StepsLeft(m)' = Attempts + 1
          /\ m # Head(tasks) => StepsLeft(m)' = StepsLeft(m)
      BY <2>1, <2>5 DEF StepsLeft
    <3>2. ~Sender(m)
      <4>1. m = Head(tasks) => ~Sender(m)
        BY <2>2, <3>1
      <4>2. m # Head(tasks) => ~Sender(m)
        BY <2>2, <2>3, <3>1
      <4>3. QED
        BY <4>1, <4>2
    <3>3. QED
      BY <2>1, <2>3, <3>1, <3>2
  <2>6. CASE UNCHANGED <<spc, cnt>>
    <3>1. StepsLeft(m)' = StepsLeft(m)
      BY <2>6 DEF StepsLeft
    <3>2. ~Sender(m)
      BY <2>2, <2>3, <3>1
    <3>3. QED
      BY <2>1, <2>3, <3>1, <3>2
  <2>7. QED
    BY <1>1, <2>4, <2>5, <2>6, SendersStep
<1>2. IInv /\ [Next]_vars =>
        [\A m \in Messages :
           /\ spc[m] = "idle" => StepsLeft(m)' <= Attempts + 1
           /\ spc[m] # "idle" => StepsLeft(m)' <= StepsLeft(m)
           /\ Sender(m) => StepsLeft(m)' < StepsLeft(m)]_vars
  BY <1>1
<1>3. QED
  BY <1>2, Inductive, PTL DEF Spec, BackupsShorten

-----------------------------------------------------------------------------
(* Nothing hangs                                                             *)

(* A waiting connection has a receiver that is up; one that is over has a   *)
(* record, or was broken, or its record did not get to the disk; and what   *)
(* was written had a connection.                                            *)
ServedInv ==
  \A m \in Messages :
    /\ conn[m] = "queued" => listening
    /\ conn[m] = "closed" => Records(m) # {} \/ m \in cut \cup unsaved
    /\ spc[m] = "write" \/ sent[m] > 0 => conn[m] # "none"

LEMMA RecordsStay ==
  ASSUME BackupInv, NEW m \in Messages, conn[m] = "read", NEW n \in 1 .. buff[m],
         logfile' = Append(logfile, [message |-> m, bytes |-> n])
  PROVE  /\ Records(m)' # {}
         /\ \A k \in Messages : Records(k) # {} => Records(k)' # {}
<1> DEFINE record == [message |-> m, bytes |-> n]
           R == [message : Messages, bytes : 1 .. BuffSize]
<1>1. buff[m] \in 1 .. sent[m] /\ buff[m] \in 0 .. BuffSize /\ sent[m] \in Nat
  BY SizesAreNat DEF BackupInv, BackupTypeOK
<1>2. logfile \in Seq(R) /\ record \in R /\ logfile' = Append(logfile, record)
  BY <1>1, BackupAssumption DEF BackupInv, BackupTypeOK
<1>3. record.message = m
  OBVIOUS
<1> HIDE DEF R, record
<1>4. /\ DOMAIN logfile' = DOMAIN logfile \cup {Len(logfile) + 1}
      /\ \A i \in DOMAIN logfile : logfile'[i] = logfile[i]
      /\ logfile'[Len(logfile) + 1] = record
  BY <1>2
<1>5. QED
  BY <1>3, <1>4 DEF Records

LEMMA ServedStep ==
  ASSUME IInv, ServedInv, [Next]_vars
  PROVE  ServedInv'
<1> USE BackupAssumption DEF ServedInv
<1>1. /\ BackupInv /\ BackupTypeOK
      /\ tasks \in Seq(Messages) /\ running \in [Workers -> Messages \cup {None}]
  BY DEF IInv, BackupInv, OutInv, LogTypeOK
<1>2. \A n \in Messages : UNCHANGED logfile => Records(n)' = Records(n)
  BY DEF Records
<1>3. ASSUME NEW m \in Messages, StartBackup(m) \/ Sender(m)
      PROVE  ServedInv'
  <2>1. UNCHANGED <<listening, logfile, cut, unsaved>>
    BY <1>3 DEF StartBackup, Sender, Connect, ConnectFails, SendMessage, SendFails
  <2>2. CASE StartBackup(m) \/ ConnectFails(m) \/ SendFails(m)
    BY <1>1, <1>2, <2>1, <2>2 DEF BackupTypeOK, StartBackup, ConnectFails, SendFails
  <2>3. CASE Connect(m)
    BY <1>1, <1>2, <2>1, <2>3 DEF BackupTypeOK, Connect
  <2>4. CASE SendMessage(m)
    <3>1. \A n \in Messages \ {m} : sent'[n] = sent[n] /\ spc'[n] = spc[n]
      BY <1>1, <2>4 DEF BackupTypeOK, SendMessage
    <3>2. conn' = conn /\ conn[m] # "none"
      BY <2>4 DEF SendMessage
    <3>3. QED
      BY <1>2, <2>1, <3>1, <3>2
  <2>5. QED
    BY <1>3, <2>2, <2>3, <2>4 DEF Sender
<1>4. ASSUME NEW m \in Messages, Receiver(m)
      PROVE  ServedInv'
  <2>1. UNCHANGED <<spc, sent, listening, cut, unsaved>>
    BY <1>4 DEF Receiver, Accept, Read, BackupLog, senderVars
  <2>2. CASE Accept(m)
    BY <1>1, <1>2, <2>1, <2>2 DEF BackupTypeOK, Accept
  <2>3. CASE Read(m)
    <3>1. conn' = [conn EXCEPT ![m] = "read"] /\ logfile' = logfile
      <4>1. \A r_ret \in 1 .. BuffSize : Handles(r_ret)
        BY DEF Handles
      <4>2. QED
        BY <2>3, <4>1 DEF Read
    <3>2. QED
      BY <1>1, <1>2, <2>1, <3>1 DEF BackupTypeOK
  <2>4. CASE BackupLog(m)
    <3>1. conn' = [conn EXCEPT ![m] = "closed"]
      BY <2>4 DEF BackupLog, AfterRecord
    <3>2. /\ Records(m)' # {}
          /\ \A n \in Messages : Records(n) # {} => Records(n)' # {}
      <4>1. buff[m] \in 1 .. buff[m] /\ conn[m] = "read"
        <5>1. conn[m] = "read" /\ buff[m] \in Nat
          BY <1>1, <2>4 DEF BackupLog, BackupTypeOK
        <5>2. sent \in [Messages -> Sizes \cup {0}]
          BY <1>1 DEF BackupTypeOK
        <5>3. sent[m] \in Nat
          BY <5>2, SizesAreNat
        <5>4. QED
          BY <1>1, <5>1, <5>3 DEF BackupInv
      <4>2. QED
        BY <1>1, <2>4, <4>1, RecordsStay DEF BackupLog
    <3>3. /\ conn'[m] = "closed"
          /\ \A n \in Messages \ {m} : conn'[n] = conn[n]
      BY <1>1, <3>1 DEF BackupTypeOK
    <3>4. QED
      BY <2>1, <3>2, <3>3
  <2>5. QED
    BY <1>4, <2>2, <2>3, <2>4 DEF Receiver
<1>5. ASSUME NEW S \in SUBSET Messages, Broken(S), UNCHANGED <<spc, sent, logfile, unsaved>>,
             \A m \in Messages \ S : conn[m] = "queued" => listening'
      PROVE  ServedInv'
  <2>1. \A m \in Messages :
          /\ m \in S => conn'[m] = "closed" /\ m \in cut'
          /\ m \notin S => conn'[m] = conn[m]
          /\ m \in cut => m \in cut'
    BY <1>5 DEF Broken
  <2>2. QED
    BY <1>2, <1>5, <2>1
<1>6. CASE Environment
  <2>1. CASE ReceiverDies
    <3>1. Alive \in SUBSET Messages /\ \A m \in Messages \ Alive : conn[m] # "queued"
      BY DEF Alive
    <3>2. QED
      BY <1>5, <2>1, <3>1 DEF ReceiverDies, senderVars
  <2>2. CASE ReceiverStarts
    BY <1>2, <2>2 DEF ReceiverStarts, senderVars
  <2>3. ASSUME NEW m \in Messages, ConnectionBreaks(m)
        PROVE  ServedInv'
    BY <1>5, <2>3 DEF ConnectionBreaks, senderVars
  <2>4. ASSUME NEW m \in Messages, BackupLogFails(m)
        PROVE  ServedInv'
    <3>1. /\ conn' = [conn EXCEPT ![m] = "closed"] /\ unsaved' = unsaved \cup {m}
          /\ conn[m] = "read" /\ UNCHANGED <<spc, sent, listening, cut>>
      BY <2>4 DEF BackupLogFails, AfterRecord, senderVars
    <3>2. \A k \in Messages : Records(k) # {} => Records(k)' # {}
      <4>1. ASSUME NEW n \in 1 .. buff[m] - 1,
                   logfile' = Append(logfile, [message |-> m, bytes |-> n])
            PROVE  \A k \in Messages : Records(k) # {} => Records(k)' # {}
        <5>1. n \in 1 .. buff[m]
          <6>1. buff[m] \in Nat
            BY <1>1 DEF BackupTypeOK
          <6>2. QED
            BY <4>1, <6>1
        <5>2. QED
          BY <1>1, <3>1, <4>1, <5>1, RecordsStay
      <4>2. QED
        BY <1>2, <2>4, <4>1 DEF BackupLogFails
    <3>3. /\ conn'[m] = "closed" /\ m \in unsaved'
          /\ \A n \in Messages \ {m} : conn'[n] = conn[n]
          /\ unsaved \subseteq unsaved'
      BY <1>1, <3>1 DEF BackupTypeOK
    <3>4. QED
      BY <3>1, <3>2, <3>3
  <2>5. QED
    BY <1>6, <2>1, <2>2, <2>3, <2>4 DEF Environment
<1>7. ASSUME UNCHANGED backupVars
      PROVE  ServedInv'
  BY <1>2, <1>7 DEF backupVars, senderVars
<1>8. ASSUME NEW w \in Workers, Take(w) \/ Run(w)
      PROVE  ServedInv'
  <2>1. Take(w) => Head(tasks) \in Messages /\ StartBackup(Head(tasks))
    BY <1>1 DEF Take
  <2>2. Run(w) => running[w] \in Messages /\ Sender(running[w])
    BY <1>1 DEF Run, Free
  <2>3. QED
    BY <1>3, <1>8, <2>1, <2>2
<1>9. QED
  BY <1>4, <1>6, <1>7, <1>8
     DEF Next, Manage, Log, Serialize, Enqueue, Flush, Receive, Disturb, vars

LEMMA Served == Spec => []ServedInv
<1>1. Init => ServedInv
  BY DEF Init, BackupInit, ServedInv
<1>2. IInv /\ ServedInv /\ [Next]_vars => ServedInv'
  BY ServedStep
<1>3. QED
  BY <1>1, <1>2, Inductive, PTL DEF Spec

(* A message is logged or its statement is still under way; a serious one   *)
(* has been given to the pool, or its statement is about to.                *)
WayInv ==
  /\ \A m \in Messages \ Unused :
       m \in Kept \/ \E t \in Threads : lpc[t] # "idle" /\ msg[t] = m
  /\ \A m \in Serious \ Unused : m \in Given \/ \E t \in Threads : lpc[t] = "enqueue" /\ msg[t] = m

(* What the pool has had and what is logged only grows.                     *)
LEMMA GivenGrows ==
  ASSUME IInv, [Next]_vars
  PROVE  Given \subseteq Given' /\ (Kept \subseteq Kept')
<1>1. /\ tasks \in Seq(Messages) /\ log \in [Loggers -> Seq(Messages)]
      /\ spc \in [Messages -> {"idle", "connect", "write", "done"}]
  BY DEF IInv, OutInv, LogTypeOK, BackupInv, BackupTypeOK
<1>2. \A m \in Messages : spc[m] # "idle" => spc'[m] # "idle"
  BY <1>1, SendersStep
<1>3. Given \subseteq Given'
  <2>1. CASE tasks' = tasks
    BY <1>2, <2>1 DEF Given
  <2>2. ASSUME NEW t \in Threads, Enqueue(t)
        PROVE  Given \subseteq Given'
    <3>1. msg[t] \in Messages /\ tasks' = Append(tasks, msg[t])
      BY <2>2 DEF Enqueue, IInv, OutInv
    <3>2. \A i \in DOMAIN tasks : i \in DOMAIN tasks' /\ tasks'[i] = tasks[i]
      BY <1>1, <3>1
    <3>3. QED
      BY <1>2, <3>2 DEF Given
  <2>3. ASSUME NEW w \in Workers, Take(w)
        PROVE  Given \subseteq Given'
    <3>1. tasks # <<>> /\ tasks' = Tail(tasks) /\ Head(tasks) \in Messages
      BY <1>1, <2>3 DEF Take
    <3>2. spc'[Head(tasks)] # "idle"
      BY <1>1, <2>3, <3>1 DEF Take, StartBackup
    <3>3. \A i \in DOMAIN tasks :
            tasks[i] = Head(tasks) \/ \E j \in DOMAIN tasks' : tasks'[j] = tasks[i]
      <4> SUFFICES ASSUME NEW i \in 1 .. Len(tasks), i # 1
                   PROVE  i - 1 \in DOMAIN tasks' /\ tasks'[i - 1] = tasks[i]
        BY <1>1
      <4>1. QED
        BY <1>1, <3>1
    <3>4. QED
      BY <1>2, <3>2, <3>3 DEF Given
  <2>4. QED
    BY <2>1, <2>2, <2>3
       DEF Next, Manage, Log, Serialize, Flush, Run, Receive, Disturb, poolVars, vars
<1>4. Kept \subseteq Kept'
  <2>1. CASE log' = log
    BY <2>1 DEF Kept, Logged
  <2>2. ASSUME NEW t \in Threads, Flush(t)
        PROVE  Kept \subseteq Kept'
    <3>1. /\ msg[t] \in Messages
          /\ log' = [log EXCEPT ![this[msg[t]]] = Append(log[this[msg[t]]], msg[t])]
      BY <2>2 DEF Flush, IInv, OutInv
    <3>2. \A l \in Loggers : \A i \in DOMAIN log[l] :
            i \in DOMAIN log'[l] /\ log'[l][i] = log[l][i]
      <4> SUFFICES ASSUME NEW l \in Loggers, NEW i \in DOMAIN log[l]
                   PROVE  i \in DOMAIN log'[l] /\ log'[l][i] = log[l][i]
        OBVIOUS
      <4>1. log[l] \in Seq(Messages)
        BY <1>1
      <4>2. log'[l] = log[l] \/ log'[l] = Append(log[l], msg[t])
        BY <1>1, <3>1
      <4>3. QED
        BY <3>1, <4>1, <4>2
    <3>3. QED
      BY <3>2 DEF Kept, Logged
  <2>3. QED
    BY <2>1, <2>2
       DEF Next, Manage, Log, Serialize, Enqueue, Take, Run, Receive, Disturb, loggerVars, vars
<1>5. QED
  BY <1>3, <1>4

LEMMA WayStep ==
  ASSUME IInv, WayInv, [Next]_vars
  PROVE  WayInv'
<1>1. /\ LogTypeOK
      /\ Given \subseteq Given' /\ (Kept \subseteq Kept')
      /\ \A t \in Threads : lpc[t] # "idle" => msg[t] \in Messages \ Unused
  BY GivenGrows DEF IInv, OutInv
<1>2. ASSUME NEW t \in Threads, NEW lvl \in Levels, Log(t, lvl)
      PROVE  WayInv'
  <2> DEFINE m == CHOOSE m \in Unused : TRUE
  <2>1. /\ m \in Unused /\ lpc[t] = "idle"
        /\ msg' = [msg EXCEPT ![t] = m]
        /\ level' = [level EXCEPT ![m] = lvl]
        /\ lpc' = [lpc EXCEPT ![t] = IF BackedUp(lvl) THEN "enqueue" ELSE "flush"]
    BY <1>2 DEF Log
  <2> HIDE DEF m
  <2>2. m \in Messages /\ lvl # None
    BY <2>1, LoggerAssumption DEF Unused
  <2>3. /\ \A n \in Messages \ {m} : level'[n] = level[n]
        /\ level'[m] = lvl
    BY <1>1, <2>1, <2>2 DEF LogTypeOK
  <2>4. /\ msg'[t] = m /\ lpc'[t] # "idle"
        /\ m \in Serious' => lpc'[t] = "enqueue"
        /\ \A u \in Threads \ {t} : msg'[u] = msg[u] /\ lpc'[u] = lpc[u]
    BY <1>1, <2>1, <2>3 DEF LogTypeOK, BackedUp, Serious
  <2>5. ASSUME NEW n \in Messages \ Unused', n # m
        PROVE  n \in Kept' \/ \E u \in Threads : lpc'[u] # "idle" /\ msg'[u] = n
    <3>1. n \in Messages \ Unused
      BY <2>3, <2>5 DEF Unused
    <3>2. QED
      BY <1>1, <2>1, <2>4, <3>1 DEF WayInv
  <2>6. ASSUME NEW n \in Serious' \ Unused', n # m
        PROVE  n \in Given' \/ \E u \in Threads : lpc'[u] = "enqueue" /\ msg'[u] = n
    <3>1. n \in Serious \ Unused
      BY <2>3, <2>6 DEF Serious, Unused
    <3>2. QED
      BY <1>1, <2>1, <2>4, <3>1 DEF WayInv
  <2>7. QED
    BY <2>4, <2>5, <2>6 DEF WayInv
<1>3. ASSUME NEW t \in Threads, Enqueue(t)
      PROVE  WayInv'
  <2>1. /\ level' = level /\ msg' = msg /\ lpc' = [lpc EXCEPT ![t] = "flush"]
        /\ msg[t] \in Messages /\ tasks \in Seq(Messages) /\ tasks' = Append(tasks, msg[t])
    BY <1>1, <1>3 DEF Enqueue, LogTypeOK
  <2>2. msg[t] \in Given'
    <3>1. Len(tasks) + 1 \in DOMAIN tasks' /\ tasks'[Len(tasks) + 1] = msg[t]
      BY <2>1
    <3>2. QED
      BY <2>1, <3>1 DEF Given
  <2>3. /\ \A u \in Threads : lpc[u] # "idle" => lpc'[u] # "idle"
        /\ \A u \in Threads \ {t} : lpc'[u] = lpc[u]
    BY <1>1, <2>1 DEF LogTypeOK
  <2>4. Unused' = Unused /\ Serious' = Serious
    BY <2>1 DEF Unused, Serious
  <2>5. QED
    BY <1>1, <2>1, <2>2, <2>3, <2>4 DEF WayInv
<1>4. ASSUME NEW t \in Threads, Flush(t)
      PROVE  WayInv'
  <2>1. /\ level' = level /\ lpc[t] = "flush" /\ msg[t] \in Messages \ Unused
        /\ lpc' = [lpc EXCEPT ![t] = "idle"] /\ msg' = [msg EXCEPT ![t] = None]
        /\ log' = [log EXCEPT ![this[msg[t]]] = Append(log[this[msg[t]]], msg[t])]
    BY <1>1, <1>4 DEF Flush
  <2>2. this[msg[t]] \in Loggers
    BY <2>1 DEF IInv, NameInv, FoundInv
  <2>3. log[this[msg[t]]] \in Seq(Messages)
        /\ log'[this[msg[t]]] = Append(log[this[msg[t]]], msg[t])
    BY <1>1, <2>1, <2>2 DEF LogTypeOK
  <2>4. msg[t] \in Kept'
    <3>1. /\ Len(log[this[msg[t]]]) + 1 \in DOMAIN log'[this[msg[t]]]
          /\ log'[this[msg[t]]][Len(log[this[msg[t]]]) + 1] = msg[t]
      BY <2>1, <2>3
    <3>2. QED
      BY <2>1, <2>2, <3>1 DEF Kept, Logged
  <2>5. \A u \in Threads \ {t} : msg'[u] = msg[u] /\ lpc'[u] = lpc[u]
    BY <1>1, <2>1 DEF LogTypeOK
  <2>6. Unused' = Unused /\ Serious' = Serious
    BY <2>1 DEF Unused, Serious
  <2>7. QED
    BY <1>1, <2>1, <2>4, <2>5, <2>6 DEF WayInv
<1>5. ASSUME UNCHANGED <<level, lpc, msg>>
      PROVE  WayInv'
  <2>1. Unused' = Unused /\ Serious' = Serious
    BY <1>5 DEF Unused, Serious
  <2>2. QED
    BY <1>1, <1>5, <2>1 DEF WayInv
<1>6. QED
  BY <1>2, <1>3, <1>4, <1>5
     DEF Next, Manage, Serialize, Take, Run, Receive, Disturb, loggerVars, vars

LEMMA Way == Spec => []WayInv
<1>1. Init => WayInv
  <2> SUFFICES ASSUME Init PROVE WayInv
    OBVIOUS
  <2>1. Unused = Messages
    BY DEF Init, Unused
  <2>2. QED
    BY <2>1 DEF WayInv, Serious
<1>2. IInv /\ WayInv /\ [Next]_vars => WayInv'
  BY WayStep
<1>3. QED
  BY <1>1, <1>2, Inductive, PTL DEF Spec

(* When neither a statement, a thread of the pool nor the receiver can go   *)
(* on, every statement is logged, every serious message has had its backup, *)
(* and what was written into a connection is recorded, or the connection was*)
(* broken, or the receiver's disk did not take the record                   *)
(* (AsyncLogger.hpp:28-46, CliBackupLog.hpp:30-47, ServerBackupLog.hpp:     *)
(* 64-112, ServerBackupLog.cpp:28-42).                                      *)
THEOREM NothingHangs == Spec => []RestsOnlyWhenDone
<1>1. IInv /\ WorkInv /\ ServedInv /\ WayInv => RestsOnlyWhenDone
  <2> SUFFICES ASSUME IInv, WorkInv, ServedInv, WayInv, AtRest, NEW m \in Messages \ Unused
               PROVE  /\ Logged(m)
                      /\ level[m] \in {"ERROR", "FATAL"} => spc[m] = "done"
                      /\ sent[m] > 0 => Records(m) # {} \/ m \in cut \cup unsaved
    BY DEF RestsOnlyWhenDone
  <2>1. Logged(m)
    BY DEF WayInv, AtRest, Kept
  <2>2. level[m] \in {"ERROR", "FATAL"} => spc[m] = "done"
    <3> SUFFICES ASSUME m \in Serious, spc[m] # "done" PROVE FALSE
      BY DEF Serious
    <3>1. m \in Given
      BY DEF WayInv, AtRest
    <3>2. tasks = <<>>
      <4>1. Workers # {}
        BY LoggerAssumption
      <4>2. QED
        BY <4>1 DEF AtRest
    <3>3. spc[m] # "idle"
      BY <3>1, <3>2 DEF Given
    <3>4. spc[m] \in {"connect", "write"}
      BY <3>3 DEF IInv, BackupInv, BackupTypeOK
    <3>5. PICK w \in Workers : running[w] = m
      BY <3>4 DEF WorkInv
    <3>6. m # None
      BY LoggerAssumption
    <3>7. QED
      BY <3>4, <3>5, <3>6 DEF AtRest, Free
  <2>3. sent[m] > 0 => Records(m) # {} \/ m \in cut \cup unsaved
    BY DEF ServedInv, AtRest, IInv, BackupInv, BackupTypeOK
  <2>4. QED
    BY <2>1, <2>2, <2>3
<1>2. QED
  BY <1>1, Inductive, Work, Served, Way, PTL
=============================================================================
