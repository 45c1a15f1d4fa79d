---------------------------- MODULE RemoteBackup -----------------------------
(***************************************************************************)
(* The remote backup (logSystem/backlog): start_backup, which a thread of  *)
(* the pool runs to send one message over a connection of its own, and the *)
(* receiver, a process that reads each connection in a thread of its own   *)
(* and appends what it read to one file.                                   *)
(*                                                                         *)
(* The receiver may be down, may die and may come back, and the network    *)
(* may break a connection: a connection is then over, with the bytes it    *)
(* carried.  Its disk may be full, which it does not notice.  What the     *)
(* receiver has appended stays.                                            *)
(***************************************************************************)
EXTENDS Integers, Sequences

CONSTANTS
  Messages,    (* the messages: one call of start_backup for each, at most  *)
  Attempts,    (* connections tried per message; the code's cnt is 5        *)
  BuffSize,    (* what a read takes at most; the code's buff has 1024 bytes *)
  Sizes,       (* bytes in a message                                        *)
  MaxBreaks    (* bound: deaths of the receiver, broken connections, and    *)
               (* records its disk does not take                            *)

ASSUME BackupAssumption ==
  /\ Attempts \in Nat \ {0}
  /\ BuffSize \in Nat \ {0}
  /\ Sizes \subseteq Nat \ {0}
  /\ MaxBreaks \in Nat

VARIABLES
  spc,        (* where the sender of each message is in start_backup        *)
  cnt,        (* the attempts it has left                                   *)
  conn,       (* its connection, up to the receiver's thread that serves it *)
  sent,       (* the bytes it has written to it                             *)
  buff,       (* the bytes the receiver's thread has read from it           *)
  listening,  (* the receiver is up                                         *)
  logfile,    (* the receiver's file                                        *)
  cut,        (* history: the messages whose connection was broken          *)
  unsaved,    (* history: the messages whose record was not written whole   *)
  breaks      (* history: what has gone wrong                               *)

senderVars == <<spc, cnt>>
backupVars == <<senderVars, conn, sent, buff, listening, logfile, cut, unsaved, breaks>>

BackupTypeOK ==
  /\ spc \in [Messages -> {"idle", "connect", "write", "done"}]
  /\ cnt \in [Messages -> 0 .. Attempts]
  /\ conn \in [Messages -> {"none", "queued", "open", "read", "closed"}]
  /\ sent \in [Messages -> Sizes \cup {0}]
  /\ buff \in [Messages -> 0 .. BuffSize]
  /\ listening \in BOOLEAN
  /\ logfile \in Seq([message : Messages, bytes : 1 .. BuffSize])
  /\ cut \subseteq Messages
  /\ unsaved \subseteq Messages
  /\ breaks \in 0 .. MaxBreaks

BackupInit ==
  /\ spc = [m \in Messages |-> "idle"]
  /\ cnt = [m \in Messages |-> 0]
  /\ conn = [m \in Messages |-> "none"]
  /\ sent = [m \in Messages |-> 0]
  /\ buff = [m \in Messages |-> 0]
  /\ listening \in BOOLEAN
  /\ logfile = <<>>
  /\ cut = {}
  /\ unsaved = {}
  /\ breaks = 0

-----------------------------------------------------------------------------
(* start_backup                                                              *)

StartBackup(m) ==
  /\ spc[m] = "idle"
  /\ spc' = [spc EXCEPT ![m] = "connect"]
  /\ cnt' = [cnt EXCEPT ![m] = Attempts]
  /\ UNCHANGED <<conn, sent, buff, listening, logfile, cut, unsaved, breaks>>

(* The kernel accepts the connection before the receiver does.  cnt is not  *)
(* used any more.                                                           *)
Connect(m) ==
  /\ spc[m] = "connect"
  /\ listening
  /\ conn' = [conn EXCEPT ![m] = "queued"]
  /\ spc' = [spc EXCEPT ![m] = "write"]
  /\ cnt' = [cnt EXCEPT ![m] = 0]
  /\ UNCHANGED <<sent, buff, listening, logfile, cut, unsaved, breaks>>

\* mutant: cnt is printed and not counted down.
CountedDown_Not(n) == n

(* cnt--                                                                    *)
CountedDown(n) == n - 1

(* connect may fail although the receiver is up.                            *)
ConnectFails(m) ==
  /\ spc[m] = "connect"
  /\ cnt' = [cnt EXCEPT ![m] = CountedDown(cnt[m])]
  /\ spc' = [spc EXCEPT ![m] = IF CountedDown(cnt[m]) <= 0 THEN "done" ELSE "connect"]
  /\ UNCHANGED <<conn, sent, buff, listening, logfile, cut, unsaved, breaks>>

(* write and close.  The write may succeed although the connection is over. *)
SendMessage(m) ==
  /\ spc[m] = "write"
  /\ \E size \in Sizes : sent' = [sent EXCEPT ![m] = size]
  /\ spc' = [spc EXCEPT ![m] = "done"]
  /\ UNCHANGED <<cnt, conn, buff, listening, logfile, cut, unsaved, breaks>>

(* write fails; it is logged, and not tried again.                          *)
SendFails(m) ==
  /\ spc[m] = "write"
  /\ conn[m] = "closed"
  /\ spc' = [spc EXCEPT ![m] = "done"]
  /\ UNCHANGED <<cnt, conn, sent, buff, listening, logfile, cut, unsaved, breaks>>

-----------------------------------------------------------------------------
(* The receiver                                                              *)

(* accept, and pthread_create.                                              *)
Accept(m) ==
  /\ listening
  /\ conn[m] = "queued"
  /\ conn' = [conn EXCEPT ![m] = "open"]
  /\ UNCHANGED <<senderVars, sent, buff, listening, logfile, cut, unsaved, breaks>>

\* mutant: a read of one byte is taken for the end.
Handles_TwoUp(r_ret) == r_ret > 1

(* Whether service passes what read returned to its callback.               *)
Handles(r_ret) == r_ret > 0

(* The one read of service: it returns what has arrived, and no more than   *)
(* the buffer holds.  A read that fills the buffer puts the terminator one  *)
(* byte past it; if that ends the receiver, it is a ReceiverDies.           *)
Read(m) ==
  /\ conn[m] = "open"
  /\ \E r_ret \in 1 .. BuffSize :
       /\ r_ret <= sent[m]
       /\ buff' = [buff EXCEPT ![m] = IF Handles(r_ret) THEN r_ret ELSE 0]
       /\ conn' = [conn EXCEPT ![m] = IF Handles(r_ret) THEN "read" ELSE "closed"]
  /\ UNCHANGED <<senderVars, sent, listening, logfile, cut, unsaved, breaks>>

\* mutant: service reads on until the sender has closed.
AfterRecord_ReadOn == "open"

(* threadRoutine closes the connection when service has returned.           *)
AfterRecord == "closed"

(* backup_log.  Its fwrite stays within the stream's buffer, so the record  *)
(* reaches the file in one piece, at fflush, with file_mutex held.          *)
BackupLog(m) ==
  /\ conn[m] = "read"
  /\ logfile' = Append(logfile, [message |-> m, bytes |-> buff[m]])
  /\ conn' = [conn EXCEPT ![m] = AfterRecord]
  /\ buff' = [buff EXCEPT ![m] = 0]
  /\ UNCHANGED <<senderVars, sent, listening, cut, unsaved, breaks>>

-----------------------------------------------------------------------------
(* What goes wrong                                                           *)

Broken(S) ==
  /\ breaks < MaxBreaks
  /\ breaks' = breaks + 1
  /\ buff' = [m \in Messages |-> IF m \in S THEN 0 ELSE buff[m]]
  /\ conn' = [m \in Messages |-> IF m \in S THEN "closed" ELSE conn[m]]
  /\ cut' = cut \cup S

(* backup_log, when the file does not take all of it: nobody looks at what  *)
(* fflush and fclose return.  A first part is appended, or nothing.         *)
BackupLogFails(m) ==
  /\ conn[m] = "read"
  /\ breaks < MaxBreaks
  /\ breaks' = breaks + 1
  /\ \/ UNCHANGED logfile
     \/ \E n \in 1 .. buff[m] - 1 :
          logfile' = Append(logfile, [message |-> m, bytes |-> n])
  /\ conn' = [conn EXCEPT ![m] = AfterRecord]
  /\ buff' = [buff EXCEPT ![m] = 0]
  /\ unsaved' = unsaved \cup {m}
  /\ UNCHANGED <<senderVars, sent, listening, cut>>

Alive == {m \in Messages : conn[m] \in {"queued", "open", "read"}}

(* It is killed, or it calls assert(false) because it cannot open its file: *)
(* that ends the threads of all connections.                                *)
ReceiverDies ==
  /\ listening
  /\ listening' = FALSE
  /\ Broken(Alive)
  /\ UNCHANGED <<senderVars, sent, logfile, unsaved>>

ReceiverStarts ==
  /\ ~listening
  /\ listening' = TRUE
  /\ UNCHANGED <<senderVars, conn, sent, buff, logfile, cut, unsaved, breaks>>

(* The network gives up on a connection, or the receiver has no thread for  *)
(* it; a read that waits returns -1.                                        *)
ConnectionBreaks(m) ==
  /\ conn[m] \in {"queued", "open"}
  /\ Broken({m})
  /\ UNCHANGED <<senderVars, sent, listening, logfile, unsaved>>

Sender(m) == Connect(m) \/ ConnectFails(m) \/ SendMessage(m) \/ SendFails(m)

Receiver(m) == Accept(m) \/ Read(m) \/ BackupLog(m)

Environment ==
  \/ ReceiverDies \/ ReceiverStarts
  \/ \E m \in Messages : ConnectionBreaks(m) \/ BackupLogFails(m)

-----------------------------------------------------------------------------
Records(m) == {i \in DOMAIN logfile : logfile[i].message = m}

(* The receiver's file holds at most one record of a message, a piece of it *)
(* from its beginning that is not empty and not more than one read, whatever*)
(* attempts, restarts and threads of the receiver were in play              *)
(* (CliBackupLog.hpp:30-47, ServerBackupLog.hpp:64-76).                     *)
OneRecordEach ==
  \A m \in Messages : \A i, j \in Records(m) :
    /\ i = j
    /\ logfile[i].bytes \in 1 .. sent[m]

(* A message that a sender has written into a connection gets its record,   *)
(* unless the receiver dies, that very connection breaks, or the disk does  *)
(* not take that very record: nothing that befalls another message loses it *)
(* (ServerBackupLog.hpp:78-112, ServerBackupLog.cpp:28-42).                 *)
WrittenIsRecorded ==
  \A m \in Messages :
    (sent[m] > 0 /\ conn[m] # "closed") ~> (Records(m) # {} \/ m \in cut \cup unsaved)
=============================================================================
