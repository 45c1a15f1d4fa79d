---------------------------- MODULE RollFileFlush ----------------------------
(***************************************************************************)
(* RollFileFlush and FileFlush (logSystem/logsCode/LogFlush.hpp): the log  *)
(* files that the worker thread writes, with RollFileFlush a new one       *)
(* whenever the open one is full, with FileFlush one alone, and the three  *)
(* depths to which flush_log pushes each batch: the buffer of the stream,  *)
(* the kernel, the disk.                                                   *)
(*                                                                         *)
(* A byte is known by the batch it comes from.  What a machine keeps of a  *)
(* file that was not synced is any prefix at least as long as the last     *)
(* sync left it.  A process that dies loses the buffer of its stream.      *)
(* fwrite, fflush, fsync and fclose may fail: the code prints that, or, of *)
(* fclose, does not look, and goes on as if they had not.                  *)
(***************************************************************************)
EXTENDS Integers, Sequences

CONSTANTS
  Sinks,         (* "roll" for a RollFileFlush, "file" for a FileFlush      *)
  Stamps,        (* the date strings in file names                          *)
  Levels,        (* the values of flush_log to consider                     *)
  max_size,
  Lens,          (* the lengths of the batches; the last one may be empty    *)
  MaxLen,        (* the longest                                             *)
  MaxBatches,    (* bound: calls of Flush                                   *)
  MaxCrashes,    (* bound: deaths of the process or the machine             *)
  MaxFaults,     (* bound: calls that fail                                  *)
  None           (* no stream                                               *)

ASSUME RollAssumption ==
  /\ Sinks \subseteq {"roll", "file"}
  /\ Levels \subseteq 0 .. 2
  /\ MaxLen \in Nat
  /\ Lens \subseteq 0 .. MaxLen
  /\ {max_size, MaxBatches} \subseteq Nat \ {0}
  /\ {MaxCrashes, MaxFaults} \subseteq Nat

VARIABLES
  sink,        (* which of the two the logger was built with                *)
  flush_log,   (* from config.conf                                          *)
  fs_,         (* None, or the name of the open file                        *)
  cnt_,
  cur_size_,
  buf,         (* what the stream holds back                                *)
  kernel,      (* each file, as a reader of it sees it                      *)
  synced,      (* how much of each file is on disk for certain              *)
  pc,          (* where Flush is                                            *)
  data,        (* the batch being flushed                                   *)
  batches,     (* history: the lengths of the batches so far                *)
  returned,    (* history: the batches whose Flush has returned             *)
  order,       (* history: the files this process opened, how long each     *)
               (* already was, and how much the process had written by then *)
  opens,       (* history: how often each file was opened                   *)
  written,     (* history: the bytes this process wrote                     *)
  deaths,      (* history: deaths so far, of the process and the machine    *)
  failed,      (* history: the members of order on which a call has failed  *)
  damaged,     (* history: the batches of whose Flush a call has failed     *)
  faults       (* history: the calls that have failed                       *)

confVars == <<sink, flush_log>>
fileVars == <<fs_, cnt_, cur_size_, buf, kernel, synced>>
faultVars == <<failed, damaged, faults>>
historyVars == <<batches, returned, order, opens, written, deaths, faultVars>>
vars == <<confVars, fileVars, pc, data, historyVars>>

Filenames == [stamp : Stamps, cnt : 1 .. MaxBatches]

(* The filename_ that a FileFlush is given.                                 *)
filename_ == [stamp |-> None, cnt |-> 0]

Files == Filenames \cup {filename_}

ASSUME NoneAssumption == None \notin Stamps \cup Files

(* The bytes of batch n.                                                    *)
Bytes(n, len) == [i \in 1 .. len |-> n]

Init ==
  /\ sink \in Sinks
  /\ flush_log \in Levels
  /\ fs_ = None
  /\ cnt_ = 1
  /\ cur_size_ = 0
  /\ buf = <<>>
  /\ kernel = [f \in Files |-> <<>>]
  /\ synced = [f \in Files |-> 0]
  /\ pc = "idle"
  /\ data = <<>>
  /\ batches = <<>>
  /\ returned = {}
  /\ order = <<>>
  /\ opens = [f \in Files |-> 0]
  /\ written = <<>>
  /\ deaths = [process |-> 0, machine |-> 0]
  /\ failed = {}
  /\ damaged = {}
  /\ faults = 0

-----------------------------------------------------------------------------
(* Flush(data, len) is called.                                              *)
Call(len) ==
  /\ pc = "idle"
  /\ Len(batches) < MaxBatches
  /\ batches' = Append(batches, len)
  /\ data' = Bytes(Len(batches) + 1, len)
  /\ pc' = "init"
  /\ UNCHANGED <<confVars, fileVars, returned, order, opens, written, deaths, faultVars>>

\* mutant: the size test lets one more batch in.
Full_Late == sink = "roll" /\ cur_size_ > max_size

(* FileFlush knows no limit.                                                *)
Full == sink = "roll" /\ cur_size_ >= max_size

(* InitLogFile with a file that has room.                                   *)
Keep ==
  /\ pc = "init"
  /\ fs_ # None
  /\ ~Full
  /\ pc' = "write"
  /\ UNCHANGED <<confVars, fileVars, data, historyVars>>

(* One more call on the open file fails.                                    *)
Fault ==
  /\ faults < MaxFaults
  /\ faults' = faults + 1
  /\ failed' = failed \cup {Len(order)}

\* mutant: the full file is not closed, and its stream is lost.
Closed_Leaked(n) == kernel

(* The stream is gone, and the first n of what it held back are written.    *)
Closed(n) == IF fs_ = None THEN kernel ELSE [kernel EXCEPT ![fs_] = @ \o SubSeq(buf, 1, n)]

(* fclose writes what the stream holds back; what it cannot write is lost,  *)
(* and nobody looks at its result.                                          *)
Close ==
  \/ kernel' = Closed(Len(buf)) /\ UNCHANGED <<failed, faults>>
  \/ fs_ # None /\ Fault /\ \E n \in 0 .. Len(buf) - 1 : kernel' = Closed(n)

\* mutant: the size goes on counting.
SizeAfterOpen_Kept == cur_size_

SizeAfterOpen == 0

(* fopen in the mode that appends.                                          *)
Open(name) ==
  /\ Close
  /\ buf' = <<>>
  /\ fs_' = name
  /\ cur_size_' = SizeAfterOpen
  /\ order' = Append(order, [file |-> name, from |-> Len(kernel'[name]),
                             at |-> Len(written)])
  /\ opens' = [opens EXCEPT ![name] = @ + 1]
  /\ UNCHANGED <<confVars, synced, data, batches, returned, written, deaths, damaged>>

(* InitLogFile opens a file: its name holds the time without separators or  *)
(* leading zeros, so two times may give one stamp, and counts from one again*)
(* in each process.                                                         *)
Roll(stamp) ==
  /\ sink = "roll"
  /\ pc = "init"
  /\ fs_ = None \/ Full
  /\ Open([stamp |-> stamp, cnt |-> cnt_])
  /\ cnt_' = cnt_ + 1
  /\ pc' = "write"

(* The constructor of FileFlush.                                            *)
Construct ==
  /\ sink = "file"
  /\ pc = "idle"
  /\ fs_ = None
  /\ Open(filename_)
  /\ UNCHANGED <<cnt_, pc>>

(* fwrite has been called: the size grows by what it was given.             *)
Count ==
  /\ pc = "write"
  /\ cur_size_' = IF sink = "roll" THEN cur_size_ + Len(data) ELSE 0
  /\ written' = written \o data
  /\ pc' = IF flush_log = 0 THEN "return" ELSE "fflush"
  /\ UNCHANGED <<confVars, fs_, cnt_, synced, data, batches, returned, order, opens,
                 deaths>>

(* fwrite: any first part of what the stream holds may reach the kernel.    *)
Write ==
  /\ Count
  /\ \E n \in 0 .. Len(buf) + Len(data) :
       /\ kernel' = [kernel EXCEPT ![fs_] = @ \o SubSeq(buf \o data, 1, n)]
       /\ buf' = SubSeq(buf \o data, n + 1, Len(buf) + Len(data))
  /\ UNCHANGED faultVars

(* Of what was to be written, all, a first part reaches the kernel, some of *)
(* the rest is held back, and what is in neither is lost.                   *)
Short(all) ==
  /\ Fault
  /\ damaged' = damaged \cup {Len(batches)}
  /\ \E n, from, to \in 0 .. Len(all) :
       /\ n <= from
       /\ kernel' = [kernel EXCEPT ![fs_] = @ \o SubSeq(all, 1, n)]
       /\ buf' = SubSeq(all, from + 1, to)

(* fwrite fails, on a full disk for one, and its result is not looked at.   *)
WriteFails ==
  /\ Count
  /\ data # <<>>
  /\ Short(buf \o data)

\* mutant: only flush_log 1 empties the stream.
Flushes_OneOnly == flush_log = 1

Flushes == TRUE

FlushedBy(call) ==
  /\ pc = call
  /\ pc' = IF call = "fflush" /\ flush_log = 2 THEN "fsync" ELSE "return"
  /\ UNCHANGED <<confVars, fs_, cnt_, cur_size_, data, batches, returned, order, opens,
                 written, deaths>>

(* fflush, for flush_log 1 and for flush_log 2.                             *)
FFlush ==
  /\ FlushedBy("fflush")
  /\ kernel' = IF Flushes THEN [kernel EXCEPT ![fs_] = @ \o buf] ELSE kernel
  /\ buf' = IF Flushes THEN <<>> ELSE buf
  /\ UNCHANGED <<synced, faultVars>>

(* fflush fails, is reported, and Flush goes on.                            *)
FFlushFails ==
  /\ FlushedBy("fflush")
  /\ Short(buf)
  /\ UNCHANGED synced

FSync ==
  /\ FlushedBy("fsync")
  /\ synced' = [synced EXCEPT ![fs_] = Len(kernel[fs_])]
  /\ UNCHANGED <<buf, kernel, faultVars>>

(* fsync fails, is reported, and Flush returns.  Whether a later one reaches*)
(* the bytes that this one did not is open: no property asks.               *)
FSyncFails ==
  /\ FlushedBy("fsync")
  /\ Fault
  /\ damaged' = damaged \cup {Len(batches)}
  /\ UNCHANGED <<buf, kernel, synced>>

Return ==
  /\ pc = "return"
  /\ returned' = returned \cup {Len(batches)}
  /\ data' = <<>>
  /\ pc' = "idle"
  /\ UNCHANGED <<confVars, fileVars, batches, order, opens, written, deaths, faultVars>>

(* The process is gone; its successor starts with a new object.             *)
Died ==
  /\ deaths.process + deaths.machine < MaxCrashes
  /\ fs_' = None
  /\ cnt_' = 1
  /\ cur_size_' = 0
  /\ buf' = <<>>
  /\ data' = <<>>
  /\ order' = <<>>
  /\ written' = <<>>
  /\ pc' = "idle"
  /\ failed' = {}
  /\ UNCHANGED <<confVars, batches, returned, opens, damaged, faults>>

ProcessDies ==
  /\ Died
  /\ deaths' = [deaths EXCEPT !.process = @ + 1]
  /\ UNCHANGED <<kernel, synced>>

(* fopen has failed, now or in the constructor: fs_ is NULL, and the fwrite *)
(* that follows ends the process, which makes a loss in fclose one more of  *)
(* what the stream held back.                                               *)
OpenFails ==
  /\ pc = "init"
  /\ fs_ = None \/ Full
  /\ \E n \in 0 .. Len(buf) : kernel' = Closed(n)
  /\ Died
  /\ deaths' = [deaths EXCEPT !.process = @ + 1]
  /\ UNCHANGED synced

MachineDies ==
  /\ Died
  /\ deaths' = [deaths EXCEPT !.machine = @ + 1]
  /\ LET used == {f \in Files : kernel[f] # <<>>}
     IN \E keep \in [used -> 0 .. MaxBatches * MaxLen] :
          /\ \A f \in used : keep[f] \in synced[f] .. Len(kernel[f])
          /\ kernel' = [f \in Files |->
                          IF f \in used THEN SubSeq(kernel[f], 1, keep[f]) ELSE <<>>]
          /\ synced' = [f \in Files |-> IF f \in used THEN keep[f] ELSE 0]

InitLogFile == Keep \/ \E s \in Stamps : Roll(s)

Flush ==
  \/ InitLogFile
  \/ Write
  \/ WriteFails
  \/ FFlush
  \/ FFlushFails
  \/ FSync
  \/ FSyncFails
  \/ Return

Next ==
  \/ Construct
  \/ \E len \in Lens : Call(len)
  \/ Flush
  \/ ProcessDies
  \/ OpenFails
  \/ MachineDies

Spec == Init /\ [][Next]_vars

-----------------------------------------------------------------------------
(* Types, and cur_size_ stays below one batch more than the limit.          *)
TypeOK ==
  /\ sink \in Sinks
  /\ flush_log \in Levels
  /\ fs_ \in Files \cup {None}
  /\ cnt_ \in 1 .. MaxBatches + 1
  /\ cur_size_ \in 0 .. max_size - 1 + MaxLen
  /\ buf \in Seq(1 .. MaxBatches)
  /\ kernel \in [Files -> Seq(1 .. MaxBatches)]
  /\ synced \in [Files -> Nat]
  /\ \A f \in Files : synced[f] <= Len(kernel[f])
  /\ pc \in {"idle", "init", "write", "fflush", "fsync", "return"}
  /\ data \in Seq(1 .. MaxBatches)
  /\ batches \in Seq(Lens)
  /\ returned \subseteq 1 .. MaxBatches
  /\ order \in Seq([file : Files, from : Nat, at : Nat])
  /\ opens \in [Files -> Nat]
  /\ written \in Seq(1 .. MaxBatches)
  /\ deaths \in [process : 0 .. MaxCrashes, machine : 0 .. MaxCrashes]
  /\ failed \subseteq 1 .. Len(order)
  /\ damaged \subseteq 1 .. Len(batches)
  /\ faults \in 0 .. MaxFaults

(* Batch n is in file f, in one piece, within its first so many bytes.       *)
Holds(f, n, so_many) ==
  \E at \in 0 .. so_many - batches[n] :
     \A i \in 1 .. batches[n] : kernel[f][at + i] = n

(* A batch whose Flush has returned, and reported no failure, survives, with*)
(* flush_log 1 or 2, the process (readme.md:15, LogFlush.hpp:55-59,         *)
(* 136-140): it is in a file, whatever files were opened, closed and        *)
(* reopened since, and whatever calls have failed for other batches, before *)
(* or after.  With flush_log 2 it survives the machine (LogFlush.hpp:60-72, *)
(* 141-153).                                                                *)
FlushedSurvives ==
  \A n \in returned \ damaged :
    /\ flush_log # 0 /\ deaths.machine = 0 => \E f \in Files : Holds(f, n, Len(kernel[f]))
    /\ flush_log = 2 => \E f \in Files : Holds(f, n, synced[f])

(* How much the process had written when it left the file it opened as       *)
(* number i, or has written to it, but for what the stream still holds.      *)
Until(i) == IF i < Len(order) THEN order[i + 1].at ELSE Len(written) - Len(buf)

(* Each file this process opened, unless a call failed while it was the open*)
(* one or when it was closed, has got exactly what the process wrote while  *)
(* it was, in order, and the stream holds back the end: no roll loses,      *)
(* repeats or reorders a byte, and what a failed call costs is of its own   *)
(* file (LogFlush.hpp:103-135).                                             *)
RollKeepsEverything ==
  /\ order # <<>> => order[1].at = 0
  /\ \A i \in 1 .. Len(order) \ failed :
       LET o == order[i]
       IN SubSeq(kernel[o.file], o.from + 1, Len(kernel[o.file]))
            = SubSeq(written, o.at + 1, Until(i))
  /\ Len(order) \notin failed =>
       buf = SubSeq(written, Len(written) - Len(buf) + 1, Len(written))

(* The bytes in a file, those its stream holds back included.               *)
SizeOf(f) == Len(kernel[f]) + (IF f = fs_ THEN Len(buf) ELSE 0)

(* A process leaves a file for the next one only when it has put at least   *)
(* max_size bytes there, unless a call on that file has failed: cur_size_   *)
(* counts what fwrite was given, written or not.  A file exceeds max_size by*)
(* less than a batch each time it is opened, whatever fails: the test of    *)
(* LogFlush.hpp:104 comes before the write and does not ask for the length  *)
(* of the batch.                                                            *)
RollsAtTheLimit ==
  sink = "roll" =>
    /\ \A i \in (1 .. Len(order) - 1) \ failed :
         Len(kernel[order[i].file]) - order[i].from >= max_size
    /\ \A f \in Files : SizeOf(f) <= opens[f] * (max_size - 1 + MaxLen)
=============================================================================
