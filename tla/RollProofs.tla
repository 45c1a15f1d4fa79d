------------------------------ MODULE RollProofs ------------------------------
(***************************************************************************)
(* Theorems about the log files, for every limit, length of batches, level *)
(* of flush_log, number of batches, of deaths and of calls that fail.      *)
(*                                                                         *)
(* What is in the open file and what its stream still holds back are one   *)
(* sequence, Stream.  fwrite appends to it, fflush and fclose move bytes   *)
(* inside it, a call that fails drops some of them, and the invariant      *)
(* speaks of it alone.                                                     *)
(***************************************************************************)
EXTENDS RollFileFlush, SequenceTheorems, TLAPS

Batch == 1 .. MaxBatches

Stream == kernel[fs_] \o buf

(* What stands behind the first n of s.                                      *)
After(s, n) == SubSeq(s, n + 1, Len(s))

(* s goes on from where t ends.                                              *)
Extends(s, t) ==
  /\ Len(t) <= Len(s)
  /\ \A i \in 1 .. Len(t) : s[i] = t[i]

-----------------------------------------------------------------------------
(* Sequences                                                                 *)

LEMMA Joined ==
  ASSUME NEW S, NEW s \in Seq(S), NEW t \in Seq(S)
  PROVE  /\ s \o t \in Seq(S)
         /\ Len(s \o t) = Len(s) + Len(t)
         /\ \A i \in 1 .. Len(s) : (s \o t)[i] = s[i]
         /\ \A i \in 1 .. Len(t) : (s \o t)[Len(s) + i] = t[i]
         /\ Extends(s \o t, s)
<1>1. Len(s) \in Nat /\ Len(t) \in Nat
  BY LenProperties
<1>2. /\ s \o t \in Seq(S)
      /\ Len(s \o t) = Len(s) + Len(t)
      /\ \A i \in 1 .. Len(s) + Len(t) :
            (s \o t)[i] = IF i <= Len(s) THEN s[i] ELSE t[i - Len(s)]
  BY ConcatProperties
<1>3. ASSUME NEW i \in 1 .. Len(t) PROVE (s \o t)[Len(s) + i] = t[i]
  <2>1. Len(s) + i \in 1 .. Len(s) + Len(t) /\ ~(Len(s) + i <= Len(s))
    BY <1>1
  <2>2. (Len(s) + i) - Len(s) = i
    BY <1>1
  <2> QED
    BY <1>2, <2>1, <2>2
<1>4. \A i \in 1 .. Len(s) : (s \o t)[i] = s[i]
  BY <1>1, <1>2
<1> QED
  BY <1>1, <1>2, <1>3, <1>4 DEF Extends

LEMMA Transitive == \A a, b, c \in Nat : a <= b /\ b <= c => a <= c
  OBVIOUS

LEMMA Assoc ==
  \A s, t, u \in Seq(Batch) : (s \o t) \o u = s \o (t \o u)
  BY ConcatAssociative

LEMMA Piece ==
  ASSUME NEW S, NEW s \in Seq(S), NEW m \in Nat, NEW n \in 0 .. Len(s)
  PROVE  /\ SubSeq(s, m + 1, n) \in Seq(S)
         /\ Len(SubSeq(s, m + 1, n)) = IF m <= n THEN n - m ELSE 0
         /\ \A i \in 1 .. n - m : SubSeq(s, m + 1, n)[i] = s[m + i]
<1>1. Len(s) \in Nat
  BY LenProperties
<1>2. \A i \in m + 1 .. n : s[i] \in S
  BY <1>1, ElementOfSeq
<1>3. m + 1 \in Int /\ n \in Int
  BY <1>1
<1>4. /\ SubSeq(s, m + 1, n) \in Seq(S)
      /\ Len(SubSeq(s, m + 1, n)) = IF m + 1 <= n THEN n - (m + 1) + 1 ELSE 0
      /\ \A i \in 1 .. n - (m + 1) + 1 : SubSeq(s, m + 1, n)[i] = s[m + 1 + i - 1]
  BY <1>2, <1>3, SubSeqProperties
<1>5. \A i \in 1 .. n - m : i \in 1 .. n - (m + 1) + 1 /\ m + 1 + i - 1 = m + i
  BY <1>1, <1>3
<1> QED
  BY <1>1, <1>4, <1>5

(* A sequence is its first n and what stands behind them.                    *)
LEMMA Cut ==
  ASSUME NEW S, NEW s \in Seq(S), NEW n \in 0 .. Len(s)
  PROVE  /\ SubSeq(s, 1, n) \in Seq(S)
         /\ After(s, n) \in Seq(S)
         /\ SubSeq(s, 1, n) \o After(s, n) = s
<1>1. Len(s) \in Nat
  BY LenProperties
<1>2. SubSeq(s, 1, n) \in Seq(S) /\ After(s, n) \in Seq(S)
  <2>1. 0 + 1 = 1 /\ n \in Nat /\ Len(s) \in 0 .. Len(s)
    BY <1>1
  <2> QED
    BY <2>1, Piece DEF After
<1>3. SubSeq(s, 1, n) \o SubSeq(s, n + 1, Len(s)) = SubSeq(s, 1, Len(s))
  <2>1. 1 \in 1 .. Len(s) + 1 /\ n \in 1 - 1 .. Len(s) /\ Len(s) \in n .. Len(s)
    BY <1>1
  <2> QED
    BY <2>1, ConcatAdjacentSubSeq
<1> QED
  BY <1>2, <1>3, SubSeqFull DEF After

LEMMA AfterJoined ==
  ASSUME NEW S, NEW s \in Seq(S), NEW t \in Seq(S), NEW n \in 0 .. Len(s)
  PROVE  After(s \o t, n) = After(s, n) \o t
<1>1. Len(s) \in Nat /\ Len(t) \in Nat
  BY LenProperties
<1>2. s \o t \in Seq(S) /\ Len(s \o t) = Len(s) + Len(t) /\ n \in 0 .. Len(s \o t)
  BY <1>1, Joined
<1>3. /\ After(s \o t, n) \in Seq(S)
      /\ Len(After(s \o t, n)) = Len(s) + Len(t) - n
      /\ \A i \in 1 .. Len(s) + Len(t) - n : After(s \o t, n)[i] = (s \o t)[n + i]
  BY <1>1, <1>2, Piece DEF After
<1>4. /\ After(s, n) \in Seq(S)
      /\ Len(After(s, n)) = Len(s) - n
      /\ \A i \in 1 .. Len(s) - n : After(s, n)[i] = s[n + i]
  BY <1>1, Piece DEF After
<1>5. /\ After(s, n) \o t \in Seq(S)
      /\ Len(After(s, n) \o t) = Len(s) - n + Len(t)
  BY <1>1, <1>4, Joined
<1>6. ASSUME NEW i \in 1 .. Len(s) + Len(t) - n
      PROVE  (s \o t)[n + i] = (After(s, n) \o t)[i]
  <2>1. CASE n + i <= Len(s)
    <3>1. i \in 1 .. Len(s) - n /\ n + i \in 1 .. Len(s)
      BY <1>1, <2>1
    <3>2. (s \o t)[n + i] = s[n + i]
      BY <3>1, Joined
    <3>3. (After(s, n) \o t)[i] = After(s, n)[i]
      BY <1>4, <3>1, Joined
    <3> QED
      BY <1>4, <3>1, <3>2, <3>3
  <2>2. CASE n + i > Len(s)
    <3> DEFINE k == n + i - Len(s)
    <3>1. k \in 1 .. Len(t) /\ n + i = Len(s) + k /\ i = Len(After(s, n)) + k
      BY <1>1, <1>4, <2>2
    <3>2. (s \o t)[Len(s) + k] = t[k]
      BY <3>1, Joined
    <3>3. (After(s, n) \o t)[Len(After(s, n)) + k] = t[k]
      BY <1>4, <3>1, Joined
    <3> HIDE DEF k
    <3> QED
      BY <3>1, <3>2, <3>3
  <2>3. n + i <= Len(s) \/ n + i > Len(s)
    BY <1>1
  <2> QED
    BY <2>1, <2>2, <2>3
<1>7. Len(After(s \o t, n)) = Len(After(s, n) \o t)
  BY <1>1, <1>3, <1>5
<1>8. \A i \in 1 .. Len(After(s \o t, n)) : After(s \o t, n)[i] = (After(s, n) \o t)[i]
  BY <1>3, <1>6
<1> QED
  BY <1>3, <1>5, <1>7, <1>8, SeqEqual

-----------------------------------------------------------------------------
(* The invariant                                                             *)

(* The call of Flush that is under way.                                      *)
CallInv ==
  /\ Len(batches) <= MaxBatches
  /\ cnt_ <= Len(batches) + 1
  /\ pc = "init" => cnt_ <= Len(batches)
  /\ returned \subseteq 1 .. Len(batches)
  /\ pc # "idle" => /\ Len(batches) > 0
                    /\ data = Bytes(Len(batches), batches[Len(batches)])
  /\ pc \notin {"idle", "init"} => fs_ # None
  /\ pc = "fflush" => flush_log # 0
  /\ pc = "fsync" => flush_log = 2
  /\ sink = "roll" /\ pc = "write" => cur_size_ < max_size
  /\ sink = "file" => cur_size_ = 0

(* The open file is the last of those opened, and no two of them are one.    *)
OrderInv ==
  /\ fs_ = None <=> order = <<>>
  /\ fs_ = None => buf = <<>> /\ written = <<>>
  /\ order # <<>> => order[1].at = 0 /\ order[Len(order)].file = fs_
  /\ sink = "roll" =>
       /\ cnt_ = Len(order) + 1
       /\ \A i \in 1 .. Len(order) :
            order[i].file \in Filenames /\ order[i].file.cnt = i
  /\ sink = "file" => Len(order) <= 1

TypeInv == TypeOK /\ CallInv /\ OrderInv

-----------------------------------------------------------------------------
(* What the actions do to the files                                          *)

Last == order[Len(order)]

LEMMA OrderType ==
  ASSUME TypeOK
  PROVE  /\ Len(order) \in Nat
         /\ \A i \in 1 .. Len(order) :
              order[i].file \in Files /\ order[i].from \in Nat /\ order[i].at \in Nat
         /\ written \in Seq(Batch) /\ Len(written) \in Nat
<1>1. order \in Seq([file : Files, from : Nat, at : Nat])
  BY DEF TypeOK
<1>2. Len(order) \in Nat
  BY <1>1, LenProperties
<1>3. ASSUME NEW i \in 1 .. Len(order)
      PROVE  order[i].file \in Files /\ order[i].from \in Nat /\ order[i].at \in Nat
  <2>1. order[i] \in [file : Files, from : Nat, at : Nat]
    BY <1>1, <1>3, ElementOfSeq
  <2> QED
    BY <2>1
<1>4. written \in Seq(Batch)
  BY DEF TypeOK, Batch
<1> QED
  BY <1>2, <1>3, <1>4, LenProperties

(* While a file is open it is the last, and the others are not it.           *)
LEMMA OpenIsLast ==
  ASSUME TypeInv, fs_ # None
  PROVE  /\ Len(order) \in 1 .. Len(order)
         /\ Last.file = fs_ /\ Last.from \in Nat /\ Last.at \in Nat
         /\ \A i \in 1 .. Len(order) - 1 : order[i].file # fs_
<1>1. TypeOK /\ OrderInv
  BY DEF TypeInv
<1>2. order # <<>> /\ order \in Seq([file : Files, from : Nat, at : Nat])
  BY <1>1 DEF OrderInv, TypeOK
<1>3. Len(order) # 0 /\ Len(order) \in Nat
  BY <1>2, EmptySeq, LenProperties
<1>4. Len(order) \in 1 .. Len(order)
  BY <1>3
<1>5. Last.file = fs_
  BY <1>1, <1>2 DEF OrderInv, Last
<1>6. ASSUME NEW i \in 1 .. Len(order) - 1 PROVE order[i].file # fs_
  <2>1. sink = "roll"
    BY <1>1, <1>3, RollAssumption DEF OrderInv, TypeOK
  <2>2. i \in 1 .. Len(order) /\ i # Len(order)
    BY <1>3
  <2>3. order[i].file.cnt = i /\ order[Len(order)].file.cnt = Len(order)
    BY <1>1, <1>4, <2>1, <2>2 DEF OrderInv
  <2> QED
    BY <1>5, <2>2, <2>3 DEF Last
<1>7. Last.from \in Nat /\ Last.at \in Nat
  BY <1>1, <1>4, OrderType DEF Last
<1> QED
  BY <1>4, <1>5, <1>6, <1>7

LEMMA StreamType ==
  ASSUME TypeOK, fs_ # None
  PROVE  /\ fs_ \in Files
         /\ kernel[fs_] \in Seq(Batch) /\ buf \in Seq(Batch)
         /\ Len(kernel[fs_]) \in Nat /\ Len(buf) \in Nat
         /\ Stream \in Seq(Batch)
         /\ Len(Stream) = Len(kernel[fs_]) + Len(buf)
         /\ Extends(Stream, kernel[fs_])
<1>1. fs_ \in Files /\ kernel[fs_] \in Seq(Batch) /\ buf \in Seq(Batch)
  BY DEF TypeOK, Batch
<1> QED
  BY <1>1, Joined, LenProperties DEF Stream

LEMMA FilesFacts ==
  /\ filename_ \in Files /\ None \notin Files
  /\ \A name \in Filenames : name \in Files /\ name # filename_
BY NoneAssumption DEF Files, Filenames, filename_

(* After fclose, of which the first n bytes held back were written.          *)
LEMMA ClosedFiles ==
  ASSUME TypeOK, OrderInv, NEW n \in 0 .. Len(buf)
  PROVE  /\ Closed(n) \in [Files -> Seq(Batch)]
         /\ fs_ # None /\ n = Len(buf) => Closed(n)[fs_] = Stream
         /\ \A f \in Files : f # fs_ => Closed(n)[f] = kernel[f]
         /\ \A f \in Files : Extends(Closed(n)[f], kernel[f])
         /\ \A f \in Files : synced[f] <= Len(Closed(n)[f])
         /\ \A f \in Files : Len(Closed(n)[f]) <= SizeOf(f)
<1>1. kernel \in [Files -> Seq(Batch)] /\ synced \in [Files -> Nat]
      /\ \A f \in Files : synced[f] <= Len(kernel[f])
  BY DEF TypeOK, Batch
<1>2. \A f \in Files : Len(kernel[f]) \in Nat
  BY <1>1, LenProperties
<1>3. CASE fs_ = None
  <2>1. Closed(n) = kernel
    BY <1>3 DEF Closed
  <2>2. \A f \in Files : Extends(kernel[f], kernel[f])
    BY <1>2 DEF Extends
  <2>3. ASSUME NEW f \in Files PROVE SizeOf(f) = Len(kernel[f])
    <3>1. f # fs_
      BY <1>3, FilesFacts
    <3>2. SizeOf(f) = Len(kernel[f]) + 0
      BY <3>1 DEF SizeOf
    <3>3. Len(kernel[f]) \in Nat
      BY <1>2
    <3> QED
      BY <3>2, <3>3
  <2>4. \A f \in Files : Len(Closed(n)[f]) <= SizeOf(f)
    BY <1>2, <2>1, <2>3
  <2> QED
    BY <1>1, <1>3, <2>1, <2>2, <2>4, Zenon
<1>4. CASE fs_ # None
  <2> DEFINE first == SubSeq(buf, 1, n)
             all == kernel[fs_] \o first
  <2>1. Closed(n) = [kernel EXCEPT ![fs_] = all]
    BY <1>1, <1>4 DEF Closed
  <2>2. /\ fs_ \in Files /\ kernel[fs_] \in Seq(Batch) /\ buf \in Seq(Batch)
        /\ Len(kernel[fs_]) \in Nat /\ Len(buf) \in Nat
    BY <1>4, StreamType
  <2>3. first \in Seq(Batch) /\ Len(first) = n
    <3>1. n \in Nat /\ 0 + 1 = 1 /\ n - 0 = n
      BY <2>2
    <3>2. SubSeq(buf, 0 + 1, n) \in Seq(Batch) /\ Len(SubSeq(buf, 0 + 1, n)) = n - 0
      BY <2>2, <3>1, Piece
    <3> QED
      BY <3>1, <3>2
  <2>4. n = Len(buf) => all = Stream
    BY <2>2, SubSeqFull DEF Stream
  <2> HIDE DEF first
  <2>5. all \in Seq(Batch) /\ Extends(all, kernel[fs_]) /\ Len(all) = Len(kernel[fs_]) + n
    BY <2>2, <2>3, Joined
  <2> HIDE DEF all
  <2>6. Len(all) \in Nat /\ Len(all) <= Len(kernel[fs_]) + Len(buf)
    BY <2>2, <2>5
  <2>7. /\ Closed(n) \in [Files -> Seq(Batch)]
        /\ Closed(n)[fs_] = all
        /\ \A f \in Files : f # fs_ => Closed(n)[f] = kernel[f]
    BY <1>1, <2>1, <2>2, <2>5
  <2>8. ASSUME NEW f \in Files
        PROVE  /\ Extends(Closed(n)[f], kernel[f]) /\ synced[f] <= Len(Closed(n)[f])
               /\ Len(Closed(n)[f]) <= SizeOf(f)
    <3>1. CASE f = fs_
      BY <1>1, <1>2, <2>2, <2>5, <2>6, <2>7, <3>1 DEF Extends, SizeOf
    <3>2. CASE f # fs_
      BY <1>1, <1>2, <2>7, <3>2 DEF Extends, SizeOf
    <3> QED
      BY <3>1, <3>2
  <2> QED
    BY <2>4, <2>7, <2>8
<1> QED
  BY <1>3, <1>4

(* What fclose leaves, whether or not it fails.                              *)
LEMMA CloseMoves ==
  ASSUME TypeInv, Close
  PROVE  /\ kernel' \in [Files -> Seq(Batch)]
         /\ fs_ # None /\ Len(order) \notin failed' => kernel'[fs_] = Stream
         /\ \A f \in Files : f # fs_ => kernel'[f] = kernel[f]
         /\ \A f \in Files : Extends(kernel'[f], kernel[f])
         /\ \A f \in Files : synced[f] <= Len(kernel'[f])
         /\ \A f \in Files : Len(kernel'[f]) <= SizeOf(f)
         /\ failed \subseteq failed' /\ failed' \subseteq 1 .. Len(order)
         /\ faults' \in 0 .. MaxFaults
<1>1. TypeOK /\ OrderInv /\ faults \in 0 .. MaxFaults /\ MaxFaults \in Nat
      /\ failed \subseteq 1 .. Len(order)
  BY RollAssumption DEF TypeInv, TypeOK
<1>2. Len(buf) \in Nat
  BY <1>1, LenProperties DEF TypeOK
<1>3. CASE kernel' = Closed(Len(buf)) /\ UNCHANGED <<failed, faults>>
  <2>1. Len(buf) \in 0 .. Len(buf)
    BY <1>2
  <2> QED
    BY <1>1, <1>3, <2>1, ClosedFiles
<1>4. CASE fs_ # None /\ Fault /\ \E n \in 0 .. Len(buf) - 1 : kernel' = Closed(n)
  <2>1. PICK n \in 0 .. Len(buf) - 1 : kernel' = Closed(n)
    BY <1>4
  <2>2. n \in 0 .. Len(buf)
    BY <1>2
  <2>3. failed' = failed \cup {Len(order)} /\ faults' \in 0 .. MaxFaults
        /\ Len(order) \in 1 .. Len(order)
    BY <1>1, <1>4, OpenIsLast DEF Fault
  <2> QED
    BY <1>1, <2>1, <2>2, <2>3, ClosedFiles
<1> QED
  BY <1>3, <1>4 DEF Close

LEMMA OpenedFile ==
  ASSUME TypeInv, NEW name \in Files, Open(name)
  PROVE  /\ Close
         /\ Stream' = kernel'[name]
         /\ buf' = <<>> /\ fs_' = name
         /\ order' \in Seq([file : Files, from : Nat, at : Nat])
         /\ Len(order') = Len(order) + 1
         /\ \A i \in 1 .. Len(order) : order'[i] = order[i]
         /\ order'[Len(order) + 1] = [file |-> name, from |-> Len(kernel'[name]),
                                      at |-> Len(written)]
         /\ Len(order) \in Nat
<1>1. Close /\ kernel'[name] \in Seq(Batch) /\ written \in Seq(Batch)
  BY CloseMoves DEF Open, TypeInv, TypeOK, Batch
<1>2. Len(kernel'[name]) \in Nat /\ Len(written) \in Nat
  BY <1>1, LenProperties
<1>3. Stream' = kernel'[name]
  <2>1. Stream' = kernel'[name] \o <<>>
    BY DEF Open, Stream
  <2> QED
    BY <1>1, <2>1, ConcatEmptySeq
<1> DEFINE o == [file |-> name, from |-> Len(kernel'[name]), at |-> Len(written)]
<1>4. o \in [file : Files, from : Nat, at : Nat]
  BY <1>2
<1>5. order' = Append(order, o)
  BY DEF Open
<1>6. order \in Seq([file : Files, from : Nat, at : Nat])
  BY DEF TypeInv, TypeOK
<1> HIDE DEF o
<1>7. /\ order' \in Seq([file : Files, from : Nat, at : Nat])
      /\ Len(order') = Len(order) + 1
      /\ \A i \in 1 .. Len(order) : order'[i] = order[i]
      /\ order'[Len(order) + 1] = o
      /\ Len(order) \in Nat
  BY <1>4, <1>5, <1>6, AppendProperties, LenProperties
<1> QED
  BY <1>1, <1>3, <1>7 DEF Open, o

(* What the calls on the open file have in common, d being what they add: a  *)
(* call that fails may drop some bytes of the stream, and is remembered.     *)
Moves(d) ==
  /\ fs_ # None /\ fs_' = fs_
  /\ kernel' \in [Files -> Seq(Batch)] /\ buf' \in Seq(Batch)
  /\ \A f \in Files : f # fs_ => kernel'[f] = kernel[f]
  /\ \A f \in Files : Extends(kernel'[f], kernel[f])
  /\ \A f \in Files : synced[f] <= Len(kernel'[f])
  /\ \/ Stream' = Stream \o d
     \/ /\ Len(Stream') <= Len(Stream) + Len(d)
        /\ Len(order) \in failed' /\ Len(batches) \in damaged'
  /\ failed \subseteq failed' /\ failed' \subseteq 1 .. Len(order)
  /\ damaged \subseteq damaged' /\ damaged' \subseteq 1 .. Len(batches)
  /\ faults' \in 0 .. MaxFaults

(* fwrite and fflush; any first part of what is held back moves.             *)
LEMMA Moved ==
  ASSUME TypeOK, fs_ # None, NEW d \in Seq(Batch), fs_' = fs_,
         NEW n \in 0 .. Len(buf \o d),
         kernel' = [kernel EXCEPT ![fs_] = @ \o SubSeq(buf \o d, 1, n)],
         buf' \in Seq(Batch), Len(buf') <= Len(buf \o d) - n
  PROVE  /\ kernel' \in [Files -> Seq(Batch)]
         /\ Len(Stream') <= Len(Stream) + Len(d)
         /\ buf' = After(buf \o d, n) => Stream' = Stream \o d
         /\ \A f \in Files : f # fs_ => kernel'[f] = kernel[f]
         /\ \A f \in Files : Extends(kernel'[f], kernel[f])
         /\ \A f \in Files : synced[f] <= Len(kernel'[f])
<1>1. kernel \in [Files -> Seq(Batch)] /\ synced \in [Files -> Nat]
      /\ (\A f \in Files : synced[f] <= Len(kernel[f]))
      /\ kernel[fs_] \in Seq(Batch) /\ buf \in Seq(Batch) /\ fs_ \in Files
  BY StreamType DEF TypeOK, Batch
<1>2. \A f \in Files : Len(kernel[f]) \in Nat
  BY <1>1, LenProperties
<1> DEFINE first == SubSeq(buf \o d, 1, n)
<1>3. buf \o d \in Seq(Batch) /\ Len(buf \o d) = Len(buf) + Len(d)
      /\ Len(buf) \in Nat /\ Len(d) \in Nat
  BY <1>1, Joined, LenProperties
<1>4. /\ first \in Seq(Batch) /\ Len(first) = n
      /\ first \o After(buf \o d, n) = buf \o d
  <2>1. n \in Nat /\ 0 + 1 = 1 /\ n - 0 = n /\ 0 <= n
    BY <1>3
  <2>2. Len(SubSeq(buf \o d, 0 + 1, n)) = n - 0
    BY <1>3, <2>1, Piece
  <2> QED
    BY <1>3, <2>1, <2>2, Cut
<1> HIDE DEF first
<1>5. kernel' = [kernel EXCEPT ![fs_] = kernel[fs_] \o first]
  BY DEF first
<1>6. /\ kernel[fs_] \o first \in Seq(Batch)
      /\ Extends(kernel[fs_] \o first, kernel[fs_])
      /\ Len(kernel[fs_] \o first) \in Nat
      /\ Len(kernel[fs_] \o first) = Len(kernel[fs_]) + n
  <2> DEFINE k == kernel[fs_]
  <2>1. k \in Seq(Batch) /\ first \in Seq(Batch) /\ Len(first) = n
    BY <1>1, <1>4
  <2> HIDE DEF k
  <2>2. k \o first \in Seq(Batch) /\ Extends(k \o first, k)
        /\ Len(k \o first) = Len(k) + Len(first)
    BY <2>1, Joined
  <2>3. Len(k \o first) \in Nat
    BY <2>2, LenProperties
  <2> QED
    BY <2>1, <2>2, <2>3 DEF k
<1>7. /\ kernel' \in [Files -> Seq(Batch)]
      /\ kernel'[fs_] = kernel[fs_] \o first
      /\ \A f \in Files : f # fs_ => kernel'[f] = kernel[f]
  BY <1>1, <1>5, <1>6
<1>8. Stream' = (kernel[fs_] \o first) \o buf'
  BY <1>7 DEF Stream
<1>10. Len(Stream') <= Len(Stream) + Len(d)
  <2>1. Len((kernel[fs_] \o first) \o buf') = Len(kernel[fs_] \o first) + Len(buf')
        /\ Len(buf') \in Nat
    BY <1>6, Joined, LenProperties
  <2>2. Len(Stream) = Len(kernel[fs_]) + Len(buf) /\ Len(kernel[fs_]) \in Nat
    BY <1>1, Joined, LenProperties DEF Stream
  <2>3. Len(buf') <= Len(buf) + Len(d) - n /\ n \in Nat
    BY <1>3
  <2> QED
    BY <1>3, <1>6, <1>8, <2>1, <2>2, <2>3
<1>11. ASSUME buf' = After(buf \o d, n) PROVE Stream' = Stream \o d
  <2>2. (kernel[fs_] \o first) \o buf' = kernel[fs_] \o (first \o buf')
    BY <1>1, <1>4, Assoc
  <2>3. (kernel[fs_] \o buf) \o d = kernel[fs_] \o (buf \o d)
    BY <1>1, Assoc
  <2> QED
    BY <1>4, <1>8, <1>11, <2>2, <2>3 DEF Stream
<1>9. ASSUME NEW f \in Files
      PROVE  Extends(kernel'[f], kernel[f]) /\ synced[f] <= Len(kernel'[f])
  <2>1. Extends(kernel'[f], kernel[f])
    <3>1. CASE f = fs_
      BY <1>6, <1>7, <3>1
    <3>2. CASE f # fs_
      <4>1. Extends(kernel[f], kernel[f])
        BY <1>2 DEF Extends
      <4> QED
        BY <1>7, <3>2, <4>1
    <3> QED
      BY <3>1, <3>2
  <2>2. Len(kernel[f]) \in Nat /\ Len(kernel'[f]) \in Nat /\ synced[f] \in Nat
    BY <1>1, <1>2, <1>7, LenProperties
  <2>3. Len(kernel[f]) <= Len(kernel'[f]) /\ synced[f] <= Len(kernel[f])
    BY <1>1, <2>1 DEF Extends
  <2>4. synced[f] <= Len(kernel'[f])
    BY <2>2, <2>3, Transitive, Zenon
  <2> QED
    BY <2>1, <2>4
<1> QED
  BY <1>7, <1>9, <1>10, <1>11

LEMMA Fails ==
  ASSUME TypeInv, Fault, fs_ # None
  PROVE  /\ failed \subseteq failed' /\ failed' \subseteq 1 .. Len(order)
         /\ Len(order) \in failed'
         /\ faults' \in 0 .. MaxFaults
<1>1. faults \in 0 .. MaxFaults /\ MaxFaults \in Nat /\ failed \subseteq 1 .. Len(order)
  BY RollAssumption DEF TypeInv, TypeOK
<1>2. Len(order) \in 1 .. Len(order)
  BY OpenIsLast
<1>3. failed' = failed \cup {Len(order)} /\ faults < MaxFaults /\ faults' = faults + 1
  BY DEF Fault
<1>4. faults' \in 0 .. MaxFaults
  BY <1>1, <1>3
<1> QED
  BY <1>1, <1>2, <1>3, <1>4, Zenon

LEMMA Damages ==
  ASSUME TypeInv, pc # "idle", damaged' = damaged \cup {Len(batches)}
  PROVE  damaged \subseteq damaged' /\ damaged' \subseteq 1 .. Len(batches)
<1>1. damaged \subseteq 1 .. Len(batches) /\ Len(batches) > 0 /\ batches \in Seq(Lens)
  BY DEF TypeInv, TypeOK, CallInv
<1>2. Len(batches) \in Nat
  BY <1>1, LenProperties
<1>3. Len(batches) \in 1 .. Len(batches)
  BY <1>1, <1>2
<1> QED
  BY <1>1, <1>3, Zenon

(* A call that fails.                                                        *)
LEMMA ShortMoves ==
  ASSUME TypeInv, fs_ # None, fs_' = fs_, pc # "idle", NEW d \in Seq(Batch),
         Short(buf \o d)
  PROVE  Moves(d)
<1>1. TypeOK /\ buf \in Seq(Batch)
  BY DEF TypeInv, TypeOK, Batch
<1> DEFINE all == buf \o d
<1>2. all \in Seq(Batch) /\ Len(all) \in Nat
  BY <1>1, Joined, LenProperties
<1>3. PICK n \in 0 .. Len(all), from \in 0 .. Len(all), to \in 0 .. Len(all) :
        /\ n <= from
        /\ kernel' = [kernel EXCEPT ![fs_] = @ \o SubSeq(all, 1, n)]
        /\ buf' = SubSeq(all, from + 1, to)
  BY DEF Short
<1> HIDE DEF all
<1>4. buf' \in Seq(Batch) /\ Len(buf') <= Len(all) - n
  <2>1. from \in Nat
    BY <1>2
  <2>2. /\ SubSeq(all, from + 1, to) \in Seq(Batch)
        /\ Len(SubSeq(all, from + 1, to)) = IF from <= to THEN to - from ELSE 0
    BY <1>2, <2>1, Piece
  <2> QED
    BY <1>2, <1>3, <2>2
<1>5. Fault /\ damaged' = damaged \cup {Len(batches)}
  BY DEF Short
<1>6. /\ kernel' \in [Files -> Seq(Batch)]
      /\ Len(Stream') <= Len(Stream) + Len(d)
      /\ \A f \in Files : f # fs_ => kernel'[f] = kernel[f]
      /\ \A f \in Files : Extends(kernel'[f], kernel[f])
      /\ \A f \in Files : synced[f] <= Len(kernel'[f])
  BY <1>1, <1>3, <1>4, Moved DEF all
<1> QED
  BY <1>4, <1>5, <1>6, Fails, Damages DEF Moves

(* A death of the machine leaves a first part of each file, with all that    *)
(* was synced.                                                               *)
LEMMA Kept ==
  ASSUME TypeOK, MachineDies
  PROVE  /\ kernel' \in [Files -> Seq(Batch)] /\ synced' \in [Files -> Nat]
         /\ \A f \in Files : /\ Extends(kernel[f], kernel'[f])
                              /\ synced'[f] = Len(kernel'[f])
                              /\ synced[f] <= synced'[f]
<1> DEFINE used == {f \in Files : kernel[f] # <<>>}
<1>1. PICK keep \in [used -> 0 .. MaxBatches * MaxLen] :
        /\ \A f \in used : keep[f] \in synced[f] .. Len(kernel[f])
        /\ kernel' = [f \in Files |->
                        IF f \in used THEN SubSeq(kernel[f], 1, keep[f]) ELSE <<>>]
        /\ synced' = [f \in Files |-> IF f \in used THEN keep[f] ELSE 0]
  BY DEF MachineDies
<1>2. kernel \in [Files -> Seq(Batch)] /\ synced \in [Files -> Nat]
      /\ \A f \in Files : synced[f] <= Len(kernel[f])
  BY DEF TypeOK, Batch
<1>3. ASSUME NEW f \in Files
      PROVE  /\ kernel'[f] \in Seq(Batch) /\ synced'[f] \in Nat
             /\ Extends(kernel[f], kernel'[f])
             /\ synced'[f] = Len(kernel'[f])
             /\ synced[f] <= synced'[f]
  <2>1. kernel[f] \in Seq(Batch) /\ Len(kernel[f]) \in Nat
    BY <1>2, LenProperties
  <2>2. CASE f \in used
    <3> DEFINE k == keep[f]
    <3>1. k \in 0 .. Len(kernel[f]) /\ synced[f] <= k
      BY <1>1, <1>2, <2>1, <2>2
    <3>2. kernel'[f] = SubSeq(kernel[f], 0 + 1, k) /\ synced'[f] = k
      BY <1>1, <2>2
    <3> HIDE DEF k
    <3>3. /\ SubSeq(kernel[f], 0 + 1, k) \in Seq(Batch)
          /\ Len(SubSeq(kernel[f], 0 + 1, k)) = IF 0 <= k THEN k - 0 ELSE 0
          /\ \A i \in 1 .. k - 0 : SubSeq(kernel[f], 0 + 1, k)[i] = kernel[f][0 + i]
      BY <2>1, <3>1, Piece
    <3>4. kernel'[f] \in Seq(Batch) /\ Len(kernel'[f]) = k
          /\ \A i \in 1 .. k : kernel'[f][i] = kernel[f][i]
      BY <2>1, <3>1, <3>2, <3>3
    <3> QED
      BY <2>1, <3>1, <3>2, <3>4 DEF Extends
  <2>3. CASE f \notin used
    <3>1. kernel[f] = <<>> /\ kernel'[f] = <<>> /\ synced'[f] = 0
      BY <1>1, <2>3
    <3>2. Len(<<>>) = 0 /\ <<>> \in Seq(Batch)
      BY EmptySeq
    <3> QED
      BY <1>2, <3>1, <3>2 DEF Extends
  <2> QED
    BY <2>2, <2>3
<1> QED
  BY <1>1, <1>3

LEMMA BytesType ==
  ASSUME NEW n \in Batch, NEW len \in Nat
  PROVE  /\ Bytes(n, len) \in Seq(Batch)
         /\ Len(Bytes(n, len)) = len
         /\ \A i \in 1 .. len : Bytes(n, len)[i] = n
<1>1. Bytes(n, len) \in [1 .. len -> Batch]
  BY DEF Bytes
<1> QED
  BY <1>1 DEF Bytes

-----------------------------------------------------------------------------
(* The types                                                                 *)

LEMMA InitTypes == Init => TypeInv
<1> SUFFICES ASSUME Init PROVE TypeInv
  OBVIOUS
<1>1. <<>> \in Seq(Batch) /\ <<>> \in Seq(Lens) /\ Len(<<>>) = 0
      /\ <<>> \in Seq([file : Files, from : Nat, at : Nat])
  BY EmptySeq
<1>2. TypeOK
  <2>1. kernel \in [Files -> Seq(Batch)] /\ \A f \in Files : Len(kernel[f]) = 0
    BY <1>1 DEF Init
  <2> QED
    BY <1>1, <2>1, RollAssumption DEF Init, TypeOK, Batch
<1>3. CallInv /\ OrderInv
  BY <1>1, RollAssumption DEF Init, CallInv, OrderInv
<1> QED
  BY <1>2, <1>3 DEF TypeInv

LEMMA CallTypes ==
  ASSUME TypeInv, NEW len \in Lens, Call(len)
  PROVE  TypeInv'
<1> USE DEF Call, confVars, fileVars
<1>1. TypeOK /\ CallInv /\ OrderInv
  BY DEF TypeInv
<1>2. batches \in Seq(Lens) /\ Len(batches) \in Nat
  BY <1>1, LenProperties DEF TypeOK
<1>3. /\ batches' \in Seq(Lens) /\ Len(batches') = Len(batches) + 1
      /\ batches'[Len(batches')] = len
  BY <1>2, AppendProperties
<1>4. Len(batches) + 1 \in Batch /\ len \in Nat
  BY <1>2, RollAssumption DEF Batch
<1>5. data' \in Seq(Batch)
  BY <1>4, BytesType
<1>6. TypeOK'
  <2>1. UNCHANGED faultVars /\ damaged \subseteq 1 .. Len(batches)
    BY <1>1 DEF TypeOK
  <2>2. damaged' \subseteq 1 .. Len(batches')
    BY <1>2, <1>3, <2>1 DEF faultVars
  <2> QED
    BY <1>1, <1>3, <1>5, <2>1, <2>2 DEF TypeOK, Batch, faultVars
<1>7. CallInv'
  <2>1. data' = Bytes(Len(batches'), batches'[Len(batches')])
    BY <1>3
  <2> HIDE DEF Call
  <2>2. UNCHANGED <<cnt_, returned, fs_, flush_log, sink, cur_size_>>
        /\ pc' = "init" /\ Len(batches) < MaxBatches
    BY DEF Call
  <2>3. cnt_ \in Nat /\ MaxBatches \in Nat
    BY <1>1, RollAssumption DEF TypeOK
  <2> QED
    BY <1>1, <1>2, <1>3, <2>1, <2>2, <2>3 DEF CallInv
<1>8. OrderInv'
  BY <1>1 DEF OrderInv
<1> QED
  BY <1>6, <1>7, <1>8 DEF TypeInv

LEMMA KeepTypes ==
  ASSUME TypeInv, Keep
  PROVE  TypeInv'
<1> USE DEF Keep, confVars, fileVars, historyVars, faultVars
<1>1. TypeOK'
  BY DEF TypeInv, TypeOK
<1>2. CallInv'
  <2>1. cur_size_ \in Int /\ max_size \in Int
    BY RollAssumption DEF TypeInv, TypeOK
  <2> QED
    BY <2>1 DEF TypeInv, CallInv, Full
<1>3. OrderInv'
  BY DEF TypeInv, OrderInv
<1> QED
  BY <1>1, <1>2, <1>3 DEF TypeInv

(* What the two ways to open a file have in common.                          *)
LEMMA OpenTypes ==
  ASSUME TypeInv, NEW name \in Files, Open(name),
         cnt_' \in 1 .. MaxBatches + 1, pc' \in {"idle", "write"}
  PROVE  TypeOK'
<1>1. TypeOK /\ OrderInv
  BY DEF TypeInv
<1>2. /\ kernel' \in [Files -> Seq(Batch)]
      /\ \A f \in Files : synced[f] <= Len(kernel'[f])
      /\ failed' \subseteq 1 .. Len(order) /\ faults' \in 0 .. MaxFaults
  BY CloseMoves, OpenedFile
<1>3. /\ buf' = <<>> /\ <<>> \in Seq(Batch)
      /\ order' \in Seq([file : Files, from : Nat, at : Nat])
      /\ Len(order') = Len(order) + 1 /\ Len(order) \in Nat
  BY OpenedFile, EmptySeq
<1>8. failed' \subseteq 1 .. Len(order')
  BY <1>2, <1>3
<1>4. opens' \in [Files -> Nat]
  <2>1. opens \in [Files -> Nat] /\ opens' = [opens EXCEPT ![name] = opens[name] + 1]
    BY <1>1 DEF Open, TypeOK
  <2>2. opens[name] + 1 \in Nat
    BY <2>1
  <2> QED
    BY <2>1, <2>2
<1>5. cur_size_' \in 0 .. max_size - 1 + MaxLen
  BY RollAssumption DEF Open, SizeAfterOpen
<1>6. UNCHANGED <<sink, flush_log, synced, data, batches, returned, written, deaths, damaged>>
      /\ fs_' = name
  BY DEF Open, confVars
<1>7. buf' \in Seq(1 .. MaxBatches) /\ kernel' \in [Files -> Seq(1 .. MaxBatches)]
  BY <1>2, <1>3 DEF Batch
<1> HIDE DEF Open
<1> QED
  BY <1>1, <1>2, <1>3, <1>4, <1>5, <1>6, <1>7, <1>8 DEF TypeOK

LEMMA RollTypes ==
  ASSUME TypeInv, NEW stamp \in Stamps, Roll(stamp)
  PROVE  TypeInv'
<1> DEFINE name == [stamp |-> stamp, cnt |-> cnt_]
<1>1. TypeOK /\ CallInv /\ OrderInv
  BY DEF TypeInv
<1>2. /\ cnt_ \in 1 .. MaxBatches /\ Len(batches) \in Nat
      /\ cnt_ <= Len(batches) /\ MaxBatches \in Nat
  BY <1>1, LenProperties, RollAssumption DEF TypeOK, CallInv, Roll
<1>3. name \in Filenames /\ name.cnt = cnt_
  BY <1>2 DEF Filenames
<1>4. name \in Files
  BY <1>3, FilesFacts
<1>5. Open(name) /\ cnt_' = cnt_ + 1 /\ pc' = "write" /\ sink = "roll" /\ pc = "init"
  BY DEF Roll
<1> HIDE DEF name
<1>6. TypeOK'
  BY <1>2, <1>4, <1>5, OpenTypes
<1>7. UNCHANGED <<sink, flush_log, synced, data, batches, returned, written>>
      /\ cur_size_' = 0 /\ fs_' = name
  BY <1>5 DEF Open, confVars, SizeAfterOpen
<1>8. CallInv'
  <2>1. fs_' # None /\ 0 < max_size
    BY <1>4, <1>7, FilesFacts, RollAssumption
  <2> QED
    BY <1>1, <1>2, <1>5, <1>7, <2>1 DEF CallInv
<1>9. OrderInv'
  <2>1. /\ Len(order') = Len(order) + 1 /\ Len(order) \in Nat
        /\ \A i \in 1 .. Len(order) : order'[i] = order[i]
        /\ order'[Len(order) + 1] = [file |-> name, from |-> Len(kernel'[name]),
                                      at |-> Len(written)]
        /\ order' \in Seq([file : Files, from : Nat, at : Nat])
    BY <1>4, <1>5, OpenedFile
  <2>2. order'[Len(order')].file = name /\ order'[Len(order')].at = Len(written)
    BY <2>1
  <2>3. order' # <<>> /\ fs_' # None
    BY <1>4, <1>7, <2>1, FilesFacts, EmptySeq
  <2>4. order'[1].at = 0
    <3>1. CASE order = <<>>
      <4>1. Len(order) = 0 /\ Len(written) = 0
        BY <1>1, <3>1, EmptySeq DEF OrderInv
      <4> QED
        BY <2>1, <4>1
    <3>2. CASE order # <<>>
      <4>1. 1 \in 1 .. Len(order)
        BY <1>1, <3>2, EmptySeq DEF TypeOK
      <4> QED
        BY <1>1, <2>1, <3>2, <4>1 DEF OrderInv
    <3> QED
      BY <3>1, <3>2
  <2>5. cnt_ = Len(order) + 1 /\ cnt_' = Len(order') + 1
    BY <1>1, <1>2, <1>5, <2>1 DEF OrderInv
  <2>6. ASSUME NEW i \in 1 .. Len(order')
        PROVE  order'[i].file \in Filenames /\ order'[i].file.cnt = i
    <3>1. CASE i \in 1 .. Len(order)
      BY <1>1, <1>5, <2>1, <3>1 DEF OrderInv
    <3>2. CASE i = Len(order')
      BY <1>3, <2>1, <2>2, <2>5, <3>2
    <3> QED
      BY <2>1, <3>1, <3>2
  <2> QED
    BY <1>5, <1>7, <2>2, <2>3, <2>4, <2>5, <2>6 DEF OrderInv
<1> QED
  BY <1>6, <1>8, <1>9 DEF TypeInv

LEMMA ConstructTypes ==
  ASSUME TypeInv, Construct
  PROVE  TypeInv'
<1>1. TypeOK /\ CallInv /\ OrderInv
  BY DEF TypeInv
<1>2. /\ Open(filename_) /\ filename_ \in Files
      /\ sink = "file" /\ pc = "idle" /\ fs_ = None /\ UNCHANGED <<cnt_, pc>>
  BY FilesFacts DEF Construct
<1>3. TypeOK'
  <2>1. cnt_' \in 1 .. MaxBatches + 1 /\ pc' \in {"idle", "write"}
    BY <1>1, <1>2 DEF TypeOK
  <2> QED
    BY <1>2, <2>1, OpenTypes
<1>4. UNCHANGED <<sink, flush_log, synced, data, batches, returned, written>>
      /\ cur_size_' = 0 /\ fs_' = filename_
  BY <1>2 DEF Open, confVars, SizeAfterOpen
<1>5. CallInv'
  BY <1>1, <1>2, <1>4 DEF CallInv
<1>6. OrderInv'
  <2>1. /\ Len(order') = Len(order) + 1
        /\ order'[Len(order) + 1] = [file |-> filename_, from |-> Len(kernel'[filename_]),
                                      at |-> Len(written)]
        /\ order' \in Seq([file : Files, from : Nat, at : Nat])
    BY <1>2, OpenedFile
  <2>2. Len(order) = 0 /\ Len(written) = 0
    BY <1>1, <1>2, EmptySeq DEF OrderInv
  <2>4. Len(order') = 1 /\ order'[1].file = filename_ /\ order'[1].at = 0
    BY <2>1, <2>2
  <2>3. /\ Len(order') = 1 /\ order'[1].file = filename_ /\ order'[1].at = 0
        /\ order' # <<>> /\ fs_' # None
    <3>1. order' # <<>>
      BY <2>4, EmptySeq
    <3>2. fs_' # None
      BY <1>4, FilesFacts
    <3> QED
      BY <2>4, <3>1, <3>2
  <2> QED
    BY <1>2, <1>4, <2>3 DEF OrderInv
<1> QED
  BY <1>3, <1>5, <1>6 DEF TypeInv

(* The steps of Flush behind InitLogFile; what they move is Moved's.         *)
LEMMA WriteMoves ==
  ASSUME TypeInv, Write \/ WriteFails
  PROVE  Count /\ Moves(data) /\ data \in Seq(Batch)
<1>1. TypeOK /\ Count /\ fs_ # None /\ fs_' = fs_ /\ pc # "idle"
  BY DEF TypeInv, CallInv, Write, WriteFails, Count
<1>2. buf \in Seq(Batch) /\ data \in Seq(Batch)
  BY <1>1 DEF TypeOK, Batch
<1>3. CASE Write
  <2>1. /\ Len(buf \o data) = Len(buf) + Len(data) /\ buf \o data \in Seq(Batch)
        /\ Len(buf) \in Nat /\ Len(data) \in Nat
    BY <1>2, Joined, LenProperties
  <2>2. PICK n \in 0 .. Len(buf) + Len(data) :
          /\ kernel' = [kernel EXCEPT ![fs_] = @ \o SubSeq(buf \o data, 1, n)]
          /\ buf' = SubSeq(buf \o data, n + 1, Len(buf) + Len(data))
    BY <1>3 DEF Write
  <2>3. n \in 0 .. Len(buf \o data) /\ n \in Nat /\ Len(buf \o data) \in 0 .. Len(buf \o data)
    BY <2>1
  <2>4. buf' = After(buf \o data, n)
    BY <2>1, <2>2 DEF After
  <2>5. /\ buf' \in Seq(Batch)
        /\ Len(buf') = IF n <= Len(buf \o data) THEN Len(buf \o data) - n ELSE 0
    BY <2>1, <2>3, <2>4, Piece DEF After
  <2>6. Len(buf') <= Len(buf \o data) - n
    BY <2>1, <2>3, <2>5
  <2>7. /\ kernel' \in [Files -> Seq(Batch)] /\ Stream' = Stream \o data
        /\ \A f \in Files : f # fs_ => kernel'[f] = kernel[f]
        /\ \A f \in Files : Extends(kernel'[f], kernel[f])
        /\ \A f \in Files : synced[f] <= Len(kernel'[f])
    BY <1>1, <1>2, <2>2, <2>3, <2>4, <2>5, <2>6, Moved
  <2>8. UNCHANGED <<failed, damaged, faults>>
    BY <1>3 DEF Write, faultVars
  <2> QED
    BY <1>1, <1>2, <2>5, <2>7, <2>8 DEF Moves, TypeOK
<1>4. CASE WriteFails
  <2>1. Short(buf \o data)
    BY <1>4 DEF WriteFails
  <2> QED
    BY <1>1, <1>2, <2>1, ShortMoves
<1> QED
  BY <1>3, <1>4

LEMMA FFlushMoves ==
  ASSUME TypeInv, FFlush \/ FFlushFails
  PROVE  /\ FlushedBy("fflush") /\ synced' = synced
         /\ Moves(<<>>)
         /\ buf' = <<>> \/ Len(batches) \in damaged'
<1>1. TypeOK /\ OrderInv /\ FlushedBy("fflush") /\ synced' = synced
      /\ fs_ # None /\ fs_' = fs_ /\ pc # "idle"
  BY DEF TypeInv, CallInv, FFlush, FFlushFails, FlushedBy
<1>2. buf \in Seq(Batch) /\ Len(buf) \in Nat /\ <<>> \in Seq(Batch)
  BY <1>1, EmptySeq, StreamType
<1>3. CASE FFlush
  <2>1. buf' = <<>> /\ kernel' = [kernel EXCEPT ![fs_] = @ \o buf]
        /\ UNCHANGED <<failed, damaged, faults>>
    BY <1>3 DEF FFlush, Flushes, faultVars
  <2>6. SubSeq(buf, 1, Len(buf)) = buf
    BY <1>2, SubSeqFull
  <2>2. kernel' = Closed(Len(buf)) /\ Len(buf) \in 0 .. Len(buf)
    <3>1. Closed(Len(buf)) = [kernel EXCEPT ![fs_] = @ \o SubSeq(buf, 1, Len(buf))]
      BY <1>1 DEF Closed
    <3>2. Len(buf) \in 0 .. Len(buf)
      BY <1>2
    <3> QED
      BY <2>1, <2>6, <3>1, <3>2
  <2>3. Stream \in Seq(Batch) /\ fs_ \in Files
    BY <1>1, StreamType
  <2>4. Stream' = kernel'[fs_] \o <<>> /\ kernel'[fs_] = Stream
    BY <1>1, <2>1, <2>2, ClosedFiles DEF Stream
  <2>5. Stream' = Stream \o <<>>
    BY <2>4
  <2> QED
    BY <1>1, <1>2, <2>1, <2>2, <2>5, ClosedFiles DEF Moves, TypeOK
<1>4. CASE FFlushFails
  <2>1. Short(buf \o <<>>)
    <3>1. Short(buf) /\ buf \o <<>> = buf
      BY <1>2, <1>4, ConcatEmptySeq DEF FFlushFails
    <3> QED
      BY <3>1
  <2>2. Len(batches) \in damaged'
    BY <2>1 DEF Short
  <2> QED
    BY <1>1, <1>2, <2>1, <2>2, ShortMoves
<1> QED
  BY <1>3, <1>4

LEMMA WriteTypes ==
  ASSUME TypeInv, Write \/ WriteFails
  PROVE  TypeInv'
<1>1. TypeOK /\ CallInv /\ OrderInv
  BY DEF TypeInv
<1>2. /\ UNCHANGED <<sink, flush_log, fs_, cnt_, synced, data, batches, returned,
                     order, opens, deaths>>
      /\ pc = "write" /\ pc' = IF flush_log = 0 THEN "return" ELSE "fflush"
      /\ cur_size_' = IF sink = "roll" THEN cur_size_ + Len(data) ELSE 0
      /\ written' = written \o data
  BY WriteMoves DEF Count, confVars
<1>3. Len(data) \in 0 .. MaxLen
  <2> DEFINE n == Len(batches)
             len == batches[n]
  <2>1. batches \in Seq(Lens)
    BY <1>1 DEF TypeOK
  <2>2. n \in Nat /\ n > 0 /\ n <= MaxBatches /\ MaxBatches \in Nat
    BY <1>1, <1>2, <2>1, LenProperties, RollAssumption DEF CallInv
  <2>3. n \in Batch /\ n \in 1 .. Len(batches)
    BY <2>2 DEF Batch
  <2>4. len \in Lens
    BY <2>1, <2>3, ElementOfSeq
  <2>5. data = Bytes(n, len)
    BY <1>1, <1>2 DEF CallInv
  <2> HIDE DEF n, len
  <2>6. len \in 0 .. MaxLen /\ len \in Nat
    BY <2>4, RollAssumption
  <2>7. Len(Bytes(n, len)) = len
    BY <2>3, <2>6, BytesType
  <2> QED
    BY <2>5, <2>6, <2>7
<1>4. cur_size_' \in 0 .. max_size - 1 + MaxLen
  <2>1. cur_size_ \in Nat /\ (sink = "roll" => cur_size_ < max_size)
    BY <1>1, <1>2, RollAssumption DEF TypeOK, CallInv
  <2>2. max_size \in Nat \ {0} /\ MaxLen \in Nat
    BY RollAssumption
  <2>3. CASE sink = "roll"
    <3>1. cur_size_' = cur_size_ + Len(data)
      BY <1>2, <2>3
    <3> QED
      BY <1>3, <2>1, <2>2, <2>3, <3>1
  <2>4. CASE sink # "roll"
    <3>1. cur_size_' = 0
      BY <1>2, <2>4
    <3> QED
      BY <2>2, <3>1
  <2> QED
    BY <2>3, <2>4
<1>5. written' \in Seq(1 .. MaxBatches)
  BY <1>1, <1>2, Joined DEF TypeOK
<1>6. /\ buf' \in Seq(1 .. MaxBatches) /\ kernel' \in [Files -> Seq(1 .. MaxBatches)]
      /\ \A f \in Files : synced[f] <= Len(kernel'[f])
      /\ fs_ # None
      /\ failed' \subseteq 1 .. Len(order) /\ damaged' \subseteq 1 .. Len(batches)
      /\ faults' \in 0 .. MaxFaults
  BY WriteMoves DEF Batch, Moves
<1>7. TypeOK'
  BY <1>1, <1>2, <1>4, <1>5, <1>6 DEF TypeOK
<1>8. CallInv'
  BY <1>1, <1>2, <1>6 DEF CallInv
<1>9. OrderInv'
  BY <1>1, <1>2, <1>6 DEF OrderInv
<1> QED
  BY <1>7, <1>8, <1>9 DEF TypeInv

LEMMA FFlushTypes ==
  ASSUME TypeInv, FFlush \/ FFlushFails
  PROVE  TypeInv'
<1>1. TypeOK /\ CallInv /\ OrderInv
  BY DEF TypeInv
<1>2. /\ UNCHANGED <<sink, flush_log, fs_, cnt_, cur_size_, synced, data, batches,
                     returned, order, opens, written, deaths>>
      /\ pc' = IF flush_log = 2 THEN "fsync" ELSE "return"
      /\ pc = "fflush"
  BY FFlushMoves DEF FlushedBy, confVars
<1>3. /\ buf' \in Seq(1 .. MaxBatches) /\ kernel' \in [Files -> Seq(1 .. MaxBatches)]
      /\ \A f \in Files : synced[f] <= Len(kernel'[f])
      /\ fs_ # None
      /\ failed' \subseteq 1 .. Len(order) /\ damaged' \subseteq 1 .. Len(batches)
      /\ faults' \in 0 .. MaxFaults
  BY FFlushMoves DEF Batch, Moves
<1>4. TypeOK'
  BY <1>1, <1>2, <1>3 DEF TypeOK
<1>5. CallInv'
  BY <1>1, <1>2, <1>3 DEF CallInv
<1>6. OrderInv'
  BY <1>1, <1>2, <1>3 DEF OrderInv
<1> QED
  BY <1>4, <1>5, <1>6 DEF TypeInv

(* fsync, and what is known of its two ways to end.                          *)
LEMMA FSyncMoves ==
  ASSUME TypeInv, FSync \/ FSyncFails
  PROVE  /\ FlushedBy("fsync") /\ UNCHANGED <<buf, kernel>>
         /\ \/ synced' = [synced EXCEPT ![fs_] = Len(kernel[fs_])]
            \/ synced' = synced /\ Len(batches) \in damaged'
         /\ failed \subseteq failed' /\ failed' \subseteq 1 .. Len(order)
         /\ damaged \subseteq damaged' /\ damaged' \subseteq 1 .. Len(batches)
         /\ faults' \in 0 .. MaxFaults
<1>1. CASE FSync
  BY <1>1 DEF FSync, faultVars, TypeInv, TypeOK
<1>2. CASE FSyncFails
  <2>1. fs_ # None /\ pc # "idle"
    BY <1>2 DEF FSyncFails, FlushedBy, TypeInv, CallInv
  <2>2. Fault /\ damaged' = damaged \cup {Len(batches)}
    BY <1>2 DEF FSyncFails
  <2> QED
    BY <1>2, <2>1, <2>2, Fails, Damages DEF FSyncFails
<1> QED
  BY <1>1, <1>2

LEMMA FSyncTypes ==
  ASSUME TypeInv, FSync \/ FSyncFails
  PROVE  TypeInv'
<1>1. TypeOK /\ CallInv /\ OrderInv
  BY DEF TypeInv
<1>2. /\ UNCHANGED <<sink, flush_log, fs_, cnt_, cur_size_, buf, kernel, data, batches,
                     returned, order, opens, written, deaths>>
      /\ pc = "fsync" /\ pc' = "return"
      /\ \/ synced' = [synced EXCEPT ![fs_] = Len(kernel[fs_])]
         \/ synced' = synced
      /\ failed' \subseteq 1 .. Len(order) /\ damaged' \subseteq 1 .. Len(batches)
      /\ faults' \in 0 .. MaxFaults
  <2>1. FlushedBy("fsync")
    BY FSyncMoves
  <2>2. /\ UNCHANGED <<sink, flush_log, fs_, cnt_, cur_size_, data, batches,
                       returned, order, opens, written, deaths>>
        /\ pc = "fsync" /\ pc' = "return"
    BY <2>1 DEF FlushedBy, confVars
  <2> QED
    BY <2>2, FSyncMoves
<1>3. fs_ # None /\ fs_ \in Files /\ Len(kernel[fs_]) \in Nat
  <2>1. fs_ # None
    BY <1>1, <1>2 DEF CallInv
  <2> QED
    BY <1>1, <2>1, StreamType
<1>4. synced' \in [Files -> Nat] /\ \A f \in Files : synced'[f] <= Len(kernel'[f])
  <2>1. /\ synced \in [Files -> Nat] /\ \A f \in Files : synced[f] <= Len(kernel[f])
        /\ kernel' = kernel
    BY <1>1, <1>2 DEF TypeOK
  <2>2. CASE synced' = [synced EXCEPT ![fs_] = Len(kernel[fs_])]
    BY <1>3, <2>1, <2>2
  <2>3. CASE synced' = synced
    BY <2>1, <2>3
  <2> QED
    BY <1>2, <2>2, <2>3
<1>5. TypeOK'
  BY <1>1, <1>2, <1>4 DEF TypeOK
<1>6. CallInv'
  BY <1>1, <1>2, <1>3 DEF CallInv
<1>7. OrderInv'
  BY <1>1, <1>2 DEF OrderInv
<1> QED
  BY <1>5, <1>6, <1>7 DEF TypeInv

LEMMA ReturnTypes ==
  ASSUME TypeInv, Return
  PROVE  TypeInv'
<1>1. TypeOK /\ CallInv /\ OrderInv
  BY DEF TypeInv
<1>2. Len(batches) \in Batch /\ <<>> \in Seq(1 .. MaxBatches)
  <2>1. batches \in Seq(Lens) /\ pc = "return"
    BY <1>1 DEF TypeOK, Return
  <2>2. Len(batches) \in Nat /\ Len(batches) > 0 /\ Len(batches) <= MaxBatches
    BY <1>1, <2>1, LenProperties DEF CallInv
  <2>3. MaxBatches \in Nat
    BY RollAssumption
  <2> QED
    BY <2>2, <2>3, EmptySeq DEF Batch
<1>3. TypeOK'
  BY <1>1, <1>2 DEF TypeOK, Return, confVars, fileVars, Batch, faultVars
<1>4. CallInv'
  <2>1. UNCHANGED <<sink, flush_log, fs_, cnt_, cur_size_, batches>>
        /\ pc' = "idle" /\ returned' = returned \cup {Len(batches)}
    BY DEF Return, confVars, fileVars
  <2>2. Len(batches) \in 1 .. Len(batches)
    BY <1>2, RollAssumption DEF Batch
  <2> QED
    BY <1>1, <2>1, <2>2 DEF CallInv
<1>5. OrderInv'
  BY <1>1 DEF OrderInv, Return, confVars, fileVars
<1> QED
  BY <1>3, <1>4, <1>5 DEF TypeInv

(* Deaths of both kinds; the kernel has its type already.                    *)
LEMMA DeathTypes ==
  ASSUME TypeInv, Died,
         \/ deaths' = [deaths EXCEPT !.process = @ + 1]
         \/ deaths' = [deaths EXCEPT !.machine = @ + 1],
         kernel' \in [Files -> Seq(Batch)], synced' \in [Files -> Nat],
         \A f \in Files : synced'[f] <= Len(kernel'[f])
  PROVE  TypeInv'
<1>1. TypeOK /\ CallInv /\ OrderInv
  BY DEF TypeInv
<1>2. /\ <<>> \in Seq(1 .. MaxBatches) /\ Len(<<>>) = 0
      /\ <<>> \in Seq([file : Files, from : Nat, at : Nat])
  BY EmptySeq
<1>3. deaths' \in [process : 0 .. MaxCrashes, machine : 0 .. MaxCrashes]
  <2> DEFINE D == [process : 0 .. MaxCrashes, machine : 0 .. MaxCrashes]
             p == deaths.process
             m == deaths.machine
  <2>1. deaths \in D /\ MaxCrashes \in Nat
    BY <1>1, RollAssumption DEF TypeOK
  <2>2. p \in 0 .. MaxCrashes /\ m \in 0 .. MaxCrashes /\ p + m < MaxCrashes
    BY <2>1 DEF Died
  <2>3. p + 1 \in 0 .. MaxCrashes /\ m + 1 \in 0 .. MaxCrashes
    BY <2>1, <2>2
  <2> HIDE DEF p, m
  <2>4. \/ deaths' = [deaths EXCEPT !.process = p + 1]
        \/ deaths' = [deaths EXCEPT !.machine = m + 1]
    BY DEF p, m
  <2> QED
    BY <2>1, <2>3, <2>4
<1>4. Len(batches) \in Nat
  BY <1>1, LenProperties DEF TypeOK
<1>5. TypeOK'
  <2>1. 0 \in 0 .. max_size - 1 + MaxLen /\ 1 \in 1 .. MaxBatches + 1
    BY RollAssumption
  <2>2. UNCHANGED <<sink, flush_log, batches, returned, opens, damaged, faults>>
        /\ failed' = {} /\ fs_' = None /\ cnt_' = 1 /\ cur_size_' = 0 /\ buf' = <<>> /\ data' = <<>>
        /\ order' = <<>> /\ written' = <<>> /\ pc' = "idle"
    BY DEF Died, confVars
  <2>3. kernel' \in [Files -> Seq(1 .. MaxBatches)] /\ synced' \in [Files -> Nat]
        /\ \A f \in Files : synced'[f] <= Len(kernel'[f])
    BY DEF Batch
  <2> QED
    BY <1>1, <1>2, <1>3, <2>1, <2>2, <2>3 DEF TypeOK
<1>6. CallInv'
  <2>1. UNCHANGED <<sink, flush_log, batches, returned>>
        /\ cnt_' = 1 /\ cur_size_' = 0 /\ pc' = "idle"
    BY DEF Died, confVars
  <2> QED
    BY <1>1, <1>4, <2>1 DEF CallInv
<1>7. OrderInv'
  BY <1>2 DEF OrderInv, Died
<1> QED
  BY <1>5, <1>6, <1>7 DEF TypeInv

LEMMA NextTypes == TypeInv /\ [Next]_vars => TypeInv'
<1> SUFFICES ASSUME TypeInv, [Next]_vars PROVE TypeInv'
  OBVIOUS
<1>1. TypeOK /\ OrderInv
  BY DEF TypeInv
<1>2. CASE Construct
  BY <1>2, ConstructTypes
<1>3. CASE \E len \in Lens : Call(len)
  BY <1>3, CallTypes
<1>4. CASE Flush
  <2>1. CASE \E s \in Stamps : Roll(s)
    BY <2>1, RollTypes
  <2>2. CASE Write \/ WriteFails
    BY <2>2, WriteTypes
  <2>3. CASE FFlush \/ FFlushFails
    BY <2>3, FFlushTypes
  <2>4. CASE FSync \/ FSyncFails
    BY <2>4, FSyncTypes
  <2> QED
    BY <1>4, <2>1, <2>2, <2>3, <2>4, KeepTypes, ReturnTypes DEF Flush, InitLogFile
<1>5. CASE ProcessDies
  <2>1. kernel' = kernel /\ synced' = synced /\ Died
        /\ deaths' = [deaths EXCEPT !.process = @ + 1]
    BY <1>5 DEF ProcessDies
  <2>2. kernel' \in [Files -> Seq(Batch)] /\ synced' \in [Files -> Nat]
        /\ \A f \in Files : synced'[f] <= Len(kernel'[f])
    BY <1>1, <2>1 DEF TypeOK, Batch
  <2> QED
    BY <2>1, <2>2, DeathTypes
<1>6. CASE OpenFails
  <2>1. synced' = synced /\ Died
        /\ deaths' = [deaths EXCEPT !.process = @ + 1]
    BY <1>6 DEF OpenFails
  <2>3. PICK n \in 0 .. Len(buf) : kernel' = Closed(n)
    BY <1>6 DEF OpenFails
  <2>2. kernel' \in [Files -> Seq(Batch)] /\ synced' \in [Files -> Nat]
        /\ \A f \in Files : synced'[f] <= Len(kernel'[f])
    BY <1>1, <2>1, <2>3, ClosedFiles DEF TypeOK
  <2> QED
    BY <2>1, <2>2, DeathTypes
<1>7. CASE MachineDies
  <2>1. Died /\ deaths' = [deaths EXCEPT !.machine = @ + 1]
    BY <1>7 DEF MachineDies
  <2>2. kernel' \in [Files -> Seq(Batch)] /\ synced' \in [Files -> Nat]
        /\ \A f \in Files : synced'[f] <= Len(kernel'[f])
    BY <1>1, <1>7, Kept
  <2> QED
    BY <2>1, <2>2, DeathTypes
<1>8. CASE UNCHANGED vars
  BY <1>8 DEF vars, confVars, fileVars, historyVars, faultVars, TypeInv, TypeOK, CallInv,
              OrderInv
<1> QED
  BY <1>2, <1>3, <1>4, <1>5, <1>6, <1>7, <1>8 DEF Next

(* The types, and cur_size_ stays below one batch more than the limit: the   *)
(* test of LogFlush.hpp:104 comes before each write.                         *)
THEOREM TypesHold == Spec => []TypeOK
<1>1. Init => TypeInv
  BY InitTypes
<1>2. TypeInv /\ [Next]_vars => TypeInv'
  BY NextTypes
<1>3. TypeInv => TypeOK
  BY DEF TypeInv
<1> QED
  BY <1>1, <1>2, <1>3, PTL DEF Spec
-----------------------------------------------------------------------------
(* What is in which file                                                     *)

(* A file that was closed has got what was written while it was open; the    *)
(* open one and its stream together have got all that was written since.  Of *)
(* both, those are left out on which a call has failed.                      *)
ContentInv ==
  /\ \A i \in 1 .. Len(order) : order[i].from <= Len(kernel[order[i].file])
  /\ \A i \in 1 .. Len(order) - 1 :
       /\ order[i].at <= order[i + 1].at /\ order[i + 1].at <= Len(written)
       /\ i \notin failed => After(kernel[order[i].file], order[i].from)
                              = SubSeq(written, order[i].at + 1, order[i + 1].at)
  /\ fs_ # None =>
       /\ Last.at <= Len(written)
       /\ Len(order) \notin failed => After(Stream, Last.from) = After(written, Last.at)

LEMMA PieceOfJoined ==
  ASSUME NEW s \in Seq(Batch), NEW t \in Seq(Batch),
         NEW m \in Nat, NEW n \in 0 .. Len(s)
  PROVE  SubSeq(s \o t, m + 1, n) = SubSeq(s, m + 1, n)
<1>1. Len(s) \in Nat /\ Len(t) \in Nat
  BY LenProperties
<1>2. s \o t \in Seq(Batch) /\ Len(s \o t) = Len(s) + Len(t)
      /\ \A i \in 1 .. Len(s) : (s \o t)[i] = s[i]
  BY Joined
<1>3. n \in 0 .. Len(s \o t)
  BY <1>1, <1>2
<1>4. /\ SubSeq(s, m + 1, n) \in Seq(Batch)
      /\ Len(SubSeq(s, m + 1, n)) = IF m <= n THEN n - m ELSE 0
      /\ \A i \in 1 .. n - m : SubSeq(s, m + 1, n)[i] = s[m + i]
  BY Piece
<1>5. /\ SubSeq(s \o t, m + 1, n) \in Seq(Batch)
      /\ Len(SubSeq(s \o t, m + 1, n)) = IF m <= n THEN n - m ELSE 0
      /\ \A i \in 1 .. n - m : SubSeq(s \o t, m + 1, n)[i] = (s \o t)[m + i]
  BY <1>2, <1>3, Piece
<1>6. ASSUME NEW i \in 1 .. Len(SubSeq(s, m + 1, n))
      PROVE  SubSeq(s \o t, m + 1, n)[i] = SubSeq(s, m + 1, n)[i]
  <2>1. i \in 1 .. n - m /\ m + i \in 1 .. Len(s)
    BY <1>1, <1>4
  <2> QED
    BY <1>2, <1>4, <1>5, <2>1
<1>7. Len(SubSeq(s \o t, m + 1, n)) = Len(SubSeq(s, m + 1, n))
  BY <1>4, <1>5
<1>8. \A i \in 1 .. Len(SubSeq(s \o t, m + 1, n)) :
         SubSeq(s \o t, m + 1, n)[i] = SubSeq(s, m + 1, n)[i]
  BY <1>6, <1>7
<1> QED
  BY <1>4, <1>5, <1>7, <1>8, SeqEqual

(* fwrite with d its batch, fflush with d empty.                             *)
LEMMA ContentGrows ==
  ASSUME TypeInv, TypeInv', ContentInv, NEW d \in Seq(Batch), Moves(d),
         order' = order, written' = written \o d
  PROVE  ContentInv'
<1>1. TypeOK /\ TypeOK' /\ Last' = Last
  BY DEF TypeInv, Last
<1>0. /\ fs_ # None /\ fs_' = fs_ /\ failed \subseteq failed'
      /\ Len(order) \notin failed' => Stream' = Stream \o d
      /\ \A f \in Files : f # fs_ => kernel'[f] = kernel[f]
      /\ \A f \in Files : Extends(kernel'[f], kernel[f])
  BY DEF Moves
<1>2. /\ written \in Seq(Batch) /\ Len(written) \in Nat /\ Len(d) \in Nat
      /\ Len(written') = Len(written) + Len(d) /\ Len(order) \in Nat
      /\ \A i \in 1 .. Len(order) :
           order[i].file \in Files /\ order[i].from \in Nat /\ order[i].at \in Nat
  BY <1>1, OrderType, Joined, LenProperties
<1>3. \A f \in Files : Len(kernel[f]) \in Nat /\ Len(kernel'[f]) \in Nat
  <2>1. \A f \in Files : kernel[f] \in Seq(Batch) /\ kernel'[f] \in Seq(Batch)
    BY <1>1 DEF TypeOK, Batch
  <2> QED
    BY <2>1, LenProperties
<1>4. ASSUME NEW i \in 1 .. Len(order)
      PROVE  order[i].from <= Len(kernel'[order[i].file])
  <2> DEFINE f == order[i].file
             n == order[i].from
  <2>1. f \in Files /\ n \in Nat /\ n <= Len(kernel[f])
    BY <1>2 DEF ContentInv
  <2> HIDE DEF f, n
  <2>2. Len(kernel[f]) <= Len(kernel'[f])
    BY <1>0, <2>1 DEF Extends
  <2>3. n <= Len(kernel'[f])
    BY <1>3, <2>1, <2>2, Transitive, Zenon
  <2> QED
    BY <2>3 DEF f, n
<1>5. ASSUME NEW i \in 1 .. Len(order) - 1
      PROVE  /\ order[i].at <= order[i + 1].at /\ order[i + 1].at <= Len(written')
             /\ i \notin failed' => After(kernel'[order[i].file], order[i].from)
                                     = SubSeq(written', order[i].at + 1, order[i + 1].at)
  <2>1. i \in 1 .. Len(order) /\ i + 1 \in 1 .. Len(order)
    BY <1>2
  <2> DEFINE f == order[i].file
             m == order[i].at
             n == order[i + 1].at
  <2>2. f \in Files /\ m \in Nat /\ n \in Nat /\ f # fs_
    BY <1>0, <1>2, <2>1, OpenIsLast
  <2>3. /\ m <= n /\ n <= Len(written)
        /\ i \notin failed => After(kernel[f], order[i].from) = SubSeq(written, m + 1, n)
    BY DEF ContentInv
  <2>4. kernel'[f] = kernel[f] /\ (i \in failed => i \in failed')
    BY <1>0, <2>2
  <2> HIDE DEF f, m, n
  <2>5. n \in 0 .. Len(written) /\ n <= Len(written')
    BY <1>2, <2>2, <2>3
  <2>6. SubSeq(written', m + 1, n) = SubSeq(written, m + 1, n)
    BY <1>2, <2>2, <2>5, PieceOfJoined
  <2> QED
    BY <2>3, <2>4, <2>5, <2>6 DEF f, m, n
<1>6. /\ Last.at <= Len(written')
      /\ Len(order) \notin failed' => After(Stream', Last.from) = After(written', Last.at)
  <2> DEFINE n == Last.from
             m == Last.at
  <2>1. /\ n \in Nat /\ m \in Nat /\ m <= Len(written) /\ n <= Len(kernel[fs_])
        /\ Len(order) \notin failed' => After(Stream, n) = After(written, m)
    BY <1>0, OpenIsLast DEF ContentInv, Last
  <2>2. /\ Stream \in Seq(Batch) /\ Len(kernel[fs_]) \in Nat /\ Len(buf) \in Nat
        /\ Len(Stream) = Len(kernel[fs_]) + Len(buf)
    BY <1>0, <1>1, StreamType
  <2> HIDE DEF n, m
  <2>3. n \in 0 .. Len(Stream) /\ m \in 0 .. Len(written) /\ m <= Len(written')
    BY <1>2, <2>1, <2>2
  <2>4. After(Stream \o d, n) = After(Stream, n) \o d
    BY <2>2, <2>3, AfterJoined
  <2>5. After(written \o d, m) = After(written, m) \o d
    BY <1>2, <2>3, AfterJoined
  <2> QED
    BY <1>0, <2>1, <2>3, <2>4, <2>5 DEF n, m
<1> QED
  BY <1>0, <1>1, <1>4, <1>5, <1>6 DEF ContentInv

(* InitLogFile and the constructor of FileFlush.                             *)
LEMMA ContentOpens ==
  ASSUME TypeInv, TypeInv', ContentInv, NEW name \in Files, Open(name)
  PROVE  ContentInv'
<1> DEFINE L == Len(order)
           new == [file |-> name, from |-> Len(kernel'[name]), at |-> Len(written)]
<1>1. TypeOK /\ TypeOK' /\ OrderInv
  BY DEF TypeInv
<1>2. /\ Close /\ Stream' = kernel'[name] /\ fs_' = name /\ fs_' # None
      /\ Len(order') = L + 1 /\ L \in Nat
      /\ \A i \in 1 .. L : order'[i] = order[i]
      /\ order'[L + 1] = new
  BY <1>1, OpenedFile, FilesFacts
<1>3. written' = written
  BY DEF Open
<1>4. /\ kernel' \in [Files -> Seq(Batch)]
      /\ fs_ # None /\ L \notin failed' => kernel'[fs_] = Stream
      /\ \A f \in Files : f # fs_ => kernel'[f] = kernel[f]
      /\ \A f \in Files : Extends(kernel'[f], kernel[f])
      /\ failed \subseteq failed'
  BY <1>2, CloseMoves
<1>5. /\ written \in Seq(Batch) /\ Len(written) \in Nat
      /\ \A i \in 1 .. L :
           order[i].file \in Files /\ order[i].from \in Nat /\ order[i].at \in Nat
  BY <1>1, OrderType
<1>6. \A f \in Files : Len(kernel[f]) \in Nat /\ Len(kernel'[f]) \in Nat
  <2>1. \A f \in Files : kernel[f] \in Seq(Batch) /\ kernel'[f] \in Seq(Batch)
    BY <1>1, <1>4 DEF TypeOK, Batch
  <2> QED
    BY <2>1, LenProperties
<1>7. new.file = name /\ new.from = Len(kernel'[name]) /\ new.at = Len(written)
  OBVIOUS
<1>8. Last' = new
  BY <1>2 DEF Last
<1> HIDE DEF new, L
<1>9. ASSUME NEW i \in 1 .. Len(order')
      PROVE  order'[i].from <= Len(kernel'[order'[i].file])
  <2>1. CASE i \in 1 .. L
    <3> DEFINE f == order[i].file
               n == order[i].from
    <3>1. f \in Files /\ n \in Nat /\ n <= Len(kernel[f])
      BY <1>5, <2>1 DEF ContentInv, L
    <3>2. order'[i].from = n /\ order'[i].file = f
      BY <1>2, <2>1
    <3> HIDE DEF f, n
    <3>3. Len(kernel[f]) <= Len(kernel'[f])
      BY <1>4, <3>1 DEF Extends
    <3>4. n <= Len(kernel'[f])
      BY <1>6, <3>1, <3>3, Transitive, Zenon
    <3> QED
      BY <3>2, <3>4
  <2>2. CASE i = L + 1
    <3>1. order'[i].from = Len(kernel'[name]) /\ order'[i].file = name
      BY <1>2, <1>7, <2>2
    <3> QED
      BY <1>6, <3>1
  <2> QED
    BY <1>2, <2>1, <2>2
<1>10. ASSUME NEW i \in 1 .. Len(order') - 1
       PROVE  /\ order'[i].at <= order'[i + 1].at /\ order'[i + 1].at <= Len(written')
              /\ i \notin failed' =>
                   After(kernel'[order'[i].file], order'[i].from)
                     = SubSeq(written', order'[i].at + 1, order'[i + 1].at)
  <2> DEFINE f == order[i].file
             m == order[i].at
             n == order[i].from
  <2>1. i \in 1 .. L /\ order'[i] = order[i]
    BY <1>2
  <2>2. f \in Files /\ m \in Nat /\ n \in Nat
    BY <1>5, <2>1
  <2>3. fs_ # None
    BY <1>1, <1>2, <2>1, EmptySeq DEF OrderInv, L
  <2>4. CASE i = L
    <3>1. /\ f = fs_ /\ m <= Len(written)
          /\ i \notin failed' => After(Stream, n) = After(written, m)
      BY <1>4, <2>3, <2>4, OpenIsLast DEF ContentInv, Last, L
    <3>2. order'[i + 1].at = Len(written)
      BY <1>2, <1>7, <2>4
    <3>3. i \notin failed' => kernel'[f] = Stream
      BY <1>4, <2>3, <2>4, <3>1
    <3> HIDE DEF f, m, n
    <3>4. i \notin failed' => After(kernel'[f], n) = SubSeq(written, m + 1, Len(written))
      BY <3>1, <3>3 DEF After
    <3> QED
      BY <1>3, <1>5, <2>1, <3>1, <3>2, <3>4 DEF f, m, n
  <2>5. CASE i # L
    <3> DEFINE next == order[i + 1].at
    <3>1. i \in 1 .. Len(order) - 1 /\ i + 1 \in 1 .. L
      BY <1>2, <2>1, <2>5 DEF L
    <3>2. /\ m <= next /\ next <= Len(written)
          /\ i \notin failed' => After(kernel[f], n) = SubSeq(written, m + 1, next)
      BY <1>4, <3>1 DEF ContentInv
    <3>3. f # fs_
      BY <2>3, <3>1, OpenIsLast
    <3>4. kernel'[f] = kernel[f] /\ order'[i + 1].at = next
      BY <1>2, <1>4, <2>2, <3>1, <3>3
    <3> HIDE DEF f, m, n, next
    <3> QED
      BY <1>3, <2>1, <3>2, <3>4 DEF f, m, n
  <2> QED
    BY <2>4, <2>5
<1>11. Last'.at <= Len(written') /\ After(Stream', Last'.from) = After(written', Last'.at)
  <2>1. /\ Last'.at = Len(written) /\ Last'.from = Len(kernel'[name])
        /\ kernel'[name] \in Seq(Batch) /\ Len(kernel'[name]) \in Nat
    BY <1>4, <1>6, <1>7, <1>8
  <2>2. After(kernel'[name], Len(kernel'[name])) = <<>> /\ After(written, Len(written)) = <<>>
    BY <1>5, <2>1, SubSeqEmpty DEF After
  <2> QED
    BY <1>2, <1>3, <1>5, <2>1, <2>2
<1> QED
  BY <1>9, <1>10, <1>11 DEF ContentInv

LEMMA ContentSame ==
  ASSUME ContentInv, UNCHANGED <<kernel, buf, fs_, order, written>>, failed \subseteq failed'
  PROVE  ContentInv'
BY DEF ContentInv, Last, Stream

LEMMA ContentDies ==
  ASSUME Died
  PROVE  ContentInv'
<1>1. order' = <<>> /\ fs_' = None /\ Len(<<>>) = 0
  BY EmptySeq DEF Died
<1> QED
  BY <1>1 DEF ContentInv

LEMMA InitContent == Init => ContentInv
<1> SUFFICES ASSUME Init PROVE ContentInv
  OBVIOUS
<1>1. order = <<>> /\ fs_ = None /\ Len(<<>>) = 0
  BY EmptySeq DEF Init
<1> QED
  BY <1>1 DEF ContentInv

LEMMA NextContent == TypeInv /\ ContentInv /\ [Next]_vars => ContentInv'
<1> SUFFICES ASSUME TypeInv, ContentInv, [Next]_vars PROVE ContentInv'
  OBVIOUS
<1>1. TypeInv' /\ TypeOK
  BY NextTypes DEF TypeInv
<1>2. CASE Construct
  BY <1>1, <1>2, ContentOpens, FilesFacts DEF Construct
<1>3. CASE \E len \in Lens : Call(len)
  BY <1>3, ContentSame DEF Call, fileVars, faultVars
<1>4. CASE Keep \/ Return
  BY <1>4, ContentSame DEF Keep, Return, fileVars, historyVars, faultVars
<1>10. CASE FSync \/ FSyncFails
  BY <1>10, FSyncMoves, ContentSame DEF FlushedBy
<1>5. CASE \E s \in Stamps : Roll(s)
  <2>1. PICK s \in Stamps : Roll(s)
    BY <1>5
  <2>2. Open(fs_') /\ fs_' = [stamp |-> s, cnt |-> cnt_]
    BY <2>1 DEF Roll, Open
  <2>3. fs_' \in Files
    BY <1>1, <2>2, FilesFacts, EmptySeq DEF TypeInv, TypeOK, Open
  <2> QED
    BY <1>1, <2>2, <2>3, ContentOpens
<1>6. CASE Write \/ WriteFails
  <2>1. order' = order /\ written' = written \o data
    BY <1>6, WriteMoves DEF Count
  <2> QED
    BY <1>1, <1>6, <2>1, WriteMoves, ContentGrows
<1>7. CASE FFlush \/ FFlushFails
  <2>1. order' = order /\ written' = written
    BY <1>7, FFlushMoves DEF FlushedBy
  <2>2. written \in Seq(Batch) /\ <<>> \in Seq(Batch)
    BY <1>1, OrderType, EmptySeq
  <2>3. written' = written \o <<>>
    BY <2>1, <2>2, ConcatEmptySeq
  <2> QED
    BY <1>1, <1>7, <2>1, <2>2, <2>3, FFlushMoves, ContentGrows
<1>8. CASE ProcessDies \/ OpenFails \/ MachineDies
  BY <1>8, ContentDies DEF ProcessDies, OpenFails, MachineDies
<1>9. CASE UNCHANGED vars
  BY <1>9, ContentSame DEF vars, fileVars, historyVars, faultVars
<1> QED
  BY <1>2, <1>3, <1>4, <1>5, <1>6, <1>7, <1>8, <1>9, <1>10 DEF Next, Flush, InitLogFile

LEMMA BatchPiece ==
  \A s \in Seq(Batch), m \in Nat : \A n \in 0 .. Len(s) :
    /\ SubSeq(s, m + 1, n) \in Seq(Batch)
    /\ Len(SubSeq(s, m + 1, n)) = IF m <= n THEN n - m ELSE 0
    /\ \A i \in 1 .. n - m : SubSeq(s, m + 1, n)[i] = s[m + i]
  BY Piece

LEMMA BatchAfter ==
  \A s \in Seq(Batch), t \in Seq(Batch) : \A n \in 0 .. Len(s) :
    After(s \o t, n) = After(s, n) \o t /\ After(s, n) \in Seq(Batch)
  BY AfterJoined, Cut

LEMMA Parts ==
  ASSUME NEW a \in Seq(Batch), NEW b \in Seq(Batch), NEW w \in Seq(Batch),
         NEW n \in 0 .. Len(w), After(w, n) = a \o b
  PROVE  /\ a = SubSeq(w, n + 1, Len(w) - Len(b))
         /\ b = SubSeq(w, Len(w) - Len(b) + 1, Len(w))
<1> DEFINE k == Len(w) - Len(b)
<1>1. Len(a) \in Nat /\ Len(b) \in Nat /\ Len(w) \in Nat
  BY LenProperties
<1>2. /\ Len(a \o b) = Len(a) + Len(b)
      /\ \A i \in 1 .. Len(a) : (a \o b)[i] = a[i]
      /\ \A i \in 1 .. Len(b) : (a \o b)[Len(a) + i] = b[i]
  BY Joined
<1>3. /\ Len(a \o b) = Len(w) - n
      /\ \A i \in 1 .. Len(w) - n : (a \o b)[i] = w[n + i]
  <2>1. /\ Len(After(w, n)) = Len(w) - n
        /\ \A i \in 1 .. Len(w) - n : After(w, n)[i] = w[n + i]
    BY <1>1, Piece DEF After
  <2> QED
    BY <2>1
<1>4. /\ k \in 0 .. Len(w) /\ n <= k /\ n \in Nat /\ k \in Nat
      /\ k - n = Len(a) /\ Len(w) - k = Len(b) /\ n + Len(a) = k
  BY <1>1, <1>2, <1>3
<1> HIDE DEF k
<1>5. a = SubSeq(w, n + 1, k)
  <2>1. /\ SubSeq(w, n + 1, k) \in Seq(Batch)
        /\ Len(SubSeq(w, n + 1, k)) = IF n <= k THEN k - n ELSE 0
        /\ \A i \in 1 .. k - n : SubSeq(w, n + 1, k)[i] = w[n + i]
    BY <1>4, BatchPiece, Zenon
  <2>2. ASSUME NEW i \in 1 .. Len(a) PROVE a[i] = SubSeq(w, n + 1, k)[i]
    <3>1. i \in 1 .. Len(w) - n
      BY <1>1, <1>2, <1>3
    <3> QED
      BY <1>2, <1>3, <1>4, <2>1, <3>1
  <2>3. Len(SubSeq(w, n + 1, k)) = Len(a)
    BY <1>4, <2>1
  <2> QED
    BY <2>1, <2>2, <2>3, SeqEqual
<1>6. b = SubSeq(w, k + 1, Len(w))
  <2>1. Len(w) \in 0 .. Len(w)
    BY <1>1
  <2>2. /\ SubSeq(w, k + 1, Len(w)) \in Seq(Batch)
        /\ Len(SubSeq(w, k + 1, Len(w))) = IF k <= Len(w) THEN Len(w) - k ELSE 0
        /\ \A i \in 1 .. Len(w) - k : SubSeq(w, k + 1, Len(w))[i] = w[k + i]
    BY <1>4, <2>1, BatchPiece, Zenon
  <2>3. Len(SubSeq(w, k + 1, Len(w))) = Len(b)
    BY <1>1, <1>4, <2>2
  <2>4. ASSUME NEW i \in 1 .. Len(b) PROVE b[i] = SubSeq(w, k + 1, Len(w))[i]
    <3>1. Len(a) + i \in 1 .. Len(w) - n /\ n + (Len(a) + i) = k + i
      BY <1>1, <1>2, <1>3, <1>4
    <3>2. (a \o b)[Len(a) + i] = w[n + (Len(a) + i)]
      BY <1>3, <3>1
    <3> QED
      BY <1>2, <1>4, <2>2, <3>1, <3>2
  <2> QED
    BY <2>2, <2>3, <2>4, SeqEqual
<1> QED
  BY <1>5, <1>6 DEF k

LEMMA ContentKept == TypeInv /\ ContentInv => RollKeepsEverything
<1> SUFFICES ASSUME TypeInv, ContentInv PROVE RollKeepsEverything
  OBVIOUS
<1>1. TypeOK /\ OrderInv
  BY DEF TypeInv
<1>2. /\ written \in Seq(Batch) /\ Len(written) \in Nat /\ Len(order) \in Nat
  BY <1>1, OrderType
<1>3. CASE fs_ = None
  <2>1. order = <<>> /\ buf = <<>> /\ written = <<>>
    BY <1>1, <1>3 DEF OrderInv
  <2>2. Len(<<>>) = 0 /\ SubSeq(<<>>, 0 - 0 + 1, 0) = <<>>
    BY EmptySeq, SubSeqEmpty
  <2> QED
    BY <2>1, <2>2 DEF RollKeepsEverything
<1>4. CASE fs_ # None
  <2> DEFINE k == kernel[fs_]
             m == Last.from
             n == Last.at
  <2>1. /\ k \in Seq(Batch) /\ buf \in Seq(Batch) /\ Len(k) \in Nat /\ Len(buf) \in Nat
        /\ Stream = k \o buf
    BY <1>1, <1>4, StreamType DEF Stream
  <2>2. /\ n \in 0 .. Len(written) /\ m \in 0 .. Len(k)
        /\ Len(order) \notin failed => After(Stream, m) = After(written, n)
        /\ Len(order) \in 1 .. Len(order) /\ Last.file = fs_
    <3>1. /\ Len(order) \in 1 .. Len(order)
          /\ Last.file = fs_ /\ Last.from \in Nat /\ Last.at \in Nat
      BY <1>4, OpenIsLast
    <3>2. /\ Last.at <= Len(written)
          /\ Len(order) \notin failed => After(Stream, m) = After(written, n)
      BY <1>4 DEF ContentInv
    <3>3. order[Len(order)].from <= Len(kernel[order[Len(order)].file])
      BY <3>1 DEF ContentInv
    <3>4. Last.from <= Len(k)
      BY <3>1, <3>3 DEF Last
    <3> QED
      BY <1>2, <2>1, <3>1, <3>2, <3>4
  <2> HIDE DEF k, m, n
  <2>4. ASSUME Len(order) \notin failed
        PROVE  /\ After(k, m) = SubSeq(written, n + 1, Len(written) - Len(buf))
               /\ buf = SubSeq(written, Len(written) - Len(buf) + 1, Len(written))
    <3>1. After(written, n) = After(k, m) \o buf /\ After(k, m) \in Seq(Batch)
      BY <2>1, <2>2, <2>4, BatchAfter, Zenon
    <3> QED
      BY <1>2, <2>1, <2>2, <3>1, Parts
  <2>5. ASSUME NEW i \in 1 .. Len(order) \ failed
        PROVE  SubSeq(kernel[order[i].file], order[i].from + 1, Len(kernel[order[i].file]))
                 = SubSeq(written, order[i].at + 1, Until(i))
    <3>1. CASE i = Len(order)
      <4>1. Until(i) = Len(written) - Len(buf)
        BY <1>2, <3>1 DEF Until
      <4>2. /\ order[i].file = fs_ /\ order[i].from = m /\ order[i].at = n
            /\ kernel[fs_] = k
        BY <2>2, <3>1 DEF Last, k, m, n
      <4>3. After(k, m) = SubSeq(written, n + 1, Len(written) - Len(buf))
        BY <2>4, <3>1
      <4> QED
        BY <4>1, <4>2, <4>3 DEF After
    <3>2. CASE i < Len(order)
      <4>1. i \in 1 .. Len(order) - 1
        BY <1>2, <3>2
      <4>2. After(kernel[order[i].file], order[i].from)
              = SubSeq(written, order[i].at + 1, order[i + 1].at)
        BY <4>1 DEF ContentInv
      <4>3. Until(i) = order[i + 1].at
        BY <3>2 DEF Until
      <4> QED
        BY <4>2, <4>3 DEF After
    <3>3. i = Len(order) \/ i < Len(order)
      BY <1>2
    <3> QED
      BY <3>1, <3>2, <3>3
  <2>6. order # <<>> => order[1].at = 0
    BY <1>1 DEF OrderInv
  <2> QED
    BY <2>4, <2>5, <2>6 DEF RollKeepsEverything
<1> QED
  BY <1>3, <1>4

(* No roll loses, repeats or reorders a byte, unless a call on the file it    *)
(* leaves has failed (LogFlush.hpp:103-135).                                 *)
THEOREM RollLosesNothing == Spec => []RollKeepsEverything
<1>1. Init => TypeInv /\ ContentInv
  BY InitTypes, InitContent
<1>2. TypeInv /\ ContentInv /\ [Next]_vars => TypeInv' /\ ContentInv'
  BY NextTypes, NextContent
<1> QED
  BY <1>1, <1>2, ContentKept, PTL DEF Spec

-----------------------------------------------------------------------------
(* How long the files get                                                    *)

(* What n times of being the open file can put into a file.                  *)
Room(n) == n * (max_size - 1 + MaxLen)

(* cur_size_ is what this opening has put into the file, or more when a call *)
(* has failed; all but cur_size_ of it came from earlier openings.           *)
SizeInv ==
  sink = "roll" =>
    /\ \A i \in (1 .. Len(order) - 1) \ failed :
         Len(kernel[order[i].file]) - order[i].from >= max_size
    /\ fs_ # None => /\ Len(order) \notin failed => Len(Stream) = Last.from + cur_size_
                     /\ Len(Stream) + Room(1) <= Room(opens[fs_]) + cur_size_
    /\ \A f \in Files : f # fs_ => Len(kernel[f]) <= Room(opens[f])

LEMMA RoomGrows ==
  /\ Room(0) = 0 /\ Room(1) \in Nat /\ Room(1) = max_size - 1 + MaxLen
  /\ \A n \in Nat : Room(n) \in Nat /\ Room(n + 1) = Room(n) + Room(1)
<1> DEFINE K == max_size - 1 + MaxLen
<1>1. K \in Nat
  BY RollAssumption
<1> HIDE DEF K
<1>2. \A n : Room(n) = n * K
  BY DEF Room, K
<1>3. 0 * K = 0 /\ 1 * K = K
  BY <1>1
<1>4. ASSUME NEW n \in Nat PROVE n * K \in Nat /\ (n + 1) * K = n * K + K
  BY <1>1
<1>5. Room(1) = K
  BY <1>2, <1>3
<1> QED
  BY <1>1, <1>2, <1>3, <1>4, <1>5 DEF K

LEMMA SizeTypes ==
  ASSUME TypeOK
  PROVE  /\ \A f \in Files : /\ Len(kernel[f]) \in Nat /\ opens[f] \in Nat
                              /\ Room(opens[f]) \in Nat
         /\ cur_size_ \in 0 .. Room(1) /\ max_size \in Nat
<1>1. \A f \in Files : kernel[f] \in Seq(Batch) /\ opens[f] \in Nat
  BY DEF TypeOK, Batch
<1>2. cur_size_ \in 0 .. Room(1)
  BY RoomGrows DEF TypeOK
<1> QED
  BY <1>1, <1>2, RoomGrows, LenProperties, RollAssumption

LEMMA SizeOfKernel ==
  ASSUME TypeOK
  PROVE  \A f \in Files : /\ Len(kernel[f]) \in Nat /\ SizeOf(f) \in Nat
                           /\ Len(kernel[f]) <= SizeOf(f)
<1>1. ASSUME NEW f \in Files
      PROVE  Len(kernel[f]) \in Nat /\ SizeOf(f) \in Nat /\ Len(kernel[f]) <= SizeOf(f)
  <2>1. Len(kernel[f]) \in Nat
    BY SizeTypes
  <2>2. Len(buf) \in Nat
    BY LenProperties DEF TypeOK
  <2>3. CASE f = fs_
    <3>1. SizeOf(f) = Len(kernel[f]) + Len(buf)
      BY <2>3 DEF SizeOf
    <3> QED
      BY <2>1, <2>2, <3>1
  <2>4. CASE f # fs_
    <3>1. SizeOf(f) = Len(kernel[f]) + 0
      BY <2>4 DEF SizeOf
    <3> QED
      BY <2>1, <3>1
  <2> QED
    BY <2>3, <2>4
<1> QED
  BY <1>1

(* No file is longer than its openings allow.                                *)
LEMMA SizeBound ==
  ASSUME TypeInv, SizeInv, sink = "roll", NEW f \in Files
  PROVE  SizeOf(f) \in Nat /\ Len(kernel[f]) <= SizeOf(f) /\ SizeOf(f) <= Room(opens[f])
<1>1. TypeOK
  BY DEF TypeInv
<1>3. CASE f = fs_
  <2>1. fs_ # None
    BY <1>3, FilesFacts
  <2>2. /\ Len(Stream) = Len(kernel[fs_]) + Len(buf)
        /\ Len(kernel[fs_]) \in Nat /\ Len(buf) \in Nat
    BY <1>1, <2>1, StreamType
  <2>3. Len(Stream) + Room(1) <= Room(opens[fs_]) + cur_size_
    BY <2>1 DEF SizeInv
  <2>4. Room(opens[fs_]) \in Nat /\ cur_size_ \in 0 .. Room(1) /\ Room(1) \in Nat
    BY <1>1, <1>3, SizeTypes, RoomGrows
  <2>5. SizeOf(f) = Len(Stream)
    BY <1>3, <2>2 DEF SizeOf
  <2> QED
    BY <1>3, <2>2, <2>3, <2>4, <2>5
<1>4. CASE f # fs_
  <2>1. Len(kernel[f]) \in Nat /\ Len(kernel[f]) <= Room(opens[f])
    BY <1>1, <1>4, SizeTypes DEF SizeInv
  <2>2. SizeOf(f) = Len(kernel[f])
    BY <1>4, <2>1 DEF SizeOf
  <2> QED
    BY <1>4, <2>1, <2>2
<1> QED
  BY <1>3, <1>4

LEMMA SizeKept == TypeInv /\ SizeInv => RollsAtTheLimit
<1> SUFFICES ASSUME TypeInv, SizeInv, sink = "roll"
             PROVE  /\ \A i \in (1 .. Len(order) - 1) \ failed :
                         Len(kernel[order[i].file]) - order[i].from >= max_size
                    /\ \A f \in Files : SizeOf(f) <= opens[f] * (max_size - 1 + MaxLen)
  BY DEF RollsAtTheLimit
<1>1. \A f \in Files : SizeOf(f) <= Room(opens[f])
  BY SizeBound
<1>2. \A i \in (1 .. Len(order) - 1) \ failed :
         Len(kernel[order[i].file]) - order[i].from >= max_size
  BY DEF SizeInv
<1> QED
  BY <1>1, <1>2 DEF Room

LEMMA Sum == \A b, c, l \in Nat : (l + c) + b = l + (c + b)
  OBVIOUS

LEMMA SumBound ==
  \A a, b, c, r, e, x \in Nat : a + r <= e + c /\ x <= a + b => x + r <= e + (c + b)
  OBVIOUS

LEMMA SizeGrows ==
  ASSUME TypeInv, SizeInv, NEW d \in Seq(Batch), Moves(d),
         UNCHANGED <<sink, order, opens>>,
         sink = "roll" => cur_size_' = cur_size_ + Len(d)
  PROVE  SizeInv'
<1>0. /\ fs_ # None /\ fs_' = fs_ /\ failed \subseteq failed'
      /\ \/ Stream' = Stream \o d
         \/ Len(Stream') <= Len(Stream) + Len(d) /\ Len(order) \in failed'
      /\ kernel' \in [Files -> Seq(Batch)] /\ buf' \in Seq(Batch)
      /\ \A f \in Files : f # fs_ => kernel'[f] = kernel[f]
  BY DEF Moves
<1> SUFFICES ASSUME sink = "roll"
             PROVE  /\ \A i \in (1 .. Len(order) - 1) \ failed' :
                         Len(kernel'[order[i].file]) - order[i].from >= max_size
                    /\ /\ Len(order) \notin failed' => Len(Stream') = Last.from + cur_size_'
                       /\ Len(Stream') + Room(1) <= Room(opens[fs_]) + cur_size_'
                    /\ \A f \in Files : f # fs_ => Len(kernel'[f]) <= Room(opens[f])
  BY <1>0 DEF SizeInv, Last
<1>1. TypeOK
  BY DEF TypeInv
<1>2. ASSUME NEW i \in (1 .. Len(order) - 1) \ failed'
      PROVE  Len(kernel'[order[i].file]) - order[i].from >= max_size
  <2>1. order[i].file # fs_ /\ order[i].file \in Files
    BY <1>0, <1>1, OpenIsLast, OrderType
  <2>2. kernel'[order[i].file] = kernel[order[i].file]
    BY <1>0, <2>1
  <2>3. Len(kernel[order[i].file]) - order[i].from >= max_size
    BY <1>0 DEF SizeInv
  <2> QED
    BY <2>2, <2>3
<1>3. /\ Len(order) \notin failed' => Len(Stream') = Last.from + cur_size_'
      /\ Len(Stream') + Room(1) <= Room(opens[fs_]) + cur_size_'
  <2>1. Stream \in Seq(Batch) /\ fs_ \in Files
    BY <1>0, <1>1, StreamType
  <2>2. /\ Len(Stream \o d) = Len(Stream) + Len(d) /\ Len(d) \in Nat /\ Len(Stream) \in Nat
    BY <2>1, Joined, LenProperties
  <2>7. Len(Stream') \in Nat
    <3>1. kernel'[fs_] \in Seq(Batch) /\ Stream' = kernel'[fs_] \o buf'
      BY <1>0, <2>1 DEF Stream
    <3> QED
      BY <1>0, <3>1, Joined, LenProperties
  <2>8. Len(Stream') <= Len(Stream) + Len(d)
    BY <1>0, <2>2
  <2>3. Last.from \in Nat /\ Room(opens[fs_]) \in Nat /\ cur_size_ \in Nat /\ Room(1) \in Nat
    BY <1>0, <1>1, <2>1, OpenIsLast, SizeTypes, RoomGrows
  <2>4. /\ Len(order) \notin failed' => Len(Stream) = Last.from + cur_size_
        /\ Len(Stream) + Room(1) <= Room(opens[fs_]) + cur_size_
    BY <1>0 DEF SizeInv
  <2>5. cur_size_' = cur_size_ + Len(d)
    OBVIOUS
  <2>6. Len(Stream') + Room(1) <= Room(opens[fs_]) + (cur_size_ + Len(d))
    BY <2>2, <2>3, <2>4, <2>7, <2>8, SumBound, Zenon
  <2>9. ASSUME Len(order) \notin failed' PROVE Len(Stream') = Last.from + cur_size_'
    <3>1. Len(Stream') = Len(Stream) + Len(d)
      BY <1>0, <2>2, <2>9
    <3>2. Len(Stream) + Len(d) = Last.from + (cur_size_ + Len(d))
      <4>1. (Last.from + cur_size_) + Len(d) = Last.from + (cur_size_ + Len(d))
        BY <2>2, <2>3, Sum, Zenon
      <4> QED
        BY <2>4, <2>9, <4>1, Zenon
    <3> QED
      BY <2>5, <3>1, <3>2, Zenon
  <2> QED
    BY <2>5, <2>6, <2>9, Zenon
<1>4. \A f \in Files : f # fs_ => Len(kernel'[f]) <= Room(opens[f])
  BY <1>0 DEF SizeInv
<1> QED
  BY <1>2, <1>3, <1>4

(* A file is left when it is full, or is taken to be.                        *)
LEMMA SizeOpens ==
  ASSUME TypeInv, SizeInv, NEW name \in Files, Open(name), sink = "roll",
         fs_ = None \/ Full
  PROVE  SizeInv'
<1> DEFINE L == Len(order)
<1>1. TypeOK /\ OrderInv
  BY DEF TypeInv
<1>2. /\ Close /\ Stream' = kernel'[name] /\ fs_' = name
      /\ Len(order') = L + 1 /\ L \in Nat
      /\ \A i \in 1 .. L : order'[i] = order[i]
      /\ order'[L + 1].from = Len(kernel'[name])
  <2>1. order'[L + 1] = [file |-> name, from |-> Len(kernel'[name]), at |-> Len(written)]
    BY OpenedFile
  <2>2. order'[L + 1].from = Len(kernel'[name])
    BY <2>1
  <2> QED
    BY <2>2, OpenedFile
<1>10. /\ kernel' \in [Files -> Seq(Batch)] /\ failed \subseteq failed'
       /\ fs_ # None /\ L \notin failed' => kernel'[fs_] = Stream
       /\ \A f \in Files : f # fs_ => kernel'[f] = kernel[f]
       /\ \A f \in Files : Len(kernel'[f]) <= SizeOf(f)
  BY <1>2, CloseMoves
<1>3. sink' = sink /\ cur_size_' = 0 /\ opens' = [opens EXCEPT ![name] = opens[name] + 1]
  BY DEF Open, confVars, SizeAfterOpen
<1>4. ASSUME NEW f \in Files
      PROVE  /\ Len(kernel'[f]) \in Nat /\ Room(opens[f]) \in Nat
             /\ Len(kernel'[f]) <= Room(opens[f])
  <2>1. Len(kernel'[f]) \in Nat /\ SizeOf(f) \in Nat /\ Room(opens[f]) \in Nat
        /\ Len(kernel'[f]) <= SizeOf(f) /\ SizeOf(f) <= Room(opens[f])
    BY <1>1, <1>10, SizeBound, SizeTypes, LenProperties
  <2> QED
    BY <2>1, Transitive, Zenon
<1>5. /\ opens' \in [Files -> Nat] /\ opens'[name] = opens[name] + 1
      /\ \A f \in Files : f # name => opens'[f] = opens[f]
      /\ opens[name] \in Nat
  <2>1. opens \in [Files -> Nat]
    BY <1>1 DEF TypeOK
  <2> QED
    BY <1>3, <2>1
<1>6. ASSUME NEW i \in (1 .. Len(order') - 1) \ failed'
      PROVE  Len(kernel'[order'[i].file]) - order'[i].from >= max_size
  <2> DEFINE f == order[i].file
             n == order[i].from
  <2>1. i \in 1 .. L /\ order'[i] = order[i]
    BY <1>2
  <2>2. f \in Files /\ n \in Nat
    BY <1>1, <2>1, OrderType
  <2>3. fs_ # None
    BY <1>1, <1>2, <2>1, EmptySeq DEF OrderInv
  <2>4. CASE i = L
    <3>1. f = fs_ /\ n = Last.from
      BY <2>3, <2>4, OpenIsLast DEF Last
    <3>2. Len(Stream) = n + cur_size_ /\ cur_size_ >= max_size
      BY <1>10, <2>3, <2>4, <3>1 DEF SizeInv, Full
    <3>3. cur_size_ \in Nat /\ max_size \in Nat
      BY <1>1, SizeTypes, RoomGrows
    <3>4. kernel'[f] = Stream
      BY <1>10, <2>3, <2>4, <3>1
    <3> HIDE DEF f, n
    <3>5. Len(kernel'[f]) - n >= max_size
      BY <2>2, <3>2, <3>3, <3>4
    <3> QED
      BY <2>1, <3>5 DEF f, n
  <2>5. CASE i # L
    <3>1. i \in 1 .. Len(order) - 1
      BY <1>2, <2>1, <2>5
    <3>2. f # fs_ /\ Len(kernel[f]) - n >= max_size
      BY <1>10, <2>3, <3>1, OpenIsLast DEF SizeInv
    <3>3. kernel'[f] = kernel[f]
      BY <1>10, <2>2, <3>2
    <3> QED
      BY <2>1, <3>2, <3>3
  <2> QED
    BY <2>4, <2>5
<1>7. Len(Stream') = Last'.from + cur_size_'
  <2>1. Last'.from = Len(kernel'[name])
    BY <1>2 DEF Last
  <2> QED
    BY <1>2, <1>3, <1>4, <2>1
<1>8. Len(Stream') + Room(1) <= Room(opens'[fs_']) + cur_size_'
  <2>1. Room(opens'[name]) = Room(opens[name]) + Room(1) /\ Room(1) \in Nat
    BY <1>5, RoomGrows
  <2> QED
    BY <1>2, <1>3, <1>4, <2>1
<1>9. \A f \in Files : f # fs_' => Len(kernel'[f]) <= Room(opens'[f])
  BY <1>2, <1>4, <1>5
<1> HIDE DEF L
<1> QED
  BY <1>6, <1>7, <1>8, <1>9 DEF SizeInv

LEMMA SizeDies ==
  ASSUME TypeInv, SizeInv, Died, \A f \in Files : Len(kernel'[f]) <= SizeOf(f),
         kernel' \in [Files -> Seq(Batch)]
  PROVE  SizeInv'
<1>1. /\ UNCHANGED <<sink, opens>> /\ order' = <<>> /\ fs_' = None /\ Len(<<>>) = 0
  BY EmptySeq DEF Died, confVars
<1>2. ASSUME sink = "roll", NEW f \in Files PROVE Len(kernel'[f]) <= Room(opens[f])
  <2>1. /\ SizeOf(f) \in Nat /\ SizeOf(f) <= Room(opens[f])
        /\ Len(kernel'[f]) \in Nat /\ Room(opens[f]) \in Nat
    BY <1>2, SizeBound, SizeTypes, LenProperties DEF TypeInv
  <2> QED
    BY <2>1, Transitive, Zenon
<1> QED
  BY <1>1, <1>2 DEF SizeInv

LEMMA SizeSame ==
  ASSUME SizeInv, UNCHANGED <<sink, kernel, buf, fs_, order, opens, cur_size_>>,
         failed \subseteq failed'
  PROVE  SizeInv'
BY DEF SizeInv, Last, Stream

LEMMA InitSize == Init => SizeInv
<1> SUFFICES ASSUME Init PROVE SizeInv
  OBVIOUS
<1>1. order = <<>> /\ fs_ = None /\ Len(<<>>) = 0
  BY EmptySeq DEF Init
<1>2. \A f \in Files : kernel[f] = <<>> /\ opens[f] = 0
  BY DEF Init
<1>3. \A f \in Files : Len(kernel[f]) = 0 /\ Room(opens[f]) = 0
  BY <1>1, <1>2, RoomGrows
<1>4. \A f \in Files : Len(kernel[f]) <= Room(opens[f])
  BY <1>3
<1> QED
  BY <1>1, <1>4 DEF SizeInv

LEMMA NextSize == TypeInv /\ SizeInv /\ [Next]_vars => SizeInv'
<1> SUFFICES ASSUME TypeInv, SizeInv, [Next]_vars PROVE SizeInv'
  OBVIOUS
<1>1. TypeInv' /\ TypeOK /\ OrderInv
  BY NextTypes DEF TypeInv
<1>2. CASE Construct
  <2>1. sink' = "file"
    BY <1>2 DEF Construct, Open, confVars
  <2> QED
    BY <2>1 DEF SizeInv
<1>3. CASE \E len \in Lens : Call(len)
  BY <1>3, SizeSame DEF Call, confVars, fileVars, faultVars
<1>4. CASE Keep \/ Return
  BY <1>4, SizeSame DEF Keep, Return, confVars, fileVars, historyVars, faultVars
<1>13. CASE FSync \/ FSyncFails
  BY <1>13, FSyncMoves, SizeSame DEF FlushedBy, confVars
<1>5. CASE \E s \in Stamps : Roll(s)
  <2>1. PICK s \in Stamps : Roll(s)
    BY <1>5
  <2>2. /\ Open(fs_') /\ fs_' = [stamp |-> s, cnt |-> cnt_]
        /\ sink = "roll" /\ (fs_ = None \/ Full)
    BY <2>1 DEF Roll, Open
  <2>3. fs_' \in Files
    BY <1>1, <2>2, FilesFacts, EmptySeq DEF TypeInv, TypeOK, Open
  <2> QED
    BY <1>1, <2>2, <2>3, SizeOpens
<1>6. CASE Write \/ WriteFails
  <2>1. /\ UNCHANGED <<sink, order, opens>>
        /\ sink = "roll" => cur_size_' = cur_size_ + Len(data)
    BY <1>6, WriteMoves DEF Count, confVars
  <2> QED
    BY <1>6, <2>1, WriteMoves, SizeGrows
<1>7. CASE FFlush \/ FFlushFails
  <2>1. UNCHANGED <<sink, order, opens, cur_size_>> /\ cur_size_ \in Nat
    BY <1>1, <1>7, FFlushMoves, SizeTypes, RoomGrows DEF FlushedBy, confVars
  <2>2. <<>> \in Seq(Batch) /\ Len(<<>>) = 0
    BY EmptySeq
  <2>3. cur_size_' = cur_size_ + Len(<<>>)
    BY <2>1, <2>2
  <2> QED
    BY <1>7, <2>1, <2>2, <2>3, FFlushMoves, SizeGrows
<1> DEFINE Less == \A f \in Files : Len(kernel'[f]) <= SizeOf(f)
<1>8. \A f \in Files : /\ Len(kernel[f]) \in Nat /\ SizeOf(f) \in Nat
                        /\ Len(kernel[f]) <= SizeOf(f)
  BY <1>1, SizeOfKernel
<1>9. CASE ProcessDies
  <2>1. Died /\ kernel' = kernel /\ kernel' \in [Files -> Seq(Batch)]
    BY <1>1, <1>9 DEF ProcessDies, TypeOK, Batch
  <2>2. Less
    BY <1>8, <2>1
  <2> QED
    BY <2>1, <2>2, SizeDies
<1>10. CASE OpenFails
  <2>1. PICK n \in 0 .. Len(buf) : kernel' = Closed(n)
    BY <1>10 DEF OpenFails
  <2>2. Died /\ kernel' \in [Files -> Seq(Batch)] /\ Less
    BY <1>1, <1>10, <2>1, ClosedFiles DEF OpenFails
  <2> QED
    BY <2>1, <2>2, SizeDies
<1>11. CASE MachineDies
  <2>1. Died /\ kernel' \in [Files -> Seq(Batch)]
        /\ \A f \in Files : Extends(kernel[f], kernel'[f])
    BY <1>1, <1>11, Kept DEF MachineDies
  <2>2. ASSUME NEW f \in Files PROVE Len(kernel'[f]) <= SizeOf(f)
    <3>1. Len(kernel'[f]) \in Nat /\ Len(kernel'[f]) <= Len(kernel[f])
      BY <2>1, LenProperties DEF Extends
    <3> QED
      BY <1>8, <3>1, Transitive, Zenon
  <2> QED
    BY <2>1, <2>2, SizeDies
<1>12. CASE UNCHANGED vars
  BY <1>12, SizeSame DEF vars, confVars, fileVars, historyVars, faultVars
<1> QED
  BY <1>2, <1>3, <1>4, <1>5, <1>6, <1>7, <1>9, <1>10, <1>11, <1>12, <1>13
  DEF Next, Flush, InitLogFile

(* A file on which no call has failed is left only when it is full, and any  *)
(* exceeds the limit by less than a batch each time it is opened             *)
(* (LogFlush.hpp:104).                                                       *)
THEOREM LimitHolds == Spec => []RollsAtTheLimit
<1>1. Init => TypeInv /\ SizeInv
  BY InitTypes, InitSize
<1>2. TypeInv /\ SizeInv /\ [Next]_vars => TypeInv' /\ SizeInv'
  BY NextTypes, NextSize
<1> QED
  BY <1>1, <1>2, SizeKept, PTL DEF Spec

-----------------------------------------------------------------------------
(* What survives                                                             *)

(* Batch n, so many bytes long, is in one piece within the first m of s.     *)
Inside(s, n, len, m) == \E at \in 0 .. m - len : \A i \in 1 .. len : s[at + i] = n

InFile(n) == \E f \in Files : Inside(kernel[f], n, batches[n], Len(kernel[f]))

OnDisk(n) == \E f \in Files : Inside(kernel[f], n, batches[n], synced[f])

ReturnedInv ==
  \A n \in returned \ damaged :
    /\ flush_log # 0 /\ deaths.machine = 0 => InFile(n)
    /\ flush_log = 2 => OnDisk(n)

(* How far the batch of the call that is under way has come, if no call has   *)
(* failed for it.                                                            *)
Current(s, m) == Inside(s, Len(batches), batches[Len(batches)], m)

CurrentInv ==
  Len(batches) \notin damaged =>
    /\ pc = "fflush" => Current(Stream, Len(Stream))
    /\ pc \in {"fsync", "return"} /\ flush_log # 0 =>
         Current(kernel[fs_], Len(kernel[fs_]))
    /\ pc = "return" /\ flush_log = 2 => Current(kernel[fs_], synced[fs_])

LEMMA InsideMoves ==
  ASSUME NEW s, NEW t, NEW n, NEW len \in Nat, NEW m \in Nat, NEW k \in Nat,
         m <= k, \A i \in 1 .. m : t[i] = s[i], Inside(s, n, len, m)
  PROVE  Inside(t, n, len, k)
<1>1. PICK at \in 0 .. m - len : \A i \in 1 .. len : s[at + i] = n
  BY DEF Inside
<1>2. at \in 0 .. k - len
  OBVIOUS
<1>3. ASSUME NEW i \in 1 .. len PROVE t[at + i] = n
  <2>1. at + i \in 1 .. m
    OBVIOUS
  <2> QED
    BY <1>1, <2>1
<1> QED
  BY <1>2, <1>3 DEF Inside

LEMMA Lengths ==
  ASSUME TypeOK
  PROVE  /\ \A f \in Files : /\ Len(kernel[f]) \in Nat /\ synced[f] \in Nat
                              /\ synced[f] <= Len(kernel[f])
         /\ \A n \in 1 .. Len(batches) : batches[n] \in Nat
         /\ Len(batches) \in Nat
<1>1. \A f \in Files : kernel[f] \in Seq(Batch) /\ synced[f] \in Nat
                       /\ synced[f] <= Len(kernel[f])
  BY DEF TypeOK, Batch
<1>2. batches \in Seq(Lens)
  BY DEF TypeOK
<1>3. \A n \in 1 .. Len(batches) : batches[n] \in Nat
  <2>1. \A n \in 1 .. Len(batches) : batches[n] \in Lens
    BY <1>2, ElementOfSeq
  <2>2. Lens \subseteq Nat
    BY RollAssumption
  <2> QED
    BY <2>1, <2>2, Zenon
<1>4. \A f \in Files : Len(kernel[f]) \in Nat
  <2>1. \A f \in Files : kernel[f] \in Seq(Batch)
    BY <1>1
  <2> QED
    BY <2>1, LenProperties
<1>5. Len(batches) \in Nat
  BY <1>2, LenProperties
<1> QED
  BY <1>1, <1>3, <1>4, <1>5

(* What is in a file or on disk stays there while files only grow.           *)
LEMMA Lasting ==
  ASSUME TypeInv, ReturnedInv, kernel' \in [Files -> Seq(Batch)],
         synced' \in [Files -> Nat],
         UNCHANGED <<flush_log, returned>>, deaths'.machine = deaths.machine,
         damaged \subseteq damaged',
         \A n \in 1 .. Len(batches) : batches'[n] = batches[n],
         \A f \in Files : Extends(kernel'[f], kernel[f]),
         \A f \in Files : synced[f] <= synced'[f]
  PROVE  ReturnedInv'
<1> SUFFICES ASSUME NEW n \in returned \ damaged
             PROVE  /\ flush_log # 0 /\ deaths.machine = 0 => InFile(n)'
                    /\ flush_log = 2 => OnDisk(n)'
  BY DEF ReturnedInv
<1>1. TypeOK /\ n \in 1 .. Len(batches)
  BY DEF TypeInv, CallInv
<1>2. batches[n] \in Nat /\ batches'[n] = batches[n]
  BY <1>1, Lengths
<1>3. \A f \in Files : /\ Len(kernel[f]) \in Nat /\ Len(kernel'[f]) \in Nat
                        /\ synced[f] \in Nat /\ synced'[f] \in Nat
                        /\ synced[f] <= Len(kernel[f])
  BY <1>1, Lengths, LenProperties
<1>4. ASSUME flush_log # 0, deaths.machine = 0 PROVE InFile(n)'
  <2>1. PICK f \in Files : Inside(kernel[f], n, batches[n], Len(kernel[f]))
    BY <1>4 DEF ReturnedInv, InFile
  <2>2. /\ Len(kernel[f]) <= Len(kernel'[f])
        /\ \A i \in 1 .. Len(kernel[f]) : kernel'[f][i] = kernel[f][i]
    BY DEF Extends
  <2>3. Inside(kernel'[f], n, batches'[n], Len(kernel'[f]))
    BY <1>2, <1>3, <2>1, <2>2, InsideMoves
  <2> QED
    BY <2>3 DEF InFile
<1>5. ASSUME flush_log = 2 PROVE OnDisk(n)'
  <2>1. PICK f \in Files : Inside(kernel[f], n, batches[n], synced[f])
    BY <1>5 DEF ReturnedInv, OnDisk
  <2>2. \A i \in 1 .. Len(kernel[f]) : kernel'[f][i] = kernel[f][i]
    BY DEF Extends
  <2>3. \A i \in 1 .. synced[f] : kernel'[f][i] = kernel[f][i]
    BY <1>3, <2>2
  <2>4. synced[f] <= synced'[f]
    OBVIOUS
  <2>5. Inside(kernel'[f], n, batches'[n], synced'[f])
    BY <1>2, <1>3, <2>1, <2>3, <2>4, InsideMoves
  <2> QED
    BY <2>5 DEF OnDisk
<1> QED
  BY <1>4, <1>5

LEMMA MachineSurvived ==
  ASSUME TypeInv, ReturnedInv, MachineDies
  PROVE  ReturnedInv'
<1>0. flush_log' = flush_log /\ returned' = returned /\ damaged' = damaged
  BY DEF MachineDies, Died, confVars
<1> SUFFICES ASSUME NEW n \in returned \ damaged
             PROVE  deaths'.machine # 0 /\ (flush_log = 2 => OnDisk(n)')
  BY <1>0 DEF ReturnedInv
<1>1. TypeOK /\ n \in 1 .. Len(batches)
  BY DEF TypeInv, CallInv
<1>2. deaths'.machine # 0
  <2>1. deaths \in [process : 0 .. MaxCrashes, machine : 0 .. MaxCrashes]
    BY <1>1 DEF TypeOK
  <2>2. deaths'.machine = deaths.machine + 1 /\ deaths.machine \in Nat
    BY <2>1, RollAssumption DEF MachineDies
  <2> QED
    BY <2>2
<1>3. ASSUME flush_log = 2 PROVE OnDisk(n)'
  <2>1. PICK f \in Files : Inside(kernel[f], n, batches[n], synced[f])
    BY <1>3 DEF ReturnedInv, OnDisk
  <2>2. /\ synced'[f] \in Nat /\ synced[f] <= synced'[f]
        /\ \A i \in 1 .. synced'[f] : kernel'[f][i] = kernel[f][i]
    BY <1>1, Kept DEF Extends
  <2>3. batches'[n] = batches[n] /\ batches[n] \in Nat /\ synced[f] \in Nat
    BY <1>1, Lengths DEF MachineDies, Died
  <2>4. \A i \in 1 .. synced[f] : kernel'[f][i] = kernel[f][i]
    BY <2>2, <2>3
  <2>5. Inside(kernel'[f], n, batches'[n], synced'[f])
    BY <2>1, <2>2, <2>3, <2>4, InsideMoves
  <2> QED
    BY <2>5 DEF OnDisk
<1> QED
  BY <1>2, <1>3

(* Outside a write nothing of the current batch is promised.                 *)
LEMMA NotCurrent ==
  ASSUME pc' \in {"idle", "init", "write"}
  PROVE  CurrentInv'
BY DEF CurrentInv

LEMMA SurviveSame ==
  ASSUME TypeInv, ReturnedInv, kernel' = kernel, synced' = synced,
         UNCHANGED <<flush_log, returned>>, deaths'.machine = deaths.machine,
         damaged \subseteq damaged',
         \A n \in 1 .. Len(batches) : batches'[n] = batches[n]
  PROVE  ReturnedInv'
<1>1. TypeOK
  BY DEF TypeInv
<1>2. /\ kernel' \in [Files -> Seq(Batch)] /\ synced' \in [Files -> Nat]
      /\ \A f \in Files : synced[f] <= synced'[f]
  BY <1>1 DEF TypeOK, Batch
<1>3. \A f \in Files : Extends(kernel'[f], kernel[f])
  BY <1>1, Lengths DEF Extends
<1> QED
  BY <1>2, <1>3, Lasting

(* The batch arrives at the end of the stream.                               *)
LEMMA SurviveWrite ==
  ASSUME TypeInv, TypeInv', ReturnedInv, Write \/ WriteFails
  PROVE  ReturnedInv' /\ CurrentInv'
<1>1. TypeOK /\ CallInv /\ TypeOK'
  BY DEF TypeInv
<1>0. Moves(data)
  BY WriteMoves
<1>2. /\ UNCHANGED <<flush_log, returned, batches, deaths, synced>> /\ pc = "write"
      /\ pc' = IF flush_log = 0 THEN "return" ELSE "fflush"
  BY WriteMoves DEF Count, confVars
<1>3. /\ kernel' \in [Files -> Seq(Batch)] /\ synced' \in [Files -> Nat]
      /\ \A f \in Files : Extends(kernel'[f], kernel[f])
      /\ \A f \in Files : synced[f] <= synced'[f]
  <2>1. synced \in [Files -> Nat] /\ synced' = synced
    BY <1>1, <1>2 DEF TypeOK
  <2>2. \A f \in Files : synced[f] <= synced'[f]
    BY <2>1
  <2> QED
    BY <1>0, <2>1, <2>2 DEF Moves
<1>4. ReturnedInv'
  BY <1>0, <1>2, <1>3, Lasting DEF Moves
<1>5. CASE flush_log = 0
  BY <1>2, <1>4, <1>5 DEF CurrentInv
<1>7. CASE Len(batches) \in damaged'
  BY <1>2, <1>4, <1>7 DEF CurrentInv
<1>6. CASE flush_log # 0 /\ Len(batches) \notin damaged'
  <2> DEFINE n == Len(batches)
             len == batches[n]
  <2>1. n \in Nat /\ n > 0 /\ n <= MaxBatches /\ MaxBatches \in Nat
    BY <1>1, <1>2, Lengths, RollAssumption DEF CallInv
  <2>2. n \in 1 .. Len(batches) /\ n \in Batch
    BY <2>1 DEF Batch
  <2>3. len \in Nat
    BY <1>1, <2>2, Lengths
  <2>4. data = Bytes(n, len)
    BY <1>1, <1>2 DEF CallInv
  <2>5. Stream \in Seq(Batch) /\ Stream' = Stream \o data /\ data \in Seq(Batch)
    BY <1>0, <1>1, <1>6, WriteMoves, StreamType DEF Moves
  <2> HIDE DEF n, len
  <2>6. Len(data) = len /\ \A i \in 1 .. len : data[i] = n
    BY <2>2, <2>3, <2>4, BytesType
  <2>7. /\ Len(Stream \o data) = Len(Stream) + Len(data) /\ Len(Stream) \in Nat
        /\ \A i \in 1 .. Len(data) : (Stream \o data)[Len(Stream) + i] = data[i]
    BY <2>5, Joined, LenProperties
  <2>8. Inside(Stream \o data, n, len, Len(Stream \o data))
    <3>1. Len(Stream) \in 0 .. Len(Stream \o data) - len
      BY <2>3, <2>6, <2>7
    <3>2. \A i \in 1 .. len : (Stream \o data)[Len(Stream) + i] = n
      BY <2>6, <2>7
    <3> QED
      BY <3>1, <3>2 DEF Inside
  <2>9. Current(Stream, Len(Stream))'
    BY <1>2, <2>5, <2>8 DEF Current, n, len
  <2> QED
    BY <1>2, <1>4, <1>6, <2>9 DEF CurrentInv
<1> QED
  BY <1>5, <1>6, <1>7

(* fflush leaves the stream empty: all of it is in the file.                 *)
LEMMA SurviveFFlush ==
  ASSUME TypeInv, TypeInv', ReturnedInv, CurrentInv, FFlush \/ FFlushFails
  PROVE  ReturnedInv' /\ CurrentInv'
<1>1. TypeOK /\ TypeOK'
  BY DEF TypeInv
<1>0. Moves(<<>>)
  BY FFlushMoves
<1>2. /\ UNCHANGED <<flush_log, returned, batches, deaths, synced>> /\ pc = "fflush"
      /\ pc' = IF flush_log = 2 THEN "fsync" ELSE "return"
  BY FFlushMoves DEF FlushedBy, confVars
<1>3. /\ kernel' \in [Files -> Seq(Batch)] /\ synced' \in [Files -> Nat]
      /\ \A f \in Files : Extends(kernel'[f], kernel[f])
      /\ \A f \in Files : synced[f] <= synced'[f]
  <2>1. synced \in [Files -> Nat] /\ synced' = synced
    BY <1>1, <1>2 DEF TypeOK
  <2>2. \A f \in Files : synced[f] <= synced'[f]
    BY <2>1
  <2> QED
    BY <1>0, <2>1, <2>2 DEF Moves
<1>4. ReturnedInv'
  BY <1>0, <1>2, <1>3, Lasting DEF Moves
<1>5. ASSUME Len(batches) \notin damaged'
      PROVE  Current(kernel[fs_], Len(kernel[fs_]))'
  <2>1. /\ buf' = <<>> /\ Stream' = Stream \o <<>> /\ fs_ \in Files /\ fs_' = fs_
        /\ Stream \in Seq(Batch) /\ Len(batches) \notin damaged
    BY <1>0, <1>1, <1>5, FFlushMoves, StreamType DEF Moves
  <2>2. Stream' = kernel'[fs_'] \o <<>> /\ kernel'[fs_'] \in Seq(Batch)
    BY <1>3, <2>1 DEF Stream
  <2>3. Stream' = Stream /\ Stream' = kernel'[fs_']
    BY <2>1, <2>2, ConcatEmptySeq
  <2>4. Current(Stream, Len(Stream))
    BY <1>2, <2>1 DEF CurrentInv
  <2> QED
    BY <1>2, <2>3, <2>4 DEF Current
<1> QED
  BY <1>2, <1>4, <1>5 DEF CurrentInv

LEMMA SurviveFSync ==
  ASSUME TypeInv, ReturnedInv, CurrentInv, FSync \/ FSyncFails
  PROVE  ReturnedInv' /\ CurrentInv'
<1>1. TypeOK /\ CallInv
  BY DEF TypeInv
<1>0. FlushedBy("fsync") /\ damaged \subseteq damaged' /\ kernel' = kernel
  BY FSyncMoves
<1>2. /\ UNCHANGED <<flush_log, returned, batches, deaths, kernel, fs_>>
      /\ pc = "fsync" /\ pc' = "return" /\ flush_log = 2
  BY <1>0, <1>1 DEF FlushedBy, confVars, CallInv
<1>3. fs_ # None /\ fs_ \in Files /\ Len(kernel[fs_]) \in Nat
  <2>1. fs_ # None
    BY <1>1, <1>2 DEF CallInv
  <2> QED
    BY <1>1, <2>1, StreamType
<1>4. /\ synced \in [Files -> Nat] /\ kernel' \in [Files -> Seq(Batch)]
  BY <1>1, <1>2 DEF TypeOK, Batch
<1>11. CASE synced' = synced /\ Len(batches) \in damaged'
  <2>1. ReturnedInv'
    BY <1>0, <1>2, <1>11, SurviveSame
  <2> QED
    BY <1>2, <1>11, <2>1 DEF CurrentInv
<1>12. CASE synced' = [synced EXCEPT ![fs_] = Len(kernel[fs_])]
  <2>5. /\ synced' \in [Files -> Nat] /\ synced'[fs_] = Len(kernel[fs_])
        /\ \A f \in Files : f # fs_ => synced'[f] = synced[f]
    BY <1>3, <1>4, <1>12
  <2>6. ASSUME NEW f \in Files PROVE synced[f] <= synced'[f]
    <3>1. synced[f] <= Len(kernel[f]) /\ synced[f] \in Nat
      BY <1>1, Lengths
    <3>2. synced'[f] = IF f = fs_ THEN Len(kernel[f]) ELSE synced[f]
      BY <2>5
    <3> QED
      BY <3>1, <3>2
  <2>7. \A f \in Files : Extends(kernel'[f], kernel[f])
    BY <1>1, <1>2, Lengths DEF Extends
  <2>8. ReturnedInv'
    BY <1>0, <1>2, <1>4, <2>5, <2>6, <2>7, Lasting
  <2>9. ASSUME Len(batches) \notin damaged'
        PROVE  Current(kernel[fs_], Len(kernel[fs_]))' /\ Current(kernel[fs_], synced[fs_])'
    <3>1. Current(kernel[fs_], Len(kernel[fs_]))
      BY <1>0, <1>2, <2>9 DEF CurrentInv
    <3> QED
      BY <1>2, <2>5, <3>1 DEF Current
  <2> QED
    BY <1>2, <2>8, <2>9 DEF CurrentInv
<1> QED
  BY <1>11, <1>12, FSyncMoves

LEMMA SurviveReturn ==
  ASSUME TypeInv, ReturnedInv, CurrentInv, Return
  PROVE  ReturnedInv' /\ CurrentInv'
<1>1. TypeOK /\ CallInv
  BY DEF TypeInv
<1>2. /\ UNCHANGED <<flush_log, batches, deaths, kernel, synced>>
      /\ pc = "return" /\ pc' = "idle" /\ returned' = returned \cup {Len(batches)}
      /\ damaged' = damaged
  BY DEF Return, confVars, fileVars, faultVars
<1>3. fs_ \in Files
  BY <1>1, <1>2 DEF CallInv, TypeOK
<1>4. ASSUME NEW n \in returned' \ damaged
      PROVE  /\ flush_log # 0 /\ deaths.machine = 0 => InFile(n)
             /\ flush_log = 2 => OnDisk(n)
  <2>1. CASE n \in returned
    BY <2>1 DEF ReturnedInv
  <2>2. CASE n = Len(batches)
    BY <1>2, <1>3, <2>2 DEF CurrentInv, Current, InFile, OnDisk
  <2> QED
    BY <1>2, <2>1, <2>2
<1>5. ReturnedInv'
  BY <1>2, <1>4 DEF ReturnedInv, InFile, OnDisk
<1> QED
  BY <1>2, <1>5, NotCurrent

LEMMA NextSurvive ==
  TypeInv /\ ReturnedInv /\ CurrentInv /\ [Next]_vars => ReturnedInv' /\ CurrentInv'
<1> SUFFICES ASSUME TypeInv, ReturnedInv, CurrentInv, [Next]_vars
             PROVE  ReturnedInv' /\ CurrentInv'
  OBVIOUS
<1>1. TypeInv' /\ TypeOK /\ TypeOK' /\ OrderInv
  BY NextTypes DEF TypeInv
<1>2. /\ kernel' \in [Files -> Seq(Batch)] /\ synced' \in [Files -> Nat]
      /\ synced \in [Files -> Nat]
  BY <1>1 DEF TypeOK, Batch
<1>3. ASSUME NEW name \in Files, Open(name), pc' \in {"idle", "write"}
      PROVE  ReturnedInv' /\ CurrentInv'
  <2>1. UNCHANGED <<flush_log, returned, batches, deaths, synced, damaged>> /\ Close
    BY <1>3 DEF Open, confVars
  <2>2. \A f \in Files : Extends(kernel'[f], kernel[f])
    BY <2>1, CloseMoves
  <2>3. \A f \in Files : synced[f] <= synced'[f]
    BY <1>2, <2>1
  <2>4. ReturnedInv'
    BY <1>2, <2>1, <2>2, <2>3, Lasting
  <2> QED
    BY <1>3, <2>4, NotCurrent
<1>4. CASE Construct
  <2>1. pc' \in {"idle", "write"}
    BY <1>4 DEF Construct
  <2> QED
    BY <1>3, <1>4, <2>1, FilesFacts DEF Construct
<1>5. CASE \E s \in Stamps : Roll(s)
  <2>1. PICK s \in Stamps : Roll(s)
    BY <1>5
  <2>2. /\ Open(fs_') /\ fs_' = [stamp |-> s, cnt |-> cnt_] /\ pc' = "write"
    BY <2>1 DEF Roll, Open
  <2>3. fs_' \in Files
    BY <1>1, <2>2, FilesFacts, EmptySeq DEF TypeInv, TypeOK, Open
  <2> QED
    BY <1>3, <2>2, <2>3
<1>6. CASE \E len \in Lens : Call(len)
  <2>1. PICK len \in Lens : Call(len)
    BY <1>6
  <2>2. UNCHANGED <<flush_log, returned, deaths, kernel, synced, damaged>> /\ pc' = "init"
        /\ batches' = Append(batches, len)
    BY <2>1 DEF Call, confVars, fileVars, faultVars
  <2>3. \A n \in 1 .. Len(batches) : batches'[n] = batches[n]
    <3>1. batches \in Seq(Lens)
      BY <1>1 DEF TypeOK
    <3> QED
      BY <2>2, <3>1, AppendProperties
  <2> QED
    BY <2>2, <2>3, SurviveSame, NotCurrent
<1>7. CASE Keep
  BY <1>7, SurviveSame, NotCurrent DEF Keep, confVars, fileVars, historyVars, faultVars
<1>8. CASE ProcessDies \/ OpenFails
  <2>1. /\ UNCHANGED <<flush_log, returned, batches, synced, damaged>>
        /\ deaths'.machine = deaths.machine /\ pc' = "idle"
        /\ kernel' = kernel \/ \E n \in 0 .. Len(buf) : kernel' = Closed(n)
    <3>1. deaths \in [process : 0 .. MaxCrashes, machine : 0 .. MaxCrashes]
      BY <1>1 DEF TypeOK
    <3>2. deaths' = [deaths EXCEPT !.process = @ + 1]
      BY <1>8 DEF ProcessDies, OpenFails
    <3>3. deaths'.machine = deaths.machine
      BY <3>1, <3>2
    <3> QED
      BY <1>8, <3>3 DEF ProcessDies, OpenFails, Died, confVars
  <2>2. \A f \in Files : Extends(kernel'[f], kernel[f])
    <3>1. \A f \in Files : Extends(kernel[f], kernel[f])
      BY <1>1, Lengths DEF Extends
    <3> QED
      BY <1>1, <2>1, <3>1, ClosedFiles
  <2>3. \A f \in Files : synced[f] <= synced'[f]
    BY <1>2, <2>1
  <2>4. ReturnedInv'
    BY <1>2, <2>1, <2>2, <2>3, Lasting
  <2> QED
    BY <2>1, <2>4, NotCurrent
<1>9. CASE MachineDies
  BY <1>9, MachineSurvived, NotCurrent DEF MachineDies, Died
<1>10. CASE UNCHANGED vars
  BY <1>10 DEF vars, confVars, fileVars, historyVars, faultVars, ReturnedInv, InFile, OnDisk,
               CurrentInv, Current, Stream
<1> QED
  BY <1>1, <1>4, <1>5, <1>6, <1>7, <1>8, <1>9, <1>10,
     SurviveWrite, SurviveFFlush, SurviveFSync, SurviveReturn
  DEF Next, Flush, InitLogFile

(* A batch whose Flush has returned and reported no failure survives the     *)
(* process with flush_log 1 or 2, and the machine with 2, whatever fails for *)
(* other batches (LogFlush.hpp:55-72, 136-153).                              *)
THEOREM FlushedIsKept == Spec => []FlushedSurvives
<1> DEFINE IInv == TypeInv /\ ReturnedInv /\ CurrentInv
<1>1. Init => IInv
  <2>1. Init => ReturnedInv /\ CurrentInv
    BY DEF Init, ReturnedInv, CurrentInv
  <2> QED
    BY <2>1, InitTypes
<1>2. IInv /\ [Next]_vars => IInv'
  BY NextTypes, NextSurvive
<1>3. IInv => FlushedSurvives
  BY DEF ReturnedInv, InFile, OnDisk, Inside, FlushedSurvives, Holds
<1> HIDE DEF IInv
<1> QED
  BY <1>1, <1>2, <1>3, PTL DEF Spec
=============================================================================
