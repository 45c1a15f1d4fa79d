------------------------------- MODULE FileStore -------------------------------
(***************************************************************************)
(* What the storage server promises of the files it keeps, whatever it does *)
(* inside: a cell per path that uploads overwrite in place, one at a time, *)
(* and that replies are read from.                                          *)
(*                                                                         *)
(* Uploads are known by their number, counted from 1.  A cell holds the    *)
(* number of the upload whose bytes it has, or 0 when it holds nothing     *)
(* whole: before the first upload, during one, and after one that broke.   *)
(***************************************************************************)
EXTENDS Integers, Sequences

CONSTANT Paths

VARIABLES
  uploads,   (* the uploads so far: the path of each                        *)
  stored,    (* the upload that each cell holds                             *)
  writing,   (* the cell being overwritten, as a set of at most one         *)
  acked,     (* the last upload of each path that was answered with 200     *)
  sending    (* the replies on their way: a path and an upload              *)

vars == <<uploads, stored, writing, acked, sending>>

Init ==
  /\ uploads = <<>>
  /\ stored = [p \in Paths |-> 0]
  /\ writing = {}
  /\ acked = [p \in Paths |-> 0]
  /\ sending = {}

(* Replies end, by themselves, with the server, or because their file is    *)
(* replaced under them.                                                     *)
RepliesEnd == sending' \subseteq sending

Begin(p) ==
  /\ writing = {}
  /\ uploads' = Append(uploads, p)
  /\ RepliesEnd
  /\ UNCHANGED <<stored, writing, acked>>

(* Only the path of the latest upload is ever written, and once.            *)
Open(p) ==
  /\ writing = {}
  /\ uploads # <<>> /\ uploads[Len(uploads)] = p
  /\ stored[p] # Len(uploads)
  /\ writing' = {p}
  /\ stored' = [stored EXCEPT ![p] = 0]
  /\ RepliesEnd
  /\ UNCHANGED <<uploads, acked>>

Fill(p) ==
  /\ writing = {p}
  /\ writing' = {}
  /\ stored' = [stored EXCEPT ![p] = Len(uploads)]
  /\ RepliesEnd
  /\ UNCHANGED <<uploads, acked>>

(* The writing breaks off and leaves a cell with nothing whole in it.       *)
Break ==
  /\ writing' = {}
  /\ RepliesEnd
  /\ UNCHANGED <<uploads, stored, acked>>

(* An upload is answered when it has been written, or its writing broke.    *)
Acknowledge(p) ==
  /\ writing = {}
  /\ uploads # <<>> /\ uploads[Len(uploads)] = p
  /\ stored[p] \in {Len(uploads), 0}
  /\ acked' = [acked EXCEPT ![p] = Len(uploads)]
  /\ RepliesEnd
  /\ UNCHANGED <<uploads, stored, writing>>

(* A reply carries what the cell holds, whole.                              *)
Send(p) ==
  /\ stored[p] # 0
  /\ sending' = sending \cup {[path |-> p, id |-> stored[p]]}
  /\ UNCHANGED <<uploads, stored, writing, acked>>

Drop ==
  /\ RepliesEnd
  /\ UNCHANGED <<uploads, stored, writing, acked>>

Next ==
  \/ \E p \in Paths : Begin(p) \/ Open(p) \/ Fill(p) \/ Acknowledge(p) \/ Send(p)
  \/ Break \/ Drop

Spec == Init /\ [][Next]_vars

-----------------------------------------------------------------------------
(* What a caller can build on                                                *)

IsUploadOf(n, p) == n \in 1 .. Len(uploads) /\ uploads[n] = p

(* A cell holds an upload of its own path, none older than the one that was *)
(* answered last, and a reply carries an upload of the path it was asked    *)
(* for.                                                                     *)
EachItsOwn ==
  /\ \A p \in Paths :
       /\ stored[p] # 0 => IsUploadOf(stored[p], p) /\ stored[p] >= acked[p]
       /\ acked[p] # 0 => IsUploadOf(acked[p], p)
  /\ \A s \in sending : IsUploadOf(s.id, s.path)

(* Who has read the answer to an upload reads that upload, or a later one.  *)
ReadsAreFresh ==
  [][\A s \in sending' \ sending : s.id >= acked[s.path]]_vars
=============================================================================
