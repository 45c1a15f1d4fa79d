----------------------------- MODULE DataManager -----------------------------
(***************************************************************************)
(* DataManager (src/server/DataManager.hpp): the table of the stored       *)
(* files, the reader-writer lock around it, and storage.data, the copy on  *)
(* disk that the next start of the server loads.                           *)
(*                                                                         *)
(* One thread, the event loop, calls it.  The server may die between any   *)
(* two of its system calls, so a save is two steps: the open that empties  *)
(* storage.data and the write that fills it.                               *)
(*                                                                         *)
(* The url of a file is its path behind a fixed prefix (DataManager.hpp:30)*)
(* so the table is keyed here by the path.  Of a file's size and times the *)
(* table keeps here which upload they belong to, and whether the size fits *)
(* an int.  A row that was cut when it was written has no url any more; the *)
(* table keeps all such rows as one, under the empty url.                  *)
(***************************************************************************)
EXTENDS Integers, FiniteSets, Sequences

CONSTANTS
  Names,        (* the file names clients use                               *)
  LowNames,     (* those of them that contain the text "low_storage"        *)
  MaxUploads,   (* bound: uploads in a behaviour                            *)
  None          (* no file, and no request                                  *)

ASSUME DataAssumption ==
  /\ LowNames \subseteq Names
  /\ MaxUploads \in Nat \ {0}

VARIABLES
  table_,        (* what is known of each stored file, by path              *)
  blank,         (* table_ has a row under the empty url                    *)
  storage_data,  (* the file storage.data                                   *)
  readers        (* read locks that were never given back                   *)

dataVars == <<table_, blank, storage_data, readers>>

Paths == [dir : {"low", "deep"}, name : Names]

(* One upload's bytes; huge: more of them than an int can count.            *)
Bodies == [id : 1 .. MaxUploads, huge : BOOLEAN]

(* The tables: partial functions from the paths to what StorageInfo says.   *)
Tables == UNION {[S -> Bodies] : S \in SUBSET Paths}

(* What jsoncpp makes of the last row of a file that was cut: its url comes  *)
(* last in it, so it has none, and its size may not fit an int.             *)
Halves == {"none", "fits", "huge"}

(* storage.data: the rows to be read from it, with and without a url.       *)
SavedTables == [entries : Tables, blank : Halves]

ASSUME NoneIsNoTable == None \notin SavedTables

Empty == [p \in {} |-> None]

Restricted(table, S) == [p \in S |-> table[p]]

DataTypeOK ==
  /\ table_ \in Tables
  /\ blank \in BOOLEAN
  /\ storage_data \in SavedTables \cup {None}
  /\ readers \in Nat

DataInit ==
  /\ table_ = Empty
  /\ blank = FALSE
  /\ storage_data = None
  /\ readers = 0

-----------------------------------------------------------------------------

\* mutant: the map's insert(), which keeps the row that is there.
WithRow_Keep(path, info) ==
  [p \in DOMAIN table_ \cup {path} |-> IF p \in DOMAIN table_ THEN table_[p] ELSE info]

(* table_[info.url_] = info                                                 *)
WithRow(path, info) ==
  [p \in DOMAIN table_ \cup {path} |-> IF p = path THEN info ELSE table_[p]]

(* pthread_rwlock_wrlock returns; a read lock that is held keeps it waiting.*)
WriteLockFree == readers = 0

(* Insert up to its call of Storage.                                        *)
InsertRow(path, info) ==
  /\ WriteLockFree
  /\ table_' = WithRow(path, info)
  /\ UNCHANGED <<blank, storage_data, readers>>

\* mutant: Insert calls Storage before it unlocks, and GetAll waits for it.
StorageOpen_Locked ==
  /\ readers < 0
  /\ UNCHANGED dataVars

(* The rows in front of a cut are whole; the cut may fall into one of the    *)
(* others, before its size, or behind it.                                   *)
HalfRows(rows) ==
  {"none"} \cup {h \in {"fits"} : blank \/ rows # DOMAIN table_}
           \cup {h \in {"huge"} : \E p \in DOMAIN table_ \ rows : table_[p].huge}

(* Storage up to the open of its SetContent.  What a write that is cut short*)
(* leaves is chosen here: the rows that come first in the file.             *)
StorageOpen ==
  /\ \E rows \in SUBSET (DOMAIN table_) : \E half \in HalfRows(rows) :
       storage_data' = [entries |-> Restricted(table_, rows), blank |-> half]
  /\ UNCHANGED <<table_, blank, readers>>

\* mutant: the rows are taken before the insertion.
GetAll_Stale == storage_data.entries

GetAll == table_

(* The write of Storage's SetContent.                                       *)
StorageWrite ==
  /\ storage_data' = [entries |-> GetAll, blank |-> IF blank THEN "fits" ELSE "none"]
  /\ UNCHANGED <<table_, blank, readers>>

(* GetOneByURL unlocks when it finds the row, and does not when it misses.  *)
ReadersAfterLookup(path) == IF path \in DOMAIN table_ THEN readers ELSE readers + 1

GetOneByURL(path) ==
  /\ readers' = ReadersAfterLookup(path)
  /\ UNCHANGED <<table_, blank, storage_data>>

(* The rows with a url that InitLoad finds in storage.data: none without    *)
(* the file.  It does not look at the result of UnSerialize, and takes from *)
(* a file that does not parse what comes before the damage.                 *)
Saved == IF storage_data = None THEN Empty ELSE storage_data.entries

(* And the row without one.                                                 *)
SavedBlank == IF storage_data = None THEN "none" ELSE storage_data.blank

(* asInt throws on a size that an int cannot hold.                          *)
LoadThrows == SavedBlank = "huge" \/ \E p \in DOMAIN Saved : Saved[p].huge

(* The constructor, when the file can be read and every size fits.          *)
InitLoad ==
  /\ ~LoadThrows
  /\ table_' = Saved
  /\ blank' = (SavedBlank # "none")
  /\ UNCHANGED <<storage_data, readers>>

(* The constructor, when storage.data cannot be read: the table stays empty.*)
InitLoadUnread ==
  /\ storage_data # None
  /\ UNCHANGED dataVars

(* The process ends; the file stays.                                        *)
Forget ==
  /\ table_' = Empty
  /\ blank' = FALSE
  /\ readers' = 0
  /\ UNCHANGED storage_data
=============================================================================
