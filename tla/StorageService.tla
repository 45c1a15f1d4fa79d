---------------------------- MODULE StorageService ----------------------------
(***************************************************************************)
(* The storage server (src/server/Service.hpp with the FileUtil of         *)
(* Util.hpp): one event-loop thread that runs a handler per request, the   *)
(* files it stores, and the downloads that libevent is still sending when  *)
(* the handler has returned.  DataManager supplies the table.              *)
(*                                                                         *)
(* A handler is a sequence of steps that end where the disk changes, since *)
(* the process may die there.  A disk fault is an open, a read or a write  *)
(* that fails.  A file is known by the upload its bytes come from, by      *)
(* whether they are packed, and by whether all of them are there.          *)
(***************************************************************************)
EXTENDS DataManager

CONSTANTS
  Sizes,            (* the values of Bodies' huge that clients send         *)
  FollowTheList,    (* bound: downloads ask for rows that are in the table  *)
  MaxMisses,        (* bound: downloads of unlisted files between starts    *)
  MaxTransfers,     (* bound: downloads being sent at once                  *)
  MaxCrashes,       (* bound: crashes of the process                        *)
  MaxFaults         (* bound: disk faults                                   *)

ASSUME ServiceAssumption ==
  /\ Sizes \subseteq BOOLEAN
  /\ FollowTheList \in BOOLEAN
  /\ {MaxMisses, MaxTransfers, MaxCrashes, MaxFaults} \subseteq Nat

VARIABLES
  files,       (* the stored files, by path                                 *)
  unpacked,    (* the files in uncompress_dir, by name                      *)
  pc,          (* where the event loop is                                   *)
  req,         (* the request being handled                                 *)
  transfers,   (* the bodies being sent                                     *)
  owed,        (* replies the last request still expects                    *)
  uploads,     (* history: the paths of the uploads so far                  *)
  acked,       (* history: the last upload of each path answered with 200   *)
  torn,        (* history: files a crash or fault cut, not written since;   *)
               (* storage.data stays: the rows it lost are lost             *)
  crashes,     (* history: crashes so far                                   *)
  faults       (* history: disk faults so far                               *)

diskVars == <<files, unpacked>>
loopVars == <<pc, req, owed>>
historyVars == <<uploads, acked, torn>>
boundVars == <<crashes, faults>>
vars == <<dataVars, diskVars, loopVars, transfers, historyVars, boundVars>>

(* Among the files that may be cut.                                         *)
StorageData == [dir |-> ".", name |-> "storage.data"]

Contents == [body : Bodies, packed : BOOLEAN, whole : BOOLEAN]

(* body: the upload, or for a download the row of the table; sound: no      *)
(* fault has hit the handler; unpackOk: UnCompress did its work.            *)
FileRequests == [op : {"upload", "download"}, path : Paths, body : Bodies \cup {None},
                 sound : BOOLEAN, unpackOk : BOOLEAN]
OtherRequests == [op : {"badUpload", "list", "other"}]

ASSUME NoneAssumption == None \notin Contents \cup FileRequests \cup OtherRequests

(* A 200 reply: etag, the upload that the ETag header names; content: its   *)
(* bytes, or None; replaced: the file they are read from was overwritten.   *)
Transfers == [path : Paths, etag : 1 .. MaxUploads, content : Contents \cup {None},
              sound : BOOLEAN, unpackOk : BOOLEAN, replaced : BOOLEAN]

Handling == {"badUpload", "list", "other", "upload", "write", "insert", "save",
             "saveWrite", "ack", "download", "unpack", "unpackWrite", "send",
             "remove"}
Stopped == {"down", "dead"}

Init ==
  /\ DataInit
  /\ files = [p \in Paths |-> None]
  /\ unpacked = [n \in Names |-> None]
  /\ pc = "down"
  /\ req = None
  /\ transfers = {}
  /\ owed = 0
  /\ uploads = <<>>
  /\ acked = [p \in Paths |-> 0]
  /\ torn = {}
  /\ crashes = 0
  /\ faults = 0

-----------------------------------------------------------------------------
(* Files                                                                     *)

(* The test that upload makes of the path before it chooses how to store.   *)
StoredRaw(path) == path.dir = "low" \/ path.name \in LowNames

(* The test that download makes of it.                                      *)
NeedsUnpack(path) == path.dir # "low"

(* What the upload's SetContent or Compress writes.                         *)
Stored(path, body) == [body |-> body, packed |-> ~StoredRaw(path), whole |-> TRUE]

(* A file that has been emptied, and maybe filled in part.                  *)
Cut(content) == [content EXCEPT !.whole = FALSE]

(* bundle::unpack gives back what was packed, and its input if that was not *)
(* packed or is damaged.                                                    *)
Unpacked(content) == [content EXCEPT !.packed = FALSE]

(* NewStorageInfo asks the file system for the size of the file: of a file  *)
(* that was cut any size is possible.                                       *)
InfosOf(content) ==
  IF content.whole THEN {content.body}
  ELSE {content.body, [content.body EXCEPT !.huge = FALSE]}

(* The file that the download opens.                                        *)
Source == IF NeedsUnpack(req.path) THEN unpacked[req.path.name] ELSE files[req.path]

(* libevent reads the bytes of this download from the stored file; those of *)
(* an unpacked one come from a copy that has no name any more.              *)
ReadsStored(t, path) == t.path = path /\ ~NeedsUnpack(path) /\ t.content # None

(* Opening that file for writing cuts the downloads that read it: what they *)
(* have yet to send are bytes of the new upload, under the old ETag.        *)
Overwritten(path, content) ==
  {IF ReadsStored(t, path) THEN [t EXCEPT !.content = Cut(content), !.replaced = TRUE]
   ELSE t : t \in transfers}

(* When the file is written, some of them have nothing but the new upload   *)
(* to send: nothing had been sent, and the lengths are the same.            *)
Refilled(content, some) ==
  {IF t \in some THEN [t EXCEPT !.content = content] ELSE t : t \in transfers}

-----------------------------------------------------------------------------
(* Ways in which a step of a handler ends                                    *)

Fault ==
  /\ faults < MaxFaults
  /\ faults' = faults + 1

(* evhttp_send_reply, after which the handler goes on at next.              *)
Reply(next) ==
  /\ owed' = owed - 1
  /\ pc' = next
  /\ req' = IF next = "idle" THEN None ELSE req

(* The handler returns without a further reply.                             *)
Return ==
  /\ pc' = "idle"
  /\ req' = None
  /\ UNCHANGED owed

(* A reply without a file ends the handler.                                 *)
Answer(at) ==
  /\ pc = at
  /\ Reply("idle")
  /\ UNCHANGED <<dataVars, diskVars, transfers, historyVars, crashes>>

(* A disk fault that is logged and nothing more; the file stays cut.        *)
Shrug(at, cut, next) ==
  /\ pc = at
  /\ Fault
  /\ torn' = torn \cup {cut}
  /\ pc' = next
  /\ UNCHANGED <<dataVars, diskVars, req, owed, transfers, uploads, acked, crashes>>

-----------------------------------------------------------------------------
(* GenHandler: the requests                                                  *)

Receive(r) ==
  /\ pc = "idle"
  /\ pc' = r.op
  /\ req' = r
  /\ owed' = 1
  /\ UNCHANGED <<dataVars, diskVars, transfers, acked, torn, boundVars>>

ReceiveUpload(path, huge) ==
  /\ Len(uploads) < MaxUploads
  /\ uploads' = Append(uploads, path)
  /\ Receive([op |-> "upload", path |-> path,
              body |-> [id |-> Len(uploads) + 1, huge |-> huge],
              sound |-> TRUE, unpackOk |-> TRUE])

ReceiveDownload(path) ==
  /\ Cardinality(transfers) < MaxTransfers
  /\ path \in DOMAIN table_ \/ (~FollowTheList /\ readers < MaxMisses)
  /\ Receive([op |-> "download", path |-> path, body |-> None,
              sound |-> TRUE, unpackOk |-> TRUE])
  /\ UNCHANGED uploads

(* A request for the page, for nothing the server knows, or an upload       *)
(* without bytes or with an illegal StorageType.                            *)
ReceiveOther(r) ==
  /\ Receive(r)
  /\ UNCHANGED uploads

(* evhttp_send_reply with 400, 404.                                         *)
Refuse ==
  /\ \E at \in {"badUpload", "other"} : Answer(at)
  /\ UNCHANGED faults

\* mutant: the page is built and not sent.
ListShow_Unsent ==
  /\ pc = "list"
  /\ Return
  /\ UNCHANGED <<dataVars, diskVars, transfers, historyVars, boundVars>>

ListShow ==
  /\ Answer("list")
  /\ UNCHANGED faults

(* Without its template, ListShow returns and sends nothing.                *)
ListShowNoTemplate ==
  /\ pc = "list"
  /\ Fault
  /\ Return
  /\ UNCHANGED <<dataVars, diskVars, transfers, historyVars, crashes>>

-----------------------------------------------------------------------------
(* Upload                                                                    *)

(* SetContent, or Compress and its SetContent: the open.                    *)
UploadOpen ==
  /\ pc = "upload"
  /\ files' = [files EXCEPT ![req.path] = Cut(Stored(req.path, req.body))]
  /\ transfers' = Overwritten(req.path, Stored(req.path, req.body))
  /\ pc' = "write"
  /\ UNCHANGED <<dataVars, unpacked, req, owed, historyVars, boundVars>>

UploadOpenFails ==
  /\ Answer("upload")
  /\ Fault

UploadWrite ==
  /\ pc = "write"
  /\ files' = [files EXCEPT ![req.path] = Stored(req.path, req.body)]
  /\ \E some \in SUBSET {t \in transfers : t.replaced /\ ReadsStored(t, req.path)} :
       transfers' = Refilled(Stored(req.path, req.body), some)
  /\ torn' = torn \ {req.path}
  /\ pc' = "insert"
  /\ UNCHANGED <<dataVars, unpacked, req, owed, uploads, acked, boundVars>>

(* SetContent logs a failed write and returns true.                         *)
UploadWriteFails == Shrug("write", req.path, "insert")

\* mutant: Insert does not call Storage.
AfterInsert_NoSave == "ack"

AfterInsert == "save"

(* NewStorageInfo, and Insert as far as the table.                          *)
UploadInsert ==
  /\ pc = "insert"
  /\ \E info \in InfosOf(files[req.path]) : InsertRow(req.path, info)
  /\ pc' = AfterInsert
  /\ UNCHANGED <<diskVars, req, owed, transfers, historyVars, boundVars>>

SaveOpen ==
  /\ pc = "save"
  /\ StorageOpen
  /\ pc' = "saveWrite"
  /\ UNCHANGED <<diskVars, req, owed, transfers, historyVars, boundVars>>

(* Storage logs a failed SetContent and returns true.                       *)
SaveOpenFails == Shrug("save", StorageData, "ack")

SaveWrite ==
  /\ pc = "saveWrite"
  /\ StorageWrite
  /\ pc' = "ack"
  /\ UNCHANGED <<diskVars, req, owed, transfers, historyVars, boundVars>>

SaveWriteFails == Shrug("saveWrite", StorageData, "ack")

UploadAck ==
  /\ pc = "ack"
  /\ acked' = [acked EXCEPT ![req.path] = req.body.id]
  /\ Reply("idle")
  /\ UNCHANGED <<dataVars, diskVars, transfers, uploads, torn, boundVars>>

-----------------------------------------------------------------------------
(* Download                                                                  *)

(* The url is not in the table, or its file is gone: 404.                   *)
DownloadNotFound ==
  /\ pc = "download"
  /\ req.path \notin DOMAIN table_ \/ files[req.path] = None
  /\ GetOneByURL(req.path)
  /\ Reply("idle")
  /\ UNCHANGED <<diskVars, transfers, historyVars, boundVars>>

DownloadFound ==
  /\ pc = "download"
  /\ req.path \in DOMAIN table_
  /\ files[req.path] # None
  /\ GetOneByURL(req.path)
  /\ req' = [req EXCEPT !.body = table_[req.path]]
  /\ pc' = IF NeedsUnpack(req.path) THEN "unpack" ELSE "send"
  /\ UNCHANGED <<diskVars, owed, transfers, historyVars, boundVars>>

Unpack(at, content, next) ==
  /\ pc = at
  /\ unpacked' = [unpacked EXCEPT ![req.path.name] = content]
  /\ pc' = next
  /\ UNCHANGED <<dataVars, files, req, owed, transfers, historyVars, boundVars>>

\* mutant: a file that is there from before is taken for unpacked already.
UnpackOpen_Reuse ==
  /\ pc = "unpack"
  /\ IF unpacked[req.path.name] = None
     THEN Unpack("unpack", Cut(Unpacked(files[req.path])), "unpackWrite")
     ELSE Unpack("unpack", unpacked[req.path.name], "send")

(* UnCompress reads the stored file and opens the file in uncompress_dir.   *)
UnpackOpen == Unpack("unpack", Cut(Unpacked(files[req.path])), "unpackWrite")

UnpackWrite == Unpack("unpackWrite", Unpacked(files[req.path]), "send")

(* A read, the open or the write fails; Download does not look at the       *)
(* result.                                                                  *)
UnpackFails ==
  /\ pc \in {"unpack", "unpackWrite"}
  /\ Fault
  /\ req' = [req EXCEPT !.sound = FALSE, !.unpackOk = FALSE]
  /\ pc' = "send"
  /\ UNCHANGED <<dataVars, diskVars, owed, transfers, historyVars, crashes>>

(* No file to send, or it cannot be opened: 500.                            *)
SendNothing ==
  /\ Answer("send")
  /\ IF Source = None THEN UNCHANGED faults ELSE Fault

(* The 200 reply; libevent sends the bytes later.                           *)
SendFile(content, sound) ==
  /\ pc = "send"
  /\ Source # None
  /\ transfers' = transfers \cup
       {[path |-> req.path, etag |-> req.body.id, content |-> content,
         sound |-> sound, unpackOk |-> req.unpackOk, replaced |-> FALSE]}
  /\ Reply(IF NeedsUnpack(req.path) THEN "remove" ELSE "idle")
  /\ UNCHANGED <<dataVars, diskVars, historyVars, crashes>>

Send ==
  /\ SendFile(Source, req.sound /\ req.path \notin torn)
  /\ UNCHANGED faults

(* evbuffer_add_file fails and is logged: a 200 reply with no bytes.        *)
SendAddFails ==
  /\ Fault
  /\ SendFile(None, FALSE)

\* mutant: the stored file is removed.
Remove_Stored ==
  /\ pc = "remove"
  /\ files' = [files EXCEPT ![req.path] = None]
  /\ Return
  /\ UNCHANGED <<dataVars, unpacked, transfers, historyVars, boundVars>>

Remove ==
  /\ pc = "remove"
  /\ unpacked' = [unpacked EXCEPT ![req.path.name] = None]
  /\ Return
  /\ UNCHANGED <<dataVars, files, transfers, historyVars, boundVars>>

TransferEnds(t) ==
  /\ transfers' = transfers \ {t}
  /\ UNCHANGED <<dataVars, diskVars, loopVars, historyVars, boundVars>>

-----------------------------------------------------------------------------
(* The process                                                               *)

Start ==
  /\ pc = "down"
  /\ InitLoad
  /\ pc' = "idle"
  /\ UNCHANGED <<diskVars, req, owed, transfers, historyVars, boundVars>>

StartUnread ==
  /\ InitLoadUnread
  /\ Shrug("down", StorageData, "idle")

(* The exception leaves main; the next start meets the same file.           *)
StartThrows ==
  /\ pc = "down"
  /\ LoadThrows
  /\ pc' = "dead"
  /\ UNCHANGED <<dataVars, diskVars, req, owed, transfers, historyVars, boundVars>>

(* What a death of the process at this place leaves half written.           *)
CutByDeath ==
  CASE pc = "write" -> {req.path}
    [] pc = "saveWrite" -> {StorageData}
    [] OTHER -> {}

Crash ==
  /\ pc \notin Stopped
  /\ crashes < MaxCrashes
  /\ crashes' = crashes + 1
  /\ Forget
  /\ torn' = torn \cup CutByDeath
  /\ pc' = "down"
  /\ req' = None
  /\ transfers' = {}
  /\ owed' = 0
  /\ UNCHANGED <<diskVars, uploads, acked, faults>>

-----------------------------------------------------------------------------
Arrive ==
  \/ \E path \in Paths, huge \in Sizes : ReceiveUpload(path, huge)
  \/ \E path \in Paths : ReceiveDownload(path)
  \/ \E r \in OtherRequests : ReceiveOther(r)

Upload ==
  \/ UploadOpen \/ UploadOpenFails
  \/ UploadWrite \/ UploadWriteFails
  \/ UploadInsert
  \/ SaveOpen \/ SaveOpenFails
  \/ SaveWrite \/ SaveWriteFails
  \/ UploadAck

Download ==
  \/ DownloadNotFound \/ DownloadFound
  \/ UnpackOpen \/ UnpackWrite \/ UnpackFails
  \/ SendNothing \/ Send \/ SendAddFails
  \/ Remove

GenHandler == Refuse \/ ListShow \/ ListShowNoTemplate \/ Upload \/ Download

Next ==
  \/ Arrive
  \/ GenHandler
  \/ \E t \in transfers : TransferEnds(t)
  \/ Start \/ StartUnread \/ StartThrows
  \/ Crash

Spec == Init /\ [][Next]_vars

(* The event loop runs a handler to its end; clients may stop asking, and a *)
(* server that is down may stay down.                                       *)
LiveSpec == Spec /\ WF_vars(GenHandler)

-----------------------------------------------------------------------------
(* What the files promise, in the terms of FileStore                         *)

(* The upload whose bytes the file holds, or 0.                             *)
VersionStored(path) ==
  IF files[path] # None /\ files[path].whole THEN files[path].body.id ELSE 0

(* The upload a reply carries; 0 when it is none as it was uploaded.        *)
VersionSent(t) == IF t.content.whole /\ ~t.content.packed THEN t.content.body.id ELSE 0

(* The replies the promise is about: no fault cut them or what they were    *)
(* read from, and no upload has replaced the file that is being sent.       *)
Kept == {t \in transfers : t.sound /\ ~t.replaced}

Promise == INSTANCE FileStore WITH
  stored <- [p \in Paths |-> VersionStored(p)],
  writing <- IF pc = "write" THEN {req.path} ELSE {},
  sending <- {[path |-> t.path, id |-> VersionSent(t)] : t \in Kept}

(* Every step of the server is one that FileStore allows: a download        *)
(* carries the whole version that the file holds then, however unpacking,   *)
(* sending in the background, crashes and later uploads interleave; an      *)
(* upload touches its own file alone; a reply with 200 follows the write.   *)
(* (Service.hpp:122-170, 221-248, Util.hpp:140-191.)                        *)
ImplementsFileStore == Promise!Spec

-----------------------------------------------------------------------------
(* Types; a request that got to its end has been answered, and once: only   *)
(* the page without its template has no answer.                             *)
TypeOK ==
  /\ DataTypeOK
  /\ files \in [Paths -> Contents \cup {None}]
  /\ unpacked \in [Names -> Contents \cup {None}]
  /\ pc \in {"idle"} \cup Stopped \cup Handling
  /\ req \in FileRequests \cup OtherRequests \cup {None}
  /\ (req = None) <=> (pc \notin Handling)
  /\ transfers \subseteq Transfers
  /\ owed \in {0, 1}
  /\ pc = "idle" /\ faults = 0 => owed = 0
  /\ uploads \in Seq(Paths) /\ Len(uploads) <= MaxUploads
  /\ acked \in [Paths -> 0 .. MaxUploads]
  /\ torn \subseteq Paths \cup {StorageData}
  /\ crashes \in 0 .. MaxCrashes
  /\ faults \in 0 .. MaxFaults

(* A row of the table, or of storage.data as the next start will read it,   *)
(* has its file: the file is written before the row (Service.hpp:221-245),  *)
(* and what a download removes is the unpacked copy (168-170).  The row     *)
(* without a url, that a start makes of half a row (DataManager.hpp:72-80)  *)
(* and every later save keeps, is there only if a crash or a fault cut      *)
(* storage.data once.                                                       *)
ListedFilesExist ==
  /\ \A p \in DOMAIN table_ \cup DOMAIN Saved : files[p] # None
  /\ blank \/ (SavedBlank # "none" /\ pc # "saveWrite") => StorageData \in torn

(* Between requests the next start would load the table the server has now, *)
(* through every order of uploads, downloads and crashes, unless a crash or *)
(* a fault fell into the saving of storage.data itself (DataManager.hpp:    *)
(* 86-125).                                                                 *)
ReloadIsTable ==
  pc = "idle" /\ StorageData \notin torn =>
    Saved = table_ /\ (blank <=> SavedBlank # "none")

(* An upload that was answered with 200 is listed, and its file holds it or *)
(* a later one, through crashes at any point of any later request.  Only a  *)
(* write that was cut, of storage.data or of this very file, loses it.      *)
KeptUnlessTorn ==
  \A p \in Paths : acked[p] # 0 =>
    /\ pc \notin Stopped /\ StorageData \notin torn =>
         p \in DOMAIN table_ /\ table_[p].id >= acked[p]
    /\ p \notin torn /\ ~(pc = "write" /\ req.path = p) =>
         /\ files[p] # None
         /\ files[p].whole
         /\ files[p].body.id >= acked[p]

(* The ETag of a download names no later version than the one it carries    *)
(* (Service.hpp:161, 330-339), through crashes between a file and its row,  *)
(* and uploads that overwrite the file while it is sent; and without those  *)
(* it names that version.                                                   *)
EtagNamesBody ==
  \A t \in transfers : t.sound =>
    /\ t.etag <= t.content.body.id
    /\ crashes = 0 /\ ~t.replaced => t.etag = t.content.body.id

(* A handler returns, or the server dies, unless an earlier download asked  *)
(* for a url that is not listed and left the table locked.                  *)
HandlersReturn == (pc \in Handling) ~> (pc \notin Handling \/ readers > 0)

(* A handler can take its next step, unless it waits for the lock of the    *)
(* table.                                                                   *)
HandlerReady == pc = "insert" => WriteLockFree

(* The steps a handler has left, at most.                                   *)
StepsLeft ==
  CASE pc = "upload" -> 6
    [] pc \in {"write", "download"} -> 5
    [] pc \in {"insert", "unpack"} -> 4
    [] pc \in {"save", "unpackWrite"} -> 3
    [] pc \in {"saveWrite", "send"} -> 2
    [] pc \in {"ack", "remove", "badUpload", "list", "other"} -> 1
    [] OTHER -> 0

(* While nothing was looked up in vain a handler can go on, and each of its *)
(* steps leaves it fewer: it is over after six.  Nothing else moves it, but *)
(* the death of the process.                                                *)
HandlersRunOn ==
  /\ [](pc \in Handling /\ readers = 0 => HandlerReady)
  /\ [][GenHandler => StepsLeft' < StepsLeft]_vars
  /\ [][(pc \in Handling) => pc' = pc \/ StepsLeft' < StepsLeft]_vars

(* After a download that misses, no upload of this process is listed any    *)
(* more: the lock is never given back (DataManager.hpp:139-141), and only   *)
(* the next start finds it free.                                            *)
MissFreezesTable ==
  [][readers > 0 /\ pc' # "down" => readers' > 0 /\ table_' = table_]_vars

-----------------------------------------------------------------------------
(* What the documents and comments say, and the program does not do         *)

(* readme.md:57: a new upload inserts its row.  A lookup that misses leaves *)
(* the read lock held (DataManager.hpp:139-141), and Insert waits for ever. *)
UploadsAreInserted == (pc = "insert") ~> (pc \in {"save", "down"})

(* readme.md:57: storage.data loads when the program starts.                *)
StartSucceeds == pc # "dead"

(* Service.hpp:136: a failed unpacking is answered as a server error, so no *)
(* 200 reply follows one.                                                   *)
FailedUnpackIsAnError == \A t \in transfers : t.unpackOk
=============================================================================
