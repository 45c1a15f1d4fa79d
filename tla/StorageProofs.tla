----------------------------- MODULE StorageProofs -----------------------------
(***************************************************************************)
(* Theorems about the storage server, for all names, numbers of uploads,   *)
(* downloads, crashes and disk faults.                                     *)
(***************************************************************************)
EXTENDS StorageService, SequenceTheorems, TLAPS

Written == {"write", "insert", "save", "saveWrite", "ack"}

Found == {"unpack", "unpackWrite", "send", "remove"}

(* The file is open for an upload's bytes.                                   *)
Overwriting(p) == pc = "write" /\ req.path = p

(* What each place in a handler knows of its request.                        *)
RequestInv ==
  /\ pc \in Written \cup {"upload"} =>
       /\ req \in FileRequests /\ req.body \in Bodies /\ req.body.id = Len(uploads)
       /\ uploads[Len(uploads)] = req.path
  /\ pc \in Found \cup {"download"} => req \in FileRequests
  /\ pc \in Found => req.path \in DOMAIN table_ /\ req.body = table_[req.path]
  /\ pc \in Handling \ {"remove"} => owed = 1
  /\ pc \in Stopped \cup {"remove"} => owed = 0

(* A file is as its path says, and whole unless it is cut.                   *)
FilesInv ==
  /\ \A p \in Paths : files[p] # None =>
       /\ files[p].packed = ~StoredRaw(p)
       /\ files[p].body.id <= Len(uploads)
       /\ pc = "upload" => files[p].body.id < Len(uploads)
       /\ p \notin torn /\ ~Overwriting(p) => files[p].whole
  /\ pc \in Written => files[req.path] # None /\ files[req.path].body = req.body
  /\ pc = "send" /\ req.sound /\ NeedsUnpack(req.path) =>
       unpacked[req.path.name] = Unpacked(files[req.path])

(* Between an insertion and the end of its save, table and storage.data may  *)
(* differ.                                                                   *)
TableInv ==
  /\ ListedFilesExist
  /\ StorageData \notin torn /\ pc \notin {"save", "saveWrite"} \cup Stopped =>
       Saved = table_ /\ (blank <=> SavedBlank # "none")
  /\ pc \in {"save", "saveWrite", "ack"} =>
       req.path \in DOMAIN table_ /\ table_[req.path].id = Len(uploads)

(* What was answered is listed, saved and stored.                            *)
AckedInv ==
  \A p \in Paths : acked[p] # 0 =>
    /\ acked[p] <= Len(uploads)
    /\ pc \notin Stopped /\ StorageData \notin torn =>
         p \in DOMAIN table_ /\ table_[p].id >= acked[p]
    /\ pc # "saveWrite" /\ StorageData \notin torn =>
         p \in DOMAIN Saved /\ Saved[p].id >= acked[p]
    /\ p \notin torn /\ ~Overwriting(p) =>
         files[p] # None /\ files[p].body.id >= acked[p]

(* No row and no ETag is ahead of its file.                                  *)
AgeInv ==
  /\ \A p \in DOMAIN table_ : table_[p].id <= files[p].body.id
  /\ \A p \in DOMAIN Saved : Saved[p].id <= files[p].body.id
  /\ \A t \in transfers :
       /\ t.etag <= Len(uploads)
       /\ t.sound => t.content # None /\ t.etag <= t.content.body.id

(* Rows and files belong together, but while an upload is between the two.   *)
EtagInv ==
  crashes = 0 =>
    /\ pc = "down" => Saved = Empty
    /\ \A p \in DOMAIN table_ :
         ~(pc \in {"write", "insert"} /\ req.path = p) =>
           files[p].body.id = table_[p].id
    /\ \A t \in transfers : t.sound /\ ~t.replaced => t.etag = t.content.body.id

-----------------------------------------------------------------------------
(* Tables, files and requests                                                *)

LEMMA PathFacts ==
  /\ StorageData \notin Paths
  /\ \A p \in Paths : p.name \in Names /\ p.dir \in {"low", "deep"}
BY DEF StorageData, Paths

LEMMA BodyFacts ==
  \A b \in Bodies : b.id \in 1 .. MaxUploads /\ b.huge \in BOOLEAN
BY DEF Bodies

LEMMA TableFacts ==
  ASSUME NEW T \in Tables
  PROVE  /\ DOMAIN T \subseteq Paths
         /\ \A p \in DOMAIN T : T[p] \in Bodies
         /\ \A S \in SUBSET (DOMAIN T) : Restricted(T, S) \in Tables
                                         /\ DOMAIN Restricted(T, S) = S
<1>1. PICK D \in SUBSET Paths : T \in [D -> Bodies]
  BY DEF Tables
<1>2. DOMAIN T = D /\ \A p \in D : T[p] \in Bodies
  BY <1>1
<1>3. ASSUME NEW S \in SUBSET D
      PROVE  Restricted(T, S) \in Tables /\ DOMAIN Restricted(T, S) = S
  <2>1. Restricted(T, S) \in [S -> Bodies]
    BY <1>2 DEF Restricted
  <2>2. S \in SUBSET Paths
    OBVIOUS
  <2> QED
    BY <2>1, <2>2 DEF Tables, Restricted
<1> QED
  BY <1>2, <1>3

LEMMA AllRows ==
  ASSUME NEW T \in Tables
  PROVE  Restricted(T, DOMAIN T) = T
<1>1. PICK D \in SUBSET Paths : T \in [D -> Bodies]
  BY DEF Tables
<1> QED
  BY <1>1 DEF Restricted

LEMMA EmptyTable == Empty \in Tables /\ DOMAIN Empty = {}
<1>1. Empty \in [{} -> Bodies] /\ {} \in SUBSET Paths
  BY DEF Empty
<1> QED
  BY <1>1 DEF Tables, Empty

LEMMA RowFacts ==
  ASSUME DataTypeOK, NEW path \in Paths, NEW info \in Bodies
  PROVE  /\ WithRow(path, info) \in Tables
         /\ DOMAIN WithRow(path, info) = DOMAIN table_ \cup {path}
         /\ WithRow(path, info)[path] = info
         /\ \A p \in DOMAIN table_ : p # path => WithRow(path, info)[p] = table_[p]
<1>1. DOMAIN table_ \subseteq Paths /\ \A p \in DOMAIN table_ : table_[p] \in Bodies
  BY TableFacts DEF DataTypeOK
<1> DEFINE D == DOMAIN table_ \cup {path}
<1>2. WithRow(path, info) \in [D -> Bodies]
  BY <1>1 DEF WithRow
<1>3. D \in SUBSET Paths
  BY <1>1
<1>4. WithRow(path, info) \in Tables
  BY <1>2, <1>3 DEF Tables
<1> QED
  BY <1>4 DEF WithRow

LEMMA SavedType ==
  ASSUME DataTypeOK
  PROVE  /\ Saved \in Tables /\ SavedBlank \in Halves
         /\ DOMAIN Saved \subseteq Paths /\ \A p \in DOMAIN Saved : Saved[p] \in Bodies
         /\ DOMAIN table_ \subseteq Paths /\ \A p \in DOMAIN table_ : table_[p] \in Bodies
<1>1. Saved \in Tables
  BY EmptyTable DEF DataTypeOK, Saved, SavedTables
<1>2. SavedBlank \in Halves
  BY DEF DataTypeOK, SavedBlank, SavedTables, Halves
<1> QED
  BY <1>1, <1>2, TableFacts DEF DataTypeOK

LEMMA OpenRows ==
  ASSUME StorageOpen
  PROVE  \E rows \in SUBSET (DOMAIN table_), half \in Halves :
           storage_data' = [entries |-> Restricted(table_, rows), blank |-> half]
BY DEF StorageOpen, HalfRows, Halves

LEMMA ContentFacts ==
  ASSUME NEW c \in Contents
  PROVE  /\ c # None /\ c.body \in Bodies /\ c.packed \in BOOLEAN /\ c.whole \in BOOLEAN
         /\ Cut(c) \in Contents /\ Cut(c).body = c.body /\ Cut(c).packed = c.packed
         /\ ~Cut(c).whole
         /\ Unpacked(c) \in Contents /\ Unpacked(c).body = c.body
         /\ ~Unpacked(c).packed /\ Unpacked(c).whole = c.whole
<1>1. c # None
  BY NoneAssumption
<1>2. c.body \in Bodies /\ c.packed \in BOOLEAN /\ c.whole \in BOOLEAN
  BY DEF Contents
<1>3. /\ Cut(c) \in Contents /\ Cut(c).body = c.body /\ Cut(c).packed = c.packed
      /\ Cut(c).whole = FALSE
  BY DEF Contents, Cut
<1>4. /\ Unpacked(c) \in Contents /\ Unpacked(c).body = c.body
      /\ Unpacked(c).packed = FALSE /\ Unpacked(c).whole = c.whole
  BY DEF Contents, Unpacked
<1> QED
  BY <1>1, <1>2, <1>3, <1>4

LEMMA StoredFacts ==
  ASSUME NEW p \in Paths, NEW b \in Bodies
  PROVE  /\ Stored(p, b) \in Contents /\ Stored(p, b).body = b
         /\ Stored(p, b).packed = ~StoredRaw(p) /\ Stored(p, b).whole
BY DEF Stored, Contents, StoredRaw

LEMMA FileType ==
  ASSUME TypeOK, NEW p \in Paths
  PROVE  files[p] = None \/ files[p] \in Contents
BY DEF TypeOK

LEMMA InfoFacts ==
  ASSUME NEW c \in Contents, NEW info \in InfosOf(c)
  PROVE  info \in Bodies /\ info.id = c.body.id
<1>1. c.body \in Bodies
  BY ContentFacts
<1>2. info = c.body \/ info = [c.body EXCEPT !.huge = FALSE]
  BY DEF InfosOf
<1> QED
  BY <1>1, <1>2 DEF Bodies

LEMMA RequestFacts ==
  ASSUME NEW r \in FileRequests
  PROVE  /\ r # None /\ r.path \in Paths /\ r.op \in {"upload", "download"}
         /\ r.body \in Bodies \cup {None} /\ r.sound \in BOOLEAN /\ r.unpackOk \in BOOLEAN
         /\ r.path.name \in Names
BY NoneAssumption, PathFacts DEF FileRequests

-----------------------------------------------------------------------------
(* The types                                                                 *)

Base == TypeOK /\ RequestInv /\ FilesInv /\ TableInv

(* Nothing of the data changes; only the event loop moves.                   *)
LEMMA LoopTypes ==
  ASSUME TypeOK, UNCHANGED <<dataVars, diskVars>>,
         uploads' \in Seq(Paths), Len(uploads') <= MaxUploads,
         acked' \in [Paths -> 0 .. MaxUploads], torn' \subseteq Paths \cup {StorageData},
         transfers' \subseteq Transfers, crashes' \in 0 .. MaxCrashes,
         faults' \in 0 .. MaxFaults,
         pc' \in {"idle"} \cup Stopped \cup Handling,
         req' \in FileRequests \cup OtherRequests \cup {None},
         (req' = None) <=> (pc' \notin Handling),
         owed' \in {0, 1}, pc' = "idle" /\ faults' = 0 => owed' = 0
  PROVE  TypeOK'
<1>1. DataTypeOK'
  BY DEF TypeOK, DataTypeOK, dataVars
<1>2. /\ files' \in [Paths -> Contents \cup {None}]
      /\ unpacked' \in [Names -> Contents \cup {None}]
  BY DEF TypeOK, diskVars
<1> QED
  BY <1>1, <1>2 DEF TypeOK

(* The handler is over, and its reply is sent.                               *)
LEMMA Idle ==
  ASSUME pc' = "idle"
  PROVE  RequestInv'
BY DEF RequestInv, Written, Found, Handling, Stopped

LEMMA FaultType ==
  ASSUME TypeOK, Fault
  PROVE  faults' \in 0 .. MaxFaults /\ faults' # 0
<1>1. faults \in 0 .. MaxFaults /\ MaxFaults \in Nat
  BY ServiceAssumption DEF TypeOK
<1> QED
  BY <1>1 DEF Fault

LEMMA BoundTypes ==
  ASSUME TypeOK
  PROVE  /\ Len(uploads) \in Nat /\ MaxUploads \in Nat /\ uploads \in Seq(Paths)
         /\ Len(uploads) <= MaxUploads
         /\ faults \in 0 .. MaxFaults /\ crashes \in 0 .. MaxCrashes
         /\ transfers \subseteq Transfers /\ torn \subseteq Paths \cup {StorageData}
         /\ acked \in [Paths -> 0 .. MaxUploads]
<1>1. uploads \in Seq(Paths)
  BY DEF TypeOK
<1>2. Len(uploads) \in Nat
  BY <1>1, LenProperties
<1> QED
  BY <1>1, <1>2, DataAssumption DEF TypeOK

LEMMA ReceiveTypes ==
  ASSUME TypeOK, NEW r \in FileRequests \cup OtherRequests, Receive(r),
         uploads' \in Seq(Paths), Len(uploads') <= MaxUploads
  PROVE  /\ TypeOK' /\ owed' = 1 /\ pc' = r.op /\ req' = r
         /\ r.op \in {"upload", "download", "badUpload", "list", "other"}
<1>1. r.op \in {"upload", "download", "badUpload", "list", "other"}
  BY DEF FileRequests, OtherRequests
<1>2. r # None
  BY NoneAssumption
<1>3. /\ UNCHANGED <<dataVars, diskVars, transfers, acked, torn, crashes, faults>>
      /\ pc' = r.op /\ req' = r /\ owed' = 1
  BY DEF Receive, boundVars
<1>4. pc' \in Handling /\ pc' # "idle"
  BY <1>1, <1>3 DEF Handling
<1> QED
  BY <1>1, <1>2, <1>3, <1>4, BoundTypes, LoopTypes

LEMMA ReceiveUploadTypes ==
  ASSUME TypeOK, NEW path \in Paths, NEW huge \in Sizes, ReceiveUpload(path, huge)
  PROVE  TypeOK' /\ RequestInv'
<1> DEFINE n == Len(uploads) + 1
           b == [id |-> n, huge |-> huge]
           r == [op |-> "upload", path |-> path, body |-> b,
                 sound |-> TRUE, unpackOk |-> TRUE]
<1>1. /\ Len(uploads) < MaxUploads /\ uploads' = Append(uploads, path) /\ Receive(r)
  BY DEF ReceiveUpload
<1>2. uploads \in Seq(Paths) /\ Len(uploads) \in Nat /\ MaxUploads \in Nat
  BY BoundTypes
<1>3. /\ uploads' \in Seq(Paths) /\ Len(uploads') = n /\ uploads'[n] = path
  BY <1>1, <1>2, AppendProperties
<1>4. n \in 1 .. MaxUploads /\ n <= MaxUploads
  BY <1>1, <1>2
<1>5. huge \in BOOLEAN
  BY ServiceAssumption
<1> HIDE DEF n
<1>6. b \in Bodies /\ b.id = n
  BY <1>4, <1>5 DEF Bodies
<1> HIDE DEF b
<1>7. r \in FileRequests /\ r.op = "upload" /\ r.path = path /\ r.body = b
  BY <1>6 DEF FileRequests
<1> HIDE DEF r
<1>8. TypeOK' /\ owed' = 1 /\ pc' = "upload" /\ req' = r
  BY <1>1, <1>3, <1>4, <1>7, ReceiveTypes
<1>9. RequestInv'
  BY <1>3, <1>6, <1>7, <1>8 DEF RequestInv, Written, Found, Handling, Stopped
<1> QED
  BY <1>8, <1>9

LEMMA ReceiveDownloadTypes ==
  ASSUME TypeOK, NEW path \in Paths, ReceiveDownload(path)
  PROVE  TypeOK' /\ RequestInv'
<1> DEFINE r == [op |-> "download", path |-> path, body |-> None,
                 sound |-> TRUE, unpackOk |-> TRUE]
<1>1. Receive(r) /\ uploads' = uploads
  BY DEF ReceiveDownload
<1>2. r \in FileRequests /\ r.op = "download"
  BY DEF FileRequests
<1> HIDE DEF r
<1>3. TypeOK' /\ owed' = 1 /\ pc' = "download" /\ req' = r
  BY <1>1, <1>2, BoundTypes, ReceiveTypes
<1>4. RequestInv'
  BY <1>2, <1>3 DEF RequestInv, Written, Found, Handling, Stopped
<1> QED
  BY <1>3, <1>4

LEMMA ReceiveOtherTypes ==
  ASSUME TypeOK, NEW r \in OtherRequests, ReceiveOther(r)
  PROVE  TypeOK' /\ RequestInv'
<1>1. Receive(r) /\ uploads' = uploads
  BY DEF ReceiveOther
<1>2. r.op \in {"badUpload", "list", "other"}
  BY DEF OtherRequests
<1>3. TypeOK' /\ owed' = 1 /\ pc' = r.op
  BY <1>1, BoundTypes, ReceiveTypes
<1>4. RequestInv'
  BY <1>2, <1>3 DEF RequestInv, Written, Found, Handling, Stopped
<1> QED
  BY <1>3, <1>4

(* Refuse, ListShow, UploadOpenFails, SendNothing.                           *)
LEMMA AnswerTypes ==
  ASSUME TypeOK, RequestInv, NEW at \in Handling \ {"remove"}, Answer(at),
         faults' \in 0 .. MaxFaults
  PROVE  TypeOK' /\ RequestInv' /\ owed' = 0
<1>1. /\ UNCHANGED <<dataVars, diskVars, transfers, uploads, acked, torn, crashes>>
      /\ pc = at /\ pc' = "idle" /\ req' = None /\ owed' = owed - 1
  BY DEF Answer, Reply, historyVars
<1>2. owed = 1
  BY <1>1 DEF RequestInv
<1>3. owed' = 0 /\ pc' \notin Handling
  BY <1>1, <1>2 DEF Handling
<1> QED
  BY <1>1, <1>3, BoundTypes, LoopTypes, Idle

(* A handler goes on with its request, and the reply is still owed.          *)
LEMMA GoOn ==
  ASSUME TypeOK, RequestInv, pc \in Written \cup {"upload"}, pc' \in Written,
         UNCHANGED <<req, owed, uploads>>
  PROVE  /\ RequestInv'
         /\ pc' \in Handling /\ pc' # "idle"
         /\ req' \in FileRequests /\ req' # None /\ owed' = 1
<1>1. pc \in Handling \ {"remove"} /\ pc' \in Handling \ {"remove"}
      /\ pc' \notin Found \cup {"download"} /\ pc' \notin Stopped \cup {"remove"}
  BY DEF Written, Handling, Found, Stopped
<1>2. owed' = 1 /\ req' \in FileRequests
  BY <1>1 DEF RequestInv
<1>3. RequestInv'
  BY <1>1, <1>2 DEF RequestInv
<1> QED
  BY <1>1, <1>2, <1>3, RequestFacts DEF Handling

(* UploadWriteFails, SaveOpenFails, SaveWriteFails.                          *)
LEMMA ShrugTypes ==
  ASSUME TypeOK, RequestInv, NEW at \in Written, NEW cut \in Paths \cup {StorageData},
         NEW next \in Written, Shrug(at, cut, next)
  PROVE  TypeOK' /\ RequestInv'
<1>1. /\ UNCHANGED <<dataVars, diskVars, req, owed, transfers, uploads, acked, crashes>>
      /\ torn' = torn \cup {cut} /\ pc = at /\ pc' = next /\ Fault
  BY DEF Shrug
<1>2. /\ RequestInv' /\ pc' \in Handling /\ pc' # "idle"
      /\ req' \in FileRequests /\ req' # None /\ owed' = 1
  BY <1>1, GoOn
<1>3. torn' \subseteq Paths \cup {StorageData} /\ faults' \in 0 .. MaxFaults
  BY <1>1, BoundTypes, FaultType
<1>4. TypeOK'
  BY <1>1, <1>2, <1>3, BoundTypes, LoopTypes
<1> QED
  BY <1>2, <1>4

LEMMA ListTypes ==
  ASSUME TypeOK, ListShowNoTemplate
  PROVE  TypeOK' /\ RequestInv'
<1>1. /\ UNCHANGED <<dataVars, diskVars, transfers, uploads, acked, torn, crashes, owed>>
      /\ pc' = "idle" /\ req' = None /\ Fault
  BY DEF ListShowNoTemplate, Return, historyVars
<1>2. faults' \in 0 .. MaxFaults /\ faults' # 0 /\ pc' \notin Handling
  BY <1>1, FaultType DEF Handling
<1>3. owed' \in {0, 1}
  BY <1>1 DEF TypeOK
<1>4. TypeOK'
  BY <1>1, <1>2, <1>3, BoundTypes, LoopTypes
<1> QED
  BY <1>1, <1>4, Idle

(* The path and the body of the upload under way.                            *)
LEMMA UploadFacts ==
  ASSUME Base, pc \in Written \cup {"upload"}
  PROVE  /\ req \in FileRequests /\ req.path \in Paths /\ req.body \in Bodies
         /\ req.body.id = Len(uploads) /\ req.body.id \in 1 .. MaxUploads
         /\ Stored(req.path, req.body) \in Contents
         /\ pc \in Written => /\ files[req.path] \in Contents
                              /\ files[req.path].body = req.body
<1>1. req \in FileRequests /\ req.body \in Bodies /\ req.body.id = Len(uploads)
  BY DEF Base, RequestInv
<1>2. req.path \in Paths /\ req.body.id \in 1 .. MaxUploads
  BY <1>1, RequestFacts, BodyFacts
<1>3. pc \in Written => /\ files[req.path] \in Contents
                        /\ files[req.path].body = req.body
  BY <1>2, FileType DEF Base, FilesInv
<1> QED
  BY <1>1, <1>2, <1>3, StoredFacts

(* The row, the file and the copy of the download under way.                 *)
LEMMA DownloadFacts ==
  ASSUME Base, pc \in Found
  PROVE  /\ req \in FileRequests /\ req.path \in Paths /\ req.path.name \in Names
         /\ req.path \in DOMAIN table_ /\ req.body = table_[req.path]
         /\ req.body \in Bodies /\ files[req.path] \in Contents
         /\ Source = None \/ Source \in Contents
<1>1. /\ req \in FileRequests /\ req.path \in DOMAIN table_ /\ req.body = table_[req.path]
  BY DEF Base, RequestInv
<1>2. req.path \in Paths /\ req.path.name \in Names
  BY <1>1, RequestFacts
<1>3. files[req.path] # None
  BY <1>1 DEF Base, TableInv, ListedFilesExist
<1>4. files[req.path] \in Contents
  BY <1>2, <1>3, FileType DEF Base
<1>5. req.body \in Bodies
  BY <1>1, SavedType DEF Base, TypeOK
<1>6. Source = None \/ Source \in Contents
  <2>1. unpacked[req.path.name] \in Contents \cup {None}
    BY <1>2 DEF Base, TypeOK
  <2> QED
    BY <1>4, <2>1 DEF Source
<1> QED
  BY <1>1, <1>2, <1>4, <1>5, <1>6

(* A download that was being sent, before and after an upload changed it.    *)
LEMMA OverwrittenFacts ==
  ASSUME TypeOK, NEW path \in Paths, NEW c \in Contents, NEW s \in Overwritten(path, c)
  PROVE  \/ s \in transfers
         \/ /\ s \in Transfers /\ s.replaced /\ s.content = Cut(c)
            /\ \E t \in transfers : s.sound = t.sound /\ s.etag = t.etag
<1>1. PICK t \in transfers :
        s = IF ReadsStored(t, path) THEN [t EXCEPT !.content = Cut(c), !.replaced = TRUE]
            ELSE t
  BY DEF Overwritten
<1>2. t \in Transfers /\ Cut(c) \in Contents
  BY ContentFacts DEF TypeOK
<1>3. CASE ReadsStored(t, path)
  <2>1. s = [t EXCEPT !.content = Cut(c), !.replaced = TRUE]
    BY <1>1, <1>3
  <2>2. /\ s \in Transfers /\ s.replaced = TRUE /\ s.content = Cut(c)
        /\ s.sound = t.sound /\ s.etag = t.etag
    BY <1>2, <2>1 DEF Transfers
  <2> QED
    BY <2>2
<1> QED
  BY <1>1, <1>3

LEMMA RefilledFacts ==
  ASSUME TypeOK, NEW c \in Contents, NEW some \in SUBSET {t \in transfers : t.replaced},
         NEW s \in Refilled(c, some)
  PROVE  \/ s \in transfers
         \/ /\ s \in Transfers /\ s.replaced /\ s.content = c
            /\ \E t \in transfers : s.sound = t.sound /\ s.etag = t.etag
<1>1. PICK t \in transfers : s = IF t \in some THEN [t EXCEPT !.content = c] ELSE t
  BY DEF Refilled
<1>2. t \in Transfers
  BY DEF TypeOK
<1>3. CASE t \in some
  <2>1. s = [t EXCEPT !.content = c] /\ t.replaced
    BY <1>1, <1>3
  <2>2. /\ s \in Transfers /\ s.replaced = t.replaced /\ s.content = c
        /\ s.sound = t.sound /\ s.etag = t.etag
    BY <1>2, <2>1 DEF Transfers
  <2> QED
    BY <2>1, <2>2
<1> QED
  BY <1>1, <1>3

(* What UploadOpen and UploadWrite do to the downloads being sent.           *)
LEMMA SentFacts ==
  ASSUME Base, UploadOpen \/ UploadWrite, NEW s \in transfers'
  PROVE  \/ s \in transfers
         \/ /\ s \in Transfers /\ s.replaced
            /\ s.content \in Contents /\ s.content.body = req.body
            /\ \E t \in transfers : s.sound = t.sound /\ s.etag = t.etag
<1> DEFINE c == Stored(req.path, req.body)
<1>1. TypeOK /\ pc \in Written \cup {"upload"}
  BY DEF Base, UploadOpen, UploadWrite, Written
<1>2. /\ req.path \in Paths /\ c \in Contents /\ c.body = req.body
      /\ Cut(c) \in Contents /\ Cut(c).body = req.body
  <2>1. req.path \in Paths /\ req.body \in Bodies
    BY <1>1, UploadFacts
  <2>2. c \in Contents /\ c.body = req.body
    BY <2>1, StoredFacts
  <2> HIDE DEF c
  <2> QED
    BY <2>1, <2>2, ContentFacts
<1>3. CASE UploadOpen
  <2>1. s \in Overwritten(req.path, c)
    BY <1>3 DEF UploadOpen
  <2> HIDE DEF c
  <2> QED
    BY <1>1, <1>2, <2>1, OverwrittenFacts
<1>4. CASE UploadWrite
  <2>1. PICK some \in SUBSET {t \in transfers : t.replaced} : s \in Refilled(c, some)
    BY <1>4 DEF UploadWrite
  <2> HIDE DEF c
  <2> QED
    BY <1>1, <1>2, <2>1, RefilledFacts
<1> QED
  BY <1>3, <1>4

(* The steps of an upload that write its file.                               *)
LEMMA WriteFileTypes ==
  ASSUME Base, pc \in {"upload", "write"}, pc' \in Written,
         NEW c \in Contents, files' = [files EXCEPT ![req.path] = c],
         transfers' \subseteq Transfers, torn' \subseteq torn,
         UNCHANGED <<dataVars, unpacked, req, owed, uploads, acked, crashes, faults>>
  PROVE  TypeOK' /\ RequestInv'
<1>1. TypeOK /\ RequestInv /\ pc \in Written \cup {"upload"}
  BY DEF Base, Written
<1>2. /\ RequestInv' /\ pc' \in Handling /\ pc' # "idle"
      /\ req' \in FileRequests /\ req' # None /\ owed' = 1
  BY <1>1, GoOn
<1>3. files' \in [Paths -> Contents \cup {None}]
  BY <1>1 DEF TypeOK
<1>4. DataTypeOK'
  BY <1>1 DEF TypeOK, DataTypeOK, dataVars
<1>5. torn' \subseteq Paths \cup {StorageData}
  BY <1>1, BoundTypes
<1>6. TypeOK'
  BY <1>1, <1>2, <1>3, <1>4, <1>5 DEF TypeOK
<1> QED
  BY <1>2, <1>6

(* The steps of an upload that change the table or storage.data.             *)
LEMMA WriteTableTypes ==
  ASSUME Base, pc \in {"insert", "save", "saveWrite"}, pc' \in Written, DataTypeOK',
         UNCHANGED <<diskVars, req, owed, transfers, historyVars, boundVars>>
  PROVE  TypeOK' /\ RequestInv'
<1>1. TypeOK /\ RequestInv /\ pc \in Written \cup {"upload"}
  BY DEF Base, Written
<1>2. /\ RequestInv' /\ pc' \in Handling /\ pc' # "idle"
      /\ req' \in FileRequests /\ req' # None /\ owed' = 1
  BY <1>1, GoOn DEF historyVars
<1>3. TypeOK'
  BY <1>1, <1>2 DEF TypeOK, diskVars, historyVars, boundVars
<1> QED
  BY <1>2, <1>3

LEMMA UploadTypes ==
  ASSUME Base, Upload
  PROVE  TypeOK' /\ RequestInv'
<1>1. TypeOK /\ RequestInv /\ DataTypeOK
  BY DEF Base, TypeOK
<1>2. CASE UploadOpen
  <2>1. /\ pc = "upload" /\ pc' = "write"
        /\ files' = [files EXCEPT ![req.path] = Cut(Stored(req.path, req.body))]
        /\ UNCHANGED <<dataVars, unpacked, req, owed, uploads, acked, torn, crashes, faults>>
    BY <1>2 DEF UploadOpen, historyVars, boundVars
  <2>2. req.path \in Paths /\ Stored(req.path, req.body) \in Contents
    BY <2>1, UploadFacts
  <2>3. Cut(Stored(req.path, req.body)) \in Contents /\ transfers' \subseteq Transfers
    BY <1>1, <1>2, <2>2, ContentFacts, SentFacts DEF TypeOK
  <2>4. pc' \in Written
    BY <2>1 DEF Written
  <2> QED
    BY <2>1, <2>3, <2>4, WriteFileTypes
<1>3. CASE UploadOpenFails
  BY <1>1, <1>3, FaultType, AnswerTypes DEF UploadOpenFails, Handling
<1>4. CASE UploadWrite
  <2>1. /\ pc = "write" /\ pc' = "insert" /\ torn' = torn \ {req.path}
        /\ files' = [files EXCEPT ![req.path] = Stored(req.path, req.body)]
        /\ UNCHANGED <<dataVars, unpacked, req, owed, uploads, acked, crashes, faults>>
    BY <1>4 DEF UploadWrite, boundVars
  <2>2. pc \in Written /\ pc' \in Written
    BY <2>1 DEF Written
  <2>3. Stored(req.path, req.body) \in Contents /\ transfers' \subseteq Transfers
    BY <1>1, <1>4, <2>2, UploadFacts, SentFacts DEF TypeOK
  <2> QED
    BY <2>1, <2>2, <2>3, WriteFileTypes
<1>5. CASE UploadWriteFails
  <2>1. pc = "write" /\ "write" \in Written /\ "insert" \in Written
    BY <1>5 DEF UploadWriteFails, Shrug, Written
  <2>2. req.path \in Paths
    BY <2>1, UploadFacts
  <2> QED
    BY <1>1, <1>5, <2>1, <2>2, ShrugTypes DEF UploadWriteFails
<1>6. CASE UploadInsert
  <2>1. /\ pc = "insert" /\ pc' = "save" /\ pc \in Written /\ pc' \in Written
        /\ UNCHANGED <<diskVars, req, owed, transfers, historyVars, boundVars>>
    BY <1>6 DEF UploadInsert, AfterInsert, Written
  <2>2. PICK info \in InfosOf(files[req.path]) : InsertRow(req.path, info)
    BY <1>6 DEF UploadInsert
  <2>3. req.path \in Paths /\ info \in Bodies
    BY <2>1, UploadFacts, InfoFacts
  <2>4. DataTypeOK'
    BY <1>1, <2>2, <2>3, RowFacts DEF InsertRow, DataTypeOK
  <2> QED
    BY <2>1, <2>4, WriteTableTypes
<1>7. CASE SaveOpen
  <2>1. /\ pc = "save" /\ pc' = "saveWrite" /\ pc' \in Written
        /\ UNCHANGED <<diskVars, req, owed, transfers, historyVars, boundVars>>
    BY <1>7 DEF SaveOpen, Written
  <2>2. PICK rows \in SUBSET (DOMAIN table_), half \in Halves :
          storage_data' = [entries |-> Restricted(table_, rows), blank |-> half]
    BY <1>7, OpenRows DEF SaveOpen
  <2>3. Restricted(table_, rows) \in Tables
    BY <1>1, TableFacts DEF DataTypeOK
  <2>4. DataTypeOK'
    BY <1>1, <1>7, <2>2, <2>3 DEF SaveOpen, StorageOpen, DataTypeOK, SavedTables
  <2> QED
    BY <2>1, <2>4, WriteTableTypes
<1>8. CASE SaveWrite
  <2>1. /\ pc = "saveWrite" /\ pc' = "ack" /\ pc' \in Written
        /\ UNCHANGED <<diskVars, req, owed, transfers, historyVars, boundVars>>
    BY <1>8 DEF SaveWrite, Written
  <2>2. DataTypeOK'
    BY <1>1, <1>8 DEF SaveWrite, StorageWrite, GetAll, DataTypeOK, SavedTables, Halves
  <2> QED
    BY <2>1, <2>2, WriteTableTypes
<1>9. CASE SaveOpenFails \/ SaveWriteFails
  BY <1>1, <1>9, ShrugTypes DEF SaveOpenFails, SaveWriteFails, Written
<1>10. CASE UploadAck
  <2>1. /\ pc = "ack" /\ pc' = "idle" /\ req' = None /\ owed' = owed - 1
        /\ acked' = [acked EXCEPT ![req.path] = req.body.id]
        /\ UNCHANGED <<dataVars, diskVars, transfers, uploads, torn, crashes, faults>>
    BY <1>10 DEF UploadAck, Reply, boundVars
  <2>2. pc \in Written /\ pc \in Handling \ {"remove"} /\ pc' \notin Handling
    BY <2>1 DEF Written, Handling
  <2>3. owed' = 0
    BY <1>1, <2>1, <2>2 DEF RequestInv
  <2>4. acked' \in [Paths -> 0 .. MaxUploads]
    <3>1. req.path \in Paths /\ req.body.id \in 0 .. MaxUploads
      BY <2>2, UploadFacts
    <3> QED
      BY <1>1, <2>1, <3>1, BoundTypes
  <2> QED
    BY <1>1, <2>1, <2>2, <2>3, <2>4, BoundTypes, LoopTypes, Idle
<1> QED
  BY <1>2, <1>3, <1>4, <1>5, <1>6, <1>7, <1>8, <1>9, <1>10 DEF Upload

(* Where a download is with its row in hand.                                 *)
LEMMA FoundPlaces ==
  ASSUME pc' \in Found, req' \in FileRequests,
         req'.path \in DOMAIN table_', req'.body = table_'[req'.path],
         owed' = IF pc' = "remove" THEN 0 ELSE 1
  PROVE  /\ RequestInv'
         /\ pc' \in Handling /\ pc' # "idle" /\ req' # None /\ owed' \in {0, 1}
<1>1. pc' \in Handling /\ pc' # "idle"
  BY DEF Found, Handling
<1> QED
  BY <1>1, RequestFacts DEF RequestInv, Written, Found, Handling, Stopped

(* The steps of a download that write or remove the unpacked copy.           *)
LEMMA UnpackTypes ==
  ASSUME Base, pc \in {"unpack", "unpackWrite"}, NEW c \in Contents,
         pc' \in {"unpackWrite", "send"},
         unpacked' = [unpacked EXCEPT ![req.path.name] = c],
         UNCHANGED <<dataVars, files, req, owed, transfers, historyVars, boundVars>>
  PROVE  TypeOK' /\ RequestInv'
<1>1. TypeOK /\ pc \in Found /\ pc' \in Found /\ pc' # "remove" /\ owed = 1
  BY DEF Base, RequestInv, Found, Handling
<1>2. /\ RequestInv' /\ pc' \in Handling /\ pc' # "idle" /\ req' # None
      /\ req \in FileRequests
  BY <1>1, DownloadFacts, FoundPlaces DEF dataVars
<1>3. unpacked' \in [Names -> Contents \cup {None}]
  BY <1>1 DEF TypeOK
<1>4. DataTypeOK'
  BY <1>1 DEF TypeOK, DataTypeOK, dataVars
<1>5. TypeOK'
  BY <1>1, <1>2, <1>3, <1>4 DEF TypeOK, historyVars, boundVars
<1> QED
  BY <1>2, <1>5

LEMMA SendTypes ==
  ASSUME Base, NEW c \in Contents \cup {None}, NEW sound \in BOOLEAN, SendFile(c, sound),
         faults' \in 0 .. MaxFaults
  PROVE  TypeOK' /\ RequestInv'
<1> DEFINE t == [path |-> req.path, etag |-> req.body.id, content |-> c,
                 sound |-> sound, unpackOk |-> req.unpackOk, replaced |-> FALSE]
<1>1. /\ UNCHANGED <<dataVars, diskVars, uploads, acked, torn, crashes>>
      /\ pc = "send" /\ transfers' = transfers \cup {t} /\ owed' = owed - 1
      /\ pc' = (IF NeedsUnpack(req.path) THEN "remove" ELSE "idle")
      /\ req' = IF pc' = "idle" THEN None ELSE req
  BY DEF SendFile, Reply, historyVars
<1>2. TypeOK /\ RequestInv /\ pc \in Found /\ pc \in Handling \ {"remove"}
  BY <1>1 DEF Base, Found, Handling
<1>3. /\ req \in FileRequests /\ req.path \in Paths /\ req.body.id \in 1 .. MaxUploads
      /\ req.unpackOk \in BOOLEAN /\ req.path \in DOMAIN table_
      /\ req.body = table_[req.path] /\ req # None
  BY <1>2, DownloadFacts, RequestFacts, BodyFacts
<1>4. t \in Transfers
  BY <1>3 DEF Transfers
<1> HIDE DEF t
<1>5. transfers' \subseteq Transfers
  BY <1>1, <1>2, <1>4, BoundTypes
<1>6. owed' = 0
  BY <1>1, <1>2 DEF RequestInv
<1>7. CASE NeedsUnpack(req.path)
  <2>1. pc' = "remove" /\ req' = req /\ pc' \in Found
    BY <1>1, <1>7 DEF Found
  <2>2. RequestInv' /\ pc' \in Handling /\ pc' # "idle"
    BY <1>1, <1>3, <1>6, <2>1, FoundPlaces DEF dataVars
  <2> QED
    BY <1>1, <1>2, <1>3, <1>5, <1>6, <2>1, <2>2, BoundTypes, LoopTypes
<1>8. CASE ~NeedsUnpack(req.path)
  <2>1. pc' = "idle" /\ req' = None /\ pc' \notin Handling
    BY <1>1, <1>8 DEF Handling
  <2> QED
    BY <1>1, <1>2, <1>5, <1>6, <2>1, BoundTypes, LoopTypes, Idle
<1> QED
  BY <1>7, <1>8

LEMMA DownloadTypes ==
  ASSUME Base, Download
  PROVE  TypeOK' /\ RequestInv'
<1>1. TypeOK /\ RequestInv /\ DataTypeOK
  BY DEF Base, TypeOK
<1>2. readers \in Nat /\ \A path : ReadersAfterLookup(path) \in Nat
  BY <1>1 DEF DataTypeOK, ReadersAfterLookup
<1>3. CASE DownloadNotFound
  <2>1. /\ pc = "download" /\ pc' = "idle" /\ req' = None /\ owed' = owed - 1
        /\ readers' = ReadersAfterLookup(req.path)
        /\ UNCHANGED <<table_, blank, storage_data, diskVars, transfers, historyVars, boundVars>>
    BY <1>3 DEF DownloadNotFound, GetOneByURL, Reply
  <2>2. owed' = 0 /\ pc' \notin Handling
    BY <1>1, <2>1 DEF RequestInv, Handling
  <2>3. DataTypeOK'
    BY <1>1, <1>2, <2>1 DEF DataTypeOK
  <2>4. TypeOK'
    BY <1>1, <2>1, <2>2, <2>3 DEF TypeOK, diskVars, historyVars, boundVars
  <2> QED
    BY <2>1, <2>4, Idle
<1>4. CASE DownloadFound
  <2>1. /\ pc = "download" /\ pc' = (IF NeedsUnpack(req.path) THEN "unpack" ELSE "send")
        /\ req.path \in DOMAIN table_ /\ req' = [req EXCEPT !.body = table_[req.path]]
        /\ readers' = ReadersAfterLookup(req.path)
        /\ UNCHANGED <<table_, blank, storage_data, diskVars, transfers, owed, historyVars,
                       boundVars>>
    BY <1>4 DEF DownloadFound, GetOneByURL
  <2>2. req \in FileRequests /\ owed = 1
    BY <1>1, <2>1 DEF RequestInv, Handling
  <2>3. table_[req.path] \in Bodies
    BY <1>1, <2>1, SavedType
  <2>4. /\ req' \in FileRequests /\ req'.path = req.path
        /\ req'.body = table_[req.path]
    BY <2>1, <2>2, <2>3 DEF FileRequests
  <2>5. pc' \in Found /\ pc' # "remove"
    BY <2>1 DEF Found
  <2>6. RequestInv' /\ pc' \in Handling /\ pc' # "idle" /\ req' # None
    BY <2>1, <2>2, <2>4, <2>5, FoundPlaces
  <2>7. DataTypeOK'
    BY <1>1, <1>2, <2>1 DEF DataTypeOK
  <2>8. TypeOK'
    BY <1>1, <2>1, <2>2, <2>4, <2>6, <2>7 DEF TypeOK, diskVars, historyVars, boundVars
  <2> QED
    BY <2>6, <2>8
<1>5. CASE UnpackOpen
  <2>1. /\ pc = "unpack" /\ pc' = "unpackWrite" /\ pc \in Found
        /\ unpacked' = [unpacked EXCEPT ![req.path.name] =
                          Cut(Unpacked(files[req.path]))]
        /\ UNCHANGED <<dataVars, files, req, owed, transfers, historyVars, boundVars>>
    BY <1>5 DEF UnpackOpen, Unpack, Found
  <2>2. Cut(Unpacked(files[req.path])) \in Contents
    BY <2>1, DownloadFacts, ContentFacts
  <2> QED
    BY <2>1, <2>2, UnpackTypes
<1>6. CASE UnpackWrite
  <2>1. /\ pc = "unpackWrite" /\ pc' = "send" /\ pc \in Found
        /\ unpacked' = [unpacked EXCEPT ![req.path.name] = Unpacked(files[req.path])]
        /\ UNCHANGED <<dataVars, files, req, owed, transfers, historyVars, boundVars>>
    BY <1>6 DEF UnpackWrite, Unpack, Found
  <2>2. Unpacked(files[req.path]) \in Contents
    BY <2>1, DownloadFacts, ContentFacts
  <2> QED
    BY <2>1, <2>2, UnpackTypes
<1>7. CASE UnpackFails
  <2>1. /\ pc \in {"unpack", "unpackWrite"} /\ pc' = "send" /\ Fault
        /\ req' = [req EXCEPT !.sound = FALSE, !.unpackOk = FALSE]
        /\ UNCHANGED <<dataVars, diskVars, owed, transfers, uploads, acked, torn, crashes>>
    BY <1>7 DEF UnpackFails, historyVars
  <2>2. pc \in Found /\ pc' \in Found /\ pc' # "remove" /\ owed = 1
    BY <1>1, <2>1 DEF Found, RequestInv, Handling
  <2>3. /\ req \in FileRequests /\ req.path \in DOMAIN table_ /\ req.body = table_[req.path]
    BY <2>2, DownloadFacts
  <2>4. req' \in FileRequests /\ req'.path = req.path /\ req'.body = req.body
    BY <2>1, <2>3 DEF FileRequests
  <2>5. RequestInv' /\ pc' \in Handling /\ pc' # "idle" /\ req' # None
    BY <2>1, <2>2, <2>3, <2>4, FoundPlaces DEF dataVars
  <2> QED
    BY <1>1, <2>1, <2>2, <2>4, <2>5, BoundTypes, FaultType, LoopTypes
<1>8. CASE SendNothing
  <2>1. faults' \in 0 .. MaxFaults
    BY <1>1, <1>8, FaultType, BoundTypes DEF SendNothing
  <2> QED
    BY <1>1, <1>8, <2>1, AnswerTypes DEF SendNothing, Handling
<1>9. CASE Send \/ SendAddFails
  <2>1. pc = "send" /\ Source # None /\ pc \in Found
    BY <1>9 DEF Send, SendAddFails, SendFile, Found
  <2>2. Source \in Contents /\ req.sound \in BOOLEAN
    BY <2>1, DownloadFacts, ContentFacts, RequestFacts
  <2>3. CASE Send
    <3>1. /\ SendFile(Source, req.sound /\ req.path \notin torn)
          /\ (req.sound /\ req.path \notin torn) \in BOOLEAN
          /\ faults' \in 0 .. MaxFaults
      BY <1>1, <2>3, BoundTypes DEF Send
    <3> QED
      BY <2>2, <3>1, SendTypes
  <2>4. CASE SendAddFails
    <3>1. SendFile(None, FALSE) /\ faults' \in 0 .. MaxFaults
      BY <1>1, <2>4, FaultType DEF SendAddFails
    <3> QED
      BY <2>2, <3>1, SendTypes
  <2> QED
    BY <1>9, <2>3, <2>4
<1>10. CASE Remove
  <2>1. /\ pc = "remove" /\ pc' = "idle" /\ req' = None /\ owed' = owed
        /\ unpacked' = [unpacked EXCEPT ![req.path.name] = None]
        /\ UNCHANGED <<dataVars, files, transfers, historyVars, boundVars>>
    BY <1>10 DEF Remove, Return
  <2>2. owed' = 0 /\ pc' \notin Handling
    BY <1>1, <2>1 DEF RequestInv, Handling
  <2>3. unpacked' \in [Names -> Contents \cup {None}]
    BY <1>1, <2>1 DEF TypeOK
  <2>4. DataTypeOK'
    BY <1>1, <2>1 DEF DataTypeOK, dataVars
  <2>5. TypeOK'
    BY <1>1, <2>1, <2>2, <2>3, <2>4 DEF TypeOK, historyVars, boundVars
  <2> QED
    BY <2>1, <2>5, Idle
<1> QED
  BY <1>3, <1>4, <1>5, <1>6, <1>7, <1>8, <1>9, <1>10 DEF Download

LEMMA ProcessTypes ==
  ASSUME Base, Start \/ StartUnread \/ StartThrows \/ Crash
  PROVE  TypeOK' /\ RequestInv'
<1>1. TypeOK /\ RequestInv /\ DataTypeOK
  BY DEF Base, TypeOK
<1>2. CASE Start
  <2>1. /\ pc = "down" /\ pc' = "idle" /\ table_' = Saved /\ blank' \in BOOLEAN
        /\ UNCHANGED <<storage_data, readers, diskVars, req, owed, transfers, historyVars,
                       boundVars>>
    BY <1>2 DEF Start, InitLoad
  <2>2. owed = 0 /\ pc \notin Handling /\ pc' \notin Handling
    BY <1>1, <2>1 DEF RequestInv, Stopped, Handling
  <2>3. DataTypeOK'
    BY <1>1, <2>1, SavedType DEF DataTypeOK
  <2>4. TypeOK'
    BY <1>1, <2>1, <2>2, <2>3 DEF TypeOK, diskVars, historyVars, boundVars
  <2> QED
    BY <2>1, <2>4, Idle
<1>3. CASE StartUnread
  <2>1. /\ pc = "down" /\ pc' = "idle" /\ Fault /\ torn' = torn \cup {StorageData}
        /\ UNCHANGED <<dataVars, diskVars, req, owed, transfers, uploads, acked, crashes>>
    BY <1>3 DEF StartUnread, Shrug
  <2>2. owed = 0 /\ pc \notin Handling /\ pc' \notin Handling /\ req = None
    BY <1>1, <2>1 DEF RequestInv, Stopped, Handling, TypeOK
  <2>3. torn' \subseteq Paths \cup {StorageData}
    BY <1>1, <2>1, BoundTypes
  <2> QED
    BY <1>1, <2>1, <2>2, <2>3, BoundTypes, FaultType, LoopTypes, Idle
<1>4. CASE StartThrows
  <2>1. /\ pc = "down" /\ pc' = "dead"
        /\ UNCHANGED <<dataVars, diskVars, req, owed, transfers, historyVars, boundVars>>
    BY <1>4 DEF StartThrows
  <2>2. /\ owed = 0 /\ pc \notin Handling /\ pc' \notin Handling /\ req = None
        /\ pc' \in Stopped
    BY <1>1, <2>1 DEF RequestInv, Stopped, Handling, TypeOK
  <2>3. TypeOK'
    BY <1>1, <2>1, <2>2, BoundTypes, LoopTypes DEF historyVars, boundVars
  <2>4. RequestInv'
    BY <2>1, <2>2 DEF RequestInv, Written, Found, Handling, Stopped
  <2> QED
    BY <2>3, <2>4
<1>5. CASE Crash
  <2>1. /\ pc' = "down" /\ req' = None /\ transfers' = {} /\ owed' = 0
        /\ crashes < MaxCrashes /\ crashes' = crashes + 1 /\ torn' = torn \cup CutByDeath
        /\ table_' = Empty /\ blank' = FALSE /\ readers' = 0
        /\ UNCHANGED <<storage_data, diskVars, uploads, acked, faults>>
    BY <1>5 DEF Crash, Forget
  <2>2. CutByDeath \subseteq Paths \cup {StorageData}
    <3>1. CASE pc = "write"
      <4>1. req.path \in Paths
        BY <3>1, UploadFacts DEF Written
      <4> QED
        BY <3>1, <4>1 DEF CutByDeath
    <3>2. CASE pc = "saveWrite"
      BY <3>2 DEF CutByDeath
    <3>3. CASE pc # "write" /\ pc # "saveWrite"
      BY <3>3 DEF CutByDeath
    <3> QED
      BY <3>1, <3>2, <3>3
  <2>3. crashes' \in 0 .. MaxCrashes /\ torn' \subseteq Paths \cup {StorageData}
    BY <1>1, <2>1, <2>2, BoundTypes, ServiceAssumption
  <2>4. DataTypeOK'
    BY <1>1, <2>1, EmptyTable DEF DataTypeOK
  <2>5. pc' \in Stopped /\ pc' \notin Handling /\ pc' # "idle" /\ pc' \notin Written
        /\ pc' \notin Found /\ pc' # "download" /\ pc' # "upload"
    BY <2>1 DEF Stopped, Handling, Written, Found
  <2>6. TypeOK'
    BY <1>1, <2>1, <2>3, <2>4, <2>5 DEF TypeOK, diskVars
  <2>7. RequestInv'
    BY <2>1, <2>5 DEF RequestInv
  <2> QED
    BY <2>6, <2>7
<1> QED
  BY <1>2, <1>3, <1>4, <1>5

LEMMA NextTypes == Base /\ [Next]_vars => TypeOK' /\ RequestInv'
<1> SUFFICES ASSUME Base, [Next]_vars PROVE TypeOK' /\ RequestInv'
  OBVIOUS
<1>1. TypeOK /\ RequestInv
  BY DEF Base
<1>2. CASE Arrive
  BY <1>1, <1>2, ReceiveUploadTypes, ReceiveDownloadTypes, ReceiveOtherTypes DEF Arrive
<1>3. CASE GenHandler
  <2>1. CASE Refuse
    <3>1. PICK at \in {"badUpload", "other"} : Answer(at)
      BY <2>1 DEF Refuse
    <3>2. at \in Handling \ {"remove"} /\ faults' \in 0 .. MaxFaults
      BY <1>1, <2>1, BoundTypes DEF Refuse, Handling
    <3> QED
      BY <1>1, <3>1, <3>2, AnswerTypes
  <2>2. CASE ListShow
    BY <1>1, <2>2, BoundTypes, AnswerTypes DEF ListShow, Handling
  <2> QED
    BY <1>1, <1>3, <2>1, <2>2, ListTypes, UploadTypes, DownloadTypes DEF GenHandler
<1>4. CASE \E t \in transfers : TransferEnds(t)
  <2>1. /\ transfers' \subseteq transfers
        /\ UNCHANGED <<dataVars, diskVars, loopVars, historyVars, boundVars>>
    BY <1>4 DEF TransferEnds
  <2>2. TypeOK'
    BY <1>1, <2>1 DEF TypeOK, DataTypeOK, dataVars, diskVars, loopVars, historyVars, boundVars
  <2>3. RequestInv'
    BY <1>1, <2>1 DEF RequestInv, dataVars, loopVars, historyVars
  <2> QED
    BY <2>2, <2>3
<1>5. CASE Start \/ StartUnread \/ StartThrows \/ Crash
  BY <1>5, ProcessTypes
<1>6. CASE UNCHANGED vars
  BY <1>1, <1>6 DEF vars, TypeOK, DataTypeOK, RequestInv, dataVars, diskVars, loopVars,
                    historyVars, boundVars
<1> QED
  BY <1>2, <1>3, <1>4, <1>5, <1>6 DEF Next

-----------------------------------------------------------------------------
(* The files                                                                 *)

CopyInv ==
  pc = "send" /\ req.sound /\ NeedsUnpack(req.path) =>
    unpacked[req.path.name] = Unpacked(files[req.path])

(* Steps that leave the files alone, but may cut the one being written.      *)
LEMMA FilesStay ==
  ASSUME FilesInv, UNCHANGED <<files, uploads>>, pc' # "upload", torn \subseteq torn',
         \A p \in Paths : Overwriting(p) => p \in torn' \/ Overwriting(p)',
         pc' \in Written => pc \in Written /\ req' = req,
         CopyInv'
  PROVE  FilesInv'
<1>1. ASSUME NEW p \in Paths, files[p] # None
      PROVE  /\ files[p].packed = ~StoredRaw(p)
             /\ files[p].body.id <= Len(uploads)
             /\ p \notin torn' /\ ~Overwriting(p)' => files[p].whole
  BY <1>1 DEF FilesInv
<1>2. pc' \in Written => files[req'.path] # None /\ files[req'.path].body = req'.body
  BY DEF FilesInv
<1> QED
  BY <1>1, <1>2 DEF FilesInv, CopyInv

(* Steps that leave files and requests alone.                                *)
LEMMA FilesSame ==
  ASSUME FilesInv, UNCHANGED <<files, unpacked, uploads, torn, pc, req>>
  PROVE  FilesInv'
BY DEF FilesInv, Overwriting, Source

(* Where no file is being written, and none will be.                         *)
LEMMA FilesQuiet ==
  ASSUME FilesInv, UNCHANGED <<files, uploads>>, torn' = torn, pc # "write",
         pc' \notin Written \cup {"upload", "send"}
  PROVE  FilesInv'
<1>1. CopyInv' /\ pc' # "upload" /\ pc' \notin Written
  BY DEF CopyInv
<1>2. \A p \in Paths : ~Overwriting(p)
  BY DEF Overwriting
<1> QED
  BY <1>1, <1>2, FilesStay

LEMMA FilesReceive ==
  ASSUME Base, Arrive
  PROVE  FilesInv'
<1>1. TypeOK /\ FilesInv /\ pc = "idle" /\ UNCHANGED <<files, torn>>
  BY DEF Base, Arrive, ReceiveUpload, ReceiveDownload, ReceiveOther, Receive, diskVars
<1>2. CASE \E path \in Paths, huge \in Sizes : ReceiveUpload(path, huge)
  <2>1. PICK path \in Paths, huge \in Sizes : ReceiveUpload(path, huge)
    BY <1>2
  <2>2. pc' = "upload" /\ uploads' = Append(uploads, path)
    BY <2>1 DEF ReceiveUpload, Receive
  <2>3. Len(uploads') = Len(uploads) + 1 /\ Len(uploads) \in Nat
    BY <1>1, <2>2, BoundTypes, AppendProperties
  <2>4. \A p \in Paths : ~Overwriting(p) /\ ~Overwriting(p)'
    BY <1>1, <2>2 DEF Overwriting
  <2>5. ASSUME NEW p \in Paths, files[p] # None
        PROVE  /\ files[p].packed = ~StoredRaw(p)
               /\ files[p].body.id < Len(uploads') /\ files[p].body.id <= Len(uploads')
               /\ p \notin torn => files[p].whole
    <3>1. /\ files[p].packed = ~StoredRaw(p) /\ files[p].body.id <= Len(uploads)
          /\ p \notin torn => files[p].whole
      BY <1>1, <2>4, <2>5 DEF FilesInv
    <3>2. files[p].body.id \in Nat
      BY <1>1, <2>5, FileType, ContentFacts, BodyFacts
    <3> QED
      BY <2>3, <3>1, <3>2
  <2>6. pc' \notin Written /\ pc' # "send"
    BY <2>2 DEF Written
  <2> QED
    BY <1>1, <2>4, <2>5, <2>6 DEF FilesInv
<1>3. CASE \E path \in Paths : ReceiveDownload(path)
  <2>1. pc' = "download" /\ uploads' = uploads
    BY <1>3 DEF ReceiveDownload, Receive
  <2>2. pc' \notin Written \cup {"upload", "send"}
    BY <2>1 DEF Written
  <2> QED
    BY <1>1, <2>1, <2>2, FilesQuiet
<1>4. CASE \E r \in OtherRequests : ReceiveOther(r)
  <2>1. pc' \in {"badUpload", "list", "other"} /\ uploads' = uploads
    BY <1>4 DEF ReceiveOther, Receive, OtherRequests
  <2>2. pc' \notin Written \cup {"upload", "send"}
    BY <2>1 DEF Written
  <2> QED
    BY <1>1, <2>1, <2>2, FilesQuiet
<1> QED
  BY <1>2, <1>3, <1>4 DEF Arrive

(* UploadOpen and UploadWrite: the file of the request gets its body.        *)
LEMMA FilesWritten ==
  ASSUME Base, pc \in {"upload", "write"}, pc' \in Written, req' = req, uploads' = uploads,
         NEW c \in Contents, files' = [files EXCEPT ![req.path] = c],
         c.body = req.body, c.packed = ~StoredRaw(req.path),
         c.whole \/ pc' = "write", torn \subseteq torn' \cup {req.path}
  PROVE  FilesInv'
<1>1. TypeOK /\ FilesInv /\ pc \in Written \cup {"upload"}
  BY DEF Base, Written
<1>2. req.path \in Paths /\ req.body.id = Len(uploads) /\ Len(uploads) \in Nat
  BY <1>1, UploadFacts, BoundTypes
<1>3. /\ files'[req.path] = c /\ c # None
      /\ \A p \in Paths : p # req.path => files'[p] = files[p]
  BY <1>1, <1>2, ContentFacts DEF TypeOK
<1>4. pc' # "upload" /\ pc' # "send"
  BY DEF Written
<1>5. ASSUME NEW p \in Paths, files'[p] # None
      PROVE  /\ files'[p].packed = ~StoredRaw(p)
             /\ files'[p].body.id <= Len(uploads)
             /\ p \notin torn' /\ ~Overwriting(p)' => files'[p].whole
  <2>1. CASE p = req.path
    BY <1>2, <1>3, <2>1 DEF Overwriting
  <2>2. CASE p # req.path
    <3>1. ~Overwriting(p) /\ files'[p] = files[p]
      BY <1>3, <2>2 DEF Overwriting
    <3> QED
      BY <1>1, <1>5, <2>2, <3>1 DEF FilesInv
  <2> QED
    BY <2>1, <2>2
<1> QED
  BY <1>3, <1>4, <1>5 DEF FilesInv

LEMMA FilesUpload ==
  ASSUME Base, Upload
  PROVE  FilesInv'
<1>1. TypeOK /\ FilesInv
  BY DEF Base
<1>2. CASE UploadOpen
  <2>1. /\ pc = "upload" /\ pc' = "write" /\ UNCHANGED <<req, uploads, torn>>
        /\ files' = [files EXCEPT ![req.path] = Cut(Stored(req.path, req.body))]
    BY <1>2 DEF UploadOpen, historyVars
  <2>2. req.path \in Paths /\ req.body \in Bodies /\ pc' \in Written
    BY <2>1, UploadFacts DEF Written
  <2> DEFINE c == Stored(req.path, req.body)
  <2>3. c \in Contents /\ c.body = req.body /\ c.packed = ~StoredRaw(req.path)
    BY <2>2, StoredFacts
  <2> HIDE DEF c
  <2>4. /\ Cut(c) \in Contents /\ Cut(c).body = req.body
        /\ Cut(c).packed = ~StoredRaw(req.path)
    BY <2>3, ContentFacts
  <2>5. files' = [files EXCEPT ![req.path] = Cut(c)]
    BY <2>1 DEF c
  <2> QED
    BY <2>1, <2>2, <2>4, <2>5, FilesWritten
<1>3. CASE UploadWrite
  <2>1. /\ pc = "write" /\ pc' = "insert" /\ UNCHANGED <<req, uploads>>
        /\ torn' = torn \ {req.path}
        /\ files' = [files EXCEPT ![req.path] = Stored(req.path, req.body)]
    BY <1>3 DEF UploadWrite
  <2>2. req.path \in Paths /\ req.body \in Bodies /\ pc' \in Written
    BY <2>1, UploadFacts DEF Written
  <2> DEFINE c == Stored(req.path, req.body)
  <2>3. c \in Contents /\ c.body = req.body /\ c.packed = ~StoredRaw(req.path) /\ c.whole
    BY <2>2, StoredFacts
  <2>4. files' = [files EXCEPT ![req.path] = c]
    BY <2>1
  <2> HIDE DEF c
  <2> QED
    BY <2>1, <2>2, <2>3, <2>4, FilesWritten
<1>4. CASE UploadWriteFails
  <2>1. /\ pc = "write" /\ pc' = "insert" /\ torn' = torn \cup {req.path}
        /\ UNCHANGED <<files, uploads, req>>
    BY <1>4 DEF UploadWriteFails, Shrug, diskVars
  <2>2. pc \in Written /\ CopyInv'
    BY <2>1 DEF Written, CopyInv
  <2>3. \A p \in Paths : Overwriting(p) => p \in torn'
    BY <2>1 DEF Overwriting
  <2> QED
    BY <1>1, <2>1, <2>2, <2>3, FilesStay
<1>5. CASE UploadInsert \/ SaveOpen \/ SaveWrite \/ SaveOpenFails \/ SaveWriteFails
  <2>1. /\ pc \in {"insert", "save", "saveWrite"} /\ pc' \in {"save", "saveWrite", "ack"}
        /\ torn \subseteq torn' /\ UNCHANGED <<files, uploads, req>>
    BY <1>5 DEF UploadInsert, AfterInsert, SaveOpen, SaveWrite, SaveOpenFails,
                SaveWriteFails, Shrug, diskVars, historyVars
  <2>2. pc \in Written /\ CopyInv' /\ pc' # "upload"
    BY <2>1 DEF Written, CopyInv
  <2>3. \A p \in Paths : ~Overwriting(p)
    BY <2>1 DEF Overwriting
  <2> QED
    BY <1>1, <2>1, <2>2, <2>3, FilesStay
<1>6. CASE UploadOpenFails \/ UploadAck
  <2>1. /\ pc # "write" /\ pc' = "idle" /\ UNCHANGED <<files, uploads, torn>>
    BY <1>6 DEF UploadOpenFails, UploadAck, Answer, Reply, diskVars, historyVars
  <2>2. pc' \notin Written \cup {"upload", "send"}
    BY <2>1 DEF Written
  <2> QED
    BY <1>1, <2>1, <2>2, FilesQuiet
<1> QED
  BY <1>2, <1>3, <1>4, <1>5, <1>6 DEF Upload

LEMMA FilesDownload ==
  ASSUME Base, Download
  PROVE  FilesInv'
<1>1. TypeOK /\ FilesInv
  BY DEF Base
<1>2. /\ pc \in {"download", "unpack", "unpackWrite", "send", "remove"}
      /\ UNCHANGED <<files, uploads, torn>>
      /\ pc' \in {"idle", "unpack", "unpackWrite", "send", "remove"}
  BY DEF Download, DownloadNotFound, DownloadFound, UnpackOpen, UnpackWrite, UnpackFails,
         Unpack, SendNothing, Send, SendAddFails, SendFile, Remove, Answer, Reply, Return,
         diskVars, historyVars
<1>3. CopyInv'
  <2>1. CASE DownloadFound
    <3>1. /\ req' = [req EXCEPT !.body = table_[req.path]]
          /\ pc' = IF NeedsUnpack(req.path) THEN "unpack" ELSE "send"
          /\ pc = "download"
      BY <2>1 DEF DownloadFound
    <3>2. req \in FileRequests
      BY <3>1 DEF Base, RequestInv
    <3>3. req'.path = req.path
      BY <3>1, <3>2 DEF FileRequests
    <3> QED
      BY <3>1, <3>3 DEF CopyInv
  <2>2. CASE UnpackWrite
    <3>1. /\ unpacked' = [unpacked EXCEPT ![req.path.name] = Unpacked(files[req.path])]
          /\ UNCHANGED <<files, req>> /\ pc = "unpackWrite"
      BY <2>2 DEF UnpackWrite, Unpack
    <3>2. req.path.name \in Names
      BY <3>1, DownloadFacts DEF Found
    <3>3. unpacked'[req.path.name] = Unpacked(files[req.path])
      BY <1>1, <3>1, <3>2 DEF TypeOK
    <3> QED
      BY <3>1, <3>3 DEF CopyInv
  <2>3. CASE UnpackFails
    <3>1. req' = [req EXCEPT !.sound = FALSE, !.unpackOk = FALSE]
          /\ pc \in {"unpack", "unpackWrite"}
      BY <2>3 DEF UnpackFails
    <3>2. req \in FileRequests
      BY <3>1, DownloadFacts DEF Found
    <3>3. ~req'.sound
      BY <3>1, <3>2 DEF FileRequests
    <3> QED
      BY <3>3 DEF CopyInv
  <2>4. CASE ~DownloadFound /\ ~UnpackWrite /\ ~UnpackFails
    <3>1. pc' # "send"
      BY <2>4 DEF Download, DownloadNotFound, UnpackOpen, Unpack, SendNothing, Send,
                  SendAddFails, SendFile, Remove, Answer, Reply, Return
    <3> QED
      BY <3>1 DEF CopyInv
  <2> QED
    BY <2>1, <2>2, <2>3, <2>4
<1>4. \A p \in Paths : ~Overwriting(p)
  BY <1>2 DEF Overwriting
<1>5. pc' \notin Written /\ pc' # "upload"
  BY <1>2 DEF Written
<1> QED
  BY <1>1, <1>2, <1>3, <1>4, <1>5, FilesStay

LEMMA FilesProcess ==
  ASSUME Base, Start \/ StartUnread \/ StartThrows \/ Crash
  PROVE  FilesInv'
<1>1. FilesInv
  BY DEF Base
<1>2. CASE Start \/ StartThrows
  <2>1. pc = "down" /\ pc' \in {"idle", "dead"} /\ UNCHANGED <<files, uploads, torn>>
    BY <1>2 DEF Start, StartThrows, diskVars, historyVars
  <2>2. pc' \notin Written \cup {"upload", "send"}
    BY <2>1 DEF Written
  <2> QED
    BY <1>1, <2>1, <2>2, FilesQuiet
<1>3. CASE StartUnread \/ Crash
  <2>1. /\ pc' \in {"idle", "down"} /\ torn \subseteq torn' /\ UNCHANGED <<files, uploads>>
        /\ pc = "write" => torn' = torn \cup {req.path}
    BY <1>3 DEF StartUnread, Shrug, Crash, CutByDeath, diskVars
  <2>2. CopyInv' /\ pc' \notin Written \cup {"upload"}
    BY <2>1 DEF CopyInv, Written
  <2>3. \A p \in Paths : Overwriting(p) => p \in torn'
    BY <2>1 DEF Overwriting
  <2> QED
    BY <1>1, <2>1, <2>2, <2>3, FilesStay
<1> QED
  BY <1>2, <1>3

LEMMA NextFiles == Base /\ [Next]_vars => FilesInv'
<1> SUFFICES ASSUME Base, [Next]_vars PROVE FilesInv'
  OBVIOUS
<1>1. FilesInv
  BY DEF Base
<1>2. CASE Refuse \/ ListShow \/ ListShowNoTemplate
  <2>1. /\ pc \in {"badUpload", "other", "list"} /\ pc' = "idle"
        /\ UNCHANGED <<files, uploads, torn>>
    BY <1>2 DEF Refuse, ListShow, ListShowNoTemplate, Answer, Reply, Return, diskVars,
                historyVars
  <2>2. pc' \notin Written \cup {"upload", "send"}
    BY <2>1 DEF Written
  <2> QED
    BY <1>1, <2>1, <2>2, FilesQuiet
<1>3. CASE (\E t \in transfers : TransferEnds(t)) \/ UNCHANGED vars
  BY <1>1, <1>3, FilesSame DEF TransferEnds, vars, diskVars, loopVars, historyVars
<1> QED
  BY <1>2, <1>3, FilesReceive, FilesUpload, FilesDownload, FilesProcess
  DEF Next, GenHandler

-----------------------------------------------------------------------------
(* The table and storage.data                                                *)

Saving == {"save", "saveWrite"}

LEMMA NewSaved ==
  ASSUME NEW T \in Tables, NEW h \in Halves,
         storage_data' = [entries |-> T, blank |-> h]
  PROVE  Saved' = T /\ SavedBlank' = h
<1>1. /\ storage_data' \in SavedTables
      /\ storage_data'.entries = T /\ storage_data'.blank = h
  BY DEF SavedTables
<1>2. storage_data' # None
  BY <1>1, NoneIsNoTable
<1> QED
  BY <1>1, <1>2 DEF Saved, SavedBlank

LEMMA SameSaved ==
  ASSUME storage_data' = storage_data
  PROVE  Saved' = Saved /\ SavedBlank' = SavedBlank
BY DEF Saved, SavedBlank

(* Every row with a url in storage.data is copied from the table.            *)
LEMMA SavedRows ==
  ASSUME DataTypeOK, SaveOpen \/ SaveWrite
  PROVE  /\ DOMAIN Saved' \subseteq DOMAIN table_
         /\ \A p \in DOMAIN Saved' : Saved'[p] = table_[p]
         /\ SavedBlank' = "huge" => \E p \in DOMAIN table_ : table_[p].huge
<1>1. PICK rows \in SUBSET (DOMAIN table_), half \in Halves :
        /\ storage_data' = [entries |-> Restricted(table_, rows), blank |-> half]
        /\ half = "huge" => \E p \in DOMAIN table_ : table_[p].huge
  <2>1. CASE SaveOpen
    BY <2>1 DEF SaveOpen, StorageOpen, HalfRows, Halves
  <2>2. CASE SaveWrite
    <3>1. Restricted(table_, DOMAIN table_) = table_
      BY AllRows DEF DataTypeOK
    <3> QED
      BY <2>2, <3>1 DEF SaveWrite, StorageWrite, GetAll, Halves
  <2> QED
    BY <2>1, <2>2
<1>2. /\ Restricted(table_, rows) \in Tables
      /\ DOMAIN Restricted(table_, rows) = rows
  BY TableFacts DEF DataTypeOK
<1>3. Saved' = Restricted(table_, rows) /\ SavedBlank' = half
  BY <1>1, <1>2, NewSaved
<1>4. \A p \in rows : Restricted(table_, rows)[p] = table_[p]
  BY DEF Restricted
<1> QED
  BY <1>1, <1>2, <1>3, <1>4

(* What the steps do to files, torn and storage.data, in one place.          *)
LEMMA FilesRemain ==
  ASSUME Base, [Next]_vars
  PROVE  /\ \A p \in Paths : files[p] # None => files'[p] # None
         /\ StorageData \in torn => StorageData \in torn'
<1>1. TypeOK
  BY DEF Base
<1>2. CASE UploadOpen
  <2>1. /\ files' = [files EXCEPT ![req.path] = Cut(Stored(req.path, req.body))]
        /\ pc = "upload" /\ torn' = torn
    BY <1>2 DEF UploadOpen, historyVars
  <2>2. Cut(Stored(req.path, req.body)) # None
    BY <2>1, UploadFacts, ContentFacts
  <2> QED
    BY <1>1, <2>1, <2>2 DEF TypeOK
<1>3. CASE UploadWrite
  <2>1. /\ files' = [files EXCEPT ![req.path] = Stored(req.path, req.body)]
        /\ pc = "write" /\ torn' = torn \ {req.path}
    BY <1>3 DEF UploadWrite
  <2>2. Stored(req.path, req.body) # None /\ req.path # StorageData
    BY <2>1, UploadFacts, ContentFacts, PathFacts DEF Written
  <2> QED
    BY <1>1, <2>1, <2>2 DEF TypeOK
<1>4. CASE ~UploadOpen /\ ~UploadWrite
  <2>1. files' = files /\ torn \subseteq torn'
    <3>1. CASE Arrive
      BY <3>1 DEF Arrive, ReceiveUpload, ReceiveDownload, ReceiveOther, Receive, diskVars
    <3>2. CASE Refuse \/ ListShow \/ ListShowNoTemplate
      BY <3>2 DEF Refuse, ListShow, ListShowNoTemplate, Answer, diskVars, historyVars
    <3>3. CASE Upload
      BY <1>4, <3>3 DEF Upload, UploadOpenFails, UploadWriteFails, UploadInsert, SaveOpen,
                        SaveOpenFails, SaveWrite, SaveWriteFails, UploadAck, Answer, Shrug,
                        diskVars, historyVars
    <3>4. CASE Download
      BY <3>4 DEF Download, DownloadNotFound, DownloadFound, UnpackOpen, UnpackWrite,
                  UnpackFails, Unpack, SendNothing, Send, SendAddFails, SendFile, Remove,
                  Answer, diskVars, historyVars
    <3>5. CASE Start \/ StartUnread \/ StartThrows \/ Crash
      BY <3>5 DEF Start, StartUnread, StartThrows, Crash, Shrug, diskVars, historyVars
    <3>6. CASE (\E t \in transfers : TransferEnds(t)) \/ UNCHANGED vars
      BY <3>6 DEF TransferEnds, vars, diskVars, historyVars
    <3> QED
      BY <3>1, <3>2, <3>3, <3>4, <3>5, <3>6 DEF Next, GenHandler
  <2> QED
    BY <2>1
<1> QED
  BY <1>2, <1>3, <1>4

(* Steps that leave both alone.                                              *)
LEMMA TableStays ==
  ASSUME Base, [Next]_vars, UNCHANGED <<table_, blank, storage_data>>,
         pc = "saveWrite" => pc' = "saveWrite" \/ StorageData \in torn',
         pc' \in Saving \cup {"ack"} =>
           pc \in Saving \cup {"ack"} /\ req' = req /\ uploads' = uploads,
         pc' \notin Saving \cup Stopped =>
           pc \notin Saving \cup Stopped \/ StorageData \in torn'
  PROVE  TableInv'
<1>1. TypeOK /\ TableInv /\ DataTypeOK
  BY DEF Base, TypeOK
<1>2. /\ Saved' = Saved /\ SavedBlank' = SavedBlank
      /\ DOMAIN table_ \subseteq Paths /\ DOMAIN Saved \subseteq Paths
  BY <1>1, SameSaved, SavedType
<1>3. ListedFilesExist'
  BY <1>1, <1>2, FilesRemain DEF TableInv, ListedFilesExist
<1>4. StorageData \notin torn' /\ pc' \notin Saving \cup Stopped =>
        Saved' = table_' /\ (blank' <=> SavedBlank' # "none")
  BY <1>1, <1>2, FilesRemain DEF TableInv, Saving
<1>5. pc' \in Saving \cup {"ack"} =>
        req'.path \in DOMAIN table_' /\ table_'[req'.path].id = Len(uploads')
  BY <1>1 DEF TableInv, Saving
<1> QED
  BY <1>3, <1>4, <1>5 DEF TableInv, Saving

LEMMA TableUpload ==
  ASSUME Base, Upload
  PROVE  TableInv'
<1>1. TypeOK /\ TableInv /\ DataTypeOK /\ [Next]_vars
  BY DEF Base, TypeOK, Next, GenHandler
<1>2. DOMAIN table_ \subseteq Paths /\ DOMAIN Saved \subseteq Paths
  BY <1>1, SavedType
<1>3. \A p \in Paths : files[p] # None => files'[p] # None
  BY <1>1, FilesRemain
<1>4. CASE UploadOpen \/ UploadOpenFails \/ UploadWrite \/ UploadWriteFails
  <2>1. /\ pc \in {"upload", "write"} /\ pc' \in {"write", "insert", "idle"}
        /\ UNCHANGED <<table_, blank, storage_data>>
    BY <1>4 DEF UploadOpen, UploadOpenFails, UploadWrite, UploadWriteFails, Answer, Reply,
                Shrug, dataVars
  <2>2. pc \notin Saving \cup Stopped /\ pc' \notin Saving \cup {"ack"}
    BY <2>1 DEF Saving, Stopped
  <2> QED
    BY <1>1, <2>1, <2>2, TableStays
<1>5. CASE UploadInsert
  <2>1. /\ pc = "insert" /\ pc' = "save" /\ UNCHANGED <<files, req, uploads, torn, blank>>
    BY <1>5 DEF UploadInsert, AfterInsert, InsertRow, diskVars, historyVars
  <2>2. PICK info \in InfosOf(files[req.path]) : InsertRow(req.path, info)
    BY <1>5 DEF UploadInsert
  <2>3. /\ req.path \in Paths /\ files[req.path] \in Contents /\ files[req.path].body = req.body
        /\ req.body.id = Len(uploads)
    BY <2>1, UploadFacts DEF Written
  <2>4. info \in Bodies /\ info.id = Len(uploads)
    BY <2>3, InfoFacts
  <2>5. table_' = WithRow(req.path, info) /\ Saved' = Saved /\ SavedBlank' = SavedBlank
    BY <2>2, SameSaved DEF InsertRow
  <2>6. /\ DOMAIN table_' = DOMAIN table_ \cup {req.path}
        /\ table_'[req.path].id = Len(uploads)
    BY <1>1, <2>3, <2>4, <2>5, RowFacts
  <2>7. files[req.path] # None
    BY <2>3, ContentFacts
  <2>8. ListedFilesExist'
    BY <1>1, <2>1, <2>5, <2>6, <2>7 DEF TableInv, ListedFilesExist
  <2> QED
    BY <2>1, <2>6, <2>8 DEF TableInv
<1>6. CASE SaveOpen
  <2>1. /\ pc = "save" /\ pc' = "saveWrite"
        /\ UNCHANGED <<table_, blank, files, req, uploads, torn>>
    BY <1>6 DEF SaveOpen, StorageOpen, diskVars, historyVars
  <2>2. PICK rows \in SUBSET (DOMAIN table_), half \in Halves :
          storage_data' = [entries |-> Restricted(table_, rows), blank |-> half]
    BY <1>6, OpenRows DEF SaveOpen
  <2>3. Restricted(table_, rows) \in Tables /\ DOMAIN Restricted(table_, rows) = rows
    BY <1>1, TableFacts DEF DataTypeOK
  <2>4. Saved' = Restricted(table_, rows)
    BY <2>2, <2>3, NewSaved
  <2>5. ListedFilesExist'
    BY <1>1, <2>1, <2>3, <2>4 DEF TableInv, ListedFilesExist
  <2> QED
    BY <1>1, <2>1, <2>5 DEF TableInv
<1>7. CASE SaveWrite
  <2> DEFINE half == IF blank THEN "fits" ELSE "none"
  <2>1. /\ pc = "saveWrite" /\ pc' = "ack"
        /\ UNCHANGED <<table_, blank, files, req, uploads, torn>>
        /\ storage_data' = [entries |-> table_, blank |-> half]
    BY <1>7 DEF SaveWrite, StorageWrite, GetAll, diskVars, historyVars
  <2>2. half \in Halves /\ (blank <=> half # "none")
    BY DEF Halves
  <2> HIDE DEF half
  <2>4. Saved' = table_ /\ SavedBlank' = half
    BY <1>1, <2>1, <2>2, NewSaved DEF DataTypeOK
  <2>3. ListedFilesExist'
    BY <1>1, <2>1, <2>2, <2>4 DEF TableInv, ListedFilesExist
  <2> QED
    BY <1>1, <2>1, <2>2, <2>3, <2>4 DEF TableInv
<1>8. CASE SaveOpenFails \/ SaveWriteFails
  <2>1. /\ pc \in {"save", "saveWrite"} /\ pc' = "ack" /\ StorageData \in torn'
        /\ UNCHANGED <<table_, blank, storage_data, req, uploads>>
    BY <1>8 DEF SaveOpenFails, SaveWriteFails, Shrug, dataVars
  <2> QED
    BY <1>1, <2>1, TableStays DEF Saving
<1>9. CASE UploadAck
  <2>1. pc = "ack" /\ pc' = "idle" /\ UNCHANGED <<table_, blank, storage_data>>
    BY <1>9 DEF UploadAck, Reply, dataVars
  <2> QED
    BY <1>1, <2>1, TableStays DEF Saving, Stopped
<1> QED
  BY <1>4, <1>5, <1>6, <1>7, <1>8, <1>9 DEF Upload

LEMMA TableProcess ==
  ASSUME Base, Start \/ StartUnread \/ StartThrows \/ Crash
  PROVE  TableInv'
<1>1. TypeOK /\ TableInv /\ DataTypeOK /\ [Next]_vars
  BY DEF Base, TypeOK, Next
<1>2. CASE Start
  <2>1. /\ pc = "down" /\ pc' = "idle" /\ table_' = Saved /\ (blank' <=> SavedBlank # "none")
        /\ UNCHANGED <<storage_data, files, torn>>
    BY <1>2 DEF Start, InitLoad, diskVars, historyVars
  <2>2. Saved' = Saved /\ SavedBlank' = SavedBlank
    BY <2>1, SameSaved
  <2>3. ListedFilesExist'
    BY <1>1, <2>1, <2>2 DEF TableInv, ListedFilesExist
  <2> QED
    BY <2>1, <2>2, <2>3 DEF TableInv
<1>3. CASE StartUnread \/ StartThrows
  <2>1. /\ pc = "down" /\ pc' \in {"idle", "dead"} /\ UNCHANGED <<table_, blank, storage_data>>
        /\ pc' = "idle" => StorageData \in torn'
    BY <1>3 DEF StartUnread, StartThrows, Shrug, dataVars
  <2> QED
    BY <1>1, <2>1, TableStays DEF Saving, Stopped
<1>4. CASE Crash
  <2>1. /\ pc' = "down" /\ table_' = Empty /\ blank' = FALSE
        /\ UNCHANGED <<storage_data, files>> /\ torn \subseteq torn'
        /\ pc = "saveWrite" => StorageData \in torn'
    BY <1>4 DEF Crash, Forget, CutByDeath, diskVars
  <2>2. Saved' = Saved /\ SavedBlank' = SavedBlank /\ DOMAIN table_' = {}
    BY <2>1, SameSaved, EmptyTable
  <2>3. ListedFilesExist'
    BY <1>1, <2>1, <2>2 DEF TableInv, ListedFilesExist
  <2> QED
    BY <2>1, <2>3 DEF TableInv, Stopped
<1> QED
  BY <1>2, <1>3, <1>4

LEMMA NextTable == Base /\ [Next]_vars => TableInv'
<1> SUFFICES ASSUME Base, [Next]_vars PROVE TableInv'
  OBVIOUS
<1>1. CASE Arrive
  <2>1. /\ pc = "idle" /\ pc' \in {"upload", "download", "badUpload", "list", "other"}
        /\ UNCHANGED <<table_, blank, storage_data>>
    BY <1>1 DEF Arrive, ReceiveUpload, ReceiveDownload, ReceiveOther, Receive,
                OtherRequests, dataVars
  <2> QED
    BY <2>1, TableStays DEF Saving, Stopped
<1>2. CASE Refuse \/ ListShow \/ ListShowNoTemplate
  <2>1. /\ pc \in {"badUpload", "other", "list"} /\ pc' = "idle"
        /\ UNCHANGED <<table_, blank, storage_data>>
    BY <1>2 DEF Refuse, ListShow, ListShowNoTemplate, Answer, Reply, Return, dataVars
  <2> QED
    BY <2>1, TableStays DEF Saving, Stopped
<1>3. CASE Download
  <2>1. /\ pc \in {"download", "unpack", "unpackWrite", "send", "remove"}
        /\ pc' \in {"idle", "unpack", "unpackWrite", "send", "remove"}
        /\ UNCHANGED <<table_, blank, storage_data>>
    BY <1>3 DEF Download, DownloadNotFound, DownloadFound, UnpackOpen, UnpackWrite,
                UnpackFails, Unpack, SendNothing, Send, SendAddFails, SendFile, Remove,
                Answer, Reply, Return, GetOneByURL, dataVars
  <2> QED
    BY <2>1, TableStays DEF Saving, Stopped
<1>4. CASE (\E t \in transfers : TransferEnds(t)) \/ UNCHANGED vars
  <2>1. UNCHANGED <<table_, blank, storage_data, pc, req, uploads>>
    BY <1>4 DEF TransferEnds, vars, dataVars, loopVars, historyVars
  <2>2. TableInv /\ files' = files /\ torn' = torn
    BY <1>4 DEF Base, TransferEnds, vars, diskVars, historyVars
  <2> QED
    BY <2>1, <2>2, SameSaved DEF TableInv, ListedFilesExist
<1> QED
  BY <1>1, <1>2, <1>3, <1>4, TableUpload, TableProcess DEF Next, GenHandler

-----------------------------------------------------------------------------
(* What was answered                                                         *)

(* UploadOpen and UploadWrite leave the other files alone.                   *)
LEMMA WriteFacts ==
  ASSUME Base, UploadOpen \/ UploadWrite
  PROVE  /\ pc \in {"upload", "write"} /\ pc' \in {"write", "insert"}
         /\ pc = "write" <=> pc' = "insert"
         /\ UNCHANGED <<table_, blank, storage_data, req, uploads, acked, crashes>>
         /\ torn \subseteq torn' \cup {req.path} /\ torn' \subseteq torn
         /\ req.path \in Paths
         /\ files'[req.path] \in Contents /\ files'[req.path].body = req.body
         /\ \A p \in Paths : p # req.path => files'[p] = files[p]
<1>1. TypeOK
  BY DEF Base
<1>2. CASE UploadOpen
  <2>1. /\ pc = "upload" /\ pc' = "write"
        /\ UNCHANGED <<table_, blank, storage_data, req, uploads, acked, crashes, torn>>
        /\ files' = [files EXCEPT ![req.path] = Cut(Stored(req.path, req.body))]
    BY <1>2 DEF UploadOpen, historyVars, dataVars, boundVars
  <2>2. req.path \in Paths /\ req.body \in Bodies
    BY <2>1, UploadFacts
  <2>3. Cut(Stored(req.path, req.body)) \in Contents
        /\ Cut(Stored(req.path, req.body)).body = req.body
    BY <2>2, StoredFacts, ContentFacts
  <2> QED
    BY <1>1, <2>1, <2>2, <2>3 DEF TypeOK
<1>3. CASE UploadWrite
  <2>1. /\ pc = "write" /\ pc' = "insert"
        /\ UNCHANGED <<table_, blank, storage_data, req, uploads, acked, crashes>>
        /\ torn' = torn \ {req.path}
        /\ files' = [files EXCEPT ![req.path] = Stored(req.path, req.body)]
    BY <1>3 DEF UploadWrite, dataVars, boundVars
  <2>2. req.path \in Paths /\ req.body \in Bodies
    BY <2>1, UploadFacts DEF Written
  <2>3. Stored(req.path, req.body) \in Contents
        /\ Stored(req.path, req.body).body = req.body
    BY <2>2, StoredFacts
  <2> QED
    BY <1>1, <2>1, <2>2, <2>3 DEF TypeOK
<1> QED
  BY <1>2, <1>3

(* Steps that lose nothing.                                                  *)
LEMMA AckedStays ==
  ASSUME TypeOK, AckedInv, UNCHANGED <<storage_data, acked, files>>, TypeOK',
         Len(uploads) <= Len(uploads'), torn \subseteq torn',
         pc' \notin Stopped => pc \notin Stopped \/ StorageData \in torn',
         pc' \notin Stopped => table_' = table_,
         pc = "saveWrite" => pc' = "saveWrite" \/ StorageData \in torn',
         \A p \in Paths : Overwriting(p) => p \in torn' \/ Overwriting(p)'
  PROVE  AckedInv'
<1>1. Saved' = Saved
  BY SameSaved
<1>2. SUFFICES ASSUME NEW p \in Paths, acked[p] # 0
      PROVE  /\ acked[p] <= Len(uploads')
             /\ pc' \notin Stopped /\ StorageData \notin torn' =>
                  p \in DOMAIN table_' /\ table_'[p].id >= acked[p]
             /\ pc' # "saveWrite" /\ StorageData \notin torn' =>
                  p \in DOMAIN Saved' /\ Saved'[p].id >= acked[p]
             /\ p \notin torn' /\ ~Overwriting(p)' =>
                  files[p] # None /\ files[p].body.id >= acked[p]
  BY DEF AckedInv
<1>3. acked[p] <= Len(uploads')
  <2>1. acked[p] <= Len(uploads) /\ acked[p] \in Nat
    BY <1>2, BoundTypes DEF AckedInv
  <2>2. Len(uploads) \in Nat /\ Len(uploads') \in Nat
    BY LenProperties DEF TypeOK
  <2> QED
    BY <2>1, <2>2
<1>4. pc' \notin Stopped /\ StorageData \notin torn' =>
        p \in DOMAIN table_' /\ table_'[p].id >= acked[p]
  BY <1>2 DEF AckedInv
<1>5. pc' # "saveWrite" /\ StorageData \notin torn' =>
        p \in DOMAIN Saved' /\ Saved'[p].id >= acked[p]
  BY <1>1, <1>2 DEF AckedInv
<1>6. p \notin torn' /\ ~Overwriting(p)' => files[p] # None /\ files[p].body.id >= acked[p]
  BY <1>2 DEF AckedInv
<1> QED
  BY <1>3, <1>4, <1>5, <1>6

LEMMA AckedWrite ==
  ASSUME Base, AckedInv, UploadOpen \/ UploadWrite
  PROVE  AckedInv'
<1>1. /\ pc \in {"upload", "write"} /\ pc' \in {"write", "insert"}
      /\ UNCHANGED <<table_, storage_data, req, uploads, acked>>
      /\ torn \subseteq torn' \cup {req.path} /\ torn' \subseteq torn
      /\ req.path \in Paths
      /\ files'[req.path] \in Contents /\ files'[req.path].body = req.body
      /\ \A p \in Paths : p # req.path => files'[p] = files[p]
  BY WriteFacts
<1>2. /\ Saved' = Saved /\ StorageData # req.path
      /\ pc \notin Stopped /\ pc # "saveWrite"
  BY <1>1, SameSaved, PathFacts DEF Stopped
<1>3. req.body.id = Len(uploads) /\ files'[req.path] # None
  BY <1>1, UploadFacts, ContentFacts DEF Written
<1>4. Len(uploads) \in Nat /\ acked \in [Paths -> 0 .. MaxUploads]
  BY BoundTypes DEF Base
<1>5. SUFFICES ASSUME NEW p \in Paths, acked[p] # 0
      PROVE  /\ acked[p] <= Len(uploads)
             /\ StorageData \notin torn' =>
                  p \in DOMAIN table_ /\ table_[p].id >= acked[p]
             /\ StorageData \notin torn' =>
                  p \in DOMAIN Saved /\ Saved[p].id >= acked[p]
             /\ p \notin torn' /\ ~Overwriting(p)' =>
                  files'[p] # None /\ files'[p].body.id >= acked[p]
  BY <1>1, <1>2 DEF AckedInv
<1>6. acked[p] <= Len(uploads)
  BY <1>5 DEF AckedInv
<1>7. StorageData \notin torn' =>
        /\ p \in DOMAIN table_ /\ table_[p].id >= acked[p]
        /\ p \in DOMAIN Saved /\ Saved[p].id >= acked[p]
  BY <1>1, <1>2, <1>5 DEF AckedInv
<1>8. p \notin torn' /\ ~Overwriting(p)' => files'[p] # None /\ files'[p].body.id >= acked[p]
  <2>1. CASE p = req.path
    <3>1. files'[p].body.id = Len(uploads) /\ files'[p] # None
      BY <1>1, <1>3, <2>1
    <3> QED
      BY <1>4, <1>6, <3>1
  <2>2. CASE p # req.path
    <3>1. ~Overwriting(p) /\ files'[p] = files[p]
      BY <1>1, <2>2 DEF Overwriting
    <3> QED
      BY <1>1, <1>5, <2>2, <3>1 DEF AckedInv
  <2> QED
    BY <2>1, <2>2
<1> QED
  BY <1>6, <1>7, <1>8

LEMMA AckedInsert ==
  ASSUME Base, AckedInv, UploadInsert
  PROVE  AckedInv'
<1>1. /\ pc = "insert" /\ pc' = "save" /\ UNCHANGED <<files, req, uploads, acked, torn>>
  BY DEF UploadInsert, AfterInsert, diskVars, historyVars
<1>2. PICK info \in InfosOf(files[req.path]) : InsertRow(req.path, info)
  BY DEF UploadInsert
<1>3. /\ req.path \in Paths /\ files[req.path] \in Contents /\ files[req.path].body = req.body
      /\ req.body.id = Len(uploads)
  BY <1>1, UploadFacts DEF Written
<1>4. info \in Bodies /\ info.id = Len(uploads)
  BY <1>3, InfoFacts
<1>5. table_' = WithRow(req.path, info) /\ Saved' = Saved
  BY <1>2, SameSaved DEF InsertRow
<1>6. /\ DOMAIN table_' = DOMAIN table_ \cup {req.path}
      /\ table_'[req.path].id = Len(uploads)
      /\ \A p \in DOMAIN table_ : p # req.path => table_'[p] = table_[p]
  BY <1>3, <1>4, <1>5, RowFacts DEF Base, TypeOK
<1>7. Len(uploads) \in Nat /\ acked \in [Paths -> 0 .. MaxUploads]
  BY BoundTypes DEF Base
<1>8. ASSUME NEW p \in Paths, acked[p] # 0, StorageData \notin torn
      PROVE  p \in DOMAIN table_' /\ table_'[p].id >= acked[p]
  <2>1. /\ acked[p] <= Len(uploads)
        /\ p \in DOMAIN table_ /\ table_[p].id >= acked[p]
    BY <1>1, <1>8 DEF AckedInv, Stopped
  <2>2. CASE p = req.path
    BY <1>6, <1>7, <2>1, <2>2
  <2>3. CASE p # req.path
    BY <1>6, <2>1, <2>3
  <2> QED
    BY <2>2, <2>3
<1>9. \A p \in Paths : ~Overwriting(p) /\ ~Overwriting(p)'
  BY <1>1 DEF Overwriting
<1>10. ASSUME NEW p \in Paths, acked[p] # 0
       PROVE  /\ acked[p] <= Len(uploads)
              /\ StorageData \notin torn => p \in DOMAIN Saved /\ Saved[p].id >= acked[p]
              /\ p \notin torn => files[p] # None /\ files[p].body.id >= acked[p]
  BY <1>1, <1>9, <1>10 DEF AckedInv
<1> QED
  BY <1>1, <1>5, <1>8, <1>9, <1>10 DEF AckedInv

LEMMA AckedSave ==
  ASSUME Base, AckedInv, SaveOpen \/ SaveWrite
  PROVE  AckedInv'
<1>1. /\ pc \in {"save", "saveWrite"} /\ pc' \in {"saveWrite", "ack"}
      /\ UNCHANGED <<table_, files, uploads, acked, torn>>
      /\ pc' # "saveWrite" =>
           \E half \in Halves : storage_data' = [entries |-> table_, blank |-> half]
  BY DEF SaveOpen, StorageOpen, SaveWrite, StorageWrite, GetAll, Halves, diskVars,
         historyVars
<1>2. pc' # "saveWrite" => Saved' = table_
  BY <1>1, NewSaved DEF Base, TypeOK, DataTypeOK
<1>3. \A p \in Paths : ~Overwriting(p) /\ ~Overwriting(p)'
  BY <1>1 DEF Overwriting
<1>4. ASSUME NEW p \in Paths, acked[p] # 0
      PROVE  /\ acked[p] <= Len(uploads)
             /\ StorageData \notin torn => p \in DOMAIN table_ /\ table_[p].id >= acked[p]
             /\ p \notin torn => files[p] # None /\ files[p].body.id >= acked[p]
  BY <1>1, <1>3, <1>4 DEF AckedInv, Stopped
<1> QED
  BY <1>1, <1>2, <1>3, <1>4 DEF AckedInv

LEMMA AckedAck ==
  ASSUME Base, AckedInv, UploadAck
  PROVE  AckedInv'
<1>1. /\ pc = "ack" /\ pc' = "idle"
      /\ acked' = [acked EXCEPT ![req.path] = req.body.id]
      /\ UNCHANGED <<table_, storage_data, files, uploads, torn>>
  BY DEF UploadAck, Reply, dataVars, diskVars
<1>2. /\ req.path \in Paths /\ files[req.path] \in Contents /\ files[req.path].body = req.body
      /\ req.body.id = Len(uploads)
  BY <1>1, UploadFacts DEF Written
<1>3. Len(uploads) \in Nat /\ acked \in [Paths -> 0 .. MaxUploads]
  BY BoundTypes DEF Base
<1>4. /\ req.path \in DOMAIN table_ /\ table_[req.path].id = Len(uploads)
      /\ StorageData \notin torn => Saved = table_
  BY <1>1 DEF Base, TableInv, Stopped
<1>5. Saved' = Saved
  BY <1>1, SameSaved
<1>6. \A p \in Paths : ~Overwriting(p) /\ ~Overwriting(p)'
  BY <1>1 DEF Overwriting
<1>7. ASSUME NEW p \in Paths, acked'[p] # 0
      PROVE  /\ acked'[p] <= Len(uploads)
             /\ StorageData \notin torn =>
                  /\ p \in DOMAIN table_ /\ table_[p].id >= acked'[p]
                  /\ p \in DOMAIN Saved /\ Saved[p].id >= acked'[p]
             /\ p \notin torn => files[p] # None /\ files[p].body.id >= acked'[p]
  <2>1. CASE p = req.path
    <3>1. acked'[p] = Len(uploads)
      BY <1>1, <1>2, <1>3, <2>1
    <3>2. files[p] # None /\ files[p].body.id = Len(uploads)
      BY <1>2, <2>1, ContentFacts
    <3> QED
      BY <1>3, <1>4, <2>1, <3>1, <3>2
  <2>2. CASE p # req.path
    <3>1. acked'[p] = acked[p]
      BY <1>1, <1>3, <2>2
    <3> QED
      BY <1>1, <1>6, <1>7, <3>1 DEF AckedInv, Stopped
  <2> QED
    BY <2>1, <2>2
<1> QED
  BY <1>1, <1>5, <1>6, <1>7 DEF AckedInv

LEMMA AckedStart ==
  ASSUME Base, AckedInv, Start
  PROVE  AckedInv'
<1>1. /\ pc = "down" /\ pc' = "idle" /\ table_' = Saved
      /\ UNCHANGED <<storage_data, files, uploads, acked, torn>>
  BY DEF Start, InitLoad, diskVars, historyVars
<1>2. Saved' = Saved
  BY <1>1, SameSaved
<1>3. \A p \in Paths : ~Overwriting(p) /\ ~Overwriting(p)'
  BY <1>1 DEF Overwriting
<1>4. ASSUME NEW p \in Paths, acked[p] # 0
      PROVE  /\ acked[p] <= Len(uploads)
             /\ StorageData \notin torn => p \in DOMAIN Saved /\ Saved[p].id >= acked[p]
             /\ p \notin torn => files[p] # None /\ files[p].body.id >= acked[p]
  BY <1>1, <1>3, <1>4 DEF AckedInv
<1> QED
  BY <1>1, <1>2, <1>3, <1>4 DEF AckedInv

LEMMA NextAcked == Base /\ TypeOK' /\ AckedInv /\ [Next]_vars => AckedInv'
<1> SUFFICES ASSUME Base, TypeOK', AckedInv, [Next]_vars PROVE AckedInv'
  OBVIOUS
<1>1. TypeOK /\ Len(uploads) \in Nat
  BY BoundTypes DEF Base
<1>2. CASE UploadOpen \/ UploadWrite \/ UploadInsert \/ SaveOpen \/ SaveWrite \/ UploadAck
           \/ Start
  BY <1>2, AckedWrite, AckedInsert, AckedSave, AckedAck, AckedStart
<1>3. CASE Arrive
  <2>1. /\ pc = "idle" /\ UNCHANGED <<table_, storage_data, files, acked, torn>>
        /\ uploads' = uploads \/ \E p \in Paths : uploads' = Append(uploads, p)
    BY <1>3 DEF Arrive, ReceiveUpload, ReceiveDownload, ReceiveOther, Receive, OtherRequests,
                dataVars, diskVars
  <2>2. Len(uploads) <= Len(uploads')
    BY <1>1, <2>1, BoundTypes, AppendProperties
  <2> QED
    BY <1>1, <2>1, <2>2, AckedStays DEF Overwriting, Stopped
<1>4. CASE Refuse \/ ListShow \/ ListShowNoTemplate \/ Download \/ UploadOpenFails
  <2>1. /\ pc \in {"badUpload", "other", "list", "upload", "download", "unpack",
                   "unpackWrite", "send", "remove"}
        /\ UNCHANGED <<table_, storage_data, files, uploads, acked, torn>>
    BY <1>4 DEF Refuse, ListShow, ListShowNoTemplate, UploadOpenFails, Download,
                DownloadNotFound, DownloadFound, UnpackOpen, UnpackWrite, UnpackFails,
                Unpack, SendNothing, Send, SendAddFails, SendFile, Remove, Answer, Return,
                GetOneByURL, dataVars, diskVars, historyVars
  <2> QED
    BY <1>1, <2>1, AckedStays DEF Overwriting, Stopped
<1>5. CASE UploadWriteFails \/ SaveOpenFails \/ SaveWriteFails \/ StartUnread
  <2>1. /\ UNCHANGED <<table_, storage_data, files, uploads, acked, req>>
        /\ torn \subseteq torn'
        /\ \/ pc = "write" /\ pc' = "insert" /\ req.path \in torn'
           \/ pc \in {"save", "saveWrite", "down"} /\ StorageData \in torn'
    BY <1>5 DEF UploadWriteFails, SaveOpenFails, SaveWriteFails, StartUnread, Shrug,
                dataVars, diskVars
  <2> QED
    BY <1>1, <2>1, AckedStays DEF Overwriting, Stopped
<1>6. CASE StartThrows \/ Crash
  <2>1. /\ UNCHANGED <<storage_data, files, uploads, acked>>
        /\ torn \subseteq torn' /\ pc' \in Stopped
        /\ pc = "saveWrite" => StorageData \in torn'
        /\ pc = "write" => req.path \in torn'
    BY <1>6 DEF StartThrows, Crash, CutByDeath, Forget, Stopped, dataVars, diskVars,
                historyVars
  <2> QED
    BY <1>1, <2>1, AckedStays DEF Overwriting
<1>7. CASE (\E t \in transfers : TransferEnds(t)) \/ UNCHANGED vars
  <2>1. UNCHANGED <<table_, storage_data, files, uploads, acked, torn, pc, req>>
    BY <1>7 DEF TransferEnds, vars, dataVars, diskVars, loopVars, historyVars
  <2> QED
    BY <1>1, <2>1, AckedStays DEF Overwriting
<1> QED
  BY <1>2, <1>3, <1>4, <1>5, <1>6, <1>7 DEF Next, GenHandler, Upload

-----------------------------------------------------------------------------
(* The ETag                                                                  *)

Between == {"write", "insert"}

LEMMA EtagStays ==
  ASSUME EtagInv, UNCHANGED <<table_, files, storage_data, crashes>>,
         transfers' \subseteq transfers, pc' = "down" => pc = "down",
         pc \in Between => pc' \in Between /\ req' = req
  PROVE  EtagInv'
BY SameSaved DEF EtagInv, Between

LEMMA EtagWrite ==
  ASSUME Base, EtagInv, UploadOpen \/ UploadWrite
  PROVE  EtagInv'
<1>1. /\ pc \in {"upload", "write"} /\ pc' \in {"write", "insert"}
      /\ pc = "write" <=> pc' = "insert"
      /\ UNCHANGED <<table_, req, crashes>>
      /\ \A p \in Paths : p # req.path => files'[p] = files[p]
  BY WriteFacts
<1>2. \A t \in transfers' : t \in transfers \/ t.replaced
  BY SentFacts
<1>3. DOMAIN table_ \subseteq Paths
  BY SavedType DEF Base, TypeOK
<1> QED
  BY <1>1, <1>2, <1>3 DEF EtagInv

LEMMA EtagInsert ==
  ASSUME Base, EtagInv, UploadInsert
  PROVE  EtagInv'
<1>1. /\ pc = "insert" /\ pc' = "save" /\ UNCHANGED <<files, req, transfers, crashes>>
  BY DEF UploadInsert, AfterInsert, diskVars, boundVars
<1>2. PICK info \in InfosOf(files[req.path]) : InsertRow(req.path, info)
  BY DEF UploadInsert
<1>3. /\ req.path \in Paths /\ files[req.path] \in Contents
  BY <1>1, UploadFacts DEF Written
<1>4. info \in Bodies /\ info.id = files[req.path].body.id
  BY <1>3, InfoFacts
<1>5. table_' = WithRow(req.path, info)
  BY <1>2 DEF InsertRow
<1>6. /\ DOMAIN table_' = DOMAIN table_ \cup {req.path}
      /\ table_'[req.path].id = files[req.path].body.id
      /\ \A p \in DOMAIN table_ : p # req.path => table_'[p] = table_[p]
  BY <1>3, <1>4, <1>5, RowFacts DEF Base, TypeOK
<1> QED
  BY <1>1, <1>6 DEF EtagInv

(* What the download opens is a copy of the stored file.                     *)
LEMMA SourceBody ==
  ASSUME Base, pc = "send", req.sound
  PROVE  /\ req.path \in Paths /\ req.body = table_[req.path] /\ req.path \in DOMAIN table_
         /\ Source \in Contents /\ files[req.path] \in Contents
         /\ Source.body = files[req.path].body
         /\ Source.whole = files[req.path].whole
         /\ ~Source.packed
<1>1. /\ req.path \in Paths /\ req.body = table_[req.path] /\ req.path \in DOMAIN table_
      /\ files[req.path] \in Contents
  BY DownloadFacts DEF Found
<1>2. CASE NeedsUnpack(req.path)
  <2>1. Source = Unpacked(files[req.path])
    BY <1>2 DEF Base, FilesInv, Source
  <2> QED
    BY <1>1, <2>1, ContentFacts
<1>3. CASE ~NeedsUnpack(req.path)
  <2>1. Source = files[req.path]
    BY <1>3 DEF Source
  <2>2. files[req.path].packed = ~StoredRaw(req.path)
    BY <1>1, ContentFacts DEF Base, FilesInv
  <2>3. StoredRaw(req.path)
    BY <1>3 DEF NeedsUnpack, StoredRaw
  <2> QED
    BY <1>1, <2>1, <2>2, <2>3
<1> QED
  BY <1>1, <1>2, <1>3

LEMMA EtagSend ==
  ASSUME Base, EtagInv, Send \/ SendAddFails
  PROVE  EtagInv'
<1>1. /\ pc = "send" /\ pc' \in {"remove", "idle"}
      /\ UNCHANGED <<table_, files, crashes>>
  BY DEF Send, SendAddFails, SendFile, Reply, dataVars, diskVars
<1>2. PICK c, s :
        /\ SendFile(c, s)
        /\ s => c = Source /\ req.sound
  BY DEF Send, SendAddFails
<1> DEFINE u == [path |-> req.path, etag |-> req.body.id, content |-> c,
                 sound |-> s, unpackOk |-> req.unpackOk, replaced |-> FALSE]
<1>3. transfers' = transfers \cup {u}
  BY <1>2 DEF SendFile
<1>4. crashes = 0 /\ u.sound /\ ~u.replaced => u.etag = u.content.body.id
  <2>1. SUFFICES ASSUME crashes = 0, s PROVE req.body.id = c.body.id
    OBVIOUS
  <2>2. /\ req.path \in DOMAIN table_ /\ req.body = table_[req.path]
        /\ c.body = files[req.path].body
    BY <1>1, <1>2, <2>1, SourceBody
  <2>3. files[req.path].body.id = table_[req.path].id
    BY <1>1, <2>1, <2>2 DEF EtagInv
  <2> QED
    BY <2>2, <2>3
<1> HIDE DEF u
<1> QED
  BY <1>1, <1>3, <1>4 DEF EtagInv

LEMMA NextEtag == Base /\ EtagInv /\ [Next]_vars => EtagInv'
<1> SUFFICES ASSUME Base, EtagInv, [Next]_vars PROVE EtagInv'
  OBVIOUS
<1>1. CASE UploadOpen \/ UploadWrite \/ UploadInsert \/ Send \/ SendAddFails
  BY <1>1, EtagWrite, EtagInsert, EtagSend
<1>2. CASE Arrive
  <2>1. /\ pc = "idle" /\ pc' \in {"upload", "download", "badUpload", "list", "other"}
        /\ UNCHANGED <<table_, storage_data, files, transfers, crashes>>
    BY <1>2 DEF Arrive, ReceiveUpload, ReceiveDownload, ReceiveOther, Receive, OtherRequests,
                dataVars, diskVars, boundVars
  <2> QED
    BY <2>1, EtagStays DEF Between
<1>3. CASE Refuse \/ ListShow \/ ListShowNoTemplate \/ UploadOpenFails
           \/ (Download /\ ~Send /\ ~SendAddFails)
  <2>1. /\ pc \notin Between /\ pc' # "down"
        /\ UNCHANGED <<table_, storage_data, files, transfers, crashes>>
    BY <1>3 DEF Refuse, ListShow, ListShowNoTemplate, UploadOpenFails, Download,
                DownloadNotFound, DownloadFound, UnpackOpen, UnpackWrite, UnpackFails,
                Unpack, SendNothing, Remove, Answer, Reply, Return, GetOneByURL, dataVars,
                diskVars, historyVars, boundVars, Between
  <2> QED
    BY <2>1, EtagStays
<1>4. CASE UploadWriteFails \/ SaveOpenFails \/ SaveWriteFails \/ StartUnread
           \/ StartThrows \/ UploadAck
  <2>1. /\ pc' # "down"
        /\ pc \in Between => pc' \in Between /\ req' = req
        /\ UNCHANGED <<table_, storage_data, files, transfers, crashes>>
    BY <1>4 DEF UploadWriteFails, SaveOpenFails, SaveWriteFails, StartUnread, StartThrows,
                UploadAck, Reply, Shrug, dataVars, diskVars, historyVars, boundVars, Between
  <2> QED
    BY <2>1, EtagStays
<1>5. CASE SaveOpen \/ SaveWrite
  <2>1. /\ pc \in {"save", "saveWrite"} /\ pc' \in {"saveWrite", "ack"}
        /\ UNCHANGED <<table_, files, transfers, crashes>>
    BY <1>5 DEF SaveOpen, StorageOpen, SaveWrite, StorageWrite, diskVars, boundVars
  <2> QED
    BY <2>1 DEF EtagInv
<1>6. CASE Start
  <2>1. /\ pc = "down" /\ pc' = "idle" /\ table_' = Saved
        /\ UNCHANGED <<files, transfers, crashes>>
    BY <1>6 DEF Start, InitLoad, diskVars, boundVars
  <2> QED
    BY <2>1, EmptyTable DEF EtagInv
<1>7. CASE Crash
  <2>1. crashes' # 0
    BY <1>7, BoundTypes, ServiceAssumption DEF Crash, Base
  <2> QED
    BY <2>1 DEF EtagInv
<1>8. CASE (\E t \in transfers : TransferEnds(t)) \/ UNCHANGED vars
  <2>1. /\ UNCHANGED <<table_, storage_data, files, crashes, pc, req>>
        /\ transfers' \subseteq transfers
    BY <1>8 DEF TransferEnds, vars, dataVars, diskVars, loopVars, boundVars
  <2> QED
    BY <2>1, EtagStays
<1> QED
  BY <1>1, <1>2, <1>3, <1>4, <1>5, <1>6, <1>7, <1>8 DEF Next, GenHandler, Upload

LEMMA AgeStays ==
  ASSUME AgeInv, UNCHANGED <<table_, files, storage_data, uploads>>,
         transfers' \subseteq transfers
  PROVE  AgeInv'
BY SameSaved DEF AgeInv

(* The bytes that an upload writes are younger than every row and ETag.      *)
LEMMA AgeWrite ==
  ASSUME Base, AgeInv, UploadOpen \/ UploadWrite
  PROVE  AgeInv'
<1>1. /\ UNCHANGED <<table_, storage_data, uploads>>
      /\ req.path \in Paths /\ files'[req.path].body = req.body
      /\ \A p \in Paths : p # req.path => files'[p] = files[p]
      /\ pc \in Written \cup {"upload"}
  BY WriteFacts DEF Written
<1>2. req.body.id = Len(uploads) /\ Len(uploads) \in Nat
  BY <1>1, UploadFacts, BoundTypes DEF Base
<1>3. Saved' = Saved
  BY <1>1, SameSaved
<1>4. ASSUME NEW T \in Tables, NEW p \in DOMAIN T, files[p] # None,
             T[p].id <= files[p].body.id
      PROVE  T[p].id <= files'[p].body.id
  <2>1. p \in Paths /\ T[p].id \in Nat
    BY TableFacts, BodyFacts
  <2>2. files[p].body.id <= Len(uploads) /\ files[p].body.id \in Nat
    BY <1>4, <2>1, FileType, ContentFacts, BodyFacts DEF Base, FilesInv
  <2>3. T[p].id <= Len(uploads)
    BY <1>2, <1>4, <2>1, <2>2
  <2> QED
    BY <1>1, <1>2, <1>4, <2>1, <2>3
<1>5. /\ table_ \in Tables /\ Saved \in Tables
      /\ \A p \in DOMAIN table_ \cup DOMAIN Saved : files[p] # None
  BY SavedType DEF Base, TypeOK, DataTypeOK, TableInv, ListedFilesExist
<1>6. ASSUME NEW s \in transfers'
      PROVE  /\ s.etag <= Len(uploads)
             /\ s.sound => s.content # None /\ s.etag <= s.content.body.id
  <2>1. CASE s \in transfers
    BY <2>1 DEF AgeInv
  <2>2. CASE s \notin transfers
    <3>1. /\ s.content \in Contents /\ s.content.body = req.body
          /\ \E t \in transfers : s.sound = t.sound /\ s.etag = t.etag
      BY <2>2, SentFacts
    <3>2. s.etag <= Len(uploads) /\ s.content # None
      BY <3>1, ContentFacts DEF AgeInv
    <3> QED
      BY <1>2, <3>1, <3>2
  <2> QED
    BY <2>1, <2>2
<1> QED
  BY <1>1, <1>3, <1>4, <1>5, <1>6 DEF AgeInv

LEMMA AgeInsert ==
  ASSUME Base, AgeInv, UploadInsert
  PROVE  AgeInv'
<1>1. /\ pc = "insert" /\ UNCHANGED <<files, req, transfers, uploads>>
  BY DEF UploadInsert, diskVars, historyVars
<1>2. PICK info \in InfosOf(files[req.path]) : InsertRow(req.path, info)
  BY DEF UploadInsert
<1>3. req.path \in Paths /\ files[req.path] \in Contents
  BY <1>1, UploadFacts DEF Written
<1>4. info \in Bodies /\ info.id = files[req.path].body.id /\ info.id \in Nat
  BY <1>3, InfoFacts, BodyFacts
<1>5. table_' = WithRow(req.path, info) /\ Saved' = Saved
  BY <1>2, SameSaved DEF InsertRow
<1>6. /\ DOMAIN table_' = DOMAIN table_ \cup {req.path}
      /\ table_'[req.path].id = files[req.path].body.id
      /\ \A p \in DOMAIN table_ : p # req.path => table_'[p] = table_[p]
  BY <1>3, <1>4, <1>5, RowFacts DEF Base, TypeOK
<1>7. ASSUME NEW p \in DOMAIN table_' PROVE table_'[p].id <= files[p].body.id
  <2>1. CASE p = req.path
    BY <1>4, <1>6, <2>1
  <2>2. CASE p # req.path
    BY <1>6, <2>2 DEF AgeInv
  <2> QED
    BY <2>1, <2>2
<1> QED
  BY <1>1, <1>5, <1>7 DEF AgeInv

LEMMA AgeSave ==
  ASSUME Base, AgeInv, SaveOpen \/ SaveWrite
  PROVE  AgeInv'
<1>1. UNCHANGED <<table_, files, transfers, uploads>>
  BY DEF SaveOpen, StorageOpen, SaveWrite, StorageWrite, diskVars, historyVars
<1>2. /\ DOMAIN Saved' \subseteq DOMAIN table_
      /\ \A p \in DOMAIN Saved' : Saved'[p] = table_[p]
  BY SavedRows DEF Base, TypeOK
<1> QED
  BY <1>1, <1>2 DEF AgeInv

LEMMA AgeSend ==
  ASSUME Base, AgeInv, Send \/ SendAddFails
  PROVE  AgeInv'
<1>1. pc = "send" /\ UNCHANGED <<table_, storage_data, files, uploads>>
  BY DEF Send, SendAddFails, SendFile, dataVars, diskVars, historyVars
<1>2. PICK c, s :
        /\ SendFile(c, s)
        /\ s => c = Source /\ req.sound
  BY DEF Send, SendAddFails
<1> DEFINE u == [path |-> req.path, etag |-> req.body.id, content |-> c,
                 sound |-> s, unpackOk |-> req.unpackOk, replaced |-> FALSE]
<1>3. transfers' = transfers \cup {u}
  BY <1>2 DEF SendFile
<1>4. /\ req.path \in Paths /\ req.path \in DOMAIN table_ /\ req.body = table_[req.path]
      /\ files[req.path] \in Contents /\ req.body \in Bodies
  BY <1>1, DownloadFacts DEF Found
<1>5. req.body.id <= files[req.path].body.id
  BY <1>4 DEF AgeInv
<1>6. req.body.id <= Len(uploads)
  <2>1. files[req.path].body.id <= Len(uploads) /\ files[req.path] # None
    BY <1>4, ContentFacts DEF Base, FilesInv
  <2>2. files[req.path].body.id \in Nat /\ req.body.id \in Nat
    BY <1>4, ContentFacts, BodyFacts
  <2>3. Len(uploads) \in Nat
    BY BoundTypes DEF Base
  <2> QED
    BY <1>5, <2>1, <2>2, <2>3
<1>7. u.sound => u.content # None /\ u.etag <= u.content.body.id
  <2>1. SUFFICES ASSUME s PROVE c # None /\ req.body.id <= c.body.id
    OBVIOUS
  <2>2. c \in Contents /\ c.body = files[req.path].body
    BY <1>1, <1>2, <2>1, SourceBody
  <2> QED
    BY <1>5, <2>2, ContentFacts
<1>8. u.etag <= Len(uploads)
  BY <1>6
<1> HIDE DEF u
<1>9. Saved' = Saved
  BY <1>1, SameSaved
<1> QED
  BY <1>1, <1>3, <1>7, <1>8, <1>9 DEF AgeInv

LEMMA NextAge == Base /\ AgeInv /\ [Next]_vars => AgeInv'
<1> SUFFICES ASSUME Base, AgeInv, [Next]_vars PROVE AgeInv'
  OBVIOUS
<1>1. CASE \/ UploadOpen \/ UploadWrite \/ UploadInsert \/ SaveOpen \/ SaveWrite
           \/ Send \/ SendAddFails
  BY <1>1, AgeWrite, AgeInsert, AgeSave, AgeSend
<1>2. CASE \E path \in Paths, huge \in Sizes : ReceiveUpload(path, huge)
  <2>1. PICK path \in Paths, huge \in Sizes : ReceiveUpload(path, huge)
    BY <1>2
  <2>2. UNCHANGED <<table_, storage_data, files, transfers>>
    BY <2>1 DEF ReceiveUpload, Receive, dataVars, diskVars
  <2>3. Len(uploads') = Len(uploads) + 1 /\ Len(uploads) \in Nat
    BY <2>1, BoundTypes, AppendProperties DEF ReceiveUpload, Base
  <2>4. Saved' = Saved
    BY <2>2, SameSaved
  <2>5. ASSUME NEW t \in transfers PROVE t.etag <= Len(uploads')
    <3>1. t.etag \in Nat
      BY DEF Base, TypeOK, Transfers
    <3> QED
      BY <2>3, <3>1 DEF AgeInv
  <2> QED
    BY <2>2, <2>4, <2>5 DEF AgeInv
<1>3. CASE \/ \E path \in Paths : ReceiveDownload(path)
           \/ \E r \in OtherRequests : ReceiveOther(r)
           \/ Refuse \/ ListShow \/ ListShowNoTemplate \/ UploadOpenFails
           \/ (Download /\ ~Send /\ ~SendAddFails)
  <2>1. UNCHANGED <<table_, storage_data, files, transfers, uploads>>
    BY <1>3 DEF ReceiveDownload, ReceiveOther, Receive, Refuse, ListShow,
                ListShowNoTemplate, UploadOpenFails, Download, DownloadNotFound,
                DownloadFound, UnpackOpen, UnpackWrite, UnpackFails, Unpack, SendNothing,
                Remove, Answer, GetOneByURL, dataVars, diskVars, historyVars
  <2> QED
    BY <2>1, AgeStays
<1>4. CASE UploadWriteFails \/ SaveOpenFails \/ SaveWriteFails \/ StartUnread
           \/ StartThrows \/ UploadAck
  <2>1. UNCHANGED <<table_, storage_data, files, transfers, uploads>>
    BY <1>4 DEF UploadWriteFails, SaveOpenFails, SaveWriteFails, StartUnread, StartThrows,
                UploadAck, Shrug, dataVars, diskVars, historyVars
  <2> QED
    BY <2>1, AgeStays
<1>5. CASE Start
  <2>1. table_' = Saved /\ UNCHANGED <<files, storage_data, transfers, uploads>>
    BY <1>5 DEF Start, InitLoad, diskVars, historyVars
  <2> QED
    BY <2>1, SameSaved DEF AgeInv
<1>6. CASE Crash
  <2>1. /\ DOMAIN table_' = {} /\ transfers' = {}
        /\ UNCHANGED <<files, storage_data, uploads>>
    BY <1>6, EmptyTable DEF Crash, Forget, diskVars
  <2> QED
    BY <2>1, SameSaved DEF AgeInv
<1>7. CASE (\E t \in transfers : TransferEnds(t)) \/ UNCHANGED vars
  <2>1. /\ UNCHANGED <<table_, storage_data, files, uploads>>
        /\ transfers' \subseteq transfers
    BY <1>7 DEF TransferEnds, vars, dataVars, diskVars, historyVars
  <2> QED
    BY <2>1, AgeStays
<1> QED
  BY <1>1, <1>2, <1>3, <1>4, <1>5, <1>6, <1>7 DEF Next, Arrive, GenHandler, Upload

-----------------------------------------------------------------------------
(* The theorems                                                              *)

IInv == Base /\ AckedInv /\ AgeInv /\ EtagInv

LEMMA InitInv == Init => IInv
<1> SUFFICES ASSUME Init PROVE IInv
  OBVIOUS
<1> USE DEF Init
<1>1. /\ table_ = Empty /\ DOMAIN table_ = {} /\ Saved = Empty /\ DataTypeOK
      /\ ~blank /\ SavedBlank = "none"
  BY EmptyTable DEF DataInit, Saved, SavedBlank, DataTypeOK
<1>2. uploads \in Seq(Paths) /\ Len(uploads) = 0
  BY EmptySeq
<1>3. TypeOK
  BY <1>1, <1>2, DataAssumption, ServiceAssumption DEF TypeOK, Stopped, Handling
<1>4. RequestInv
  BY DEF RequestInv, Written, Found, Stopped, Handling
<1>5. FilesInv
  BY DEF FilesInv, Written
<1>6. TableInv
  BY <1>1 DEF TableInv, ListedFilesExist, Stopped
<1>7. AckedInv
  BY DEF AckedInv
<1>8. EtagInv /\ AgeInv
  BY <1>1 DEF EtagInv, AgeInv
<1> QED
  BY <1>3, <1>4, <1>5, <1>6, <1>7, <1>8 DEF IInv, Base

LEMMA NextInv == IInv /\ [Next]_vars => IInv'
<1> SUFFICES ASSUME IInv, [Next]_vars PROVE IInv'
  OBVIOUS
<1>1. Base /\ AckedInv /\ AgeInv /\ EtagInv
  BY DEF IInv
<1>2. TypeOK' /\ RequestInv' /\ FilesInv' /\ TableInv'
  BY <1>1, NextTypes, NextFiles, NextTable
<1>3. AckedInv' /\ AgeInv' /\ EtagInv'
  BY <1>1, <1>2, NextAcked, NextAge, NextEtag
<1> QED
  BY <1>2, <1>3 DEF IInv, Base

LEMMA Invariance == Spec => []IInv
<1> QED
  BY InitInv, NextInv, PTL DEF Spec

(* The variables keep their types; a handler that got to its end answered    *)
(* its request once, except the page without its template (Service.hpp:261). *)
THEOREM TypesHold == Spec => []TypeOK
<1>1. IInv => TypeOK
  BY DEF IInv, Base
<1> QED
  BY <1>1, Invariance, PTL

(* A row, of the table or of storage.data, has its file: Upload writes the   *)
(* file before it inserts the row, and nothing removes a stored file         *)
(* (Service.hpp:221-245, 168).                                               *)
THEOREM ListedAreThere == Spec => []ListedFilesExist
<1>1. IInv => ListedFilesExist
  BY DEF IInv, Base, TableInv
<1> QED
  BY <1>1, Invariance, PTL

(* Between requests storage.data is the table, unless its saving was cut:    *)
(* Insert saves the whole table before it returns, and the constructor loads *)
(* what was saved (DataManager.hpp:54-125).                                  *)
THEOREM ReloadWorks == Spec => []ReloadIsTable
<1>1. IInv => ReloadIsTable
  BY DEF IInv, Base, TableInv, ReloadIsTable, Stopped
<1> QED
  BY <1>1, Invariance, PTL

(* An upload that Service::Upload answered with 200 stays listed and stored, *)
(* or a later one of its path does, unless a crash or a fault cut its file   *)
(* or storage.data (Service.hpp:221-249).                                    *)
THEOREM NothingAckedLost == Spec => []KeptUnlessTorn
<1>1. ASSUME IInv PROVE KeptUnlessTorn
  <2>1. AckedInv /\ FilesInv
    BY <1>1 DEF IInv, Base
  <2>2. ASSUME NEW p \in Paths, acked[p] # 0, p \notin torn, ~(pc = "write" /\ req.path = p)
        PROVE  files[p] # None /\ files[p].whole /\ files[p].body.id >= acked[p]
    BY <2>1, <2>2 DEF AckedInv, FilesInv, Overwriting
  <2> QED
    BY <2>1, <2>2 DEF AckedInv, KeptUnlessTorn
<1> QED
  BY <1>1, Invariance, PTL

(* The ETag that Service::Download takes from the row is never that of a     *)
(* later upload than the bytes libevent sends, whatever crashed and whatever *)
(* overwrote the file meanwhile; without either it is that of the bytes      *)
(* (Service.hpp:154-165).                                                    *)
THEOREM EtagIsRight == Spec => []EtagNamesBody
<1>1. IInv => EtagNamesBody
  BY DEF IInv, AgeInv, EtagInv, EtagNamesBody
<1> QED
  BY <1>1, Invariance, PTL

-----------------------------------------------------------------------------
(* The files implement FileStore: receiving an upload begins it, the open    *)
(* empties its cell, the write fills it, a failed write or a death breaks    *)
(* it off; the reply that a download gives carries what the cell holds.      *)

(* The cells, the cell being written and the replies, as Promise sees them.  *)
MStored == [p \in Paths |-> VersionStored(p)]
MWriting == IF pc = "write" THEN {req.path} ELSE {}
MSending == {[path |-> t.path, id |-> VersionSent(t)] : t \in Kept}

LEMMA KeptFewer ==
  ASSUME transfers' \subseteq transfers
  PROVE  MSending' \subseteq MSending
BY DEF MSending, Kept, VersionSent

LEMMA KeptOverwritten ==
  ASSUME Base, UploadOpen \/ UploadWrite
  PROVE  MSending' \subseteq MSending
<1>1. Kept' \subseteq Kept
  BY SentFacts DEF Kept
<1> QED
  BY <1>1 DEF MSending, VersionSent

LEMMA SameStored ==
  ASSUME files' = files
  PROVE  MStored' = MStored
BY DEF MStored, VersionStored

LEMMA StoredChanges ==
  ASSUME TypeOK, NEW path \in Paths, NEW c \in Contents,
         files' = [files EXCEPT ![path] = c]
  PROVE  MStored' = [MStored EXCEPT ![path] = IF c.whole THEN c.body.id ELSE 0]
<1>1. files'[path] = c /\ \A p \in Paths : p # path => files'[p] = files[p]
  BY DEF TypeOK
<1>2. c # None
  BY ContentFacts
<1> DEFINE n == IF c.whole THEN c.body.id ELSE 0
<1>3. VersionStored(path)' = n
  BY <1>1, <1>2 DEF VersionStored
<1>4. \A p \in Paths : p # path => VersionStored(p)' = VersionStored(p)
  BY <1>1 DEF VersionStored
<1>5. MStored' = [p \in Paths |-> VersionStored(p)']
  BY DEF MStored
<1> HIDE DEF n
<1>6. MStored' = [[p \in Paths |-> VersionStored(p)] EXCEPT ![path] = n]
  BY <1>3, <1>4, <1>5
<1> QED
  BY <1>6 DEF MStored, n

(* What the latest upload left in its cell.                                  *)
LEMMA CellFacts ==
  ASSUME Base, pc \in Written \cup {"upload"}
  PROVE  /\ req.path \in Paths
         /\ uploads # <<>> /\ uploads[Len(uploads)] = req.path
         /\ pc = "upload" => MStored[req.path] # Len(uploads)
         /\ pc \in Written => MStored[req.path] \in {Len(uploads), 0}
<1>1. /\ req.path \in Paths /\ req.body.id = Len(uploads) /\ req.body.id \in 1 .. MaxUploads
      /\ uploads[Len(uploads)] = req.path /\ Len(uploads) \in Nat /\ uploads \in Seq(Paths)
  BY UploadFacts, BoundTypes DEF Base, RequestInv
<1>2. Len(uploads) # 0
  BY <1>1
<1>3. uploads # <<>>
  BY <1>1, <1>2, EmptySeq
<1>4. MStored[req.path] = VersionStored(req.path)
  BY <1>1 DEF MStored
<1>5. ASSUME pc = "upload" PROVE VersionStored(req.path) # Len(uploads)
  <2>1. files[req.path] # None => files[req.path].body.id < Len(uploads)
    BY <1>1, <1>5 DEF Base, FilesInv
  <2>2. files[req.path] # None => files[req.path].body.id \in Nat
    BY <1>1, FileType, ContentFacts, BodyFacts DEF Base
  <2> QED
    BY <1>1, <1>2, <2>1, <2>2 DEF VersionStored
<1>6. ASSUME pc \in Written PROVE VersionStored(req.path) \in {Len(uploads), 0}
  <2>1. files[req.path].body = req.body
    BY <1>6, UploadFacts
  <2> QED
    BY <1>1, <2>1 DEF VersionStored
<1> QED
  BY <1>1, <1>3, <1>4, <1>5, <1>6

LEMMA ReceiveMaps ==
  ASSUME Base, NEW path \in Paths, NEW huge \in Sizes, ReceiveUpload(path, huge)
  PROVE  Promise!Begin(path)
<1>1. /\ pc = "idle" /\ pc' = "upload" /\ uploads' = Append(uploads, path)
      /\ UNCHANGED <<files, transfers, acked>>
  BY DEF ReceiveUpload, Receive, diskVars
<1>2. MStored' = MStored /\ MSending' \subseteq MSending
  BY <1>1, SameStored, KeptFewer
<1>3. MWriting = {} /\ MWriting' = {}
  BY <1>1 DEF MWriting
<1> QED
  BY <1>1, <1>2, <1>3 DEF Promise!Begin, Promise!RepliesEnd, MStored, MWriting, MSending

LEMMA OpenMaps ==
  ASSUME Base, UploadOpen
  PROVE  Promise!Open(req.path)
<1> DEFINE s == Stored(req.path, req.body)
<1>1. /\ pc = "upload" /\ pc' = "write" /\ UNCHANGED <<req, uploads, acked>>
      /\ files' = [files EXCEPT ![req.path] = Cut(s)]
  BY DEF UploadOpen, historyVars
<1>2. s \in Contents
  BY <1>1, UploadFacts
<1> HIDE DEF s
<1>3. Cut(s) \in Contents /\ ~Cut(s).whole
  BY <1>2, ContentFacts
<1>4. /\ req.path \in Paths /\ uploads # <<>> /\ uploads[Len(uploads)] = req.path
      /\ MStored[req.path] # Len(uploads)
  BY <1>1, CellFacts
<1>5. MStored' = [MStored EXCEPT ![req.path] = 0]
  BY <1>1, <1>3, <1>4, StoredChanges DEF Base
<1>6. MSending' \subseteq MSending
  BY KeptOverwritten
<1>7. MWriting = {} /\ MWriting' = {req.path}
  BY <1>1 DEF MWriting
<1> QED
  BY <1>1, <1>4, <1>5, <1>6, <1>7
  DEF Promise!Open, Promise!RepliesEnd, MStored, MWriting, MSending

LEMMA WriteMaps ==
  ASSUME Base, UploadWrite
  PROVE  Promise!Fill(req.path)
<1> DEFINE s == Stored(req.path, req.body)
<1>1. /\ pc = "write" /\ pc' = "insert" /\ UNCHANGED <<req, uploads, acked>>
      /\ files' = [files EXCEPT ![req.path] = s]
  BY DEF UploadWrite
<1>2. /\ s \in Contents /\ s.body.id = Len(uploads) /\ s.whole /\ req.path \in Paths
  BY <1>1, UploadFacts, StoredFacts DEF Written
<1> HIDE DEF s
<1>3. MStored' = [MStored EXCEPT ![req.path] = Len(uploads)]
  BY <1>1, <1>2, StoredChanges DEF Base
<1>4. MSending' \subseteq MSending
  BY KeptOverwritten
<1>5. MWriting = {req.path} /\ MWriting' = {}
  BY <1>1 DEF MWriting
<1> QED
  BY <1>1, <1>3, <1>4, <1>5
  DEF Promise!Fill, Promise!RepliesEnd, MStored, MWriting, MSending

LEMMA AckMaps ==
  ASSUME Base, UploadAck
  PROVE  Promise!Acknowledge(req.path)
<1>1. /\ pc = "ack" /\ pc' = "idle" /\ UNCHANGED <<files, uploads, transfers>>
      /\ acked' = [acked EXCEPT ![req.path] = req.body.id]
  BY DEF UploadAck, Reply, diskVars
<1>2. pc \in Written
  BY <1>1 DEF Written
<1>3. /\ uploads # <<>> /\ uploads[Len(uploads)] = req.path
      /\ MStored[req.path] \in {Len(uploads), 0} /\ req.body.id = Len(uploads)
  BY <1>2, CellFacts, UploadFacts
<1>4. MStored' = MStored /\ MSending' \subseteq MSending
  BY <1>1, SameStored, KeptFewer
<1>5. MWriting = {} /\ MWriting' = {}
  BY <1>1 DEF MWriting
<1> QED
  BY <1>1, <1>3, <1>4, <1>5
  DEF Promise!Acknowledge, Promise!RepliesEnd, MStored, MWriting, MSending

(* Steps that leave files, uploads and acknowledgements alone.               *)
LEMMA QuietMaps ==
  ASSUME UNCHANGED <<files, uploads, acked>>, transfers' \subseteq transfers,
         pc' = "write" => pc = "write" /\ req' = req
  PROVE  Promise!Break \/ Promise!Drop
<1>1. MStored' = MStored /\ MSending' \subseteq MSending
  BY SameStored, KeptFewer
<1>2. MWriting' = {} \/ MWriting' = MWriting
  BY DEF MWriting
<1> QED
  BY <1>1, <1>2
  DEF Promise!Break, Promise!Drop, Promise!RepliesEnd, MStored, MWriting, MSending

(* A reply that no fault has touched carries the stored version; the others  *)
(* are outside the promise.                                                  *)
LEMMA SendMaps ==
  ASSUME Base, Send \/ SendAddFails
  PROVE  [Promise!Next]_Promise!vars
<1>1. /\ pc = "send" /\ pc' \in {"remove", "idle"} /\ UNCHANGED <<files, uploads, acked>>
  BY DEF Send, SendAddFails, SendFile, Reply, diskVars, historyVars
<1>2. PICK c, s :
        /\ SendFile(c, s)
        /\ s => c = Source /\ req.sound /\ req.path \notin torn
  BY DEF Send, SendAddFails
<1> DEFINE u == [path |-> req.path, etag |-> req.body.id, content |-> c,
                 sound |-> s, unpackOk |-> req.unpackOk, replaced |-> FALSE]
<1>3. transfers' = transfers \cup {u} /\ u.path = req.path /\ u.content = c
  BY <1>2 DEF SendFile
<1>4. u.sound <=> s
  OBVIOUS
<1>5. MStored' = MStored /\ MWriting = {} /\ MWriting' = {}
  BY <1>1, SameStored DEF MWriting
<1> HIDE DEF u
<1>6. CASE ~s
  <2>1. Kept' \subseteq Kept
    BY <1>3, <1>4, <1>6 DEF Kept
  <2>2. MSending' \subseteq MSending
    BY <2>1 DEF MSending, VersionSent
  <2> QED
    BY <1>1, <1>5, <2>2
    DEF Promise!Drop, Promise!Next, Promise!RepliesEnd, MStored, MWriting, MSending
<1>7. CASE s
  <2>1. /\ req.path \in Paths /\ files[req.path] \in Contents
        /\ c.body = files[req.path].body /\ c.whole = files[req.path].whole /\ ~c.packed
    BY <1>1, <1>2, <1>7, SourceBody
  <2>2. files[req.path] # None /\ files[req.path].body.id \in 1 .. MaxUploads
    BY <2>1, ContentFacts, BodyFacts
  <2>3. files[req.path].whole
    BY <1>1, <1>2, <1>7, <2>1, <2>2 DEF Base, FilesInv, Overwriting
  <2>4. VersionStored(req.path) = files[req.path].body.id /\ VersionStored(req.path) # 0
    BY <2>2, <2>3 DEF VersionStored
  <2>5. VersionSent(u) = VersionStored(req.path)
    BY <1>3, <2>1, <2>3, <2>4 DEF VersionSent
  <2>6. MStored[req.path] = VersionStored(req.path)
    BY <2>1 DEF MStored
  <2>7. MSending' \subseteq MSending \cup {[path |-> req.path, id |-> MStored[req.path]]}
    <3>1. Kept' \subseteq Kept \cup {u}
      BY <1>3 DEF Kept
    <3> QED
      BY <1>3, <2>5, <2>6, <3>1 DEF MSending, VersionSent
  <2>8. MSending \cup {[path |-> req.path, id |-> MStored[req.path]]} \subseteq MSending'
    <3>1. Kept \subseteq Kept'
      BY <1>3 DEF Kept
    <3>2. ~u.replaced
      BY DEF u
    <3>3. u \in Kept'
      BY <1>3, <1>4, <1>7, <3>2 DEF Kept
    <3> QED
      BY <1>3, <2>5, <2>6, <3>1, <3>3 DEF MSending, VersionSent
  <2> QED
    BY <1>1, <1>5, <2>1, <2>4, <2>6, <2>7, <2>8
    DEF Promise!Send, Promise!Next, MStored, MWriting, MSending
<1> QED
  BY <1>6, <1>7

LEMMA InitMaps == Init => Promise!Init
<1> SUFFICES ASSUME Init PROVE Promise!Init
  OBVIOUS
<1>1. MStored = [p \in Paths |-> 0] /\ MWriting = {} /\ MSending = {}
  BY DEF Init, MStored, VersionStored, MWriting, MSending, Kept
<1> QED
  BY <1>1 DEF Init, Promise!Init, MStored, MWriting, MSending

LEMMA StepMaps ==
  ASSUME Base, [Next]_vars
  PROVE  [Promise!Next]_Promise!vars
<1>1. CASE \E path \in Paths, huge \in Sizes : ReceiveUpload(path, huge)
  BY <1>1, ReceiveMaps DEF Promise!Next
<1>2. CASE UploadOpen \/ UploadWrite \/ UploadAck
  <2>1. req.path \in Paths
    BY <1>2, UploadFacts DEF UploadOpen, UploadWrite, UploadAck, Written
  <2> QED
    BY <1>2, <2>1, OpenMaps, WriteMaps, AckMaps DEF Promise!Next
<1>3. CASE Send \/ SendAddFails
  BY <1>3, SendMaps
<1>4. CASE \/ \E path \in Paths : ReceiveDownload(path)
           \/ \E r \in OtherRequests : ReceiveOther(r)
           \/ Refuse \/ ListShow \/ ListShowNoTemplate
           \/ Download /\ ~Send /\ ~SendAddFails
  <2>1. /\ UNCHANGED <<files, uploads, acked>> /\ transfers' = transfers /\ pc' # "write"
    BY <1>4 DEF ReceiveDownload, ReceiveOther, Receive, OtherRequests, Refuse, ListShow,
                ListShowNoTemplate, Download, DownloadNotFound, DownloadFound, UnpackOpen,
                UnpackWrite, UnpackFails, Unpack, SendNothing, Remove, Answer, Reply,
                Return, diskVars, historyVars
  <2> QED
    BY <2>1, QuietMaps DEF Promise!Next
<1>5. CASE \/ UploadOpenFails \/ UploadWriteFails \/ UploadInsert \/ SaveOpen
           \/ SaveOpenFails \/ SaveWrite \/ SaveWriteFails
           \/ Start \/ StartUnread \/ StartThrows \/ Crash
  <2>1. /\ UNCHANGED <<files, uploads, acked>> /\ pc' # "write"
        /\ transfers' \subseteq transfers
    BY <1>5 DEF UploadOpenFails, UploadWriteFails, UploadInsert, AfterInsert, SaveOpen,
                SaveOpenFails, SaveWrite, SaveWriteFails, Start, StartUnread, StartThrows,
                Crash, Answer, Reply, Shrug, diskVars, historyVars
  <2> QED
    BY <2>1, QuietMaps DEF Promise!Next
<1>6. CASE (\E t \in transfers : TransferEnds(t)) \/ UNCHANGED vars
  <2>1. UNCHANGED <<files, uploads, acked, pc, req>> /\ transfers' \subseteq transfers
    BY <1>6 DEF TransferEnds, vars, diskVars, loopVars, historyVars
  <2> QED
    BY <2>1, QuietMaps DEF Promise!Next
<1> QED
  BY <1>1, <1>2, <1>3, <1>4, <1>5, <1>6 DEF Next, Arrive, GenHandler, Upload

(* Handlers, background sending, faults and crashes together keep the        *)
(* promise of FileStore: one upload at a time overwrites its own file alone, *)
(* a 200 follows the write, and a download carries the stored version whole. *)
THEOREM Refinement == Spec => ImplementsFileStore
<1>1. IInv /\ [Next]_vars => [Promise!Next]_Promise!vars
  BY StepMaps DEF IInv
<1> QED
  BY InitMaps, <1>1, Invariance, PTL DEF Spec, ImplementsFileStore, Promise!Spec

-----------------------------------------------------------------------------
(* What FileStore gives its callers, and so the server its clients           *)

(* The cell being written is the one of the latest upload, and empty; every  *)
(* number in use is that of an upload of the path it stands for.             *)
Own(n, p) == n \in 1 .. Len(uploads) /\ uploads[n] = p

CellsInv ==
  /\ uploads \in Seq(Paths)
  /\ MStored \in [Paths -> Nat] /\ acked \in [Paths -> Nat]
  /\ \A p \in Paths :
       /\ MStored[p] # 0 => Own(MStored[p], p) /\ MStored[p] >= acked[p]
       /\ acked[p] # 0 => Own(acked[p], p)
       /\ p \in MWriting => Own(Len(uploads), p)
  /\ \A s \in MSending : Own(s.id, s.path)

LEMMA InitCells == Init => CellsInv
<1> SUFFICES ASSUME Init PROVE CellsInv
  OBVIOUS
<1>1. MStored = [p \in Paths |-> 0] /\ MWriting = {} /\ MSending = {}
  BY DEF Init, MStored, VersionStored, MWriting, MSending, Kept
<1> QED
  BY <1>1 DEF Init, CellsInv

(* An upload keeps its number while others begin.                            *)
LEMMA BeginCells ==
  ASSUME CellsInv, NEW path \in Paths, Promise!Begin(path)
  PROVE  CellsInv'
<1>1. /\ uploads' = Append(uploads, path) /\ MStored' = MStored /\ MWriting = {}
      /\ MWriting' = {} /\ UNCHANGED acked /\ MSending' \subseteq MSending
  BY DEF Promise!Begin, Promise!RepliesEnd, MStored, MWriting, MSending
<1>2. uploads' \in Seq(Paths) /\ Len(uploads') = Len(uploads) + 1 /\ Len(uploads) \in Nat
  BY <1>1, AppendProperties, LenProperties DEF CellsInv
<1>3. \A n \in 1 .. Len(uploads) : uploads'[n] = uploads[n]
  BY <1>1, AppendProperties DEF CellsInv
<1>4. \A n, p : Own(n, p) => Own(n, p)'
  BY <1>2, <1>3 DEF Own
<1> QED
  BY <1>1, <1>2, <1>4 DEF CellsInv

LEMMA OpenCells ==
  ASSUME CellsInv, NEW path \in Paths, Promise!Open(path)
  PROVE  CellsInv'
<1>1. /\ uploads # <<>> /\ uploads[Len(uploads)] = path /\ MWriting' = {path}
      /\ MStored' = [MStored EXCEPT ![path] = 0] /\ MSending' \subseteq MSending
      /\ UNCHANGED <<uploads, acked>>
  BY DEF Promise!Open, Promise!RepliesEnd, MStored, MWriting, MSending
<1>2. Own(Len(uploads), path)
  BY <1>1, LenProperties, EmptySeq DEF Own, CellsInv
<1>3. \A n, p : Own(n, p)' <=> Own(n, p)
  BY <1>1 DEF Own
<1>4. /\ MStored' \in [Paths -> Nat] /\ MStored'[path] = 0
      /\ \A p \in Paths : p # path => MStored'[p] = MStored[p]
  BY <1>1 DEF CellsInv
<1> QED
  BY <1>1, <1>2, <1>3, <1>4 DEF CellsInv

(* No acknowledgement is newer than the latest upload, whose bytes come in.  *)
LEMMA FillCells ==
  ASSUME CellsInv, NEW path \in Paths, Promise!Fill(path)
  PROVE  CellsInv'
<1>1. /\ MWriting = {path} /\ MWriting' = {} /\ MSending' \subseteq MSending
      /\ MStored' = [MStored EXCEPT ![path] = Len(uploads)] /\ UNCHANGED <<uploads, acked>>
  BY DEF Promise!Fill, Promise!RepliesEnd, MStored, MWriting, MSending
<1>2. Own(Len(uploads), path) /\ Len(uploads) \in Nat
  BY <1>1, LenProperties DEF CellsInv
<1>3. \A n, p : Own(n, p)' <=> Own(n, p)
  BY <1>1 DEF Own
<1>4. /\ MStored' \in [Paths -> Nat] /\ MStored'[path] = Len(uploads)
      /\ \A p \in Paths : p # path => MStored'[p] = MStored[p]
  BY <1>1, <1>2 DEF CellsInv
<1>5. Len(uploads) >= acked[path]
  BY <1>2 DEF CellsInv, Own
<1> QED
  BY <1>1, <1>2, <1>3, <1>4, <1>5 DEF CellsInv

LEMMA AcknowledgeCells ==
  ASSUME CellsInv, NEW path \in Paths, Promise!Acknowledge(path)
  PROVE  CellsInv'
<1>1. /\ MWriting = {} /\ uploads # <<>> /\ uploads[Len(uploads)] = path
      /\ MStored[path] \in {Len(uploads), 0}
      /\ acked' = [acked EXCEPT ![path] = Len(uploads)] /\ MSending' \subseteq MSending
      /\ MStored' = MStored /\ MWriting' = {} /\ UNCHANGED uploads
  BY DEF Promise!Acknowledge, Promise!RepliesEnd, MStored, MWriting, MSending
<1>2. Own(Len(uploads), path) /\ Len(uploads) \in Nat
  BY <1>1, LenProperties, EmptySeq DEF Own, CellsInv
<1>3. \A n, p : Own(n, p)' <=> Own(n, p)
  BY <1>1 DEF Own
<1>4. /\ acked' \in [Paths -> Nat] /\ acked'[path] = Len(uploads)
      /\ \A p \in Paths : p # path => acked'[p] = acked[p]
  BY <1>1, <1>2 DEF CellsInv
<1> QED
  BY <1>1, <1>2, <1>3, <1>4 DEF CellsInv

LEMMA SendCells ==
  ASSUME CellsInv, NEW path \in Paths, Promise!Send(path)
  PROVE  /\ CellsInv'
         /\ \A s \in MSending' \ MSending : s.path = path /\ s.id >= acked[path]
<1> DEFINE u == [path |-> path, id |-> MStored[path]]
<1>1. /\ MStored[path] # 0 /\ MSending' = MSending \cup {u}
      /\ MStored' = MStored /\ MWriting' = MWriting /\ UNCHANGED <<uploads, acked>>
  BY DEF Promise!Send, MStored, MWriting, MSending
<1>2. u.path = path /\ u.id = MStored[path]
  OBVIOUS
<1>3. Own(u.id, u.path) /\ u.id >= acked[path]
  BY <1>1, <1>2 DEF CellsInv
<1>4. \A n, p : Own(n, p)' <=> Own(n, p)
  BY <1>1 DEF Own
<1> HIDE DEF u
<1> QED
  BY <1>1, <1>2, <1>3, <1>4 DEF CellsInv

LEMMA NextCells ==
  ASSUME CellsInv, [Promise!Next]_Promise!vars
  PROVE  /\ CellsInv'
         /\ \A s \in MSending' \ MSending : s.path \in Paths /\ s.id >= acked[s.path]
<1>1. CASE \E p \in Paths : Promise!Begin(p) \/ Promise!Open(p) \/ Promise!Fill(p)
                          \/ Promise!Acknowledge(p)
  <2>1. MSending' \subseteq MSending
    BY <1>1 DEF Promise!Begin, Promise!Open, Promise!Fill, Promise!Acknowledge,
                Promise!RepliesEnd, MSending
  <2> QED
    BY <1>1, <2>1, BeginCells, OpenCells, FillCells, AcknowledgeCells
<1>2. CASE \E p \in Paths : Promise!Send(p)
  BY <1>2, SendCells
<1>3. CASE Promise!Break \/ Promise!Drop \/ UNCHANGED Promise!vars
  <2>1. /\ UNCHANGED <<uploads, acked>> /\ MStored' = MStored
        /\ MWriting' \subseteq MWriting /\ MSending' \subseteq MSending
    BY <1>3 DEF Promise!Break, Promise!Drop, Promise!RepliesEnd, Promise!vars, MStored,
                MWriting, MSending
  <2>2. \A n, p : Own(n, p)' <=> Own(n, p)
    BY <2>1 DEF Own
  <2> QED
    BY <2>1, <2>2 DEF CellsInv
<1> QED
  BY <1>1, <1>2, <1>3 DEF Promise!Next

(* A step of the server is one of FileStore, and keeps its invariant.        *)
LEMMA CellsHold == Spec => []CellsInv
<1>1. IInv /\ CellsInv /\ [Next]_vars => CellsInv'
  BY StepMaps, NextCells DEF IInv
<1> QED
  BY InitCells, <1>1, Invariance, PTL DEF Spec

(* A stored file and a download hold an upload of the very path they are     *)
(* for, and a file none older than the upload that was answered last: no two *)
(* paths mix, through overwriting, unpacking and crashes                     *)
(* (Service.hpp:122-170, 221-248).                                           *)
THEOREM FilesAreTheirOwn == Spec => []Promise!EachItsOwn
<1>1. CellsInv => Promise!EachItsOwn
  BY DEF CellsInv, Own, Promise!EachItsOwn, Promise!IsUploadOf, MStored, MSending
<1> QED
  BY <1>1, CellsHold, PTL

(* A reply that no fault cut, of a file that no fault or crash left cut,     *)
(* starts out with an upload that is no older than the last one answered     *)
(* with 200 (Service.hpp:161-165, 248).  Of the others it says nothing: an   *)
(* upload is answered 200 when its write failed too, and then its file is    *)
(* sent cut, with 200.                                                       *)
THEOREM DownloadsAreFresh == Spec => Promise!ReadsAreFresh
<1>1. IInv /\ CellsInv /\ [Next]_vars =>
        [\A s \in MSending' \ MSending : s.id >= acked[s.path]]_Promise!vars
  BY StepMaps, NextCells DEF IInv
<1>2. IInv /\ CellsInv /\ [Next]_vars =>
        [\A s \in {[path |-> t.path, id |-> VersionSent(t)] : t \in Kept}'
              \ {[path |-> t.path, id |-> VersionSent(t)] : t \in Kept} :
            s.id >= acked[s.path]]_Promise!vars
  BY <1>1 DEF MSending
<1> QED
  BY <1>2, Invariance, CellsHold, PTL DEF Spec, Promise!ReadsAreFresh

-----------------------------------------------------------------------------
(* The lock of the table, and the ends of the handlers                       *)

(* The lock is leaked in a running process, and the next one has a new lock. *)
LockInv == readers \in Nat /\ (readers > 0 => pc \notin Stopped)

LEMMA LockChanges ==
  ASSUME LockInv, DataTypeOK, [Next]_vars
  PROVE  /\ LockInv'
         /\ readers > 0 => pc' = "down" \/ (readers' > 0 /\ table_' = table_)
<1>1. CASE DownloadNotFound \/ DownloadFound
  <2>1. /\ readers' \in {readers, readers + 1} /\ table_' = table_
        /\ pc' \in {"idle", "unpack", "send"}
    BY <1>1 DEF DownloadNotFound, DownloadFound, GetOneByURL, ReadersAfterLookup, Reply
  <2> QED
    BY <2>1 DEF LockInv, Stopped
<1>2. CASE UploadInsert
  <2>1. readers = 0 /\ readers' = readers
    BY <1>2 DEF UploadInsert, InsertRow, WriteLockFree
  <2> QED
    BY <2>1 DEF LockInv
<1>3. CASE Start \/ StartUnread \/ StartThrows
  <2>1. pc \in Stopped /\ readers' = readers
    BY <1>3 DEF Start, StartUnread, StartThrows, Shrug, InitLoad, InitLoadUnread,
                dataVars, Stopped
  <2> QED
    BY <2>1 DEF LockInv
<1>4. CASE Crash
  BY <1>4 DEF Crash, Forget, LockInv
<1>5. CASE \/ Arrive \/ Refuse \/ ListShow \/ ListShowNoTemplate
           \/ UploadOpen \/ UploadOpenFails \/ UploadWrite \/ UploadWriteFails
           \/ SaveOpen \/ SaveOpenFails \/ SaveWrite \/ SaveWriteFails \/ UploadAck
           \/ UnpackOpen \/ UnpackWrite \/ UnpackFails \/ SendNothing \/ Send
           \/ SendAddFails \/ Remove
  <2>1. table_' = table_ /\ readers' = readers /\ pc' \notin Stopped
    BY <1>5 DEF Arrive, ReceiveUpload, ReceiveDownload, ReceiveOther, Receive, OtherRequests,
                Refuse, ListShow, ListShowNoTemplate, UploadOpen, UploadOpenFails,
                UploadWrite, UploadWriteFails, SaveOpen, SaveOpenFails, SaveWrite,
                SaveWriteFails, UploadAck, UnpackOpen, UnpackWrite, UnpackFails, Unpack,
                SendNothing, Send, SendAddFails, SendFile, Remove, Answer, Reply, Return,
                Shrug, StorageOpen, StorageWrite, dataVars, Stopped
  <2> QED
    BY <2>1 DEF LockInv
<1>6. CASE (\E t \in transfers : TransferEnds(t)) \/ UNCHANGED vars
  <2>1. UNCHANGED <<table_, readers, pc>>
    BY <1>6 DEF TransferEnds, vars, dataVars, loopVars
  <2> QED
    BY <2>1 DEF LockInv
<1> QED
  BY <1>1, <1>2, <1>3, <1>4, <1>5, <1>6 DEF Next, GenHandler, Upload, Download

LEMMA LockHolds == Spec => []LockInv
<1>1. Init => LockInv
  BY DEF Init, DataInit, LockInv
<1>2. IInv /\ LockInv /\ [Next]_vars => LockInv'
  BY LockChanges DEF IInv, Base, TypeOK
<1> QED
  BY <1>1, <1>2, Invariance, PTL DEF Spec

(* One download of a url that is not listed, and the table of this process   *)
(* is what it was: GetOneByURL keeps its read lock, so no Insert gets        *)
(* through (DataManager.hpp:86-93, 134-141).                                 *)
THEOREM LeakedLockFreezes == Spec => MissFreezesTable
<1>1. IInv /\ LockInv /\ [Next]_vars =>
        [readers > 0 /\ pc' # "down" => readers' > 0 /\ table_' = table_]_vars
  BY LockChanges DEF IInv, Base, TypeOK
<1> QED
  BY <1>1, Invariance, LockHolds, PTL DEF Spec, MissFreezesTable

(* Each step of a handler, of whichever kind, leaves it fewer.               *)
LEMMA HandlerSteps ==
  ASSUME GenHandler
  PROVE  StepsLeft' < StepsLeft
<1>1. CASE Refuse \/ ListShow \/ ListShowNoTemplate
  BY <1>1 DEF Refuse, ListShow, ListShowNoTemplate, Answer, Reply, Return, StepsLeft
<1>2. CASE UploadOpen \/ UploadOpenFails \/ UploadWrite \/ UploadWriteFails
  BY <1>2 DEF UploadOpen, UploadOpenFails, UploadWrite, UploadWriteFails, Answer, Reply,
              Shrug, StepsLeft
<1>3. CASE UploadInsert \/ SaveOpen \/ SaveOpenFails
  BY <1>3 DEF UploadInsert, AfterInsert, SaveOpen, SaveOpenFails, Shrug, StepsLeft
<1>4. CASE SaveWrite \/ SaveWriteFails \/ UploadAck
  BY <1>4 DEF SaveWrite, SaveWriteFails, UploadAck, Reply, Shrug, StepsLeft
<1>5. CASE DownloadNotFound \/ DownloadFound
  BY <1>5 DEF DownloadNotFound, DownloadFound, Reply, StepsLeft
<1>6. CASE UnpackOpen \/ UnpackWrite \/ UnpackFails
  BY <1>6 DEF UnpackOpen, UnpackWrite, UnpackFails, Unpack, StepsLeft
<1>7. CASE SendNothing \/ Send \/ SendAddFails \/ Remove
  BY <1>7 DEF SendNothing, Send, SendAddFails, SendFile, Remove, Answer, Reply, Return,
              StepsLeft
<1> QED
  BY <1>1, <1>2, <1>3, <1>4, <1>5, <1>6, <1>7 DEF GenHandler, Upload, Download

LEMMA OtherSteps ==
  ASSUME pc \in Handling, [Next]_vars, ~GenHandler
  PROVE  pc' = pc \/ StepsLeft' < StepsLeft
<1>1. ~Arrive
  BY DEF Arrive, ReceiveUpload, ReceiveDownload, ReceiveOther, Receive, Handling
<1>2. ~(Start \/ StartUnread \/ StartThrows)
  BY DEF Start, StartUnread, StartThrows, Shrug, Handling
<1>3. CASE Crash
  BY <1>3 DEF Crash, StepsLeft, Handling
<1>4. CASE (\E t \in transfers : TransferEnds(t)) \/ UNCHANGED vars
  BY <1>4 DEF TransferEnds, vars, loopVars
<1> QED
  BY <1>1, <1>2, <1>3, <1>4 DEF Next

(* What makes a handler end once the loop runs it: with the lock free it can *)
(* always take its next step, it has six at most and each leaves fewer, and  *)
(* nothing puts it back (Service.hpp:122-248, DataManager.hpp:86-125).       *)
THEOREM HandlersEnd == Spec => HandlersRunOn
<1>1. IInv => (pc \in Handling /\ readers = 0 => HandlerReady)
  BY DEF IInv, Base, TableInv, HandlerReady, WriteLockFree
<1>2. IInv /\ [Next]_vars => [GenHandler => StepsLeft' < StepsLeft]_vars
  BY HandlerSteps
<1>3. IInv /\ [Next]_vars => [(pc \in Handling) => pc' = pc \/ StepsLeft' < StepsLeft]_vars
  BY HandlerSteps, OtherSteps
<1> QED
  BY <1>1, <1>2, <1>3, Invariance, PTL DEF Spec, HandlersRunOn

-----------------------------------------------------------------------------
(* How far one of the violations reaches                                     *)

(* No size, on its way from a request through the file into the table and    *)
(* storage.data, grows beyond an int.                                        *)
SmallInv ==
  /\ \A p \in DOMAIN table_ : ~table_[p].huge
  /\ SavedBlank # "huge" /\ \A p \in DOMAIN Saved : ~Saved[p].huge
  /\ \A p \in Paths : files[p] # None => ~files[p].body.huge
  /\ pc \in {"upload", "write"} => ~req.body.huge
  /\ pc # "dead"

(* Steps that touch no size.                                                 *)
LEMMA SmallStays ==
  ASSUME SmallInv, UNCHANGED <<table_, storage_data, files>>, pc' # "dead",
         pc' \in {"upload", "write"} => pc \in {"upload", "write"} /\ req' = req
  PROVE  SmallInv'
<1>1. Saved' = Saved /\ SavedBlank' = SavedBlank
  BY SameSaved
<1> QED
  BY <1>1 DEF SmallInv

LEMMA SmallStep ==
  ASSUME Sizes \subseteq {FALSE}, IInv, SmallInv, [Next]_vars
  PROVE  SmallInv'
<1>1. Base /\ DataTypeOK
  BY DEF IInv, Base, TypeOK
<1>2. CASE \E path \in Paths, huge \in Sizes : ReceiveUpload(path, huge)
  <2>1. PICK path \in Paths, huge \in Sizes : ReceiveUpload(path, huge)
    BY <1>2
  <2>2. /\ UNCHANGED <<table_, storage_data, files>> /\ pc' = "upload"
        /\ req'.body.huge = huge
    BY <2>1 DEF ReceiveUpload, Receive, dataVars, diskVars
  <2>3. huge = FALSE /\ Saved' = Saved /\ SavedBlank' = SavedBlank
    BY <2>2, SameSaved
  <2> QED
    BY <2>2, <2>3 DEF SmallInv
<1>3. CASE UploadOpen \/ UploadWrite
  <2>1. /\ pc \in {"upload", "write"} /\ pc' \in {"write", "insert"}
        /\ UNCHANGED <<table_, storage_data, req>>
        /\ files'[req.path].body = req.body
        /\ \A p \in Paths : p # req.path => files'[p] = files[p]
    BY <1>1, <1>3, WriteFacts
  <2>2. Saved' = Saved /\ SavedBlank' = SavedBlank
    BY <2>1, SameSaved
  <2> QED
    BY <2>1, <2>2 DEF SmallInv
<1>4. CASE UploadInsert
  <2>1. /\ pc = "insert" /\ pc' = "save" /\ UNCHANGED <<files, req, storage_data>>
    BY <1>4 DEF UploadInsert, AfterInsert, InsertRow, diskVars
  <2>2. PICK info \in InfosOf(files[req.path]) : InsertRow(req.path, info)
    BY <1>4 DEF UploadInsert
  <2>3. req.path \in Paths /\ files[req.path] \in Contents /\ files[req.path] # None
    BY <1>1, <2>1, UploadFacts, ContentFacts DEF Written
  <2>4. info \in Bodies
    BY <2>3, InfoFacts
  <2>5. ~info.huge
    <3>1. files[req.path].body \in Bodies /\ ~files[req.path].body.huge
      BY <2>3, ContentFacts DEF SmallInv
    <3>2. info = files[req.path].body \/ info = [files[req.path].body EXCEPT !.huge = FALSE]
      BY <2>2 DEF InfosOf
    <3> QED
      BY <3>1, <3>2 DEF Bodies
  <2>6. /\ DOMAIN table_' = DOMAIN table_ \cup {req.path} /\ table_'[req.path] = info
        /\ \A p \in DOMAIN table_ : p # req.path => table_'[p] = table_[p]
    BY <1>1, <2>2, <2>3, <2>4, RowFacts DEF InsertRow
  <2>7. Saved' = Saved /\ SavedBlank' = SavedBlank
    BY <2>1, SameSaved
  <2> QED
    BY <2>1, <2>5, <2>6, <2>7 DEF SmallInv
<1>5. CASE SaveOpen \/ SaveWrite
  <2>1. UNCHANGED <<table_, files>> /\ pc' \in {"saveWrite", "ack"}
    BY <1>5 DEF SaveOpen, StorageOpen, SaveWrite, StorageWrite, diskVars
  <2>2. /\ DOMAIN Saved' \subseteq DOMAIN table_
        /\ \A p \in DOMAIN Saved' : Saved'[p] = table_[p]
        /\ SavedBlank' = "huge" => \E p \in DOMAIN table_ : table_[p].huge
    BY <1>1, <1>5, SavedRows
  <2> QED
    BY <2>1, <2>2 DEF SmallInv
<1>6. CASE Start
  <2>1. pc' = "idle" /\ table_' = Saved /\ UNCHANGED <<files, storage_data>>
    BY <1>6 DEF Start, InitLoad, diskVars
  <2>2. Saved' = Saved /\ SavedBlank' = SavedBlank
    BY <2>1, SameSaved
  <2> QED
    BY <2>1, <2>2 DEF SmallInv
<1>7. CASE Crash
  <2>1. pc' = "down" /\ DOMAIN table_' = {} /\ UNCHANGED <<files, storage_data>>
    BY <1>7, EmptyTable DEF Crash, Forget, diskVars
  <2>2. Saved' = Saved /\ SavedBlank' = SavedBlank
    BY <2>1, SameSaved
  <2> QED
    BY <2>1, <2>2 DEF SmallInv
<1>8. ~StartThrows
  BY DEF StartThrows, LoadThrows, SmallInv
<1>9. CASE \/ \E path \in Paths : ReceiveDownload(path)
           \/ \E r \in OtherRequests : ReceiveOther(r)
           \/ Refuse \/ ListShow \/ ListShowNoTemplate \/ Download
           \/ UploadOpenFails \/ UploadWriteFails \/ SaveOpenFails \/ SaveWriteFails
           \/ UploadAck \/ StartUnread
  <2>1. UNCHANGED <<table_, storage_data, files>> /\ pc' \notin {"upload", "write", "dead"}
    BY <1>9 DEF ReceiveDownload, ReceiveOther, Receive, OtherRequests, Refuse, ListShow,
                ListShowNoTemplate, Download, DownloadNotFound, DownloadFound, GetOneByURL,
                UnpackOpen, UnpackWrite, UnpackFails, Unpack, SendNothing, Send,
                SendAddFails, SendFile, Remove, Answer, Reply, Return, UploadOpenFails,
                UploadWriteFails, SaveOpenFails, SaveWriteFails, UploadAck, StartUnread,
                InitLoadUnread, Shrug, dataVars, diskVars
  <2> QED
    BY <2>1, SmallStays
<1>10. CASE (\E t \in transfers : TransferEnds(t)) \/ UNCHANGED vars
  <2>1. UNCHANGED <<table_, storage_data, files, pc, req>>
    BY <1>10 DEF TransferEnds, vars, dataVars, diskVars, loopVars
  <2> QED
    BY <2>1, SmallStays DEF SmallInv
<1> QED
  BY <1>2, <1>3, <1>4, <1>5, <1>6, <1>7, <1>8, <1>9, <1>10
  DEF Next, Arrive, GenHandler, Upload

(* The server starts again after every crash and with every storage.data it  *)
(* can have left, cut ones too, if no file was ever larger than an int: only *)
(* asInt of such a size throws (DataManager.hpp:54-83).                      *)
THEOREM SmallFilesStart ==
  ASSUME Sizes \subseteq {FALSE}
  PROVE  Spec => []StartSucceeds
<1>1. Init => SmallInv
  <2> SUFFICES ASSUME Init PROVE SmallInv
    OBVIOUS
  <2>1. DOMAIN table_ = {} /\ Saved = Empty /\ DOMAIN Saved = {} /\ SavedBlank = "none"
    BY EmptyTable DEF Init, DataInit, Saved, SavedBlank
  <2> QED
    BY <2>1 DEF Init, SmallInv
<1>2. IInv /\ SmallInv /\ [Next]_vars => SmallInv'
  BY SmallStep
<1>3. SmallInv => StartSucceeds
  BY DEF SmallInv, StartSucceeds
<1> QED
  BY <1>1, <1>2, <1>3, Invariance, PTL DEF Spec
=============================================================================
