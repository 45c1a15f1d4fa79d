# A verification of AsynLogSystem

AsynLogSystem is a cloud-storage HTTP server on top of an asynchronous logging
library. This directory models the parts of both whose correctness depends on
the order of things: threads and condition variables in the library, crashes,
faults, bodies still being sent, and the names of files on their way through
the server. The source is under `src/`;
file names below leave out `src/logSystem/logsCode/`, `src/logSystem/backlog/`
and `src/src/server/`.

- [Inventory](#inventory)
- [Modules](#modules)
- [Runs, bounds and what they show](#runs-bounds-and-what-they-show)
- [Fairness](#fairness)
- [Disagreements between code and documentation](#disagreements-between-code-and-documentation)
- [Proofs](#proofs)
- [Not modelled](#not-modelled)
- [Plan](#plan)

## Inventory

| Component | State | Operations | Talks to |
|---|---|---|---|
| `Buffer` (AsyncBuffer.hpp) | vector, read and write position | `Push`, `ToBeEnough`, `Swap`, `Reset` | used by `AsyncWorker` under its mutex |
| `AsyncWorker` (AsyncWorker.hpp) | two buffers, mutex, two condition variables, atomic `stop_`, a thread | constructor, `Push`, `ThreadEntry`, `Stop` | producers: any logging thread; consumer: calls back into `AsyncLogger::RealFlush` |
| `AsyncLogger`, `LoggerBuilder` (AsyncLogger.hpp, Message.hpp) | sinks, a worker | `Debug` ... `Fatal`, `serialize`, `RealFlush` | `ThreadPool::enqueue` for ERROR and FATAL, then `AsyncWorker::Push`; sinks from the worker's thread |
| `LoggerManager` (Manager.hpp) | map of loggers, mutex | `AddLogger`, `GetLogger` | every log statement |
| `FileFlush`, `RollFileFlush` (LogFlush.hpp) | open stream, size, counter | `Flush`, `InitLogFile` | called from the worker's thread; stream, kernel, disk |
| `ThreadPool` (ThreadPoll.hpp) | queue, mutex, condition variable, `stop`, threads | constructor, `enqueue`, destructor | runs `start_backup` |
| Backup sender and receiver (logSystem/backlog) | sockets, one file, one mutex | `start_backup`; `service`, `backup_log` | TCP |
| `DataManager` (DataManager.hpp) | table of files, reader-writer lock, `storage.data` | `InitLoad`, `Insert`, `Storage`, `GetAll`, `GetOneByURL` | called by the handlers |
| `Service` (Service.hpp) | libevent loop | `Upload`, `Download`, `ListShow` | `DataManager`, `FileUtil`, libevent |
| `FileUtil`, `JsonUtil`, codecs (Util.hpp, base64.cpp) | none | `SetContent`, `GetContent`, `Compress`, `UnCompress`, `UrlDecode`, ... | files, bundle, jsoncpp |
| `main`, `service_module` (Test.cpp) | the objects all others live in | makes them in order, joins, takes them down | constructs everything else |
| `Config` (both) | values read once | `GetConfig`, `ReadConfig` | read by every component |
| `bundle.h`, page, examples | | | |

What is hard, and what correctness means, component by component:

- **AsyncWorker.** Producers, the consumer and the thread that calls `Stop`
  interleave; `stop_` is set and its waiters are notified without the mutex;
  the exit test reads the producers' buffer without it; the thread starts
  before `callback_` is initialised; one producer is notified per swap. Nothing
  accepted may be lost, repeated or reordered; nobody may sleep through its
  wakeup; no write may pass the end of a vector; the thread may end only when
  it has delivered everything.
- **ThreadPool.** `enqueue` notifies after the unlock; the destructor stops,
  wakes and joins while tasks are queued. Accepted tasks run once, in order of
  acceptance, also when the pool is being destroyed.
- **RollFileFlush.** A batch goes through the stream's buffer, the kernel and
  the disk; each of the calls that take it there can fail, which is printed at
  most; processes and machines die; names can come back. What each `flush_log`
  promises must survive, a roll must not lose or reorder bytes, and what a failed
  call costs must be of its own batch or file.
- **DataManager and Service.** One thread, but the process can die between any
  two system calls, any of them can fail, and bodies are sent after the handler
  has returned, from a file that the next upload may overwrite. A `storage.data`
  that was cut loads with half a row. What was acknowledged should be listed
  after a restart; a download should carry one whole version, under its own
  ETag; every request should be answered.
- **AsyncLogger, LoggerManager.** AddLogger tests and inserts in two critical
  sections, so two threads can both find a name free. All messages of a name
  must still reach one log. Serious messages go to the pool before a `Push`
  that may block.
- **Backup.** The receiver may be down, die, lose a connection, or have a full
  disk and not notice; senders give up after some attempts. A thread of the pool must come back from all of it; a
  message has one record at most, and has one if it was written into a
  connection that lasted and the disk took it.
- **Codecs.** A name goes through base64, a header, a path, a url, a link, a
  browser and `UrlDecode`, each with its own idea of which bytes are special.
  What comes back must be what was sent, and what is asked for what is stored.
- **main.** Objects are used by threads and by other objects' destructors. No
  statement may meet a logger or a pool that is not there, no last flush a
  configuration that is gone; a regular end must lose nothing, nor one in which
  the destructor of the worker hangs; without a readable configuration nothing
  can run.

`PROJECT.json` lists the hazards one by one, each at its line, with the
properties that would show it.

## Modules

| Module | Models | Correspondence |
|---|---|---|
| `AsyncBuffer` | `Buffer` | operators on a record: vector size, positions, and the messages between them |
| `AsyncWorker` | `AsyncWorker` | one action per stretch of code between two points where another thread can interfere; `ppc`, `cpc`, `spc` say where producers, consumer and the caller of `Stop` are. A thread in `cond.wait` has given the mutex back and is at `"waiting"` |
| `LogChannel` | what the worker promises | accept until closed, deliver the oldest messages in batches, finish when nothing is left; `AsyncWorker!ImplementsChannel` is the refinement, with `stop_` as closed and the thread's end as finished |
| `AsyncWorkerProofs` | | theorems about `AsyncWorker` |
| `ThreadPool`, `ThreadPoolProofs` | `ThreadPool` | the same style: the worker's loop, `enqueue` with its rejection, the destructor |
| `TaskPool`, `TaskPoolProofs` | what the pool promises | no task is queued twice, the oldest is taken first and run by one thread, and the pool is gone only when all has run; no mutex and no sleep. `ThreadPool!ImplementsPool` is one refinement, `AsyncLogger!ImplementsPool` the other: what the composition asks of its pool is what the pool gives |
| `RollFileFlush`, `RollProofs` | `RollFileFlush`, `FileFlush` | `Call`, then `Keep` or `Roll`, `Write`, `FFlush`, `FSync`, `Return`; `WriteFails`, `FFlushFails`, `FSyncFails` and a part of `Close` are the same calls when they fail; deaths at any step. `sink` says which of the two it is: `FileFlush` opens its file in its constructor and never again. A byte is known by its batch |
| `DataManager` | `DataManager` | its variables and its operations as actions, kept apart from the handlers |
| `LoggerManager` | `LoggerManager`, `LoggerBuilder::Build` | one action per critical section; `mpc` says where a thread is in `AddLogger` |
| `RemoteBackup` | `start_backup`, `TcpServer`, `backup_log` | per message: the sender in `spc`, its connection up to the receiver's thread in `conn`; the receiver's file is a sequence of records, which a disk that is full does not take, or takes in part (`BackupLogFails`) |
| `AsyncLogger`, `AsyncLoggerProofs` | `AsyncLogger` | extends the two above and composes a log statement: `Log`, `Enqueue`, `Flush`, and the pool's threads in `Take` and `Run`. Worker and pool come in by what `LogChannel` and `TaskPool` promise |
| `StorageService`, `StorageProofs` | `Service`, `FileUtil` | extends `DataManager`; `pc` follows one handler; a step ends wherever the disk has changed. A file is known by the upload it holds, by whether it is packed, and by whether all of it is there |
| `FileStore` | what the server promises about files | a cell per path, which `Begin`, `Open` and `Fill` overwrite, `Break` leaves with nothing whole in it, `Acknowledge` answers for and `Send` reads; without handlers, disks, tables or packing. `StorageService!ImplementsFileStore` is the refinement: a cell holds what is whole in the stored file, and the replies are those no fault and no later upload has touched; of the others `StorageService!EtagNamesBody` speaks. `EachItsOwn` and `ReadsAreFresh` are what a client gets from it |
| `Base64` | base64.cpp | an iteration of a loop is a step; bytes and characters are numbers |
| `FileNames`, `FileNamesProofs` | NewStorageInfo's url, the link of the list, `UrlDecode`, `GetOneByURL` | extends `Base64`: the name that came out of it becomes a url, a link, a request, a lookup |
| `Server`, `ServerProofs` | `main`, `service_module`, both `Config`s, `RunModule` | `main` and `t1` say what the two threads do next; the logger, the pool and the log configuration have a state each; messages and tasks are counted. `eton` = "missed" is a worker that the `Stop` of ~AsyncWorker did not wake |

The `MC*` modules only hold what the configurations need: symmetry sets and
definitions for constants.

Abstractions worth knowing:

- A message is its producer, its number and its length. The bytes and the
  formatting are left out.
- A critical section of one block is one step where nobody can see its middle
  (`enqueue`, the destructor's first block); it is several where they can (the
  wait of a worker, `Push`).
- In `FileNames` somebody clicks only if there is a file and a button that works:
  the name is well-formed UTF-8, since in anything else the page shows the
  character for an error, and has none of the characters that the page, its
  template, its script or the file system take for their own (`Markup`: quotes,
  backslash, ampersand, dollar, brace, less, slash, NUL, line breaks, which end
  the string in the script). The browser does with `window.location = '...'`
  what the URL standard says: a tab is removed anywhere, spaces and control
  characters at the end are cut off, a question or number sign ends the path,
  the rest is escaped, but for a percent sign, which stays.
- In `Server` a log statement stands for those of a step, and is serious if one
  of them may be. What a handler does beyond that is in `StorageService`.
- In `StorageService` a url is its path, because one is the other behind a
  fixed prefix (DataManager.hpp:30). Names are two: a plain one, and one that
  contains the text `low_storage`, which Service.hpp:222 looks for. A size is
  what fits an `int` or what does not, because that is what InitLoad asks.
- What a cut write of `storage.data` leaves is any part of its rows, which is
  what jsoncpp hands over before it reports the error, and perhaps half of one
  more: its url, which comes last, is empty then, and its size may be there or
  not (`Halves`). `InitLoad` takes it for a row under the empty url (`blank`),
  which every later save keeps.
- libevent maps the file that a download sends and sends it later. Stored files
  of the low directory are overwritten in place, and such a download goes on
  with bytes of the new upload (`Overwritten`, `Refilled`) under the old ETag;
  unpacked files are unlinked and keep their bytes.
- In `AsyncLogger` a `Push` that has to wait is one that has not been taken:
  that it returns, and that what it accepted is delivered in order, is shown in
  `AsyncWorker`. The logger whose name was taken in the meantime is destroyed.
- A record of the receiver's file is one step: it stays within the stream's
  buffer and is written by one `fflush`. The terminator that a full read puts
  one past the buffer (ServerBackupLog.hpp:71) either does nothing or ends the
  receiver, which may die at any step.
- A call of `RollFileFlush` that fails leaves of the bytes it was to move any
  first part in the kernel, any piece of the rest in the stream, and loses what
  is in neither. `failed` and `damaged` remember on which openings and for which
  batches that happened. Whether a later `fsync` reaches bytes that a failed one
  did not is open, and no property asks.
- Names of log files hold the date without separators or leading zeros: the
  model lets any stamp come at any time.

## Runs, bounds and what they show

| Run | Bounds | Question |
|---|---|---|
| `AsyncWorker` | 2 producers × 2 messages of 1 or 2 bytes, buffers of 2, 1 spurious wakeup | order, rest only when all is delivered, nothing left at the end or in a `Stop` that hangs, callback set; implements `LogChannel`; pushes return, messages are delivered, `Stop` returns if its wakeup was heard |
| `AsyncWorkerUnsafe` | growing buffers that start at 1 byte, messages of 1 and 5, threshold 4 | no write past the end, through doubling, linear growth and a message longer than both |
| `ThreadPool` | 2 workers, 2 callers × 2 tasks, 1 spurious wakeup | no sleeper in front of a task or through the destructor, rest only when all has run; implements `TaskPool` (order, one worker per task, drained end); tasks run, the destructor returns |
| `Roll` | both sinks; `flush_log` 0, 1, 2; 3 batches of 0, 1 or 3 bytes in files of 2; 2 stamps; 2 failing calls; 1 death | what survives, that rolling loses nothing but what a failed call cost on its own file, and by how much a file exceeds its limit |
| `AsyncLogger` | 2 threads, 2 names, 2 messages of 1 or 3 bytes, reads of 2, 1 thread in the pool, 2 attempts, 1 break | one log per name, rest only when all is logged, backed up and recorded, one record each; written messages are recorded, backups end |
| `Storage` | 2 names × 2 kinds, 2 uploads, 2 bodies in flight, 1 crash, 1 fault, 1 miss | consistency of table, disk and replies; implements `FileStore`; handlers return |
| `FileNames` | every name of up to 4 bytes over 11: tab, space, `%`, `+`, `4`, `?`, `a`, 169, 195, 251, 255; both alphabets; 0 to 2 characters of filler left out | base64 gives the name back, the link finds the file if nothing in the name means something to an address |
| `Server` | `buffer_size` 2 or 0, `thread_count` 2 or 0, 2 requests | nothing used before or after its time, rest only where all that was said is written and sent off, serves and ends when it can |

The bounds are the smallest in which everything happens. Two producers with a
buffer that one message fills block each other and are woken in both orders; a
second pair of messages goes round both buffers. Two workers and four tasks
give sleepers, busy workers and a queue, with a notification that finds no
sleeper. Files of two bytes are filled exactly (1+1), overfilled by a batch of
3, left for the next one, and reopened under the same name after a death; two
failing calls may hit one batch twice, two batches, or a batch and the `fclose`
of its file. Two uploads allow an
overwrite, an overwrite that is interrupted, and a saving of the table that is
interrupted while another row was acknowledged; the crash and the fault may
come at any step, in either order. Two threads that add one name or two, one of
them perhaps `default`, are the race of `AddLogger`; two messages behind one
thread of the pool wait for each other, and their connections are served by two
threads of the receiver, in either order, while it may die or its disk be full; messages of 1 and 3
against reads of 2 are read whole and cut. More attempts to connect, and more
threads of the pool, add only more of the same steps. Names of up to four bytes
end a chunk after one, two and three bytes and begin a second one; 195 169 is a
character of two bytes, 251 and 255 are none at all; their bytes
give sextets at both ends of both alphabets, escapes with digits and with
letters, and a percent sign before what looks like an escape and before what
does not. A buffer of two messages makes a `Push` wait for a swap, and two
requests leave tasks queued and running when the pool is deleted.

Deadlock checking is off in all configurations: these systems stop (the worker
ends, the pool is gone, callers have no more calls, the process has ended), and the hangs the code
does have are the subject of properties of their own.

## Fairness

`AsyncWorker`, `ThreadPool`: weak fairness of each thread, since the operating
system runs every thread that can run, and a mutex here is only ever held over
a bounded stretch. No fairness for calling: nobody need log, call `Stop` or
destroy the pool. No fairness for spurious wakeups. Weak fairness is enough,
because waiting producers are asked again by each swap; strong fairness of the
mutex is not assumed. A task of the pool returns (`start_backup` tries five
times and sends once; `AsyncLogger!BackupsEnd`).

`AsyncLogger`: weak fairness of each thread once it is in `serialize`, of each
thread of the pool, and of the receiver's steps for each connection, which are
enabled only while it is up. It is not owed that the receiver is up, or ever
comes back.

`StorageService`: weak fairness of the handler, which runs to its end once
libevent has called it. Clients, crashes, restarts and the end of a transfer
are not owed to anyone.

`Server`: weak fairness of main, of the service's thread until it serves, of
the logger's worker and of the pool. Requests, and the failures that end the
service, need not come. `FileNames` and `Roll` have safety properties only.

## Disagreements between code and documentation

Each row is a run that is expected to be violated; TLC's trace is the scenario.

| Run | What happens |
|---|---|
| `AsyncWorkerStop` | `Stop` sets the flag and notifies without the mutex; a consumer between its predicate and its sleep misses it and `join` never returns |
| `StorageMiss` | a lookup that misses keeps its read lock; the next upload waits for ever and the server with it |
| `StorageHuge` | after an upload larger than an `int` the server does not start again |
| `StorageUnpack` | a download whose unpacking failed is answered with 200 |

Others have no run of their own, but the passing properties state their exact
extent.

- A serious message is dropped after five failed connections that follow each
  other at once, and the backup is meant for the time of a crash (readme.md:30
  against CliBackupLog.hpp:33; `BackupsEnd`, `WrittenIsRecorded`).
- A message that fits an `ASYNC_SAFE` buffer exactly makes it grow
  (AsyncBuffer.hpp:21 against AsyncLogger.hpp:171). A message larger than the
  buffer takes the one wakeup, and a producer whose message fits sleeps on
  (AsyncWorker.hpp:56; `NoStrandedProducer` needs `LensFit`).
- The backup is said to take everything above debug, that is INFO and WARN too
  ("远程备份debug等级以上的日志信息", CliBackupLog.hpp:1, ServerBackupLog.cpp:1);
  AsyncLogger.hpp:31 and readme.md:30,43 have it take ERROR and FATAL. The
  models follow the code (`SeriousGoesOut`, proved).
- A backup's record can be lost with the receiver alive and the connection
  whole: `backup_log` does not look at what `fflush` and `fclose` return, though
  it asserts what `fopen` and `fwrite` do (ServerBackupLog.cpp:31-41;
  `WrittenIsRecorded` leaves out that record alone).
- A log file exceeds its limit by up to a batch (LogFlush.hpp:104 against :81),
  and after a failed `fwrite` is left with less than its limit, because
  `cur_size_` counts what was not written (:135; `RollsAtTheLimit`).
- With `flush_log` 1 or 2 a batch can be lost although its `Flush` has returned:
  a failed `fwrite`, `fflush` or `fsync` is printed and passed over, a failed
  `fclose` not even printed. `FlushedSurvives` and `RollKeepsEverything` say
  that nothing else is lost with it.
- A deep upload whose name contains `low_storage` is not compressed
  (Service.hpp:222 against :176), and comes back whole all the same
  (`ImplementsFileStore`).
- A crash while `storage.data` is rewritten loses rows acknowledged long
  before, and an upload whose row could not be saved, or whose file could not be
  written, is answered with 200; the file is then sent cut, with 200 as well.
  `KeptUnlessTorn` says that nothing else loses an acknowledged upload.
- After a cut the next start may list a file without a name or a path, for good
  (DataManager.hpp:71-80; `ListedFilesExist` says when).
- A download of a low file that is overwritten while it is sent carries bytes of
  the new upload under the ETag of the old one (Service.hpp:155-161, 223;
  `EtagNamesBody`).
- A name with a percent, question or number sign or a tab in it, or a space at
  its end, is stored and listed, but its button asks for something else, or ends
  the server at an assertion (DataManager.hpp:30 against Util.hpp:41,
  Service.hpp:307; `LinkFindsFile` speaks of the other names, and
  `OnlyPlainIsFound` says that none of these is ever found). Names with quotes,
  line breaks and the like, or that are no UTF-8, have no button that works.
- The `Stop` of `AsyncWorkerStop` is also the one in which the process ends: main
  can return and the process hang for ever in `~AsyncWorker`
  (`RestsOnlyWhenAllIsKept`, `ServesIfConfigured` allow it and say that no
  message is lost by it).
- Without a `buffer_size` main waits in its first log statement for ever
  (Config.hpp:22; `ServesIfConfigured`), without a `thread_count` serious
  messages are queued and dropped (`NothingSaidIsLost`, `RestsOnlyWhenAllIsKept`).

Other properties say how far the damage of the violations goes:
`StopLeavesNothing` (a `Stop` that hangs has delivered everything),
`StopReturnsIfAwake`, `HandlersReturn` and `StartSucceeds`, which holds
without a file larger than an int (theorem `SmallFilesStart`).

## Proofs

The `*Proofs` modules hold what TLAPS checks, for every number of threads,
message length, buffer size, number of calls, name and prefix. The only
assumptions are the named `ASSUME`s of the modules (sets of threads that do not
contain the sentinel, positive lengths, natural bounds, a pool with a thread,
texts of bytes, a prefix without `%`, `?` and `#`, a `None` that is no file, no
request and no table), and what a theorem states under ASSUME itself: that every
message fits a buffer, that a pool has a thread, or that no file is larger than an int. Without it the theorem is false:
each of them excludes one of the disagreements above.

Three shapes of theorem come back in several components:

- *What was done is kept*: the safety invariants, from an inductive `IInv`.
- *Nothing hangs*: liveness is beyond the prover, but the half of it that goes
  wrong in practice is not. `AtRest` says that no thread has a step it could
  take by itself, written out as the guards of its actions (`ConsumerReady`,
  `WorkerReady`, ...), and `NothingHangs` says what must be true of every such
  state: all is delivered, all has run, all is recorded. A lost wakeup, a cycle
  of waiting or a task left behind would be a state at rest that is not. TLC
  found the guards equivalent to ENABLED of the actions on the bounds of the
  runs.
- *It is over after so many steps*: `StepsLeft` bounds what a thread has before
  it, each of its own steps lowers it, no step of another raises it, and in
  between the thread is always ready (`StopEndsTheAwake`, `BackupsAreBounded`,
  `HandlersEnd`). What a liveness property adds to that is fairness alone.

*AsyncWorker.* None of the invariants is inductive alone. `InOrderNoLoss`
survives the swap only if the consumer's buffer is empty by then, which is
`BufferInv`; it survives `Reset` only if positions and content agree, which is
`PosInv`; the exit test may trust its unlocked read only if `stop_` implies that
nobody pushes, which is `StopInv`; and all steps under the mutex need
`LockInv`, which says who holds it. `IInv` is their conjunction with `TypeOK`
and the remaining invariants, and the proof has one lemma per action. From
`[]IInv` follow `TypeCorrect`, `OrderKept`, `WritesInside`, `CallbackSet`,
`PushWakes` and `NothingLeft`.
`NoneStranded` adds the assumption `LensFit`, that every message fits a buffer,
without which it is false. `Refinement` shows that the worker implements
`LogChannel`: a write is `Accept`, a delivery `Deliver`, `StopSet` is `Close`,
the thread's end is `Finish`, and every other step stutters. `NothingHangs`
takes `LensFit` over from `NoneStranded`, and `EndInv` says that `Stop` returns
only after the thread has ended: the worker rests with everything delivered, and
if a thread is left behind, it is in the `Stop` that lost its wakeup.
`StopEndsTheAwake` says that no other `Stop` hangs: a consumer that is awake
when `Stop` joins finds the mutex free whenever it wants it, sleeps no more, and
ends after seven steps.

*ThreadPool.* The same shape: who holds the mutex, what a worker has seen under
it, and which tasks were taken. From `[]IInv` follow `TypeCorrect`,
`FirstInFirstTaken` and `StopIsHeard`; `Drained` assumes that the pool has a
worker; `NoneBehind` counts sleepers, awake workers and pending notifications
and needs the cardinality lemmas of the library; `NothingHangs` rests on the
three. `PoolRefinement` maps `EnqueuePush` to `Accept`, `WorkerTake` to `Take`,
`WorkerRun` to `Finish`, `DestroySet` to `Close` and the last `DestroyJoin` to
`End`; the step that is not obvious is the last, since the abstract pool may be
gone only when nothing is queued or running.

*TaskPool.* `RunsOnce` is about the abstract pool: a task is in one place of the
queue, or with one thread, or has run. Its proof knows nothing of threads and
mutexes; `EachTaskOnce` and, for the logger's pool, `EachBackupOnce` carry it
over along the two refinements.

*AsyncLogger.* Three invariants that need only each other's types, `IInv` their
conjunction. `NameInv`: what `AddLogger` has returned for is in the map, and
every statement goes to the logger that is still under its name; it survives the
second critical section because `insert` keeps what is there (`InsertedKeeps`).
`BackupInv`: a message with a record has no connection any more, and one that is
not sent has no bytes. `OutInv`: two statements never log the same message, and
between its two steps a serious one is neither given nor logged. From them
follow `TypeCorrect`, `OneLog`, `OneRecord` and `SeriousFirst`, and the action
property `NamesKept`. `LoggerPoolRefinement` is the other side of `TaskPool`:
`Enqueue` accepts a message that is nowhere in the pool yet, which is `OutInv`
again, and `start_backup` returns from each. `NothingHangs` needs three more.
`WorkInv`: a message that is going out has one thread of the pool. `ServedInv`:
a waiting connection has a receiver that is up, and one that is over left a
record, was broken, or met a disk that did not take it. `WayInv`: a message is logged and, if it is serious,
given, or a thread is still on its way to do so. `BackupsAreBounded` says that a
backup takes at most one step more than it has attempts.

*FileNames.* The loops of the codecs are steps, so an invariant over the chunks
done so far takes the place of an induction over the text. For base64 it says
where in the code chunk number k stands and that it is `EncodedChunk` of the
text's chunk k; that decoding one chunk gives its bytes back is arithmetic on
sextets, with a case for each way the last chunk can be short. For the link,
the history `starts` gives the place of each character of the url, and the
invariant of `UrlDecode` says that its position is one of these places and its
result the url so far; where the address ends is also where the url of a plain
name ends. `NamesComeBack` and `LinksWork` follow. `OthersAreLost`
is the converse of `LinksWork`: `HasRead` says that `UrlDecode` has read at least
as many characters of the url as it has written, and exactly as many only if
there was no percent sign among them, which it replaces by what follows. So what
it returns for another name is shorter than the url, or not all of the url is in
the link: a tab is missing, or the path ended at a question or number sign or in
front of the spaces at the end.

*Server.* `Stages` says what each place of main implies of the objects and of
t1, `Accounts` that every statement and every task is at exactly one place.
With the types and `UsedWhileThere` they are inductive; `EverythingThere` and
`EverythingKept` follow. `Unconfigured` adds that with a buffer of nothing the
first statement is never finished. `NothingHangs` goes through the places where
main, t1, the worker and the pool could wait for each other, and leaves the end
of the process, the service, a request that hangs in it, and `~AsyncWorker` with
a worker that missed its notification, which by then has nothing to write.

*RollFileFlush.* What is in the open file and what its stream holds back are one
sequence, `Stream`: `fwrite` appends to it, `fflush` and `fclose` move bytes
inside it and do not change it, and a call that fails takes a piece out of its
end, never of what the kernel has. So the invariants say what they say of the
openings that are not in `failed`, and of the batches that are not in `damaged`. `TypeInv` adds to the types which call is under
way and that no two files a process opens are one, which is so because the
counter is in the name. `ContentInv` says which piece of what the process wrote
each file has got; with it `RollLosesNothing`. `SizeInv` says that all but
`cur_size_` bytes of the open file came from earlier openings; with it
`LimitHolds`. `ReturnedInv` and `CurrentInv` follow a batch through the three
depths; with them `FlushedIsKept`.

*StorageService.* `Base` holds what the steps need of each other: `RequestInv`
says what each place in a handler knows of its request, `FilesInv` that a stored
file is packed as its path demands, not newer than the latest upload, and whole
unless it is cut or being written, `TableInv` that rows have their files and
that `storage.data` lags behind the table only while it is saved. A row without a url is there only if `storage.data` is torn. `Base` is
inductive, and `TypesHold`, `ListedAreThere` and `ReloadWorks` are read off it.
`AckedInv` strengthens `KeptUnlessTorn` by what `storage.data` holds, since
after a crash that is all there is of the table; with it `NothingAckedLost`.
`EtagInv` says that rows and files are of one upload outside `Upload`'s two
steps between them, and `AgeInv`, whatever crashes and is overwritten, that a
row is never of a later upload than its file, nor an ETag of a later one than
its bytes; with them `EtagIsRight`. `Refinement` maps `ReceiveUpload` to
`Begin`, `UploadOpen` to `Open`, `UploadWrite` to `Fill`, a failed write or a
crash to `Break`, `UploadAck` to `Acknowledge`, and the reply of a sound
download to `Send`: `SourceBody` shows that what it opens, the stored file or
the unpacked copy, is then the version the cell holds. The other steps stutter,
or end replies. What `FileStore` promises is then proved of its own steps alone:
`CellsInv` says that numbers in use are of uploads of their path and that the
cell being written is the latest upload's, and is inductive without a word about
handlers or disks. `FilesAreTheirOwn` and `DownloadsAreFresh` are that, for the
server; they speak of the replies that `Kept` names. `LeakedLockFreezes` gives the exact damage of the lookup that misses: the
table stays as it is until the process dies. `HandlersEnd` says that nothing but
this lock makes a handler wait, and that a handler is over after six steps.
`SmallFilesStart` gives the exact reach of a violation: of all
that a crash or a cut write can leave in `storage.data`, only the size of a file
larger than an int stops the next start (`SmallInv`).

Model-checked only, because fairness and ENABLED are beyond the prover:
`PushReturns`, `EverythingDelivered`, `StopReturnsIfAwake`, `AcceptedRuns`,
`DestroyReturns`, `WrittenIsRecorded`, `BackupsEnd`, `HandlersReturn`,
`ServesIfConfigured`. Every invariant and every refinement of the runs is a
theorem. Proved and in no run: `AwakeConsumerEnds`, `NoLostPushWakeup`,
`TakenInOrder`, `DrainedWhenGone`, `NothingSaidIsLost`, `HangsUnconfigured`,
`OnePlaceEach`, `NamesKeepTheirLoggers`, `BackupsShorten`, `SeriousGoesOut`,
AsyncLogger's `ImplementsPool`, `EachItsOwn`, `ReadsAreFresh`,
`MissFreezesTable`, `HandlersRunOn`, `OnlyPlainIsFound`.

## Not modelled

- `bundle.h` is a vendored library; `StorageService` takes from it that
  unpacking undoes packing and gives any other input back.
- `StdoutFlush` keeps nothing. `CreateDirectory`, `Path`, `Serialize` and
  `ScanDirectory` prepare directories or have no caller.
- The line breaks that base64.cpp can insert and remove (pem, mime) have no
  caller.
- What `vasprintf` leaves when it fails (AsyncLogger.hpp:86) is undefined, and
  the byte behind a full read (ServerBackupLog.hpp:71) belongs to the compiler:
  no property speaks of them.
- Message formatting, the page's HTML, the set-up of sockets, build files and
  examples.
- Missing request headers, and a copy out of libevent's buffer that fails:
  libevent does not do the second, and the first is no state of a client that
  uses the page.

## Plan

In this order; all of it is done.

1. `AsyncBuffer`, `AsyncWorker`, `LogChannel`: the core of the library, with
   its abstract specification, and the proofs.
2. `ThreadPool` and its proofs.
3. `DataManager`, `StorageService`: crashes and faults in the server.
4. `RollFileFlush`: durability.
5. The invariants of 1, 2 and 7 as theorems.
6. `RemoteBackup`: sender and receiver with broken connections and cut messages.
7. `LoggerManager` and `AsyncLogger`: two threads that add one name; `serialize`
   composed with the pool, the backup and the worker.
8. An abstract file store, `FileStore`, that `StorageService` implements, with
   the losses a cut write causes.
9. Codecs: `Base64` and `FileNames` with their proofs, for every name.
10. `Server`: the life of the process around all of it, and its proofs.
11. Proofs about `RollFileFlush` and `StorageService`: every invariant of their
    runs, and that the server implements `FileStore`.
12. `TaskPool`, which both pools implement; rest states, bounds on steps, and
    what the abstract specifications give, as theorems.
