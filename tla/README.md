# Verification of PS5 LocalSend

TLA+ models, TLC runs and TLAPS proofs for PS5 LocalSend, a file receiver for the
local network: browsers authorize with a PIN, prepare an upload, send its bytes
over one of several transports, and the console publishes the file in a
destination directory. Paths below are relative to the repository, whose C code is
under `src/`.

## 1. Inventory

| part | state | operations | hard behaviour |
|---|---|---|---|
| upload manager, `src/upload.c` | one slot (id, session, size, part file, descriptor), chunk table and staging buffers, ring of write buffers, writer thread state, `completed_files` | prepare, begin, write, write_direct, chunk_begin/write/finish/abort, finish, finish_chunks, cancel, abort, snapshot, set_destination, create, destroy; writer thread | one mutex and one condition for everything; waits that release the mutex in the middle of an operation; disk writes and hash passes outside the mutex; lease; I/O errors |
| authorization, `src/auth.c` | tables of challenges and sessions | create challenge, verify, validate bearer | concurrent requests, times read before the mutex, attempt and table limits |
| fast upload server, `src/fast_upload_server.c` | listener, accept thread, table of client descriptors, worker count | start, accept, serve one request, stop | detached workers, descriptor reuse, shutdown |
| router, `src/router.c` | configuration, login state, both managers | REST dispatch, the stream functions that drive an upload | which manager call follows which, above all after a failure |
| HTTP server, `src/server.c` | one `request_state_t` per request | libmicrohttpd callbacks | connections that end early |
| configuration and storage selection, `src/config.c`, `dispatch_storage` in `src/router.c` | `config.ini` and its temporary file, the router's copy, the manager's destination, part files in all destinations | parse, save, select, roll back, sweep | a kill between any two steps, a failed save, a drive that is pulled, an upload that is open |
| safe paths, `src/safe_path.c` | none | name validation, unique names | UTF-8 and name edges |
| web client, `web/app.js` | queue, chunk scheduler with its counters | prepare, send, retry, complete, cancel | retries with timers beside other requests, back-pressure, lost answers |
| start and stop, `src/main.c`, `server_start`, `server_stop` | configuration, servers | load or create the configuration, start, stop | requests arrive before the start is complete, start fails half way |
| SHA-256, platform, tools | | | |

Interaction: both servers run one thread for each connection and call the
router; the router calls the authorization manager for every request and the
upload manager for the upload endpoints. Nothing is shared between the servers
but the two managers, each behind its own mutex, and the router's mutex around
preparation. `server_stop` joins every request thread before it destroys the
managers.

What makes the parts correct: what is published is what the client sent, whole,
once, under a name nobody used; no part file outlives its upload; counters agree
with the state they summarise on every path; a handler that waited does not act
on somebody else's upload; every wait ends; shutdown completes; a PIN is good
for one login of its own client; what a selection was answered is what a restart
finds; a file the receiver wrote lets it start again; the client's counters tell
it the truth.

## 2. Modules

| module | role |
|---|---|
| `UploadManager` | the upload manager with the handlers of both servers and the writer thread |
| `FileDrop` | the abstract specification of the upload manager |
| `MCUpload` | the instance of `UploadManager` for TLC |
| `UploadManagerProofs` | theorems about `UploadManager`: the chunk table, the counters, the ring |
| `UploadControlProofs` | theorems about it in every environment: handlers, markers, shutdown; the file limit |
| `RangedUploadProofs` | theorems about it for ranged uploads: part files, content, the refinement of `FileDrop` |
| `StreamUploadProofs` | the same for files sent as one body, buffered or direct, by clients that take turns |
| `AuthManager`, `MCAuth`, `AuthManagerProofs` | the authorization manager, its instance, its theorems |
| `FastUploadServer`, `FastUploadServerProofs` | threads and descriptors of the fast server, its theorems |
| `Storage`, `MCStorage`, `StorageProofs` | configuration, start and stop, storage selection and part files across restarts |
| `ChunkTransfer`, `ChunkTransferProofs` | the browser's chunk scheduler composed with the manager's staging window |

### UploadManager

State. `slot` is the part of `struct upload_manager` that describes the upload;
`chunk` the chunk table (`state`, `buf`, `completed`, `next` for
`next_write_chunk`, `active` for `active_chunk_buffers`); `queue` and `buffered`
the ring of write buffers; `writer` the writer thread with `writer_error` and
`writer_discard`; `quota` is `completed_files` and `completed_authorization`;
`disk` holds part files and published files. `pc` and `req` are the request
threads with their local variables, `mutex` the owner of the manager's mutex
while it spans several steps.

Steps. One step is one stretch of code between two points at which the mutex is
released. `Body(t, op)` is the entry of an operation, after `reap_locked`; a
condition wait is a label (`room`, `drain`, `cdrain`, `clearing`) whose
step is guarded by the negated wait condition and, as in the code, does not look
the slot up again unless the code does. The wait in
`enqueue_write_buffer_locked` is left out because it is never entered: that is
`TailIsFree`, checked and proved. `write_all` and `hash_part_file` run
without the mutex and read `manager->fd` at that moment. `clear_slot` is entered
with the mutex from many places (`ClearThen`); when the writer is active it waits
(`ClearWait`), which is where other threads get in.

Handlers. `req[t].op` is the next manager call of the handler: `Call` moves on
to it, as `server.c`, `fast_upload_server.c` and the stream functions of
`router.c` do, the calls after a failure included (`abort`, then `cabort` or
`reabort` when the request ends).

Data. A unit of a file is a pair of the upload it was meant for and its
position, so that any mix-up of uploads, chunks or order shows in the
content. A digest is what it was computed from. Sizes are in units:
`ChunkUnits`, `BufferUnits`, `QueueDepth` and `ChunkSlots` are the constants of
`upload.h`. The other body calls take one unit at a time; a call of
`upload_write` may span buffers: after the one it filled it waits for room and
goes on copying without a new lookup (`AwaitRoom`), as at 1099-1106.
Identifiers and names are numbers; `unique_name` takes the first that is free.
A member of `Auths` stands for a session, that is for a client address and its
bearer together, because a bearer is good from one address only; what the router
passes on is `Token`, the same for everybody when `AuthMode` is "none". The runs
have "pin"; the theorems cover both.

Environment. `Kinds` are the requests clients issue, `Faults` what happens
besides: `contend` (a client prepares although an upload is open or being
prepared), `expire` (the lease runs out), `drop` (a connection ends early),
`length` (a ranged body shorter or longer than its range, a Content-Length
other than the declared size, or none, which the router answers by cancelling the
upload), `disk` (an I/O error,
a full disk, no memory), `foreign` (another process creates a file). Without
`contend` clients take turns, as `runQueue` of the web client does with its own
files: `Turn`. Without `length` a body for the open upload has the declared size,
as `uploadBody` sends `item.file`, whose size it declared: `HonestSize`.

Abstractions to know about: removing a part file always succeeds; an
unoccupied slot keeps no leftover name or identifier of a refused preparation;
publication is the atomic `link` of the host build (the PS5 build tests the name
with `lstat` and renames, which is not one step if another process interferes).

### FileDrop

Uploads are opened one at a time under fresh identifiers, an open upload is
published at most once, as a whole and under a free name, and may be discarded.
`RefinesFileDrop` is the refinement: the open upload is `slot.id` of an occupied
slot, and a published file counts as upload i only if its content is exactly
what client i sent.

### AuthManager

`challenges` and `sessions` are the two tables, `call` the request of each
thread with the time it read before it took the mutex. Each operation is one
step because the code holds the mutex throughout. `issued` is a history variable:
every token handed out. Identifiers and tokens are consecutive numbers in place
of random ones, so guessing is outside the model.

### FastUploadServer

`acceptor`, `worker` and `stop` are the threads, `client_fds` and
`active_workers` the table under the server's mutex, `listener` the number of the
listening socket, `sock` what each descriptor
number of the process names. Numbers are allocated lowest first and reused at
once, that of the listener too, which `accept_main` may still use between the
close (762) and the assignment after it; other parts of the process open and close
descriptors too. That no other part starts to listen while the server stops is
assumed: the HTTP server listens before, and nothing else in `src/` listens.

### Storage

Composes `config.c`, `main.c`, `server_start`/`server_stop`, `dispatch_storage`
and the parts of the upload manager a destination concerns. On disk: `file` is
`config.ini` as the record of its lines, `temp` its temporary file, `parts` the
part files in all directories, `mounted` the drive. In memory: `proc` is where
`main` is, `config` the configuration (main's, then the router's copy of it),
`listening` the servers, `manager` the upload manager, `save` the steps of
`config_save_file`, `sel` those of `dispatch_storage`. `Loads(f)` and `Loaded(f)`
are `config_load_file`: whether it accepts a file, and what it yields, with the
two targets made up for a file of the older form. `Saved(c)` are the lines
`config_save_file` writes. The manager takes its destination from the
configuration, as the PS5 build does (upload.c:851); the host build takes it from
`PS5LOCALSEND_UPLOAD_DIR` or the data directory (844-848, 937-940) and has nothing
to keep in step with `config.ini`. (`UploadManager` differs: its publication is
that of the host build.)

Selections and preparations hold the router's mutex, so one of them is under way
at a time; start, stop, the end of uploads, lease expiry, pulling the drive and a
kill come between their steps. `Select` is `upload_manager_set_destination` with
its reaping and its sweep, up to the save. `Kill` keeps the files and nothing
else. `promised` is a history variable: the destinations a restart may use,
given the answers so far. A kill loses no data that was handed to the file
system; power loss (the code calls no `fsync` on `config.ini`) is not modelled,
nor are two receivers on one directory.

### ChunkTransfer

`wire` says where each chunk's request is, `nextIndex`, `completed`, `active`,
`cancelled` and `settled` are the variables of `uploadChunks`, `complete` and
`delete` its last two requests, `server` the manager's table for this upload (0
free, 1 open, 2 complete, 3 written, as `chunk_states`). A handler of the browser
is one step, since script runs to completion; `Fail` and `CancelUpload` include
the `onabort` handlers that `xhr.abort()` calls. The server's steps are those of
`UploadManager` reduced to the table. One upload is followed to its end.

## 3. Runs

All constants of a run are in its `.cfg`.

| run | environment | shows |
|---|---|---|
| `upload_chunks` | ranged uploads of three chunks on both servers, a window of two, cancel; contend, drop, foreign, bodies of a wrong length | types; `StagingWindow`, `ChunkCounters`, `WriterOnChunk`: the chunk table is exact at all times; `NoOrphanPart`; `PublishedGenuine`: bodies of a wrong length, cancellation and supersession corrupt nothing that is published; `RefinesFileDrop` |
| `upload_streams` | buffered and direct uploads (empty files too) of two sessions, a file limit of one, cancel; contend, expire, drop, a wrong Content-Length | `QuotaRespected`: the limit counts real files; `ShutdownNotBlocked`: no counter or marker stays behind |
| `upload_settled` | all transports on both servers, clients take turns, no cancel, no expiry; drop, disk | `PublishedGenuine`, `IntegrityVerified`; `TailIsFree`: the ring entry being filled is not one the writer still has to write; `NoOrphanPart` and `WriterHasFile` with streams, ranges and disk errors; `SlotKeptWhileHashing`: an upload being hashed keeps its slot and its marker; `EveryCallReturns` under fairness |
| `auth` | two threads, three clients, two challenge entries | the six invariants of the authorization manager |
| `fast_server` | two slots, five descriptors, one of them the listener | worker count, descriptor ownership, no use after free, and stop returns |
| `storage` | three hand-written files (documented form, older form, refused) or none, a removable drive, two part files, disk errors, kill | `SavedLoads`, `AnswersDurable`, `StatusTellsDestination`, `OpenPartKept`, `NoOtherParts`, `RequestsHaveRouter` |
| `transfer` | five chunks, parallelism three, a window of three; drop, cancel, expire | `ActiveExact`, `ResendsOnlyMissing`, `NoEarlyComplete`, `DoneMeansPublished`; `TransferSettles` under fairness |

Five runs find a property violated, each one something the repository says of
the code:

* `upload_busy`: an `upload_prepare` refused with `UPLOAD_BUSY` falls through to
  the clean-up of a failed preparation (upload.c:1058), which tests only for an
  open descriptor, and wipes the transfer that is running. The test calls its
  file `cannot-steal.bin` and does not look at the running upload afterwards.
* `upload_marker`: `upload_cancel` tests `finalizing_chunks`, then `clear_slot`
  waits for the writer with the mutex released (443). A completion that sets the
  marker meanwhile loses the slot under its hash pass, against the comment at 1571.
  Without cancellation and contention `SlotKeptWhileHashing` holds
  (`upload_settled`), but for one case left out there: a `complete` call for an
  empty file that is being streamed finds nothing missing and ends the upload
  beside the stream's own finish.
* `upload_cancelled_finish`: a sequential finish waiting for the writer (1471)
  goes on with the next upload and publishes that upload's empty part file. The
  wait for room in `upload_write` (1105) has the same shape: a handler woken
  there after a cancellation queues its buffer for a descriptor that is closed,
  so that `WriterHasFile` fails once streams and cancellation come together.
* `storage_port`: config.example.ini:16 says that the dropdown "updates only this
  line", `destination=`. What `dispatch_storage` saves is the router's
  configuration with the port this run was started with, or bound. After
  `--port 80` the saved file is one the next start refuses.
* `transfer_window`: router.c:243 tells the client to retry a chunk the full
  window refused. If the chunk the writer needs next is the late one, the others
  fill the window (twice the parallelism, as in `upload.h`) and the retry is
  refused again and again: only the lease ends it. The client takes this path
  when no fast upload port is known.

They bound what the passing runs can claim, which is why those differ in their
environments. With cancellation, `PublishedGenuine` holds for ranged uploads
(`upload_chunks`) and fails for sequential ones. `EveryCallReturns` is checked
without cancellation only: a completion that loses its slot to a waiting
`clear_slot` can wait at 1559 for ever. `NoOrphanPart` is checked for
ranged uploads in `upload_chunks` and for all kinds, with clients that take turns,
in `upload_settled`; it also holds when all clients of `upload_streams` use buffered
uploads, or all use direct ones (drop the other kind from `Kinds`), and fails
when both meet cancellation or contention in three uploads: a `clear_slot(0)`
that waits after a publication forgets the part file of the upload prepared
meanwhile. Under
contention a direct write can land in the file of the next upload, by way of the
refusal that wipes the slot. `QuotaRespected` fails with three threads when
sequential streams, cancellation and disk errors come together, which is why
`upload_streams` has no `disk`: a preparation that runs into a disk error undoes
its upload, its `clear_slot` waits for the writer, and a stale sequential finish
publishes the upload meanwhile, although nothing reserved a place for it any
more. `upload_settled` has the disk errors for streams. These are consequences of
the same places.
`storage` has no `--port` argument, and `transfer` claims that transfers end, not
that they succeed.

### Bounds and why they are enough

* Two request threads: every problem above needs one thread that waits and one
  that acts; the writer thread is a third actor. Two or three upload
  identifiers: an upload, the one that takes its slot, and one more.
* `upload_chunks`: three chunks of one unit and a window of two, so that chunks
  arrive out of order, the window fills, and an over-long body meets a chunk that
  is open. `upload_settled`: files of one and of three units in chunks of two, so
  that a last chunk is shorter than the others, or the only one, and the body of a
  full chunk arrives in two pieces. Queue depth one makes the queue full after one buffer; the
  ring's order is kept by the sequence.
* `storage`: two targets (the table is then full), one on the drive; a file whose
  destination is no target, one without targets, one the parser refuses, and
  none; two part files, so that a stale one meets an open one. The program
  counters bound the rest: no counter grows.
* `transfer`: the window equals the parallelism, so that a refusal and a retry
  happen while other requests succeed; five chunks leave two for `schedule` to
  start after the first answers. `transfer_window` has the real ratio.
* Bounds that are not in the code are named: `MaxUploads`, `MaxChunks`,
  `MaxNames`, `MaxTime`, `MaxIds`, `MaxFd`. Reaching one is a refusal the code
  also has (no identifier, no name, table full).
* Symmetry: request threads, and sessions where there are two, are
  interchangeable. The liveness runs use no symmetry.

### Fairness

`upload_settled`: strong fairness of each thread's step and of the writer. A
thread that is runnable runs, and one that finds the mutex free again and again
gets it; the mutex is held for short stretches and waiters on the condition are
woken by broadcast. Clients owe nothing: requests, faults and shutdown are not
forced. A handler whose client sends nothing further is ended by the connection
timeout of its server, which is `Drop`; the run's fairness covers the manager
calls themselves. `fast_server`: weak fairness of the server's own steps, and
of a worker's step once its socket was shut down; no fairness of clients.
`transfer`: weak fairness of each chunk's client and server steps, of the
writer, of the completion and its answer, of a DELETE on its way, and of lease
expiry: timers fire, requests that are not lost arrive, and `reap_locked` runs
with the next call. Nothing forces a fault or a cancellation.

## 4. Proofs

Proved with TLAPS for every value of the constants that satisfies the named
assumptions (`SizesAssumption`, `EnvironmentAssumption`, `AuthAssumption`, `PathsAssumption`,
`SettingsAssumption`, `TransferAssumption`, `ServerAssumption`), that is, for
any number of threads, uploads, chunks, sizes, kinds of request, paths,
configuration files and faults.

`UploadManagerProofs`: `Inv == TypeOK /\ SlotLinks /\ StagingWindow /\
ChunkCounters /\ WriterOnChunk` is inductive (`InvHolds`); the four properties
follow. Why the parts need each other: the counters survive `WriterDone`
(active - 1, next + 1) only because the chunk being written is still complete
and still the next (`WriterOnChunk`); that holds because `clear_slot` waits for
the writer and every other step leaves complete chunks alone; the window bound
needs the exact count, because `active` is what `ChunkBeginOk` tests; types need
the counts, because a counter is decremented only when it is positive; and an
over-long body can write into a neighbour only if that chunk is open
(`WriteTarget`). `SlotLinks` ties the transport flag to an occupied slot. The
proof has a lemma for each way a chunk changes state (`CountedOpen`,
`CountedFinish`, `CountedFree`, `CountedWritten`), one for each group of
actions, and `NextKeepsInv` to combine them. `RingSafe` proves `TailIsFree`, which
is inductive beside `Inv`: five actions touch the ring (`RingUntouched`), and
each begins or queues a buffer only while there is room.

`UploadControlProofs` adds what the handlers know. `Control == Inv /\ Handlers /\
MarkerOwned /\ WritesOwned` is inductive in every environment: `Handlers` gives,
for each label, who holds the mutex and which operations of which kind of request
can be there; `MarkerOwned` says that whenever `finalizing` is set, some handler
stands at a label whose every way out resets it or replaces the slot; `WritesOwned` that a
direct write that is counted is being done by some handler, and that there is
never a second. `ShutdownProceeds` follows: once every handler has
returned there is nobody to own a marker, so there is none. The parts need each
other because a handler that comes back from a wait decides by the slot's
identifier, which only the label tells it still to be its own.

`FileLimit` adds `RoomReserved` (an upload that can still be published is charged
to the session `completed_authorization` names, and one place is left for it),
`DescriptorOccupied` and `AllDirect`. It assumes `NoUndoUnderStream`, no
sequential streams or no disk errors: otherwise a preparation that is undone
leaves, while its `clear_slot` waits, a descriptor open without an upload in the
slot, and a stale sequential finish publishes it (section 3). Without
disk errors a descriptor is open only for an upload in the slot; without sequential
streams no handler gets to publication without looking the slot up. The step
itself is the lemma `QuotaStep`: it keeps `QuotaInv` whenever what is published
is the upload in the slot (`PublishesSlot`), which is all the hypothesis is for.

`RangedUploadProofs` is about environments without `stream` and `direct`
(`RangedOnly`): files are sent as the web client does when it knows no fast upload port
and the file is large enough (`uploadChunks`), to either server, with any faults: competing
preparations, cancellation, expiry, lost connections, bodies of a wrong length,
disk errors, foreign files. Its invariant is `RangedInv == Control /\ Manager /\
Senders /\ Joined`. `Manager` says that the slot's part file is the only one
(`PartInv`); that a staging buffer holds units of its own chunk in order, all of
them once the chunk is complete (`BufInv`); that the part file is the
genuine file up to the chunk the writer has passed (`DataInv`), unless an error
was seen, in which case the upload can never get to its last chunk (`WriterInv`);
that the descriptor is closed only after everything was written (`SlotInv`); and
that every published file is whole (`FilesInv`). `Senders` carries across the
points where the mutex is released what a handler read before them: a chunk's
size is still that of the slot, a hash pass is over a file the writer is done with, and a
`clear_slot` that keeps the file clears a published upload. `Joined` says that nobody
comes back after `server_stop` has joined the request threads.
The parts need each other: content is right when the writer is done
only if the buffer was (`BufInv`), it was written in order to the right file
(`WriterInv`, `DataInv`) and nobody cleared the slot in between (`WriterOnChunk` of
`Inv`, `Senders`). The four invariants of the runs about part files,
descriptors, content and hashes follow (`PartFilesOwned`, `DescriptorOpen`,
`RangedGenuine`, `RangedIntegrity`). With direct writes or sequential streams they
do not hold in every environment (section 3), which is why the hypothesis is
there.

`RangedImplementsFileDrop` proves the refinement from `RangedInv` and
`RoomReserved`, step by step: a successful preparation is `Open`, a publication is
`Publish`, clearing an occupied slot is `Discard`, a foreign file is `Appear`,
and every other step changes nothing `FileDrop` sees. The publication
step is where everything is used: the content is genuine (`DataInv`), it is the
open upload's (`SlotInv`), and the name is free.

`StreamUploadProofs` is about files sent as one body: buffered streams of the
HTTP server, direct streams of the fast server, and both in turn, with files of
any size, any number of sessions and handlers, and with lost connections, disk errors
and foreign files. Its hypothesis `Settled` excludes what section 3 shows to break
these properties or to lead to the places that do: cancellation, contention, expiry and a wrong
Content-Length (the router answers it with `upload_cancel`). What is left is what the web client does
while its user lets it work. The invariant is `StreamInv == Control /\ Clients /\ Alone /\
Store /\ Joined`.

* `Clients` is what each handler carries across the points where the mutex is
  released: from begin to finish it has sent as many units as the slot has
  received (`Sending`), and a `clear_slot` it asks for is for its own upload and
  keeps the file only of a published one (`Clearing`).
* `Alone`: there is one preparation and one stream at a time. It makes the
  unchecked returns from the waits (1105, 1471) safe here: the slot
  found after the wait is the one left before it.
* `Store` describes the slot (`StreamSlot`), says that the writer works on the oldest
  buffer of the ring (`RingInv`), that the slot's part file is the only one
  (`PartInv`), that every published file is whole (`FilesInv`), and where the
  bytes of the open upload are (`StreamData`).
  For a buffered stream the ring carries on where the part file ends (`Backlog`):
  there are positions `at[1] <= at[2] <= ...` such that the part file holds the genuine file up to the
  first, buffer k the units between the k-th and the next, and the buffer
  being filled those from the last position to `received`. For a direct stream the part file
  holds what was received, plus one unit between the unlocked write and the step
  that counts it (`Written`). An I/O error suspends both, and a finish that meets it publishes nothing.

A unit received, a buffer queued and a buffer written and dropped are then three
ways to change `at` (lemmas `RingFills`, `RingQueues`, `StreamWrote`); when the wait of
`upload_finish` ends the queue is empty, so the only position left is
`received`, which is the declared size (`StreamComplete`). The four
invariants about part files, descriptors, content and hashes follow
(`StreamPartsOwned`, `StreamDescriptorOpen`, `StreamedGenuine`, `StreamedIntegrity`).
`StreamFileLimit` proves `QuotaRespected` here with disk errors too, where
`FileLimit` needs a hypothesis: every publication is of the slot (`Alone`),
so that `QuotaStep` applies. `StreamsImplementFileDrop` is the refinement; it shares
the lemmas about each abstract step (`PrepareOpens`, `PublishPublishes`,
`ClearDiscards`, `OutsideRefines`) with the ranged proof.

`AuthManagerProofs`: `Inv` adds to the properties that identifiers are fresh and
distinct (`IdsFresh`), that an unused challenge has yielded no token
(`UnusedYieldedNothing`) and that a session is the record of the newest token
(`SessionGenuine`); without the first two `OneTokenPerChallenge` is not inductive,
without the third `BearerGenuine` is not. All six invariants of the run are
theorems. Freeing entries, which every operation
begins with, keeps `Inv` by two lemmas (`FreeingKeepsChallenges`,
`ExpiryKeepsSessions`).

`FastUploadServerProofs`: every invariant of the run is a theorem. The count is
exact because an entry of the table and its worker come and go together, or the
accept thread stands in for the worker between `reserve_slot` and
`pthread_create`; descriptors stay apart because an entry that is in use was
never returned to the system; and freeing is safe because stop waits for the
count after it joined the accept thread, so that nobody can raise it again.
`ListenInv` keeps the listener's number apart from those of connections until it
is closed, and says that nothing listens after that.

`StorageProofs`: `Inv` collects, beside the types, where each program counter may
be given the others (a save is under way only for a selection or before
`router_init`; a selection only while the daemon serves), where the manager's
destination is during each step of a selection, what the file holds compared with
`promised`, and that the open part file is in the manager's directory.
`AnswersDurable` needs most of it: while the receiver runs the file changes only in
`SaveRename`, and what it becomes then is what `Select`
put into `promised` several steps before. `DestinationIsTarget` proves that the
destination is always one of the targets, and `RoundTrip` that a saved file
loads into what was saved. Two theorems have hypotheses, and each is needed.
`OnlyDestination` (`UpdatesOnlyDestination`: a selection changes one line) assumes
that no `--port` is given: `storage_port` shows why, and no other run checks it.
`SavedFilesLoad` assumes that a `--port` is one the parser accepts
(`OverridesAllowed`; not 0 either: requests arrive before `router_set_port` has
put the bound port in its place), and that no path of the older form has a `|` in
it (`NoBars`): such a destination loads, but the `storage_path` line written for
it does not.

`ChunkTransferProofs`: the client's counters are the cardinalities of its
requests (`CountInv`); chunks from `nextIndex` on were never started (`FreshInv`),
which makes `schedule` add as many requests as it counts; the request of a chunk
and its entry in the server's table agree (`TableInv`), and `complete` and
`settled` agree with both (`EndInv`). All four are needed together: that a
retry is never refused as a duplicate rests on the table, that completion is not
asked for early on the count and the table.

Only model-checked: the liveness properties (`EveryCallReturns`, `StopReturns`,
`TransferSettles`), which are outside the prover's reach, `SlotKeptWhileHashing`,
and environments in which ranged uploads and streams alternate: `upload_settled`
checks content, hashes, part files and descriptors there, the theorems cover each
transport family by itself. A theorem about streams in every environment cannot be
had: the properties fail there (section 3).

## 5. Not modelled

* HTTP and JSON parsing, response texts, CORS, headers: no state.
* Login dialogues, progress telemetry and rendering of the web client.
* Name validation and UTF-8 checks of `safe_path.c`, the character rules of paths
  in `config.c`: pure functions of bytes; in the models a path is a value that
  belongs to the sets the code asks about.
* SHA-256: a bit-level function of long inputs; a digest is modelled by the
  content it was computed from.
* Power loss: `config.ini` is renamed without an `fsync`; the models lose memory,
  never what was handed to the file system.
* A second receiver on the same directory, and `--check-config`, which changes
  nothing.
* The DELETE after a failed transfer is not awaited before the next file is
  prepared; the two are modelled apart (`ChunkTransfer`, `UploadManager`). The next
  preparation may be refused as busy; a DELETE that comes late finds no upload of
  its id.
* The host build's overrides of the upload directory (see Storage).
* Platform files and build tools: I/O and constants.

## 6. Plan

Done: all components that keep state and decide over it. What could follow:

1. The ring of write buffers (head, tail, count) shown to implement the
   sequence used in `UploadManager`.
2. Publication with `lstat` and `rename` and a foreign process in between, as in
   the PS5 build.
3. Pure operators of `safe_path.c` (unique names at the length limit) against a
   reference definition.
4. Proofs for environments that mix ranged uploads and streams, as `upload_settled`
   checks them: one invariant that joins `Manager` and `Store` by the transport flag.
