--------------------------- MODULE UploadManager ---------------------------
(***************************************************************************)
(* The single-slot upload manager of src/upload.c with the request         *)
(* handlers that drive it: server.c runs one libmicrohttpd thread for each *)
(* connection, fast_upload_server.c one thread for each accepted socket,   *)
(* and both reach the manager through the stream functions of router.c.    *)
(*                                                                         *)
(* A step of a thread is one stretch of code between two points at which   *)
(* the manager's mutex is released (unlock or condition wait); the writer  *)
(* thread, the disk writes and the hash pass run outside the mutex.        *)
(* A condition wait is the guard of the step that follows it.              *)
(*                                                                         *)
(* Data: a unit of a file is the pair <<upload, position>> of the upload   *)
(* the client meant it for and its position in that client's file.         *)
(***************************************************************************)
EXTENDS Integers, Sequences, FiniteSets

CONSTANTS
    Threads,      \* request threads of the two servers
    NoThread,     \* the owner of a free mutex
    Auths,        \* client address and bearer token, bound to an upload
    NoAuth,       \* no authorization: empty, or "NoAuth" (see Token)
    AuthMode,     \* auth_mode of the configuration: "pin" or "none"
    MaxUploads,   \* bound: upload identifiers handed out in a behaviour
    Sizes,        \* file sizes a client may declare, in units
    Hashes,       \* declared SHA-256: "none", "good" or "bad"
    MaxChunks,    \* bound: chunks of the largest file
    ChunkUnits,   \* UPLOAD_CHUNK_BYTES
    BufferUnits,  \* UPLOAD_WRITE_BUFFER_BYTES
    QueueDepth,   \* UPLOAD_WRITE_QUEUE_DEPTH
    ChunkSlots,   \* UPLOAD_CHUNK_BUFFER_SLOTS
    MaxFiles,     \* max_files_per_session
    MaxNames,     \* bound: candidate names safe_path_unique_name tries
    Kinds,        \* kinds of request the clients issue
    Faults        \* what the environment does besides (AllFaults)

AllKinds == {"prepare", "stream", "direct", "chunk", "fastchunk",
             "complete", "cancel", "status"}
AllFaults == {"contend", "expire", "drop", "length", "disk", "foreign"}

(* The number of chunks of a file of s units, and the length of chunk i.   *)
ChunkCount(s) == IF s = 0 THEN 0 ELSE ((s - 1) \div ChunkUnits) + 1

chunk_length_for(s, i) ==
    LET offset == i * ChunkUnits
    IN  IF offset >= s THEN 0
        ELSE IF s - offset < ChunkUnits THEN s - offset ELSE ChunkUnits

ASSUME SizesAssumption ==
    /\ MaxUploads \in Nat /\ MaxNames \in Nat /\ MaxFiles \in Nat
    /\ MaxChunks \in Nat \ {0}
    /\ ChunkUnits \in Nat \ {0} /\ BufferUnits \in Nat \ {0}
    /\ QueueDepth \in Nat \ {0} /\ ChunkSlots \in Nat \ {0}
    /\ Sizes \subseteq Nat
    /\ \A s \in Sizes : ChunkCount(s) <= MaxChunks
ASSUME EnvironmentAssumption ==
    /\ NoThread \notin Threads /\ NoAuth \notin Auths
    /\ AuthMode \in {"pin", "none"}
    /\ Hashes \subseteq {"none", "good", "bad"}
    /\ Kinds \subseteq AllKinds /\ Faults \subseteq AllFaults

Ids    == 1..MaxUploads          \* 0 stands for the empty upload_id
Names  == 1..MaxNames
Chunks == 0..(MaxChunks - 1)
Unit   == (Ids \cup {0}) \X (Nat \ {0})
Genuine(id, n) == [p \in 1..n |-> <<id, p>>]

VARIABLES
    mutex,     \* holder of manager->mutex while it spans several steps
    pc, req,   \* per thread: where it is, and its request with its locals
    slot,      \* the upload that occupies the manager
    chunk,     \* its chunk_states, chunk_buffers and counters
    queue,     \* write_queued buffers of the sequential stream, oldest first
    buffered,  \* the buffer being filled (write_tail, buffered)
    writer,    \* the writer thread and writer_error, writer_discard
    quota,     \* completed_files and completed_authorization
    disk,      \* part files and published files of the destination
    nextId,    \* next identifier random_id returns
    life       \* "up", "joining" (writer_shutdown set), "gone" (freed)

vars == <<mutex, pc, req, slot, chunk, queue, buffered, writer, quota, disk, nextId, life>>
dataVars == <<slot, chunk, queue, buffered, writer, quota, disk, nextId, life>>
-----------------------------------------------------------------------------
(* Null values: the state clear_slot leaves behind, and an idle thread.    *)
EmptySlot == [occupied |-> FALSE, started |-> FALSE, id |-> 0, part |-> 0,
              fd |-> 0, auth |-> NoAuth, size |-> 0, name |-> 0,
              hash |-> "none", sha |-> <<>>, received |-> 0, stale |-> FALSE,
              direct |-> FALSE, transport |-> FALSE, finalizing |-> FALSE,
              writes |-> 0]
EmptyChunks == [state |-> [i \in Chunks |-> 0], buf |-> [i \in Chunks |-> <<>>],
                completed |-> 0, next |-> 0, active |-> 0]
NoReq == [kind |-> "none", op |-> "none", id |-> 0, auth |-> NoAuth, size |-> 0,
          hash |-> "none", idx |-> 0, sent |-> 0, part |-> 0, digest |-> "none",
          failed |-> FALSE, remove |-> FALSE, then |-> "return"]
NoFile == [owner |-> "none", id |-> 0, auth |-> NoAuth, size |-> 0, hash |-> "none", data |-> <<>>]
Foreign == [NoFile EXCEPT !.owner = "foreign"]
IdleWriter == [pc |-> "idle", job |-> "queue", index |-> 0, data |-> <<>>,
               failed |-> FALSE, error |-> FALSE, discard |-> FALSE]

Init ==
    /\ mutex = NoThread
    /\ pc = [t \in Threads |-> "idle"]
    /\ req = [t \in Threads |-> NoReq]
    /\ slot = EmptySlot
    /\ chunk = EmptyChunks
    /\ queue = <<>>
    /\ buffered = <<>>
    /\ writer = IdleWriter
    /\ quota = [auth |-> NoAuth, count |-> 0]
    /\ disk = [data |-> [i \in Ids |-> <<>>], linked |-> {},
               files |-> [n \in Names |-> NoFile]]
    /\ nextId = 1
    /\ life = "up"
-----------------------------------------------------------------------------
(* Control flow of a handler.                                              *)

IsChunk(t) == req[t].kind \in {"chunk", "fastchunk"}
IsFast(t)  == req[t].kind \in {"direct", "fastchunk"}

(* The first manager call of a request, and the next one for its body.     *)
FirstOp(kind) == CASE kind \in {"stream", "direct"}   -> "begin"
                   [] kind \in {"chunk", "fastchunk"} -> "cbegin"
                   [] OTHER                           -> kind
BodyOp(t, sent) == CASE sent < req[t].size -> IF IsFast(t) THEN "dwrite" ELSE "write"
                     [] OTHER              -> "finish"

Return(t) ==
    /\ pc' = [pc EXCEPT ![t] = "idle"]
    /\ req' = [req EXCEPT ![t] = NoReq]
    /\ mutex' = NoThread
Call(t, op, sent) ==
    /\ pc' = [pc EXCEPT ![t] = "call"]
    /\ req' = [req EXCEPT ![t].op = op, ![t].sent = sent]
    /\ mutex' = NoThread
(* Continue at label l: with the mutex if `held', else releasing it.       *)
Goto(t, l, held) ==
    /\ pc' = [pc EXCEPT ![t] = l]
    /\ mutex' = IF held THEN t ELSE NoThread
(* Call clear_slot(remove) with the mutex held.                            *)
ClearThen(t, remove, then) ==
    /\ pc' = [pc EXCEPT ![t] = "clear"]
    /\ req' = [req EXCEPT ![t].remove = remove, ![t].then = then]
    /\ mutex' = t

(* A thread that holds the mutex, or one that can take it.                 *)
CanLock(t) == mutex \in {t, NoThread}
At(t, l) == pc[t] = l /\ CanLock(t)

ReapOps == {"prepare", "begin", "write", "dwrite", "cbegin", "cwrite",
            "cfinish", "finish", "complete", "cancel", "status"}

(* reap_locked: the lease has run out and nobody is using the slot.        *)
ReapDue == /\ slot.occupied
           /\ slot.stale
           /\ ~slot.finalizing
           /\ slot.writes = 0

(* router->mutex admits one upload_prepare at a time.                      *)
RouterFree(t) == \A u \in Threads \ {t} :
                    req[u].op = "prepare" => pc[u] = "call"

(* What a call waits for before it looks at the slot.                      *)
Admitted(t) == /\ req[t].op = "prepare" => RouterFree(t)
               /\ req[t].op \in {"cancel", "abort", "reabort"} => slot.writes = 0

(* Thread t runs the locked body of operation op.                          *)
Body(t, op) ==
    /\ req[t].op = op
    /\ \/ /\ pc[t] = "call" /\ mutex = NoThread /\ Admitted(t)
          /\ ~(op \in ReapOps /\ ReapDue)
       \/ pc[t] = "body" /\ mutex = t

Reap(t) ==
    /\ pc[t] = "call" /\ mutex = NoThread /\ Admitted(t)
    /\ req[t].op \in ReapOps /\ ReapDue
    /\ ClearThen(t, TRUE, "body")
    /\ UNCHANGED dataVars

(* upload_id matches, the session that prepared it asks, it was begun.     *)
(* A PIN session's token is good for one client address only, so that one  *)
(* value stands for both; with auth_mode none all clients have one token.  *)
Token(auth) == IF AuthMode = "none" THEN NoAuth ELSE auth
Found(t)   == slot.occupied /\ slot.id = req[t].id
Bound(t)   == slot.auth = req[t].auth
Started(t) == Found(t) /\ slot.started
-----------------------------------------------------------------------------
(* clear_slot.  The writer is told to discard, and waited for.             *)

(* Mutant: the part file is forgotten.                                     *)
ClearedDiskKeepsPart(remove) == disk

ClearedDisk(remove) ==
    IF remove /\ slot.part \in disk.linked
    THEN [disk EXCEPT !.linked = @ \ {slot.part}, !.data[slot.part] = <<>>]
    ELSE disk

(* Mutant: the finalizing marker survives clear_slot.                      *)
EmptyManagerKeepsMarker(remove) ==
    /\ slot' = [EmptySlot EXCEPT !.finalizing = slot.finalizing]
    /\ chunk' = EmptyChunks
    /\ queue' = <<>>
    /\ buffered' = <<>>
    /\ writer' = [writer EXCEPT !.error = FALSE, !.discard = FALSE]
    /\ disk' = ClearedDisk(remove)
    /\ UNCHANGED <<quota, nextId>>

EmptyManager(remove) ==
    /\ slot' = EmptySlot
    /\ chunk' = EmptyChunks
    /\ queue' = <<>>
    /\ buffered' = <<>>
    /\ writer' = [writer EXCEPT !.error = FALSE, !.discard = FALSE]
    /\ disk' = ClearedDisk(remove)
    /\ UNCHANGED <<quota, nextId>>

ClearWait(t) ==
    /\ pc[t] = "clear" /\ mutex = t
    /\ writer.pc \in {"writing", "wrote"}
    /\ writer' = [writer EXCEPT !.discard = TRUE]
    /\ Goto(t, "clearing", FALSE)
    /\ UNCHANGED <<req, slot, chunk, queue, buffered, quota, disk, nextId, life>>

(* After upload_abort for a failed write, the end of the request aborts    *)
(* once more: its chunk, or the whole stream.                              *)
AfterCall(t) == IF req[t].op = "abort"
                THEN Call(t, IF IsChunk(t) THEN "cabort" ELSE "reabort", 0)
                ELSE Return(t)

(* clear_slot returns to reap_locked's caller, or that function returns.   *)
AfterClear(t) ==
    CASE req[t].then = "body" ->
            /\ Goto(t, "body", TRUE)
            /\ req' = [req EXCEPT ![t].remove = FALSE, ![t].then = "return"]
      [] OTHER -> AfterCall(t)

(* Mutant: clear_slot does not wait for the writer.                        *)
clear_slot_at_once(t) ==
    /\ pc[t] = "clear" /\ mutex = t
    /\ EmptyManager(req[t].remove)
    /\ AfterClear(t)
    /\ UNCHANGED life

clear_slot(t) ==
    /\ \/ pc[t] = "clear" /\ mutex = t
       \/ pc[t] = "clearing" /\ mutex = NoThread
    /\ writer.pc \notin {"writing", "wrote"}
    /\ EmptyManager(req[t].remove)
    /\ AfterClear(t)
    /\ UNCHANGED life
-----------------------------------------------------------------------------
(* upload_prepare.                                                         *)

(* The tokens are compared, not the addresses.                             *)
Superseded(t) == /\ slot.occupied /\ ~slot.started
                 /\ Token(slot.auth) # Token(req[t].auth)

PrepareSupersede(t) ==
    /\ Body(t, "prepare") /\ Superseded(t)
    /\ ClearThen(t, TRUE, "body")
    /\ UNCHANGED dataVars

(* The refusal of a busy slot runs into the clean-up of a preparation that *)
(* failed, which tests for an open descriptor: the one of the upload that  *)
(* occupies the slot.                                                      *)
PrepareBusy(t) ==
    /\ Body(t, "prepare") /\ slot.occupied /\ ~Superseded(t)
    /\ IF slot.fd # 0 THEN ClearThen(t, TRUE, "return") ELSE Return(t)
    /\ UNCHANGED dataVars

(* completed_files counts per token.                                       *)
QuotaFor(token) == IF quota.auth = token THEN quota ELSE [auth |-> token, count |-> 0]
FreeNames == {n \in Names : disk.files[n] = NoFile}
unique_name == CHOOSE n \in FreeNames : \A m \in FreeNames : n <= m

(* The file limit is reached, or no space, name, part file or (the bound   *)
(* MaxUploads) identifier can be had.                                      *)
PrepareRefuse(t) ==
    /\ Body(t, "prepare") /\ ~slot.occupied
    /\ quota' = QuotaFor(Token(req[t].auth))
    /\ quota'.count >= MaxFiles \/ FreeNames = {} \/ nextId \notin Ids \/ "disk" \in Faults
    /\ Return(t)
    /\ UNCHANGED <<slot, chunk, queue, buffered, writer, disk, nextId, life>>

(* Mutant: the file limit is off by one.                                   *)
CanPrepareOneMore(t) ==
    /\ Body(t, "prepare") /\ ~slot.occupied
    /\ QuotaFor(Token(req[t].auth)).count <= MaxFiles
    /\ FreeNames # {} /\ nextId \in Ids

CanPrepare(t) ==
    /\ Body(t, "prepare") /\ ~slot.occupied
    /\ QuotaFor(Token(req[t].auth)).count < MaxFiles
    /\ FreeNames # {} /\ nextId \in Ids

(* The part file is created but its space or chunk tables are refused.     *)
PrepareUndo(t) ==
    /\ CanPrepare(t) /\ "disk" \in Faults
    /\ quota' = QuotaFor(Token(req[t].auth))
    /\ disk' = [disk EXCEPT !.linked = @ \cup {nextId}]
    /\ slot' = [slot EXCEPT !.part = nextId, !.fd = nextId, !.id = nextId,
                            !.name = unique_name]
    /\ ClearThen(t, TRUE, "return")
    /\ UNCHANGED <<chunk, queue, buffered, writer, nextId, life>>

PrepareOk(t) ==
    /\ CanPrepare(t)
    /\ quota' = QuotaFor(Token(req[t].auth))
    /\ disk' = [disk EXCEPT !.linked = @ \cup {nextId}]
    /\ slot' = [slot EXCEPT !.occupied = TRUE, !.id = nextId, !.part = nextId,
                            !.fd = nextId, !.auth = req[t].auth,
                            !.size = req[t].size, !.hash = req[t].hash,
                            !.name = unique_name, !.stale = FALSE]
    /\ chunk' = EmptyChunks
    /\ nextId' = nextId + 1
    /\ Return(t)
    /\ UNCHANGED <<queue, buffered, writer, life>>
-----------------------------------------------------------------------------
(* upload_begin: a whole-file PUT, then upload_enable_direct_stream when   *)
(* the fast server runs it.                                                *)

Beginnable(t) == Found(t) /\ Bound(t) /\ ~slot.started /\ ~slot.transport

BeginOk(t) ==
    /\ Body(t, "begin") /\ Beginnable(t) /\ req[t].size = slot.size
    /\ slot' = [slot EXCEPT !.started = TRUE, !.stale = FALSE, !.sha = <<>>]
    /\ Call(t, IF IsFast(t) THEN "enable" ELSE BodyOp(t, 0), 0)
    /\ UNCHANGED <<chunk, queue, buffered, writer, quota, disk, nextId, life>>

(* router_upload_stream_begin_ex cancels an upload begun with a wrong      *)
(* Content-Length (NoLength: with none); any other refusal just answers    *)
(* the request.                                                            *)
BeginRefused(t) ==
    /\ Body(t, "begin")
    /\ \/ Beginnable(t) /\ req[t].size # slot.size /\ Call(t, "cancel", 0)
       \/ ~Beginnable(t) /\ Return(t)
    /\ UNCHANGED dataVars

EnableOk(t) ==
    /\ Body(t, "enable") /\ Started(t)
    /\ ~slot.transport /\ slot.received = 0 /\ buffered = <<>> /\ queue = <<>>
    /\ writer.pc \notin {"writing", "wrote"}
    /\ slot' = [slot EXCEPT !.direct = TRUE]
    /\ Call(t, BodyOp(t, 0), 0)
    /\ UNCHANGED <<chunk, queue, buffered, writer, quota, disk, nextId, life>>

EnableRefused(t) ==
    /\ Body(t, "enable")
    /\ \/ ~Started(t) \/ slot.transport \/ slot.received # 0
       \/ buffered # <<>> \/ queue # <<>> \/ writer.pc \in {"writing", "wrote"}
    /\ Call(t, "reabort", 0)
    /\ UNCHANGED dataVars
-----------------------------------------------------------------------------
(* upload_write: copy one unit into the producer queue of the writer.  The *)
(* size test is on unsigned numbers: it fails only at received = size.  A  *)
(* call with more bytes goes on without releasing the mutex, unless it has *)
(* to wait for room: then it neither tests nor looks up again.             *)

(* Mutant: the last entry of the ring is counted one late.                 *)
QueueFullLate == Len(queue) > QueueDepth
QueueFull == Len(queue) = QueueDepth
RoomLeft  == slot.received # slot.size

WriteWait(t) ==
    /\ Body(t, "write") /\ Started(t) /\ RoomLeft
    /\ QueueFull /\ ~writer.error
    /\ Goto(t, "room", FALSE)
    /\ UNCHANGED <<req, dataVars>>

InWriteLoop(t) == \/ Body(t, "write") /\ Started(t) /\ RoomLeft
                  \/ pc[t] = "room" /\ mutex = NoThread

(* The same call waits for room with the rest of its bytes.                *)
AwaitRoom(t) == /\ req' = [req EXCEPT ![t].sent = @ + 1]
                /\ Goto(t, "room", FALSE)

(* The buffer that just filled is queued, or refused: ECANCELED.  A buffer *)
(* that was refused is full; it takes nothing and is refused again.        *)
BufferFull == Len(buffered) >= BufferUnits

WriteCopy(t) ==
    /\ InWriteLoop(t) /\ ~QueueFull /\ ~writer.error /\ ~BufferFull
    /\ LET unit == <<req[t].id, req[t].sent + 1>>
           full == Len(buffered) + 1 >= BufferUnits
       IN  /\ slot' = [slot EXCEPT !.sha = Append(@, unit), !.stale = FALSE,
                                   !.received = @ + 1]
           /\ IF full /\ ~writer.discard
              THEN /\ queue' = Append(queue, Append(buffered, unit))
                   /\ buffered' = <<>>
              ELSE /\ buffered' = Append(buffered, unit)
                   /\ UNCHANGED queue
           /\ \/ full /\ writer.discard /\ Call(t, "abort", 0)
              \/ /\ ~(full /\ writer.discard)
                 /\ Call(t, BodyOp(t, req[t].sent + 1), req[t].sent + 1)
              \/ /\ Len(queue') = QueueDepth /\ req[t].sent + 1 < req[t].size
                 /\ AwaitRoom(t)
    /\ UNCHANGED <<chunk, writer, quota, disk, nextId, life>>

WriteFail(t) ==
    /\ \/ Body(t, "write") /\ ~(Started(t) /\ RoomLeft)
       \/ InWriteLoop(t) /\ (writer.error \/ (~QueueFull /\ BufferFull))
    /\ Call(t, "abort", 0)
    /\ UNCHANGED dataVars
-----------------------------------------------------------------------------
(* upload_write_direct: the calling thread writes, outside the mutex.      *)

DirectAdmitted(t) == Started(t) /\ slot.direct /\ RoomLeft /\ slot.writes = 0

DirectBegin(t) ==
    /\ Body(t, "dwrite") /\ DirectAdmitted(t)
    /\ slot' = [slot EXCEPT !.writes = @ + 1, !.stale = FALSE]
    /\ Goto(t, "dio", FALSE)
    /\ UNCHANGED <<req, chunk, queue, buffered, writer, quota, disk, nextId, life>>

DirectRefused(t) ==
    /\ Body(t, "dwrite") /\ ~DirectAdmitted(t)
    /\ Call(t, "abort", 0)
    /\ UNCHANGED dataVars

(* write_all reads manager->fd at the moment it writes.  It fails when the *)
(* descriptor is closed, or on a disk error after a prefix was written.    *)
write_all(data, ok) ==
    \/ ok /\ slot.fd # 0 /\ disk' = [disk EXCEPT !.data[slot.fd] = @ \o data]
    \/ ~ok /\ slot.fd = 0 /\ UNCHANGED disk
    \/ /\ ~ok /\ slot.fd # 0 /\ "disk" \in Faults
       /\ \E k \in 0..(Len(data) - 1) :
             disk' = [disk EXCEPT !.data[slot.fd] = @ \o SubSeq(data, 1, k)]

DirectIO(t) ==
    /\ pc[t] = "dio"
    /\ \E ok \in BOOLEAN :
          /\ write_all(<<<<req[t].id, req[t].sent + 1>>>>, ok)
          /\ req' = [req EXCEPT ![t].failed = ~ok]
    /\ pc' = [pc EXCEPT ![t] = "dwrote"]
    /\ UNCHANGED <<mutex, slot, chunk, queue, buffered, writer, quota, nextId, life>>

(* The slot is not looked up again: the counters of whatever upload is     *)
(* there now are updated.                                                  *)
DirectEnd(t) ==
    /\ pc[t] = "dwrote" /\ mutex = NoThread
    /\ LET idle == [slot EXCEPT !.writes = IF @ > 0 THEN @ - 1 ELSE 0]
       IN  IF req[t].failed
           THEN /\ slot' = idle
                /\ writer' = [writer EXCEPT !.error = TRUE]
                /\ Call(t, "abort", 0)
           ELSE /\ slot' = [idle EXCEPT !.received = @ + 1, !.stale = FALSE]
                /\ UNCHANGED writer
                /\ Call(t, BodyOp(t, req[t].sent + 1), req[t].sent + 1)
    /\ UNCHANGED <<chunk, queue, buffered, quota, disk, nextId, life>>
-----------------------------------------------------------------------------
(* upload_chunk_begin, _write, _finish and _abort: a ranged PUT fills a    *)
(* staging buffer of its own.  States of a chunk: 0 free, 1 receiving,     *)
(* 2 complete and waiting for the writer, 3 written.                       *)

(* Mutant: a chunk that is already complete may be sent again.             *)
ChunkOpenAgain(t) == /\ Found(t) /\ Bound(t) /\ ~slot.finalizing
                     /\ slot.started => slot.transport
                     /\ req[t].size = slot.size
                     /\ chunk.state[req[t].idx] # 1

ChunkOpen(t) == /\ Found(t) /\ Bound(t) /\ ~slot.finalizing
                /\ slot.started => slot.transport
                /\ req[t].size = slot.size
                /\ chunk.state[req[t].idx] = 0

ChunkBeginOk(t) ==
    /\ Body(t, "cbegin") /\ ChunkOpen(t) /\ chunk.active < ChunkSlots
    /\ chunk' = [chunk EXCEPT !.state[req[t].idx] = 1, !.buf[req[t].idx] = <<>>,
                              !.active = @ + 1]
    /\ slot' = [slot EXCEPT !.started = TRUE, !.transport = TRUE, !.stale = FALSE]
    /\ Call(t, "cwrite", 0)
    /\ UNCHANGED <<queue, buffered, writer, quota, disk, nextId, life>>

(* UPLOAD_BACKPRESSURE answers like any other refusal: nothing changes.    *)
ChunkBeginRefused(t) ==
    /\ Body(t, "cbegin")
    /\ ~ChunkOpen(t) \/ chunk.active >= ChunkSlots \/ "disk" \in Faults
    /\ Return(t)
    /\ UNCHANGED dataVars

(* The chunk of this request is still open.                                *)
Receiving(t) == Started(t) /\ chunk.state[req[t].idx] = 1
ChunkLength(t) == chunk_length_for(req[t].size, req[t].idx)

(* upload_chunk_write finds the chunk by the offset of the bytes: a body   *)
(* that runs on past its range reaches the next one.  Bytes that are not   *)
(* the next ones of an open chunk are refused.                             *)
WriteIndex(t)  == IF req[t].sent < ChunkUnits THEN req[t].idx ELSE req[t].idx + 1
WriteOffset(t) == req[t].idx * ChunkUnits + req[t].sent
Writable(t) == /\ Started(t)
               /\ WriteOffset(t) < slot.size
               /\ WriteIndex(t) < ChunkCount(slot.size)
               /\ chunk.state[WriteIndex(t)] = 1
               /\ Len(chunk.buf[WriteIndex(t)]) = WriteOffset(t) - WriteIndex(t) * ChunkUnits

ChunkWriteOk(t) ==
    /\ Body(t, "cwrite") /\ Writable(t)
    /\ chunk' = [chunk EXCEPT !.buf[WriteIndex(t)] = Append(@, <<req[t].id, WriteOffset(t) + 1>>)]
    /\ LET sent == req[t].sent + 1
       IN  Call(t, IF sent < ChunkLength(t) THEN "cwrite" ELSE "cfinish", sent)
    /\ slot' = [slot EXCEPT !.received = @ + 1, !.stale = FALSE]
    /\ UNCHANGED <<queue, buffered, writer, quota, disk, nextId, life>>

(* router_upload_stream_write_chunk aborts the whole upload.               *)
ChunkWriteFail(t) ==
    /\ Body(t, "cwrite") /\ ~Writable(t)
    /\ Call(t, "abort", 0)
    /\ UNCHANGED dataVars

ChunkFinishOk(t) ==
    /\ Body(t, "cfinish") /\ Receiving(t)
    /\ Len(chunk.buf[req[t].idx]) = ChunkLength(t)
    /\ chunk' = [chunk EXCEPT !.state[req[t].idx] = 2, !.completed = @ + 1]
    /\ slot' = [slot EXCEPT !.stale = FALSE]
    /\ Return(t)
    /\ UNCHANGED <<queue, buffered, writer, quota, disk, nextId, life>>

(* Mutants: the whole chunk is uncounted; the window is not reopened.      *)
FreeChunkWhole(i, stale) ==
    /\ slot' = [slot EXCEPT !.received = @ - chunk_length_for(slot.size, i), !.stale = stale]
    /\ chunk' = [chunk EXCEPT !.state[i] = 0, !.buf[i] = <<>>, !.active = @ - 1]
FreeChunkLeaks(i, stale) ==
    /\ slot' = [slot EXCEPT !.received = @ - Len(chunk.buf[i]), !.stale = stale]
    /\ chunk' = [chunk EXCEPT !.state[i] = 0, !.buf[i] = <<>>]

(* The staging buffer of chunk i is freed and its bytes are uncounted.     *)
FreeChunk(i, stale) ==
    /\ slot' = [slot EXCEPT !.received = IF @ >= Len(chunk.buf[i])
                                         THEN @ - Len(chunk.buf[i]) ELSE 0,
                            !.stale = stale]
    /\ chunk' = [chunk EXCEPT !.state[i] = 0, !.buf[i] = <<>>,
                              !.active = IF @ > 0 THEN @ - 1 ELSE 0]

(* The fast server follows a failed upload_chunk_finish by an abort of the *)
(* chunk; libmicrohttpd's handler marks the request finished.              *)
ChunkFinishFail(t) ==
    /\ Body(t, "cfinish")
    /\ \/ /\ Receiving(t) /\ Len(chunk.buf[req[t].idx]) # ChunkLength(t)
          /\ FreeChunk(req[t].idx, slot.stale)
       \/ ~Receiving(t) /\ UNCHANGED <<slot, chunk>>
    /\ IF IsFast(t) THEN Call(t, "cabort", 0) ELSE Return(t)
    /\ UNCHANGED <<queue, buffered, writer, quota, disk, nextId, life>>

ChunkAbort(t) ==
    /\ Body(t, "cabort")
    /\ \/ Receiving(t) /\ FreeChunk(req[t].idx, FALSE)
       \/ ~Receiving(t) /\ UNCHANGED <<slot, chunk>>
    /\ Return(t)
    /\ UNCHANGED <<queue, buffered, writer, quota, disk, nextId, life>>
-----------------------------------------------------------------------------
(* The writer thread: upload_writer_main.  Queued buffers go first, chunks *)
(* strictly in file order.                                                 *)

chunk_ready == /\ slot.transport
               /\ chunk.next < ChunkCount(slot.size)
               /\ chunk.state[chunk.next] = 2

WriterTake ==
    /\ writer.pc = "idle" /\ mutex = NoThread /\ life = "up"
    /\ ~writer.discard /\ ~writer.error
    /\ \/ /\ queue # <<>>
          /\ writer' = [writer EXCEPT !.pc = "writing", !.job = "queue",
                                      !.data = Head(queue)]
       \/ /\ queue = <<>> /\ chunk_ready
          /\ writer' = [writer EXCEPT !.pc = "writing", !.job = "chunk",
                                      !.index = chunk.next, !.data = chunk.buf[chunk.next]]
    /\ UNCHANGED <<mutex, pc, req, slot, chunk, queue, buffered, quota, disk, nextId, life>>

WriterIO ==
    /\ writer.pc = "writing"
    /\ \E ok \in BOOLEAN :
          /\ write_all(writer.data, ok)
          /\ writer' = [writer EXCEPT !.pc = "wrote", !.failed = ~ok, !.data = <<>>]
    /\ UNCHANGED <<mutex, pc, req, slot, chunk, queue, buffered, quota, nextId, life>>

(* chunk_buffers[index] still is the buffer that was written.              *)
ChunkWritten ==
    chunk' = [chunk EXCEPT !.state[writer.index] = 3, !.buf[writer.index] = <<>>,
                           !.next = @ + 1, !.active = IF @ > 0 THEN @ - 1 ELSE 0]

(* Mutant: a failed chunk write is not reported.                           *)
WriterDoneSilent ==
    /\ writer.pc = "wrote" /\ mutex = NoThread
    /\ IF writer.job = "chunk"
       THEN /\ UNCHANGED queue
            /\ IF ~writer.failed THEN ChunkWritten ELSE UNCHANGED chunk
       ELSE /\ queue' = IF queue # <<>> THEN Tail(queue) ELSE queue
            /\ UNCHANGED chunk
    /\ writer' = [IdleWriter EXCEPT !.error = writer.error, !.discard = writer.discard]
    /\ UNCHANGED <<mutex, pc, req, slot, buffered, quota, disk, nextId, life>>

WriterDone ==
    /\ writer.pc = "wrote" /\ mutex = NoThread
    /\ IF writer.job = "chunk"
       THEN /\ UNCHANGED queue
            /\ IF ~writer.failed /\ writer.index = chunk.next
               THEN ChunkWritten
               ELSE UNCHANGED chunk
       ELSE /\ queue' = IF queue # <<>> THEN Tail(queue) ELSE queue
            /\ UNCHANGED chunk
    /\ writer' = [IdleWriter EXCEPT !.error = writer.error \/ writer.failed,
                                    !.discard = writer.discard]
    /\ UNCHANGED <<mutex, pc, req, slot, buffered, quota, disk, nextId, life>>
-----------------------------------------------------------------------------
(* Publication, common to the two ways of finishing.  The digest is        *)
(* compared, the part file synced and closed, then published without       *)
(* replacing an existing name; on success clear_slot(0) follows.           *)

(* Mutant: the declared hash is not compared.                              *)
HashIgnored(digest) == digest \in {"genuine", "other"}

HashAccepted(digest) == slot.hash = "none" \/ (slot.hash = "good" /\ digest = "genuine")

(* The link of the host build, which never replaces a name.  Without link  *)
(* the code looks the name up and renames: the same step as long as no     *)
(* other process creates the name in between.                              *)
publish_part ==
    /\ disk.files[slot.name] = NoFile
    /\ disk' = [disk EXCEPT
                  !.files[slot.name] = [owner |-> "upload", id |-> slot.id, auth |-> slot.auth,
                                        size |-> slot.size, hash |-> slot.hash,
                                        data |-> disk.data[slot.part]],
                  !.linked = @ \ {slot.part},
                  !.data[slot.part] = <<>>]

PublishOk(t, digest) ==
    /\ HashAccepted(digest) /\ slot.fd # 0
    /\ publish_part
    /\ slot' = [slot EXCEPT !.fd = 0]
    /\ quota' = [quota EXCEPT !.count = @ + 1]
    /\ ClearThen(t, FALSE, "return")
    /\ UNCHANGED <<chunk, queue, buffered, writer, nextId, life>>

(* The steps that may fail before publication; `fd' is what they leave:    *)
(* hash mismatch, fsync, close or link, and a name that is taken by now.   *)
PublishFails(digest, fd) ==
    \/ ~HashAccepted(digest) /\ fd = slot.fd
    \/ (slot.fd = 0 \/ "disk" \in Faults) /\ fd = slot.fd
    \/ "disk" \in Faults /\ fd = 0
    \/ /\ HashAccepted(digest) /\ slot.fd # 0 /\ fd = 0
       /\ disk.files[slot.name] # NoFile

PublishFail(t, digest) ==
    /\ \E fd \in {0, slot.fd} :
          /\ PublishFails(digest, fd)
          /\ slot' = [slot EXCEPT !.fd = fd,
                                  !.finalizing = @ /\ req[t].op # "complete"]
    /\ ClearThen(t, TRUE, "return")
    /\ UNCHANGED <<chunk, queue, buffered, writer, quota, disk, nextId, life>>
-----------------------------------------------------------------------------
(* upload_finish_with_metrics.  Every failure clears the slot, also the    *)
(* one that does not find the upload.                                      *)

Finishable(t) == Started(t) /\ slot.received = slot.size /\ ~writer.error

FinishRefused(t) ==
    /\ Body(t, "finish") /\ ~Finishable(t)
    /\ ClearThen(t, TRUE, "return")
    /\ UNCHANGED dataVars

FinishDirect(t) ==
    /\ Body(t, "finish") /\ Finishable(t) /\ slot.direct
    /\ slot' = [slot EXCEPT !.finalizing = TRUE]
    /\ req' = [req EXCEPT ![t].part = slot.part]
    /\ Goto(t, "hashing", FALSE)
    /\ UNCHANGED <<chunk, queue, buffered, writer, quota, disk, nextId, life>>

(* A queued stream enqueues its last buffer and waits for the writer.      *)
FinishQueued(t) == Body(t, "finish") /\ Finishable(t) /\ ~slot.direct
(* Mutant of Drained: it is enough that the last buffer is queued.         *)
LastQueued == buffered = <<>>
Drained == queue = <<>> /\ writer.pc \notin {"writing", "wrote"}

FlushNothing(t) ==
    /\ FinishQueued(t) /\ buffered = <<>>
    /\ Goto(t, "drain", Drained)
    /\ UNCHANGED <<req, dataVars>>

(* There is room for the last buffer (TailIsFree), so that nothing waits   *)
(* before it is queued.                                                    *)
Flush(t) ==
    /\ FinishQueued(t) /\ buffered # <<>>
    /\ \/ /\ ~QueueFull /\ ~writer.discard
          /\ queue' = Append(queue, buffered)
          /\ buffered' = <<>>
          /\ Goto(t, "drain", FALSE)
          /\ UNCHANGED req
       \/ /\ writer.discard
          /\ ClearThen(t, TRUE, "return")
          /\ UNCHANGED <<queue, buffered>>
    /\ UNCHANGED <<slot, chunk, writer, quota, disk, nextId, life>>

StreamDigest == IF slot.sha = Genuine(slot.id, slot.size) THEN "genuine" ELSE "other"

(* The slot is not looked up again after the wait.                         *)
DrainFail(t) ==
    /\ At(t, "drain") /\ writer.error
    /\ ClearThen(t, TRUE, "return")
    /\ UNCHANGED dataVars
Drain(t) ==
    /\ At(t, "drain") /\ ~writer.error /\ Drained
    /\ PublishOk(t, StreamDigest) \/ PublishFail(t, StreamDigest)
-----------------------------------------------------------------------------
(* upload_finish_chunks_with_metrics, and the hash pass over the part file *)
(* that it shares with the direct stream.                                  *)

(* Mutant: the marker of a completion under way is not tested.             *)
CompletableTwice(t) == /\ Found(t) /\ Bound(t) /\ slot.started
                       /\ chunk.completed = ChunkCount(slot.size)
                       /\ slot.received = slot.size

Completable(t) == /\ Found(t) /\ Bound(t) /\ ~slot.finalizing /\ slot.started
                  /\ chunk.completed = ChunkCount(slot.size)
                  /\ slot.received = slot.size

CompleteRefused(t) ==
    /\ Body(t, "complete") /\ ~Completable(t)
    /\ Return(t)
    /\ UNCHANGED dataVars

(* Mutant: completion waits for the chunks received, not those written.    *)
ChunksReceived == writer.error \/ chunk.completed = ChunkCount(slot.size)

ChunksWritten == writer.error \/ chunk.next = ChunkCount(slot.size)

CompleteBegin(t) ==
    /\ Body(t, "complete") /\ Completable(t)
    /\ slot' = [slot EXCEPT !.finalizing = TRUE]
    /\ Goto(t, "cdrain", ChunksWritten)
    /\ UNCHANGED <<req, chunk, queue, buffered, writer, quota, disk, nextId, life>>

CompleteDrained(t) ==
    /\ At(t, "cdrain") /\ ~writer.error /\ ChunksWritten
    /\ req' = [req EXCEPT ![t].part = slot.part, ![t].size = slot.size]
    /\ Goto(t, "hashing", FALSE)
    /\ UNCHANGED dataVars

CompleteDrainFail(t) ==
    /\ At(t, "cdrain") /\ writer.error
    /\ IF Found(t) THEN ClearThen(t, TRUE, "return") ELSE Return(t)
    /\ UNCHANGED dataVars

hash_part_file(t) ==
    /\ pc[t] = "hashing"
    /\ \E digest \in {"genuine", "other", "error"} :
          /\ req' = [req EXCEPT ![t].digest = digest]
          /\ \/ digest = "error" /\ (req[t].part \notin disk.linked \/ "disk" \in Faults)
             \/ /\ req[t].part \in disk.linked
                /\ digest = IF disk.data[req[t].part] = Genuine(req[t].id, req[t].size)
                            THEN "genuine" ELSE "other"
    /\ pc' = [pc EXCEPT ![t] = "hashed"]
    /\ UNCHANGED <<mutex, dataVars>>

(* The slot is looked up again after the hash pass.  A completion that     *)
(* lost its marker resets the marker of the upload that is there now.      *)
StillFinalizing(t) == Found(t) /\ slot.finalizing

HashedLost(t) ==
    /\ pc[t] = "hashed" /\ mutex = NoThread /\ ~StillFinalizing(t)
    /\ IF req[t].op = "complete"
       THEN /\ slot' = [slot EXCEPT !.finalizing = FALSE]
            /\ IF Found(t) THEN ClearThen(t, TRUE, "return") ELSE Return(t)
       ELSE ClearThen(t, TRUE, "return") /\ UNCHANGED slot
    /\ UNCHANGED <<chunk, queue, buffered, writer, quota, disk, nextId, life>>

HashedError(t) ==
    /\ pc[t] = "hashed" /\ mutex = NoThread /\ StillFinalizing(t)
    /\ req[t].digest = "error"
    /\ slot' = [slot EXCEPT !.finalizing = req[t].op # "complete"]
    /\ ClearThen(t, TRUE, "return")
    /\ UNCHANGED <<chunk, queue, buffered, writer, quota, disk, nextId, life>>

HashedPublish(t) ==
    /\ pc[t] = "hashed" /\ mutex = NoThread /\ StillFinalizing(t)
    /\ req[t].digest # "error"
    /\ PublishOk(t, req[t].digest) \/ PublishFail(t, req[t].digest)
-----------------------------------------------------------------------------
(* upload_cancel, upload_abort, upload_snapshot.                           *)

Cancel(t) ==
    /\ Body(t, "cancel")
    /\ IF Found(t) /\ Bound(t) /\ ~slot.finalizing
       THEN ClearThen(t, TRUE, "return")
       ELSE Return(t)
    /\ UNCHANGED dataVars

Abort(t) ==
    /\ Body(t, "abort") \/ Body(t, "reabort")
    /\ IF Started(t) /\ ~slot.finalizing
       THEN ClearThen(t, TRUE, "return")
       ELSE AfterCall(t)
    /\ UNCHANGED dataVars

Status(t) ==
    /\ Body(t, "status")
    /\ Return(t)
    /\ UNCHANGED dataVars
-----------------------------------------------------------------------------
(* The environment: requests of clients who know the identifiers handed    *)
(* out so far, connections that end early, time, and other processes.      *)

Parameters(kind) ==
    {r \in [kind : {kind}, op : {FirstOp(kind)}, id : {0} \cup (1..(nextId - 1)),
            auth : Auths \cup {NoAuth}, size : {0} \cup Sizes,
            hash : {"none"} \cup Hashes, idx : Chunks] :
        /\ kind \in {"prepare", "status"} <=> r.id = 0
        /\ kind = "status" <=> r.auth = NoAuth
        /\ kind \in {"complete", "cancel", "status"} => r.size = 0
        /\ kind \notin {"complete", "cancel", "status"} => r.size \in Sizes
        /\ kind = "prepare" => r.hash \in Hashes
        /\ kind # "prepare" => r.hash = "none"
        /\ kind \in {"chunk", "fastchunk"} => r.idx < ChunkCount(r.size)
        /\ kind \notin {"chunk", "fastchunk"} => r.idx = 0}

(* Clients that do not contend take turns: they prepare a file only when   *)
(* no upload is open or being prepared.                                    *)
Turn == \/ "contend" \in Faults
        \/ ~slot.occupied /\ \A u \in Threads : req[u].kind # "prepare"

(* A body for the open upload is sent with the size that was declared, as  *)
(* the web client does; any other Content-Length is a fault.               *)
HonestSize(r) == \/ "length" \in Faults \/ r.op \notin {"begin", "cbegin"}
                 \/ slot.occupied /\ r.id = slot.id => r.size = slot.size

Request(t) ==
    /\ pc[t] = "idle" /\ life = "up"
    /\ \E kind \in Kinds : \E r \in Parameters(kind) :
          /\ kind = "prepare" => Turn
          /\ HonestSize(r)
          /\ req' = [req EXCEPT ![t] = [NoReq EXCEPT
                    !.kind = kind, !.op = r.op, !.id = r.id, !.auth = r.auth,
                    !.size = r.size, !.hash = r.hash, !.idx = r.idx]]
    /\ pc' = [pc EXCEPT ![t] = "call"]
    /\ UNCHANGED <<mutex, dataVars>>

(* The connection ends before the body does: request_completed, or the     *)
(* stream_error path of the fast server.                                   *)
Drop(t) ==
    /\ pc[t] = "call" /\ "drop" \in Faults
    /\ \/ req[t].op \in {"write", "dwrite"} \/ (req[t].op = "finish" /\ ~IsFast(t))
       \/ req[t].op = "cwrite" \/ (req[t].op = "cfinish" /\ ~IsFast(t))
    /\ req' = [req EXCEPT ![t].op = IF IsChunk(t) THEN "cabort" ELSE "reabort",
                          ![t].sent = 0]
    /\ UNCHANGED <<mutex, pc, dataVars>>

(* A ranged PUT in chunked transfer coding ends before its range does, or  *)
(* goes on past it (bound: by one unit, the next one of the file).  The    *)
(* fast server takes such a PUT for one without a body.                    *)
ShortBody(t) ==
    /\ pc[t] = "call" /\ "length" \in Faults /\ req[t].op = "cwrite"
    /\ req[t].kind = "chunk" \/ (req[t].kind = "fastchunk" /\ req[t].sent = 0)
    /\ req' = [req EXCEPT ![t].op = "cfinish"]
    /\ UNCHANGED <<mutex, pc, dataVars>>

LongBody(t) ==
    /\ pc[t] = "call" /\ "length" \in Faults
    /\ req[t].kind = "chunk" /\ req[t].op = "cfinish" /\ req[t].sent = ChunkLength(t)
    /\ req' = [req EXCEPT ![t].op = "cwrite"]
    /\ UNCHANGED <<mutex, pc, dataVars>>

(* A whole-file PUT without a Content-Length cancels its upload at once.   *)
NoLength(t) ==
    /\ pc[t] = "call" /\ "length" \in Faults /\ req[t].op = "begin"
    /\ req' = [req EXCEPT ![t].op = "cancel"]
    /\ UNCHANGED <<mutex, pc, dataVars>>

(* lease_seconds pass without activity.                                    *)
LeaseExpires ==
    /\ "expire" \in Faults /\ slot.occupied /\ ~slot.stale
    /\ slot' = [slot EXCEPT !.stale = TRUE]
    /\ UNCHANGED <<mutex, pc, req, chunk, queue, buffered, writer, quota, disk, nextId, life>>

(* Another process creates a file in the destination.                      *)
ForeignCreate ==
    /\ "foreign" \in Faults
    /\ \E n \in FreeNames : disk' = [disk EXCEPT !.files[n] = Foreign]
    /\ UNCHANGED <<mutex, pc, req, slot, chunk, queue, buffered, writer, quota, nextId, life>>
-----------------------------------------------------------------------------
(* upload_manager_destroy, which server_stop reaches once both servers     *)
(* have joined their threads.                                              *)

AllIdle == \A t \in Threads : pc[t] = "idle"

DestroyBegin ==
    /\ life = "up" /\ AllIdle /\ mutex = NoThread
    /\ ~slot.finalizing /\ slot.writes = 0
    /\ writer' = [writer EXCEPT !.discard = TRUE]
    /\ life' = "joining"
    /\ UNCHANGED <<mutex, pc, req, slot, chunk, queue, buffered, quota, disk, nextId>>

WriterExit ==
    /\ life = "joining" /\ writer.pc = "idle"
    /\ writer' = [writer EXCEPT !.pc = "exited"]
    /\ UNCHANGED <<mutex, pc, req, slot, chunk, queue, buffered, quota, disk, nextId, life>>

DestroyEnd ==
    /\ life = "joining" /\ writer.pc = "exited"
    /\ EmptyManager(TRUE)
    /\ life' = "gone"
    /\ UNCHANGED <<mutex, pc, req>>

Terminated == life = "gone" /\ UNCHANGED vars
-----------------------------------------------------------------------------
PrepareStep(t) == \/ PrepareSupersede(t) \/ PrepareBusy(t) \/ PrepareRefuse(t)
                  \/ PrepareUndo(t) \/ PrepareOk(t)
StreamStep(t)  == \/ BeginOk(t) \/ BeginRefused(t) \/ EnableOk(t) \/ EnableRefused(t)
                  \/ WriteWait(t) \/ WriteCopy(t) \/ WriteFail(t)
                  \/ DirectBegin(t) \/ DirectRefused(t) \/ DirectIO(t) \/ DirectEnd(t)
ChunkStep(t)   == \/ ChunkBeginOk(t) \/ ChunkBeginRefused(t) \/ ChunkWriteOk(t)
                  \/ ChunkWriteFail(t) \/ ChunkFinishOk(t) \/ ChunkFinishFail(t)
                  \/ ChunkAbort(t)
FinishStep(t)  == \/ FinishRefused(t) \/ FinishDirect(t) \/ FlushNothing(t)
                  \/ Flush(t) \/ DrainFail(t) \/ Drain(t)
                  \/ CompleteRefused(t) \/ CompleteBegin(t) \/ CompleteDrained(t)
                  \/ CompleteDrainFail(t) \/ hash_part_file(t)
                  \/ HashedLost(t) \/ HashedError(t) \/ HashedPublish(t)
EndStep(t)     == \/ Cancel(t) \/ Abort(t) \/ Status(t)
                  \/ Reap(t) \/ ClearWait(t) \/ clear_slot(t)
ThreadStep(t)  == \/ PrepareStep(t) \/ StreamStep(t) \/ ChunkStep(t)
                  \/ FinishStep(t) \/ EndStep(t)
WriterStep     == WriterTake \/ WriterIO \/ WriterDone \/ WriterExit

Next == \/ \E t \in Threads : \/ ThreadStep(t) \/ Request(t) \/ Drop(t)
                             \/ NoLength(t) \/ ShortBody(t) \/ LongBody(t)
        \/ WriterStep
        \/ LeaseExpires \/ ForeignCreate
        \/ DestroyBegin \/ DestroyEnd \/ Terminated

Spec == Init /\ [][Next]_vars

(* A runnable thread runs, and one that finds the mutex free again and     *)
(* again gets it.  Requests, faults and shutdown are not forced.           *)
Fairness == /\ \A t \in Threads : SF_vars(ThreadStep(t))
            /\ SF_vars(WriterStep)
            /\ WF_vars(DestroyEnd)
FairSpec == Spec /\ Fairness
-----------------------------------------------------------------------------
(* Properties.                                                             *)

Labels == {"idle", "call", "body", "clear", "clearing", "room", "dio", "dwrote",
           "drain", "cdrain", "hashing", "hashed"}
Ops == {"none", "prepare", "begin", "enable", "write", "dwrite", "finish",
        "cbegin", "cwrite", "cfinish", "cabort", "complete", "cancel",
        "abort", "reabort", "status"}
HashModes == {"none", "good", "bad"}
Req == [kind : AllKinds \cup {"none"}, op : Ops, id : Ids \cup {0},
        auth : Auths \cup {NoAuth}, size : Sizes \cup {0}, hash : HashModes,
        idx : Chunks,
        sent : Nat, part : Ids \cup {0}, digest : {"none", "genuine", "other", "error"},
        failed : BOOLEAN, remove : BOOLEAN, then : {"body", "return"}]
Slot == [occupied : BOOLEAN, started : BOOLEAN, id : Ids \cup {0}, part : Ids \cup {0},
         fd : Ids \cup {0}, auth : Auths \cup {NoAuth}, size : Sizes \cup {0},
         name : Names \cup {0}, hash : HashModes, sha : Seq(Unit), received : Nat,
         stale : BOOLEAN, direct : BOOLEAN, transport : BOOLEAN,
         finalizing : BOOLEAN, writes : Nat]
ChunkTable == [state : [Chunks -> 0..3], buf : [Chunks -> Seq(Unit)],
               completed : Nat, next : Nat, active : Nat]
Writer == [pc : {"idle", "writing", "wrote", "exited"}, job : {"queue", "chunk"},
           index : Nat, data : Seq(Unit), failed : BOOLEAN, error : BOOLEAN,
           discard : BOOLEAN]
File == [owner : {"none", "foreign", "upload"}, id : Ids \cup {0}, auth : Auths \cup {NoAuth},
         size : Sizes \cup {0}, hash : HashModes, data : Seq(Unit)]

(* Every field of the manager, of a handler and of the disk has its type.  *)
TypeOK ==
    /\ mutex \in Threads \cup {NoThread}
    /\ pc \in [Threads -> Labels]
    /\ req \in [Threads -> Req]
    /\ slot \in Slot
    /\ chunk \in ChunkTable
    /\ queue \in Seq(Seq(Unit))
    /\ buffered \in Seq(Unit)
    /\ writer \in Writer
    /\ quota \in [auth : Auths \cup {NoAuth}, count : Nat]
    /\ disk \in [data : [Ids -> Seq(Unit)], linked : SUBSET Ids, files : [Names -> File]]
    /\ nextId \in 1..(MaxUploads + 1)
    /\ life \in {"up", "joining", "gone"}

(* The staging window of chunk uploads: active_chunk_buffers is exactly    *)
(* the number of chunks that own a buffer, and never passes the limit.     *)
StagingWindow ==
    /\ chunk.active = Cardinality({i \in Chunks : chunk.state[i] \in {1, 2}})
    /\ chunk.active <= ChunkSlots

(* The counters by which upload_finish_chunks decides that a file is       *)
(* complete agree with the chunk states: the writer has passed exactly the *)
(* written chunks, which are the first ones of the file.                   *)
ChunkCounters ==
    /\ chunk.completed = Cardinality({i \in Chunks : chunk.state[i] \in {2, 3}})
    /\ \A i \in Chunks : chunk.state[i] = 3 <=> i < chunk.next

(* While the writer writes a chunk, that chunk stays the next one of the   *)
(* file, complete, and its upload stays in the slot.                       *)
WriterOnChunk ==
    writer.pc \in {"writing", "wrote"} /\ writer.job = "chunk" =>
        /\ slot.occupied
        /\ writer.index \in Chunks /\ writer.index = chunk.next
        /\ chunk.state[writer.index] = 2

(* The inductive invariant behind the three properties above: an open      *)
(* descriptor is the one of the part file, only an occupied slot is in the *)
(* chunk transport.                                                        *)
SlotLinks == /\ slot.fd # 0 => slot.part = slot.fd
             /\ slot.transport => slot.occupied
Inv == TypeOK /\ SlotLinks /\ StagingWindow /\ ChunkCounters /\ WriterOnChunk

(* The ring of write buffers: the buffer being filled, the entry at        *)
(* write_tail, is never one that is queued for the writer, whoever fills   *)
(* it; so the last buffer of a file is queued without waiting.             *)
TailIsFree == /\ Len(queue) <= QueueDepth
              /\ buffered # <<>> => Len(queue) < QueueDepth

(* Part files never outlive their upload: while the manager runs, the only *)
(* part file on the disk is the one of the current slot.                   *)
NoOrphanPart == disk.linked \subseteq {slot.part}

(* What is published is the file the client sent, whole and in order.      *)
PublishedGenuine ==
    \A n \in Names : LET f == disk.files[n]
                     IN  f.owner = "upload" => f.data = Genuine(f.id, f.size)

(* A file whose client declared its SHA-256 is published only with         *)
(* exactly that content.                                                   *)
IntegrityVerified ==
    \A n \in Names : LET f == disk.files[n]
                     IN  /\ f.hash # "bad"
                         /\ f.hash = "good" => f.data = Genuine(f.id, f.size)

(* The file limit counts real files: completed_files never passes          *)
(* max_files_per_session, nor the files published for the session it is    *)
(* charged to, whichever handler publishes them.                           *)
QuotaRespected ==
    /\ quota.count <= MaxFiles
    /\ quota.count <= Cardinality({n \in Names : /\ disk.files[n].owner = "upload"
                                                 /\ Token(disk.files[n].auth) = quota.auth})

(* Once no handler runs, upload_manager_destroy does not wait for a marker *)
(* nobody will ever clear.                                                 *)
ShutdownNotBlocked == AllIdle => ~slot.finalizing /\ slot.writes = 0

(* The writer only ever writes while the descriptor of its upload is open. *)
WriterHasFile == writer.pc = "writing" => slot.fd # 0

(* No request waits for ever inside the manager.                           *)
EveryCallReturns == \A t \in Threads : pc[t] # "idle" ~> pc[t] = "idle"

(* "Keep the slot alive while the potentially blocking hash pass runs      *)
(* outside the mutex; cancellation and shutdown observe this marker": a    *)
(* finalizing upload keeps its slot and its marker until its own thread    *)
(* has taken the mutex again.                                              *)
SlotKeptWhileHashing ==
    [][\A t \in Threads :
          pc[t] \in {"hashing", "hashed"} /\ StillFinalizing(t) /\ pc'[t] = pc[t]
          => slot'.occupied /\ slot'.id = slot.id /\ slot'.finalizing]_vars

(* A session cannot steal a transfer: an upload_prepare that is refused    *)
(* leaves an upload that was begun alone.                                  *)
CannotSteal ==
    [][\A t \in Threads :
          /\ req[t].op = "prepare" /\ pc[t] \in {"clear", "clearing"} /\ pc'[t] = "idle"
          => ~(slot.occupied /\ slot.started)]_vars

(* The manager as a file drop: what is published, and when, seen without   *)
(* handlers, staging or the writer.  A published file that is not the      *)
(* client's is -2.                                                         *)
Drop_File(f) == CASE f.owner = "none"    -> 0
                  [] f.owner = "foreign" -> -1
                  [] OTHER -> IF f.data = Genuine(f.id, f.size) THEN f.id ELSE -2
Abstract == INSTANCE FileDrop
                WITH current <- IF slot.occupied THEN slot.id ELSE 0,
                     last    <- nextId - 1,
                     files   <- [n \in Names |-> Drop_File(disk.files[n])]
RefinesFileDrop == Abstract!Spec
=============================================================================
