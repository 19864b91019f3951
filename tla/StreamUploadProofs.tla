------------------------ MODULE StreamUploadProofs ------------------------
(***************************************************************************)
(* Uploads as one PUT body: buffered streams of the HTTP server and direct *)
(* streams of the fast server, from clients that take turns.  What         *)
(* upload.c publishes is what its client sent, also after lost             *)
(* connections and disk errors, and the manager implements FileDrop.       *)
(***************************************************************************)
EXTENDS RangedUploadProofs

(* Clients send whole files, prepare only when no upload is open, cancel   *)
(* nothing, and send a body within the lease and with the declared size.   *)
Settled == /\ Kinds \subseteq {"prepare", "stream", "direct", "status"}
           /\ Faults \subseteq {"drop", "disk", "foreign"}
-----------------------------------------------------------------------------
(* The inductive invariant.                                                *)

(* The calls of a stream that was begun, and those that end it.            *)
BodyOps == {"enable", "write", "dwrite", "finish"}
EndOps  == {"abort", "reabort"}

(* Handler t is the one that began the stream of the upload in the slot.   *)
Streams(t) == req[t].op \in BodyOps \cup EndOps /\ Found(t)

(* What a handler knows of the slot while it sends: the upload is its own, *)
(* of its size and transport, and has received what was sent.              *)
Sending(t) ==
    /\ Found(t) /\ req[t].size = slot.size /\ req[t].sent = slot.received
    /\ req[t].op = "enable" => req[t].kind = "direct" /\ ~slot.direct
    /\ req[t].op # "enable" => (slot.direct <=> req[t].kind = "direct")
    /\ req[t].op = "write" => req[t].kind = "stream"
    /\ req[t].op = "dwrite" => req[t].kind = "direct"
    /\ pc[t] = "drain" => ~slot.direct /\ buffered = <<>> /\ slot.received = slot.size
    /\ pc[t] \in {"hashing", "hashed"} =>
          slot.direct /\ ~writer.error /\ slot.received = slot.size

(* clear_slot is called for the handler's own upload, or by a preparation  *)
(* that is undone; it keeps the file only of an upload that is published.  *)
Clearing(t) ==
    /\ req[t].then = "return"
    /\ req[t].op = "prepare" \/ Streams(t)
    /\ req[t].op = "prepare" => pc[t] = "clear" /\ req[t].remove
    /\ ~req[t].remove => /\ pc[t] = "clear" /\ slot.fd = 0
                         /\ slot.part \notin disk.linked

Client(t) ==
    /\ req[t].op \in {"none", "prepare", "status"} \cup StreamOps \cup EndOps
    /\ req[t].kind = "prepare" <=> req[t].op = "prepare"
    /\ pc[t] # "body" /\ (pc[t] = "idle" => req[t].op = "none")
    /\ req[t].op = "prepare" => ~slot.occupied
    /\ req[t].op = "begin" /\ Found(t) => req[t].size = slot.size
    /\ Streams(t) => slot.started
    /\ req[t].op \in BodyOps => Sending(t)
    /\ pc[t] \in {"clear", "clearing"} => Clearing(t)
Clients == \A t \in Threads : Client(t)

(* There is one preparation and one stream at a time.                      *)
Alone ==
    \A t \in Threads : \A u \in Threads :
        \/ Streams(t) /\ Streams(u)
        \/ req[t].op = "prepare" /\ req[u].op = "prepare"
        => t = u

(* Nothing waits in the ring, nor is being written.                        *)
Quiet == queue = <<>> /\ buffered = <<>> /\ ~Busy

StreamSlot ==
    /\ ~slot.transport /\ ~slot.stale
    /\ slot.occupied => /\ slot.id \in Ids /\ slot.id < nextId
                        /\ slot.part = slot.id /\ slot.fd \in {0, slot.id}
    /\ ~slot.occupied => slot.part \in {0, nextId} /\ ~slot.started
    /\ ~slot.started => Quiet /\ ~writer.error /\ slot.received = 0 /\ ~slot.direct
    /\ slot.started /\ ~slot.direct => slot.sha = Genuine(slot.id, slot.received)
    /\ slot.direct => Quiet
    /\ slot.occupied /\ slot.fd = 0 =>
          Quiet /\ \E t \in Threads : Streams(t) /\ pc[t] = "clear"

(* The writer writes the oldest buffer of the ring.                        *)
RingInv == Busy => /\ writer.job = "queue" /\ queue # <<>>
                   /\ writer.pc = "writing" => writer.data = Head(queue)

(* The ring carries on where the part file ends: buffer k holds the units  *)
(* of the file that follow position at[k], and the one being filled those  *)
(* up to the last one received.                                            *)
Carries(at) ==
    /\ disk.data[slot.part] = Genuine(slot.id, IF writer.pc = "wrote" THEN at[2] ELSE at[1])
    /\ \A k \in 1..Len(queue) :
          at[k] <= at[k + 1] /\ queue[k] = Piece(slot.id, at[k], at[k + 1] - at[k])
    /\ buffered = Piece(slot.id, at[Len(queue) + 1], slot.received - at[Len(queue) + 1])
Backlog == \E at \in [1..(Len(queue) + 1) -> 0..slot.received] : Carries(at)

(* A direct stream has written what it received, and one unit more between *)
(* its write and its taking the mutex again.                               *)
Written ==
    /\ (\A t \in Threads : pc[t] # "dwrote") =>
          disk.data[slot.part] = Genuine(slot.id, slot.received)
    /\ \A t \in Threads : pc[t] = "dwrote" /\ ~req[t].failed =>
          disk.data[slot.part] = Genuine(slot.id, slot.received + 1)

(* Until an error was seen the file is all there.                          *)
StreamData ==
    slot.occupied /\ slot.fd # 0 /\ ~writer.error =>
        IF slot.direct THEN Written
        ELSE (writer.pc = "wrote" /\ writer.failed) \/ Backlog

Store == StreamSlot /\ RingInv /\ PartInv /\ StreamData /\ FilesInv
StreamInv == Control /\ Clients /\ Alone /\ Store /\ Joined

(* Initially there is no upload.                                           *)
LEMMA StreamInit == Init => StreamInv
<1>. SUFFICES ASSUME Init PROVE StreamInv
  OBVIOUS
<1>1. Control
  BY ControlInit
<1>2. Clients /\ Alone /\ Joined
  BY DEF Init, Clients, Client, Alone, Streams, Joined, AllIdle, NoReq, EmptySlot, StreamOps,
         EndOps, BodyOps
<1>3. Store
  BY DEF Init, Store, StreamSlot, RingInv, PartInv, StreamData, FilesInv, GoodFile, NoFile,
         Quiet, Busy, EmptySlot, IdleWriter
<1>. QED
  BY <1>1, <1>2, <1>3 DEF StreamInv
-----------------------------------------------------------------------------
(* Which steps there are.                                                  *)

(* The types the steps below rely on.                                      *)
LEMMA StreamTypes ==
    ASSUME StreamInv
    PROVE  /\ Inv /\ ControlOK /\ Control /\ Store /\ Clients /\ Alone
           /\ slot \in Slot /\ writer \in Writer /\ disk \in Disk
           /\ slot.size \in Nat /\ slot.received \in Nat /\ nextId \in Nat
           /\ queue \in Seq(Seq(Unit)) /\ buffered \in Seq(Unit)
           /\ disk.linked \in SUBSET Ids /\ disk.data \in [Ids -> Seq(Unit)]
           /\ disk.files \in [Names -> File]
<1>1. Inv /\ Control /\ Store /\ Clients /\ Alone
  BY DEF StreamInv, Control
<1>2. /\ slot \in Slot /\ writer \in Writer /\ disk \in Disk /\ ControlOK
      /\ queue \in Seq(Seq(Unit)) /\ buffered \in Seq(Unit)
  BY <1>1, InvParts DEF SlotOK, StreamOK, WriterOK, RestOK
<1>3. slot.size \in Nat
  <2>1. slot.size \in Sizes \cup {0}
    BY <1>2 DEF Slot
  <2>2. \A n \in Sizes \cup {0} : n \in Nat
    BY SizesAssumption
  <2>. QED
    BY <2>1, <2>2, Zenon
<1>4. nextId \in Nat
  BY <1>1, InvParts, SizesAssumption DEF RestOK
<1>5. slot.received \in Nat
  BY <1>2 DEF Slot
<1>. QED
  BY <1>1, <1>2, <1>3, <1>4, <1>5, DiskFields

(* What is known of a handler.                                             *)
LEMMA StreamHandler ==
    ASSUME Settled, StreamInv, NEW t \in Threads
    PROVE  /\ Handler(t) /\ Client(t) /\ req[t] \in Req
           /\ req[t].kind \in {"none", "prepare", "stream", "direct", "status"}
           /\ pc[t] # "cdrain"
           /\ pc[t] \in {"hashing", "hashed"} => req[t].op = "finish"
<1>1. Handler(t) /\ Client(t) /\ req[t] \in Req
  BY StreamTypes, IdsAreNumbers DEF StreamInv, Control, Handlers, Clients
<1>2. /\ req[t].op \notin {"complete", "cbegin", "cwrite", "cfinish", "cabort", "cancel"}
  BY <1>1 DEF Client, StreamOps, EndOps
<1>. QED
  BY <1>1, <1>2 DEF Settled, Handler

(* The file of an upload that is being sent is open.                       *)
LEMMA OpenFile ==
    ASSUME StreamInv, NEW t \in Threads, Streams(t), pc[t] # "clear"
    PROVE  /\ slot.occupied /\ slot.started /\ slot.fd = slot.id /\ slot.part = slot.id
           /\ slot.id \in Ids /\ slot.id # 0 /\ slot.id < nextId
<1>1. slot.occupied /\ slot.started
  BY StreamTypes DEF Streams, Found, Clients, Client
<1>2. slot.fd # 0
  BY <1>1, StreamTypes DEF Store, StreamSlot, Alone
<1>3. 0 \notin Ids
  BY SizesAssumption DEF Ids
<1>. QED
  BY <1>1, <1>2, <1>3, StreamTypes DEF Store, StreamSlot

(* What a handler can do.                                                  *)
InputOnly(t) == Request(t) \/ Drop(t)
FinishOnly(t) == \/ FinishRefused(t) \/ FinishDirect(t) \/ FlushNothing(t)
                 \/ Flush(t) \/ DrainFail(t) \/ Drain(t) \/ hash_part_file(t)
                 \/ HashedLost(t) \/ HashedError(t) \/ HashedPublish(t)

(* The actions that such clients can bring about.                          *)
LEMMA StreamSteps ==
    ASSUME Settled, StreamInv, NEW t \in Threads, ThreadNext(t)
    PROVE  /\ \/ PrepareRefuse(t) \/ PrepareUndo(t) \/ PrepareOk(t)
              \/ StreamStep(t) \/ FinishOnly(t)
              \/ Abort(t) \/ Status(t) \/ ClearWait(t) \/ clear_slot(t) \/ InputOnly(t)
           /\ BeginRefused(t) => Return(t)
           /\ life = "up"
<1>0. /\ Client(t) /\ pc[t] # "cdrain"
      /\ req[t].op \notin {"complete", "cbegin", "cwrite", "cfinish", "cabort", "cancel"}
      /\ ~slot.stale
  BY StreamHandler, StreamTypes DEF Client, StreamOps, EndOps, Store, StreamSlot
<1>1. ~(PrepareSupersede(t) \/ PrepareBusy(t))
  BY <1>0 DEF PrepareSupersede, PrepareBusy, Body, Superseded, Client
<1>2. ~ChunkStep(t)
  BY <1>0 DEF ChunkStep, ChunkBeginOk, ChunkBeginRefused, ChunkWriteOk, ChunkWriteFail,
              ChunkFinishOk, ChunkFinishFail, ChunkAbort, Body
<1>3. FinishStep(t) => FinishOnly(t)
  BY <1>0 DEF FinishStep, FinishOnly, CompleteRefused, CompleteBegin, CompleteDrained,
              CompleteDrainFail, At, Body
<1>4. ~(Cancel(t) \/ Reap(t) \/ NoLength(t) \/ ShortBody(t) \/ LongBody(t))
  BY <1>0 DEF Settled, Cancel, Reap, ReapDue, NoLength, ShortBody, LongBody, Body
<1>5. BeginRefused(t) => Return(t)
  BY <1>0 DEF BeginRefused, Beginnable, Client, Body
<1>6. /\ \/ PrepareRefuse(t) \/ PrepareUndo(t) \/ PrepareOk(t)
         \/ StreamStep(t) \/ FinishOnly(t)
         \/ Abort(t) \/ Status(t) \/ ClearWait(t) \/ clear_slot(t) \/ InputOnly(t)
  BY <1>1, <1>2, <1>3, <1>4 DEF ThreadNext, ThreadStep, PrepareStep, EndStep, InputOnly
<1>7. pc[t] # "idle" \/ Request(t)
  <2>1. CASE PrepareRefuse(t) \/ PrepareUndo(t) \/ PrepareOk(t) \/ Abort(t) \/ Status(t)
             \/ ClearWait(t) \/ clear_slot(t) \/ InputOnly(t)
    BY <2>1 DEF PrepareRefuse, PrepareUndo, PrepareOk, CanPrepare, Body, Abort, Status,
                ClearWait, clear_slot, InputOnly, Drop
  <2>2. CASE StreamStep(t)
    BY <2>2 DEF StreamStep, BeginOk, BeginRefused, EnableOk, EnableRefused, WriteWait, WriteCopy,
                WriteFail, InWriteLoop, DirectBegin, DirectRefused, DirectIO, DirectEnd, Body
  <2>3. CASE FinishOnly(t)
    BY <2>3 DEF FinishOnly, FinishRefused, FinishDirect, FlushNothing, Flush, FinishQueued,
                DrainFail, Drain, hash_part_file, HashedLost, HashedError, HashedPublish, At, Body
  <2>. QED
    BY <1>6, <2>1, <2>2, <2>3
<1>8. life = "up"
  BY <1>7 DEF Request, StreamInv, Joined, AllIdle
<1>. QED
  BY <1>5, <1>6, <1>8
-----------------------------------------------------------------------------
(* The handlers that do not move.                                          *)

(* Handler u has nothing to do with the upload in the slot.                *)
Apart(u) == req[u].op \notin BodyOps \cup {"prepare"} /\ ~Streams(u)

(* What a step of t leaves of another handler's view.                      *)
LEMMA ApartKept ==
    ASSUME StreamInv, NEW u \in Threads, Apart(u), pc'[u] = pc[u], req'[u] = req[u],
           slot'.occupied => \/ slot.occupied /\ slot'.id = slot.id /\ slot'.size = slot.size
                             \/ slot'.id = nextId
    PROVE  Client(u)' /\ ~Streams(u)'
<1>1. Client(u) /\ req[u].id < nextId /\ req[u].id \in Nat /\ nextId \in Nat
  BY StreamTypes, IdsAreNumbers DEF Clients, Control, Handlers, Handler
<1>2. Found(u)' => Found(u) /\ slot'.size = slot.size
  BY <1>1 DEF Found
<1>3. pc[u] \notin {"clear", "clearing"}
  BY <1>1 DEF Client, Clearing, Apart
<1>4. ~Streams(u)'
  BY <1>2 DEF Apart, Streams
<1>. QED
  BY <1>1, <1>2, <1>3, <1>4 DEF Client, Apart

(* While t streams, or prepares, nobody else does.                         *)
LEMMA OthersApart ==
    ASSUME StreamInv, NEW t \in Threads,
           \/ Streams(t)
           \/ req[t].op = "prepare"
           \/ slot.occupied /\ ~slot.started,
           NEW u \in Threads, u # t
    PROVE  Apart(u)
<1>1. Client(t) /\ Client(u) /\ Alone
  BY StreamTypes DEF Clients
<1>2. req[u].op \in BodyOps => Streams(u)
  BY <1>1 DEF Client, Sending, Streams
<1>3. ~Streams(u)
  BY <1>1 DEF Alone, Client, Streams, Found
<1>4. req[u].op # "prepare"
  BY <1>1 DEF Alone, Client, Streams, Found
<1>. QED
  BY <1>2, <1>3, <1>4 DEF Apart

(* The clients after a step of t.                                          *)
LEMMA ClientsStep ==
    ASSUME StreamInv, NEW t \in Threads, Client(t)',
           \A u \in Threads \ {t} : /\ req'[u] = req[u] /\ Client(u)'
                                    /\ Streams(u)' => Streams(u),
           Streams(t)' => Streams(t) \/ \A u \in Threads : ~Streams(u),
           req'[t].op = "prepare" =>
               req[t].op = "prepare" \/ \A u \in Threads : req[u].op # "prepare"
    PROVE  Clients' /\ Alone'
<1>1. Clients'
  BY DEF Clients
<1>2. Alone
  BY StreamTypes
<1>3. ASSUME NEW u \in Threads, NEW v \in Threads,
             \/ Streams(u)' /\ Streams(v)'
             \/ req'[u].op = "prepare" /\ req'[v].op = "prepare"
      PROVE  u = v
  BY <1>2, <1>3 DEF Alone
<1>. QED
  BY <1>1, <1>3 DEF Alone

(* The slot keeps its upload and how far it has come.                      *)
SameStream ==
    /\ SameUpload /\ ~slot'.stale
    /\ slot'.started = slot.started /\ slot'.transport = slot.transport
    /\ slot'.direct = slot.direct /\ slot'.received = slot.received /\ slot'.sha = slot.sha

LEMMA StreamSame == ~slot.stale /\ slot' = slot => SameStream /\ slot'.fd = slot.fd
BY DEF SameStream, SameUpload

(* A step that leaves alone what the other handlers look at.               *)
LEMMA OthersSame ==
    ASSUME StreamInv, NEW t \in Threads, Others(t),
           SameStream, slot'.fd = slot.fd, UNCHANGED <<buffered, disk>>,
           writer'.error = writer.error,
           NEW u \in Threads \ {t}
    PROVE  Client(u)' /\ (Streams(u)' => Streams(u)) /\ req'[u] = req[u]
<1>1. Client(u) /\ pc'[u] = pc[u] /\ req'[u] = req[u]
  BY StreamTypes DEF Clients, Others
<1>. QED
  BY <1>1 DEF Client, Clearing, Sending, Streams, Found, SameStream, SameUpload

(* A step that only moves handler t on keeps the manager's state.          *)
LEMMA StoreSame ==
    ASSUME StreamInv, NEW t \in Threads, Others(t), SameStream, slot'.fd = slot.fd,
           UNCHANGED <<queue, buffered, writer, disk, nextId>>,
           pc[t] \notin {"clear", "dwrote"}, pc'[t] # "dwrote"
    PROVE  Store'
<1>0. Store
  BY StreamTypes
<1>1. StreamSlot'
  <2>1. ASSUME NEW w \in Threads, Streams(w), pc[w] = "clear"
        PROVE  Streams(w)' /\ pc'[w] = "clear"
    BY <2>1 DEF Others, Streams, Found, SameStream, SameUpload
  <2>. QED
    BY <1>0, <2>1 DEF Store, StreamSlot, SameStream, SameUpload, Quiet, Busy
<1>2. RingInv' /\ PartInv' /\ FilesInv'
  BY <1>0 DEF Store, RingInv, PartInv, FilesInv, GoodFile, SameStream, SameUpload, Busy
<1>3. Written => Written'
  BY DEF Written, Others, SameStream, SameUpload
<1>4. Backlog => Backlog'
  BY DEF Backlog, Carries, SameStream, SameUpload
<1>5. StreamData'
  BY <1>0, <1>3, <1>4 DEF Store, StreamData, SameStream, SameUpload
<1>. QED
  BY <1>1, <1>2, <1>5 DEF Store

(* What a step has to show: the state of the manager, and of its clients.  *)
Whole == Clients /\ Alone /\ Store

(* The same for all that a step of a handler must keep.                    *)
LEMMA WholeSame ==
    ASSUME StreamInv, NEW t \in Threads, Others(t), SameStream, slot'.fd = slot.fd,
           UNCHANGED <<queue, buffered, writer, disk, nextId>>,
           pc[t] \notin {"clear", "dwrote"}, pc'[t] # "dwrote",
           Client(t)',
           Streams(t)' => Streams(t) \/ \A u \in Threads : ~Streams(u),
           req'[t].op = "prepare" =>
               req[t].op = "prepare" \/ \A u \in Threads : req[u].op # "prepare"
    PROVE  Whole'
<1>1. \A u \in Threads \ {t} : Client(u)' /\ (Streams(u)' => Streams(u)) /\ req'[u] = req[u]
  BY OthersSame
<1>2. Clients' /\ Alone'
  BY <1>1, ClientsStep
<1>. QED
  BY <1>2, StoreSame DEF Whole
-----------------------------------------------------------------------------
(* How a handler moves on.                                                 *)

(* It returns.                                                             *)
LEMMA ClientReturn ==
    ASSUME StreamInv, NEW t \in Threads, Return(t)
    PROVE  /\ Client(t)' /\ ~Streams(t)' /\ req'[t].op # "prepare"
           /\ Others(t) /\ pc'[t] = "idle"
<1>1. Others(t) /\ pc'[t] = "idle" /\ req'[t] = NoReq
  BY StreamTypes, ReturnEffect
<1>. QED
  BY <1>1 DEF NoReq, Client, Streams, BodyOps, EndOps

(* It aborts the upload.                                                   *)
LEMMA ClientAbort ==
    ASSUME StreamInv, NEW t \in Threads, NEW op \in EndOps, NEW n, Call(t, op, n),
           req[t].op \in BodyOps \cup EndOps,
           Found(t)' => Found(t) /\ slot'.started
    PROVE  /\ Client(t)' /\ (Streams(t)' => Streams(t)) /\ req'[t].op # "prepare"
           /\ Others(t) /\ pc'[t] = "call"
<1>1. /\ Others(t) /\ pc'[t] = "call" /\ SameRequest(t) /\ req'[t].op = op
  BY StreamTypes, CallEffect
<1>2. Client(t)
  BY StreamTypes DEF Clients
<1>. QED
  BY <1>1, <1>2 DEF SameRequest, Client, Streams, BodyOps, EndOps

(* It calls clear_slot.                                                    *)
LEMMA ClearCall ==
    ASSUME StreamInv, NEW t \in Threads, NEW remove, ClearThen(t, remove, "return")
    PROVE  /\ req'[t].then = "return" /\ req'[t].remove = remove
           /\ SameCall(t) /\ Others(t) /\ pc'[t] = "clear" /\ req'[t].size = req[t].size
<1>0. ControlOK /\ req[t] \in Req
  BY StreamTypes, IdsAreNumbers
<1>1. req' = [req EXCEPT ![t] = [req[t] EXCEPT !.remove = remove, !.then = "return"]]
  BY DEF ClearThen
<1>2. req'[t] = [req[t] EXCEPT !.remove = remove, !.then = "return"]
  BY <1>0, <1>1 DEF ControlOK
<1>3. req'[t].then = "return"
  BY <1>0, <1>2 DEF Req
<1>. QED
  BY <1>0, <1>3, ClearThenEffect

(* A handler that gives its own upload up calls clear_slot.                *)
LEMMA ClientClear ==
    ASSUME StreamInv, NEW t \in Threads, NEW remove, ClearThen(t, remove, "return"),
           Streams(t), SameStream,
           ~remove => slot'.fd = 0 /\ slot'.part \notin disk'.linked
    PROVE  /\ Client(t)' /\ Streams(t)' /\ req'[t].op # "prepare"
           /\ Others(t) /\ pc'[t] = "clear"
<1>1. /\ req'[t].then = "return" /\ req'[t].remove = remove
      /\ SameCall(t) /\ Others(t) /\ pc'[t] = "clear" /\ req'[t].size = req[t].size
  BY ClearCall
<1>2. Client(t)
  BY StreamTypes DEF Clients
<1>3. Streams(t)'
  BY <1>1 DEF SameCall, SameRequest, Streams, Found, SameStream, SameUpload
<1>4. req[t].op \in BodyOps => Sending(t)'
  BY <1>1, <1>2 DEF SameCall, SameRequest, Client, Sending, Found, SameStream, SameUpload
<1>5. Clearing(t)'
  BY <1>1, <1>3 DEF Clearing, SameCall, SameRequest, Streams, BodyOps, EndOps
<1>. QED
  BY <1>1, <1>2, <1>3, <1>4, <1>5
     DEF SameCall, SameRequest, Client, Streams, BodyOps, EndOps, SameStream, SameUpload, StreamOps

(* It goes on to a label of its call.                                      *)
LEMMA ClientGoto ==
    ASSUME StreamInv, NEW t \in Threads, pc'[t] \notin {"idle", "body", "clear", "clearing"},
           SameCall(t), req'[t].size = req[t].size, Streams(t), SameStream,
           req[t].op \in BodyOps => Sending(t)'
    PROVE  Client(t)' /\ Streams(t)' /\ req'[t].op # "prepare"
<1>1. Client(t)
  BY StreamTypes DEF Clients
<1>2. Streams(t)'
  BY DEF SameCall, SameRequest, Streams, Found, SameStream, SameUpload
<1>. QED
  BY <1>1, <1>2
     DEF SameCall, SameRequest, Client, Streams, BodyOps, EndOps, SameStream, SameUpload, StreamOps
-----------------------------------------------------------------------------
(* The steps that only move a handler on.                                  *)

(* A call is refused, the request is over, or the upload is aborted.       *)
LEMMA StreamRefused ==
    ASSUME Settled, StreamInv, NEW t \in Threads,
           \/ PrepareRefuse(t) \/ (BeginRefused(t) /\ Return(t)) \/ EnableRefused(t)
           \/ WriteFail(t) \/ DirectRefused(t) \/ Abort(t) \/ Status(t)
    PROVE  Whole'
<1>0. Client(t) /\ Handler(t) /\ ~slot.stale
  BY StreamHandler, StreamTypes DEF Store, StreamSlot
<1>1. /\ SameStream /\ slot'.fd = slot.fd /\ slot' = slot
      /\ UNCHANGED <<queue, buffered, writer, disk, nextId>>
  <2>1. UNCHANGED <<slot, queue, buffered, writer, disk, nextId>>
    BY DEF PrepareRefuse, BeginRefused, EnableRefused, WriteFail, DirectRefused, Abort, Status,
           dataVars
  <2>. QED
    BY <1>0, <2>1, StreamSame
<1>2. pc[t] \notin {"clear", "dwrote"}
  BY DEF PrepareRefuse, BeginRefused, EnableRefused, WriteFail, DirectRefused, Abort, Status,
         InWriteLoop, Body
<1>3. CASE Return(t)
  BY <1>1, <1>2, <1>3, ClientReturn, WholeSame
<1>4. ASSUME NEW op \in EndOps, NEW n, Call(t, op, n), req[t].op \in BodyOps \cup EndOps
      PROVE  Whole'
  <2>1. Found(t)' => Found(t)
    BY <1>1, <1>4, StreamTypes, CallEffect DEF Found, SameRequest
  <2>2. Found(t) => slot.started
    BY <1>0, <1>4 DEF Client, Streams
  <2>. QED
    BY <1>1, <1>2, <1>4, <2>1, <2>2, ClientAbort, WholeSame
<1>5. CASE Abort(t) /\ ClearThen(t, TRUE, "return")
  <2>1. Streams(t) \/ ~(Started(t) /\ ~slot.finalizing)
    BY <1>5 DEF Abort, Body, Started, Streams, EndOps
  <2>2. CASE Streams(t)
    BY <1>1, <1>2, <1>5, <2>2, ClientClear, WholeSame
  <2>3. CASE ~(Started(t) /\ ~slot.finalizing)
    <3>1. pc'[t] = "clear"
      BY <1>5, ClearCall
    <3>2. AfterCall(t)
      BY <1>5, <2>3 DEF Abort
    <3>. QED
      BY <3>1, <3>2, StreamTypes, ReturnEffect, CallEffect DEF AfterCall
  <2>. QED
    BY <2>1, <2>2, <2>3
<1>6. CASE Abort(t) /\ AfterCall(t)
  <2>1. req[t].op \in EndOps /\ ~IsChunk(t)
    BY <1>0, <1>6, StreamHandler DEF Abort, Body, EndOps, IsChunk
  <2>. QED
    BY <1>3, <1>4, <1>6, <2>1 DEF AfterCall, EndOps
<1>7. CASE EnableRefused(t) \/ WriteFail(t) \/ DirectRefused(t)
  <2>1. req[t].op \in BodyOps
    BY <1>0, <1>7 DEF EnableRefused, WriteFail, DirectRefused, InWriteLoop, Body, Handler, BodyOps
  <2>. QED
    BY <1>4, <1>7, <2>1 DEF EnableRefused, WriteFail, DirectRefused, EndOps
<1>. QED
  BY <1>3, <1>5, <1>6, <1>7 DEF PrepareRefuse, Status, Abort

(* A writer waits for room, or a direct write begins.                      *)
LEMMA StreamWaits ==
    ASSUME Settled, StreamInv, NEW t \in Threads,
           WriteWait(t) \/ DirectBegin(t) \/ FlushNothing(t)
    PROVE  Whole'
<1>0. Client(t) /\ Handler(t) /\ ~slot.stale /\ slot \in Slot /\ Inv
  BY StreamHandler, StreamTypes DEF Store, StreamSlot
<1>1. /\ SameStream /\ slot'.fd = slot.fd
      /\ UNCHANGED <<queue, buffered, writer, disk, nextId>>
  <2>1. CASE WriteWait(t) \/ FlushNothing(t)
    BY <1>0, <2>1, StreamSame DEF WriteWait, FlushNothing, dataVars
  <2>2. CASE DirectBegin(t)
    BY <1>0, <2>2 DEF DirectBegin, Slot, SameStream, SameUpload
  <2>. QED
    BY <2>1, <2>2
<1>2. /\ pc[t] \in {"call", "body"} /\ req[t].op \in BodyOps /\ Streams(t) /\ Sending(t)
  BY <1>0 DEF WriteWait, DirectBegin, FlushNothing, FinishQueued, Body, Client, Streams,
              Sending, BodyOps
<1>3. /\ pc'[t] \in {"room", "dio", "drain"} /\ Others(t) /\ SameCall(t)
      /\ req'[t].size = req[t].size /\ req'[t].kind = req[t].kind
      /\ pc'[t] = "drain" => FlushNothing(t)
  <2>1. \E held : \/ Goto(t, "room", held) /\ WriteWait(t)
                  \/ Goto(t, "dio", held) /\ DirectBegin(t)
                  \/ Goto(t, "drain", held) /\ FlushNothing(t)
    BY DEF WriteWait, DirectBegin, FlushNothing
  <2>2. req' = req
    BY DEF WriteWait, DirectBegin, FlushNothing
  <2>. QED
    BY <1>0, <2>1, <2>2, GotoEffect, GotoSame, InvParts DEF SameCall, SameRequest
<1>4. pc'[t] = "drain" => ~slot.direct /\ buffered = <<>> /\ slot.received = slot.size
  BY <1>3 DEF FlushNothing, FinishQueued, Finishable
<1>5. Sending(t)'
  BY <1>1, <1>2, <1>3, <1>4 DEF Sending, Found, SameStream, SameUpload, SameCall, SameRequest
<1>6. Client(t)' /\ Streams(t)' /\ req'[t].op # "prepare"
  BY <1>1, <1>2, <1>3, <1>5, ClientGoto
<1>. QED
  BY <1>1, <1>2, <1>3, <1>6, WholeSame

(* A stream that has an error, or is incomplete, is cleared.               *)
LEMMA StreamFails ==
    ASSUME Settled, StreamInv, NEW t \in Threads,
           \/ FinishRefused(t) \/ DrainFail(t)
           \/ HashedLost(t) \/ HashedError(t)
           \/ Flush(t) /\ ClearThen(t, TRUE, "return")
    PROVE  Whole'
<1>0. Client(t) /\ Handler(t) /\ ~slot.stale /\ slot \in Slot /\ Inv
  BY StreamHandler, StreamTypes DEF Store, StreamSlot
<1>1. pc[t] \in {"call", "body", "drain", "hashed"} /\ req[t].op = "finish" /\ Streams(t)
  <2>1. pc[t] \in {"call", "body", "drain", "hashed"} /\ req[t].op = "finish"
    BY <1>0, StreamHandler DEF FinishRefused, DrainFail, HashedLost, HashedError, Flush,
       FinishQueued, Body, At, Handler
  <2>. QED
    BY <1>0, <2>1 DEF Client, Streams, Sending, BodyOps
<1>2. /\ ClearThen(t, TRUE, "return")
      /\ UNCHANGED <<writer, disk, nextId>>
  BY <1>1 DEF FinishRefused, DrainFail, HashedLost, HashedError, Flush, dataVars
<1>3. Others(t) /\ pc'[t] = "clear"
  BY <1>2, ClearCall
<1>4. UNCHANGED <<queue, buffered>>
  <2>1. CASE Flush(t)
    <3>1. ASSUME Goto(t, "drain", FALSE) PROVE FALSE
      <4>1. pc'[t] = "drain"
        BY <1>0, <3>1, GotoEffect, InvParts
      <4>. QED
        BY <1>3, <4>1
    <3>. QED
      BY <2>1, <3>1 DEF Flush
  <2>. QED
    BY <2>1 DEF FinishRefused, DrainFail, HashedLost, HashedError, dataVars
<1>5. SameStream /\ slot'.fd = slot.fd
  <2>1. CASE HashedError(t)
    <3>1. slot' = [slot EXCEPT !.finalizing = req[t].op # "complete"]
      BY <2>1 DEF HashedError
    <3>. QED
      BY <1>0, <3>1 DEF Slot, SameStream, SameUpload
  <2>2. slot' = slot \/ HashedError(t)
    BY <1>1 DEF FinishRefused, DrainFail, HashedLost, HashedError, Flush, dataVars
  <2>. QED
    BY <1>0, <2>1, <2>2, StreamSame
<1>6. Client(t)' /\ Streams(t)' /\ req'[t].op # "prepare"
  BY <1>1, <1>2, <1>5, ClientClear
<1>. QED
  BY <1>1, <1>2, <1>3, <1>4, <1>5, <1>6, WholeSame

(* The part file of a direct stream is hashed.                             *)
LEMMA StreamHashes ==
    ASSUME Settled, StreamInv, NEW t \in Threads, FinishDirect(t) \/ hash_part_file(t)
    PROVE  Whole'
<1>0. Client(t) /\ Handler(t) /\ ~slot.stale /\ slot \in Slot /\ Inv /\ ControlOK
  BY StreamHandler, StreamTypes DEF Store, StreamSlot
<1>1. /\ SameStream /\ slot'.fd = slot.fd
      /\ UNCHANGED <<queue, buffered, writer, disk, nextId>>
  <2>1. CASE hash_part_file(t)
    BY <1>0, <2>1, StreamSame DEF hash_part_file, dataVars
  <2>2. CASE FinishDirect(t)
    BY <1>0, <2>2 DEF FinishDirect, Slot, SameStream, SameUpload
  <2>. QED
    BY <2>1, <2>2
<1>2. pc[t] \in {"call", "body", "hashing"} /\ req[t].op = "finish" /\ Streams(t) /\ Sending(t)
  <2>1. pc[t] \in {"call", "body", "hashing"} /\ req[t].op = "finish"
    BY <1>0, StreamHandler DEF FinishDirect, hash_part_file, Body
  <2>. QED
    BY <1>0, <2>1 DEF Client, Streams, Sending, BodyOps
<1>3. slot.direct /\ ~writer.error /\ slot.received = slot.size
  BY <1>2 DEF FinishDirect, hash_part_file, Finishable, Sending
<1>4. SameCall(t) /\ \A u \in Threads \ {t} : req'[u] = req[u]
  BY <1>0, LocalSteps
<1>5. pc'[t] \in {"hashing", "hashed"} /\ Others(t)
  <2>1. CASE FinishDirect(t)
    BY <1>0, <1>4, <2>1, GotoEffect DEF FinishDirect, Others
  <2>2. CASE hash_part_file(t)
    BY <1>0, <1>4, <2>2 DEF hash_part_file, Others, ControlOK
  <2>. QED
    BY <2>1, <2>2
<1>6. req'[t].size = req[t].size
  <2>1. CASE FinishDirect(t)
    <3>1. req'[t] = [req[t] EXCEPT !.part = slot.part]
      BY <1>0, <2>1 DEF FinishDirect, ControlOK
    <3>. QED
      BY <3>1, IdsAreNumbers, <1>0 DEF Req
  <2>2. CASE hash_part_file(t)
    <3>1. \E digest : req'[t] = [req[t] EXCEPT !.digest = digest]
      BY <1>0, <2>2 DEF hash_part_file, ControlOK
    <3>. QED
      BY <3>1, IdsAreNumbers, <1>0 DEF Req
  <2>. QED
    BY <2>1, <2>2
<1>7. Sending(t)'
  BY <1>1, <1>2, <1>3, <1>4, <1>5, <1>6
     DEF Sending, Found, SameStream, SameUpload, SameCall, SameRequest
<1>8. Client(t)' /\ Streams(t)' /\ req'[t].op # "prepare"
  BY <1>1, <1>2, <1>4, <1>5, <1>6, <1>7, ClientGoto
<1>. QED
  BY <1>1, <1>2, <1>5, <1>8, WholeSame
-----------------------------------------------------------------------------
(* upload_begin and upload_enable_direct_stream.                           *)

(* A handler goes on to the next call of its stream.                       *)
LEMMA ClientNext ==
    ASSUME StreamInv, NEW t \in Threads, NEW op \in BodyOps, NEW n, Call(t, op, n),
           req[t].kind # "prepare",
           Found(t)', slot'.started, req[t].size = slot'.size, n = slot'.received,
           IF op = "enable" THEN req[t].kind = "direct" /\ ~slot'.direct
           ELSE slot'.direct <=> req[t].kind = "direct",
           op = "write" => req[t].kind = "stream",
           op = "dwrite" => req[t].kind = "direct"
    PROVE  /\ Client(t)' /\ Streams(t)' /\ req'[t].op # "prepare"
           /\ Others(t) /\ pc'[t] = "call"
<1>1. /\ Others(t) /\ pc'[t] = "call" /\ SameRequest(t) /\ req'[t].op = op
      /\ req'[t].sent = n /\ req'[t].size = req[t].size
  BY StreamTypes, CallEffect
<1>2. Sending(t)'
  BY <1>1 DEF Sending, Found, SameRequest
<1>. QED
  BY <1>1, <1>2 DEF SameRequest, Client, Streams, BodyOps, StreamOps, Found

(* The same call goes on and waits for room.                               *)
LEMMA ClientAwaits ==
    ASSUME StreamInv, NEW t \in Threads, AwaitRoom(t), req[t].op = "write", Streams(t), Sending(t),
           SameUpload, slot'.started, slot'.direct = slot.direct, slot'.received = req[t].sent + 1
    PROVE  /\ Client(t)' /\ Streams(t)' /\ req'[t].op # "prepare"
           /\ Others(t) /\ pc'[t] = "room"
<1>1. /\ Others(t) /\ pc'[t] = "room" /\ SameRequest(t) /\ req'[t].op = "write"
      /\ req'[t].sent = req[t].sent + 1 /\ req'[t].size = req[t].size
  BY StreamTypes, AwaitRoomEffect
<1>2. Sending(t)'
  BY <1>1 DEF Sending, Found, SameRequest, SameUpload
<1>3. Client(t)
  BY StreamTypes DEF Clients
<1>. QED
  BY <1>1, <1>2, <1>3 DEF SameRequest, Client, Streams, Sending, BodyOps, StreamOps, Found

(* A step of the one stream, or of one that begins.                        *)
LEMMA WholeStep ==
    ASSUME StreamInv, NEW t \in Threads, Others(t),
           \/ Streams(t) \/ req[t].op = "prepare"
           \/ slot.occupied /\ ~slot.started,
           slot'.occupied => \/ slot.occupied /\ slot'.id = slot.id /\ slot'.size = slot.size
                             \/ slot'.id = nextId,
           Client(t)', req'[t].op = "prepare" => req[t].op = "prepare", Store'
    PROVE  Whole'
<1>1. \A u \in Threads \ {t} : Apart(u)
  BY OthersApart
<1>2. \A u \in Threads \ {t} : Client(u)' /\ ~Streams(u)' /\ req'[u] = req[u]
  BY <1>1, ApartKept DEF Others
<1>3. \A u \in Threads \ {t} : ~Streams(u)
  BY <1>1 DEF Apart
<1>4. Streams(t) \/ \A u \in Threads : ~Streams(u)
  BY <1>3
<1>5. Clients' /\ Alone'
  BY <1>2, <1>4, ClientsStep
<1>. QED
  BY <1>5 DEF Whole

(* A call that sends a body.                                               *)
LEMMA BodyOpKind ==
    ASSUME Settled, StreamInv, NEW t \in Threads, NEW n
    PROVE  /\ BodyOp(t, n) \in BodyOps \ {"enable"}
           /\ IsFast(t) <=> req[t].kind = "direct"
           /\ BodyOp(t, n) = "write" => req[t].kind # "direct"
           /\ BodyOp(t, n) = "dwrite" => req[t].kind = "direct"
<1>1. req[t].kind \in {"none", "prepare", "stream", "direct", "status"}
  BY StreamHandler
<1>. QED
  BY <1>1 DEF BodyOp, BodyOps, IsFast

(* upload_begin finds the upload nobody has begun.                         *)
LEMMA StreamBegins ==
    ASSUME Settled, StreamInv, NEW t \in Threads, BeginOk(t)
    PROVE  Whole'
<1>0. /\ Client(t) /\ Handler(t) /\ slot \in Slot /\ Inv /\ Store
      /\ req[t].op = "begin" /\ Found(t) /\ ~slot.started /\ slot.occupied
      /\ req[t].size = slot.size
  BY StreamHandler, StreamTypes DEF BeginOk, Body, Beginnable, Found
<1>1. slot' = [slot EXCEPT !.started = TRUE, !.stale = FALSE, !.sha = <<>>]
      /\ UNCHANGED <<queue, buffered, writer, disk, nextId>>
  BY DEF BeginOk
<1>2. /\ slot'.started /\ ~slot'.stale /\ slot'.sha = <<>>
      /\ slot'.fd = slot.fd /\ SameUpload
      /\ slot'.transport = slot.transport /\ slot'.direct = slot.direct
      /\ slot'.received = slot.received
  BY <1>0, <1>1 DEF Slot, SameUpload
<1>3. Quiet /\ ~writer.error /\ slot.received = 0 /\ ~slot.direct
  BY <1>0 DEF Store, StreamSlot
<1>4. slot.fd # 0
  BY <1>0 DEF Store, StreamSlot, StreamInv, Clients, Client
<1>5. req[t].kind \in {"stream", "direct"}
  BY <1>0 DEF Handler, StreamOps
<1>6. PICK op \in BodyOps : /\ Call(t, op, 0)
                            /\ op = "enable" <=> req[t].kind = "direct"
                            /\ op # "dwrite"
  BY <1>5, BodyOpKind DEF BeginOk, BodyOps, BodyOp
<1>7. Found(t)'
  BY <1>0, <1>2, <1>6, StreamTypes, CallEffect DEF Found, SameUpload, SameRequest
<1>8. /\ Client(t)' /\ Streams(t)' /\ req'[t].op # "prepare" /\ Others(t)
  BY <1>0, <1>2, <1>3, <1>5, <1>6, <1>7, ClientNext DEF SameUpload, BodyOps
<1>9. Store'
  <2>1. StreamSlot' /\ RingInv' /\ PartInv' /\ FilesInv'
    BY <1>0, <1>1, <1>2, <1>3, <1>4, GenuineEmpty
       DEF SameUpload, Store, StreamSlot, RingInv, PartInv, FilesInv, GoodFile, Quiet, Busy
  <2>2. Backlog
    BY <1>0, <1>3, <1>4 DEF Store, StreamData, Quiet, Busy
  <2>3. Backlog'
    BY <1>1, <1>2, <2>2 DEF Backlog, Carries, SameUpload
  <2>. QED
    BY <1>2, <1>3, <2>1, <2>3 DEF Store, StreamData
<1>. QED
  BY <1>0, <1>2, <1>8, <1>9, WholeStep DEF SameUpload

(* No direct write is on its way while t is elsewhere.                     *)
LEMMA NobodyWrites ==
    ASSUME StreamInv, NEW t \in Threads, Streams(t),
           NEW u \in Threads, pc[u] = "dwrote"
    PROVE  u = t
<1>1. Handler(u) /\ Client(u) /\ Alone
  BY StreamTypes DEF Control, Handlers, Clients
<1>2. Streams(u)
  BY <1>1 DEF Handler, Client, Sending, Streams, BodyOps
<1>. QED
  BY <1>1, <1>2 DEF Alone

(* upload_enable_direct comes before the first unit.                       *)
LEMMA StreamEnables ==
    ASSUME Settled, StreamInv, NEW t \in Threads, EnableOk(t)
    PROVE  Whole'
<1>0. /\ Client(t) /\ Handler(t) /\ slot \in Slot /\ Inv /\ Store
      /\ req[t].op = "enable" /\ pc[t] # "clear" /\ pc[t] # "dwrote"
      /\ slot.received = 0 /\ Quiet
  BY StreamHandler, StreamTypes DEF EnableOk, Body, Quiet, Busy
<1>1. slot' = [slot EXCEPT !.direct = TRUE]
      /\ UNCHANGED <<queue, buffered, writer, disk, nextId>>
  BY DEF EnableOk
<1>2. /\ slot'.direct /\ slot'.started = slot.started /\ slot'.stale = slot.stale
      /\ slot'.fd = slot.fd /\ SameUpload
      /\ slot'.transport = slot.transport /\ slot'.received = slot.received
  BY <1>0, <1>1 DEF Slot, SameUpload
<1>3. Sending(t) /\ Streams(t) /\ req[t].kind = "direct" /\ ~slot.direct
  BY <1>0 DEF Client, Sending, Streams, BodyOps
<1>4. slot.occupied /\ slot.started /\ slot.fd # 0
  BY <1>0, <1>3, OpenFile
<1>5. PICK op \in BodyOps : Call(t, op, 0) /\ op \notin {"enable", "write"}
  BY <1>3, BodyOpKind DEF EnableOk
<1>6. Found(t)'
  BY <1>2, <1>3, <1>5, StreamTypes, CallEffect DEF Found, SameUpload, SameRequest, Streams
<1>7. /\ Client(t)' /\ Streams(t)' /\ req'[t].op # "prepare" /\ Others(t) /\ pc'[t] = "call"
  BY <1>0, <1>2, <1>3, <1>4, <1>5, <1>6, ClientNext DEF SameUpload, Sending
<1>8. \A u \in Threads : pc[u] # "dwrote" /\ pc'[u] # "dwrote"
  BY <1>0, <1>3, <1>7, NobodyWrites DEF Others
<1>9. Store'
  <2>1. StreamSlot' /\ RingInv' /\ PartInv' /\ FilesInv'
    BY <1>0, <1>1, <1>2, <1>4
       DEF SameUpload, Store, StreamSlot, RingInv, PartInv, FilesInv, GoodFile, Quiet, Busy
  <2>2. ~writer.error => disk.data[slot.part] = Genuine(slot.id, slot.received)
    <3>1. SUFFICES ASSUME ~writer.error PROVE disk.data[slot.part] = Genuine(slot.id, 0)
      BY <1>0
    <3>2. Backlog
      BY <1>0, <1>3, <1>4, <3>1 DEF Store, StreamData, Quiet, Busy
    <3>3. PICK at \in [1..1 -> 0..0] : disk.data[slot.part] = Genuine(slot.id, at[1])
      BY <1>0, <3>2 DEF Backlog, Carries, Quiet, Busy
    <3>4. at[1] = 0
      BY <3>3
    <3>. QED
      BY <3>3, <3>4
  <2>3. ~writer'.error => Written'
    BY <1>1, <1>2, <1>8, <2>2 DEF Written, SameUpload
  <2>. QED
    BY <1>2, <2>1, <2>3 DEF Store, StreamData
<1>. QED
  BY <1>0, <1>2, <1>3, <1>7, <1>9, WholeStep DEF SameUpload
-----------------------------------------------------------------------------
(* upload_write, and the last buffer of upload_finish.                     *)

(* The writer keeps its buffer when another one is queued.                 *)
LEMMA RingGrows ==
    ASSUME queue \in Seq(Seq(Unit)), RingInv, NEW B, queue' = Append(queue, B),
           writer' = writer
    PROVE  RingInv'
<1>1. queue' # <<>> /\ (queue # <<>> => Head(queue') = Head(queue))
  OBVIOUS
<1>. QED
  BY <1>1 DEF RingInv, Busy

(* A buffer that follows the ring is queued.                               *)
LEMMA RingQueues ==
    ASSUME StreamInv, Backlog, NEW B, NEW r \in Nat, r >= slot.received,
           \A a \in 0..slot.received :
              buffered = Piece(slot.id, a, slot.received - a) => B = Piece(slot.id, a, r - a),
           queue' = Append(queue, B), buffered' = <<>>, SameUpload, slot'.received = r,
           UNCHANGED <<writer, disk>>, RingInv
    PROVE  Backlog'
<1>0. queue \in Seq(Seq(Unit)) /\ slot.received \in Nat
  BY StreamTypes
<1>. DEFINE L == Len(queue)
<1>1. PICK at \in [1..(L + 1) -> 0..slot.received] : Carries(at)
  BY DEF Backlog
<1>2. L \in Nat /\ at[L + 1] \in 0..slot.received
  BY <1>0
<1>3. B = Piece(slot.id, at[L + 1], r - at[L + 1])
  BY <1>1, <1>2 DEF Carries
<1>4. /\ Len(queue') = L + 1 /\ queue'[L + 1] = B
      /\ \A k \in 1..L : queue'[k] = queue[k]
  BY <1>0
<1>5. PICK new \in [1..(L + 2) -> 0..r] :
         new[L + 2] = r /\ \A k \in 1..(L + 1) : new[k] = at[k]
  <2>. DEFINE f == [k \in 1..(L + 2) |-> IF k = L + 2 THEN r ELSE at[k]]
  <2>1. /\ f \in [1..(L + 2) -> 0..r] /\ f[L + 2] = r
        /\ \A k \in 1..(L + 1) : f[k] = at[k]
    BY <1>0, <1>2
  <2>. QED
    BY <2>1
<1>7. disk'.data[slot'.part] = Genuine(slot'.id, IF writer'.pc = "wrote" THEN new[2] ELSE new[1])
  <2>1. writer.pc = "wrote" => L # 0
    BY DEF RingInv, Busy
  <2>2. 1 \in 1..(L + 1) /\ (L # 0 => 2 \in 1..(L + 1))
    BY <1>2
  <2>. QED
    BY <1>1, <1>5, <2>1, <2>2 DEF Carries, SameUpload
<1>. HIDE DEF L
<1>8. \A k \in 1..(L + 1) :
         new[k] <= new[k + 1] /\ queue'[k] = Piece(slot.id, new[k], new[k + 1] - new[k])
  <2>. TAKE k \in 1..(L + 1)
  <2>1. CASE k = L + 1
    <3>1. new[k] = at[L + 1] /\ new[k + 1] = r /\ k \in 1..(L + 1) /\ k + 1 = L + 2
      BY <1>2, <1>5, <2>1
    <3>. QED
      BY <1>0, <1>2, <1>3, <1>4, <2>1, <3>1
  <2>2. CASE k # L + 1
    <3>1. k \in 1..L /\ k + 1 \in 1..(L + 1)
      BY <1>2, <2>2
    <3>2. new[k] = at[k] /\ new[k + 1] = at[k + 1]
      BY <1>5, <3>1
    <3>3. at[k] <= at[k + 1] /\ queue[k] = Piece(slot.id, at[k], at[k + 1] - at[k])
      BY <1>1, <3>1 DEF Carries, L
    <3>. QED
      BY <1>4, <3>1, <3>2, <3>3
  <2>. QED
    BY <2>1, <2>2
<1>9. <<>> = Piece(slot.id, r, r - r)
  BY PieceType
<1>10. Carries(new)'
  <2>1. Len(queue') = L + 1 /\ new[Len(queue') + 1] = r
    BY <1>2, <1>4, <1>5
  <2>2. slot'.id = slot.id /\ slot'.received = r /\ buffered' = <<>>
    BY DEF SameUpload
  <2>3. buffered' = Piece(slot'.id, new[Len(queue') + 1], slot'.received - new[Len(queue') + 1])
    BY <1>9, <2>1, <2>2
  <2>. QED
    BY <1>7, <1>8, <2>1, <2>2, <2>3, Zenon DEF Carries
<1>11. new \in [1..(Len(queue') + 1) -> 0..slot'.received]
  BY <1>2, <1>4, <1>5
<1>. QED
  BY <1>10, <1>11 DEF Backlog

(* The unit that follows is put into the buffer being filled.              *)
LEMMA RingFills ==
    ASSUME StreamInv, Backlog,
           buffered' = Append(buffered, <<slot.id, slot.received + 1>>),
           SameUpload, slot'.received = slot.received + 1,
           UNCHANGED <<queue, writer, disk>>
    PROVE  Backlog'
<1>0. PICK id : id = slot.id
  OBVIOUS
<1>1. PICK L \in Nat, r \in Nat : L = Len(queue) /\ r = slot.received
  BY StreamTypes
<1>2. /\ Len(queue') = L /\ slot'.received = r + 1 /\ slot'.id = id /\ slot'.part = slot.part
      /\ queue' = queue /\ writer' = writer /\ disk' = disk
      /\ buffered' = Append(buffered, <<id, r + 1>>)
  BY <1>0, <1>1 DEF SameUpload
<1>3. PICK at \in [1..(L + 1) -> 0..r] : Carries(at)
  BY <1>1 DEF Backlog
<1>4. PICK o \in 0..r : o = at[L + 1]
  OBVIOUS
<1>5. buffered = Piece(id, o, r - o) /\ o \in Nat /\ r - o \in Nat
  BY <1>0, <1>1, <1>3, <1>4 DEF Carries
<1>6. buffered' = Piece(id, o, (r + 1) - o)
  <2>1. o + (r - o) + 1 = r + 1 /\ (r - o) + 1 = (r + 1) - o
    BY <1>5
  <2>2. Append(Piece(id, o, r - o), <<id, o + (r - o) + 1>>) = Piece(id, o, (r - o) + 1)
    BY <1>5, PieceGrows
  <2>. QED
    BY <1>2, <1>5, <2>1, <2>2
<1>7. Carries(at)'
  BY <1>0, <1>1, <1>2, <1>3, <1>4, <1>6, Zenon DEF Carries
<1>8. at \in [1..(L + 1) -> 0..(r + 1)]
  OBVIOUS
<1>. QED
  BY <1>2, <1>7, <1>8 DEF Backlog

(* upload_write copies a unit into the ring's open buffer.                 *)
LEMMA StreamCopies ==
    ASSUME Settled, StreamInv, NEW t \in Threads, WriteCopy(t)
    PROVE  Whole'
<1>0. /\ Client(t) /\ Handler(t) /\ slot \in Slot /\ Inv /\ Store
      /\ req[t].op = "write" /\ pc[t] \notin {"clear", "dwrote"}
  BY StreamHandler, StreamTypes DEF WriteCopy, InWriteLoop, Body, Handler
<1>1. Sending(t) /\ Streams(t) /\ req[t].kind = "stream" /\ ~slot.direct
  BY <1>0 DEF Client, Sending, Streams, BodyOps
<1>2. /\ slot.occupied /\ slot.started /\ slot.fd = slot.id /\ slot.id = req[t].id
      /\ req[t].sent = slot.received /\ slot.received \in Nat /\ slot.id # 0
  BY <1>0, <1>1, OpenFile, StreamTypes DEF Sending, Found
<1>. DEFINE unit == <<slot.id, slot.received + 1>>
            full == Len(buffered) + 1 >= BufferUnits
<1>3. /\ slot' = [slot EXCEPT !.sha = Append(@, unit), !.stale = FALSE, !.received = @ + 1]
      /\ IF full /\ ~writer.discard
         THEN queue' = Append(queue, Append(buffered, unit)) /\ buffered' = <<>>
         ELSE buffered' = Append(buffered, unit) /\ queue' = queue
      /\ \/ Call(t, "abort", 0)
         \/ Call(t, BodyOp(t, slot.received + 1), slot.received + 1)
         \/ AwaitRoom(t)
      /\ UNCHANGED <<writer, disk, nextId>> /\ ~writer.error
  BY <1>2 DEF WriteCopy
<1>. HIDE DEF unit, full
<1>4. /\ slot'.started = slot.started /\ ~slot'.stale /\ slot'.sha = Append(slot.sha, unit)
      /\ slot'.fd = slot.fd /\ SameUpload
      /\ slot'.transport = slot.transport /\ slot'.direct = slot.direct
      /\ slot'.received = slot.received + 1
  BY <1>0, <1>3 DEF Slot, SameUpload
<1>5. Client(t)' /\ req'[t].op # "prepare" /\ Others(t) /\ pc'[t] \in {"call", "room"}
  <2>0. \A op, n : Call(t, op, n) => Found(t)'
    BY <1>1, <1>4, StreamTypes, CallEffect DEF Found, SameUpload, SameRequest, Streams
  <2>1. CASE Call(t, "abort", 0)
    <3>1. Found(t)' => Found(t) /\ slot'.started
      BY <1>1, <1>2, <1>4 DEF Streams
    <3>. QED
      BY <1>0, <2>1, <3>1, ClientAbort DEF EndOps, BodyOps
  <2>2. CASE Call(t, BodyOp(t, slot.received + 1), slot.received + 1)
    <3>1. PICK op \in BodyOps : /\ Call(t, op, slot.received + 1)
                                /\ op \notin {"enable", "dwrite"}
      BY <1>1, <2>2, BodyOpKind
    <3>. QED
      BY <1>1, <1>2, <1>4, <2>0, <3>1, ClientNext DEF SameUpload, Sending
  <2>3. CASE AwaitRoom(t)
    BY <1>0, <1>1, <1>2, <1>4, <2>3, ClientAwaits
  <2>. QED
    BY <1>3, <2>1, <2>2, <2>3
<1>7. (writer.pc = "wrote" /\ writer.failed) \/ Backlog
  BY <1>0, <1>1, <1>2, <1>3 DEF Store, StreamData
<1>8. RingInv' /\ (Backlog => Backlog')
  <2>1. CASE full /\ ~writer.discard
    <3>. DEFINE B == Append(buffered, unit)
                r == slot.received + 1
    <3>1. ASSUME NEW a \in 0..slot.received, buffered = Piece(slot.id, a, slot.received - a)
          PROVE  B = Piece(slot.id, a, r - a)
      <4>1. a \in Nat /\ slot.received - a \in Nat
        BY <1>2
      <4>2. a + (slot.received - a) + 1 = slot.received + 1 /\ slot.received - a + 1 = r - a
        BY <1>2
      <4>. QED
        BY <3>1, <4>1, <4>2, PieceGrows DEF unit
    <3>2. queue' = Append(queue, B) /\ buffered' = <<>> /\ r \in Nat /\ r >= slot.received
      BY <1>2, <1>3, <2>1
    <3>3. RingInv'
      BY <1>0, <1>3, <3>2, StreamTypes, RingGrows DEF Store
    <3>. HIDE DEF B, r
    <3>. QED
      BY <1>0, <1>3, <1>4, <3>1, <3>2, <3>3, RingQueues DEF Store, r
  <2>2. CASE ~(full /\ ~writer.discard)
    <3>1. RingInv'
      BY <1>0, <1>3, <2>2 DEF Store, RingInv, Busy
    <3>. QED
      BY <1>3, <1>4, <2>2, <3>1, RingFills DEF unit
  <2>. QED
    BY <2>1, <2>2
<1>9. slot'.sha = Genuine(slot'.id, slot'.received)
  <2>1. slot.sha = Genuine(slot.id, slot.received)
    BY <1>0, <1>1, <1>2 DEF Store, StreamSlot
  <2>2. Append(Genuine(slot.id, slot.received), unit) = Genuine(slot.id, slot.received + 1)
    BY <1>2 DEF Genuine, unit
  <2>. QED
    BY <1>4, <2>1, <2>2 DEF SameUpload
<1>10. Store'
  <2>1. StreamSlot' /\ PartInv' /\ FilesInv'
    BY <1>0, <1>1, <1>2, <1>3, <1>4, <1>9
       DEF SameUpload, Store, StreamSlot, PartInv, FilesInv, GoodFile
  <2>2. StreamData'
    BY <1>1, <1>3, <1>4, <1>7, <1>8 DEF StreamData
  <2>. QED
    BY <1>8, <2>1, <2>2 DEF Store
<1>. QED
  BY <1>0, <1>1, <1>2, <1>4, <1>5, <1>10, WholeStep DEF SameUpload

(* upload_finish queues the last buffer and waits for the writer.          *)
LEMMA StreamFlushes ==
    ASSUME Settled, StreamInv, NEW t \in Threads, Flush(t)
    PROVE  Whole'
<1>0. /\ Client(t) /\ Handler(t) /\ slot \in Slot /\ Inv /\ Store
      /\ req[t].op = "finish" /\ pc[t] \notin {"clear", "dwrote"}
      /\ slot.received = slot.size /\ ~slot.direct /\ ~slot.stale /\ ~writer.error
  BY StreamHandler, StreamTypes DEF Flush, FinishQueued, Finishable, Body, Handler, Store, StreamSlot
<1>1. Sending(t) /\ Streams(t)
  BY <1>0 DEF Client, Sending, Streams, BodyOps
<1>2. slot.occupied /\ slot.started /\ slot.fd = slot.id /\ slot.received \in Nat /\ slot.id # 0
  BY <1>0, <1>1, OpenFile, StreamTypes
<1>3. CASE ClearThen(t, TRUE, "return")
  BY <1>3, StreamFails
<1>4. CASE /\ queue' = Append(queue, buffered) /\ buffered' = <<>>
           /\ Goto(t, "drain", FALSE) /\ req' = req
  <2>1. UNCHANGED <<slot, writer, disk, nextId>>
    BY DEF Flush
  <2>2. SameStream /\ SameUpload /\ slot'.received = slot.received
    BY <1>0, <2>1, StreamSame DEF SameStream
  <2>3. /\ pc'[t] = "drain" /\ Others(t) /\ SameCall(t)
        /\ req'[t].size = req[t].size /\ req'[t].kind = req[t].kind
    BY <1>0, <1>4, GotoEffect, GotoSame, InvParts DEF SameCall, SameRequest
  <2>4. Sending(t)'
    BY <1>0, <1>1, <1>4, <2>1, <2>3 DEF Sending, Found, SameCall, SameRequest
  <2>5. Client(t)' /\ req'[t].op # "prepare"
    BY <1>1, <2>2, <2>3, <2>4, ClientGoto
  <2>6. RingInv' /\ (Backlog => Backlog')
    <3>1. RingInv'
      BY <1>0, <1>4, <2>1, StreamTypes, RingGrows DEF Store
    <3>. QED
      BY <1>0, <1>2, <1>4, <2>1, <2>2, <3>1, RingQueues DEF Store
  <2>7. StreamSlot' /\ PartInv' /\ FilesInv'
    BY <1>0, <1>2, <1>4, <2>1
       DEF Store, StreamSlot, PartInv, FilesInv, GoodFile
  <2>8. StreamData'
    BY <1>0, <1>2, <2>1, <2>6 DEF Store, StreamData
  <2>9. Store'
    BY <2>6, <2>7, <2>8 DEF Store
  <2>. QED
    BY <1>1, <2>1, <2>3, <2>5, <2>9, WholeStep
<1>. QED
  BY <1>3, <1>4 DEF Flush
-----------------------------------------------------------------------------
(* upload_write_direct.                                                    *)

(* write_all appends to the part file of the upload that is open.          *)
LEMMA FileWritten ==
    ASSUME disk \in Disk, slot.fd = slot.part, slot.fd \in Ids, slot.part < nextId, nextId \in Nat,
           NEW data, NEW ok, write_all(data, ok)
    PROVE  /\ disk'.linked = disk.linked /\ disk'.files = disk.files
           /\ \A j \in Ids : j >= nextId => disk'.data[j] = disk.data[j]
           /\ ok => disk'.data[slot.part] = disk.data[slot.part] \o data
<1>0. disk'.files = disk.files
  BY WriteKeepsFiles
<1>1. CASE disk' = disk /\ ~ok
  BY <1>1
<1>2. ASSUME NEW x, disk' = [disk EXCEPT !.data[slot.fd] = x],
             ok => x = disk.data[slot.fd] \o data
      PROVE  /\ disk'.linked = disk.linked
             /\ \A j \in Ids : j >= nextId => disk'.data[j] = disk.data[j]
             /\ ok => disk'.data[slot.part] = disk.data[slot.part] \o data
  <2>. DEFINE new == [disk.data EXCEPT ![slot.fd] = x]
  <2>1. disk' = [disk EXCEPT !.data = new]
    BY <1>2
  <2>2. new[slot.part] = x /\ \A j \in Ids : j >= nextId => new[j] = disk.data[j]
    <3>1. disk.data \in [Ids -> Seq(Unit)] /\ \A j \in Ids : j \in Nat
      BY SizesAssumption DEF Disk, Ids
    <3>. QED
      BY <3>1
  <2>. HIDE DEF new
  <2>3. disk'.linked = disk.linked /\ disk'.data = new
    BY <2>1 DEF Disk
  <2>. QED
    BY <1>2, <2>2, <2>3
<1>3. slot.fd # 0
  BY SizesAssumption DEF Ids
<1>. QED
  BY <1>0, <1>1, <1>2, <1>3 DEF write_all

(* upload_write_direct appends to the file without the mutex.              *)
LEMMA StreamWritesOut ==
    ASSUME Settled, StreamInv, NEW t \in Threads, DirectIO(t)
    PROVE  Whole'
<1>0. /\ Client(t) /\ Handler(t) /\ slot \in Slot /\ Inv /\ Store /\ ControlOK
      /\ req[t].op = "dwrite" /\ pc[t] = "dio" /\ ~slot.stale
  BY StreamHandler, StreamTypes DEF DirectIO, Handler, Store, StreamSlot
<1>1. Sending(t) /\ Streams(t) /\ slot.direct
  BY <1>0 DEF Client, Sending, Streams, BodyOps
<1>2. /\ slot.occupied /\ slot.started /\ slot.fd = slot.id /\ slot.part = slot.id
      /\ slot.id = req[t].id /\ slot.id \in Ids /\ slot.id < nextId
      /\ req[t].sent = slot.received /\ slot.received \in Nat /\ slot.id # 0
  BY <1>0, <1>1, OpenFile, StreamTypes DEF Sending, Found
<1>. DEFINE unit == <<slot.id, slot.received + 1>>
<1>3. PICK ok \in BOOLEAN : /\ write_all(<<unit>>, ok)
                            /\ req' = [req EXCEPT ![t].failed = ~ok]
  BY <1>2 DEF DirectIO
<1>. HIDE DEF unit
<1>4. UNCHANGED <<slot, queue, buffered, writer, nextId>> /\ SameStream
  BY <1>0, StreamSame DEF DirectIO
<1>5. /\ SameCall(t) /\ Others(t) /\ pc'[t] = "dwrote"
      /\ req'[t].failed = ~ok /\ req'[t].size = req[t].size
  <2>1. SameCall(t) /\ \A u \in Threads \ {t} : req'[u] = req[u]
    BY <1>0, LocalSteps
  <2>2. pc'[t] = "dwrote" /\ \A u \in Threads \ {t} : pc'[u] = pc[u]
    BY <1>0 DEF DirectIO, ControlOK
  <2>3. req'[t] = [req[t] EXCEPT !.failed = ~ok] /\ req[t] \in Req
    BY <1>0, <1>3, IdsAreNumbers DEF ControlOK
  <2>4. req'[t].failed = ~ok /\ req'[t].size = req[t].size
    BY <2>3, Zenon DEF Req
  <2>. QED
    BY <2>1, <2>2, <2>4 DEF Others
<1>6. /\ disk'.linked = disk.linked /\ disk'.files = disk.files
      /\ \A j \in Ids : j >= nextId => disk'.data[j] = disk.data[j]
      /\ ok => disk'.data[slot.part] = disk.data[slot.part] \o <<unit>>
  BY <1>2, <1>3, StreamTypes, FileWritten
<1>7. Sending(t)'
  BY <1>1, <1>4, <1>5 DEF Sending, Found, SameCall, SameRequest
<1>8. Client(t)' /\ req'[t].op # "prepare"
  BY <1>1, <1>4, <1>5, <1>7, ClientGoto
<1>9. StreamSlot' /\ RingInv' /\ PartInv' /\ FilesInv'
  BY <1>0, <1>2, <1>4, <1>6 DEF Store, StreamSlot, RingInv, PartInv, FilesInv, GoodFile, Quiet, Busy
<1>10. StreamData'
  <2>. SUFFICES ASSUME ~writer.error PROVE Written'
    BY <1>1, <1>4 DEF StreamData
  <2>1. ASSUME NEW u \in Threads, pc'[u] = "dwrote", ~req'[u].failed
        PROVE  disk'.data[slot.part] = Genuine(slot.id, slot.received + 1)
    <3>1. u = t
      BY <1>0, <1>1, <1>5, <2>1, NobodyWrites DEF Others
    <3>2. ok
      BY <1>5, <2>1, <3>1
    <3>3. \A v \in Threads : pc[v] # "dwrote"
      BY <1>0, <1>1, NobodyWrites
    <3>4. disk.data[slot.part] = Genuine(slot.id, slot.received)
      BY <1>0, <1>1, <1>2, <3>3 DEF Store, StreamData, Written
    <3>5. Genuine(slot.id, slot.received) \o <<unit>> = Genuine(slot.id, slot.received + 1)
      <4>1. <<unit>> = Piece(slot.id, slot.received, 1)
        BY <1>2 DEF Piece, unit
      <4>. QED
        BY <1>2, <4>1, GenuineGrows
    <3>. QED
      BY <1>6, <3>2, <3>4, <3>5
  <2>. QED
    BY <1>4, <1>5, <2>1 DEF Written
<1>11. Store'
  BY <1>9, <1>10 DEF Store
<1>. QED
  BY <1>1, <1>2, <1>4, <1>5, <1>8, <1>11, WholeStep

(* upload_write_direct counts the unit it wrote.                           *)
LEMMA StreamCounts ==
    ASSUME Settled, StreamInv, NEW t \in Threads, DirectEnd(t)
    PROVE  Whole'
<1>0. /\ Client(t) /\ Handler(t) /\ slot \in Slot /\ writer \in Writer /\ Inv /\ Store
      /\ req[t].op = "dwrite" /\ pc[t] = "dwrote" /\ ~slot.stale
  BY StreamHandler, StreamTypes DEF DirectEnd, Handler, Store, StreamSlot
<1>1. Sending(t) /\ Streams(t) /\ req[t].kind = "direct" /\ slot.direct
  BY <1>0 DEF Client, Sending, Streams, BodyOps
<1>2. /\ slot.occupied /\ slot.started /\ slot.fd = slot.id
      /\ slot.id = req[t].id /\ req[t].sent = slot.received /\ slot.received \in Nat /\ slot.id # 0
  BY <1>0, <1>1, OpenFile, StreamTypes DEF Sending, Found
<1>3. UNCHANGED <<queue, buffered, disk, nextId>>
  BY DEF DirectEnd
<1>. DEFINE n == IF slot.writes > 0 THEN slot.writes - 1 ELSE 0
            r == IF req[t].failed THEN slot.received ELSE slot.received + 1
<1>4. /\ slot' = IF req[t].failed
                 THEN [slot EXCEPT !.writes = n]
                 ELSE [slot EXCEPT !.writes = n, !.received = r, !.stale = FALSE]
      /\ writer' = IF req[t].failed THEN [writer EXCEPT !.error = TRUE] ELSE writer
      /\ IF req[t].failed THEN Call(t, "abort", 0) ELSE Call(t, BodyOp(t, r), r)
  BY <1>0, <1>2 DEF DirectEnd, Slot
<1>5. /\ slot'.started = slot.started /\ ~slot'.stale /\ slot'.sha = slot.sha
      /\ slot'.fd = slot.fd /\ SameUpload
      /\ slot'.transport = slot.transport /\ slot'.direct = slot.direct
      /\ slot'.received = r
  <2>. HIDE DEF n
  <2>. QED
    BY <1>0, <1>4 DEF Slot, SameUpload
<1>6. writer'.pc = writer.pc /\ (req[t].failed => writer'.error)
      /\ (~req[t].failed => writer' = writer)
  BY <1>0, <1>4 DEF Writer
<1>. HIDE DEF n
<1>7. Client(t)' /\ req'[t].op # "prepare" /\ Others(t) /\ pc'[t] = "call"
  <2>0. \A op, k : Call(t, op, k) => Found(t)'
    BY <1>1, <1>5, StreamTypes, CallEffect DEF Found, SameUpload, SameRequest, Streams
  <2>1. CASE req[t].failed
    <3>1. Found(t)' => Found(t) /\ slot'.started
      BY <1>1, <1>2, <1>5 DEF Streams
    <3>. QED
      BY <1>0, <1>4, <2>1, <3>1, ClientAbort DEF EndOps, BodyOps
  <2>2. CASE ~req[t].failed
    <3>1. PICK op \in BodyOps : Call(t, op, r) /\ op \notin {"enable", "write"}
      BY <1>1, <1>4, <2>2, BodyOpKind
    <3>. QED
      BY <1>1, <1>2, <1>5, <2>0, <3>1, ClientNext DEF SameUpload, Sending
  <2>. QED
    BY <2>1, <2>2
<1>8. \A u \in Threads : pc'[u] # "dwrote"
  BY <1>1, <1>7, NobodyWrites DEF Others
<1>9. StreamSlot' /\ RingInv' /\ PartInv' /\ FilesInv'
  BY <1>0, <1>1, <1>2, <1>3, <1>5, <1>6
     DEF SameUpload, Store, StreamSlot, RingInv, PartInv, FilesInv, GoodFile, Quiet, Busy
<1>10. StreamData'
  <2>. SUFFICES ASSUME ~writer'.error PROVE Written'
    BY <1>1, <1>5 DEF StreamData
  <2>1. ~req[t].failed /\ ~writer.error
    BY <1>6
  <2>2. disk.data[slot.part] = Genuine(slot.id, slot.received + 1)
    BY <1>0, <1>1, <1>2, <2>1 DEF Store, StreamData, Written
  <2>. QED
    BY <1>3, <1>5, <1>8, <2>1, <2>2 DEF Written, SameUpload
<1>11. Store'
  BY <1>9, <1>10 DEF Store
<1>. QED
  BY <1>1, <1>2, <1>5, <1>7, <1>11, WholeStep DEF SameUpload
-----------------------------------------------------------------------------
(* Publication.                                                            *)

(* What is published is the whole file.                                    *)
LEMMA StreamComplete ==
    ASSUME Settled, StreamInv, NEW t \in Threads, Drain(t) \/ HashedPublish(t)
    PROVE  /\ Streams(t) /\ pc[t] \in {"drain", "hashed"} /\ slot.occupied /\ slot.started
           /\ Quiet /\ slot.fd # 0
           /\ disk.data[slot.part] = Genuine(slot.id, slot.size)
<1>0. /\ Client(t) /\ Handler(t) /\ Store /\ req[t].op = "finish" /\ pc[t] \in {"drain", "hashed"}
  BY StreamHandler, StreamTypes DEF Drain, HashedPublish, At, Handler
<1>1. Sending(t) /\ Streams(t)
  BY <1>0 DEF Client, Sending, Streams, BodyOps
<1>2. slot.occupied /\ slot.started /\ slot.fd # 0 /\ slot.received \in Nat
  BY <1>0, <1>1, OpenFile, StreamTypes
<1>3. CASE Drain(t)
  <2>1. pc[t] = "drain" /\ ~slot.direct /\ buffered = <<>> /\ queue = <<>> /\ ~Busy /\ ~writer.error
        /\ slot.received = slot.size
    BY <1>1, <1>3 DEF Drain, At, Drained, Sending, Busy
  <2>2. Backlog
    BY <1>0, <1>2, <2>1 DEF Store, StreamData, Busy
  <2>3. PICK at \in [1..1 -> 0..slot.received] :
           /\ disk.data[slot.part] = Genuine(slot.id, at[1])
           /\ buffered = Piece(slot.id, at[1], slot.received - at[1])
    BY <2>1, <2>2 DEF Backlog, Carries, Busy
  <2>4. at[1] \in Nat /\ slot.received - at[1] \in Nat
    BY <1>2, <2>3
  <2>5. slot.received - at[1] = 0
    <3>1. Len(buffered) = slot.received - at[1]
      BY <2>3, <2>4, PieceType
    <3>. QED
      BY <2>1, <3>1
  <2>6. at[1] = slot.received
    BY <1>2, <2>4, <2>5
  <2>. QED
    BY <1>1, <1>2, <2>1, <2>3, <2>6 DEF Quiet
<1>4. CASE HashedPublish(t)
  <2>1. pc[t] = "hashed" /\ slot.direct /\ ~writer.error /\ slot.received = slot.size
    BY <1>1, <1>4 DEF HashedPublish, Sending
  <2>2. \A u \in Threads : pc[u] # "dwrote"
    BY <1>1, <2>1, NobodyWrites
  <2>. QED
    BY <1>0, <1>1, <1>2, <2>1, <2>2 DEF Store, StreamSlot, StreamData, Written
<1>. QED
  BY <1>3, <1>4

(* A publication keeps what is published whole.                            *)
LEMMA StreamPublishes ==
    ASSUME Settled, StreamInv, NEW t \in Threads, Drain(t) \/ HashedPublish(t)
    PROVE  Whole'
<1>0. /\ slot \in Slot /\ Inv /\ Store /\ disk.data \in [Ids -> Seq(Unit)] /\ ~slot.stale
  BY StreamTypes DEF Store, StreamSlot
<1>1. /\ Streams(t) /\ pc[t] \in {"drain", "hashed"} /\ slot.occupied /\ slot.started
      /\ Quiet /\ slot.fd # 0
      /\ disk.data[slot.part] = Genuine(slot.id, slot.size)
  BY StreamComplete
<1>2. PICK digest : PublishOk(t, digest) \/ PublishFail(t, digest)
  BY DEF Drain, HashedPublish
<1>3. UNCHANGED <<chunk, queue, buffered, writer, nextId>>
  BY <1>2 DEF PublishOk, PublishFail
<1>4. SameStream
  <2>1. SameUpload
    BY <1>0, <1>2, FinishSlot
  <2>2. \/ \E fd : slot' = [slot EXCEPT !.fd = fd]
        \/ \E fd, f : slot' = [slot EXCEPT !.fd = fd, !.finalizing = f]
    BY <1>2 DEF PublishOk, PublishFail
  <2>. QED
    BY <1>0, <2>1, <2>2 DEF Slot, SameStream
<1>5. \/ slot'.fd = 0 /\ PublishOk(t, digest)
      \/ disk' = disk /\ ClearThen(t, TRUE, "return")
  BY <1>0, <1>2, PublishedDisk DEF PublishFail
<1>6. /\ disk'.linked \subseteq disk.linked
      /\ PublishOk(t, digest) => slot.part \notin disk'.linked /\ ClearThen(t, FALSE, "return")
  BY <1>0, <1>5, PublishedDisk DEF PublishOk
<1>7. PICK remove : /\ ClearThen(t, remove, "return")
                    /\ ~remove => slot'.fd = 0 /\ slot'.part \notin disk'.linked
  <2>1. slot'.part = slot.part
    BY <1>4 DEF SameStream, SameUpload
  <2>2. CASE PublishOk(t, digest)
    <3>1. slot'.fd = 0 /\ slot'.part \notin disk'.linked /\ ClearThen(t, FALSE, "return")
      BY <1>0, <1>6, <2>1, <2>2, PublishedDisk
    <3>. QED
      BY <3>1
  <2>3. CASE ClearThen(t, TRUE, "return")
    BY <2>3
  <2>. QED
    BY <1>5, <2>2, <2>3
<1>8. /\ Client(t)' /\ Streams(t)' /\ req'[t].op # "prepare"
      /\ Others(t) /\ pc'[t] = "clear"
  BY <1>1, <1>4, <1>7, ClientClear
<1>9. StreamSlot' /\ RingInv'
  BY <1>0, <1>1, <1>3, <1>4, <1>8
     DEF Store, StreamSlot, RingInv, SameStream, SameUpload, Quiet, Busy
<1>10. PartInv'
  <2>1. \A i \in Ids : disk.data[i] = <<>> => disk'.data[i] = <<>>
    BY <1>0, <1>5, PublishedDisk
  <2>2. slot'.part = slot.part /\ nextId' = nextId
    BY <1>3, <1>4 DEF SameStream, SameUpload
  <2>3. disk'.linked \subseteq disk.linked
    BY <1>6
  <2>. QED
    BY <1>0, <2>1, <2>2, <2>3 DEF Store, PartInv
<1>11. FilesInv'
  <2>1. CASE PublishOk(t, digest)
    BY <1>0, <1>1, <2>1, PublishedGood DEF Store, StreamSlot
  <2>2. CASE disk' = disk
    BY <1>0, <1>3, <1>4, <2>2 DEF Store, FilesInv, GoodFile, SameStream, SameUpload
  <2>. QED
    BY <1>5, <2>1, <2>2
<1>12. StreamData'
  <2>1. CASE slot'.fd = 0
    BY <2>1 DEF StreamData
  <2>2. CASE slot'.fd # 0
    <3>1. slot'.fd = slot.fd /\ disk' = disk
      BY <1>4, <1>5, <2>2 DEF SameStream, SameUpload
    <3>2. Written => Written'
      <4>1. \A u \in Threads : pc[u] # "dwrote" /\ pc'[u] # "dwrote"
        BY <1>1, <1>8, NobodyWrites DEF Others
      <4>. QED
        BY <1>4, <3>1, <4>1 DEF Written, SameStream, SameUpload
    <3>3. Backlog => Backlog'
      BY <1>3, <1>4, <3>1 DEF Backlog, Carries, SameStream, SameUpload
    <3>. QED
      BY <1>0, <1>1, <1>3, <1>4, <3>1, <3>2, <3>3 DEF Store, StreamData, SameStream, SameUpload
  <2>. QED
    BY <2>1, <2>2
<1>13. Store'
  BY <1>9, <1>10, <1>11, <1>12 DEF Store
<1>. QED
  BY <1>1, <1>4, <1>8, <1>13, WholeStep DEF SameStream, SameUpload
-----------------------------------------------------------------------------
(* clear_slot.                                                             *)

(* The writer is told to discard, and waited for.                          *)
LEMMA StreamDiscards ==
    ASSUME Settled, StreamInv, NEW t \in Threads, ClearWait(t)
    PROVE  Whole'
<1>0. /\ Client(t) /\ slot \in Slot /\ writer \in Writer /\ Inv /\ ControlOK /\ Store
      /\ pc[t] = "clear" /\ Busy /\ ~slot.stale
  BY StreamHandler, StreamTypes DEF ClearWait, Busy, Store, StreamSlot
<1>1. Streams(t) /\ Clearing(t) /\ req[t].op # "prepare" /\ slot.occupied /\ slot.started
  BY <1>0 DEF Client, Clearing, Store, StreamSlot, Quiet, Streams, Found
<1>2. slot.fd # 0 /\ req[t].remove
  BY <1>0, <1>1 DEF Clearing, Store, StreamSlot, Quiet
<1>3. UNCHANGED <<req, slot, queue, buffered, disk, nextId>> /\ SameStream
  BY <1>0, StreamSame DEF ClearWait
<1>4. pc'[t] = "clearing" /\ Others(t)
  BY <1>0, <1>3, GotoEffect DEF ClearWait, Others
<1>5. /\ writer'.pc = writer.pc /\ writer'.job = writer.job /\ writer'.data = writer.data
      /\ writer'.failed = writer.failed /\ writer'.error = writer.error
  <2>1. writer' = [writer EXCEPT !.discard = TRUE]
    BY DEF ClearWait
  <2>. QED
    BY <1>0, <2>1 DEF Writer
<1>6. Client(t)' /\ req'[t].op # "prepare"
  BY <1>0, <1>1, <1>2, <1>3, <1>4, <1>5 DEF Client, Sending, Clearing, Streams, Found
<1>7. StreamSlot' /\ RingInv' /\ PartInv' /\ FilesInv'
  BY <1>0, <1>1, <1>2, <1>3, <1>5
     DEF Store, StreamSlot, RingInv, PartInv, FilesInv, GoodFile, Quiet, Busy
<1>8. StreamData'
  <2>1. \A u \in Threads : pc[u] # "dwrote" /\ pc'[u] # "dwrote"
    BY <1>0, <1>1, <1>4, NobodyWrites DEF Others
  <2>2. Written => Written'
    BY <1>3, <2>1 DEF Written
  <2>3. Backlog => Backlog'
    BY <1>3, <1>5 DEF Backlog, Carries
  <2>. QED
    BY <1>0, <1>3, <1>5, <2>2, <2>3 DEF Store, StreamData
<1>9. Store'
  BY <1>7, <1>8 DEF Store
<1>. QED
  BY <1>1, <1>3, <1>4, <1>6, <1>9, WholeStep

(* The slot is emptied.                                                    *)
LEMMA StreamCleared ==
    ASSUME Settled, StreamInv, NEW t \in Threads, clear_slot(t)
    PROVE  Whole'
<1>0. /\ Client(t) /\ Inv /\ Store /\ disk \in Disk /\ writer \in Writer /\ ~IsChunk(t)
      /\ pc[t] \in {"clear", "clearing"} /\ ~Busy
  BY StreamHandler, StreamTypes DEF clear_slot, Busy, IsChunk
<1>1. /\ Clearing(t) /\ req[t].then = "return"
      /\ Streams(t) \/ req[t].op = "prepare"
      /\ req[t].remove \/ slot.part \notin disk.linked
  BY <1>0 DEF Client, Clearing
<1>2. EmptyManager(req[t].remove)
  BY DEF clear_slot
<1>3. /\ slot' = EmptySlot /\ queue' = <<>> /\ buffered' = <<>> /\ nextId' = nextId
      /\ ~slot'.occupied
  BY <1>2 DEF EmptyManager, EmptySlot
<1>4. ~Busy' /\ ~writer'.error
  <2>1. writer' = [writer EXCEPT !.error = FALSE, !.discard = FALSE]
    BY <1>2 DEF EmptyManager
  <2>. QED
    BY <1>0, <2>1 DEF Busy, Writer
<1>5. /\ disk'.files = disk.files /\ disk'.linked = {}
      /\ \A j \in Ids : disk.data[j] = <<>> => disk'.data[j] = <<>>
  BY <1>0, <1>1, <1>2, EmptiedDisk DEF Store
<1>6. Client(t)' /\ req'[t].op # "prepare" /\ Others(t)
  <2>1. \/ Return(t)
        \/ req[t].op = "abort" /\ Call(t, "reabort", 0)
    <3>1. AfterClear(t)
      BY DEF clear_slot
    <3>2. AfterCall(t)
      BY <1>1, <3>1 DEF AfterClear
    <3>. QED
      BY <1>0, <3>2 DEF AfterCall
  <2>2. CASE Return(t)
    BY <2>2, ClientReturn
  <2>3. CASE req[t].op = "abort" /\ Call(t, "reabort", 0)
    <3>1. ~Found(t)'
      BY <1>3 DEF Found
    <3>. QED
      BY <2>3, <3>1, ClientAbort DEF EndOps
  <2>. QED
    BY <2>1, <2>2, <2>3
<1>7. Store'
  <2>1. StreamSlot' /\ RingInv' /\ StreamData'
    BY <1>3, <1>4 DEF EmptySlot, StreamSlot, RingInv, StreamData, Quiet, Busy
  <2>2. PartInv' /\ FilesInv'
    BY <1>0, <1>3, <1>5 DEF Store, PartInv, FilesInv, GoodFile
  <2>. QED
    BY <2>1, <2>2 DEF Store
<1>. QED
  BY <1>1, <1>3, <1>6, <1>7, WholeStep
-----------------------------------------------------------------------------
(* upload_prepare, and the requests of the clients.                        *)

(* A preparation takes the empty slot, or undoes itself.                   *)
LEMMA StreamPrepares ==
    ASSUME Settled, StreamInv, NEW t \in Threads, PrepareOk(t) \/ PrepareUndo(t)
    PROVE  Whole'
<1>0. /\ slot \in Slot /\ Inv /\ Store /\ nextId \in Nat /\ disk.files \in [Names -> File]
      /\ ControlOK /\ Client(t)
  BY StreamTypes, StreamHandler
<1>1. req[t].op = "prepare" /\ ~slot.occupied /\ pc[t] # "dwrote"
  BY DEF PrepareOk, PrepareUndo, CanPrepare, Body
<1>2. /\ slot.part \in {0, nextId} /\ ~slot.started /\ Quiet /\ ~writer.error
      /\ slot.received = 0 /\ ~slot.direct /\ ~slot.transport /\ ~slot.stale
  BY <1>0, <1>1 DEF Store, StreamSlot
<1>3. /\ disk'.linked = {nextId} /\ disk'.data = disk.data /\ disk'.files = disk.files
      /\ nextId \in Ids /\ nextId # 0 /\ disk.data[nextId] = <<>>
  BY <1>0, <1>2, PreparedPart DEF Store
<1>4. /\ slot'.id = nextId /\ slot'.part = nextId /\ slot'.fd = nextId
      /\ PrepareOk(t) \/ ~slot'.occupied
  BY <1>0, PrepareSlot
<1>5. UNCHANGED <<queue, buffered, writer>>
  BY DEF PrepareOk, PrepareUndo
<1>6. /\ slot'.started = slot.started /\ slot'.received = slot.received
      /\ slot'.direct = slot.direct /\ slot'.transport = slot.transport /\ ~slot'.stale
      /\ slot'.sha = slot.sha
  <2>1. CASE PrepareOk(t)
    <3>1. PICK name : slot' = [slot EXCEPT
             !.occupied = TRUE, !.id = nextId, !.part = nextId, !.fd = nextId,
             !.auth = req[t].auth, !.size = req[t].size, !.hash = req[t].hash,
             !.name = name, !.stale = FALSE]
      BY <2>1 DEF PrepareOk
    <3>. QED
      BY <1>0, <3>1 DEF Slot
  <2>2. CASE PrepareUndo(t)
    <3>1. PICK name : slot' = [slot EXCEPT
             !.part = nextId, !.fd = nextId, !.id = nextId, !.name = name]
      BY <2>2 DEF PrepareUndo
    <3>. QED
      BY <1>0, <1>2, <3>1 DEF Slot
  <2>. QED
    BY <2>1, <2>2
<1>7. Quiet'
  BY <1>2, <1>5 DEF Quiet, Busy
<1>8. nextId' \in {nextId, nextId + 1} /\ (slot'.occupied => nextId' = nextId + 1)
      /\ (~slot'.occupied => nextId' = nextId)
  <2>1. CASE PrepareOk(t)
    BY <1>0, <2>1, PrepareSlot DEF PrepareOk
  <2>2. CASE PrepareUndo(t) /\ ~PrepareOk(t)
    BY <1>4, <2>2 DEF PrepareUndo
  <2>. QED
    BY <2>1, <2>2
<1>9. Client(t)' /\ Others(t) /\ (req'[t].op = "prepare" => req[t].op = "prepare")
  <2>1. CASE PrepareOk(t)
    BY <1>1, <2>1, ClientReturn DEF PrepareOk
  <2>2. CASE PrepareUndo(t) /\ ~PrepareOk(t)
    <3>1. ClearThen(t, TRUE, "return") /\ ~slot'.occupied
      BY <1>4, <2>2 DEF PrepareUndo
    <3>2. /\ req'[t].then = "return" /\ req'[t].remove
          /\ SameCall(t) /\ Others(t) /\ pc'[t] = "clear"
      BY <3>1, ClearCall
    <3>. QED
      BY <1>0, <1>1, <3>1, <3>2
         DEF Client, Clearing, SameCall, SameRequest, Streams, BodyOps, EndOps
  <2>. QED
    BY <2>1, <2>2
<1>10. StreamSlot' /\ RingInv'
  BY <1>0, <1>2, <1>3, <1>4, <1>5, <1>6, <1>7, <1>8 DEF StreamSlot, RingInv, Quiet
<1>11. PartInv'
  <2>1. \A j \in Ids : j \in Nat
    BY SizesAssumption DEF Ids
  <2>. QED
    BY <1>0, <1>3, <1>4, <1>8, <2>1 DEF Store, PartInv
<1>12. FilesInv'
  <2>. SUFFICES ASSUME NEW n \in Names, NEW f, f = disk'.files[n] PROVE GoodFile(f)'
    BY DEF FilesInv, GoodFile
  <2>1. GoodFile(disk.files[n])
    BY <1>0 DEF Store, FilesInv
  <2>2. disk.files[n].id \in Ids \cup {0}
    BY <1>0 DEF File
  <2>3. \A j \in Ids \cup {0} : j \in Nat
    BY SizesAssumption DEF Ids
  <2>4. disk.files[n].id \in Nat
    BY <2>2, <2>3, Zenon
  <2>5. nextId' >= nextId
    BY <1>0, <1>8
  <2>6. f = disk.files[n]
    BY <1>3
  <2>. QED
    BY <1>0, <1>4, <1>8, <2>1, <2>4, <2>5, <2>6 DEF GoodFile
<1>13. StreamData'
  <2>1. Backlog'
    <3>1. PICK at \in [1..1 -> 0..0] : at[1] = 0
      <4>1. [k \in 1..1 |-> 0] \in [1..1 -> 0..0] /\ [k \in 1..1 |-> 0][1] = 0
        OBVIOUS
      <4>. QED
        BY <4>1
    <3>2. queue' = <<>> /\ buffered' = <<>> /\ slot'.received = 0 /\ writer'.pc # "wrote"
      BY <1>2, <1>5, <1>6 DEF Quiet, Busy
    <3>3. Genuine(nextId, 0) = <<>> /\ Piece(nextId, 0, 0) = <<>>
      BY GenuineEmpty DEF Piece
    <3>4. Carries(at)'
      BY <1>3, <1>4, <3>1, <3>2, <3>3 DEF Carries
    <3>. QED
      BY <3>1, <3>2, <3>4 DEF Backlog
  <2>. QED
    BY <1>2, <1>6, <2>1 DEF StreamData
<1>14. Store'
  BY <1>10, <1>11, <1>12, <1>13 DEF Store
<1>. QED
  BY <1>1, <1>4, <1>9, <1>14, WholeStep

(* A new request, or a connection that ends early.                         *)
LEMMA StreamRequested ==
    ASSUME Settled, StreamInv, NEW t \in Threads, InputOnly(t)
    PROVE  Whole'
<1>0. Client(t) /\ Clients /\ ControlOK /\ req[t] \in Req /\ ~slot.stale /\ ~IsChunk(t)
  BY StreamHandler, StreamTypes DEF Store, StreamSlot, IsChunk
<1>1. /\ UNCHANGED <<slot, queue, buffered, writer, disk, nextId>>
      /\ pc[t] \in {"idle", "call"} /\ pc'[t] = "call"
      /\ \A u \in Threads \ {t} : pc'[u] = pc[u]
  BY <1>0 DEF InputOnly, Request, Drop, dataVars, ControlOK
<1>2. SameStream /\ slot'.fd = slot.fd
  BY <1>0, <1>1, StreamSame
<1>3. CASE Request(t)
  <2>0. PICK kind \in Kinds : \E r \in Parameters(kind) :
           /\ kind = "prepare" => Turn
           /\ HonestSize(r)
           /\ req' = [req EXCEPT ![t] = [NoReq EXCEPT
                     !.kind = kind, !.op = r.op, !.id = r.id, !.auth = r.auth,
                     !.size = r.size, !.hash = r.hash, !.idx = r.idx]]
    BY <1>3 DEF Request
  <2>1. PICK r \in Parameters(kind) :
           /\ kind = "prepare" => Turn
           /\ HonestSize(r)
           /\ req' = [req EXCEPT ![t] = [NoReq EXCEPT
                     !.kind = kind, !.op = r.op, !.id = r.id, !.auth = r.auth,
                     !.size = r.size, !.hash = r.hash, !.idx = r.idx]]
    BY <2>0
  <2>. DEFINE new == [NoReq EXCEPT
                        !.kind = kind, !.op = r.op, !.id = r.id, !.auth = r.auth,
                        !.size = r.size, !.hash = r.hash, !.idx = r.idx]
  <2>2. new.kind = kind /\ new.op = r.op /\ new.id = r.id /\ new.size = r.size
    BY DEF NoReq
  <2>3. r.op = FirstOp(kind)
    BY DEF Parameters
  <2>4. req' = [req EXCEPT ![t] = new]
    BY <2>1
  <2>. HIDE DEF new
  <2>5. req'[t] = new /\ \A u \in Threads \ {t} : req'[u] = req[u]
    BY <1>0, <2>4 DEF ControlOK
  <2>6. /\ r.op \in {"prepare", "begin", "status"} /\ (kind = "prepare" <=> r.op = "prepare")
    BY <2>3 DEF FirstOp, Settled
  <2>7. kind = "prepare" => ~slot.occupied /\ \A u \in Threads : req[u].op # "prepare"
    BY <1>0, <2>1 DEF Turn, Settled, Clients, Client
  <2>8. r.op = "begin" /\ slot.occupied /\ r.id = slot.id => r.size = slot.size
    BY <2>1 DEF HonestSize, Settled
  <2>9. Client(t)' /\ ~Streams(t)'
    BY <1>1, <2>2, <2>5, <2>6, <2>7, <2>8
       DEF Client, Streams, Found, StreamOps, BodyOps, EndOps
  <2>. QED
    BY <1>1, <1>2, <2>2, <2>5, <2>6, <2>7, <2>9, WholeSame DEF Others
<1>4. CASE Drop(t)
  <2>1. /\ req[t].op \in BodyOps
        /\ req' = [req EXCEPT ![t] = [req[t] EXCEPT !.op = "reabort", !.sent = 0]]
    BY <1>0, <1>4 DEF Drop, BodyOps, Client, StreamOps, EndOps
  <2>2. req'[t] = [req[t] EXCEPT !.op = "reabort", !.sent = 0]
        /\ \A u \in Threads \ {t} : req'[u] = req[u]
    BY <1>0, <2>1 DEF ControlOK
  <2>3. req'[t].op = "reabort" /\ req'[t].id = req[t].id /\ req'[t].kind = req[t].kind
    BY <1>0, <2>2 DEF Req
  <2>4. Streams(t) /\ Client(t)'
    BY <1>0, <1>1, <2>1, <2>3 DEF Client, Streams, Sending, Found, BodyOps, EndOps
  <2>. QED
    BY <1>1, <1>2, <2>2, <2>3, <2>4, WholeSame DEF Others
<1>. QED
  BY <1>3, <1>4 DEF InputOnly
-----------------------------------------------------------------------------
(* The writer, and the steps outside the handlers.                         *)

(* The clients do not move.                                                *)
LEMMA ClientsStay ==
    ASSUME StreamInv, UNCHANGED <<pc, req, slot, buffered>>, disk'.linked = disk.linked,
           slot.direct => writer'.error = writer.error
    PROVE  Clients' /\ Alone'
<1>0. Clients /\ Alone
  BY StreamTypes
<1>1. \A t \in Threads : Streams(t)' <=> Streams(t)
  BY DEF Streams, Found
<1>2. \A t \in Threads : Sending(t) => Sending(t)'
  BY DEF Sending, Found
<1>3. \A t \in Threads : Clearing(t) => Clearing(t)'
  BY <1>1 DEF Clearing
<1>4. Clients'
  BY <1>0, <1>1, <1>2, <1>3 DEF Clients, Client, Found
<1>. QED
  BY <1>0, <1>1, <1>4 DEF Alone

(* The slot keeps its upload, and its state as long as the ring is as      *)
(* empty as it was.                                                        *)
LEMMA SlotStays ==
    ASSUME StreamInv, UNCHANGED <<pc, req, slot, nextId>>,
           Quiet => Quiet' /\ writer'.error = writer.error
    PROVE  StreamSlot'
<1>1. StreamSlot /\ \A t \in Threads : Streams(t)' <=> Streams(t)
  BY StreamTypes DEF Store, Streams, Found
<1>. QED
  BY <1>1 DEF StreamSlot

(* Nothing but the writer's flags, or a file of another process, changes.  *)
LEMMA StoreStays ==
    ASSUME StreamInv, UNCHANGED <<pc, req, slot, queue, buffered, nextId>>,
           disk'.linked = disk.linked, disk'.data = disk.data, FilesInv',
           writer'.pc = writer.pc \/ (~Busy /\ writer'.pc = "exited"),
           writer'.job = writer.job, writer'.data = writer.data,
           writer'.failed = writer.failed, writer'.error = writer.error
    PROVE  Whole'
<1>0. Store
  BY StreamTypes
<1>1. Clients' /\ Alone'
  BY ClientsStay
<1>2. StreamSlot'
  BY SlotStays DEF Quiet, Busy
<1>3. RingInv' /\ PartInv'
  BY <1>0 DEF Store, RingInv, PartInv, Busy
<1>4. StreamData'
  <2>1. Written => Written'
    BY DEF Written
  <2>2. Backlog => Backlog'
    BY DEF Backlog, Carries, Busy
  <2>. QED
    BY <1>0, <2>1, <2>2 DEF Store, StreamData, Busy
<1>. QED
  BY <1>1, <1>2, <1>3, <1>4 DEF Whole, Store

(* When something waits or is written, a buffered stream is under way.     *)
LEMMA RingOpen ==
    ASSUME StreamInv, ~Quiet
    PROVE  /\ slot.occupied /\ slot.started /\ ~slot.direct
           /\ slot.fd = slot.id /\ slot.part = slot.id /\ slot.fd # 0
           /\ slot.id \in Ids /\ slot.id < nextId
BY StreamTypes DEF Store, StreamSlot

(* The writer takes the oldest buffer and leaves it in the ring.           *)
LEMMA StreamTakes ==
    ASSUME StreamInv, WriterTake
    PROVE  Whole'
<1>0. Store /\ writer \in Writer /\ queue \in Seq(Seq(Unit)) /\ writer.pc = "idle"
  BY StreamTypes DEF WriterTake
<1>1. /\ queue # <<>>
      /\ writer' = [writer EXCEPT !.pc = "writing", !.job = "queue", !.data = Head(queue)]
  BY <1>0 DEF WriterTake, chunk_ready, Store, StreamSlot
<1>2. /\ writer'.pc = "writing" /\ writer'.job = "queue" /\ writer'.data = Head(queue)
      /\ writer'.error = writer.error
  BY <1>0, <1>1 DEF Writer
<1>3. UNCHANGED <<pc, req, slot, queue, buffered, disk, nextId>>
  BY DEF WriterTake
<1>4. Clients' /\ Alone'
  BY <1>2, <1>3, ClientsStay
<1>5. StreamSlot'
  BY <1>1, <1>3, SlotStays DEF Quiet
<1>6. RingInv' /\ PartInv' /\ FilesInv'
  BY <1>0, <1>1, <1>2, <1>3 DEF Store, RingInv, PartInv, FilesInv, GoodFile, Busy
<1>7. StreamData'
  <2>1. Backlog => Backlog'
    BY <1>0, <1>2, <1>3 DEF Backlog, Carries
  <2>2. ~slot.direct
    BY <1>1, RingOpen DEF Quiet
  <2>. QED
    BY <1>0, <1>2, <1>3, <2>1, <2>2 DEF Store, StreamData
<1>. QED
  BY <1>4, <1>5, <1>6, <1>7 DEF Whole, Store

(* The writer appends that buffer to the part file.                        *)
LEMMA StreamWritesQueue ==
    ASSUME StreamInv, WriterIO
    PROVE  Whole'
<1>0. /\ Store /\ writer \in Writer /\ disk \in Disk /\ queue \in Seq(Seq(Unit))
      /\ slot.received \in Nat /\ writer.pc = "writing" /\ Busy /\ ~Quiet
  BY StreamTypes DEF WriterIO, Busy, Quiet
<1>1. /\ slot.occupied /\ slot.started /\ ~slot.direct
      /\ slot.fd = slot.id /\ slot.part = slot.id /\ slot.fd # 0
      /\ slot.id \in Ids /\ slot.id < nextId
  BY <1>0, RingOpen
<1>2. writer.job = "queue" /\ queue # <<>> /\ writer.data = Head(queue)
  BY <1>0 DEF Store, RingInv
<1>3. PICK ok \in BOOLEAN : /\ write_all(writer.data, ok)
                            /\ writer' = [writer EXCEPT !.pc = "wrote", !.failed = ~ok, !.data = <<>>]
  BY DEF WriterIO
<1>4. /\ writer'.pc = "wrote" /\ writer'.job = "queue" /\ writer'.failed = ~ok
      /\ writer'.error = writer.error
  BY <1>0, <1>2, <1>3 DEF Writer
<1>5. UNCHANGED <<pc, req, slot, queue, buffered, nextId>>
  BY DEF WriterIO
<1>6. /\ disk'.linked = disk.linked /\ disk'.files = disk.files
      /\ \A j \in Ids : j >= nextId => disk'.data[j] = disk.data[j]
      /\ ok => disk'.data[slot.part] = disk.data[slot.part] \o writer.data
  BY <1>1, <1>3, StreamTypes, FileWritten
<1>7. Clients' /\ Alone'
  BY <1>4, <1>5, <1>6, ClientsStay
<1>8. StreamSlot'
  BY <1>0, <1>5, SlotStays
<1>9. RingInv' /\ PartInv' /\ FilesInv'
  BY <1>0, <1>2, <1>4, <1>5, <1>6 DEF Store, RingInv, PartInv, FilesInv, GoodFile, Busy
<1>10. StreamData'
  <2>. SUFFICES ASSUME ~writer.error, ok PROVE Backlog'
    BY <1>1, <1>4, <1>5 DEF StreamData
  <2>1. Backlog
    BY <1>0, <1>1 DEF Store, StreamData
  <2>2. PICK at \in [1..(Len(queue) + 1) -> 0..slot.received] : Carries(at)
    BY <2>1 DEF Backlog
  <2>3. Len(queue) \in Nat \ {0} /\ Head(queue) = queue[1] /\ 1 \in 1..Len(queue)
    BY <1>0, <1>2
  <2>4. /\ disk.data[slot.part] = Genuine(slot.id, at[1])
        /\ at[1] <= at[2] /\ queue[1] = Piece(slot.id, at[1], at[2] - at[1])
    <3>1. disk.data[slot.part] = Genuine(slot.id, at[1])
      BY <1>0, <2>2 DEF Carries
    <3>2. at[1] <= at[1 + 1] /\ queue[1] = Piece(slot.id, at[1], at[1 + 1] - at[1])
      BY <2>2, <2>3 DEF Carries
    <3>. QED
      BY <3>1, <3>2
  <2>5. at[1] \in Nat /\ at[2] \in Nat /\ at[2] - at[1] \in Nat /\ at[1] + (at[2] - at[1]) = at[2]
    <3>1. at[1] \in 0..slot.received /\ at[2] \in 0..slot.received
      BY <2>3
    <3>. QED
      BY <1>0, <2>4, <3>1
  <2>6. Genuine(slot.id, at[1]) \o Piece(slot.id, at[1], at[2] - at[1]) = Genuine(slot.id, at[2])
    BY <2>5, GenuineGrows
  <2>7. disk'.data[slot.part] = Genuine(slot.id, at[2])
    BY <1>2, <1>6, <2>3, <2>4, <2>6
  <2>8. Carries(at)'
    BY <1>4, <1>5, <2>2, <2>7 DEF Carries
  <2>. QED
    BY <1>5, <2>2, <2>8 DEF Backlog
<1>. QED
  BY <1>7, <1>8, <1>9, <1>10 DEF Whole, Store

(* The writer drops the buffer it has written from the ring.               *)
LEMMA StreamWrote ==
    ASSUME StreamInv, WriterDone
    PROVE  Whole'
<1>0. /\ Store /\ writer \in Writer /\ queue \in Seq(Seq(Unit))
      /\ writer.pc = "wrote" /\ Busy /\ ~Quiet
  BY StreamTypes DEF WriterDone, Busy, Quiet
<1>1. /\ slot.occupied /\ slot.started /\ ~slot.direct /\ slot.fd # 0
  BY <1>0, RingOpen
<1>2. writer.job = "queue" /\ queue # <<>>
  BY <1>0 DEF Store, RingInv
<1>3. queue' = Tail(queue) /\ UNCHANGED <<pc, req, slot, buffered, disk, nextId>>
  BY <1>2 DEF WriterDone
<1>4. writer'.pc = "idle" /\ writer'.error = (writer.error \/ writer.failed)
  BY DEF WriterDone, IdleWriter
<1>5. Clients' /\ Alone'
  BY <1>1, <1>3, ClientsStay
<1>6. StreamSlot'
  BY <1>0, <1>3, SlotStays
<1>7. RingInv' /\ PartInv' /\ FilesInv'
  BY <1>0, <1>3, <1>4 DEF Store, RingInv, PartInv, FilesInv, GoodFile, Busy
<1>8. StreamData'
  <2>. SUFFICES ASSUME ~writer.error, ~writer.failed PROVE Backlog'
    BY <1>1, <1>3, <1>4 DEF StreamData
  <2>1. Backlog
    BY <1>0, <1>1 DEF Store, StreamData
  <2>2. PICK at \in [1..(Len(queue) + 1) -> 0..slot.received] : Carries(at)
    BY <2>1 DEF Backlog
  <2>3. PICK L \in Nat : Len(queue) = L + 1 /\ Len(queue') = L
    <3>1. Len(queue) \in Nat \ {0} /\ Len(Tail(queue)) = Len(queue) - 1
      BY <1>0, <1>2
    <3>2. PICK L : L = Len(queue) - 1
      OBVIOUS
    <3>3. L \in Nat /\ Len(queue) = L + 1 /\ Len(queue') = L
      BY <1>3, <3>1, <3>2
    <3>. QED
      BY <3>3
  <2>4. PICK to \in [1..(L + 1) -> 0..slot.received] : \A k \in 1..(L + 1) : to[k] = at[k + 1]
    <3>1. at \in [1..(L + 2) -> 0..slot.received]
      BY <2>2, <2>3
    <3>2. \A k \in 1..(L + 1) : k + 1 \in 1..(L + 2)
      OBVIOUS
    <3>3. [k \in 1..(L + 1) |-> at[k + 1]] \in [1..(L + 1) -> 0..slot.received]
      BY <3>1, <3>2
    <3>. QED
      BY <3>3
  <2>5. disk'.data[slot.part] = Genuine(slot.id, to[1])
    BY <1>0, <1>3, <2>2, <2>4 DEF Carries
  <2>6. ASSUME NEW k \in 1..L
        PROVE  to[k] <= to[k + 1] /\ queue'[k] = Piece(slot.id, to[k], to[k + 1] - to[k])
    <3>1. k + 1 \in 1..Len(queue) /\ queue'[k] = queue[k + 1]
      BY <1>0, <1>2, <1>3, <2>3
    <3>2. to[k] = at[k + 1] /\ to[k + 1] = at[(k + 1) + 1]
      BY <2>4
    <3>. QED
      BY <2>2, <3>1, <3>2 DEF Carries
  <2>7. buffered = Piece(slot.id, to[L + 1], slot.received - to[L + 1])
    <3>1. to[L + 1] = at[Len(queue) + 1]
      BY <2>3, <2>4
    <3>. QED
      BY <2>2, <3>1 DEF Carries
  <2>8. Carries(to)'
    BY <1>3, <1>4, <2>3, <2>5, <2>6, <2>7 DEF Carries
  <2>. QED
    BY <1>3, <2>3, <2>8 DEF Backlog
<1>. QED
  BY <1>5, <1>6, <1>7, <1>8 DEF Whole, Store

(* Shutdown and foreign files touch no open upload.                        *)
LEMMA StreamOutside ==
    ASSUME Settled, StreamInv, OutsideStep
    PROVE  Whole'
<1>0. /\ Store /\ Clients /\ slot \in Slot /\ disk \in Disk /\ writer \in Writer
  BY StreamTypes
<1>1. UNCHANGED <<pc, req, nextId>>
  BY OutsideControl
<1>2. CASE WriterExit
  <2>1. writer' = [writer EXCEPT !.pc = "exited"] /\ ~Busy
    BY <1>2 DEF WriterExit, Busy
  <2>2. /\ writer'.pc = "exited" /\ writer'.job = writer.job /\ writer'.data = writer.data
        /\ writer'.failed = writer.failed /\ writer'.error = writer.error
    BY <1>0, <2>1 DEF Writer
  <2>3. UNCHANGED <<slot, queue, buffered, disk>> /\ FilesInv'
    BY <1>0, <1>2 DEF WriterExit, Store, FilesInv, GoodFile
  <2>. QED
    BY <1>1, <2>1, <2>2, <2>3, StoreStays
<1>3. CASE DestroyBegin
  <2>1. writer' = [writer EXCEPT !.discard = TRUE]
    BY <1>3 DEF DestroyBegin
  <2>2. /\ writer'.pc = writer.pc /\ writer'.job = writer.job /\ writer'.data = writer.data
        /\ writer'.failed = writer.failed /\ writer'.error = writer.error
    BY <1>0, <2>1 DEF Writer
  <2>3. UNCHANGED <<slot, queue, buffered, disk>> /\ FilesInv'
    BY <1>0, <1>3 DEF DestroyBegin, Store, FilesInv, GoodFile
  <2>. QED
    BY <1>1, <2>2, <2>3, StoreStays
<1>4. CASE ForeignCreate
  <2>1. FilesInv' /\ disk'.linked = disk.linked /\ disk'.data = disk.data
    BY <1>0, <1>4, ForeignFile DEF Store
  <2>. QED
    BY <1>1, <1>4, <2>1, StoreStays DEF ForeignCreate
<1>5. CASE UNCHANGED vars
  <2>1. FilesInv'
    BY <1>0, <1>5 DEF vars, Store, FilesInv, GoodFile
  <2>. QED
    BY <1>5, <2>1, StoreStays DEF vars
<1>6. CASE DestroyEnd
  <2>1. ~Busy /\ EmptyManager(TRUE) /\ AllIdle
    BY <1>6 DEF DestroyEnd, Busy, StreamInv, Joined
  <2>2. /\ slot' = EmptySlot /\ queue' = <<>> /\ buffered' = <<>> /\ ~slot'.occupied
    BY <2>1 DEF EmptyManager, EmptySlot
  <2>3. ~Busy' /\ ~writer'.error
    <3>1. writer' = [writer EXCEPT !.error = FALSE, !.discard = FALSE]
      BY <2>1 DEF EmptyManager
    <3>. QED
      BY <1>0, <2>1, <3>1 DEF Busy, Writer
  <2>4. /\ disk'.files = disk.files /\ disk'.linked = {}
        /\ \A j \in Ids : disk.data[j] = <<>> => disk'.data[j] = <<>>
    BY <1>0, <2>1, EmptiedDisk DEF Store
  <2>5. \A t \in Threads : req'[t].op = "none" /\ Client(t)'
    BY <1>0, <1>1, <2>1, <2>2
       DEF AllIdle, Clients, Client, Streams, Found, StreamOps, BodyOps, EndOps
  <2>6. Clients' /\ Alone'
    BY <2>5 DEF Clients, Alone, Streams, BodyOps, EndOps
  <2>7. Store'
    BY <1>0, <1>1, <2>2, <2>3, <2>4
       DEF Store, EmptySlot, StreamSlot, RingInv, StreamData, Quiet, Busy, PartInv, FilesInv,
           GoodFile
  <2>. QED
    BY <2>6, <2>7 DEF Whole
<1>7. CASE LeaseExpires
  BY <1>7 DEF LeaseExpires, Settled
<1>. QED
  BY <1>2, <1>3, <1>4, <1>5, <1>6, <1>7, StreamTakes, StreamWritesQueue, StreamWrote
     DEF OutsideStep, WriterStep
-----------------------------------------------------------------------------
(* StreamInv is inductive.                                                 *)

(* The manager stays up while a handler runs.                              *)
LEMMA StreamJoined ==
    ASSUME Settled, StreamInv, [Next]_vars
    PROVE  Joined'
<1>1. ASSUME NEW t \in Threads, ThreadNext(t)
      PROVE  Joined'
  <2>1. life = "up"
    BY <1>1, StreamSteps
  <2>2. life' = life
    <3>1. CASE PrepareRefuse(t) \/ PrepareUndo(t) \/ PrepareOk(t) \/ Abort(t) \/ Status(t)
               \/ ClearWait(t) \/ clear_slot(t) \/ InputOnly(t)
      BY <3>1 DEF PrepareRefuse, PrepareUndo, PrepareOk, Abort, Status, ClearWait, clear_slot,
                  InputOnly, Request, Drop, dataVars
    <3>2. CASE StreamStep(t)
      BY <3>2 DEF StreamStep, BeginOk, BeginRefused, EnableOk, EnableRefused, WriteWait,
                  WriteCopy, WriteFail, DirectBegin, DirectRefused, DirectIO, DirectEnd, dataVars
    <3>3. CASE FinishOnly(t)
      BY <3>3 DEF FinishOnly, FinishRefused, FinishDirect, FlushNothing, Flush, DrainFail, Drain,
                  hash_part_file, HashedLost, HashedError, HashedPublish, PublishOk, PublishFail,
                  dataVars
    <3>. QED
      BY <1>1, <3>1, <3>2, <3>3, StreamSteps
  <2>. QED
    BY <2>1, <2>2 DEF Joined
<1>2. CASE OutsideStep
  <2>1. pc' = pc
    BY <1>2, OutsideControl
  <2>2. life' = life \/ AllIdle
    BY <1>2 DEF OutsideStep, WriterStep, WriterTake, WriterIO, WriterDone, WriterExit,
                LeaseExpires, ForeignCreate, DestroyBegin, DestroyEnd, StreamInv, Joined, vars
  <2>. QED
    BY <2>1, <2>2 DEF StreamInv, Joined, AllIdle
<1>. QED
  BY <1>1, <1>2, NextCases

(* Every step keeps the invariant.                                         *)
LEMMA StreamNext ==
    ASSUME Settled
    PROVE  StreamInv /\ [Next]_vars => StreamInv'
<1>. SUFFICES ASSUME StreamInv, [Next]_vars PROVE StreamInv'
  OBVIOUS
<1>1. Control'
  BY ControlNext DEF StreamInv
<1>2. ASSUME NEW t \in Threads, ThreadNext(t)
      PROVE  Whole'
  <2>1. CASE StreamStep(t)
    BY <1>2, <2>1, StreamSteps, StreamRefused, StreamWaits, StreamBegins, StreamEnables,
       StreamCopies, StreamWritesOut, StreamCounts
       DEF StreamStep
  <2>2. CASE FinishOnly(t)
    <3>1. CASE Flush(t)
      BY <3>1, StreamFails, StreamFlushes DEF Flush
    <3>. QED
      BY <2>2, <3>1, StreamFails, StreamHashes, StreamWaits, StreamPublishes DEF FinishOnly
  <2>3. CASE PrepareRefuse(t) \/ Abort(t) \/ Status(t) \/ PrepareUndo(t) \/ PrepareOk(t)
             \/ ClearWait(t) \/ clear_slot(t) \/ InputOnly(t)
    BY <2>3, StreamRefused, StreamPrepares, StreamDiscards, StreamCleared, StreamRequested
  <2>. QED
    BY <1>2, <2>1, <2>2, <2>3, StreamSteps
<1>3. Whole'
  BY <1>2, NextCases, StreamOutside
<1>. QED
  BY <1>1, <1>3, StreamJoined DEF Whole, StreamInv

(* The invariant holds at all times.                                       *)
LEMMA StreamHolds ==
    ASSUME Settled
    PROVE  Spec => []StreamInv
BY StreamInit, StreamNext, PTL DEF Spec
-----------------------------------------------------------------------------
(* What it says of the manager.                                            *)

(* Every file that is published from one PUT body is the one its client    *)
(* sent, whole and in order: buffered or direct, after whatever dropped    *)
(* connections, disk errors and aborted uploads came before.               *)
THEOREM StreamedGenuine ==
    ASSUME Settled
    PROVE  Spec => []PublishedGenuine
<1>1. StreamInv => PublishedGenuine
  BY DEF StreamInv, Store, FilesInv, GoodFile, PublishedGenuine
<1>. QED
  BY <1>1, StreamHolds, PTL

(* A streamed file whose client declared its SHA-256 is published only     *)
(* with exactly that content.                                              *)
THEOREM StreamedIntegrity ==
    ASSUME Settled
    PROVE  Spec => []IntegrityVerified
<1>1. StreamInv => IntegrityVerified
  BY DEF StreamInv, Store, FilesInv, GoodFile, IntegrityVerified
<1>. QED
  BY <1>1, StreamHolds, PTL

(* No part file outlives its stream: neither an upload that is aborted or  *)
(* cut off nor a preparation that is undone leaves one.                    *)
THEOREM StreamPartsOwned ==
    ASSUME Settled
    PROVE  Spec => []NoOrphanPart
<1>1. StreamInv => NoOrphanPart
  BY DEF StreamInv, Store, PartInv, NoOrphanPart
<1>. QED
  BY <1>1, StreamHolds, PTL

(* The descriptor is never closed under the writer thread: clear_slot and  *)
(* the publication wait for it.                                            *)
THEOREM StreamDescriptorOpen ==
    ASSUME Settled
    PROVE  Spec => []WriterHasFile
<1>1. StreamInv => WriterHasFile
  BY RingOpen DEF WriterHasFile, Quiet, Busy
<1>. QED
  BY <1>1, StreamHolds, PTL

(* What is published is the upload in the slot, so that the file limit     *)
(* survives a preparation that is undone.                                  *)
LEMMA StreamQuota ==
    ASSUME Settled
    PROVE  Spec => []QuotaInv
<1>1. StreamInv => PublishesSlot
  BY StreamComplete DEF PublishesSlot
<1>2. StreamInv /\ QuotaInv /\ [Next]_vars => QuotaInv'
  BY <1>1, QuotaStep
<1>. QED
  BY <1>2, StreamHolds, QuotaInit, PTL DEF Spec

(* The file limit also holds for buffered streams with disk errors.        *)
THEOREM StreamFileLimit ==
    ASSUME Settled
    PROVE  Spec => []QuotaRespected
<1>1. QuotaInv => QuotaRespected
  BY DEF QuotaInv
<1>. QED
  BY <1>1, StreamQuota, PTL
-----------------------------------------------------------------------------
(* The manager implements FileDrop.                                        *)

(* A step of a handler.                                                    *)
LEMMA StreamRefines ==
    ASSUME Settled, StreamInv, QuotaInv, NEW t \in Threads, ThreadNext(t)
    PROVE  Abstract!Next \/ Unseen
<1>0. Inv /\ Store /\ disk \in Disk /\ Identified
  BY StreamTypes DEF Store, StreamSlot, QuotaInv, RoomReserved, Identified
<1>1. CASE PrepareOk(t) \/ PrepareUndo(t)
  <2>1. ~slot.occupied /\ disk'.files = disk.files
    BY <1>0, <1>1, PrepareSlot, PreparedPart DEF Store, StreamSlot
  <2>2. CASE PrepareOk(t)
    BY <1>0, <2>1, <2>2, PrepareOpens DEF Abstract!Next
  <2>3. CASE ~PrepareOk(t)
    <3>1. ~slot'.occupied /\ nextId' = nextId
      BY <1>0, <1>1, <2>3, PrepareSlot DEF PrepareUndo
    <3>. QED
      BY <2>1, <3>1 DEF Unseen, Current, Files
  <2>. QED
    BY <2>2, <2>3
<1>2. CASE clear_slot(t)
  BY <1>0, <1>2, ClearDiscards DEF clear_slot, Abstract!Next
<1>3. CASE (Drain(t) \/ HashedPublish(t)) /\ \E digest : PublishOk(t, digest)
  BY <1>0, <1>3, StreamComplete, PublishPublishes DEF Store, Abstract!Next
<1>4. CASE /\ ~(PrepareOk(t) \/ PrepareUndo(t) \/ clear_slot(t))
           /\ ~((Drain(t) \/ HashedPublish(t)) /\ \E digest : PublishOk(t, digest))
  <2>1. SameUpload
    BY <1>0, <1>4, SlotCases
  <2>2. disk'.files = disk.files
    BY <1>0, <1>4, FilesCases
  <2>3. nextId' = nextId
    <3>1. CASE PrepareRefuse(t) \/ Abort(t) \/ Status(t) \/ ClearWait(t) \/ InputOnly(t)
      BY <3>1 DEF PrepareRefuse, Abort, Status, ClearWait, InputOnly, Request, Drop, dataVars
    <3>2. CASE StreamStep(t)
      BY <3>2 DEF StreamStep, BeginOk, BeginRefused, EnableOk, EnableRefused, WriteWait,
                  WriteCopy, WriteFail, DirectBegin, DirectRefused, DirectIO, DirectEnd, dataVars
    <3>3. CASE FinishOnly(t)
      BY <3>3 DEF FinishOnly, FinishRefused, FinishDirect, FlushNothing, Flush, DrainFail, Drain,
                  hash_part_file, HashedLost, HashedError, HashedPublish, PublishOk, PublishFail,
                  dataVars
    <3>. QED
      BY <1>4, <3>1, <3>2, <3>3, StreamSteps
  <2>. QED
    BY <2>1, <2>2, <2>3 DEF Unseen, Current, Files, SameUpload
<1>. QED
  BY <1>1, <1>2, <1>3, <1>4

(* Where every file is one PUT body, the manager with its handlers, ring   *)
(* buffers and writer implements FileDrop: uploads are opened one at a     *)
(* time under fresh identifiers, and an upload is published at most once,  *)
(* whole, under a name nobody uses.                                        *)
THEOREM StreamsImplementFileDrop ==
    ASSUME Settled
    PROVE  Spec => RefinesFileDrop
<1>1. StreamInv /\ QuotaInv /\ [Next]_vars => [Abstract!Next]_(Abstract!vars)
  <2>. SUFFICES ASSUME StreamInv, QuotaInv, [Next]_vars
                PROVE  [Abstract!Next]_(Abstract!vars)
    OBVIOUS
  <2>0. Inv /\ Identified
    BY StreamTypes DEF Store, StreamSlot, QuotaInv, RoomReserved, Identified
  <2>1. Abstract!Next \/ Unseen
    BY <2>0, NextCases, StreamRefines, OutsideRefines
  <2>. QED
    BY <2>1, UnseenStutters
<1>. QED
  BY <1>1, DropInit, StreamHolds, StreamQuota, PTL DEF Spec, RefinesFileDrop, Abstract!Spec
=============================================================================
