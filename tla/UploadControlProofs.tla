------------------------ MODULE UploadControlProofs ------------------------
(***************************************************************************)
(* Who is responsible for what in UploadManager: the handlers, the mutex,  *)
(* the finalizing marker and the count of direct writes, for every kind of *)
(* request and every fault; then the file limit, where no preparation is   *)
(* undone under a sequential stream.                                       *)
(***************************************************************************)
EXTENDS UploadManagerProofs

(* A step of thread t leaves the other threads' handlers alone.            *)
Others(t) == \A u \in Threads \ {t} : pc'[u] = pc[u] /\ req'[u] = req[u]

(* What a handler keeps while it goes from one label to another.           *)
SameRequest(t) == /\ req'[t].kind = req[t].kind /\ req'[t].id = req[t].id
                  /\ req'[t].auth = req[t].auth /\ req'[t].idx = req[t].idx
SameCall(t) == /\ SameRequest(t)
               /\ req'[t].op = req[t].op /\ req'[t].sent = req[t].sent
-----------------------------------------------------------------------------
(* What the four ways of moving on do to the handlers.                     *)

(* A handler that returns.                                                 *)
LEMMA ReturnEffect ==
    ASSUME ControlOK, NEW t \in Threads, Return(t)
    PROVE  Others(t) /\ pc'[t] = "idle" /\ req'[t] = NoReq /\ mutex' = NoThread
BY DEF ControlOK, Return, Others

(* A handler that goes on to the manager call op.                          *)
LEMMA CallEffect ==
    ASSUME ControlOK, NEW t \in Threads, NEW op, NEW n, Call(t, op, n)
    PROVE  /\ Others(t) /\ pc'[t] = "call" /\ mutex' = NoThread
           /\ SameRequest(t) /\ req'[t].op = op /\ req'[t].sent = n
           /\ req'[t].size = req[t].size /\ req'[t].remove = req[t].remove
<1>1. req[t] \in Req
  BY DEF ControlOK
<1>2. req' = [req EXCEPT ![t] = [req[t] EXCEPT !.op = op, !.sent = n]]
  BY DEF Call
<1>3. req'[t] = [req[t] EXCEPT !.op = op, !.sent = n]
  BY <1>2 DEF ControlOK
<1>. QED
  BY <1>1, <1>2, <1>3 DEF ControlOK, Call, Others, SameRequest, Req

(* A handler that stops at a label.                                        *)
LEMMA GotoEffect ==
    ASSUME ControlOK, NEW t \in Threads, NEW l, NEW held, Goto(t, l, held)
    PROVE  /\ \A u \in Threads \ {t} : pc'[u] = pc[u]
           /\ pc'[t] = l /\ mutex' \in {t, NoThread}
           /\ held => mutex' = t
BY DEF ControlOK, Goto

(* A handler that waits for room in the middle of a call.                  *)
LEMMA AwaitRoomEffect ==
    ASSUME ControlOK, NEW t \in Threads, AwaitRoom(t)
    PROVE  /\ Others(t) /\ pc'[t] = "room" /\ mutex' = NoThread
           /\ SameRequest(t) /\ req'[t].op = req[t].op /\ req'[t].sent = req[t].sent + 1
           /\ req'[t].size = req[t].size /\ req'[t].remove = req[t].remove
<1>1. req[t] \in Req
  BY DEF ControlOK
<1>2. req' = [req EXCEPT ![t] = [req[t] EXCEPT !.sent = req[t].sent + 1]]
  BY DEF AwaitRoom
<1>3. req'[t] = [req[t] EXCEPT !.sent = req[t].sent + 1]
  BY <1>2 DEF ControlOK
<1>. QED
  BY <1>1, <1>2, <1>3 DEF ControlOK, AwaitRoom, Goto, Others, SameRequest, Req

(* A handler that calls clear_slot.                                        *)
LEMMA ClearThenEffect ==
    ASSUME ControlOK, NEW t \in Threads, NEW remove, NEW then, ClearThen(t, remove, then)
    PROVE  /\ Others(t) /\ pc'[t] = "clear" /\ mutex' = t /\ SameCall(t)
           /\ req'[t].remove = remove /\ req'[t].size = req[t].size
<1>1. req[t] \in Req
  BY DEF ControlOK
<1>2. req' = [req EXCEPT ![t] = [req[t] EXCEPT !.remove = remove, !.then = then]]
  BY DEF ClearThen
<1>3. req'[t] = [req[t] EXCEPT !.remove = remove, !.then = then]
  BY <1>2 DEF ControlOK
<1>. QED
  BY <1>1, <1>2, <1>3 DEF ControlOK, ClearThen, Others, SameCall, SameRequest, Req

(* A step that leaves the requests alone leaves the others' alone.         *)
LEMMA GotoSame ==
    ASSUME ControlOK, NEW t \in Threads, NEW l, NEW held, Goto(t, l, held), req' = req
    PROVE  Others(t) /\ SameCall(t)
BY GotoEffect DEF Others, SameCall, SameRequest
-----------------------------------------------------------------------------
(* The handlers.                                                           *)

StreamOps == {"begin", "enable", "write", "dwrite", "finish"}

(* What the place of a handler says of its request: it names an identifier *)
(* that was handed out, only a stream makes the stream calls, a label is   *)
(* reached by its own call only, and clear_slot starts with the mutex.     *)
Handler(t) ==
    /\ req[t].id < nextId
    /\ req[t].kind \in Kinds \cup {"none"}
    /\ req[t].op \in StreamOps => req[t].kind \in {"stream", "direct"}
    /\ pc[t] = "room" => req[t].op = "write"
    /\ pc[t] \in {"dio", "dwrote"} => req[t].op = "dwrite"
    /\ pc[t] = "drain" => req[t].op = "finish"
    /\ pc[t] = "cdrain" => req[t].op = "complete"
    /\ pc[t] \in {"hashing", "hashed"} => req[t].op \in {"finish", "complete"}
    /\ pc[t] \in {"clear", "body"} => mutex = t
Handlers == \A t \in Threads : Handler(t)

(* Identifiers are numbers, and only upload_prepare hands one out.         *)
LEMMA IdsAreNumbers ==
    ASSUME Inv, NEW t \in Threads
    PROVE  /\ nextId \in Nat /\ nextId >= 1 /\ req[t].id \in Nat /\ req[t] \in Req
           /\ slot.id \in Nat
<1>1. Ids \subseteq Nat
  BY SizesAssumption DEF Ids
<1>2. req[t] \in Req /\ slot \in Slot /\ nextId \in 1..(MaxUploads + 1)
  BY DEF Inv, TypeOK
<1>3. req[t].id \in Ids \cup {0}
  BY <1>2 DEF Req
<1>4. slot.id \in Ids \cup {0}
  BY <1>2 DEF Slot
<1>5. nextId \in Nat /\ nextId >= 1
  BY <1>2, SizesAssumption
<1>6. \A i \in Ids \cup {0} : i \in Nat
  BY <1>1
<1>. QED
  BY <1>2, <1>3, <1>4, <1>5, <1>6, Zenon
IdsGrow == nextId' \in {nextId, nextId + 1}

(* A handler that returns.                                                 *)
LEMMA HandlerReturn ==
    ASSUME Inv, NEW t \in Threads, Return(t), IdsGrow
    PROVE  Handler(t)'
<1>1. 0 < nextId'
  BY IdsAreNumbers DEF IdsGrow
<1>2. pc'[t] = "idle" /\ req'[t] = NoReq
  BY InvParts, ReturnEffect
<1>. QED
  BY <1>1, <1>2 DEF Handler, NoReq, StreamOps

(* A handler that goes on to another manager call.                         *)
LEMMA HandlerCall ==
    ASSUME Inv, NEW t \in Threads, Handler(t), NEW op, NEW n, Call(t, op, n), nextId' = nextId,
           op \in StreamOps => req[t].kind \in {"stream", "direct"}
    PROVE  Handler(t)'
BY InvParts, CallEffect DEF Handler, SameRequest

(* A handler that calls clear_slot.                                        *)
LEMMA HandlerClear ==
    ASSUME Inv, NEW t \in Threads, Handler(t), NEW remove, NEW then,
           ClearThen(t, remove, then), nextId' = nextId
    PROVE  Handler(t)'
BY InvParts, ClearThenEffect DEF Handler, SameRequest, SameCall

(* A handler that stops at a label of its call.                            *)
LEMMA HandlerGoto ==
    ASSUME Inv, NEW t \in Threads, Handler(t), NEW l, NEW held,
           Goto(t, l, held), SameCall(t), nextId' = nextId,
           \/ l = "room" /\ req[t].op = "write"
           \/ l = "dio" /\ req[t].op = "dwrite"
           \/ l = "drain" /\ req[t].op = "finish"
           \/ l = "cdrain" /\ req[t].op = "complete"
           \/ l = "hashing" /\ req[t].op \in {"finish", "complete"}
           \/ l = "body" /\ held
           \/ l = "clearing"
    PROVE  Handler(t)'
BY InvParts, GotoEffect DEF Handler, SameRequest, SameCall

(* The body of a stream asks for the next stream call.                     *)
LEMMA BodyOpStream ==
    ASSUME NEW t, NEW sent
    PROVE  /\ BodyOp(t, sent) \in {"write", "dwrite", "finish"}
           /\ IsFast(t) => BodyOp(t, sent) # "write"
BY DEF BodyOp
-----------------------------------------------------------------------------
(* What a step of thread t does to the handlers, and when it may touch the *)
(* mutex.                                                                  *)
Moves(t) == /\ Others(t)
            /\ mutex' = mutex \/ (mutex \in {t, NoThread} /\ mutex' \in {t, NoThread})
            /\ IdsGrow
            /\ Handler(t)'

(* A step of t leaves the other handlers sound.                            *)
LEMMA MovesKeepHandlers ==
    ASSUME Inv, Handlers, NEW t \in Threads, Moves(t)
    PROVE  Handlers'
<1>. SUFFICES ASSUME NEW u \in Threads, u # t PROVE Handler(u)'
  BY DEF Handlers, Moves
<1>1. Handler(u) /\ pc'[u] = pc[u] /\ req'[u] = req[u]
  BY DEF Handlers, Moves, Others
<1>2. req[u].id < nextId'
  BY <1>1, IdsAreNumbers DEF Moves, IdsGrow, Handler
<1>3. mutex = u => mutex' = u
  BY EnvironmentAssumption DEF Moves
<1>. QED
  BY <1>1, <1>2, <1>3 DEF Handler

(* The four ways of moving on.                                             *)
LEMMA MovesOn ==
    ASSUME Inv, NEW t \in Threads, Handler(t), mutex \in {t, NoThread}
    PROVE  /\ Return(t) /\ IdsGrow => Moves(t)
           /\ \A op, n : /\ Call(t, op, n) /\ nextId' = nextId
                         /\ op \in StreamOps => req[t].kind \in {"stream", "direct"}
                         => Moves(t)
           /\ \A r, then : ClearThen(t, r, then) /\ nextId' = nextId => Moves(t)
           /\ \A l, held : /\ Goto(t, l, held) /\ req' = req /\ nextId' = nextId
                           /\ \/ l = "room" /\ req[t].op = "write"
                              \/ l = "dio" /\ req[t].op = "dwrite"
                              \/ l = "drain" /\ req[t].op = "finish"
                              \/ l = "cdrain" /\ req[t].op = "complete"
                              \/ l = "clearing"
                           => Moves(t)
<1>1. Return(t) /\ IdsGrow => Moves(t)
  BY InvParts, ReturnEffect, HandlerReturn DEF Moves
<1>2. ASSUME NEW op, NEW n, Call(t, op, n), nextId' = nextId,
             op \in StreamOps => req[t].kind \in {"stream", "direct"}
      PROVE  Moves(t)
  BY <1>2, InvParts, CallEffect, HandlerCall DEF Moves, IdsGrow
<1>3. ASSUME NEW r, NEW then, ClearThen(t, r, then), nextId' = nextId
      PROVE  Moves(t)
  BY <1>3, InvParts, ClearThenEffect, HandlerClear DEF Moves, IdsGrow
<1>4. ASSUME NEW l, NEW held, Goto(t, l, held), req' = req, nextId' = nextId,
             \/ l = "room" /\ req[t].op = "write"
             \/ l = "dio" /\ req[t].op = "dwrite"
             \/ l = "drain" /\ req[t].op = "finish"
             \/ l = "cdrain" /\ req[t].op = "complete"
             \/ l = "clearing"
      PROVE  Moves(t)
  BY <1>4, InvParts, GotoEffect, GotoSame, HandlerGoto DEF Moves, IdsGrow
<1>. QED
  BY <1>1, <1>2, <1>3, <1>4
-----------------------------------------------------------------------------
(* A handler that only notes something down for itself keeps its call.     *)
LEMMA LocalSteps ==
    ASSUME Inv, NEW t \in Threads,
           \/ DirectIO(t) \/ FinishDirect(t) \/ CompleteDrained(t) \/ hash_part_file(t)
           \/ req' = [req EXCEPT ![t].remove = FALSE, ![t].then = "return"]
    PROVE  SameCall(t) /\ \A u \in Threads \ {t} : req'[u] = req[u]
<1>. USE DEF SameCall, SameRequest
<1>0. req[t] \in Req /\ req \in [Threads -> Req]
  BY IdsAreNumbers, InvParts DEF ControlOK
<1>1. CASE DirectIO(t)
  <2>1. PICK ok \in BOOLEAN : req' = [req EXCEPT ![t] = [req[t] EXCEPT !.failed = ~ok]]
    BY <1>1 DEF DirectIO
  <2>2. req'[t] = [req[t] EXCEPT !.failed = ~ok] /\ \A u \in Threads \ {t} : req'[u] = req[u]
    BY <1>0, <2>1
  <2>. QED
    BY <1>0, <2>2, Zenon DEF Req
<1>2. CASE FinishDirect(t)
  <2>1. req' = [req EXCEPT ![t] = [req[t] EXCEPT !.part = slot.part]]
    BY <1>2 DEF FinishDirect
  <2>2. req'[t] = [req[t] EXCEPT !.part = slot.part] /\ \A u \in Threads \ {t} : req'[u] = req[u]
    BY <1>0, <2>1
  <2>. QED
    BY <1>0, <2>2 DEF Req
<1>3. CASE CompleteDrained(t)
  <2>1. req' = [req EXCEPT ![t] = [req[t] EXCEPT !.part = slot.part, !.size = slot.size]]
    BY <1>3 DEF CompleteDrained
  <2>2. req'[t] = [req[t] EXCEPT !.part = slot.part, !.size = slot.size] /\ \A u \in Threads \ {t} : req'[u] = req[u]
    BY <1>0, <2>1
  <2>. QED
    BY <1>0, <2>2 DEF Req
<1>4. CASE hash_part_file(t)
  <2>1. PICK digest \in {"genuine", "other", "error"} : req' = [req EXCEPT ![t] = [req[t] EXCEPT !.digest = digest]]
    BY <1>4 DEF hash_part_file
  <2>2. req'[t] = [req[t] EXCEPT !.digest = digest] /\ \A u \in Threads \ {t} : req'[u] = req[u]
    BY <1>0, <2>1
  <2>. QED
    BY <1>0, <2>2 DEF Req
<1>5. CASE req' = [req EXCEPT ![t].remove = FALSE, ![t].then = "return"]
  <2>1. req' = [req EXCEPT ![t] = [req[t] EXCEPT !.remove = FALSE, !.then = "return"]]
    BY <1>5
  <2>2. req'[t] = [req[t] EXCEPT !.remove = FALSE, !.then = "return"] /\ \A u \in Threads \ {t} : req'[u] = req[u]
    BY <1>0, <2>1
  <2>. QED
    BY <1>0, <2>2 DEF Req
<1>. QED
  BY <1>1, <1>2, <1>3, <1>4, <1>5
-----------------------------------------------------------------------------
(* The handlers move as they should, call by call.                         *)

(* upload_cancel, upload_abort, upload_snapshot, reap_locked, clear_slot.  *)
LEMMA EndMoves ==
    ASSUME Inv, NEW t \in Threads, Handler(t), EndStep(t)
    PROVE  Moves(t)
<1>. USE MovesOn DEF IdsGrow, StreamOps
<1>1. CASE Cancel(t) \/ Abort(t) \/ Status(t)
  BY <1>1 DEF Cancel, Abort, Status, Body, AfterCall, dataVars
<1>2. CASE Reap(t)
  BY <1>2 DEF Reap, dataVars
<1>3. CASE ClearWait(t)
  BY <1>3 DEF ClearWait
<1>4. CASE clear_slot(t)
  <2>1. mutex \in {t, NoThread} /\ nextId' = nextId
    BY <1>4 DEF clear_slot, EmptyManager
  <2>2. CASE AfterCall(t)
    BY <2>1, <2>2 DEF AfterCall
  <2>3. CASE /\ Goto(t, "body", TRUE)
             /\ req' = [req EXCEPT ![t].remove = FALSE, ![t].then = "return"]
    <3>1. SameCall(t) /\ \A u \in Threads \ {t} : req'[u] = req[u]
      BY <2>3, LocalSteps
    <3>2. Handler(t)'
      BY <2>1, <2>3, <3>1, HandlerGoto
    <3>. QED
      BY <2>1, <2>3, <3>1, <3>2, GotoEffect, InvParts DEF Moves, Others
  <2>. QED
    BY <1>4, <2>2, <2>3 DEF clear_slot, AfterClear
<1>. QED
  BY <1>1, <1>2, <1>3, <1>4 DEF EndStep

(* upload_prepare.                                                         *)
LEMMA PrepareMoves ==
    ASSUME Inv, NEW t \in Threads, Handler(t), PrepareStep(t)
    PROVE  Moves(t)
<1>. USE MovesOn DEF IdsGrow
<1>1. CASE PrepareSupersede(t) \/ PrepareBusy(t)
  BY <1>1 DEF PrepareSupersede, PrepareBusy, Body, dataVars
<1>2. CASE PrepareRefuse(t) \/ PrepareUndo(t) \/ PrepareOk(t)
  BY <1>2 DEF PrepareRefuse, PrepareUndo, PrepareOk, CanPrepare, Body
<1>. QED
  BY <1>1, <1>2 DEF PrepareStep

(* upload_begin, upload_enable_direct_stream, upload_write and             *)
(* upload_write_direct.                                                    *)
LEMMA StreamMoves ==
    ASSUME Inv, NEW t \in Threads, Handler(t), StreamStep(t)
    PROVE  Moves(t)
<1>. USE MovesOn, BodyOpStream DEF StreamOps
<1>1. CASE BeginOk(t)
  <2>1. mutex \in {t, NoThread} /\ nextId' = nextId /\ req[t].kind \in {"stream", "direct"}
    BY <1>1 DEF BeginOk, Body, Handler
  <2>2. PICK op \in Ops : Call(t, op, 0)
    BY <1>1, BodyOpType DEF BeginOk, Ops
  <2>. QED
    BY <2>1, <2>2
<1>2. CASE BeginRefused(t) \/ EnableRefused(t)
  BY <1>2 DEF BeginRefused, EnableRefused, Body, dataVars, IdsGrow
<1>3. CASE EnableOk(t)
  <2>1. mutex \in {t, NoThread} /\ nextId' = nextId /\ req[t].kind \in {"stream", "direct"}
    BY <1>3 DEF EnableOk, Body, Handler
  <2>. QED
    BY <1>3, <2>1 DEF EnableOk
<1>4. CASE WriteWait(t) \/ DirectBegin(t)
  BY <1>4 DEF WriteWait, DirectBegin, Body, dataVars
<1>5. CASE WriteCopy(t) \/ WriteFail(t) \/ DirectRefused(t)
  <2>1. mutex \in {t, NoThread} /\ nextId' = nextId
    BY <1>5 DEF WriteCopy, WriteFail, DirectRefused, InWriteLoop, Body, dataVars
  <2>2. req[t].op \in {"write", "dwrite"}
    BY <1>5 DEF WriteCopy, WriteFail, DirectRefused, InWriteLoop, Body, Handler
  <2>3. (AwaitRoom(t) /\ WriteCopy(t)) \/ \E op, n : Call(t, op, n)
    BY <1>5 DEF WriteCopy, WriteFail, DirectRefused
  <2>4. CASE AwaitRoom(t) /\ WriteCopy(t)
    <3>1. req[t].op = "write"
      BY <2>4 DEF WriteCopy, InWriteLoop, Body, Handler
    <3>2. Others(t) /\ pc'[t] = "room" /\ SameRequest(t) /\ req'[t].op = req[t].op
          /\ mutex' \in {t, NoThread}
      BY <2>4, InvParts, AwaitRoomEffect
    <3>. QED
      BY <2>1, <3>1, <3>2 DEF Moves, IdsGrow, Handler, SameRequest
  <2>. QED
    BY <2>1, <2>2, <2>3, <2>4 DEF Handler
<1>6. CASE DirectIO(t)
  <2>1. SameCall(t) /\ \A u \in Threads \ {t} : req'[u] = req[u]
    BY <1>6, LocalSteps
  <2>2. /\ pc'[t] = "dwrote" /\ pc[t] = "dio" /\ mutex' = mutex /\ nextId' = nextId
        /\ \A u \in Threads \ {t} : pc'[u] = pc[u]
    BY <1>6, InvParts DEF DirectIO, ControlOK
  <2>. QED
    BY <2>1, <2>2 DEF Moves, Others, IdsGrow, Handler, SameCall, SameRequest
<1>7. CASE DirectEnd(t)
  <2>1. mutex \in {t, NoThread} /\ nextId' = nextId /\ req[t].kind \in {"stream", "direct"}
    BY <1>7 DEF DirectEnd, Handler
  <2>2. \E op, n : Call(t, op, n)
    BY <1>7 DEF DirectEnd
  <2>. QED
    BY <2>1, <2>2
<1>. QED
  BY <1>1, <1>2, <1>3, <1>4, <1>5, <1>6, <1>7 DEF StreamStep

(* upload_chunk_begin, _write, _finish and _abort.                         *)
LEMMA ChunkMoves ==
    ASSUME Inv, NEW t \in Threads, Handler(t), ChunkStep(t)
    PROVE  Moves(t)
<1>. USE MovesOn DEF StreamOps, IdsGrow
<1>1. CASE ChunkBeginOk(t) \/ ChunkBeginRefused(t)
  BY <1>1 DEF ChunkBeginOk, ChunkBeginRefused, Body, dataVars
<1>2. CASE ChunkWriteOk(t)
  <2>1. mutex \in {t, NoThread} /\ nextId' = nextId
    BY <1>2 DEF ChunkWriteOk, Body
  <2>2. \E op \in {"cwrite", "cfinish"} : \E n : Call(t, op, n)
    BY <1>2 DEF ChunkWriteOk
  <2>. QED
    BY <2>1, <2>2
<1>3. CASE ChunkWriteFail(t)
  BY <1>3 DEF ChunkWriteFail, Body, dataVars
<1>4. CASE ChunkFinishOk(t) \/ ChunkFinishFail(t) \/ ChunkAbort(t)
  BY <1>4 DEF ChunkFinishOk, ChunkFinishFail, ChunkAbort, Body
<1>. QED
  BY <1>1, <1>2, <1>3, <1>4 DEF ChunkStep

(* upload_finish.                                                          *)
LEMMA FinishMoves ==
    ASSUME Inv, NEW t \in Threads, Handler(t),
           \/ FinishRefused(t) \/ FinishDirect(t) \/ FlushNothing(t)
           \/ Flush(t) \/ DrainFail(t) \/ Drain(t)
    PROVE  Moves(t)
<1>. USE MovesOn DEF IdsGrow
<1>1. CASE FinishRefused(t) \/ FlushNothing(t) \/ Flush(t)
  BY <1>1 DEF FinishRefused, FlushNothing, Flush, FinishQueued, Body, dataVars
<1>2. CASE FinishDirect(t)
  <2>1. SameCall(t) /\ \A u \in Threads \ {t} : req'[u] = req[u]
    BY <1>2, LocalSteps
  <2>2. /\ mutex \in {t, NoThread} /\ nextId' = nextId /\ req[t].op = "finish"
        /\ Goto(t, "hashing", FALSE)
    BY <1>2 DEF FinishDirect, Body
  <2>3. Handler(t)'
    BY <2>1, <2>2, HandlerGoto
  <2>. QED
    BY <2>1, <2>2, <2>3, GotoEffect, InvParts DEF Moves, Others
<1>3. CASE DrainFail(t) \/ Drain(t)
  BY <1>3 DEF DrainFail, Drain, At, CanLock, PublishOk, PublishFail, dataVars
<1>. QED
  BY <1>1, <1>2, <1>3

(* upload_finish_chunks_with_metrics and the hash pass.                    *)
LEMMA CompleteMoves ==
    ASSUME Inv, NEW t \in Threads, Handler(t),
           \/ CompleteRefused(t) \/ CompleteBegin(t) \/ CompleteDrained(t)
           \/ CompleteDrainFail(t) \/ hash_part_file(t)
           \/ HashedLost(t) \/ HashedError(t) \/ HashedPublish(t)
    PROVE  Moves(t)
<1>. USE MovesOn DEF IdsGrow
<1>1. CASE CompleteRefused(t) \/ CompleteBegin(t) \/ CompleteDrainFail(t)
  BY <1>1 DEF CompleteRefused, CompleteBegin, CompleteDrainFail, Body, At, CanLock, dataVars
<1>2. CASE CompleteDrained(t)
  <2>1. SameCall(t) /\ \A u \in Threads \ {t} : req'[u] = req[u]
    BY <1>2, LocalSteps
  <2>2. /\ mutex \in {t, NoThread} /\ nextId' = nextId /\ req[t].op = "complete"
        /\ Goto(t, "hashing", FALSE)
    BY <1>2 DEF CompleteDrained, At, CanLock, dataVars, Handler
  <2>3. Handler(t)'
    BY <2>1, <2>2, HandlerGoto
  <2>. QED
    BY <2>1, <2>2, <2>3, GotoEffect, InvParts DEF Moves, Others
<1>3. CASE hash_part_file(t)
  <2>1. SameCall(t) /\ \A u \in Threads \ {t} : req'[u] = req[u]
    BY <1>3, LocalSteps
  <2>2. /\ pc'[t] = "hashed" /\ pc[t] = "hashing" /\ mutex' = mutex /\ nextId' = nextId
        /\ \A u \in Threads \ {t} : pc'[u] = pc[u]
    BY <1>3, InvParts DEF hash_part_file, ControlOK, dataVars
  <2>. QED
    BY <2>1, <2>2 DEF Moves, Others, Handler, SameCall, SameRequest
<1>4. CASE HashedLost(t) \/ HashedError(t) \/ HashedPublish(t)
  BY <1>4 DEF HashedLost, HashedError, HashedPublish, PublishOk, PublishFail
<1>. QED
  BY <1>1, <1>2, <1>3, <1>4

(* A request arrives, or its body ends too early or goes on too long.      *)
LEMMA RequestMoves ==
    ASSUME Inv, NEW t \in Threads, Handler(t),
           Request(t) \/ Drop(t) \/ NoLength(t) \/ ShortBody(t) \/ LongBody(t)
    PROVE  Moves(t)
<1>0. /\ mutex' = mutex /\ nextId' = nextId
      /\ \A u \in Threads \ {t} : pc'[u] = pc[u]
      /\ pc'[t] = "call" /\ pc'[t] \in Labels
  BY InvParts DEF Request, Drop, NoLength, ShortBody, LongBody, dataVars, ControlOK, Labels
<1>1. CASE Request(t)
  <2>0. PICK kind \in Kinds : \E r \in Parameters(kind) :
           req' = [req EXCEPT ![t] = [NoReq EXCEPT
                     !.kind = kind, !.op = r.op, !.id = r.id, !.auth = r.auth,
                     !.size = r.size, !.hash = r.hash, !.idx = r.idx]]
    BY <1>1 DEF Request
  <2>1. PICK r \in Parameters(kind) :
           req' = [req EXCEPT ![t] = [NoReq EXCEPT
                     !.kind = kind, !.op = r.op, !.id = r.id, !.auth = r.auth,
                     !.size = r.size, !.hash = r.hash, !.idx = r.idx]]
    BY <2>0
  <2>. DEFINE new == [NoReq EXCEPT
                        !.kind = kind, !.op = r.op, !.id = r.id, !.auth = r.auth,
                        !.size = r.size, !.hash = r.hash, !.idx = r.idx]
  <2>2. new.kind = kind /\ new.op = r.op /\ new.id = r.id
    BY DEF NoReq
  <2>3. r.op = FirstOp(kind) /\ r.id \in {0} \cup (1..(nextId - 1))
    BY DEF Parameters
  <2>4. req' = [req EXCEPT ![t] = new]
    BY <2>1
  <2>. HIDE DEF new
  <2>5. req'[t] = new /\ \A u \in Threads \ {t} : req'[u] = req[u]
    BY <2>4, InvParts DEF ControlOK
  <2>6. r.id < nextId
    BY <2>3, IdsAreNumbers
  <2>7. r.op \in StreamOps => kind \in {"stream", "direct"}
    BY <2>3, EnvironmentAssumption DEF FirstOp, StreamOps, AllKinds
  <2>8. Handler(t)'
    BY <1>0, <2>2, <2>5, <2>6, <2>7 DEF Handler
  <2>. QED
    BY <1>0, <2>5, <2>8 DEF Moves, Others, IdsGrow
<1>2. CASE Drop(t)
  <2>1. PICK op \in {"cabort", "reabort"} :
           req' = [req EXCEPT ![t] = [req[t] EXCEPT !.op = op, !.sent = 0]]
    BY <1>2 DEF Drop
  <2>2. req'[t] = [req[t] EXCEPT !.op = op, !.sent = 0]
        /\ \A u \in Threads \ {t} : req'[u] = req[u]
    BY <2>1, InvParts DEF ControlOK
  <2>3. req'[t].op = op /\ req'[t].id = req[t].id /\ req'[t].kind = req[t].kind
    BY <2>2, IdsAreNumbers DEF Req
  <2>. QED
    BY <1>0, <2>2, <2>3 DEF Moves, Others, IdsGrow, Handler, StreamOps
<1>3. CASE NoLength(t) \/ ShortBody(t) \/ LongBody(t)
  <2>1. PICK op \in {"cancel", "cfinish", "cwrite"} : req' = [req EXCEPT ![t] = [req[t] EXCEPT !.op = op]]
    BY <1>3 DEF NoLength, ShortBody, LongBody
  <2>2. req'[t] = [req[t] EXCEPT !.op = op] /\ \A u \in Threads \ {t} : req'[u] = req[u]
    BY <2>1, InvParts DEF ControlOK
  <2>3. req'[t].op = op /\ req'[t].id = req[t].id /\ req'[t].kind = req[t].kind
    BY <2>2, IdsAreNumbers DEF Req
  <2>. QED
    BY <1>0, <2>2, <2>3 DEF Moves, Others, IdsGrow, Handler, StreamOps
<1>. QED
  BY <1>1, <1>2, <1>3

(* Every step of a handler.                                                *)
LEMMA ThreadMoves ==
    ASSUME Inv, NEW t \in Threads, Handler(t),
           ThreadStep(t) \/ Request(t) \/ Drop(t) \/ NoLength(t) \/ ShortBody(t) \/ LongBody(t)
    PROVE  Moves(t)
BY EndMoves, PrepareMoves, StreamMoves, ChunkMoves, FinishMoves, CompleteMoves, RequestMoves
   DEF ThreadStep, FinishStep

(* The other steps leave the handlers, the mutex and the identifiers alone. *)
OutsideStep == \/ WriterStep \/ LeaseExpires \/ ForeignCreate
               \/ DestroyBegin \/ DestroyEnd \/ UNCHANGED vars
LEMMA OutsideControl ==
    ASSUME OutsideStep
    PROVE  UNCHANGED <<mutex, pc, req, nextId>>
<1>1. CASE WriterStep
  BY <1>1 DEF WriterStep, WriterTake, WriterIO, WriterDone, WriterExit
<1>2. CASE LeaseExpires \/ ForeignCreate \/ DestroyBegin \/ UNCHANGED vars
  BY <1>2 DEF LeaseExpires, ForeignCreate, DestroyBegin, vars
<1>3. CASE DestroyEnd
  BY <1>3 DEF DestroyEnd, EmptyManager
<1>. QED
  BY <1>1, <1>2, <1>3 DEF OutsideStep

(* A step is a step of one handler, or of none.                            *)
ThreadNext(t) == \/ ThreadStep(t) \/ Request(t) \/ Drop(t)
                 \/ NoLength(t) \/ ShortBody(t) \/ LongBody(t)
LEMMA NextCases ==
    [Next]_vars => OutsideStep \/ \E t \in Threads : ThreadNext(t)
BY DEF Next, OutsideStep, ThreadNext, Terminated

(* The handlers stay sound.                                                *)
LEMMA HandlersKept ==
    ASSUME Inv, Handlers, [Next]_vars
    PROVE  Handlers'
<1>1. CASE OutsideStep
  BY <1>1, OutsideControl DEF Handlers, Handler
<1>2. ASSUME NEW t \in Threads, ThreadNext(t)
      PROVE  Handlers'
  BY <1>2, ThreadMoves, MovesKeepHandlers DEF Handlers, ThreadNext
<1>. QED
  BY <1>1, <1>2, NextCases

(* Initially no handler runs.                                              *)
LEMMA HandlersInit == Init => Handlers
BY DEF Init, Handlers, Handler, NoReq, StreamOps

(* A step of a handler that does not go on to a further stream call keeps  *)
(* its call, or leaves it for one that does not look at the stream.        *)
LEMMA CallCases ==
    ASSUME Inv, NEW t \in Threads, Handler(t), ThreadNext(t)
    PROVE  \/ SameCall(t) /\ pc'[t] \notin {"room", "drain"}
           \/ /\ req'[t].op \notin {"write", "dwrite", "finish"}
              /\ pc'[t] \in {"idle", "call"}
           \/ BeginOk(t) \/ EnableOk(t) \/ WriteWait(t) \/ WriteCopy(t) \/ DirectEnd(t)
           \/ FlushNothing(t) \/ Flush(t)
<1>0. /\ Return(t) => pc'[t] = "idle" /\ req'[t].op = "none"
      /\ \A op, n : Call(t, op, n) => pc'[t] = "call" /\ req'[t].op = op
      /\ \A r, then : ClearThen(t, r, then) => pc'[t] = "clear" /\ SameCall(t)
      /\ \A l, held : Goto(t, l, held) => pc'[t] = l
      /\ req' = req => SameCall(t)
  BY InvParts, ReturnEffect, CallEffect, ClearThenEffect, GotoEffect
     DEF NoReq, SameCall, SameRequest
<1>1. CASE PrepareStep(t)
  BY <1>0, <1>1 DEF PrepareStep, PrepareSupersede, PrepareBusy, PrepareRefuse, PrepareUndo,
                    PrepareOk
<1>2. CASE StreamStep(t)
  <2>1. CASE BeginRefused(t) \/ EnableRefused(t) \/ WriteFail(t) \/ DirectRefused(t)
    BY <1>0, <2>1 DEF BeginRefused, EnableRefused, WriteFail, DirectRefused
  <2>2. CASE DirectBegin(t)
    BY <1>0, <2>2 DEF DirectBegin
  <2>3. CASE DirectIO(t)
    BY <2>3, LocalSteps, InvParts DEF DirectIO, ControlOK
  <2>. QED
    BY <1>2, <2>1, <2>2, <2>3 DEF StreamStep
<1>3. CASE ChunkStep(t)
  <2>1. CASE ChunkWriteOk(t)
    <3>1. \E op \in {"cwrite", "cfinish"} : \E n : Call(t, op, n)
      BY <2>1 DEF ChunkWriteOk
    <3>. QED
      BY <1>0, <3>1
  <2>2. CASE \/ ChunkBeginOk(t) \/ ChunkBeginRefused(t) \/ ChunkWriteFail(t)
             \/ ChunkFinishOk(t) \/ ChunkFinishFail(t) \/ ChunkAbort(t)
    <3>1. Return(t) \/ \E op \in {"cwrite", "abort", "cabort"} : \E n : Call(t, op, n)
      BY <2>2 DEF ChunkBeginOk, ChunkBeginRefused, ChunkWriteFail, ChunkFinishOk,
                  ChunkFinishFail, ChunkAbort
    <3>. QED
      BY <1>0, <3>1
  <2>. QED
    BY <1>3, <2>1, <2>2 DEF ChunkStep
<1>4. CASE FinishStep(t)
  <2>1. CASE \/ FinishRefused(t) \/ DrainFail(t) \/ Drain(t) \/ CompleteRefused(t)
             \/ CompleteBegin(t) \/ CompleteDrainFail(t)
             \/ HashedLost(t) \/ HashedError(t) \/ HashedPublish(t)
    BY <1>0, <2>1 DEF FinishRefused, DrainFail, Drain, PublishOk, PublishFail,
                      CompleteRefused, CompleteBegin, CompleteDrainFail, HashedLost,
                      HashedError, HashedPublish
  <2>2. CASE FinishDirect(t) \/ CompleteDrained(t)
    BY <1>0, <2>2, LocalSteps DEF FinishDirect, CompleteDrained
  <2>3. CASE hash_part_file(t)
    BY <2>3, LocalSteps, InvParts DEF hash_part_file, ControlOK
  <2>. QED
    BY <1>4, <2>1, <2>2, <2>3 DEF FinishStep
<1>5. CASE EndStep(t)
  <2>1. CASE Cancel(t) \/ Abort(t) \/ Status(t) \/ Reap(t)
    <3>1. \/ Return(t) \/ \E op \in {"cabort", "reabort"} : \E n : Call(t, op, n)
          \/ \E r, then : ClearThen(t, r, then)
      BY <2>1 DEF Cancel, Abort, AfterCall, Status, Reap
    <3>. QED
      BY <1>0, <3>1
  <2>2. CASE ClearWait(t)
    BY <1>0, <2>2 DEF ClearWait
  <2>3. CASE clear_slot(t)
    <3>1. \/ AfterCall(t)
          \/ /\ Goto(t, "body", TRUE)
             /\ req' = [req EXCEPT ![t].remove = FALSE, ![t].then = "return"]
      BY <2>3 DEF clear_slot, AfterClear
    <3>2. AfterCall(t) => Return(t) \/ \E op \in {"cabort", "reabort"} : \E n : Call(t, op, n)
      BY DEF AfterCall
    <3>. QED
      BY <1>0, <3>1, <3>2, LocalSteps
  <2>. QED
    BY <1>5, <2>1, <2>2, <2>3 DEF EndStep
<1>6. CASE Request(t)
  <2>0. PICK kind \in Kinds : \E r \in Parameters(kind) :
           req' = [req EXCEPT ![t] = [NoReq EXCEPT
                     !.kind = kind, !.op = r.op, !.id = r.id, !.auth = r.auth,
                     !.size = r.size, !.hash = r.hash, !.idx = r.idx]]
    BY <1>6 DEF Request
  <2>1. PICK r \in Parameters(kind) :
           req' = [req EXCEPT ![t] = [NoReq EXCEPT
                     !.kind = kind, !.op = r.op, !.id = r.id, !.auth = r.auth,
                     !.size = r.size, !.hash = r.hash, !.idx = r.idx]]
    BY <2>0
  <2>2. req'[t].op = r.op
    BY <2>1, InvParts DEF NoReq, ControlOK
  <2>3. r.op = FirstOp(kind)
    BY DEF Parameters
  <2>4. FirstOp(kind) \notin {"write", "dwrite", "finish"}
    BY EnvironmentAssumption DEF FirstOp, AllKinds
  <2>5. pc'[t] = "call"
    BY <1>6, InvParts DEF Request, ControlOK
  <2>. QED
    BY <2>2, <2>3, <2>4, <2>5
<1>7. CASE Drop(t) \/ NoLength(t) \/ ShortBody(t) \/ LongBody(t)
  <2>1. PICK op \in {"cabort", "reabort", "cancel", "cfinish", "cwrite"} :
           \/ req' = [req EXCEPT ![t] = [req[t] EXCEPT !.op = op, !.sent = 0]]
           \/ req' = [req EXCEPT ![t] = [req[t] EXCEPT !.op = op]]
    BY <1>7 DEF Drop, NoLength, ShortBody, LongBody
  <2>2. \/ req'[t] = [req[t] EXCEPT !.op = op, !.sent = 0]
        \/ req'[t] = [req[t] EXCEPT !.op = op]
    BY <2>1, InvParts DEF ControlOK
  <2>3. req'[t].op = op
    BY <2>2, IdsAreNumbers DEF Req
  <2>4. pc'[t] = "call"
    BY <1>7 DEF Drop, NoLength, ShortBody, LongBody
  <2>. QED
    BY <2>3, <2>4
<1>. QED
  BY <1>1, <1>2, <1>3, <1>4, <1>5, <1>6, <1>7 DEF ThreadNext, ThreadStep
-----------------------------------------------------------------------------
(* What a step of a handler does to the slot.                              *)

(* The slot keeps its upload.                                              *)
SameUpload ==
    /\ slot'.occupied = slot.occupied /\ slot'.id = slot.id /\ slot'.part = slot.part
    /\ slot'.auth = slot.auth /\ slot'.size = slot.size /\ slot'.name = slot.name
    /\ slot'.hash = slot.hash
    /\ slot'.fd \in {slot.fd, 0}
    /\ slot.direct => slot'.direct

(* Besides its upload it keeps the marker and the count of direct writes.  *)
SameMarks == SameUpload /\ slot'.finalizing = slot.finalizing /\ slot'.writes = slot.writes

(* Nothing changes.                                                        *)
LEMMA SameSlot ==
    ASSUME slot' = slot
    PROVE  SameMarks /\ slot'.fd = slot.fd
BY DEF SameMarks, SameUpload

(* The calls before and during the transfer that leave the marks alone.    *)
LEMMA TransferSlot ==
    ASSUME Inv, NEW t \in Threads,
           \/ BeginOk(t) \/ EnableOk(t) \/ WriteCopy(t) \/ ChunkStep(t)
    PROVE  SameMarks /\ slot'.fd = slot.fd
<1>. USE DEF SameMarks, SameUpload
<1>0. slot \in Slot
  BY DEF Inv, TypeOK
<1>1. CASE BeginOk(t)
  BY <1>0, <1>1 DEF BeginOk, Slot
<1>2. CASE EnableOk(t)
  BY <1>0, <1>2 DEF EnableOk, Slot
<1>3. CASE WriteCopy(t)
  <2>1. slot' = [slot EXCEPT !.sha = Append(@, <<req[t].id, req[t].sent + 1>>), !.stale = FALSE,
                             !.received = @ + 1]
    BY <1>3 DEF WriteCopy
  <2>. QED
    BY <1>0, <2>1 DEF Slot
<1>4. CASE ChunkBeginOk(t)
  BY <1>0, <1>4 DEF ChunkBeginOk, Slot
<1>5. CASE ChunkWriteOk(t) \/ ChunkFinishOk(t)
  <2>1. \/ slot' = [slot EXCEPT !.received = @ + 1, !.stale = FALSE]
        \/ slot' = [slot EXCEPT !.stale = FALSE]
    BY <1>5 DEF ChunkWriteOk, ChunkFinishOk
  <2>. QED
    BY <1>0, <2>1 DEF Slot
<1>6. CASE ChunkBeginRefused(t) \/ ChunkWriteFail(t)
  BY <1>6 DEF ChunkBeginRefused, ChunkWriteFail, dataVars
<1>7. ASSUME NEW i, NEW stale, FreeChunk(i, stale)
      PROVE  SameMarks /\ slot'.fd = slot.fd
  <2>1. \E n : slot' = [slot EXCEPT !.received = n, !.stale = stale]
    BY <1>7 DEF FreeChunk
  <2>. QED
    BY <1>0, <2>1 DEF Slot
<1>8. CASE ChunkFinishFail(t) \/ ChunkAbort(t)
  <2>1. slot' = slot \/ \E i, stale : FreeChunk(i, stale)
    BY <1>8 DEF ChunkFinishFail, ChunkAbort
  <2>. QED
    BY <1>7, <2>1
<1>. QED
  BY <1>1, <1>2, <1>3, <1>4, <1>5, <1>6, <1>8 DEF ChunkStep

(* The calls that leave the slot alone altogether.                         *)
LEMMA SlotUntouched ==
    ASSUME NEW t \in Threads,
           \/ PrepareSupersede(t) \/ PrepareBusy(t) \/ PrepareRefuse(t)
           \/ BeginRefused(t) \/ EnableRefused(t) \/ WriteWait(t) \/ WriteFail(t)
           \/ DirectRefused(t) \/ DirectIO(t)
           \/ FinishRefused(t) \/ FlushNothing(t) \/ Flush(t) \/ DrainFail(t)
           \/ CompleteRefused(t) \/ CompleteDrained(t) \/ CompleteDrainFail(t)
           \/ hash_part_file(t)
           \/ Cancel(t) \/ Abort(t) \/ Status(t) \/ Reap(t) \/ ClearWait(t)
           \/ Request(t) \/ Drop(t) \/ NoLength(t) \/ ShortBody(t) \/ LongBody(t)
    PROVE  slot' = slot
<1>1. CASE \/ PrepareSupersede(t) \/ PrepareBusy(t) \/ PrepareRefuse(t)
           \/ BeginRefused(t) \/ EnableRefused(t) \/ WriteWait(t) \/ WriteFail(t)
           \/ DirectRefused(t) \/ DirectIO(t)
  BY <1>1 DEF PrepareSupersede, PrepareBusy, PrepareRefuse, BeginRefused, EnableRefused,
              WriteWait, WriteFail, DirectRefused, DirectIO, dataVars
<1>2. CASE \/ FinishRefused(t) \/ FlushNothing(t) \/ Flush(t) \/ DrainFail(t)
           \/ CompleteRefused(t) \/ CompleteDrained(t) \/ CompleteDrainFail(t)
           \/ hash_part_file(t)
  BY <1>2 DEF FinishRefused, FlushNothing, Flush, DrainFail, CompleteRefused, CompleteDrained,
              CompleteDrainFail, hash_part_file, dataVars
<1>3. CASE \/ Cancel(t) \/ Abort(t) \/ Status(t) \/ Reap(t) \/ ClearWait(t)
           \/ Request(t) \/ Drop(t) \/ NoLength(t) \/ ShortBody(t) \/ LongBody(t)
  BY <1>3 DEF Cancel, Abort, Status, Reap, ClearWait, Request, Drop, NoLength, ShortBody, LongBody,
              dataVars
<1>. QED
  BY <1>1, <1>2, <1>3

(* upload_write_direct counts itself and is counted out again.             *)
LEMMA DirectSlot ==
    ASSUME Inv, NEW t \in Threads, DirectBegin(t) \/ DirectEnd(t)
    PROVE  /\ SameUpload /\ slot'.fd = slot.fd /\ slot'.finalizing = slot.finalizing
           /\ DirectBegin(t) => slot.writes = 0 /\ slot'.writes = 1
           /\ DirectEnd(t) /\ slot.writes \in {0, 1} => slot'.writes = 0
<1>0. slot \in Slot
  BY DEF Inv, TypeOK
<1>1. CASE DirectBegin(t)
  <2>1. slot' = [slot EXCEPT !.writes = @ + 1, !.stale = FALSE] /\ slot.writes = 0
    BY <1>1 DEF DirectBegin, DirectAdmitted
  <2>2. ~DirectEnd(t)
    BY <1>1 DEF DirectBegin, DirectEnd, Body
  <2>. QED
    BY <1>0, <2>1, <2>2 DEF Slot, SameUpload
<1>2. CASE DirectEnd(t)
  <2>. DEFINE n == IF slot.writes > 0 THEN slot.writes - 1 ELSE 0
              idle == [slot EXCEPT !.writes = n]
  <2>1. slot' = idle \/ slot' = [idle EXCEPT !.received = @ + 1, !.stale = FALSE]
    BY <1>2 DEF DirectEnd
  <2>2. idle \in Slot /\ idle.writes = n
    BY <1>0 DEF Slot
  <2>3. /\ idle.occupied = slot.occupied /\ idle.id = slot.id /\ idle.part = slot.part
        /\ idle.auth = slot.auth /\ idle.size = slot.size /\ idle.name = slot.name
        /\ idle.hash = slot.hash /\ idle.fd = slot.fd /\ idle.direct = slot.direct
        /\ idle.finalizing = slot.finalizing
    BY <1>0 DEF Slot
  <2>4. ~DirectBegin(t)
    BY <1>2 DEF DirectBegin, DirectEnd, Body
  <2>5. slot.writes \in {0, 1} => n = 0
    OBVIOUS
  <2>. HIDE DEF n, idle
  <2>6. /\ slot'.occupied = idle.occupied /\ slot'.id = idle.id /\ slot'.part = idle.part
        /\ slot'.auth = idle.auth /\ slot'.size = idle.size /\ slot'.name = idle.name
        /\ slot'.hash = idle.hash /\ slot'.fd = idle.fd /\ slot'.direct = idle.direct
        /\ slot'.finalizing = idle.finalizing /\ slot'.writes = idle.writes
    BY <2>1, <2>2 DEF Slot
  <2>. QED
    BY <2>2, <2>3, <2>4, <2>5, <2>6 DEF SameUpload
<1>. QED
  BY <1>1, <1>2

(* The steps that finish an upload.                                        *)
LEMMA FinishSlot ==
    ASSUME Inv, NEW t \in Threads,
           \/ FinishDirect(t) \/ CompleteBegin(t) \/ HashedLost(t) \/ HashedError(t)
           \/ \E digest : PublishOk(t, digest) \/ PublishFail(t, digest)
    PROVE  SameUpload /\ slot'.writes = slot.writes
<1>. USE DEF SameUpload
<1>0. slot \in Slot
  BY DEF Inv, TypeOK
<1>1. CASE FinishDirect(t) \/ CompleteBegin(t)
  <2>1. slot' = [slot EXCEPT !.finalizing = TRUE]
    BY <1>1 DEF FinishDirect, CompleteBegin
  <2>. QED
    BY <1>0, <2>1 DEF Slot
<1>2. CASE HashedLost(t) \/ HashedError(t)
  <2>1. \E b : slot' = [slot EXCEPT !.finalizing = b] \/ slot' = slot
    BY <1>2 DEF HashedLost, HashedError
  <2>. QED
    BY <1>0, <2>1 DEF Slot
<1>3. ASSUME NEW digest, PublishOk(t, digest)
      PROVE  SameUpload /\ slot'.writes = slot.writes
  BY <1>0, <1>3 DEF PublishOk, Slot
<1>4. ASSUME NEW digest, PublishFail(t, digest)
      PROVE  SameUpload /\ slot'.writes = slot.writes
  <2>1. \E b : \E fd \in {0, slot.fd} : slot' = [slot EXCEPT !.fd = fd, !.finalizing = b]
    BY <1>4 DEF PublishFail
  <2>. QED
    BY <1>0, <2>1 DEF Slot
<1>. QED
  BY <1>1, <1>2, <1>3, <1>4

(* upload_prepare fills a free slot, under an identifier of its own.       *)
LEMMA PrepareSlot ==
    ASSUME Inv, NEW t \in Threads, PrepareOk(t) \/ PrepareUndo(t)
    PROVE  /\ ~slot.occupied /\ nextId \in Ids
           /\ slot'.id = nextId /\ slot'.part = nextId /\ slot'.fd = nextId
           /\ slot'.name = unique_name /\ unique_name \in FreeNames
           /\ slot'.finalizing = slot.finalizing /\ slot'.writes = slot.writes
           /\ PrepareOk(t) => /\ slot'.occupied /\ slot'.auth = req[t].auth
                              /\ slot'.size = req[t].size /\ slot'.hash = req[t].hash
           /\ PrepareUndo(t) => /\ "disk" \in Faults /\ (~PrepareOk(t) => ~slot'.occupied)
<1>0. slot \in Slot /\ CanPrepare(t) /\ unique_name \in FreeNames
  BY UniqueNameFree DEF Inv, TypeOK, PrepareOk, PrepareUndo, CanPrepare
<1>1. CASE PrepareOk(t)
  <2>1. slot' = [slot EXCEPT !.occupied = TRUE, !.id = nextId, !.part = nextId,
                            !.fd = nextId, !.auth = req[t].auth,
                            !.size = req[t].size, !.hash = req[t].hash,
                            !.name = unique_name, !.stale = FALSE]
    BY <1>1 DEF PrepareOk
  <2>2. /\ slot'.id = nextId /\ slot'.part = nextId /\ slot'.fd = nextId
        /\ slot'.name = unique_name
        /\ slot'.finalizing = slot.finalizing /\ slot'.writes = slot.writes
    BY <1>0, <2>1 DEF Slot
  <2>3. /\ slot'.occupied /\ slot'.auth = req[t].auth
        /\ slot'.size = req[t].size /\ slot'.hash = req[t].hash
    BY <1>0, <2>1 DEF Slot
  <2>. QED
    BY <1>0, <1>1, <2>2, <2>3 DEF CanPrepare, PrepareUndo
<1>2. CASE PrepareUndo(t)
  <2>1. slot' = [slot EXCEPT !.part = nextId, !.fd = nextId, !.id = nextId,
                            !.name = unique_name]
    BY <1>2 DEF PrepareUndo
  <2>2. /\ slot'.id = nextId /\ slot'.part = nextId /\ slot'.fd = nextId
        /\ slot'.name = unique_name /\ slot'.occupied = slot.occupied
        /\ slot'.finalizing = slot.finalizing /\ slot'.writes = slot.writes
    BY <1>0, <2>1 DEF Slot
  <2>3. "disk" \in Faults /\ pc'[t] = "clear"
    BY <1>2, InvParts, ClearThenEffect DEF PrepareUndo
  <2>4. ~PrepareOk(t)
    BY <2>3, InvParts, ReturnEffect DEF PrepareOk
  <2>. QED
    BY <1>0, <2>2, <2>3, <2>4 DEF CanPrepare
<1>. QED
  BY <1>1, <1>2

(* A step of a handler keeps the upload of the slot, empties the slot, or  *)
(* puts a new upload into the empty slot.                                  *)
LEMMA SlotCases ==
    ASSUME Inv, NEW t \in Threads, ThreadNext(t)
    PROVE  \/ SameUpload
           \/ slot' = EmptySlot /\ clear_slot(t)
           \/ PrepareOk(t) \/ PrepareUndo(t)
<1>1. CASE PrepareStep(t)
  BY <1>1, SlotUntouched, SameSlot DEF PrepareStep, SameMarks
<1>2. CASE StreamStep(t)
  BY <1>2, SlotUntouched, SameSlot, TransferSlot, DirectSlot DEF StreamStep, SameMarks
<1>3. CASE ChunkStep(t)
  BY <1>3, TransferSlot DEF SameMarks
<1>4. CASE FinishStep(t)
  BY <1>4, SlotUntouched, SameSlot, FinishSlot
     DEF FinishStep, Drain, HashedPublish, SameMarks
<1>5. CASE EndStep(t)
  BY <1>5, SlotUntouched, SameSlot DEF EndStep, clear_slot, EmptyManager, SameMarks
<1>6. CASE Request(t) \/ Drop(t) \/ NoLength(t) \/ ShortBody(t) \/ LongBody(t)
  BY <1>6, SlotUntouched, SameSlot DEF SameMarks
<1>. QED
  BY <1>1, <1>2, <1>3, <1>4, <1>5, <1>6 DEF ThreadNext, ThreadStep
-----------------------------------------------------------------------------
(* The finalizing marker and the count of direct writes.                   *)

(* Thread t will clear the marker: it runs clear_slot, or finishes the     *)
(* upload that is in the slot.                                             *)
InCharge(t) == \/ pc[t] \in {"clear", "clearing"}
               \/ pc[t] \in {"cdrain", "hashing", "hashed"} /\ req[t].id = slot.id
MarkerOwned == slot.finalizing => slot.occupied /\ \E t \in Threads : InCharge(t)

(* A counted direct write is the one a handler is making.                  *)
Writing(t)  == pc[t] \in {"dio", "dwrote"}
WritesOwned == slot.writes # 0 => slot.writes = 1 /\ \E t \in Threads : Writing(t)

(* A step of t passes the responsibility on, or keeps what others have.    *)
MarkerStep(t) ==
    slot'.finalizing => /\ slot'.occupied
                        /\ \/ InCharge(t)'
                           \/ slot.finalizing /\ slot'.id = slot.id /\ ~InCharge(t)
WritesStep(t) ==
    slot'.writes # 0 => slot'.writes = 1 /\ (Writing(t)' \/ (slot.writes # 0 /\ ~Writing(t)))

(* A step of t that leaves the marks alone is sound unless t was in charge. *)
LEMMA BystanderStep ==
    ASSUME NEW t \in Threads, MarkerOwned, WritesOwned, SameMarks
    PROVE  /\ ~InCharge(t) \/ InCharge(t)' => MarkerStep(t)
           /\ ~Writing(t) \/ Writing(t)' => WritesStep(t)
BY DEF MarkerOwned, WritesOwned, SameMarks, SameUpload, MarkerStep, WritesStep

(* The labels at which a handler is in charge of nothing.                  *)
LEMMA Bystander ==
    ASSUME NEW t \in Threads, pc[t] \in {"idle", "call", "body", "room", "drain"}
    PROVE  ~InCharge(t) /\ ~Writing(t)
BY DEF InCharge, Writing

(* The marks, call by call.                                                *)
LEMMA EndMarks ==
    ASSUME Inv, NEW t \in Threads, MarkerOwned, WritesOwned, EndStep(t)
    PROVE  MarkerStep(t) /\ WritesStep(t)
<1>1. CASE Cancel(t) \/ Abort(t) \/ Status(t) \/ Reap(t)
  <2>1. pc[t] \in {"call", "body"}
    BY <1>1 DEF Cancel, Abort, Status, Reap, Body
  <2>. QED
    BY <1>1, <2>1, Bystander, BystanderStep, SlotUntouched, SameSlot
<1>2. CASE ClearWait(t)
  <2>1. pc'[t] = "clearing" /\ pc[t] = "clear"
    BY <1>2, GotoEffect, InvParts DEF ClearWait
  <2>. QED
    BY <1>2, <2>1, BystanderStep, SlotUntouched, SameSlot DEF InCharge, Writing
<1>3. CASE clear_slot(t)
  <2>1. slot' = EmptySlot
    BY <1>3 DEF clear_slot, EmptyManager
  <2>. QED
    BY <2>1 DEF EmptySlot, MarkerStep, WritesStep
<1>. QED
  BY <1>1, <1>2, <1>3 DEF EndStep

LEMMA PrepareMarks ==
    ASSUME Inv, NEW t \in Threads, MarkerOwned, WritesOwned, PrepareStep(t)
    PROVE  MarkerStep(t) /\ WritesStep(t)
<1>0. pc[t] \in {"call", "body"}
  BY DEF PrepareStep, PrepareSupersede, PrepareBusy, PrepareRefuse, PrepareUndo, PrepareOk,
         CanPrepare, Body
<1>1. CASE PrepareSupersede(t) \/ PrepareBusy(t) \/ PrepareRefuse(t)
  BY <1>0, <1>1, Bystander, BystanderStep, SlotUntouched, SameSlot
<1>2. CASE PrepareOk(t) \/ PrepareUndo(t)
  <2>1. ~slot'.finalizing /\ slot'.writes = slot.writes
    BY <1>2, PrepareSlot DEF MarkerOwned
  <2>. QED
    BY <1>0, <2>1, Bystander DEF MarkerStep, WritesStep, WritesOwned
<1>. QED
  BY <1>1, <1>2 DEF PrepareStep

LEMMA TransferMarks ==
    ASSUME Inv, NEW t \in Threads, MarkerOwned, WritesOwned,
           \/ StreamStep(t) \/ ChunkStep(t)
           \/ Request(t) \/ Drop(t) \/ NoLength(t) \/ ShortBody(t) \/ LongBody(t)
    PROVE  MarkerStep(t) /\ WritesStep(t)
<1>1. CASE DirectBegin(t)
  <2>1. pc'[t] = "dio" /\ pc[t] \in {"call", "body"}
    BY <1>1, GotoEffect, InvParts DEF DirectBegin, Body
  <2>. QED
    BY <1>1, <2>1, DirectSlot, Bystander
       DEF MarkerStep, WritesStep, Writing, MarkerOwned, SameUpload
<1>2. CASE DirectIO(t)
  <2>1. pc'[t] = "dwrote" /\ pc[t] = "dio"
    BY <1>2, InvParts DEF DirectIO, ControlOK
  <2>. QED
    BY <1>2, <2>1, BystanderStep, SlotUntouched, SameSlot DEF InCharge, Writing
<1>3. CASE DirectEnd(t)
  <2>1. slot'.writes = 0 /\ slot'.finalizing = slot.finalizing /\ SameUpload
    BY <1>3, DirectSlot DEF WritesOwned
  <2>2. ~InCharge(t)
    BY <1>3 DEF DirectEnd, InCharge
  <2>. QED
    BY <2>1, <2>2 DEF MarkerStep, WritesStep, MarkerOwned, SameUpload
<1>4. CASE \/ BeginOk(t) \/ BeginRefused(t) \/ EnableOk(t) \/ EnableRefused(t)
           \/ WriteWait(t) \/ WriteCopy(t) \/ WriteFail(t) \/ DirectRefused(t) \/ ChunkStep(t)
           \/ Request(t) \/ Drop(t) \/ NoLength(t) \/ ShortBody(t) \/ LongBody(t)
  <2>1. SameMarks
    BY <1>4, SlotUntouched, SameSlot, TransferSlot
  <2>2. CASE \/ BeginOk(t) \/ BeginRefused(t) \/ EnableOk(t) \/ EnableRefused(t)
             \/ WriteWait(t) \/ WriteCopy(t) \/ WriteFail(t) \/ DirectRefused(t)
             \/ Request(t) \/ Drop(t) \/ NoLength(t) \/ ShortBody(t) \/ LongBody(t)
    <3>1. pc[t] \in {"idle", "call", "body", "room"}
      BY <2>2 DEF BeginOk, BeginRefused, EnableOk, EnableRefused, WriteWait, WriteCopy,
                  WriteFail, DirectRefused, InWriteLoop, Body, Request, Drop, NoLength, ShortBody,
                  LongBody
    <3>. QED
      BY <2>1, <3>1, Bystander, BystanderStep
  <2>3. CASE ChunkStep(t)
    <3>1. pc[t] \in {"call", "body"}
      BY <2>3 DEF ChunkStep, ChunkBeginOk, ChunkBeginRefused, ChunkWriteOk, ChunkWriteFail,
                  ChunkFinishOk, ChunkFinishFail, ChunkAbort, Body
    <3>. QED
      BY <2>1, <3>1, Bystander, BystanderStep
  <2>. QED
    BY <1>4, <2>2, <2>3
<1>. QED
  BY <1>1, <1>2, <1>3, <1>4 DEF StreamStep

LEMMA FinishMarks ==
    ASSUME Inv, NEW t \in Threads, Handler(t), MarkerOwned, WritesOwned, FinishStep(t)
    PROVE  MarkerStep(t) /\ WritesStep(t)
<1>1. CASE FinishRefused(t) \/ FlushNothing(t) \/ Flush(t) \/ DrainFail(t) \/ CompleteRefused(t)
  <2>1. pc[t] \in {"call", "body", "drain"}
    BY <1>1 DEF FinishRefused, FlushNothing, Flush, FinishQueued, DrainFail, At,
                CompleteRefused, Body
  <2>. QED
    BY <1>1, <2>1, Bystander, BystanderStep, SlotUntouched, SameSlot
<1>2. CASE FinishDirect(t) \/ CompleteBegin(t)
  <2>1. /\ pc[t] \in {"call", "body"} /\ pc'[t] \in {"cdrain", "hashing"}
        /\ slot.occupied /\ req[t].id = slot.id
    BY <1>2, GotoEffect, InvParts
       DEF FinishDirect, CompleteBegin, Body, Finishable, Completable, Started, Found
  <2>2. req'[t].id = req[t].id
    <3>1. CASE CompleteBegin(t)
      BY <3>1 DEF CompleteBegin
    <3>2. CASE FinishDirect(t)
      BY <3>2, LocalSteps DEF SameCall, SameRequest
    <3>. QED
      BY <1>2, <3>1, <3>2
  <2>3. SameUpload /\ slot'.writes = slot.writes
    BY <1>2, FinishSlot
  <2>. QED
    BY <2>1, <2>2, <2>3, Bystander
       DEF MarkerStep, WritesStep, WritesOwned, InCharge, Writing, SameUpload
<1>3. CASE CompleteDrained(t)
  <2>1. pc[t] = "cdrain" /\ pc'[t] = "hashing"
    BY <1>3, GotoEffect, InvParts DEF CompleteDrained, At
  <2>2. req'[t].id = req[t].id
    BY <1>3, LocalSteps DEF SameCall, SameRequest
  <2>3. SameMarks
    BY <1>3, SlotUntouched, SameSlot
  <2>. QED
    BY <2>1, <2>2, <2>3, BystanderStep DEF InCharge, Writing, SameMarks, SameUpload
<1>4. CASE hash_part_file(t)
  <2>1. req'[t].id = req[t].id
    BY <1>4, LocalSteps DEF SameCall, SameRequest
  <2>2. pc[t] = "hashing" /\ pc'[t] = "hashed"
    BY <1>4, InvParts DEF hash_part_file, ControlOK
  <2>3. SameMarks
    BY <1>4, SlotUntouched, SameSlot
  <2>. QED
    BY <2>1, <2>2, <2>3, BystanderStep DEF InCharge, Writing, SameMarks, SameUpload
<1>5. CASE CompleteDrainFail(t)
  <2>1. pc[t] = "cdrain" /\ (Found(t) => pc'[t] = "clear")
    BY <1>5, ClearThenEffect, InvParts DEF CompleteDrainFail, At
  <2>2. SameMarks
    BY <1>5, SlotUntouched, SameSlot
  <2>3. ~InCharge(t) \/ InCharge(t)' \/ ~slot.finalizing
    BY <2>1 DEF InCharge, Found, MarkerOwned
  <2>. QED
    BY <2>1, <2>2, <2>3, BystanderStep DEF Writing, MarkerStep, SameMarks
<1>6. CASE HashedLost(t)
  <2>1. SameUpload /\ slot'.writes = slot.writes
    BY <1>6, FinishSlot
  <2>2. CASE slot' = [slot EXCEPT !.finalizing = FALSE]
    <3>1. ~slot'.finalizing
      BY <2>2 DEF Inv, TypeOK, Slot
    <3>. QED
      BY <1>6, <2>1, <3>1 DEF MarkerStep, WritesStep, WritesOwned, Writing, HashedLost
  <2>3. CASE ClearThen(t, TRUE, "return") /\ UNCHANGED slot
    <3>1. pc'[t] = "clear" /\ pc[t] = "hashed"
      BY <1>6, <2>3, ClearThenEffect, InvParts DEF HashedLost
    <3>. QED
      BY <2>3, <3>1, BystanderStep, SameSlot DEF InCharge, Writing
  <2>. QED
    BY <1>6, <2>2, <2>3 DEF HashedLost
<1>7. CASE HashedError(t) \/ HashedPublish(t) \/ Drain(t)
  <2>1. /\ pc'[t] = "clear" /\ ~Writing(t)
        /\ SameUpload /\ slot'.writes = slot.writes
    <3>1. CASE HashedError(t)
      BY <3>1, ClearThenEffect, InvParts, FinishSlot DEF HashedError, Writing
    <3>2. CASE HashedPublish(t) \/ Drain(t)
      <4>1. PICK digest : PublishOk(t, digest) \/ PublishFail(t, digest)
        BY <3>2 DEF HashedPublish, Drain
      <4>2. pc'[t] = "clear"
        BY <4>1, ClearThenEffect, InvParts DEF PublishOk, PublishFail
      <4>. QED
        BY <3>2, <4>1, <4>2, FinishSlot DEF HashedPublish, Drain, At, Writing
    <3>. QED
      BY <1>7, <3>1, <3>2
  <2>2. slot'.finalizing => slot.occupied
    <3>1. CASE HashedError(t) \/ HashedPublish(t)
      BY <3>1 DEF HashedError, HashedPublish, StillFinalizing, Found
    <3>2. CASE Drain(t)
      <4>1. slot'.finalizing => slot.finalizing
        <5>1. slot \in Slot
          BY DEF Inv, TypeOK
        <5>2. PICK digest : PublishOk(t, digest) \/ PublishFail(t, digest)
          BY <3>2 DEF Drain
        <5>3. CASE PublishOk(t, digest)
          BY <5>1, <5>3 DEF PublishOk, Slot
        <5>4. CASE PublishFail(t, digest)
          <6>1. \E fd \in {0, slot.fd} :
                  slot' = [slot EXCEPT !.fd = fd,
                                       !.finalizing = @ /\ req[t].op # "complete"]
            BY <5>4 DEF PublishFail
          <6>. QED
            BY <5>1, <6>1, Zenon DEF Slot
        <5>. QED
          BY <5>2, <5>3, <5>4
      <4>. QED
        BY <4>1 DEF MarkerOwned
    <3>. QED
      BY <1>7, <3>1, <3>2
  <2>. QED
    BY <2>1, <2>2 DEF MarkerStep, WritesStep, WritesOwned, InCharge, SameUpload
<1>. QED
  BY <1>1, <1>2, <1>3, <1>4, <1>5, <1>6, <1>7 DEF FinishStep

(* The marks stay owned, whichever handler moves.                          *)
LEMMA MarksKept ==
    ASSUME Inv, Handlers, MarkerOwned, WritesOwned, [Next]_vars
    PROVE  MarkerOwned' /\ WritesOwned'
<1>1. ASSUME NEW t \in Threads, ThreadNext(t)
      PROVE  MarkerOwned' /\ WritesOwned'
  <2>1. MarkerStep(t) /\ WritesStep(t) /\ Others(t)
    BY <1>1, EndMarks, PrepareMarks, TransferMarks, FinishMarks, ThreadMoves
       DEF ThreadNext, ThreadStep, Handlers, Moves
  <2>2. MarkerOwned'
    <3>1. SUFFICES ASSUME slot'.finalizing
                   PROVE  slot'.occupied /\ \E u \in Threads : InCharge(u)'
      BY DEF MarkerOwned
    <3>2. CASE InCharge(t)'
      BY <2>1, <3>1, <3>2 DEF MarkerStep
    <3>3. CASE slot.finalizing /\ slot'.id = slot.id /\ ~InCharge(t)
      <4>1. PICK u \in Threads : InCharge(u)
        BY <3>3 DEF MarkerOwned
      <4>2. pc'[u] = pc[u] /\ req'[u] = req[u]
        BY <2>1, <3>3, <4>1 DEF Others
      <4>3. InCharge(u)'
        BY <3>3, <4>1, <4>2 DEF InCharge
      <4>. QED
        BY <2>1, <3>1, <4>3 DEF MarkerStep
    <3>. QED
      BY <2>1, <3>1, <3>2, <3>3 DEF MarkerStep
  <2>3. WritesOwned'
    <3>1. SUFFICES ASSUME slot'.writes # 0
                   PROVE  slot'.writes = 1 /\ \E u \in Threads : Writing(u)'
      BY DEF WritesOwned
    <3>2. CASE Writing(t)'
      BY <2>1, <3>1, <3>2 DEF WritesStep
    <3>3. CASE slot.writes # 0 /\ ~Writing(t)
      <4>1. PICK u \in Threads : Writing(u)
        BY <3>3 DEF WritesOwned
      <4>2. pc'[u] = pc[u]
        BY <2>1, <3>3, <4>1 DEF Others
      <4>3. Writing(u)'
        BY <4>1, <4>2 DEF Writing
      <4>. QED
        BY <2>1, <3>1, <4>3 DEF WritesStep
    <3>. QED
      BY <2>1, <3>1, <3>2, <3>3 DEF WritesStep
  <2>. QED
    BY <2>2, <2>3
<1>2. CASE OutsideStep
  <2>1. pc' = pc /\ req' = req
    BY <1>2, OutsideControl
  <2>2. CASE slot'.finalizing = slot.finalizing /\ slot'.writes = slot.writes
             /\ slot'.occupied = slot.occupied /\ slot'.id = slot.id
    BY <2>1, <2>2 DEF MarkerOwned, WritesOwned, InCharge, Writing
  <2>3. CASE slot' = EmptySlot
    BY <2>3 DEF EmptySlot, MarkerOwned, WritesOwned
  <2>4. CASE WriterStep \/ ForeignCreate \/ DestroyBegin \/ UNCHANGED vars
    <3>1. slot' = slot
      BY <2>4 DEF WriterStep, WriterTake, WriterIO, WriterDone, WriterExit, ForeignCreate,
                  DestroyBegin, vars
    <3>. QED
      BY <2>2, <3>1
  <2>5. CASE LeaseExpires
    <3>1. slot' = [slot EXCEPT !.stale = TRUE] /\ slot \in Slot
      BY <2>5 DEF LeaseExpires, Inv, TypeOK
    <3>2. slot'.finalizing = slot.finalizing /\ slot'.writes = slot.writes
          /\ slot'.occupied = slot.occupied /\ slot'.id = slot.id
      BY <3>1 DEF Slot
    <3>. QED
      BY <2>2, <3>2
  <2>6. CASE DestroyEnd
    BY <2>3, <2>6 DEF DestroyEnd, EmptyManager
  <2>. QED
    BY <1>2, <2>4, <2>5, <2>6 DEF OutsideStep
<1>. QED
  BY <1>1, <1>2, NextCases

(* The handlers and the marks together are inductive on top of Inv.        *)
Control == Inv /\ Handlers /\ MarkerOwned /\ WritesOwned

LEMMA ControlInit == Init => Control
BY InitInv, HandlersInit DEF Control, Init, MarkerOwned, WritesOwned, EmptySlot

LEMMA ControlNext == Control /\ [Next]_vars => Control'
BY NextKeepsInv, HandlersKept, MarksKept DEF Control

LEMMA ControlHolds == Spec => []Control
BY ControlInit, ControlNext, PTL DEF Spec

(* upload_manager_destroy never waits for a marker that nobody will clear: *)
(* once every handler has returned, finalizing is reset and no direct      *)
(* write is counted, whatever was lost, cancelled, expired or refused on   *)
(* the way.                                                                *)
THEOREM ShutdownProceeds == Spec => []ShutdownNotBlocked
<1>1. Control => ShutdownNotBlocked
  BY DEF Control, MarkerOwned, WritesOwned, InCharge, Writing, ShutdownNotBlocked, AllIdle
<1>. QED
  BY <1>1, ControlHolds, PTL
-----------------------------------------------------------------------------
(* The file limit.  completed_files is compared with the limit when a file *)
(* is prepared and incremented when it is published, in two handlers; what *)
(* connects the two is that the slot has one upload at a time.  A write    *)
(* buffer that is still on its way when a preparation is undone lets a     *)
(* cancelled sequential stream publish the undone part file, so one of the *)
(* two is excluded here.                                                   *)
NoUndoUnderStream == "stream" \notin Kinds \/ "disk" \notin Faults

(* While an upload is in the slot with its descriptor open, the counter is *)
(* that of its token and has room for one more file.                       *)
RoomReserved ==
    /\ slot.occupied => slot.name \in Names
    /\ slot.occupied /\ slot.fd # 0 => Token(slot.auth) = quota.auth /\ quota.count < MaxFiles
(* Without disk faults only an upload in the slot has a descriptor.        *)
DescriptorOccupied == "disk" \notin Faults => (slot.fd # 0 => slot.occupied)
(* Without sequential streams every stream is direct.                      *)
Direct(t) ==
    /\ req[t].op # "write" /\ pc[t] \notin {"room", "drain"}
    /\ req[t].op \in {"dwrite", "finish"} /\ Found(t) => slot.direct
AllDirect == "stream" \notin Kinds => \A t \in Threads : Direct(t)

QuotaInv == Control /\ QuotaRespected /\ RoomReserved /\ DescriptorOccupied /\ AllDirect

Charged(files, auth) == {n \in Names : files[n].owner = "upload" /\ Token(files[n].auth) = auth}

(* The files charged to a session are finitely many.                       *)
LEMMA ChargedFinite ==
    ASSUME NEW files, NEW auth
    PROVE  IsFiniteSet(Charged(files, auth)) /\ Cardinality(Charged(files, auth)) \in Nat
<1>1. IsFiniteSet(Names)
  BY SizesAssumption, FS_Interval DEF Names
<1>2. Charged(files, auth) \in SUBSET Names
  BY DEF Charged
<1>. QED
  BY <1>1, <1>2, FS_Subset, FS_CardinalityType

(* QuotaRespected in terms of Charged.                                     *)
LEMMA QuotaCharged ==
    /\ QuotaRespected <=> /\ quota.count <= MaxFiles
                          /\ quota.count <= Cardinality(Charged(disk.files, quota.auth))
    /\ QuotaRespected' <=> /\ quota'.count <= MaxFiles
                           /\ quota'.count <= Cardinality(Charged(disk'.files, quota'.auth))
BY DEF QuotaRespected, Charged, Token

(* The counter that upload_prepare looks at.                               *)
LEMMA QuotaForKeeps ==
    ASSUME Inv, QuotaRespected, NEW auth \in Auths \cup {NoAuth}
    PROVE  /\ QuotaFor(auth).auth = auth /\ QuotaFor(auth).count \in Nat
           /\ QuotaFor(auth).count <= MaxFiles
           /\ QuotaFor(auth).count <= Cardinality(Charged(disk.files, auth))
<1>1. quota \in [auth : Auths \cup {NoAuth}, count : Nat] /\ MaxFiles \in Nat
  BY SizesAssumption DEF Inv, TypeOK
<1>2. CASE quota.auth = auth
  BY <1>1, <1>2, QuotaCharged DEF QuotaFor
<1>3. CASE quota.auth # auth
  <2>1. QuotaFor(auth) = [auth |-> auth, count |-> 0]
    BY <1>3 DEF QuotaFor
  <2>2. 0 <= Cardinality(Charged(disk.files, auth))
    BY ChargedFinite
  <2>. QED
    BY <1>1, <2>1, <2>2
<1>. QED
  BY <1>2, <1>3

(* Writing, creating and removing part files leaves the published alone.   *)
LEMMA PartUpdate ==
    ASSUME NEW d \in Disk
    PROVE  /\ \A x : [d EXCEPT !.linked = x].files = d.files
           /\ \A x : [d EXCEPT !.data = x].files = d.files
BY DEF Disk

LEMMA WriteKeepsFiles ==
    ASSUME disk \in Disk, NEW data, NEW ok, write_all(data, ok)
    PROVE  disk'.files = disk.files
<1>1. \/ disk' = disk
      \/ \E x : disk' = [disk EXCEPT !.data = [disk.data EXCEPT ![slot.fd] = x]]
  BY DEF write_all
<1>2. ASSUME NEW x, disk' = [disk EXCEPT !.data = [disk.data EXCEPT ![slot.fd] = x]]
      PROVE  disk'.files = disk.files
  <2>. DEFINE new == [disk.data EXCEPT ![slot.fd] = x]
  <2>1. disk' = [disk EXCEPT !.data = new]
    BY <1>2
  <2>. HIDE DEF new
  <2>. QED
    BY <2>1, PartUpdate
<1>. QED
  BY <1>1, <1>2

LEMMA ClearKeepsFiles ==
    ASSUME disk \in Disk, NEW remove
    PROVE  ClearedDisk(remove).files = disk.files
<1>. DEFINE linked == disk.linked \ {slot.part}
            data   == [disk.data EXCEPT ![slot.part] = <<>>]
<1>1. \/ ClearedDisk(remove) = disk
      \/ ClearedDisk(remove) = [disk EXCEPT !.linked = linked, !.data = data]
  BY DEF ClearedDisk
<1>. HIDE DEF linked, data
<1>. QED
  BY <1>1 DEF Disk

(* The files charged to a session change only when one is published.       *)
LEMMA FilesCases ==
    ASSUME Inv, NEW t \in Threads, ThreadNext(t)
    PROVE  \/ disk'.files = disk.files /\ quota' = quota
           \/ disk'.files = disk.files /\ (PrepareRefuse(t) \/ PrepareUndo(t) \/ PrepareOk(t))
           \/ (Drain(t) \/ HashedPublish(t)) /\ \E digest : PublishOk(t, digest)
<1>0. disk \in Disk
  BY InvParts DEF RestOK
<1>1. CASE PrepareStep(t)
  <2>1. CASE PrepareUndo(t) \/ PrepareOk(t)
    <3>1. disk' = [disk EXCEPT !.linked = disk.linked \cup {nextId}]
      BY <2>1 DEF PrepareUndo, PrepareOk
    <3>. QED
      BY <1>0, <2>1, <3>1, PartUpdate
  <2>. QED
    BY <1>1, <2>1 DEF PrepareStep, PrepareSupersede, PrepareBusy, PrepareRefuse, dataVars
<1>2. CASE StreamStep(t)
  <2>1. CASE DirectIO(t)
    BY <1>0, <2>1, WriteKeepsFiles DEF DirectIO
  <2>. QED
    BY <1>2, <2>1 DEF StreamStep, BeginOk, BeginRefused, EnableOk, EnableRefused, WriteWait,
                 WriteCopy, WriteFail, DirectBegin, DirectRefused, DirectEnd, dataVars
<1>3. CASE ChunkStep(t)
  BY <1>3 DEF ChunkStep, ChunkBeginOk, ChunkBeginRefused, ChunkWriteOk, ChunkWriteFail,
              ChunkFinishOk, ChunkFinishFail, ChunkAbort, dataVars
<1>4. CASE FinishStep(t)
  BY <1>4 DEF FinishStep, FinishRefused, FinishDirect, FlushNothing, Flush, DrainFail, Drain,
              CompleteRefused, CompleteBegin, CompleteDrained, CompleteDrainFail,
              hash_part_file, HashedLost, HashedError, HashedPublish, PublishFail, dataVars
<1>5. CASE EndStep(t)
  <2>1. CASE clear_slot(t)
    BY <1>0, <2>1, ClearKeepsFiles DEF clear_slot, EmptyManager
  <2>. QED
    BY <1>5, <2>1 DEF EndStep, Cancel, Abort, Status, Reap, ClearWait, dataVars
<1>6. CASE Request(t) \/ Drop(t) \/ NoLength(t) \/ ShortBody(t) \/ LongBody(t)
  BY <1>6 DEF Request, Drop, NoLength, ShortBody, LongBody, dataVars
<1>. QED
  BY <1>1, <1>2, <1>3, <1>4, <1>5, <1>6 DEF ThreadNext, ThreadStep

(* What is published is the upload in the slot, which has room reserved.   *)
PublishesSlot ==
    \A t \in Threads : \A digest :
        (Drain(t) \/ HashedPublish(t)) /\ PublishOk(t, digest) => slot.occupied
LEMMA PublishReserved ==
    ASSUME QuotaInv, NoUndoUnderStream
    PROVE  PublishesSlot
<1>. SUFFICES ASSUME NEW t \in Threads, NEW digest,
                     Drain(t) \/ HashedPublish(t), PublishOk(t, digest)
              PROVE  slot.occupied
  BY DEF PublishesSlot
<1>1. slot.fd # 0
  BY DEF PublishOk
<1>2. CASE HashedPublish(t)
  BY <1>1, <1>2 DEF HashedPublish, StillFinalizing, Found
<1>3. CASE Drain(t)
  <2>1. "disk" \notin Faults
    BY <1>3 DEF Drain, At, QuotaInv, AllDirect, Direct, NoUndoUnderStream
  <2>. QED
    BY <1>1, <2>1 DEF QuotaInv, DescriptorOccupied
<1>. QED
  BY <1>2, <1>3

(* Publication charges the file to the session the counter belongs to.     *)
LEMMA PublishKeepsQuota ==
    ASSUME QuotaInv, NEW t \in Threads, NEW digest, PublishOk(t, digest),
           slot.occupied, slot.fd # 0
    PROVE  QuotaRespected' /\ RoomReserved'
<1>0. /\ disk \in Disk /\ slot \in Slot /\ MaxFiles \in Nat
      /\ quota \in [auth : Auths \cup {NoAuth}, count : Nat]
  BY InvParts, SizesAssumption DEF QuotaInv, Control, RestOK, SlotOK
<1>1. /\ slot.name \in Names /\ Token(slot.auth) = quota.auth /\ quota.count < MaxFiles
      /\ disk.files[slot.name] = NoFile
  BY DEF QuotaInv, RoomReserved, PublishOk, publish_part
<1>. DEFINE file == [owner |-> "upload", id |-> slot.id, auth |-> slot.auth, size |-> slot.size,
                     hash |-> slot.hash, data |-> disk.data[slot.part]]
            files == [disk.files EXCEPT ![slot.name] = file]
<1>2. disk'.files = files
  <2>1. disk' = [disk EXCEPT !.files[slot.name] = file, !.linked = @ \ {slot.part},
                             !.data[slot.part] = <<>>]
    BY DEF PublishOk, publish_part
  <2>2. disk' = [disk EXCEPT !.files = files, !.linked = disk.linked \ {slot.part},
                             !.data = [disk.data EXCEPT ![slot.part] = <<>>]]
    BY <2>1
  <2>. HIDE DEF files
  <2>. QED
    BY <1>0, <2>2 DEF Disk
<1>3. quota' = [quota EXCEPT !.count = @ + 1]
  BY DEF PublishOk
<1>4. quota'.auth = quota.auth /\ quota'.count = quota.count + 1
  BY <1>0, <1>3
<1>5. Charged(files, quota.auth) = Charged(disk.files, quota.auth) \cup {slot.name}
      /\ slot.name \notin Charged(disk.files, quota.auth)
  <2>1. disk.files \in [Names -> File]
    BY <1>0, DiskFields
  <2>2. file.owner = "upload" /\ Token(file.auth) = quota.auth /\ NoFile.owner # "upload"
    BY <1>1 DEF NoFile
  <2>. HIDE DEF file
  <2>. QED
    BY <1>1, <2>1, <2>2 DEF Charged
<1>6. Cardinality(Charged(files, quota.auth)) = Cardinality(Charged(disk.files, quota.auth)) + 1
  BY <1>5, ChargedFinite, FS_AddElement
<1>7. QuotaRespected'
  <2>. HIDE DEF files
  <2>1. quota.count <= Cardinality(Charged(disk.files, quota.auth))
        /\ Cardinality(Charged(disk.files, quota.auth)) \in Nat
    BY QuotaCharged, ChargedFinite DEF QuotaInv
  <2>. QED
    BY <1>0, <1>1, <1>2, <1>4, <1>6, <2>1, QuotaCharged
<1>8. RoomReserved'
  <2>1. slot' = [slot EXCEPT !.fd = 0]
    BY DEF PublishOk
  <2>2. slot'.fd = 0 /\ slot'.name = slot.name
    BY <1>0, <2>1 DEF Slot
  <2>. QED
    BY <1>1, <2>2 DEF RoomReserved
<1>. QED
  BY <1>7, <1>8

(* upload_prepare takes the counter of the session that asks.              *)
LEMMA PrepareKeepsQuota ==
    ASSUME QuotaInv, NEW t \in Threads, PrepareRefuse(t) \/ PrepareUndo(t) \/ PrepareOk(t),
           disk'.files = disk.files
    PROVE  QuotaRespected' /\ RoomReserved'
<1>0. Inv /\ req[t].auth \in Auths \cup {NoAuth} /\ Token(req[t].auth) \in Auths \cup {NoAuth}
  BY IdsAreNumbers DEF QuotaInv, Control, Req, Token
<1>1. quota' = QuotaFor(Token(req[t].auth))
  BY DEF PrepareRefuse, PrepareUndo, PrepareOk
<1>2. QuotaRespected'
  BY <1>0, <1>1, QuotaForKeeps, QuotaCharged DEF QuotaInv
<1>3. CASE PrepareRefuse(t)
  BY <1>2, <1>3 DEF RoomReserved, PrepareRefuse
<1>4. CASE PrepareOk(t)
  <2>1. Token(slot'.auth) = quota'.auth /\ slot'.name \in Names
    BY <1>0, <1>1, <1>4, PrepareSlot, QuotaForKeeps DEF FreeNames, QuotaInv
  <2>2. quota'.count < MaxFiles
    BY <1>1, <1>4 DEF PrepareOk, CanPrepare
  <2>. QED
    BY <1>2, <2>1, <2>2 DEF RoomReserved
<1>5. CASE PrepareUndo(t) /\ ~PrepareOk(t)
  BY <1>0, <1>2, <1>5, PrepareSlot DEF RoomReserved
<1>. QED
  BY <1>3, <1>4, <1>5

(* The file limit survives a step of a handler.                            *)
LEMMA ThreadKeepsQuota ==
    ASSUME QuotaInv, PublishesSlot, NEW t \in Threads, ThreadNext(t)
    PROVE  QuotaRespected' /\ RoomReserved' /\ DescriptorOccupied'
<1>0. Inv
  BY DEF QuotaInv, Control
<1>1. DescriptorOccupied'
  <2>1. CASE SameUpload
    BY <2>1 DEF SameUpload, QuotaInv, DescriptorOccupied
  <2>2. CASE slot' = EmptySlot
    BY <2>2 DEF EmptySlot, DescriptorOccupied
  <2>3. CASE PrepareOk(t) \/ PrepareUndo(t)
    BY <1>0, <2>3, PrepareSlot DEF DescriptorOccupied
  <2>. QED
    BY <1>0, <2>1, <2>2, <2>3, SlotCases
<1>2. CASE disk'.files = disk.files /\ quota' = quota
  <2>1. QuotaRespected'
    BY <1>2, QuotaCharged DEF QuotaInv
  <2>2. CASE SameUpload
    BY <1>1, <1>2, <2>1, <2>2 DEF SameUpload, QuotaInv, RoomReserved
  <2>3. CASE slot' = EmptySlot
    BY <1>1, <2>1, <2>3 DEF EmptySlot, RoomReserved
  <2>4. CASE PrepareOk(t) \/ PrepareUndo(t)
    BY <1>1, <1>2, <2>4, PrepareKeepsQuota
  <2>. QED
    BY <1>0, <1>1, <2>1, <2>2, <2>3, <2>4, SlotCases
<1>3. CASE disk'.files = disk.files /\ (PrepareRefuse(t) \/ PrepareUndo(t) \/ PrepareOk(t))
  BY <1>1, <1>3, PrepareKeepsQuota
<1>4. CASE (Drain(t) \/ HashedPublish(t)) /\ \E digest : PublishOk(t, digest)
  <2>1. PICK digest : PublishOk(t, digest)
    BY <1>4
  <2>2. slot.occupied /\ slot.fd # 0
    BY <1>4, <2>1 DEF PublishesSlot, PublishOk
  <2>. QED
    BY <1>1, <2>1, <2>2, PublishKeepsQuota
<1>. QED
  BY <1>0, <1>2, <1>3, <1>4, FilesCases

(* Direct streams stay direct.                                             *)
LEMMA ThreadKeepsDirect ==
    ASSUME QuotaInv, NEW t \in Threads, ThreadNext(t)
    PROVE  AllDirect'
<1>. SUFFICES ASSUME "stream" \notin Kinds, NEW u \in Threads
              PROVE  Direct(u)'
  BY DEF AllDirect
<1>0. Inv /\ Handler(t) /\ Handler(u) /\ Direct(t) /\ Direct(u) /\ Others(t)
  BY ThreadMoves DEF QuotaInv, Control, Handlers, AllDirect, Moves, ThreadNext
<1>1. ASSUME NEW v \in Threads, SameCall(v), Direct(v), Handler(v),
             pc'[v] \notin {"room", "drain"}
      PROVE  Direct(v)'
  <2>1. req'[v].op = req[v].op /\ req'[v].id = req[v].id
    BY <1>1 DEF SameCall, SameRequest
  <2>2. Found(v)' => slot'.direct \/ (Found(v) /\ ~slot.direct)
    <3>1. CASE SameUpload
      BY <2>1, <3>1 DEF SameUpload, Found
    <3>2. CASE slot' = EmptySlot
      BY <3>2 DEF EmptySlot, Found
    <3>3. CASE PrepareOk(t) \/ PrepareUndo(t)
      <4>1. slot'.id = nextId /\ req[v].id < nextId
        BY <1>0, <1>1, <3>3, PrepareSlot DEF Handler
      <4>2. slot'.id # req'[v].id
        BY <1>0, <2>1, <4>1, IdsAreNumbers
      <4>. QED
        BY <4>2 DEF Found
    <3>. QED
      BY <1>0, <3>1, <3>2, <3>3, SlotCases
  <2>. QED
    BY <1>1, <2>1, <2>2 DEF Direct
<1>2. CASE u # t
  <2>1. SameCall(u) /\ pc'[u] = pc[u]
    BY <1>0, <1>2 DEF Others, SameCall, SameRequest
  <2>. QED
    BY <1>0, <1>1, <2>1 DEF Direct
<1>3. ASSUME req'[t].op \notin {"write", "dwrite", "finish"}, pc'[t] \notin {"room", "drain"}
      PROVE  Direct(t)'
  BY <1>3 DEF Direct
<1>4. req[t].op \in StreamOps => IsFast(t)
  BY <1>0 DEF Handler, IsFast
<1>5. CASE BeginOk(t)
  <2>1. Call(t, "enable", 0)
    BY <1>4, <1>5 DEF BeginOk, Body, StreamOps
  <2>. QED
    BY <1>0, <1>2, <1>3, <2>1, CallEffect, InvParts
<1>6. CASE EnableOk(t)
  <2>1. Call(t, BodyOp(t, 0), 0) /\ BodyOp(t, 0) # "write" /\ slot'.direct
    BY <1>0, <1>4, <1>6, BodyOpStream DEF EnableOk, Body, StreamOps, Inv, TypeOK, Slot
  <2>2. req'[t].op # "write" /\ pc'[t] = "call"
    BY <1>0, <2>1, CallEffect, InvParts
  <2>. QED
    BY <1>2, <2>1, <2>2 DEF Direct
<1>7. CASE WriteWait(t) \/ WriteCopy(t)
  BY <1>0, <1>7 DEF WriteWait, WriteCopy, InWriteLoop, Body, Direct
<1>8. CASE DirectEnd(t)
  <2>1. req[t].op = "dwrite" /\ IsFast(t) /\ SameUpload
    BY <1>0, <1>4, <1>8, DirectSlot DEF DirectEnd, Handler, StreamOps
  <2>2. PICK op, n : Call(t, op, n) /\ op # "write"
    BY <1>8, <2>1, BodyOpStream DEF DirectEnd
  <2>3. req'[t].op # "write" /\ pc'[t] = "call" /\ req'[t].id = req[t].id
    BY <1>0, <2>2, CallEffect, InvParts DEF SameRequest
  <2>4. Found(t)' => slot'.direct
    BY <1>0, <2>1, <2>3 DEF Found, Direct, SameUpload
  <2>. QED
    BY <1>2, <2>3, <2>4 DEF Direct
<1>9. CASE FlushNothing(t) \/ Flush(t)
  BY <1>0, <1>9 DEF FlushNothing, Flush, FinishQueued, Finishable, Started, Body, Direct
<1>. QED
  BY <1>0, <1>1, <1>2, <1>3, <1>5, <1>6, <1>7, <1>8, <1>9, CallCases

(* Nor do the other steps touch the limit.                                 *)
LEMMA OutsideKeepsQuota ==
    ASSUME QuotaInv, OutsideStep
    PROVE  QuotaRespected' /\ RoomReserved' /\ DescriptorOccupied' /\ AllDirect'
<1>0. /\ slot \in Slot /\ disk \in Disk /\ disk.files \in [Names -> File]
      /\ quota \in [auth : Auths \cup {NoAuth}, count : Nat]
  BY InvParts, DiskFields DEF QuotaInv, Control, SlotOK, RestOK
<1>1. quota' = quota /\ pc' = pc /\ req' = req
  <2>1. quota' = quota
    BY DEF OutsideStep, WriterStep, WriterTake, WriterIO, WriterDone, WriterExit, LeaseExpires,
           ForeignCreate, DestroyBegin, DestroyEnd, EmptyManager, vars
  <2>. QED
    BY <2>1, OutsideControl
<1>2. \/ slot' = EmptySlot
      \/ /\ slot'.occupied = slot.occupied /\ slot'.fd = slot.fd /\ slot'.id = slot.id
         /\ slot'.auth = slot.auth /\ slot'.name = slot.name /\ slot'.direct = slot.direct
  <2>1. slot' = slot \/ slot' = EmptySlot \/ slot' = [slot EXCEPT !.stale = TRUE]
    BY DEF OutsideStep, WriterStep, WriterTake, WriterIO, WriterDone, WriterExit, LeaseExpires,
           ForeignCreate, DestroyBegin, DestroyEnd, EmptyManager, vars
  <2>. QED
    BY <1>0, <2>1 DEF Slot
<1>3. Charged(disk'.files, quota.auth) = Charged(disk.files, quota.auth)
  <2>1. CASE disk'.files = disk.files
    BY <2>1
  <2>2. CASE ForeignCreate
    <3>1. PICK n \in FreeNames : disk' = [disk EXCEPT !.files[n] = Foreign]
      BY <2>2 DEF ForeignCreate
    <3>. DEFINE files == [disk.files EXCEPT ![n] = Foreign]
    <3>2. disk' = [disk EXCEPT !.files = files]
      BY <3>1
    <3>3. disk'.files = files
      <4>. HIDE DEF files
      <4>. QED
        BY <1>0, <3>2 DEF Disk
    <3>4. n \in Names /\ disk.files[n].owner # "upload" /\ Foreign.owner # "upload"
      BY DEF FreeNames, NoFile, Foreign
    <3>. QED
      BY <1>0, <3>3, <3>4 DEF Charged
  <2>3. ~ForeignCreate => disk'.files = disk.files
    <3>1. CASE WriterIO
      BY <1>0, <3>1, WriteKeepsFiles DEF WriterIO
    <3>2. CASE DestroyEnd
      BY <1>0, <3>2, ClearKeepsFiles DEF DestroyEnd, EmptyManager
    <3>. QED
      BY <3>1, <3>2 DEF OutsideStep, WriterStep, WriterTake, WriterDone, WriterExit,
                        LeaseExpires, DestroyBegin, vars
  <2>. QED
    BY <2>1, <2>2, <2>3
<1>4. QuotaRespected'
  BY <1>1, <1>3, QuotaCharged DEF QuotaInv
<1>5. RoomReserved' /\ DescriptorOccupied' /\ AllDirect'
  BY <1>1, <1>2 DEF QuotaInv, RoomReserved, DescriptorOccupied, AllDirect, Direct, Found,
                    EmptySlot
<1>. QED
  BY <1>4, <1>5

(* QuotaInv is inductive as long as what is published is in the slot, so   *)
(* when no preparation is undone under a sequential stream.                *)
LEMMA QuotaStep ==
    ASSUME QuotaInv, PublishesSlot, [Next]_vars
    PROVE  QuotaInv'
<1>1. Control'
  BY ControlNext DEF QuotaInv
<1>2. QuotaRespected' /\ RoomReserved' /\ DescriptorOccupied' /\ AllDirect'
  BY NextCases, OutsideKeepsQuota, ThreadKeepsQuota, ThreadKeepsDirect
<1>. QED
  BY <1>1, <1>2 DEF QuotaInv

LEMMA QuotaNext ==
    ASSUME NoUndoUnderStream
    PROVE  QuotaInv /\ [Next]_vars => QuotaInv'
BY QuotaStep, PublishReserved

LEMMA QuotaInit == Init => QuotaInv
<1>. SUFFICES ASSUME Init PROVE QuotaInv
  OBVIOUS
<1>1. Control
  BY ControlInit
<1>2. QuotaRespected
  BY ChargedFinite, QuotaCharged, SizesAssumption DEF Init
<1>3. RoomReserved /\ DescriptorOccupied /\ AllDirect
  BY DEF Init, RoomReserved, DescriptorOccupied, AllDirect, Direct, EmptySlot, NoReq
<1>. QED
  BY <1>1, <1>2, <1>3 DEF QuotaInv

(* max_files_per_session is never passed, and completed_files never counts *)
(* a file that was not published for the session it is charged to, for any *)
(* number of sessions, handlers, files and names, where no preparation is  *)
(* undone under a sequential stream.                                       *)
THEOREM FileLimit ==
    ASSUME NoUndoUnderStream
    PROVE  Spec => []QuotaRespected
<1>1. QuotaInv => QuotaRespected
  BY DEF QuotaInv
<1>2. QuotaInv /\ [Next]_vars => QuotaInv'
  BY QuotaNext
<1>. QED
  BY <1>1, <1>2, QuotaInit, PTL DEF Spec
=============================================================================
