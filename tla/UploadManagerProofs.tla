------------------------ MODULE UploadManagerProofs ------------------------
(***************************************************************************)
(* Inv is an inductive invariant of UploadManager, for any number of       *)
(* threads, sessions, uploads, chunks and staging buffers, with every kind *)
(* of request and every fault.                                             *)
(***************************************************************************)
EXTENDS UploadManager, FiniteSetTheorems, WellFoundedInduction, TLAPS

(* The three parts of the state that an action changes independently.      *)
ControlOK == /\ mutex \in Threads \cup {NoThread}
             /\ pc \in [Threads -> Labels]
             /\ req \in [Threads -> Req]
StreamOK  == queue \in Seq(Seq(Unit)) /\ buffered \in Seq(Unit)
Disk      == [data : [Ids -> Seq(Unit)], linked : SUBSET Ids, files : [Names -> File]]
RestOK    == /\ quota \in [auth : Auths \cup {NoAuth}, count : Nat]
             /\ disk \in Disk
             /\ nextId \in 1..(MaxUploads + 1)
             /\ life \in {"up", "joining", "gone"}
SlotOK    == slot \in Slot /\ SlotLinks
ChunksOK  == chunk \in ChunkTable /\ StagingWindow /\ ChunkCounters
WriterOK  == writer \in Writer /\ WriterOnChunk

(* Inv is the conjunction of the parts above.                              *)
LEMMA InvParts ==
    Inv <=> ControlOK /\ SlotOK /\ ChunksOK /\ StreamOK /\ WriterOK /\ RestOK
BY DEF Inv, TypeOK, ControlOK, SlotOK, ChunksOK, StreamOK, WriterOK, RestOK, Disk

(* The same of the next state.                                             *)
LEMMA InvPartsPrime ==
    Inv' <=> ControlOK' /\ SlotOK' /\ ChunksOK' /\ StreamOK' /\ WriterOK' /\ RestOK'
BY DEF Inv, TypeOK, ControlOK, SlotOK, ChunksOK, StreamOK, WriterOK, RestOK, Disk

(* The empty sequence is typed.                                            *)
LEMMA EmptyTyped == <<>> \in Seq(Unit) /\ <<>> \in Seq(Seq(Unit))
OBVIOUS

(* Zero is a chunk index, and chunk indices are naturals.                  *)
LEMMA ChunksNat == 0 \in Chunks /\ Chunks \subseteq Nat
BY SizesAssumption DEF Chunks
-----------------------------------------------------------------------------
(* The four ways a handler moves on keep the control state typed.          *)

(* An idle thread's request is typed.                                      *)
LEMMA NoReqType == NoReq \in Req
BY ChunksNat DEF NoReq, Req, Ops, HashModes

(* A handler that returns.                                                 *)
LEMMA ReturnControl ==
    ASSUME ControlOK, NEW t \in Threads, Return(t)
    PROVE  ControlOK'
BY NoReqType DEF ControlOK, Return, Labels

(* A handler that goes on to the manager call op, n units sent.            *)
LEMMA CallControl ==
    ASSUME ControlOK, NEW t \in Threads, NEW op \in Ops, NEW n \in Nat, Call(t, op, n)
    PROVE  ControlOK'
<1>1. \A r \in Req : [r EXCEPT !.op = op, !.sent = n] \in Req
  BY DEF Req
<1>2. req' = [req EXCEPT ![t] = [req[t] EXCEPT !.op = op, !.sent = n]]
  BY DEF Call
<1>3. req' \in [Threads -> Req]
  BY <1>1, <1>2 DEF ControlOK
<1>. QED
  BY <1>3 DEF ControlOK, Call, Labels

(* A handler that stops at a label, with or without the mutex.             *)
LEMMA GotoControl ==
    ASSUME ControlOK, NEW t \in Threads, NEW l \in Labels, NEW held \in BOOLEAN,
           Goto(t, l, held), req' \in [Threads -> Req]
    PROVE  ControlOK'
BY DEF ControlOK, Goto

(* The two locals of a request that calls clear_slot.                      *)
LEMMA ClearReqType ==
    ASSUME NEW r \in Req, NEW remove \in BOOLEAN, NEW then \in {"body", "return"}
    PROVE  [r EXCEPT !.remove = remove, !.then = then] \in Req
BY Zenon DEF Req

(* A handler that calls clear_slot.                                        *)
LEMMA ClearThenControl ==
    ASSUME ControlOK, NEW t \in Threads, NEW remove \in BOOLEAN,
           NEW then \in {"body", "return"}, ClearThen(t, remove, then)
    PROVE  ControlOK'
<1>1. req[t] \in Req /\ [req[t] EXCEPT !.remove = remove, !.then = then] \in Req
  BY ClearReqType DEF ControlOK
<1>2. req' = [req EXCEPT ![t] = [req[t] EXCEPT !.remove = remove, !.then = then]]
  BY DEF ClearThen
<1>3. req' \in [Threads -> Req]
  BY <1>1, <1>2 DEF ControlOK
<1>. QED
  BY <1>3 DEF ControlOK, ClearThen, Labels

(* A step that changes the control state only.                             *)
LEMMA ControlStep ==
    ASSUME Inv, ControlOK', UNCHANGED dataVars
    PROVE  Inv'
<1>. USE InvParts, InvPartsPrime
<1>1. SlotOK' /\ ChunksOK' /\ StreamOK' /\ WriterOK' /\ RestOK'
  BY DEF dataVars, SlotOK, ChunksOK, StreamOK, WriterOK, RestOK,
         SlotLinks, StagingWindow, ChunkCounters, WriterOnChunk
<1>. QED
  BY <1>1

(* A step that changes the control state and the slot, and does not empty  *)
(* the slot.                                                               *)
LEMMA SlotStep ==
    ASSUME Inv, ControlOK', SlotOK', slot.occupied => slot'.occupied,
           UNCHANGED <<chunk, queue, buffered, writer, quota, disk, nextId, life>>
    PROVE  Inv'
<1>. USE InvParts, InvPartsPrime
<1>1. ChunksOK' /\ StreamOK' /\ RestOK'
  BY DEF ChunksOK, StreamOK, RestOK, StagingWindow, ChunkCounters
<1>2. WriterOK'
  BY DEF WriterOK, WriterOnChunk
<1>. QED
  BY <1>1, <1>2
-----------------------------------------------------------------------------
(* Cardinalities of the sets of chunks that StagingWindow and ChunkCounters *)
(* count, when one chunk changes its state.                                *)

In(state, set) == {i \in Chunks : state[i] \in set}

(* Such a set is finite.                                                   *)
LEMMA InFinite ==
    ASSUME NEW state, NEW set
    PROVE  IsFiniteSet(In(state, set)) /\ Cardinality(In(state, set)) \in Nat
<1>1. IsFiniteSet(Chunks)
  BY SizesAssumption, FS_Interval DEF Chunks
<1>2. In(state, set) \in SUBSET Chunks
  BY DEF In
<1>. QED
  BY <1>1, <1>2, FS_Subset, FS_CardinalityType

(* One chunk leaves the set.                                               *)
LEMMA InLoses ==
    ASSUME NEW old, NEW new, NEW set, NEW i,
           i \in In(old, set), In(new, set) = In(old, set) \ {i}
    PROVE  /\ Cardinality(In(new, set)) = Cardinality(In(old, set)) - 1
           /\ Cardinality(In(old, set)) > 0
<1>1. IsFiniteSet(In(old, set)) /\ Cardinality(In(old, set)) \in Nat
  BY InFinite
<1>2. In(old, set) # {}
  OBVIOUS
<1>3. Cardinality(In(old, set)) # 0
  BY <1>1, <1>2, FS_EmptySet
<1>4. Cardinality(In(old, set) \ {i}) = Cardinality(In(old, set)) - 1
  BY <1>1, FS_RemoveElement
<1>5. Cardinality(In(old, set)) > 0
  BY <1>1, <1>3
<1>. QED
  BY <1>4, <1>5

(* One chunk enters the set.                                               *)
LEMMA InGains ==
    ASSUME NEW old, NEW new, NEW set, NEW i,
           i \notin In(old, set), In(new, set) = In(old, set) \cup {i}
    PROVE  Cardinality(In(new, set)) = Cardinality(In(old, set)) + 1
BY InFinite, FS_AddElement

(* StagingWindow and ChunkCounters in terms of In.                         *)
Counted(c) ==
    /\ c.active = Cardinality(In(c.state, {1, 2})) /\ c.active <= ChunkSlots
    /\ c.completed = Cardinality(In(c.state, {2, 3}))
    /\ \A i \in Chunks : c.state[i] = 3 <=> i < c.next

(* ChunksOK is a property of the chunk table alone.                        *)
LEMMA ChunksCounted ==
    /\ ChunksOK <=> chunk \in ChunkTable /\ Counted(chunk)
    /\ ChunksOK' <=> chunk' \in ChunkTable /\ Counted(chunk')
BY DEF ChunksOK, StagingWindow, ChunkCounters, Counted, In

(* The table of a new upload is typed and its counters are exact.          *)
LEMMA EmptyChunksOK == EmptyChunks \in ChunkTable /\ Counted(EmptyChunks)
<1>1. EmptyChunks \in ChunkTable
  <2>1. [i \in Chunks |-> <<>>] \in [Chunks -> Seq(Unit)]
    BY EmptyTyped
  <2>. QED
    BY <2>1 DEF EmptyChunks, ChunkTable
<1>2. In(EmptyChunks.state, {1, 2}) = {} /\ In(EmptyChunks.state, {2, 3}) = {}
  BY DEF In, EmptyChunks
<1>3. \A i \in Chunks : EmptyChunks.state[i] = 3 <=> i < EmptyChunks.next
  BY ChunksNat DEF EmptyChunks
<1>4. EmptyChunks.active = 0 /\ EmptyChunks.completed = 0
  BY DEF EmptyChunks
<1>5. 0 <= ChunkSlots
  BY SizesAssumption
<1>. QED
  BY <1>1, <1>2, <1>3, <1>4, <1>5, FS_EmptySet DEF Counted

(* A chunk table some of whose fields are replaced.                        *)
LEMMA TableType ==
    ASSUME NEW c \in ChunkTable, NEW s \in [Chunks -> 0..3], NEW b \in [Chunks -> Seq(Unit)],
           NEW completed \in Nat, NEW next \in Nat, NEW active \in Nat
    PROVE  /\ [c EXCEPT !.buf = b] \in ChunkTable
           /\ [c EXCEPT !.state = s, !.completed = completed] \in ChunkTable
           /\ [c EXCEPT !.state = s, !.buf = b, !.active = active] \in ChunkTable
           /\ [c EXCEPT !.state = s, !.buf = b, !.next = next, !.active = active] \in ChunkTable
BY DEF ChunkTable

(* The fields of a chunk table are typed.                                  *)
LEMMA TableFields ==
    ASSUME NEW c \in ChunkTable
    PROVE  /\ c.state \in [Chunks -> 0..3] /\ c.buf \in [Chunks -> Seq(Unit)]
           /\ c.completed \in Nat /\ c.next \in Nat /\ c.active \in Nat
BY DEF ChunkTable
-----------------------------------------------------------------------------
(* The transitions of a chunk keep the counters exact.                     *)

(* upload_chunk_begin: a free chunk starts to be received.                 *)
LEMMA CountedOpen ==
    ASSUME NEW c \in ChunkTable, Counted(c), NEW i \in Chunks, c.state[i] = 0,
           c.active < ChunkSlots, NEW d,
           d.state = [c.state EXCEPT ![i] = 1], d.active = c.active + 1,
           d.completed = c.completed, d.next = c.next
    PROVE  Counted(d)
<1>1. c.state \in [Chunks -> 0..3] /\ c.active \in Nat
  BY DEF ChunkTable
<1>2. Cardinality(In(d.state, {1, 2})) = Cardinality(In(c.state, {1, 2})) + 1
  <2>1. i \notin In(c.state, {1, 2})
    BY DEF In
  <2>2. In(d.state, {1, 2}) = In(c.state, {1, 2}) \cup {i}
    BY <1>1 DEF In
  <2>. QED
    BY <2>1, <2>2, InGains
<1>3. In(d.state, {2, 3}) = In(c.state, {2, 3})
  BY <1>1 DEF In
<1>4. \A j \in Chunks : d.state[j] = 3 <=> j < d.next
  BY <1>1, ChunksNat DEF Counted, ChunkTable
<1>. QED
  BY <1>1, <1>2, <1>3, <1>4, SizesAssumption DEF Counted

(* upload_chunk_finish: a received chunk is complete.                      *)
LEMMA CountedFinish ==
    ASSUME NEW c \in ChunkTable, Counted(c), NEW i \in Chunks, c.state[i] = 1, NEW d,
           d.state = [c.state EXCEPT ![i] = 2], d.active = c.active,
           d.completed = c.completed + 1, d.next = c.next
    PROVE  Counted(d)
<1>1. c.state \in [Chunks -> 0..3] /\ c.active \in Nat
  BY DEF ChunkTable
<1>2. In(d.state, {1, 2}) = In(c.state, {1, 2})
  BY <1>1 DEF In
<1>3. Cardinality(In(d.state, {2, 3})) = Cardinality(In(c.state, {2, 3})) + 1
  <2>1. i \notin In(c.state, {2, 3})
    BY DEF In
  <2>2. In(d.state, {2, 3}) = In(c.state, {2, 3}) \cup {i}
    BY <1>1 DEF In
  <2>. QED
    BY <2>1, <2>2, InGains
<1>4. \A j \in Chunks : d.state[j] = 3 <=> j < d.next
  BY <1>1, ChunksNat DEF Counted, ChunkTable
<1>. QED
  BY <1>1, <1>2, <1>3, <1>4, SizesAssumption DEF Counted

(* upload_chunk_abort: a chunk being received is given up.                 *)
LEMMA CountedFree ==
    ASSUME NEW c \in ChunkTable, Counted(c), NEW i \in Chunks, c.state[i] = 1, NEW d,
           d.state = [c.state EXCEPT ![i] = 0],
           d.active = (IF c.active > 0 THEN c.active - 1 ELSE 0),
           d.completed = c.completed, d.next = c.next
    PROVE  Counted(d)
<1>1. c.state \in [Chunks -> 0..3] /\ c.active \in Nat
  BY DEF ChunkTable
<1>2. /\ Cardinality(In(d.state, {1, 2})) = Cardinality(In(c.state, {1, 2})) - 1
      /\ Cardinality(In(c.state, {1, 2})) > 0
  <2>1. i \in In(c.state, {1, 2})
    BY DEF In
  <2>2. In(d.state, {1, 2}) = In(c.state, {1, 2}) \ {i}
    BY <1>1 DEF In
  <2>. QED
    BY <2>1, <2>2, InLoses
<1>3. In(d.state, {2, 3}) = In(c.state, {2, 3})
  BY <1>1 DEF In
<1>4. \A j \in Chunks : d.state[j] = 3 <=> j < d.next
  BY <1>1, ChunksNat DEF Counted, ChunkTable
<1>. QED
  BY <1>1, <1>2, <1>3, <1>4, SizesAssumption DEF Counted

(* upload_writer_main: the next chunk has been written.                    *)
LEMMA CountedWritten ==
    ASSUME NEW c \in ChunkTable, Counted(c), NEW i \in Chunks, c.state[i] = 2,
           i = c.next, NEW d,
           d.state = [c.state EXCEPT ![i] = 3],
           d.active = (IF c.active > 0 THEN c.active - 1 ELSE 0),
           d.completed = c.completed, d.next = c.next + 1
    PROVE  Counted(d)
<1>1. c.state \in [Chunks -> 0..3] /\ c.active \in Nat
  BY DEF ChunkTable
<1>2. /\ Cardinality(In(d.state, {1, 2})) = Cardinality(In(c.state, {1, 2})) - 1
      /\ Cardinality(In(c.state, {1, 2})) > 0
  <2>1. i \in In(c.state, {1, 2})
    BY DEF In
  <2>2. In(d.state, {1, 2}) = In(c.state, {1, 2}) \ {i}
    BY <1>1 DEF In
  <2>. QED
    BY <2>1, <2>2, InLoses
<1>3. In(d.state, {2, 3}) = In(c.state, {2, 3})
  BY <1>1 DEF In
<1>4. \A j \in Chunks : d.state[j] = 3 <=> j < d.next
  BY <1>1, ChunksNat DEF Counted, ChunkTable
<1>. QED
  BY <1>1, <1>2, <1>3, <1>4, SizesAssumption DEF Counted

-----------------------------------------------------------------------------
(* Values the manager is reset to.                                         *)

(* They are typed.                                                         *)
LEMMA EmptyTypes == /\ EmptySlot \in Slot
                    /\ IdleWriter \in Writer
                    /\ NoFile \in File /\ Foreign \in File
<1>1. EmptySlot \in Slot
  BY EmptyTyped DEF EmptySlot, Slot, HashModes
<1>2. IdleWriter \in Writer
  BY EmptyTyped DEF IdleWriter, Writer
<1>3. NoFile \in File
  BY EmptyTyped DEF NoFile, File, HashModes
<1>4. Foreign \in File
  BY <1>3 DEF Foreign, File
<1>. QED
  BY <1>1, <1>2, <1>3, <1>4

(* Unlinking or emptying a part file, and creating one, keep the disk      *)
(* typed.                                                                  *)
LEMMA DiskType ==
    ASSUME NEW d \in Disk, NEW linked \in SUBSET Ids, NEW data \in [Ids -> Seq(Unit)],
           NEW files \in [Names -> File]
    PROVE  /\ [d EXCEPT !.linked = linked] \in Disk
           /\ [d EXCEPT !.data = data] \in Disk
           /\ [d EXCEPT !.files = files] \in Disk
           /\ [d EXCEPT !.linked = linked, !.data = data] \in Disk
           /\ [d EXCEPT !.files = files, !.linked = linked, !.data = data] \in Disk
BY DEF Disk

(* The parts of the disk are typed.                                        *)
LEMMA DiskFields ==
    ASSUME NEW d \in Disk
    PROVE  d.linked \in SUBSET Ids /\ d.data \in [Ids -> Seq(Unit)]
                                   /\ d.files \in [Names -> File]
BY DEF Disk

(* The disk after clear_slot is typed.                                     *)
LEMMA ClearedDiskType ==
    ASSUME disk \in Disk, NEW remove
    PROVE  ClearedDisk(remove) \in Disk
<1>. DEFINE linked == disk.linked \ {slot.part}
            data   == [disk.data EXCEPT ![slot.part] = <<>>]
<1>1. linked \in SUBSET Ids
  BY DiskFields
<1>2. data \in [Ids -> Seq(Unit)]
  BY DiskFields, EmptyTyped
<1>3. [disk EXCEPT !.linked = linked, !.data = data] \in Disk
  <2>. HIDE DEF linked, data
  <2>. QED
    BY <1>1, <1>2, DiskType, DiskFields
<1>. QED
  BY <1>3 DEF ClearedDisk

(* clear_slot's assignments, made while the writer is not writing.         *)
LEMMA EmptyManagerKeepsInv ==
    ASSUME Inv, ControlOK', NEW remove, EmptyManager(remove),
           writer.pc \notin {"writing", "wrote"},
           life' \in {"up", "joining", "gone"}
    PROVE  Inv'
<1>. USE InvParts
<1>1. SlotOK'
  BY EmptyTypes DEF EmptyManager, SlotOK, SlotLinks, EmptySlot
<1>2. ChunksOK'
  BY EmptyChunksOK, ChunksCounted DEF EmptyManager
<1>3. StreamOK'
  BY EmptyTyped DEF EmptyManager, StreamOK
<1>4. writer' \in Writer /\ writer'.pc = writer.pc
  BY DEF EmptyManager, WriterOK, Writer
<1>5. WriterOK'
  BY <1>4 DEF WriterOK, WriterOnChunk
<1>6. RestOK'
  BY ClearedDiskType DEF EmptyManager, RestOK
<1>. QED
  BY <1>1, <1>2, <1>3, <1>5, <1>6, InvPartsPrime

(* Inv holds initially.                                                    *)
LEMMA InitInv == Init => Inv
<1>. SUFFICES ASSUME Init PROVE Inv
  OBVIOUS
<1>1. ControlOK
  BY NoReqType DEF Init, ControlOK, Labels
<1>2. SlotOK
  BY EmptyTypes DEF Init, SlotOK, SlotLinks, EmptySlot
<1>3. ChunksOK
  BY EmptyChunksOK, ChunksCounted DEF Init
<1>4. StreamOK
  BY EmptyTyped DEF Init, StreamOK
<1>5. WriterOK
  BY EmptyTypes DEF Init, WriterOK, WriterOnChunk, IdleWriter
<1>6. disk \in Disk
  BY EmptyTypes, EmptyTyped DEF Init, Disk
<1>7. RestOK
  BY <1>6, SizesAssumption DEF Init, RestOK
<1>. QED
  BY <1>1, <1>2, <1>3, <1>4, <1>5, <1>7, InvParts
-----------------------------------------------------------------------------
(* Actions of a handler.                                                   *)

(* The call that follows in the body of a stream is an operation.          *)
LEMMA BodyOpType ==
    ASSUME NEW t, NEW sent
    PROVE  BodyOp(t, sent) \in Ops
BY DEF BodyOp, Ops

(* upload_cancel, upload_abort, upload_snapshot, reap_locked, clear_slot.  *)
LEMMA EndKeepsInv ==
    ASSUME Inv, NEW t \in Threads, EndStep(t)
    PROVE  Inv'
<1>. USE InvParts
<1>1. CASE Cancel(t)
  <2>1. ClearThen(t, TRUE, "return") \/ Return(t)
    BY <1>1 DEF Cancel
  <2>. QED
    BY <1>1, <2>1, ClearThenControl, ReturnControl, ControlStep DEF Cancel
<1>2. ASSUME AfterCall(t) PROVE ControlOK'
  <2>1. CASE req[t].op = "abort"
    <3>1. PICK op \in Ops : Call(t, op, 0)
      BY <1>2, <2>1 DEF AfterCall, Ops
    <3>. QED
      BY <3>1, CallControl
  <2>2. CASE req[t].op # "abort"
    BY <1>2, <2>2, ReturnControl DEF AfterCall
  <2>. QED
    BY <2>1, <2>2
<1>3. CASE Abort(t)
  <2>1. ClearThen(t, TRUE, "return") \/ AfterCall(t)
    BY <1>3 DEF Abort
  <2>. QED
    BY <1>2, <1>3, <2>1, ClearThenControl, ControlStep DEF Abort
<1>4. CASE Status(t)
  BY <1>4, ReturnControl, ControlStep DEF Status
<1>5. CASE Reap(t)
  BY <1>5, ClearThenControl, ControlStep DEF Reap
<1>6. CASE ClearWait(t)
  <2>1. ControlOK'
    <3>1. "clearing" \in Labels /\ req' \in [Threads -> Req]
      BY <1>6 DEF ClearWait, ControlOK, Labels
    <3>. QED
      BY <1>6, <3>1, GotoControl DEF ClearWait
  <2>2. writer' \in Writer /\ WriterOnChunk'
    BY <1>6 DEF ClearWait, WriterOK, Writer, WriterOnChunk
  <2>3. SlotOK' /\ ChunksOK' /\ StreamOK' /\ RestOK'
    BY <1>6 DEF ClearWait, SlotOK, SlotLinks, ChunksOK, StagingWindow, ChunkCounters,
                StreamOK, RestOK
  <2>. QED
    BY <2>1, <2>2, <2>3, InvPartsPrime DEF WriterOK
<1>7. CASE clear_slot(t)
  <2>1. ControlOK'
    <3>1. CASE req[t].then = "body"
      <4>1. Goto(t, "body", TRUE)
        BY <1>7, <3>1 DEF clear_slot, AfterClear
      <4>2. req' = [req EXCEPT ![t] = [req[t] EXCEPT !.remove = FALSE, !.then = "return"]]
        BY <1>7, <3>1 DEF clear_slot, AfterClear
      <4>3. req[t] \in Req /\ [req[t] EXCEPT !.remove = FALSE, !.then = "return"] \in Req
        BY ClearReqType DEF ControlOK
      <4>4. req' \in [Threads -> Req] /\ "body" \in Labels
        BY <4>2, <4>3 DEF ControlOK, Labels
      <4>. QED
        BY <4>1, <4>4, GotoControl
    <3>2. CASE req[t].then # "body"
      <4>1. AfterCall(t)
        BY <1>7, <3>2 DEF clear_slot, AfterClear
      <4>. QED
        BY <1>2, <4>1
    <3>. QED
      BY <3>1, <3>2
  <2>2. /\ EmptyManager(req[t].remove) /\ writer.pc \notin {"writing", "wrote"}
        /\ life' \in {"up", "joining", "gone"}
    BY <1>7 DEF clear_slot, RestOK
  <2>. QED
    BY <2>1, <2>2, EmptyManagerKeepsInv
<1>. QED
  BY <1>1, <1>3, <1>4, <1>5, <1>6, <1>7 DEF EndStep
-----------------------------------------------------------------------------
(* safe_path_unique_name returns a name that is still free.                *)
LEMMA UniqueNameFree ==
    ASSUME FreeNames # {}
    PROVE  unique_name \in Names /\ unique_name \in FreeNames
<1>1. FreeNames \subseteq Names /\ Names \subseteq Nat
  BY DEF FreeNames, Names
<1>2. \E x \in FreeNames : \A y \in FreeNames : ~ (<<y, x>> \in OpToRel(<, Nat))
  BY <1>1, WFMin, NatLessThanWellFounded
<1>3. \A x, y \in Nat : y < x => <<y, x>> \in OpToRel(<, Nat)
  BY DEF OpToRel
<1>4. \E x \in FreeNames : \A y \in FreeNames : ~ (y < x)
  BY <1>1, <1>2, <1>3, Zenon
<1>5. \E x \in FreeNames : \A y \in FreeNames : x <= y
  BY <1>1, <1>4
<1>. QED
  BY <1>1, <1>5 DEF unique_name

(* upload_prepare.                                                         *)
LEMMA PrepareKeepsInv ==
    ASSUME Inv, NEW t \in Threads, PrepareStep(t)
    PROVE  Inv'
<1>. USE InvParts
<1>1. CASE PrepareSupersede(t)
  BY <1>1, ClearThenControl, ControlStep DEF PrepareSupersede
<1>2. CASE PrepareBusy(t)
  <2>1. ClearThen(t, TRUE, "return") \/ Return(t)
    BY <1>2 DEF PrepareBusy
  <2>. QED
    BY <1>2, <2>1, ClearThenControl, ReturnControl, ControlStep DEF PrepareBusy
<1>3. QuotaFor(Token(req[t].auth)) \in [auth : Auths \cup {NoAuth}, count : Nat]
  BY DEF QuotaFor, Token, RestOK, ControlOK, Req
<1>4. CASE PrepareRefuse(t)
  <2>1. ControlOK'
    BY <1>4, ReturnControl DEF PrepareRefuse
  <2>2. SlotOK' /\ ChunksOK' /\ StreamOK' /\ WriterOK'
    BY <1>4 DEF PrepareRefuse, SlotOK, SlotLinks, ChunksOK, StagingWindow, ChunkCounters,
                StreamOK, WriterOK, WriterOnChunk
  <2>3. RestOK'
    BY <1>3, <1>4 DEF PrepareRefuse, RestOK
  <2>. QED
    BY <2>1, <2>2, <2>3, InvPartsPrime
<1>5. ASSUME CanPrepare(t), disk' = [disk EXCEPT !.linked = @ \cup {nextId}]
      PROVE  disk' \in Disk /\ nextId \in Ids /\ nextId + 1 \in 1..(MaxUploads + 1)
  <2>1. nextId \in Ids /\ disk.linked \cup {nextId} \in SUBSET Ids
    BY <1>5, DiskFields DEF CanPrepare, RestOK
  <2>2. disk' \in Disk
    BY <1>5, <2>1, DiskType, DiskFields DEF RestOK
  <2>. QED
    BY <2>1, <2>2, SizesAssumption DEF Ids
<1>6. CanPrepare(t) => unique_name \in Names
  BY UniqueNameFree DEF CanPrepare
<1>7. CASE PrepareUndo(t)
  <2>1. ControlOK'
    BY <1>7, ClearThenControl DEF PrepareUndo
  <2>2. CanPrepare(t) /\ nextId \in Ids /\ unique_name \in Names
    BY <1>6, <1>7 DEF PrepareUndo, CanPrepare
  <2>3. slot' \in Slot /\ SlotLinks' /\ slot'.occupied = slot.occupied
    BY <1>7, <2>2 DEF PrepareUndo, SlotOK, SlotLinks, Slot
  <2>4. RestOK'
    BY <1>3, <1>5, <1>7, <2>2 DEF PrepareUndo, RestOK
  <2>5. ChunksOK' /\ StreamOK' /\ WriterOK'
    BY <1>7, <2>3 DEF PrepareUndo, ChunksOK, StagingWindow, ChunkCounters,
                      StreamOK, WriterOK, WriterOnChunk
  <2>. QED
    BY <2>1, <2>3, <2>4, <2>5, InvPartsPrime DEF SlotOK
<1>8. CASE PrepareOk(t)
  <2>1. ControlOK'
    BY <1>8, ReturnControl DEF PrepareOk
  <2>2. CanPrepare(t) /\ nextId \in Ids /\ unique_name \in Names /\ ~slot.occupied
    BY <1>6, <1>8 DEF PrepareOk, CanPrepare
  <2>3. req[t].auth \in Auths \cup {NoAuth} /\ req[t].size \in Sizes \cup {0}
        /\ req[t].hash \in HashModes
    BY DEF ControlOK, Req
  <2>4. slot' \in Slot /\ SlotLinks'
    BY <1>8, <2>2, <2>3 DEF PrepareOk, SlotOK, SlotLinks, Slot
  <2>5. RestOK'
    BY <1>3, <1>5, <1>8, <2>2 DEF PrepareOk, RestOK
  <2>6. ChunksOK'
    BY <1>8, EmptyChunksOK, ChunksCounted DEF PrepareOk
  <2>7. StreamOK' /\ WriterOK'
    BY <1>8, <2>2 DEF PrepareOk, StreamOK, WriterOK, WriterOnChunk
  <2>. QED
    BY <2>1, <2>4, <2>5, <2>6, <2>7, InvPartsPrime DEF SlotOK
<1>. QED
  BY <1>1, <1>2, <1>4, <1>7, <1>8 DEF PrepareStep
-----------------------------------------------------------------------------
(* A call that goes on with the body of the request.                       *)
LEMMA BodyCallControl ==
    ASSUME ControlOK, NEW t \in Threads, NEW sent \in Nat, Call(t, BodyOp(t, sent), sent)
    PROVE  ControlOK'
BY BodyOpType, CallControl

(* The unit a request sends next is typed.                                 *)
LEMMA SentType ==
    ASSUME ControlOK, NEW t \in Threads
    PROVE  req[t] \in Req /\ req[t].sent \in Nat /\ req[t].sent + 1 \in Nat
           /\ <<req[t].id, req[t].sent + 1>> \in Unit
BY DEF ControlOK, Req, Unit

(* upload_begin and upload_enable_direct_stream.                           *)
LEMMA BeginKeepsInv ==
    ASSUME Inv, NEW t \in Threads,
           BeginOk(t) \/ BeginRefused(t) \/ EnableOk(t) \/ EnableRefused(t)
    PROVE  Inv'
<1>. USE InvParts
<1>1. CASE BeginOk(t)
  <2>1. ControlOK'
    <3>1. PICK op \in Ops : Call(t, op, 0)
      BY <1>1, BodyOpType DEF BeginOk, Ops
    <3>. QED
      BY <3>1, CallControl
  <2>2. SlotOK' /\ slot'.occupied = slot.occupied
    BY <1>1, EmptyTyped DEF BeginOk, SlotOK, SlotLinks, Slot
  <2>. QED
    BY <1>1, <2>1, <2>2, SlotStep DEF BeginOk
<1>2. CASE BeginRefused(t)
  <2>1. Call(t, "cancel", 0) \/ Return(t)
    BY <1>2 DEF BeginRefused
  <2>2. "cancel" \in Ops
    BY DEF Ops
  <2>. QED
    BY <1>2, <2>1, <2>2, CallControl, ReturnControl, ControlStep DEF BeginRefused
<1>3. CASE EnableOk(t)
  <2>1. ControlOK'
    BY <1>3, BodyCallControl DEF EnableOk
  <2>2. SlotOK' /\ slot'.occupied = slot.occupied
    BY <1>3 DEF EnableOk, SlotOK, SlotLinks, Slot
  <2>. QED
    BY <1>3, <2>1, <2>2, SlotStep DEF EnableOk
<1>4. CASE EnableRefused(t)
  <2>1. "reabort" \in Ops
    BY DEF Ops
  <2>. QED
    BY <1>4, <2>1, CallControl, ControlStep DEF EnableRefused
<1>. QED
  BY <1>1, <1>2, <1>3, <1>4

(* upload_write.                                                           *)
LEMMA WriteKeepsInv ==
    ASSUME Inv, NEW t \in Threads, WriteWait(t) \/ WriteCopy(t) \/ WriteFail(t)
    PROVE  Inv'
<1>. USE InvParts
<1>0. "abort" \in Ops /\ "room" \in Labels
  BY DEF Ops, Labels
<1>1. CASE WriteWait(t)
  <2>1. req' \in [Threads -> Req]
    BY <1>1 DEF WriteWait, ControlOK
  <2>. QED
    BY <1>0, <1>1, <2>1, GotoControl, ControlStep DEF WriteWait
<1>2. CASE WriteCopy(t)
  <2>. DEFINE unit == <<req[t].id, req[t].sent + 1>>
  <2>1. unit \in Unit /\ req[t].sent + 1 \in Nat
    BY SentType
  <2>2. ControlOK'
    <3>1. \/ Call(t, "abort", 0)
          \/ Call(t, BodyOp(t, req[t].sent + 1), req[t].sent + 1)
          \/ AwaitRoom(t)
      BY <1>2 DEF WriteCopy
    <3>2. CASE AwaitRoom(t)
      <4>1. [req[t] EXCEPT !.sent = req[t].sent + 1] \in Req
        BY SentType DEF Req
      <4>2. req' \in [Threads -> Req]
        BY <3>2, <4>1 DEF AwaitRoom, ControlOK
      <4>. QED
        BY <1>0, <3>2, <4>2, GotoControl DEF AwaitRoom
    <3>. QED
      BY <1>0, <2>1, <3>1, <3>2, CallControl, BodyCallControl
  <2>3. slot' = [slot EXCEPT !.sha = Append(slot.sha, unit), !.stale = FALSE,
                             !.received = slot.received + 1]
    BY <1>2 DEF WriteCopy
  <2>4. SlotOK' /\ slot'.occupied = slot.occupied
    <3>1. slot.sha \in Seq(Unit) /\ slot.received \in Nat
      BY DEF SlotOK, Slot
    <3>2. Append(slot.sha, unit) \in Seq(Unit) /\ slot.received + 1 \in Nat
      BY <2>1, <3>1
    <3>. HIDE DEF unit
    <3>. QED
      BY <2>3, <3>2 DEF SlotOK, SlotLinks, Slot
  <2>5. StreamOK'
    <3>1. Append(buffered, unit) \in Seq(Unit)
      BY <2>1 DEF StreamOK
    <3>2. Append(queue, Append(buffered, unit)) \in Seq(Seq(Unit))
      BY <3>1 DEF StreamOK
    <3>3. \/ queue' = Append(queue, Append(buffered, unit)) /\ buffered' = <<>>
          \/ buffered' = Append(buffered, unit) /\ queue' = queue
      BY <1>2 DEF WriteCopy
    <3>. QED
      BY <3>1, <3>2, <3>3, EmptyTyped DEF StreamOK
  <2>6. ChunksOK' /\ WriterOK' /\ RestOK'
    BY <1>2, <2>4 DEF WriteCopy, ChunksOK, StagingWindow, ChunkCounters, RestOK,
                      WriterOK, WriterOnChunk
  <2>. QED
    BY <2>2, <2>4, <2>5, <2>6, InvPartsPrime
<1>3. CASE WriteFail(t)
  BY <1>0, <1>3, CallControl, ControlStep DEF WriteFail
<1>. QED
  BY <1>1, <1>2, <1>3
-----------------------------------------------------------------------------
(* write_all appends a prefix of the data to one part file.                *)
LEMMA WriteAllType ==
    ASSUME disk \in Disk, NEW data \in Seq(Unit), NEW ok, write_all(data, ok)
    PROVE  disk' \in Disk
<1>1. \A k \in 0..(Len(data) - 1) : SubSeq(data, 1, k) \in Seq(Unit)
  OBVIOUS
<1>2. CASE disk' = disk
  BY <1>2
<1>3. CASE \E d \in Seq(Unit) : disk' = [disk EXCEPT !.data[slot.fd] = @ \o d]
  <2>1. PICK d \in Seq(Unit) : disk' = [disk EXCEPT !.data[slot.fd] = @ \o d]
    BY <1>3
  <2>. DEFINE appended == [disk.data EXCEPT ![slot.fd] = disk.data[slot.fd] \o d]
  <2>2. disk.data \in [Ids -> Seq(Unit)]
    BY DiskFields
  <2>3. \A i \in Ids : disk.data[i] \o d \in Seq(Unit)
    BY <2>2
  <2>4. appended \in [Ids -> Seq(Unit)]
    BY <2>2, <2>3
  <2>5. disk' = [disk EXCEPT !.data = appended]
    BY <2>1
  <2>. HIDE DEF appended
  <2>6. [disk EXCEPT !.data = appended] \in Disk
    BY <2>4, DiskFields, DiskType
  <2>. QED
    BY <2>5, <2>6
<1>. QED
  BY <1>1, <1>2, <1>3 DEF write_all

(* upload_write_direct.                                                    *)
LEMMA DirectKeepsInv ==
    ASSUME Inv, NEW t \in Threads,
           DirectBegin(t) \/ DirectRefused(t) \/ DirectIO(t) \/ DirectEnd(t)
    PROVE  Inv'
<1>. USE InvParts
<1>0. "abort" \in Ops /\ "dio" \in Labels /\ "dwrote" \in Labels
  BY DEF Ops, Labels
<1>1. CASE DirectBegin(t)
  <2>1. req' \in [Threads -> Req]
    BY <1>1 DEF DirectBegin, ControlOK
  <2>2. ControlOK'
    BY <1>0, <1>1, <2>1, GotoControl DEF DirectBegin
  <2>3. SlotOK' /\ slot'.occupied = slot.occupied
    <3>. DEFINE w == slot.writes + 1
    <3>1. w \in Nat
      BY DEF SlotOK, Slot
    <3>2. slot' = [slot EXCEPT !.writes = w, !.stale = FALSE]
      BY <1>1 DEF DirectBegin
    <3>. HIDE DEF w
    <3>. QED
      BY <3>1, <3>2 DEF SlotOK, SlotLinks, Slot
  <2>. QED
    BY <1>1, <2>2, <2>3, SlotStep DEF DirectBegin
<1>2. CASE DirectRefused(t)
  BY <1>0, <1>2, CallControl, ControlStep DEF DirectRefused
<1>3. CASE DirectIO(t)
  <2>1. PICK ok \in BOOLEAN : /\ write_all(<<<<req[t].id, req[t].sent + 1>>>>, ok)
                              /\ req' = [req EXCEPT ![t] = [req[t] EXCEPT !.failed = ~ok]]
    BY <1>3 DEF DirectIO
  <2>2. <<<<req[t].id, req[t].sent + 1>>>> \in Seq(Unit)
    BY SentType
  <2>3. disk' \in Disk
    BY <2>1, <2>2, WriteAllType DEF RestOK
  <2>4. [req[t] EXCEPT !.failed = TRUE] \in Req /\ [req[t] EXCEPT !.failed = FALSE] \in Req
    BY SentType DEF Req
  <2>5. \/ req' = [req EXCEPT ![t] = [req[t] EXCEPT !.failed = TRUE]]
        \/ req' = [req EXCEPT ![t] = [req[t] EXCEPT !.failed = FALSE]]
    BY <2>1
  <2>6. req' \in [Threads -> Req]
    BY <2>4, <2>5 DEF ControlOK
  <2>7. ControlOK'
    BY <1>0, <1>3, <2>6 DEF DirectIO, ControlOK
  <2>8. SlotOK' /\ ChunksOK' /\ StreamOK' /\ WriterOK'
    BY <1>3 DEF DirectIO, SlotOK, SlotLinks, ChunksOK, StagingWindow, ChunkCounters,
                StreamOK, WriterOK, WriterOnChunk
  <2>9. RestOK'
    BY <1>3, <2>3 DEF DirectIO, RestOK
  <2>. QED
    BY <2>7, <2>8, <2>9, InvPartsPrime
<1>4. CASE DirectEnd(t)
  <2>1. ControlOK'
    <3>1. \/ Call(t, "abort", 0)
          \/ Call(t, BodyOp(t, req[t].sent + 1), req[t].sent + 1)
      BY <1>4 DEF DirectEnd
    <3>. QED
      BY <1>0, <3>1, SentType, CallControl, BodyCallControl
  <2>2. SlotOK' /\ slot'.occupied = slot.occupied
    <3>. DEFINE w == IF slot.writes > 0 THEN slot.writes - 1 ELSE 0
                r == slot.received + 1
    <3>1. w \in Nat /\ r \in Nat
      BY DEF SlotOK, Slot
    <3>2. \/ slot' = [slot EXCEPT !.writes = w]
          \/ slot' = [slot EXCEPT !.writes = w, !.received = r, !.stale = FALSE]
      BY <1>4 DEF DirectEnd, SlotOK, Slot
    <3>. HIDE DEF w, r
    <3>3. CASE slot' = [slot EXCEPT !.writes = w]
      BY <3>1, <3>3 DEF SlotOK, SlotLinks, Slot
    <3>4. CASE slot' = [slot EXCEPT !.writes = w, !.received = r, !.stale = FALSE]
      BY <3>1, <3>4 DEF SlotOK, SlotLinks, Slot
    <3>. QED
      BY <3>2, <3>3, <3>4
  <2>3. writer' \in Writer /\ writer'.pc = writer.pc /\ writer'.job = writer.job
        /\ writer'.index = writer.index
    BY <1>4 DEF DirectEnd, WriterOK, Writer
  <2>4. WriterOK'
    BY <1>4, <2>2, <2>3 DEF DirectEnd, WriterOK, WriterOnChunk
  <2>5. ChunksOK' /\ StreamOK' /\ RestOK'
    BY <1>4 DEF DirectEnd, ChunksOK, StagingWindow, ChunkCounters, StreamOK, RestOK
  <2>. QED
    BY <2>1, <2>2, <2>4, <2>5, InvPartsPrime
<1>. QED
  BY <1>1, <1>2, <1>3, <1>4
-----------------------------------------------------------------------------
(* A step of a chunk request: completed chunks stay completed and the      *)
(* writer is left alone.                                                   *)
LEMMA ChunkStepInv ==
    ASSUME Inv, ControlOK', SlotOK', slot.occupied => slot'.occupied,
           chunk' \in ChunkTable, Counted(chunk'), chunk'.next = chunk.next,
           \A i \in Chunks : chunk.state[i] = 2 => chunk'.state[i] = 2,
           UNCHANGED <<queue, buffered, writer, quota, disk, nextId, life>>
    PROVE  Inv'
<1>. USE InvParts
<1>1. ChunksOK'
  BY ChunksCounted
<1>2. StreamOK' /\ RestOK'
  BY DEF StreamOK, RestOK
<1>3. WriterOK'
  BY DEF WriterOK, WriterOnChunk
<1>. QED
  BY <1>1, <1>2, <1>3, InvPartsPrime

(* Freeing the staging buffer of a chunk that is being received.           *)
LEMMA FreeChunkKeeps ==
    ASSUME Inv, NEW i \in Chunks, NEW stale \in BOOLEAN, chunk.state[i] = 1,
           FreeChunk(i, stale)
    PROVE  /\ SlotOK' /\ slot'.occupied = slot.occupied
           /\ chunk' \in ChunkTable /\ Counted(chunk') /\ chunk'.next = chunk.next
           /\ \A j \in Chunks : chunk.state[j] = 2 => chunk'.state[j] = 2
<1>. USE InvParts
<1>1. chunk \in ChunkTable /\ Counted(chunk)
  BY ChunksCounted
<1>2. Len(chunk.buf[i]) \in Nat
  BY <1>1, TableFields
<1>3. SlotOK' /\ slot'.occupied = slot.occupied
  <2>. DEFINE r == IF slot.received >= Len(chunk.buf[i])
                   THEN slot.received - Len(chunk.buf[i]) ELSE 0
  <2>1. r \in Nat
    BY <1>2 DEF SlotOK, Slot
  <2>2. slot' = [slot EXCEPT !.received = r, !.stale = stale]
    BY DEF FreeChunk
  <2>. HIDE DEF r
  <2>3. slot' \in Slot
    BY <2>1, <2>2, Zenon DEF SlotOK, Slot
  <2>4. /\ slot'.fd = slot.fd /\ slot'.part = slot.part
        /\ slot'.transport = slot.transport /\ slot'.occupied = slot.occupied
    BY <2>2 DEF SlotOK, Slot
  <2>. QED
    BY <2>3, <2>4 DEF SlotOK, SlotLinks
<1>4. chunk' \in ChunkTable /\ Counted(chunk') /\ chunk'.next = chunk.next
      /\ \A j \in Chunks : chunk.state[j] = 2 => chunk'.state[j] = 2
  <2>. DEFINE s == [chunk.state EXCEPT ![i] = 0]
              b == [chunk.buf EXCEPT ![i] = <<>>]
              a == IF chunk.active > 0 THEN chunk.active - 1 ELSE 0
  <2>1. s \in [Chunks -> 0..3] /\ b \in [Chunks -> Seq(Unit)] /\ a \in Nat
    BY <1>1, TableFields, EmptyTyped
  <2>2. chunk' = [chunk EXCEPT !.state = s, !.buf = b, !.active = a]
    BY DEF FreeChunk
  <2>3. \A j \in Chunks : chunk.state[j] = 2 => s[j] = 2
    BY <1>1, TableFields
  <2>. HIDE DEF s, b, a
  <2>4. chunk' \in ChunkTable
    BY <1>1, <2>1, <2>2, TableType, TableFields
  <2>5. /\ chunk'.state = s /\ chunk'.active = a
        /\ chunk'.completed = chunk.completed /\ chunk'.next = chunk.next
    BY <1>1, <2>2 DEF ChunkTable
  <2>6. Counted(chunk')
    BY <1>1, <2>5, CountedFree DEF s, a
  <2>. QED
    BY <2>3, <2>4, <2>5, <2>6
<1>. QED
  BY <1>3, <1>4
-----------------------------------------------------------------------------
(* The chunk count of the declared size is within the tables.              *)
LEMMA IndexInFile ==
    ASSUME SlotOK, NEW k \in Nat, k < ChunkCount(slot.size)
    PROVE  k \in Chunks
<1>1. slot.size \in Sizes \cup {0}
  BY DEF SlotOK, Slot
<1>2. CASE slot.size = 0
  <2>1. ChunkCount(slot.size) = 0
    BY <1>2 DEF ChunkCount
  <2>. QED
    BY <2>1
<1>3. CASE slot.size # 0
  <2>1. slot.size \in Sizes /\ ChunkCount(slot.size) <= MaxChunks
    BY <1>1, <1>3, SizesAssumption
  <2>2. slot.size \in Nat /\ ChunkUnits \in Nat \ {0} /\ MaxChunks \in Nat
    BY <2>1, SizesAssumption
  <2>3. ChunkCount(slot.size) \in Int
    BY <2>2, <1>3 DEF ChunkCount
  <2>. QED
    BY <2>1, <2>2, <2>3 DEF Chunks
<1>. QED
  BY <1>2, <1>3

(* The chunk and the unit an accepted upload_chunk_write is about.         *)
LEMMA WriteTarget ==
    ASSUME ControlOK, SlotOK, NEW t \in Threads, Writable(t)
    PROVE  /\ WriteIndex(t) \in Chunks
           /\ <<req[t].id, WriteOffset(t) + 1>> \in Unit
<1>1. /\ req[t].idx \in Nat /\ req[t].sent \in Nat /\ ChunkUnits \in Nat
      /\ req[t].id \in Ids \cup {0}
  BY SentType, ChunksNat, SizesAssumption DEF Req
<1>2. WriteIndex(t) \in Nat
  BY <1>1 DEF WriteIndex
<1>3. WriteIndex(t) \in Chunks
  BY <1>2, IndexInFile DEF Writable
<1>4. req[t].idx * ChunkUnits \in Nat
  BY <1>1
<1>5. WriteOffset(t) + 1 \in Nat \ {0}
  BY <1>1, <1>4 DEF WriteOffset
<1>. QED
  BY <1>1, <1>3, <1>5 DEF Unit

(* upload_chunk_begin, _write, _finish and _abort.                         *)
LEMMA ChunkKeepsInv ==
    ASSUME Inv, NEW t \in Threads, ChunkStep(t)
    PROVE  Inv'
<1>. USE InvParts
<1>. DEFINE i == req[t].idx
<1>0. /\ i \in Chunks /\ req[t].sent + 1 \in Nat
      /\ chunk \in ChunkTable /\ Counted(chunk)
      /\ {"cwrite", "cfinish", "cabort", "abort"} \subseteq Ops
  BY SentType, ChunksCounted DEF Req, Ops
<1>1. CASE ChunkBeginOk(t)
  <2>1. ControlOK'
    BY <1>0, <1>1, CallControl DEF ChunkBeginOk
  <2>2. SlotOK' /\ slot.occupied /\ slot'.occupied
    BY <1>1 DEF ChunkBeginOk, ChunkOpen, Found, SlotOK, SlotLinks, Slot
  <2>. DEFINE s == [chunk.state EXCEPT ![i] = 1]
              b == [chunk.buf EXCEPT ![i] = <<>>]
              a == chunk.active + 1
  <2>3. s \in [Chunks -> 0..3] /\ b \in [Chunks -> Seq(Unit)] /\ a \in Nat
    BY <1>0, TableFields, EmptyTyped
  <2>4. chunk' = [chunk EXCEPT !.state = s, !.buf = b, !.active = a]
    BY <1>1 DEF ChunkBeginOk
  <2>5. chunk.state[i] = 0 /\ chunk.active < ChunkSlots
    BY <1>1 DEF ChunkBeginOk, ChunkOpen
  <2>6. \A j \in Chunks : chunk.state[j] = 2 => s[j] = 2
    BY <1>0, <2>5, TableFields
  <2>. HIDE DEF s, b, a, i
  <2>7. chunk' \in ChunkTable
    BY <1>0, <2>3, <2>4, TableType, TableFields
  <2>8. /\ chunk'.state = s /\ chunk'.active = a
        /\ chunk'.completed = chunk.completed /\ chunk'.next = chunk.next
    BY <1>0, <2>4 DEF ChunkTable
  <2>9. Counted(chunk')
    BY <1>0, <2>5, <2>8, CountedOpen DEF s, a
  <2>. QED
    BY <1>1, <2>1, <2>2, <2>6, <2>7, <2>8, <2>9, ChunkStepInv DEF ChunkBeginOk
<1>2. CASE ChunkBeginRefused(t)
  BY <1>2, ReturnControl, ControlStep DEF ChunkBeginRefused
<1>3. CASE ChunkWriteOk(t)
  <2>1. ControlOK'
    <3>1. PICK op \in Ops : Call(t, op, req[t].sent + 1)
      BY <1>0, <1>3 DEF ChunkWriteOk
    <3>. QED
      BY <1>0, <3>1, CallControl
  <2>2. SlotOK' /\ slot'.occupied = slot.occupied
    <3>. DEFINE r == slot.received + 1
    <3>1. r \in Nat
      BY DEF SlotOK, Slot
    <3>2. slot' = [slot EXCEPT !.received = r, !.stale = FALSE]
      BY <1>3 DEF ChunkWriteOk
    <3>. HIDE DEF r
    <3>. QED
      BY <3>1, <3>2 DEF SlotOK, SlotLinks, Slot
  <2>. DEFINE k == WriteIndex(t)
              unit == <<req[t].id, WriteOffset(t) + 1>>
              b == [chunk.buf EXCEPT ![k] = Append(chunk.buf[k], unit)]
  <2>3. k \in Chunks /\ unit \in Unit
    BY <1>3, WriteTarget DEF ChunkWriteOk
  <2>4. chunk' = [chunk EXCEPT !.buf = b]
    BY <1>3 DEF ChunkWriteOk
  <2>. HIDE DEF unit, k
  <2>5. b \in [Chunks -> Seq(Unit)]
    BY <1>0, <2>3, TableFields
  <2>. HIDE DEF b
  <2>6. chunk' \in ChunkTable
    BY <1>0, <2>4, <2>5, TableType, TableFields
  <2>7. /\ chunk'.state = chunk.state /\ chunk'.active = chunk.active
        /\ chunk'.completed = chunk.completed /\ chunk'.next = chunk.next
    BY <1>0, <2>4 DEF ChunkTable
  <2>8. Counted(chunk')
    BY <1>0, <2>7 DEF Counted
  <2>. QED
    BY <1>3, <2>1, <2>2, <2>6, <2>7, <2>8, ChunkStepInv DEF ChunkWriteOk
<1>4. CASE ChunkWriteFail(t)
  BY <1>0, <1>4, CallControl, ControlStep DEF ChunkWriteFail
<1>5. CASE ChunkFinishOk(t)
  <2>1. ControlOK'
    BY <1>5, ReturnControl DEF ChunkFinishOk
  <2>2. SlotOK' /\ slot'.occupied = slot.occupied
    BY <1>5 DEF ChunkFinishOk, SlotOK, SlotLinks, Slot
  <2>. DEFINE s == [chunk.state EXCEPT ![i] = 2]
              n == chunk.completed + 1
  <2>3. s \in [Chunks -> 0..3] /\ n \in Nat
    BY <1>0, TableFields
  <2>4. chunk' = [chunk EXCEPT !.state = s, !.completed = n]
    BY <1>5 DEF ChunkFinishOk
  <2>5. chunk.state[i] = 1
    BY <1>5 DEF ChunkFinishOk, Receiving
  <2>6. \A j \in Chunks : chunk.state[j] = 2 => s[j] = 2
    BY <1>0, <2>5, TableFields
  <2>. HIDE DEF s, n, i
  <2>7. chunk' \in ChunkTable
    BY <1>0, <2>3, <2>4, TableType, TableFields
  <2>8. /\ chunk'.state = s /\ chunk'.completed = n
        /\ chunk'.active = chunk.active /\ chunk'.next = chunk.next
    BY <1>0, <2>4 DEF ChunkTable
  <2>9. Counted(chunk')
    BY <1>0, <2>5, <2>8, CountedFinish DEF s, n
  <2>. QED
    BY <1>5, <2>1, <2>2, <2>6, <2>7, <2>8, <2>9, ChunkStepInv DEF ChunkFinishOk
<1>6. CASE ChunkFinishFail(t)
  <2>1. ControlOK'
    BY <1>0, <1>6, CallControl, ReturnControl DEF ChunkFinishFail
  <2>2. CASE Receiving(t)
    <3>1. FreeChunk(i, slot.stale) /\ chunk.state[i] = 1 /\ slot.stale \in BOOLEAN
      BY <1>6, <2>2 DEF ChunkFinishFail, Receiving, SlotOK, Slot
    <3>. HIDE DEF i
    <3>2. /\ SlotOK' /\ slot'.occupied = slot.occupied
          /\ chunk' \in ChunkTable /\ Counted(chunk') /\ chunk'.next = chunk.next
          /\ \A j \in Chunks : chunk.state[j] = 2 => chunk'.state[j] = 2
      BY <1>0, <3>1, FreeChunkKeeps
    <3>. QED
      BY <1>6, <2>1, <3>2, ChunkStepInv DEF ChunkFinishFail
  <2>3. CASE ~Receiving(t)
    <3>1. UNCHANGED dataVars
      BY <1>6, <2>3 DEF ChunkFinishFail, dataVars
    <3>. QED
      BY <2>1, <3>1, ControlStep
  <2>. QED
    BY <2>2, <2>3
<1>7. CASE ChunkAbort(t)
  <2>1. ControlOK'
    BY <1>7, ReturnControl DEF ChunkAbort
  <2>2. CASE Receiving(t)
    <3>1. FreeChunk(i, FALSE) /\ chunk.state[i] = 1
      BY <1>7, <2>2 DEF ChunkAbort, Receiving
    <3>. HIDE DEF i
    <3>2. /\ SlotOK' /\ slot'.occupied = slot.occupied
          /\ chunk' \in ChunkTable /\ Counted(chunk') /\ chunk'.next = chunk.next
          /\ \A j \in Chunks : chunk.state[j] = 2 => chunk'.state[j] = 2
      BY <1>0, <3>1, FreeChunkKeeps
    <3>. QED
      BY <1>7, <2>1, <3>2, ChunkStepInv DEF ChunkAbort
  <2>3. CASE ~Receiving(t)
    <3>1. UNCHANGED dataVars
      BY <1>7, <2>3 DEF ChunkAbort, dataVars
    <3>. QED
      BY <2>1, <3>1, ControlStep
  <2>. QED
    BY <2>2, <2>3
<1>. QED
  BY <1>1, <1>2, <1>3, <1>4, <1>5, <1>6, <1>7 DEF ChunkStep
-----------------------------------------------------------------------------
(* The chunk the writer takes next is one of the file.                     *)
LEMMA NextChunkIndex ==
    ASSUME Inv, chunk_ready
    PROVE  chunk.next \in Chunks
BY InvParts, IndexInFile DEF chunk_ready, ChunksOK, ChunkTable

(* The writer thread.                                                      *)
LEMMA WriterKeepsInv ==
    ASSUME Inv, WriterStep
    PROVE  Inv'
<1>. USE InvParts
<1>0. chunk \in ChunkTable /\ Counted(chunk) /\ writer \in Writer
  BY ChunksCounted DEF WriterOK
<1>1. CASE WriterTake
  <2>1. ControlOK' /\ SlotOK' /\ ChunksOK' /\ StreamOK' /\ RestOK'
    BY <1>1 DEF WriterTake, ControlOK, SlotOK, SlotLinks, ChunksOK, StagingWindow,
                ChunkCounters, StreamOK, RestOK
  <2>2. CASE /\ queue # <<>>
             /\ writer' = [writer EXCEPT !.pc = "writing", !.job = "queue", !.data = Head(queue)]
    <3>1. Head(queue) \in Seq(Unit)
      BY <2>2 DEF StreamOK
    <3>2. writer' \in Writer
      BY <1>0, <2>2, <3>1 DEF Writer
    <3>3. writer'.job = "queue"
      BY <1>0, <2>2 DEF Writer
    <3>. QED
      BY <2>1, <3>2, <3>3, InvPartsPrime DEF WriterOK, WriterOnChunk
  <2>3. CASE /\ chunk_ready
             /\ writer' = [writer EXCEPT !.pc = "writing", !.job = "chunk",
                                         !.index = chunk.next, !.data = chunk.buf[chunk.next]]
    <3>1. chunk.next \in Chunks /\ chunk.buf[chunk.next] \in Seq(Unit) /\ chunk.next \in Nat
      BY <1>0, <2>3, NextChunkIndex, TableFields
    <3>2. writer' \in Writer
      BY <1>0, <2>3, <3>1 DEF Writer
    <3>3. writer'.index = chunk.next
      BY <1>0, <2>3 DEF Writer
    <3>4. slot'.occupied /\ chunk'.state[chunk.next] = 2
      BY <1>1, <2>3 DEF WriterTake, chunk_ready, SlotOK, SlotLinks
    <3>5. chunk' = chunk
      BY <1>1 DEF WriterTake
    <3>. QED
      BY <2>1, <3>1, <3>2, <3>3, <3>4, <3>5, InvPartsPrime DEF WriterOK, WriterOnChunk
  <2>. QED
    BY <1>1, <2>2, <2>3 DEF WriterTake
<1>2. CASE WriterIO
  <2>1. PICK ok \in BOOLEAN :
           /\ write_all(writer.data, ok)
           /\ writer' = [writer EXCEPT !.pc = "wrote", !.failed = ~ok, !.data = <<>>]
    BY <1>2 DEF WriterIO
  <2>2. disk' \in Disk
    BY <1>0, <2>1, WriteAllType DEF Writer, RestOK
  <2>3. \/ writer' = [writer EXCEPT !.pc = "wrote", !.failed = TRUE, !.data = <<>>]
        \/ writer' = [writer EXCEPT !.pc = "wrote", !.failed = FALSE, !.data = <<>>]
    BY <2>1
  <2>4. writer' \in Writer
    BY <1>0, <2>3, EmptyTyped DEF Writer
  <2>5. writer'.job = writer.job /\ writer'.index = writer.index
    BY <1>0, <2>3 DEF Writer
  <2>6. WriterOK'
    BY <1>2, <2>4, <2>5 DEF WriterIO, WriterOK, WriterOnChunk
  <2>7. ControlOK' /\ SlotOK' /\ ChunksOK' /\ StreamOK' /\ RestOK'
    BY <1>2, <2>2 DEF WriterIO, ControlOK, SlotOK, SlotLinks, ChunksOK, StagingWindow,
                      ChunkCounters, StreamOK, RestOK
  <2>. QED
    BY <2>6, <2>7, InvPartsPrime
<1>3. CASE WriterDone
  <2>1. ControlOK' /\ SlotOK' /\ RestOK'
    BY <1>3 DEF WriterDone, ControlOK, SlotOK, SlotLinks, RestOK
  <2>2. StreamOK'
    <3>1. queue # <<>> => Tail(queue) \in Seq(Seq(Unit))
      BY DEF StreamOK
    <3>. QED
      BY <1>3, <3>1 DEF WriterDone, StreamOK
  <2>3. PICK e \in BOOLEAN, x \in BOOLEAN :
           writer' = [IdleWriter EXCEPT !.error = e, !.discard = x]
    BY <1>0, <1>3, Zenon DEF WriterDone, Writer
  <2>4. writer' \in Writer /\ writer'.pc = "idle"
    <3>1. writer' \in Writer
      BY <2>3, EmptyTypes, Zenon DEF Writer
    <3>2. writer'.pc = "idle"
      BY <2>3 DEF IdleWriter
    <3>. QED
      BY <3>1, <3>2
  <2>5. WriterOK'
    BY <2>4 DEF WriterOK, WriterOnChunk
  <2>6. CASE ChunkWritten /\ writer.job = "chunk"
    <3>. DEFINE i == writer.index
                s == [chunk.state EXCEPT ![i] = 3]
                b == [chunk.buf EXCEPT ![i] = <<>>]
                n == chunk.next + 1
                a == IF chunk.active > 0 THEN chunk.active - 1 ELSE 0
    <3>1. i \in Chunks /\ chunk.state[i] = 2 /\ i = chunk.next
      <4>1. writer.pc \in {"writing", "wrote"}
        BY <1>3 DEF WriterDone
      <4>. QED
        BY <2>6, <4>1 DEF WriterOK, WriterOnChunk
    <3>2. s \in [Chunks -> 0..3] /\ b \in [Chunks -> Seq(Unit)] /\ n \in Nat /\ a \in Nat
      BY <1>0, <3>1, TableFields, EmptyTyped
    <3>3. chunk' = [chunk EXCEPT !.state = s, !.buf = b, !.next = n, !.active = a]
      BY <2>6 DEF ChunkWritten
    <3>. HIDE DEF i, s, b, n, a
    <3>4. chunk' \in ChunkTable
      BY <1>0, <3>2, <3>3, TableType, TableFields
    <3>5. /\ chunk'.state = s /\ chunk'.active = a
          /\ chunk'.completed = chunk.completed /\ chunk'.next = n
      BY <1>0, <3>3 DEF ChunkTable
    <3>6. Counted(chunk')
      BY <1>0, <3>1, <3>5, CountedWritten DEF s, a, n
    <3>. QED
      BY <2>1, <2>2, <2>5, <3>4, <3>6, ChunksCounted, InvPartsPrime
  <2>7. CASE chunk' = chunk
    <3>1. ChunksOK'
      BY <2>7 DEF ChunksOK, StagingWindow, ChunkCounters
    <3>. QED
      BY <2>1, <2>2, <2>5, <3>1, InvPartsPrime
  <2>. QED
    BY <1>3, <2>6, <2>7 DEF WriterDone
<1>4. CASE WriterExit
  <2>1. ControlOK' /\ SlotOK' /\ ChunksOK' /\ StreamOK' /\ RestOK'
    BY <1>4 DEF WriterExit, ControlOK, SlotOK, SlotLinks, ChunksOK, StagingWindow,
                ChunkCounters, StreamOK, RestOK
  <2>2. writer' \in Writer /\ writer'.pc = "exited"
    BY <1>0, <1>4 DEF WriterExit, Writer
  <2>. QED
    BY <2>1, <2>2, InvPartsPrime DEF WriterOK, WriterOnChunk
<1>. QED
  BY <1>1, <1>2, <1>3, <1>4 DEF WriterStep
-----------------------------------------------------------------------------
(* Publication.  The slot has an open descriptor, hence a part file, whose *)
(* content becomes the published file.                                     *)
LEMMA PublishKeepsInv ==
    ASSUME Inv, NEW t \in Threads, NEW digest, PublishOk(t, digest) \/ PublishFail(t, digest)
    PROVE  Inv'
<1>. USE InvParts
<1>1. CASE PublishOk(t, digest)
  <2>1. ControlOK'
    BY <1>1, ClearThenControl DEF PublishOk
  <2>2. SlotOK' /\ slot'.occupied = slot.occupied
    BY <1>1 DEF PublishOk, SlotOK, SlotLinks, Slot
  <2>3. slot \in Slot /\ slot.part \in Ids
    BY <1>1 DEF PublishOk, SlotOK, SlotLinks, Slot
  <2>. DEFINE file   == [owner |-> "upload", id |-> slot.id, auth |-> slot.auth,
                         size |-> slot.size, hash |-> slot.hash,
                         data |-> disk.data[slot.part]]
              files  == [disk.files EXCEPT ![slot.name] = file]
              linked == disk.linked \ {slot.part}
              data   == [disk.data EXCEPT ![slot.part] = <<>>]
  <2>4. disk \in Disk /\ disk.data[slot.part] \in Seq(Unit)
    BY <2>3, DiskFields DEF RestOK
  <2>5. file \in File
    BY <2>3, <2>4 DEF File, Slot
  <2>6. linked \in SUBSET Ids /\ data \in [Ids -> Seq(Unit)]
    BY <2>4, DiskFields, EmptyTyped
  <2>7. disk' = [disk EXCEPT !.files = files, !.linked = linked, !.data = data]
    BY <1>1 DEF PublishOk, publish_part
  <2>8. files \in [Names -> File]
    <3>. HIDE DEF file
    <3>. QED
      BY <2>4, <2>5, DiskFields
  <2>9. disk' \in Disk
    <3>. HIDE DEF files, linked, data
    <3>1. [disk EXCEPT !.files = files, !.linked = linked, !.data = data] \in Disk
      BY <2>4, <2>6, <2>8, DiskType
    <3>. QED
      BY <2>7, <3>1
  <2>10. quota' \in [auth : Auths \cup {NoAuth}, count : Nat]
    BY <1>1 DEF PublishOk, RestOK
  <2>11. RestOK'
    BY <1>1, <2>9, <2>10 DEF PublishOk, RestOK
  <2>12. ChunksOK' /\ StreamOK' /\ WriterOK'
    BY <1>1, <2>2 DEF PublishOk, ChunksOK, StagingWindow, ChunkCounters, StreamOK,
                      WriterOK, WriterOnChunk
  <2>. QED
    BY <2>1, <2>2, <2>11, <2>12, InvPartsPrime
<1>2. CASE PublishFail(t, digest)
  <2>1. ControlOK'
    BY <1>2, ClearThenControl DEF PublishFail
  <2>2. PICK fd \in {0, slot.fd} :
           slot' = [slot EXCEPT !.fd = fd, !.finalizing = @ /\ req[t].op # "complete"]
    BY <1>2 DEF PublishFail
  <2>3. \E f \in BOOLEAN : slot' = [slot EXCEPT !.fd = fd, !.finalizing = f]
    BY <2>2
  <2>4. PICK f \in BOOLEAN : slot' = [slot EXCEPT !.fd = fd, !.finalizing = f]
    BY <2>3
  <2>5. fd \in Ids \cup {0} /\ slot \in Slot
    BY DEF SlotOK, Slot
  <2>6. slot' \in Slot
    BY <2>4, <2>5, Zenon DEF Slot
  <2>7. /\ slot'.fd = fd /\ slot'.part = slot.part
        /\ slot'.transport = slot.transport /\ slot'.occupied = slot.occupied
    BY <2>4, <2>5 DEF Slot
  <2>8. SlotOK'
    BY <2>6, <2>7 DEF SlotOK, SlotLinks
  <2>. QED
    BY <1>2, <2>1, <2>7, <2>8, SlotStep DEF PublishFail
<1>. QED
  BY <1>1, <1>2
-----------------------------------------------------------------------------
(* upload_finish_with_metrics of a stream.                                 *)
LEMMA FinishKeepsInv ==
    ASSUME Inv, NEW t \in Threads,
           \/ FinishRefused(t) \/ FinishDirect(t) \/ FlushNothing(t)
           \/ Flush(t) \/ DrainFail(t) \/ Drain(t)
    PROVE  Inv'
<1>. USE InvParts
<1>0. {"hashing", "drain"} \subseteq Labels /\ Drained \in BOOLEAN
  BY DEF Labels, Drained
<1>1. CASE FinishRefused(t)
  BY <1>1, ClearThenControl, ControlStep DEF FinishRefused
<1>2. CASE FinishDirect(t)
  <2>1. SlotOK' /\ slot'.occupied = slot.occupied
    BY <1>2 DEF FinishDirect, SlotOK, SlotLinks, Slot
  <2>2. slot.part \in Ids \cup {0} /\ req[t] \in Req
    BY DEF SlotOK, Slot, ControlOK
  <2>3. req' = [req EXCEPT ![t] = [req[t] EXCEPT !.part = slot.part]]
    BY <1>2 DEF FinishDirect
  <2>4. [req[t] EXCEPT !.part = slot.part] \in Req
    BY <2>2 DEF Req
  <2>5. req' \in [Threads -> Req]
    BY <2>3, <2>4 DEF ControlOK
  <2>6. ControlOK'
    BY <1>0, <1>2, <2>5, GotoControl DEF FinishDirect
  <2>. QED
    BY <1>2, <2>1, <2>6, SlotStep DEF FinishDirect
<1>3. CASE FlushNothing(t)
  <2>1. req' \in [Threads -> Req]
    BY <1>3 DEF FlushNothing, ControlOK
  <2>. QED
    BY <1>0, <1>3, <2>1, GotoControl, ControlStep DEF FlushNothing
<1>4. CASE Flush(t)
  <2>1. ControlOK'
    <3>1. \/ Goto(t, "drain", FALSE) /\ req' \in [Threads -> Req]
          \/ ClearThen(t, TRUE, "return")
      BY <1>4 DEF Flush, ControlOK
    <3>. QED
      BY <1>0, <3>1, GotoControl, ClearThenControl
  <2>2. StreamOK'
    <3>1. Append(queue, buffered) \in Seq(Seq(Unit))
      BY DEF StreamOK
    <3>. QED
      BY <1>4, <3>1, EmptyTyped DEF Flush, StreamOK
  <2>3. SlotOK' /\ ChunksOK' /\ WriterOK' /\ RestOK'
    BY <1>4 DEF Flush, SlotOK, SlotLinks, ChunksOK, StagingWindow, ChunkCounters,
                WriterOK, WriterOnChunk, RestOK
  <2>. QED
    BY <2>1, <2>2, <2>3, InvPartsPrime
<1>5. CASE DrainFail(t)
  BY <1>5, ClearThenControl, ControlStep DEF DrainFail
<1>6. CASE Drain(t)
  BY <1>6, PublishKeepsInv DEF Drain
<1>. QED
  BY <1>1, <1>2, <1>3, <1>4, <1>5, <1>6

(* upload_finish_chunks_with_metrics and the hash pass.                    *)
LEMMA CompleteKeepsInv ==
    ASSUME Inv, NEW t \in Threads,
           \/ CompleteRefused(t) \/ CompleteBegin(t) \/ CompleteDrained(t)
           \/ CompleteDrainFail(t) \/ hash_part_file(t)
           \/ HashedLost(t) \/ HashedError(t) \/ HashedPublish(t)
    PROVE  Inv'
<1>. USE InvParts
<1>0. /\ {"cdrain", "hashing", "hashed"} \subseteq Labels /\ ChunksWritten \in BOOLEAN
      /\ req[t] \in Req /\ slot \in Slot
  BY DEF Labels, ChunksWritten, ControlOK, SlotOK, WriterOK, Writer
<1>1. CASE CompleteRefused(t)
  BY <1>1, ReturnControl, ControlStep DEF CompleteRefused
<1>2. CASE CompleteBegin(t)
  <2>1. SlotOK' /\ slot'.occupied = slot.occupied
    BY <1>2 DEF CompleteBegin, SlotOK, SlotLinks, Slot
  <2>2. req' \in [Threads -> Req]
    BY <1>2 DEF CompleteBegin, ControlOK
  <2>3. ControlOK'
    BY <1>0, <1>2, <2>2, GotoControl DEF CompleteBegin
  <2>. QED
    BY <1>2, <2>1, <2>3, SlotStep DEF CompleteBegin
<1>3. CASE CompleteDrained(t)
  <2>1. req' = [req EXCEPT ![t] = [req[t] EXCEPT !.part = slot.part, !.size = slot.size]]
    BY <1>3 DEF CompleteDrained
  <2>2. [req[t] EXCEPT !.part = slot.part, !.size = slot.size] \in Req
    BY <1>0 DEF Req, Slot
  <2>3. req' \in [Threads -> Req]
    BY <2>1, <2>2 DEF ControlOK
  <2>. QED
    BY <1>0, <1>3, <2>3, GotoControl, ControlStep DEF CompleteDrained
<1>4. CASE CompleteDrainFail(t)
  BY <1>4, ClearThenControl, ReturnControl, ControlStep DEF CompleteDrainFail
<1>5. CASE hash_part_file(t)
  <2>1. PICK digest \in {"genuine", "other", "error"} :
           req' = [req EXCEPT ![t] = [req[t] EXCEPT !.digest = digest]]
    BY <1>5 DEF hash_part_file
  <2>2. [req[t] EXCEPT !.digest = digest] \in Req
    BY <1>0 DEF Req
  <2>3. req' \in [Threads -> Req]
    BY <2>1, <2>2 DEF ControlOK
  <2>4. ControlOK'
    BY <1>0, <1>5, <2>3 DEF hash_part_file, ControlOK
  <2>. QED
    BY <1>5, <2>4, ControlStep DEF hash_part_file
<1>6. CASE HashedLost(t)
  <2>1. ControlOK'
    BY <1>6, ClearThenControl, ReturnControl DEF HashedLost
  <2>2. slot' = [slot EXCEPT !.finalizing = FALSE] \/ slot' = slot
    BY <1>6 DEF HashedLost
  <2>3. SlotOK' /\ slot'.occupied = slot.occupied
    BY <2>2 DEF SlotOK, SlotLinks, Slot
  <2>. QED
    BY <1>6, <2>1, <2>3, SlotStep DEF HashedLost
<1>7. CASE HashedError(t)
  <2>1. ControlOK'
    BY <1>7, ClearThenControl DEF HashedError
  <2>2. \/ slot' = [slot EXCEPT !.finalizing = TRUE]
        \/ slot' = [slot EXCEPT !.finalizing = FALSE]
    BY <1>7 DEF HashedError
  <2>3. SlotOK' /\ slot'.occupied = slot.occupied
    BY <2>2 DEF SlotOK, SlotLinks, Slot
  <2>. QED
    BY <1>7, <2>1, <2>3, SlotStep DEF HashedError
<1>8. CASE HashedPublish(t)
  BY <1>8, PublishKeepsInv DEF HashedPublish
<1>. QED
  BY <1>1, <1>2, <1>3, <1>4, <1>5, <1>6, <1>7, <1>8
-----------------------------------------------------------------------------
(* Requests arrive with typed parameters.                                  *)
LEMMA RequestKeepsInv ==
    ASSUME Inv, NEW t \in Threads,
           Request(t) \/ Drop(t) \/ NoLength(t) \/ ShortBody(t) \/ LongBody(t)
    PROVE  Inv'
<1>. USE InvParts
<1>1. CASE Request(t)
  <2>0. PICK kind \in Kinds : \E r \in Parameters(kind) :
           req' = [req EXCEPT ![t] = [NoReq EXCEPT
                     !.kind = kind, !.op = r.op, !.id = r.id, !.auth = r.auth,
                     !.size = r.size, !.hash = r.hash, !.idx = r.idx]]
    BY <1>1 DEF Request
  <2>1. PICK r \in Parameters(kind) :
           req' = [req EXCEPT ![t] = [NoReq EXCEPT
                     !.kind = kind, !.op = r.op, !.id = r.id, !.auth = r.auth,
                     !.size = r.size, !.hash = r.hash, !.idx = r.idx]]
    BY <2>0
  <2>2. kind \in AllKinds
    BY EnvironmentAssumption
  <2>3. r.op = FirstOp(kind) /\ r.id \in {0} \cup (1..(nextId - 1))
        /\ r.auth \in Auths \cup {NoAuth} /\ r.size \in {0} \cup Sizes
        /\ r.hash \in {"none"} \cup Hashes /\ r.idx \in Chunks
    BY DEF Parameters
  <2>4. r.op \in Ops
    BY <2>2, <2>3 DEF FirstOp, Ops, AllKinds
  <2>5. r.id \in Ids \cup {0}
    BY <2>3, SizesAssumption DEF RestOK, Ids
  <2>6. r.hash \in HashModes
    BY <2>3, EnvironmentAssumption DEF HashModes
  <2>. DEFINE new == [NoReq EXCEPT
                        !.kind = kind, !.op = r.op, !.id = r.id, !.auth = r.auth,
                        !.size = r.size, !.hash = r.hash, !.idx = r.idx]
  <2>7. new \in Req
    BY <2>2, <2>3, <2>4, <2>5, <2>6, NoReqType DEF Req
  <2>8. ControlOK'
    <3>1. req' = [req EXCEPT ![t] = new]
      BY <2>1
    <3>. HIDE DEF new
    <3>2. req' \in [Threads -> Req]
      BY <2>7, <3>1 DEF ControlOK
    <3>. QED
      BY <1>1, <3>2 DEF Request, ControlOK, Labels
  <2>. QED
    BY <1>1, <2>8, ControlStep DEF Request
<1>2. CASE Drop(t)
  <2>1. PICK op \in Ops : req' = [req EXCEPT ![t] = [req[t] EXCEPT !.op = op, !.sent = 0]]
    BY <1>2 DEF Drop, Ops
  <2>2. [req[t] EXCEPT !.op = op, !.sent = 0] \in Req
    BY SentType DEF Req
  <2>3. ControlOK'
    BY <1>2, <2>1, <2>2 DEF Drop, ControlOK
  <2>. QED
    BY <1>2, <2>3, ControlStep DEF Drop
<1>3. CASE ShortBody(t)
  <2>1. req' = [req EXCEPT ![t] = [req[t] EXCEPT !.op = "cfinish"]]
    BY <1>3 DEF ShortBody
  <2>2. [req[t] EXCEPT !.op = "cfinish"] \in Req
    <3>1. "cfinish" \in Ops
      BY DEF Ops
    <3>. QED
      BY <3>1, SentType DEF Req
  <2>3. ControlOK'
    BY <1>3, <2>1, <2>2 DEF ShortBody, ControlOK
  <2>. QED
    BY <1>3, <2>3, ControlStep DEF ShortBody
<1>4. CASE LongBody(t)
  <2>1. req' = [req EXCEPT ![t] = [req[t] EXCEPT !.op = "cwrite"]]
    BY <1>4 DEF LongBody
  <2>2. [req[t] EXCEPT !.op = "cwrite"] \in Req
    <3>1. "cwrite" \in Ops
      BY DEF Ops
    <3>. QED
      BY <3>1, SentType DEF Req
  <2>3. ControlOK'
    BY <1>4, <2>1, <2>2 DEF LongBody, ControlOK
  <2>. QED
    BY <1>4, <2>3, ControlStep DEF LongBody
<1>5. CASE NoLength(t)
  <2>1. req' = [req EXCEPT ![t] = [req[t] EXCEPT !.op = "cancel"]]
    BY <1>5 DEF NoLength
  <2>2. [req[t] EXCEPT !.op = "cancel"] \in Req
    <3>1. "cancel" \in Ops
      BY DEF Ops
    <3>. QED
      BY <3>1, SentType DEF Req
  <2>3. ControlOK'
    BY <1>5, <2>1, <2>2 DEF NoLength, ControlOK
  <2>. QED
    BY <1>5, <2>3, ControlStep DEF NoLength
<1>. QED
  BY <1>1, <1>2, <1>3, <1>4, <1>5

(* Time, other processes, and upload_manager_destroy.                      *)
LEMMA OutsideKeepsInv ==
    ASSUME Inv, LeaseExpires \/ ForeignCreate \/ DestroyBegin \/ DestroyEnd
    PROVE  Inv'
<1>. USE InvParts
<1>1. CASE LeaseExpires
  <2>1. SlotOK' /\ slot'.occupied = slot.occupied
    BY <1>1 DEF LeaseExpires, SlotOK, SlotLinks, Slot
  <2>2. ControlOK'
    BY <1>1 DEF LeaseExpires, ControlOK
  <2>. QED
    BY <1>1, <2>1, <2>2, SlotStep DEF LeaseExpires
<1>2. CASE ForeignCreate
  <2>1. PICK n \in FreeNames : disk' = [disk EXCEPT !.files[n] = Foreign]
    BY <1>2 DEF ForeignCreate
  <2>. DEFINE files == [disk.files EXCEPT ![n] = Foreign]
  <2>2. files \in [Names -> File]
    BY EmptyTypes, DiskFields DEF RestOK
  <2>3. disk' = [disk EXCEPT !.files = files]
    BY <2>1
  <2>4. disk' \in Disk
    <3>. HIDE DEF files
    <3>1. [disk EXCEPT !.files = files] \in Disk
      BY <2>2, DiskType, DiskFields DEF RestOK
    <3>. QED
      BY <2>3, <3>1
  <2>5. ControlOK' /\ SlotOK' /\ ChunksOK' /\ StreamOK' /\ WriterOK' /\ RestOK'
    BY <1>2, <2>4 DEF ForeignCreate, ControlOK, SlotOK, SlotLinks, ChunksOK, StagingWindow,
                      ChunkCounters, StreamOK, WriterOK, WriterOnChunk, RestOK
  <2>. QED
    BY <2>5, InvPartsPrime
<1>3. CASE DestroyBegin
  <2>1. writer' \in Writer /\ writer'.pc = writer.pc /\ writer'.job = writer.job
        /\ writer'.index = writer.index
    BY <1>3 DEF DestroyBegin, WriterOK, Writer
  <2>2. ControlOK' /\ SlotOK' /\ ChunksOK' /\ StreamOK' /\ RestOK'
    BY <1>3 DEF DestroyBegin, ControlOK, SlotOK, SlotLinks, ChunksOK, StagingWindow,
                ChunkCounters, StreamOK, RestOK
  <2>3. WriterOK'
    BY <1>3, <2>1 DEF DestroyBegin, WriterOK, WriterOnChunk
  <2>. QED
    BY <2>2, <2>3, InvPartsPrime
<1>4. CASE DestroyEnd
  <2>1. ControlOK'
    BY <1>4 DEF DestroyEnd, ControlOK
  <2>. QED
    BY <1>4, <2>1, EmptyManagerKeepsInv DEF DestroyEnd
<1>. QED
  BY <1>1, <1>2, <1>3, <1>4

(* Every step of a handler keeps Inv.                                      *)
LEMMA ThreadKeepsInv ==
    ASSUME Inv, NEW t \in Threads, ThreadStep(t)
    PROVE  Inv'
<1>1. CASE PrepareStep(t)
  BY <1>1, PrepareKeepsInv
<1>2. CASE StreamStep(t)
  BY <1>2, BeginKeepsInv, WriteKeepsInv, DirectKeepsInv DEF StreamStep
<1>3. CASE ChunkStep(t)
  BY <1>3, ChunkKeepsInv
<1>4. CASE FinishStep(t)
  BY <1>4, FinishKeepsInv, CompleteKeepsInv DEF FinishStep
<1>5. CASE EndStep(t)
  BY <1>5, EndKeepsInv
<1>. QED
  BY <1>1, <1>2, <1>3, <1>4, <1>5 DEF ThreadStep

(* Inv is inductive: no step of a handler, of the writer, of shutdown or   *)
(* of the environment leaves it.                                           *)
LEMMA NextKeepsInv == Inv /\ [Next]_vars => Inv'
<1>. SUFFICES ASSUME Inv, [Next]_vars PROVE Inv'
  OBVIOUS
<1>1. CASE UNCHANGED vars
  <2>1. UNCHANGED dataVars /\ ControlOK'
    BY <1>1, InvParts DEF vars, dataVars, ControlOK
  <2>. QED
    BY <2>1, ControlStep
<1>2. CASE \E t \in Threads : \/ ThreadStep(t) \/ Request(t) \/ Drop(t)
                              \/ NoLength(t) \/ ShortBody(t) \/ LongBody(t)
  BY <1>2, ThreadKeepsInv, RequestKeepsInv
<1>3. CASE WriterStep
  BY <1>3, WriterKeepsInv
<1>4. CASE LeaseExpires \/ ForeignCreate \/ DestroyBegin \/ DestroyEnd
  BY <1>4, OutsideKeepsInv
<1>5. CASE Terminated
  BY <1>1, <1>5 DEF Terminated
<1>. QED
  BY <1>1, <1>2, <1>3, <1>4, <1>5 DEF Next
-----------------------------------------------------------------------------
(* Inv is an invariant of the upload manager.                              *)
THEOREM InvHolds == Spec => []Inv
<1>1. Init => Inv
  BY InitInv
<1>2. Inv /\ [Next]_vars => Inv'
  BY NextKeepsInv
<1>. QED
  BY <1>1, <1>2, PTL DEF Spec

(* Type correctness: every field of the manager, of the handlers and of    *)
(* the disk keeps its type under every interleaving of the calls of        *)
(* upload.c; in particular the received and active counters, which the     *)
(* code decrements, never go below zero.                                   *)
THEOREM TypeCorrect == Spec => []TypeOK
<1>1. Inv => TypeOK
  BY DEF Inv
<1>. QED
  BY <1>1, InvHolds, PTL

(* upload_chunk_begin's backpressure is exact: active_chunk_buffers counts *)
(* the chunks that own a staging buffer and never passes the limit.        *)
THEOREM WindowExact == Spec => []StagingWindow
<1>1. Inv => StagingWindow
  BY DEF Inv
<1>. QED
  BY <1>1, InvHolds, PTL

(* The counters upload_finish_chunks_with_metrics relies on agree with the *)
(* chunk states: completed_chunks counts the chunks received whole, and    *)
(* next_write_chunk the written ones, which are a prefix of the file.      *)
THEOREM CountersExact == Spec => []ChunkCounters
<1>1. Inv => ChunkCounters
  BY DEF Inv
<1>. QED
  BY <1>1, InvHolds, PTL

(* The chunk upload_writer_main is writing outside the mutex is never      *)
(* taken from under it: clear_slot, upload_chunk_abort and a new upload    *)
(* leave it alone until the writer has taken the mutex again.              *)
THEOREM WriterUndisturbed == Spec => []WriterOnChunk
<1>1. Inv => WriterOnChunk
  BY DEF Inv
<1>. QED
  BY <1>1, InvHolds, PTL
-----------------------------------------------------------------------------
-----------------------------------------------------------------------------
(* The ring of write buffers.  Five actions touch it; every other step     *)
(* leaves the queue and the buffer being filled alone.                     *)
StreamKept == queue' = queue /\ buffered' = buffered

LEMMA RingUntouched ==
    ASSUME NEW t \in Threads, ThreadStep(t)
    PROVE  WriteCopy(t) \/ Flush(t) \/ clear_slot(t) \/ StreamKept
<1>1. CASE PrepareStep(t)
  BY <1>1 DEF PrepareStep, PrepareSupersede, PrepareBusy, PrepareRefuse, PrepareUndo,
              PrepareOk, StreamKept, dataVars
<1>2. CASE StreamStep(t)
  BY <1>2 DEF StreamStep, BeginOk, BeginRefused, EnableOk, EnableRefused, WriteWait,
              WriteFail, DirectBegin, DirectRefused, DirectIO, DirectEnd, StreamKept,
              dataVars
<1>3. CASE ChunkStep(t)
  BY <1>3 DEF ChunkStep, ChunkBeginOk, ChunkBeginRefused, ChunkWriteOk, ChunkWriteFail,
              ChunkFinishOk, ChunkFinishFail, ChunkAbort, StreamKept, dataVars
<1>4. CASE FinishStep(t)
  BY <1>4 DEF FinishStep, FinishRefused, FinishDirect, FlushNothing, DrainFail, Drain,
              CompleteRefused, CompleteBegin, CompleteDrained, CompleteDrainFail,
              hash_part_file, HashedLost, HashedError, HashedPublish, PublishOk,
              PublishFail, StreamKept, dataVars
<1>5. CASE EndStep(t)
  BY <1>5 DEF EndStep, Cancel, Abort, Status, Reap, ClearWait, StreamKept, dataVars
<1>. QED
  BY <1>1, <1>2, <1>3, <1>4, <1>5 DEF ThreadStep

(* A step of upload.c keeps the buffer being filled apart from the queued  *)
(* ones: a buffer is begun and queued only while the ring has room.        *)
LEMMA RingStep == Inv /\ TailIsFree /\ [Next]_vars => TailIsFree'
<1>. SUFFICES ASSUME Inv, TailIsFree, [Next]_vars PROVE TailIsFree'
  OBVIOUS
<1>0. queue \in Seq(Seq(Unit)) /\ Len(queue) \in Nat /\ QueueDepth \in Nat \ {0}
  BY SizesAssumption DEF Inv, TypeOK
<1>1. CASE StreamKept
  BY <1>1 DEF StreamKept, TailIsFree
<1>2. ASSUME NEW t \in Threads, WriteCopy(t) PROVE TailIsFree'
  <2>1. Len(queue) < QueueDepth
    BY <1>0, <1>2 DEF WriteCopy, QueueFull, TailIsFree
  <2>2. \/ queue' = queue
        \/ buffered' = <<>> /\ \E b \in Seq(Unit) : queue' = Append(queue, b)
    <3>1. Append(buffered, <<req[t].id, req[t].sent + 1>>) \in Seq(Unit)
      BY InvParts, SentType DEF StreamOK
    <3>. QED
      BY <1>2, <3>1 DEF WriteCopy
  <2>3. Len(queue') <= QueueDepth /\ (queue' = queue \/ buffered' = <<>>)
    BY <1>0, <2>1, <2>2
  <2>. QED
    BY <2>1, <2>3 DEF TailIsFree
<1>3. ASSUME NEW t \in Threads, Flush(t) PROVE TailIsFree'
  <2>1. CASE queue' = queue /\ buffered' = buffered
    BY <2>1 DEF TailIsFree
  <2>2. CASE queue' = Append(queue, buffered) /\ buffered' = <<>> /\ ~QueueFull
    <3>1. Len(queue) < QueueDepth /\ buffered \in Seq(Unit)
      BY <1>0, <2>2 DEF QueueFull, TailIsFree, Inv, TypeOK
    <3>2. Len(queue') = Len(queue) + 1
      BY <1>0, <2>2, <3>1
    <3>. QED
      BY <1>0, <2>2, <3>1, <3>2 DEF TailIsFree
  <2>. QED
    BY <1>3, <2>1, <2>2 DEF Flush
<1>4. CASE queue' = <<>> /\ buffered' = <<>>
  BY <1>0, <1>4 DEF TailIsFree
<1>5. CASE WriterStep
  <2>1. CASE StreamKept
    BY <1>1, <2>1
  <2>2. CASE queue # <<>> /\ queue' = Tail(queue) /\ buffered' = buffered
    <3>1. Len(queue') = Len(queue) - 1
      BY <1>0, <2>2
    <3>. QED
      BY <1>0, <2>2, <3>1 DEF TailIsFree
  <2>. QED
    BY <1>5, <2>1, <2>2 DEF WriterStep, WriterTake, WriterIO, WriterDone, WriterExit, StreamKept
<1>6. ASSUME NEW t \in Threads, ThreadStep(t) PROVE TailIsFree'
  BY <1>1, <1>2, <1>3, <1>4, <1>6, RingUntouched DEF clear_slot, EmptyManager
<1>7. ASSUME NEW t \in Threads,
           Request(t) \/ Drop(t) \/ NoLength(t) \/ ShortBody(t) \/ LongBody(t)
      PROVE  TailIsFree'
  BY <1>1, <1>7 DEF Request, Drop, NoLength, ShortBody, LongBody, StreamKept, dataVars
<1>8. CASE LeaseExpires \/ ForeignCreate \/ DestroyBegin \/ Terminated \/ UNCHANGED vars
  BY <1>1, <1>8 DEF LeaseExpires, ForeignCreate, DestroyBegin, Terminated, vars, StreamKept
<1>9. CASE DestroyEnd
  BY <1>4, <1>9 DEF DestroyEnd, EmptyManager
<1>. QED
  BY <1>5, <1>6, <1>7, <1>8, <1>9 DEF Next

(* The ring of write buffers is never overfull, and the buffer a handler   *)
(* fills (memcpy to write_tail in upload_write) is never one the writer    *)
(* still has to write, for any depth and any number of handlers.           *)
THEOREM RingSafe == Spec => []TailIsFree
<1>1. Init => TailIsFree
  BY SizesAssumption DEF Init, TailIsFree
<1>. QED
  BY <1>1, InvHolds, RingStep, PTL DEF Spec
=============================================================================
