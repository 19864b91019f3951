------------------------ MODULE RangedUploadProofs ------------------------
(***************************************************************************)
(* Uploads in ranges: when every file is sent by ranged PUT requests, what *)
(* upload.c publishes is what its client sent, under every fault of the    *)
(* model, and the manager implements FileDrop.                             *)
(***************************************************************************)
EXTENDS UploadControlProofs

(* The clients do not send a file as one PUT body.                         *)
RangedOnly == Kinds \cap {"stream", "direct"} = {}

(* The n units of upload id that follow its first o ones.                  *)
Piece(id, o, n) == [p \in 1..n |-> <<id, o + p>>]
(* The units in the first k chunks of a file of s units.                   *)
UnitsIn(s, k) == IF k * ChunkUnits < s THEN k * ChunkUnits ELSE s
-----------------------------------------------------------------------------
(* Chunks and units.                                                       *)

LEMMA Division ==
    ASSUME NEW a \in Nat, NEW c \in Nat \ {0}
    PROVE  /\ a \div c \in Nat
           /\ (a \div c) * c <= a /\ a < (a \div c) * c + c
OBVIOUS

LEMMA Products ==
    ASSUME NEW i \in Nat, NEW q \in Nat, NEW c \in Nat \ {0}
    PROVE  /\ i * c \in Nat
           /\ i <= q => i * c <= q * c
           /\ i > q => i * c >= q * c + c
           /\ (i + 1) * c = i * c + c
OBVIOUS

(* ChunkCount is the first chunk that begins at or past the end.           *)
LEMMA ChunkInFile ==
    ASSUME NEW s \in Nat, NEW i \in Nat
    PROVE  /\ ChunkCount(s) \in Nat
           /\ i < ChunkCount(s) <=> i * ChunkUnits < s
<1>0. ChunkUnits \in Nat \ {0}
  BY SizesAssumption
<1>1. CASE s = 0
  BY <1>0, <1>1, Products DEF ChunkCount
<1>2. CASE s # 0
  <2>. DEFINE q == (s - 1) \div ChunkUnits
  <2>1. s - 1 \in Nat /\ ChunkCount(s) = q + 1
    BY <1>2 DEF ChunkCount
  <2>2. q \in Nat /\ q * ChunkUnits <= s - 1 /\ s - 1 < q * ChunkUnits + ChunkUnits
    BY <1>0, <2>1, Division
  <2>. HIDE DEF q
  <2>3. q * ChunkUnits \in Nat /\ i * ChunkUnits \in Nat
    BY <1>0, <2>2, Products
  <2>4. i <= q => i * ChunkUnits < s
    BY <1>0, <2>1, <2>2, <2>3, Products
  <2>5. i > q => i * ChunkUnits >= s
    BY <1>0, <2>1, <2>2, <2>3, Products
  <2>. QED
    BY <2>1, <2>2, <2>3, <2>4, <2>5
<1>. QED
  BY <1>1, <1>2

(* The chunks of a file lie end to end.                                    *)
LEMMA UnitsNext ==
    ASSUME NEW s \in Nat, NEW i \in Nat, i < ChunkCount(s)
    PROVE  /\ UnitsIn(s, i) = i * ChunkUnits
           /\ chunk_length_for(s, i) \in Nat
           /\ UnitsIn(s, i + 1) = UnitsIn(s, i) + chunk_length_for(s, i)
<1>0. ChunkUnits \in Nat \ {0} /\ i * ChunkUnits < s
  BY SizesAssumption, ChunkInFile
<1>. DEFINE p == i * ChunkUnits
<1>1. p \in Nat /\ (i + 1) * ChunkUnits = p + ChunkUnits
  BY <1>0, Products
<1>2. UnitsIn(s, i) = p
  BY <1>0 DEF UnitsIn
<1>3. UnitsIn(s, i + 1) = IF p + ChunkUnits < s THEN p + ChunkUnits ELSE s
  BY <1>1 DEF UnitsIn
<1>4. chunk_length_for(s, i) = IF s - p < ChunkUnits THEN s - p ELSE ChunkUnits
  BY <1>0, <1>1 DEF chunk_length_for
<1>. HIDE DEF p
<1>. QED
  BY <1>0, <1>1, <1>2, <1>3, <1>4

(* All chunks together are the file, no chunk is nothing.                  *)
LEMMA UnitsEnds ==
    ASSUME NEW s \in Nat
    PROVE  UnitsIn(s, 0) = 0 /\ UnitsIn(s, ChunkCount(s)) = s
<1>1. ChunkUnits \in Nat \ {0} /\ 0 * ChunkUnits = 0
  BY SizesAssumption
<1>2. ChunkCount(s) \in Nat /\ ~(ChunkCount(s) * ChunkUnits < s)
  BY ChunkInFile
<1>. QED
  BY <1>1, <1>2 DEF UnitsIn

(* Units of one upload, put together.                                      *)
LEMMA PieceType ==
    ASSUME NEW id, NEW o \in Nat, NEW n \in Nat
    PROVE  Len(Piece(id, o, n)) = n /\ Piece(id, o, 0) = <<>>
BY DEF Piece

LEMMA PieceGrows ==
    ASSUME NEW id, NEW o \in Nat, NEW n \in Nat
    PROVE  Append(Piece(id, o, n), <<id, o + n + 1>>) = Piece(id, o, n + 1)
BY DEF Piece

LEMMA GenuineGrows ==
    ASSUME NEW id, NEW n \in Nat, NEW m \in Nat
    PROVE  Genuine(id, n) \o Piece(id, n, m) = Genuine(id, n + m)
BY DEF Piece, Genuine

LEMMA GenuineEmpty == \A id : Genuine(id, 0) = <<>>
BY DEF Genuine
-----------------------------------------------------------------------------
(* The inductive invariant.                                                *)

Busy       == writer.pc \in {"writing", "wrote"}
AllWritten == chunk.next = ChunkCount(slot.size)

(* Nothing is streamed: the ring is empty and the writer writes chunks.    *)
NoStreams == queue = <<>> /\ buffered = <<>> /\ (Busy => writer.job = "chunk")

(* The upload in the slot has an identifier that was handed out and its    *)
(* own part file; the descriptor is closed only when all is written.  In   *)
(* an empty slot only a preparation that is being undone leaves a part.    *)
SlotInv ==
    /\ slot.occupied => /\ slot.id \in Ids /\ slot.id < nextId
                        /\ slot.part = slot.id /\ slot.fd \in {0, slot.id}
                        /\ slot.fd = 0 => AllWritten
    /\ ~slot.occupied => slot.part \in {0, nextId}

(* The only part file is the slot's; those of later uploads are empty.     *)
PartInv ==
    /\ disk.linked \subseteq {slot.part}
    /\ \A i \in Ids : i >= nextId => disk.data[i] = <<>>

(* The writer writes the staged bytes of a chunk of the file.  After an    *)
(* error some chunk stays unwritten.                                       *)
WriterInv ==
    /\ Busy => writer.index < ChunkCount(slot.size) /\ ~writer.error
    /\ writer.pc = "writing" => writer.data = chunk.buf[writer.index]
    /\ writer.error => slot.occupied /\ chunk.next < ChunkCount(slot.size)

(* A staging buffer holds the units of its chunk, from the first one on.   *)
Staged(i) ==
    /\ chunk.state[i] # 0 => i < ChunkCount(slot.size)
    /\ chunk.state[i] \in {1, 2} =>
          chunk.buf[i] = Piece(slot.id, i * ChunkUnits, Len(chunk.buf[i]))
    /\ chunk.state[i] = 2 => Len(chunk.buf[i]) = chunk_length_for(slot.size, i)
BufInv == slot.occupied => \A i \in Chunks : Staged(i)

(* The part file holds the chunks that are written, in file order.         *)
DataInv ==
    slot.occupied /\ slot.fd # 0 /\ ~writer.error =>
        /\ writer.pc # "wrote" =>
              disk.data[slot.part] = Genuine(slot.id, UnitsIn(slot.size, chunk.next))
        /\ writer.pc = "wrote" /\ ~writer.failed =>
              disk.data[slot.part] = Genuine(slot.id, UnitsIn(slot.size, chunk.next + 1))

(* Files that were published are genuine and match their hash, and the     *)
(* upload in the slot is published once.                                   *)
GoodFile(f) ==
    /\ f.owner = "upload" => /\ f.data = Genuine(f.id, f.size) /\ f.id < nextId
                             /\ slot.occupied /\ slot.fd # 0 => f.id # slot.id
    /\ f.owner # "upload" => f.hash = "none"
    /\ f.hash # "bad"
FilesInv == \A n \in Names : GoodFile(disk.files[n])

(* What the place of a handler says of the slot: clear_slot keeps the part *)
(* file only of an upload that is published, a chunk is sent with the size *)
(* of its file, and a file that is hashed is written.                      *)
Sender(t) ==
    /\ pc[t] = "clearing" => req[t].remove
    /\ pc[t] = "clear" /\ ~req[t].remove =>
          slot.occupied /\ slot.part \notin disk.linked /\ AllWritten
    /\ req[t].op \in {"cwrite", "cfinish"} /\ Found(t) => req[t].size = slot.size
    /\ req[t].op = "cbegin" => req[t].idx < ChunkCount(req[t].size)
    /\ pc[t] \in {"hashing", "hashed"} /\ Found(t) => AllWritten
Senders == \A t \in Threads : Sender(t)

(* The manager is destroyed after the servers joined their threads.        *)
Joined == life # "up" => AllIdle

(* The invariant of the manager, and of its handlers.                      *)
Manager == /\ NoStreams /\ SlotInv /\ PartInv /\ WriterInv /\ BufInv /\ DataInv /\ FilesInv
RangedInv == Control /\ Manager /\ Senders /\ Joined

(* Initially there is no upload.                                           *)
LEMMA RangedInit == Init => RangedInv
<1>. SUFFICES ASSUME Init PROVE RangedInv
  OBVIOUS
<1>1. Control
  BY ControlInit
<1>2. NoStreams /\ SlotInv /\ PartInv /\ WriterInv /\ BufInv /\ DataInv /\ FilesInv
  BY DEF Init, NoStreams, Busy, IdleWriter, SlotInv, EmptySlot, PartInv, WriterInv, BufInv,
         DataInv, FilesInv, GoodFile, NoFile
<1>3. Senders /\ Joined
  BY DEF Init, Senders, Sender, Joined, NoReq, AllIdle
<1>. QED
  BY <1>1, <1>2, <1>3 DEF RangedInv, Manager
-----------------------------------------------------------------------------
(* Which steps there are.                                                  *)

(* The types the steps below rely on.                                      *)
LEMMA RangedTypes ==
    ASSUME RangedInv
    PROVE  /\ Inv /\ Control /\ Manager
           /\ slot \in Slot /\ chunk \in ChunkTable /\ writer \in Writer /\ disk \in Disk
           /\ slot.size \in Nat /\ chunk.next \in Nat /\ nextId \in Nat
           /\ chunk.state \in [Chunks -> 0..3] /\ chunk.buf \in [Chunks -> Seq(Unit)]
           /\ disk.linked \in SUBSET Ids /\ disk.data \in [Ids -> Seq(Unit)]
           /\ disk.files \in [Names -> File]
<1>1. Inv /\ Control /\ Manager
  BY DEF RangedInv, Control
<1>2. slot \in Slot /\ chunk \in ChunkTable /\ writer \in Writer /\ disk \in Disk
  BY <1>1, InvParts DEF SlotOK, ChunksOK, WriterOK, RestOK
<1>3. slot.size \in Nat
  <2>1. slot.size \in Sizes \cup {0}
    BY <1>2 DEF Slot
  <2>2. \A n \in Sizes \cup {0} : n \in Nat
    BY SizesAssumption
  <2>. QED
    BY <2>1, <2>2, Zenon
<1>4. nextId \in Nat
  BY <1>1, InvParts, SizesAssumption DEF RestOK
<1>. QED
  BY <1>1, <1>2, <1>3, <1>4, TableFields, DiskFields

(* No handler is at a label of a stream.                                   *)
LEMMA RangedHandler ==
    ASSUME RangedOnly, RangedInv, NEW t \in Threads
    PROVE  /\ Handler(t) /\ Sender(t)
           /\ req[t].op \notin StreamOps
           /\ pc[t] \notin {"room", "dio", "dwrote", "drain"}
           /\ pc[t] \in {"hashing", "hashed"} => req[t].op = "complete"
BY DEF RangedOnly, RangedInv, Control, Handlers, Handler, Senders, StreamOps

(* What a handler can do.                                                  *)
CompleteStep(t) == \/ CompleteRefused(t) \/ CompleteBegin(t) \/ CompleteDrained(t)
                   \/ CompleteDrainFail(t) \/ hash_part_file(t)
                   \/ HashedLost(t) \/ HashedError(t) \/ HashedPublish(t)
InputStep(t) == Request(t) \/ Drop(t) \/ NoLength(t) \/ ShortBody(t) \/ LongBody(t)
LEMMA RangedSteps ==
    ASSUME RangedOnly, RangedInv, NEW t \in Threads, ThreadNext(t)
    PROVE  /\ \/ PrepareStep(t) \/ ChunkStep(t) \/ CompleteStep(t) \/ EndStep(t) \/ InputStep(t)
           /\ life = "up"
<1>0. /\ req[t].op \notin StreamOps
      /\ pc[t] \notin {"room", "dio", "dwrote", "drain"}
  BY RangedHandler
<1>1. ~StreamStep(t)
  BY <1>0 DEF StreamStep, BeginOk, BeginRefused, EnableOk, EnableRefused, WriteWait, WriteCopy,
     WriteFail, InWriteLoop, DirectBegin, DirectRefused, DirectIO, DirectEnd, Body, StreamOps
<1>2. FinishStep(t) => CompleteStep(t)
  BY <1>0 DEF FinishStep, FinishRefused, FinishDirect, FlushNothing, Flush, FinishQueued,
              DrainFail, Drain, At, Body, StreamOps, CompleteStep
<1>3. pc[t] # "idle" \/ Request(t)
  <2>1. CASE PrepareStep(t)
    BY <2>1 DEF PrepareStep, PrepareSupersede, PrepareBusy, PrepareRefuse, PrepareUndo,
                PrepareOk, CanPrepare, Body
  <2>2. CASE ChunkStep(t)
    BY <2>2 DEF ChunkStep, ChunkBeginOk, ChunkBeginRefused, ChunkWriteOk, ChunkWriteFail,
                ChunkFinishOk, ChunkFinishFail, ChunkAbort, Body
  <2>3. CASE CompleteStep(t)
    BY <2>3 DEF CompleteStep, CompleteRefused, CompleteBegin, CompleteDrained,
                CompleteDrainFail, hash_part_file, HashedLost, HashedError, HashedPublish,
                At, Body
  <2>4. CASE EndStep(t)
    BY <2>4 DEF EndStep, Cancel, Abort, Status, Reap, ClearWait, clear_slot, Body
  <2>5. CASE InputStep(t)
    BY <2>5 DEF InputStep, Drop, NoLength, ShortBody, LongBody
  <2>. QED
    BY <1>1, <1>2, <2>1, <2>2, <2>3, <2>4, <2>5 DEF ThreadNext, ThreadStep, InputStep
<1>4. life = "up"
  BY <1>3 DEF Request, RangedInv, Joined, AllIdle
<1>. QED
  BY <1>1, <1>2, <1>4 DEF ThreadNext, ThreadStep, InputStep
-----------------------------------------------------------------------------
(* Steps that keep the manager's state.                                    *)

(* Nothing but the marks of the slot changes.                              *)
LEMMA ManagerSlot ==
    ASSUME Manager, SameUpload, slot'.fd = slot.fd,
           UNCHANGED <<chunk, queue, buffered, writer, disk, nextId>>
    PROVE  Manager'
BY DEF Manager, SameUpload, NoStreams, Busy, SlotInv, AllWritten, PartInv, WriterInv,
       BufInv, Staged, DataInv, FilesInv, GoodFile

LEMMA ManagerSame ==
    ASSUME Manager, UNCHANGED <<slot, chunk, queue, buffered, writer, disk, nextId>>
    PROVE  Manager'
BY SameSlot, ManagerSlot DEF SameMarks

(* A chunk that is not being written changes.                              *)
LEMMA ManagerChunk ==
    ASSUME Manager, SameUpload, slot'.fd = slot.fd, chunk'.next = chunk.next,
           UNCHANGED <<queue, buffered, writer, disk, nextId>>,
           writer.pc = "writing" => chunk'.buf[writer.index] = chunk.buf[writer.index],
           BufInv'
    PROVE  Manager'
BY DEF Manager, SameUpload, NoStreams, Busy, SlotInv, AllWritten, PartInv, WriterInv,
       DataInv, FilesInv, GoodFile

(* The other staging buffers stay as they are.                             *)
LEMMA BufUpdate ==
    ASSUME BufInv, slot.occupied, SameUpload, NEW i \in Chunks,
           \A j \in Chunks \ {i} : chunk'.state[j] = chunk.state[j] /\ chunk'.buf[j] = chunk.buf[j],
           Staged(i)'
    PROVE  BufInv'
BY DEF BufInv, Staged, SameUpload

(* The chunk being written is complete.                                    *)
LEMMA WritingComplete ==
    ASSUME RangedInv, Busy
    PROVE  /\ slot.occupied /\ writer.job = "chunk"
           /\ writer.index \in Chunks /\ writer.index = chunk.next
           /\ chunk.state[writer.index] = 2
           /\ chunk.next < ChunkCount(slot.size)
BY DEF RangedInv, Control, Inv, WriterOnChunk, Manager, NoStreams, WriterInv, Busy
-----------------------------------------------------------------------------
(* Ranged PUTs.                                                            *)

(* A chunk that is not complete changes.                                   *)
LEMMA ChunkTouched ==
    ASSUME RangedInv, SameUpload, slot'.fd = slot.fd, slot.occupied,
           UNCHANGED <<queue, buffered, writer, disk, nextId>>,
           NEW i \in Chunks, chunk.state[i] # 2, chunk'.next = chunk.next,
           \A j \in Chunks \ {i} : chunk'.state[j] = chunk.state[j] /\ chunk'.buf[j] = chunk.buf[j],
           Staged(i)'
    PROVE  Manager'
<1>1. Manager /\ BufInv
  BY DEF RangedInv, Manager
<1>2. BufInv'
  BY <1>1, BufUpdate
<1>3. writer.pc = "writing" => chunk'.buf[writer.index] = chunk.buf[writer.index]
  BY WritingComplete DEF Busy
<1>. QED
  BY <1>1, <1>2, <1>3, ManagerChunk

(* A staging buffer is freed.                                              *)
LEMMA ChunkFreed ==
    ASSUME RangedInv, SameUpload, slot'.fd = slot.fd, slot.occupied,
           UNCHANGED <<queue, buffered, writer, disk, nextId>>,
           NEW i \in Chunks, chunk.state[i] = 1, NEW stale, FreeChunk(i, stale)
    PROVE  Manager'
<1>0. chunk \in ChunkTable /\ chunk.state \in [Chunks -> 0..3] /\ chunk.buf \in [Chunks -> Seq(Unit)]
  BY RangedTypes
<1>. DEFINE s == [chunk.state EXCEPT ![i] = 0]
            b == [chunk.buf EXCEPT ![i] = <<>>]
            a == IF chunk.active > 0 THEN chunk.active - 1 ELSE 0
<1>1. chunk' = [chunk EXCEPT !.state = s, !.buf = b, !.active = a]
  BY DEF FreeChunk
<1>2. s[i] = 0 /\ \A j \in Chunks \ {i} : s[j] = chunk.state[j] /\ b[j] = chunk.buf[j]
  BY <1>0
<1>. HIDE DEF s, b, a
<1>3. chunk'.state = s /\ chunk'.buf = b /\ chunk'.next = chunk.next
  BY <1>0, <1>1 DEF ChunkTable
<1>4. Staged(i)'
  BY <1>2, <1>3 DEF Staged
<1>. QED
  BY <1>2, <1>3, <1>4, ChunkTouched

(* upload_chunk_begin, _write, _finish and _abort.                         *)
LEMMA RangedChunk ==
    ASSUME RangedOnly, RangedInv, NEW t \in Threads, ChunkStep(t)
    PROVE  Manager'
<1>0. /\ chunk \in ChunkTable /\ chunk.state \in [Chunks -> 0..3]
      /\ chunk.buf \in [Chunks -> Seq(Unit)] /\ Manager /\ Inv
  BY RangedTypes
<1>i. PICK i \in Chunks : i = req[t].idx
  <2>1. req[t].idx \in Chunks
    BY <1>0, IdsAreNumbers DEF Req
  <2>. QED
    BY <2>1
<1>1. i \in Nat /\ ChunkUnits \in Nat \ {0} /\ i * ChunkUnits \in Nat
  BY ChunksNat, SizesAssumption, Products
<1>2. SameUpload /\ slot'.fd = slot.fd
  BY <1>0, TransferSlot DEF SameMarks
<1>3. Sender(t)
  BY RangedHandler
<1>4. slot.occupied => \A j \in Chunks : Staged(j)
  BY <1>0 DEF Manager, BufInv
<1>5. CASE ChunkBeginOk(t)
  <2>. DEFINE s == [chunk.state EXCEPT ![i] = 1]
              b == [chunk.buf EXCEPT ![i] = <<>>]
              a == chunk.active + 1
  <2>1. chunk' = [chunk EXCEPT !.state = s, !.buf = b, !.active = a]
    BY <1>i, <1>5 DEF ChunkBeginOk
  <2>2. /\ s[i] = 1 /\ b[i] = <<>>
        /\ \A j \in Chunks \ {i} : s[j] = chunk.state[j] /\ b[j] = chunk.buf[j]
    BY <1>0, <1>1
  <2>. HIDE DEF s, b, a
  <2>3. chunk'.state = s /\ chunk'.buf = b /\ chunk'.next = chunk.next
    BY <1>0, <2>1 DEF ChunkTable
  <2>4. /\ slot.occupied /\ chunk.state[i] = 0
        /\ i < ChunkCount(slot.size)
    BY <1>i, <1>3, <1>5 DEF ChunkBeginOk, Body, ChunkOpen, Found, Sender
  <2>5. <<>> = Piece(slot.id, i * ChunkUnits, 0) /\ Len(<<>>) = 0
    BY <1>1, PieceType
  <2>6. Staged(i)'
    BY <1>2, <2>2, <2>3, <2>4, <2>5 DEF Staged, SameUpload
  <2>. QED
    BY <1>1, <1>2, <1>5, <2>2, <2>3, <2>4, <2>6, ChunkTouched DEF ChunkBeginOk
<1>6. CASE ChunkWriteOk(t)
  <2>k. PICK k \in Chunks : k = WriteIndex(t)
    <3>1. WriteIndex(t) \in Chunks
      BY <1>0, <1>6, WriteTarget, InvParts DEF ChunkWriteOk
    <3>. QED
      BY <3>1
  <2>. DEFINE n == Len(chunk.buf[k])
              unit == <<req[t].id, WriteOffset(t) + 1>>
              b == [chunk.buf EXCEPT ![k] = Append(chunk.buf[k], unit)]
  <2>1. chunk' = [chunk EXCEPT !.buf = b]
    BY <1>6, <2>k DEF ChunkWriteOk
  <2>2. /\ slot.occupied /\ slot.id = req[t].id /\ chunk.state[k] = 1
        /\ n = WriteOffset(t) - k * ChunkUnits
    BY <1>6, <2>k DEF ChunkWriteOk, Writable, Started, Found
  <2>3. k \in Nat /\ k * ChunkUnits \in Nat /\ n \in Nat /\ WriteOffset(t) \in Int
    <3>1. k \in Nat /\ n \in Nat
      BY <1>0, <2>2, ChunksNat
    <3>2. req[t].sent \in Nat
      BY <1>0, IdsAreNumbers DEF Req
    <3>. QED
      BY <1>i, <1>1, <3>1, <3>2, Products DEF WriteOffset
  <2>4. unit = <<slot.id, k * ChunkUnits + n + 1>>
    <3>. HIDE DEF n
    <3>. QED
      BY <2>2, <2>3
  <2>5. Staged(k)
    BY <1>4, <2>2
  <2>6. b[k] = Append(chunk.buf[k], unit)
        /\ \A j \in Chunks \ {k} : b[j] = chunk.buf[j]
    BY <1>0, <2>2
  <2>7. chunk'.state = chunk.state /\ chunk'.buf = b /\ chunk'.next = chunk.next
    <3>. HIDE DEF b
    <3>. QED
      BY <1>0, <2>1 DEF ChunkTable
  <2>8. chunk.buf[k] = Piece(slot.id, k * ChunkUnits, n) /\ k < ChunkCount(slot.size)
    BY <2>2, <2>5 DEF Staged
  <2>9. b[k] = Piece(slot.id, k * ChunkUnits, n + 1) /\ Len(b[k]) = n + 1
    <3>. DEFINE o == k * ChunkUnits
    <3>. HIDE DEF n, unit, b, o
    <3>1. Append(Piece(slot.id, o, n), <<slot.id, o + n + 1>>) = Piece(slot.id, o, n + 1)
      BY <2>3, PieceGrows DEF o
    <3>0. o \in Nat /\ n + 1 \in Nat
      BY <2>3 DEF o
    <3>2. Len(Piece(slot.id, o, n + 1)) = n + 1
      BY <3>0, PieceType
    <3>3. b[k] = Append(Piece(slot.id, o, n), <<slot.id, o + n + 1>>)
      BY <2>4, <2>6, <2>8 DEF o
    <3>. QED
      BY <3>1, <3>2, <3>3 DEF o
  <2>. HIDE DEF n, unit, b
  <2>10. Staged(k)'
    BY <1>2, <2>2, <2>7, <2>8, <2>9 DEF Staged, SameUpload
  <2>. QED
    BY <1>2, <1>6, <2>2, <2>6, <2>7, <2>10, ChunkTouched DEF ChunkWriteOk
<1>7. CASE ChunkFinishOk(t)
  <2>. DEFINE s == [chunk.state EXCEPT ![i] = 2]
              c == chunk.completed + 1
  <2>1. chunk' = [chunk EXCEPT !.state = s, !.completed = c]
    BY <1>i, <1>7 DEF ChunkFinishOk
  <2>2. s[i] = 2 /\ \A j \in Chunks \ {i} : s[j] = chunk.state[j]
    BY <1>0, <1>1
  <2>. HIDE DEF s, c
  <2>3. chunk'.state = s /\ chunk'.buf = chunk.buf /\ chunk'.next = chunk.next
    BY <1>0, <2>1 DEF ChunkTable
  <2>4. /\ slot.occupied /\ chunk.state[i] = 1
        /\ Len(chunk.buf[i]) = chunk_length_for(slot.size, i)
    BY <1>i, <1>3, <1>7 DEF ChunkFinishOk, Body, Receiving, Started, Found, ChunkLength, Sender
  <2>5. Staged(i)
    BY <1>1, <1>4, <2>4
  <2>6. Staged(i)'
    BY <1>2, <2>2, <2>3, <2>4, <2>5 DEF Staged, SameUpload
  <2>. QED
    BY <1>1, <1>2, <1>7, <2>2, <2>3, <2>4, <2>6, ChunkTouched DEF ChunkFinishOk
<1>8. CASE ChunkBeginRefused(t) \/ ChunkWriteFail(t)
  BY <1>0, <1>8, ManagerSame DEF ChunkBeginRefused, ChunkWriteFail, dataVars
<1>9. CASE ChunkFinishFail(t) \/ ChunkAbort(t)
  <2>1. CASE Receiving(t)
    <3>1. /\ \E stale : FreeChunk(i, stale)
          /\ chunk.state[i] = 1 /\ slot.occupied
          /\ UNCHANGED <<queue, buffered, writer, disk, nextId>>
      BY <1>i, <1>9, <2>1 DEF ChunkFinishFail, ChunkAbort, Receiving, Started, Found
    <3>. QED
      BY <1>1, <1>2, <3>1, ChunkFreed
  <2>2. CASE ~Receiving(t)
    BY <1>0, <1>9, <2>2, ManagerSame DEF ChunkFinishFail, ChunkAbort
  <2>. QED
    BY <2>1, <2>2
<1>. QED
  BY <1>5, <1>6, <1>7, <1>8, <1>9 DEF ChunkStep
-----------------------------------------------------------------------------
(* upload_prepare.                                                         *)

(* The part file of an upload that is prepared is the only one, and empty. *)
LEMMA PreparedPart ==
    ASSUME Inv, PartInv, ~slot.occupied => slot.part \in {0, nextId},
           NEW t \in Threads, PrepareOk(t) \/ PrepareUndo(t)
    PROVE  /\ disk'.linked = {nextId} /\ disk'.data = disk.data /\ disk'.files = disk.files
           /\ nextId \in Ids /\ nextId # 0 /\ disk.data[nextId] = <<>>
<1>0. /\ disk \in Disk /\ disk.linked \in SUBSET Ids /\ nextId \in Nat
  BY InvParts, DiskFields, IdsAreNumbers DEF RestOK
<1>1. ~slot.occupied /\ nextId \in Ids
  BY PrepareSlot
<1>2. nextId # 0 /\ 0 \notin Ids
  BY <1>1, SizesAssumption DEF Ids
<1>3. disk.linked \subseteq {nextId}
  BY <1>0, <1>1, <1>2 DEF PartInv
<1>. DEFINE linked == disk.linked \cup {nextId}
<1>4. disk' = [disk EXCEPT !.linked = linked]
  BY DEF PrepareOk, PrepareUndo
<1>5. linked = {nextId}
  BY <1>3
<1>. HIDE DEF linked
<1>6. disk'.linked = linked /\ disk'.data = disk.data /\ disk'.files = disk.files
  BY <1>0, <1>4 DEF Disk
<1>7. disk.data[nextId] = <<>>
  BY <1>0, <1>1 DEF PartInv
<1>. QED
  BY <1>1, <1>2, <1>5, <1>6, <1>7

LEMMA PreparedDisk ==
    ASSUME RangedInv, NEW t \in Threads, PrepareOk(t) \/ PrepareUndo(t)
    PROVE  /\ disk'.linked = {nextId} /\ disk'.data = disk.data /\ disk'.files = disk.files
           /\ nextId \in Ids /\ nextId # 0 /\ disk.data[nextId] = <<>>
           /\ ~Busy /\ ~writer.error
<1>1. Manager /\ Inv
  BY RangedTypes
<1>2. ~Busy /\ ~writer.error
  BY <1>1, PrepareSlot, WritingComplete DEF Manager, WriterInv
<1>. QED
  BY <1>1, <1>2, PreparedPart DEF Manager, SlotInv

LEMMA RangedPrepare ==
    ASSUME RangedInv, NEW t \in Threads, PrepareStep(t)
    PROVE  Manager'
<1>0. /\ Manager /\ Inv /\ nextId \in Nat /\ disk.files \in [Names -> File]
  BY RangedTypes
<1>1. CASE PrepareSupersede(t) \/ PrepareBusy(t) \/ PrepareRefuse(t)
  BY <1>0, <1>1, ManagerSame DEF PrepareSupersede, PrepareBusy, PrepareRefuse, dataVars
<1>2. ASSUME PrepareOk(t) \/ PrepareUndo(t), UNCHANGED <<queue, buffered, writer>>
      PROVE  NoStreams' /\ ~Busy' /\ ~writer'.error
  BY <1>0, <1>2, PreparedDisk DEF Manager, NoStreams, Busy
<1>3. CASE PrepareOk(t)
  <2>0. /\ slot'.occupied /\ slot'.id = nextId /\ slot'.part = nextId /\ slot'.fd = nextId
        /\ slot'.size = req[t].size
    BY <1>0, <1>3, PrepareSlot
  <2>1. /\ nextId' = nextId + 1 /\ chunk' = EmptyChunks /\ NoStreams'
        /\ ~Busy' /\ ~writer'.error
    BY <1>2, <1>3 DEF PrepareOk
  <2>2. /\ disk'.linked = {nextId} /\ disk'.data = disk.data /\ disk'.files = disk.files
        /\ nextId \in Ids /\ nextId # 0 /\ disk.data[nextId] = <<>>
    BY <1>3, PreparedDisk
  <2>3. SlotInv' /\ WriterInv'
    BY <1>0, <2>0, <2>1, <2>2 DEF SlotInv, WriterInv, Busy
  <2>4. PartInv'
    <3>1. \A j \in Ids : j \in Nat
      BY SizesAssumption DEF Ids
    <3>. QED
      BY <1>0, <2>0, <2>1, <2>2, <3>1 DEF Manager, PartInv
  <2>5. BufInv'
    BY <2>1 DEF BufInv, Staged, EmptyChunks
  <2>6. DataInv'
    <3>1. slot'.size \in Nat
      <4>1. req[t].size \in Sizes \cup {0}
        BY <1>0, IdsAreNumbers DEF Req
      <4>2. \A n \in Sizes \cup {0} : n \in Nat
        BY SizesAssumption
      <4>. QED
        BY <2>0, <4>1, <4>2, Zenon
    <3>2. chunk'.next = 0
      BY <2>1 DEF EmptyChunks
    <3>3. Genuine(slot'.id, UnitsIn(slot'.size, chunk'.next)) = <<>>
      BY <3>1, <3>2, UnitsEnds, GenuineEmpty
    <3>. QED
      BY <2>0, <2>1, <2>2, <3>3 DEF DataInv, Busy
  <2>7. FilesInv'
    <3>. SUFFICES ASSUME NEW n \in Names, NEW f, f = disk'.files[n] PROVE GoodFile(f)'
      BY DEF FilesInv, GoodFile
    <3>1. GoodFile(disk.files[n])
      BY <1>0 DEF Manager, FilesInv
    <3>2. disk.files[n].id \in Ids \cup {0}
      BY <1>0 DEF File
    <3>3. \A j \in Ids \cup {0} : j \in Nat
      BY SizesAssumption DEF Ids
    <3>4. disk.files[n].id \in Nat
      BY <3>2, <3>3, Zenon
    <3>. QED
      BY <1>0, <2>0, <2>1, <2>2, <3>1, <3>4 DEF GoodFile
  <2>. QED
    BY <2>1, <2>3, <2>4, <2>5, <2>6, <2>7 DEF Manager
<1>4. CASE PrepareUndo(t) /\ ~PrepareOk(t)
  <2>0. ~slot'.occupied /\ slot'.part = nextId
    BY <1>0, <1>4, PrepareSlot
  <2>1. nextId' = nextId /\ NoStreams' /\ ~Busy' /\ ~writer'.error
    BY <1>2, <1>4 DEF PrepareUndo
  <2>2. /\ disk'.linked = {nextId} /\ disk'.data = disk.data /\ disk'.files = disk.files
    BY <1>4, PreparedDisk
  <2>3. SlotInv' /\ PartInv' /\ BufInv' /\ DataInv' /\ WriterInv'
    BY <1>0, <2>0, <2>1, <2>2
       DEF Manager, SlotInv, PartInv, BufInv, DataInv, WriterInv, Busy
  <2>4. FilesInv'
    BY <1>0, <2>0, <2>1, <2>2 DEF Manager, FilesInv, GoodFile
  <2>. QED
    BY <2>1, <2>3, <2>4 DEF Manager
<1>. QED
  BY <1>1, <1>3, <1>4 DEF PrepareStep
-----------------------------------------------------------------------------
(* clear_slot, and the calls that lead to it.                              *)

(* The writer is told to discard what is queued.                           *)
LEMMA ManagerDiscard ==
    ASSUME RangedInv, NEW x, writer' = [writer EXCEPT !.discard = x],
           UNCHANGED <<slot, chunk, queue, buffered, disk, nextId>>
    PROVE  Manager'
<1>1. writer \in Writer /\ Manager
  BY RangedTypes
<1>2. /\ writer'.pc = writer.pc /\ writer'.job = writer.job /\ writer'.index = writer.index
      /\ writer'.data = writer.data /\ writer'.failed = writer.failed
      /\ writer'.error = writer.error
  BY <1>1 DEF Writer
<1>. QED
  BY <1>1, <1>2 DEF Manager, NoStreams, Busy, SlotInv, AllWritten, PartInv, WriterInv,
                    BufInv, Staged, DataInv, FilesInv, GoodFile

(* The part file is removed with its upload.                               *)
LEMMA EmptiedDisk ==
    ASSUME disk \in Disk, PartInv, NEW remove, EmptyManager(remove),
           remove \/ slot.part \notin disk.linked
    PROVE  /\ disk'.files = disk.files /\ disk'.linked = {}
           /\ \A j \in Ids : disk.data[j] = <<>> => disk'.data[j] = <<>>
<1>0. /\ disk.data \in [Ids -> Seq(Unit)] /\ disk.linked \subseteq {slot.part}
      /\ disk.linked \in SUBSET Ids
  BY DiskFields DEF PartInv
<1>. DEFINE linked == disk.linked \ {slot.part}
            data   == [disk.data EXCEPT ![slot.part] = <<>>]
<1>1. disk' = IF remove /\ slot.part \in disk.linked
              THEN [disk EXCEPT !.linked = linked, !.data = data] ELSE disk
  BY DEF EmptyManager, ClearedDisk
<1>2. linked = {} /\ \A j \in Ids : disk.data[j] = <<>> => data[j] = <<>>
  BY <1>0
<1>. HIDE DEF linked, data
<1>. QED
  BY <1>0, <1>1, <1>2 DEF Disk

(* The slot is emptied and its part file removed.                          *)
LEMMA ManagerEmptied ==
    ASSUME RangedInv, NEW remove, EmptyManager(remove), ~Busy,
           remove \/ slot.part \notin disk.linked
    PROVE  Manager' /\ disk'.linked = {}
<1>0. disk \in Disk /\ writer \in Writer /\ Manager
  BY RangedTypes
<1>3. /\ disk'.files = disk.files /\ disk'.linked = {}
      /\ \A j \in Ids : disk.data[j] = <<>> => disk'.data[j] = <<>>
  BY <1>0, EmptiedDisk DEF Manager
<1>4. /\ ~slot'.occupied /\ slot'.part = 0
      /\ queue' = <<>> /\ buffered' = <<>> /\ nextId' = nextId
  BY DEF EmptyManager, EmptySlot
<1>5. writer' = [writer EXCEPT !.error = FALSE, !.discard = FALSE]
  BY DEF EmptyManager
<1>6. ~Busy' /\ ~writer'.error /\ writer'.pc = writer.pc
  BY <1>0, <1>5 DEF Writer, Busy
<1>7. NoStreams' /\ SlotInv' /\ WriterInv' /\ BufInv' /\ DataInv'
  BY <1>4, <1>6 DEF NoStreams, SlotInv, WriterInv, Busy, BufInv, DataInv
<1>8. PartInv' /\ FilesInv'
  BY <1>0, <1>3, <1>4 DEF Manager, PartInv, FilesInv, GoodFile
<1>. QED
  BY <1>3, <1>7, <1>8 DEF Manager

LEMMA RangedEnd ==
    ASSUME RangedInv, NEW t \in Threads, EndStep(t)
    PROVE  Manager'
<1>0. Manager /\ Control /\ Sender(t) /\ Handler(t)
  BY DEF RangedInv, Senders, Control, Handlers
<1>1. CASE Cancel(t) \/ Abort(t) \/ Status(t) \/ Reap(t)
  BY <1>0, <1>1, ManagerSame DEF Cancel, Abort, Status, Reap, dataVars
<1>2. CASE ClearWait(t)
  BY <1>2, ManagerDiscard DEF ClearWait
<1>3. CASE clear_slot(t)
  <2>1. ~Busy /\ EmptyManager(req[t].remove)
    BY <1>3 DEF clear_slot, Busy
  <2>2. req[t].remove \/ slot.part \notin disk.linked
    BY <1>0, <1>3 DEF clear_slot, Sender
  <2>. QED
    BY <2>1, <2>2, ManagerEmptied
<1>. QED
  BY <1>1, <1>2, <1>3 DEF EndStep
-----------------------------------------------------------------------------
(* upload_finish_chunks.                                                   *)

(* The descriptor of a file that is written is closed.                     *)
LEMMA ManagerClosed ==
    ASSUME Manager, SameUpload, AllWritten,
           UNCHANGED <<chunk, queue, buffered, writer, disk, nextId>>
    PROVE  Manager'
<1>1. CASE slot'.fd = slot.fd
  BY <1>1, ManagerSlot
<1>2. CASE slot'.fd = 0
  BY <1>2 DEF Manager, SameUpload, NoStreams, Busy, SlotInv, AllWritten, PartInv, WriterInv,
              BufInv, Staged, DataInv, FilesInv, GoodFile
<1>. QED
  BY <1>1, <1>2 DEF SameUpload

(* When all is written the writer rests, and the part file is complete.    *)
LEMMA WrittenGenuine ==
    ASSUME RangedInv, slot.occupied, AllWritten
    PROVE  /\ ~Busy /\ ~writer.error
           /\ slot.fd # 0 => disk.data[slot.part] = Genuine(slot.id, slot.size)
<1>0. /\ Manager /\ slot.size \in Nat /\ chunk.next \in Nat
  BY RangedTypes
<1>1. ~(chunk.next < ChunkCount(slot.size))
  BY <1>0, ChunkInFile DEF AllWritten
<1>2. ~Busy /\ ~writer.error
  BY <1>0, <1>1, WritingComplete DEF Manager, WriterInv
<1>3. UnitsIn(slot.size, chunk.next) = slot.size
  BY <1>0, UnitsEnds DEF AllWritten
<1>. QED
  BY <1>0, <1>2, <1>3 DEF Manager, DataInv, Busy

(* What publication puts on the disk.                                      *)
LEMMA PublishedDisk ==
    ASSUME Inv, NEW t \in Threads, NEW digest, PublishOk(t, digest)
    PROVE  /\ slot'.fd = 0 /\ disk'.linked = disk.linked \ {slot.part}
           /\ disk'.data = [disk.data EXCEPT ![slot.part] = <<>>]
           /\ disk.files[slot.name] = NoFile
           /\ disk'.files = [disk.files EXCEPT ![slot.name] =
                 [owner |-> "upload", id |-> slot.id, auth |-> slot.auth, size |-> slot.size,
                  hash |-> slot.hash, data |-> disk.data[slot.part]]]
<1>0. disk \in Disk /\ slot \in Slot
  BY InvParts DEF RestOK, SlotOK
<1>. DEFINE file   == [owner |-> "upload", id |-> slot.id, auth |-> slot.auth,
                       size |-> slot.size, hash |-> slot.hash,
                       data |-> disk.data[slot.part]]
            files  == [disk.files EXCEPT ![slot.name] = file]
            linked == disk.linked \ {slot.part}
            data   == [disk.data EXCEPT ![slot.part] = <<>>]
<1>1. disk' = [disk EXCEPT !.files = files, !.linked = linked, !.data = data]
  BY DEF PublishOk, publish_part
<1>2. disk'.files = files /\ disk'.linked = linked /\ disk'.data = data
  <2>. HIDE DEF files, linked, data
  <2>. QED
    BY <1>0, <1>1 DEF Disk
<1>3. slot'.fd = 0
  BY <1>0 DEF PublishOk, Slot
<1>. QED
  BY <1>2, <1>3 DEF PublishOk, publish_part

(* A genuine file is published, and it has the declared hash.              *)
LEMMA PublishedGood ==
    ASSUME Inv, FilesInv, NEW t \in Threads, NEW digest, PublishOk(t, digest),
           slot.id < nextId, disk.data[slot.part] = Genuine(slot.id, slot.size)
    PROVE  FilesInv'
<1>0. disk.files \in [Names -> File] /\ slot'.fd = 0 /\ nextId' = nextId
      /\ slot.hash # "bad"
  BY InvParts, DiskFields, PublishedDisk DEF RestOK, PublishOk, HashAccepted
<1>. DEFINE file == [owner |-> "upload", id |-> slot.id, auth |-> slot.auth,
                     size |-> slot.size, hash |-> slot.hash,
                     data |-> disk.data[slot.part]]
<1>1. disk'.files = [disk.files EXCEPT ![slot.name] = file]
  BY PublishedDisk
<1>2. /\ file.owner = "upload" /\ file.data = Genuine(file.id, file.size)
      /\ file.hash # "bad" /\ file.id < nextId
  BY <1>0
<1>. HIDE DEF file
<1>. SUFFICES ASSUME NEW n \in Names, NEW f, f = disk'.files[n] PROVE GoodFile(f)'
  BY DEF FilesInv, GoodFile
<1>3. f = file \/ f = disk.files[n]
  BY <1>0, <1>1
<1>4. GoodFile(disk.files[n])
  BY DEF FilesInv
<1>. QED
  BY <1>0, <1>2, <1>3, <1>4 DEF GoodFile

(* What is published is genuine, and has the declared hash.                *)
LEMMA RangedPublish ==
    ASSUME RangedInv, NEW t \in Threads, NEW digest, PublishOk(t, digest),
           slot.occupied, AllWritten
    PROVE  Manager'
<1>0. /\ Manager /\ Inv /\ slot \in Slot
      /\ disk.files \in [Names -> File] /\ disk.data \in [Ids -> Seq(Unit)]
  BY RangedTypes
<1>1. SameUpload /\ UNCHANGED <<chunk, queue, buffered, writer, nextId>>
  BY <1>0, FinishSlot DEF PublishOk
<1>2. slot.fd # 0
  BY DEF PublishOk
<1>3. disk.data[slot.part] = Genuine(slot.id, slot.size)
  BY <1>2, WrittenGenuine
<1>4. /\ slot'.fd = 0 /\ disk'.linked = disk.linked \ {slot.part}
      /\ disk'.data = [disk.data EXCEPT ![slot.part] = <<>>]
  BY <1>0, PublishedDisk
<1>5. NoStreams' /\ SlotInv' /\ WriterInv' /\ BufInv' /\ DataInv'
  BY <1>0, <1>1, <1>4 DEF Manager, SameUpload, NoStreams, Busy, SlotInv, AllWritten,
                          WriterInv, BufInv, Staged, DataInv
<1>6. PartInv'
  BY <1>0, <1>1, <1>4 DEF Manager, SameUpload, PartInv
<1>7. FilesInv'
  BY <1>0, <1>3, PublishedGood DEF Manager, SlotInv
<1>. QED
  BY <1>5, <1>6, <1>7 DEF Manager

LEMMA RangedComplete ==
    ASSUME RangedOnly, RangedInv, NEW t \in Threads, CompleteStep(t)
    PROVE  Manager'
<1>0. Manager /\ Inv /\ Sender(t) /\ slot \in Slot
  BY RangedTypes, RangedHandler
<1>1. CASE \/ CompleteRefused(t) \/ CompleteDrained(t) \/ CompleteDrainFail(t)
           \/ hash_part_file(t)
  BY <1>0, <1>1, ManagerSame DEF CompleteRefused, CompleteDrained, CompleteDrainFail,
                                 hash_part_file, dataVars
<1>2. CASE CompleteBegin(t) \/ HashedLost(t) \/ HashedError(t)
  <2>1. slot' = slot \/ \E b : slot' = [slot EXCEPT !.finalizing = b]
    BY <1>2 DEF CompleteBegin, HashedLost, HashedError
  <2>2. slot'.fd = slot.fd
    BY <1>0, <2>1 DEF Slot
  <2>3. SameUpload
    BY <1>0, <1>2, FinishSlot
  <2>. QED
    BY <1>0, <1>2, <2>2, <2>3, ManagerSlot DEF CompleteBegin, HashedLost, HashedError
<1>3. CASE HashedPublish(t)
  <2>1. slot.occupied /\ AllWritten
    BY <1>0, <1>3 DEF HashedPublish, StillFinalizing, Found, Sender
  <2>2. PICK digest : PublishOk(t, digest) \/ PublishFail(t, digest)
    BY <1>3 DEF HashedPublish
  <2>3. CASE PublishOk(t, digest)
    BY <2>1, <2>3, RangedPublish
  <2>4. CASE PublishFail(t, digest)
    <3>1. SameUpload
      BY <1>0, <2>4, FinishSlot
    <3>2. UNCHANGED <<chunk, queue, buffered, writer, disk, nextId>>
      BY <2>4 DEF PublishFail
    <3>. QED
      BY <1>0, <2>1, <3>1, <3>2, ManagerClosed
  <2>. QED
    BY <2>2, <2>3, <2>4
<1>. QED
  BY <1>1, <1>2, <1>3 DEF CompleteStep

(* Every step of a handler keeps the manager's state.                      *)
LEMMA RangedThread ==
    ASSUME RangedOnly, RangedInv, NEW t \in Threads, ThreadNext(t)
    PROVE  Manager'
<1>1. CASE InputStep(t)
  <2>1. UNCHANGED dataVars
    BY <1>1 DEF InputStep, Request, Drop, NoLength, ShortBody, LongBody
  <2>. QED
    BY <2>1, ManagerSame DEF RangedInv, dataVars
<1>. QED
  BY <1>1, RangedSteps, RangedPrepare, RangedChunk, RangedComplete, RangedEnd
-----------------------------------------------------------------------------
(* The writer thread.                                                      *)

(* The writer takes the next chunk, never a buffer of a stream.            *)
LEMMA RangedTake ==
    ASSUME RangedInv, WriterTake
    PROVE  Manager'
<1>0. Manager /\ writer \in Writer
  BY RangedTypes
<1>1. /\ chunk.next < ChunkCount(slot.size)
      /\ writer' = [writer EXCEPT !.pc = "writing", !.job = "chunk",
                                   !.index = chunk.next, !.data = chunk.buf[chunk.next]]
  BY <1>0 DEF WriterTake, chunk_ready, Manager, NoStreams
<1>2. /\ writer'.pc = "writing" /\ writer'.job = "chunk" /\ writer'.index = chunk.next
      /\ writer'.data = chunk.buf[chunk.next] /\ ~writer'.error
      /\ writer.pc = "idle" /\ ~writer.error
  BY <1>0, <1>1 DEF Writer, WriterTake
<1>. QED
  BY <1>0, <1>1, <1>2 DEF WriterTake, Manager, NoStreams, Busy, SlotInv, AllWritten, PartInv,
                          WriterInv, BufInv, Staged, DataInv, FilesInv, GoodFile

(* The chunk goes to the end of the part file, or the write fails.         *)
LEMMA RangedIO ==
    ASSUME RangedInv, WriterIO
    PROVE  Manager'
<1>0. /\ Manager /\ Inv /\ writer \in Writer /\ disk \in Disk /\ slot.size \in Nat
      /\ disk.data \in [Ids -> Seq(Unit)] /\ chunk.next \in Nat
  BY RangedTypes
<1>1. PICK ok \in BOOLEAN :
         /\ write_all(writer.data, ok)
         /\ writer' = [writer EXCEPT !.pc = "wrote", !.failed = ~ok, !.data = <<>>]
  BY DEF WriterIO
<1>2. /\ writer'.pc = "wrote" /\ writer'.job = writer.job /\ writer'.index = writer.index
      /\ writer'.error = writer.error /\ writer'.failed = ~ok
  BY <1>0, <1>1 DEF Writer
<1>3. Busy /\ writer.pc = "writing"
  BY DEF WriterIO, Busy
<1>4. /\ slot.occupied /\ writer.index \in Chunks /\ writer.index = chunk.next
      /\ chunk.state[chunk.next] = 2 /\ chunk.next < ChunkCount(slot.size)
      /\ ~writer.error /\ writer.data = chunk.buf[chunk.next]
  BY <1>0, <1>3, WritingComplete DEF Manager, WriterInv
<1>5. /\ slot.id \in Ids /\ slot.id < nextId /\ slot.part = slot.id
      /\ slot.fd \in {0, slot.id}
  BY <1>0, <1>4 DEF Manager, SlotInv
<1>6. /\ disk'.files = disk.files
  BY <1>0, <1>1, WriteKeepsFiles
<1>7. /\ disk'.linked = disk.linked
      /\ \A j \in Ids : j >= nextId => disk'.data[j] = disk.data[j]
      /\ ok => disk'.data[slot.part] = disk.data[slot.part] \o writer.data
  <2>1. CASE disk' = disk /\ ~ok
    BY <2>1
  <2>2. ASSUME NEW x, disk' = [disk EXCEPT !.data[slot.fd] = x], slot.fd # 0,
               ok => x = disk.data[slot.fd] \o writer.data
        PROVE  <1>7
    <3>. DEFINE data == [disk.data EXCEPT ![slot.fd] = x]
    <3>1. disk' = [disk EXCEPT !.data = data]
      BY <2>2
    <3>2. slot.fd = slot.part
      BY <1>5, <2>2
    <3>3. /\ data[slot.part] = x
          /\ \A j \in Ids : j >= nextId => data[j] = disk.data[j]
      <4>1. slot.id \in Nat /\ nextId \in Nat
        BY <1>5, SizesAssumption, RangedTypes DEF Ids
      <4>. QED
        BY <1>0, <1>5, <3>2, <4>1
    <3>. HIDE DEF data
    <3>4. disk'.linked = disk.linked /\ disk'.data = data
      BY <1>0, <3>1 DEF Disk
    <3>. QED
      BY <2>2, <3>2, <3>3, <3>4
  <2>. QED
    BY <1>1, <2>1, <2>2 DEF write_all
<1>8. NoStreams' /\ SlotInv' /\ PartInv' /\ WriterInv' /\ BufInv' /\ FilesInv'
  BY <1>0, <1>2, <1>3, <1>4, <1>6, <1>7
     DEF WriterIO, Manager, NoStreams, Busy, SlotInv, AllWritten, PartInv, WriterInv,
         BufInv, Staged, FilesInv, GoodFile
<1>9. DataInv'
  <2>. SUFFICES ASSUME ok, slot.fd # 0
                PROVE  disk'.data[slot.part] = Genuine(slot.id, UnitsIn(slot.size, chunk.next + 1))
    BY <1>2 DEF DataInv, WriterIO
  <2>. DEFINE n == UnitsIn(slot.size, chunk.next)
              m == chunk_length_for(slot.size, chunk.next)
  <2>1. disk.data[slot.part] = Genuine(slot.id, n)
    BY <1>0, <1>3, <1>4 DEF Manager, DataInv
  <2>2. n = chunk.next * ChunkUnits /\ m \in Nat
        /\ UnitsIn(slot.size, chunk.next + 1) = n + m
    BY <1>0, <1>4, UnitsNext
  <2>3. n \in Nat
    BY <1>0, <2>2, SizesAssumption, Products
  <2>4. writer.data = Piece(slot.id, n, m)
    BY <1>0, <1>4, <2>2 DEF Manager, BufInv, Staged
  <2>. HIDE DEF n, m
  <2>5. Genuine(slot.id, n) \o Piece(slot.id, n, m) = Genuine(slot.id, n + m)
    BY <2>2, <2>3, GenuineGrows
  <2>. QED
    BY <1>7, <2>1, <2>2, <2>4, <2>5
<1>. QED
  BY <1>8, <1>9 DEF Manager

(* The chunk is written, or the error is noted.                            *)
LEMMA RangedDone ==
    ASSUME RangedInv, WriterDone
    PROVE  Manager'
<1>0. /\ Manager /\ writer \in Writer /\ chunk \in ChunkTable /\ chunk.next \in Nat
      /\ chunk.state \in [Chunks -> 0..3] /\ chunk.buf \in [Chunks -> Seq(Unit)]
      /\ slot.size \in Nat
  BY RangedTypes
<1>1. Busy /\ writer.pc = "wrote"
  BY DEF WriterDone, Busy
<1>2. /\ slot.occupied /\ writer.job = "chunk" /\ writer.index \in Chunks
      /\ writer.index = chunk.next /\ chunk.next < ChunkCount(slot.size) /\ ~writer.error
  BY <1>0, <1>1, WritingComplete DEF Manager, WriterInv
<1>3. writer'.pc = "idle" /\ writer'.error = writer.failed
  BY <1>0, <1>2 DEF WriterDone, IdleWriter, Writer
<1>4. UNCHANGED <<slot, queue, buffered, disk, nextId>>
  BY <1>2 DEF WriterDone
<1>5. NoStreams' /\ PartInv' /\ FilesInv'
  BY <1>0, <1>3, <1>4 DEF Manager, NoStreams, Busy, PartInv, FilesInv, GoodFile
<1>6. slot.fd # 0
  BY <1>0, <1>2, ChunkInFile DEF Manager, SlotInv, AllWritten
<1>7. CASE writer.failed
  <2>1. UNCHANGED chunk
    BY <1>2, <1>7 DEF WriterDone
  <2>2. SlotInv' /\ WriterInv' /\ BufInv' /\ DataInv'
    BY <1>0, <1>2, <1>3, <1>4, <1>7, <2>1
       DEF Manager, SlotInv, AllWritten, WriterInv, Busy, BufInv, Staged, DataInv
  <2>. QED
    BY <1>5, <2>2 DEF Manager
<1>8. CASE ~writer.failed
  <2>i. PICK i \in Chunks : i = chunk.next
    BY <1>2
  <2>. DEFINE s == [chunk.state EXCEPT ![i] = 3]
              b == [chunk.buf EXCEPT ![i] = <<>>]
              a == IF chunk.active > 0 THEN chunk.active - 1 ELSE 0
              n == chunk.next + 1
  <2>1. chunk' = [chunk EXCEPT !.state = s, !.buf = b, !.next = n, !.active = a]
    BY <1>2, <1>8, <2>i DEF WriterDone, ChunkWritten
  <2>2. s[i] = 3 /\ \A j \in Chunks \ {i} : s[j] = chunk.state[j] /\ b[j] = chunk.buf[j]
    BY <1>0, <2>i
  <2>. HIDE DEF s, b, a, n
  <2>3. chunk'.state = s /\ chunk'.buf = b /\ chunk'.next = n
    BY <1>0, <2>1 DEF ChunkTable
  <2>4. Staged(i)'
    BY <1>2, <1>4, <2>i, <2>2, <2>3 DEF Staged
  <2>5. BufInv'
    BY <1>0, <1>2, <1>4, <2>i, <2>2, <2>3, <2>4, SameSlot, BufUpdate DEF Manager, SameMarks
  <2>6. SlotInv' /\ WriterInv'
    BY <1>0, <1>2, <1>3, <1>4, <1>6, <1>8 DEF Manager, SlotInv, WriterInv, Busy
  <2>7. DataInv'
    BY <1>0, <1>1, <1>2, <1>3, <1>4, <1>8, <2>3 DEF Manager, DataInv, n
  <2>. QED
    BY <1>5, <2>5, <2>6, <2>7 DEF Manager
<1>. QED
  BY <1>0, <1>7, <1>8 DEF Writer

(* A file of another process appears under a name nobody uses.             *)
LEMMA ForeignFile ==
    ASSUME disk \in Disk, FilesInv, ForeignCreate
    PROVE  FilesInv' /\ disk'.linked = disk.linked /\ disk'.data = disk.data
<1>1. PICK m \in FreeNames : disk' = [disk EXCEPT !.files[m] = Foreign]
  BY DEF ForeignCreate
<1>. DEFINE files == [disk.files EXCEPT ![m] = Foreign]
<1>2. disk' = [disk EXCEPT !.files = files]
  BY <1>1
<1>3. disk'.files = files /\ disk'.linked = disk.linked /\ disk'.data = disk.data
  <2>. HIDE DEF files
  <2>. QED
    BY <1>2 DEF Disk
<1>4. FilesInv'
  <2>. SUFFICES ASSUME NEW n \in Names, NEW f, f = disk'.files[n] PROVE GoodFile(f)'
    BY DEF FilesInv, GoodFile
  <2>1. f = Foreign \/ f = disk.files[n]
    BY <1>3, DiskFields
  <2>2. Foreign.owner = "foreign" /\ Foreign.hash = "none"
    BY DEF Foreign, NoFile
  <2>3. GoodFile(disk.files[n])
    BY DEF FilesInv
  <2>. QED
    BY <2>1, <2>2, <2>3 DEF ForeignCreate, GoodFile
<1>. QED
  BY <1>3, <1>4

(* Every step outside the handlers keeps the manager's state.              *)
LEMMA RangedOutside ==
    ASSUME RangedInv, OutsideStep
    PROVE  Manager'
<1>0. /\ Manager /\ slot \in Slot /\ disk \in Disk /\ writer \in Writer
      /\ disk.files \in [Names -> File]
  BY RangedTypes
<1>1. CASE WriterExit
  <2>1. writer' = [writer EXCEPT !.pc = "exited"] /\ writer.pc = "idle"
    BY <1>1 DEF WriterExit
  <2>2. writer'.pc = "exited" /\ writer'.error = writer.error
    BY <1>0, <2>1 DEF Writer
  <2>. QED
    BY <1>0, <1>1, <2>1, <2>2
       DEF WriterExit, Manager, NoStreams, Busy, SlotInv, AllWritten, PartInv, WriterInv,
           BufInv, Staged, DataInv, FilesInv, GoodFile
<1>2. CASE LeaseExpires
  <2>1. slot' = [slot EXCEPT !.stale = TRUE]
    BY <1>2 DEF LeaseExpires
  <2>2. SameUpload /\ slot'.fd = slot.fd
    BY <1>0, <2>1 DEF Slot, SameUpload
  <2>. QED
    BY <1>0, <1>2, <2>2, ManagerSlot DEF LeaseExpires
<1>3. CASE ForeignCreate
  <2>3. FilesInv' /\ disk'.linked = disk.linked /\ disk'.data = disk.data
    BY <1>0, <1>3, ForeignFile DEF Manager
  <2>5. NoStreams' /\ SlotInv' /\ PartInv' /\ WriterInv' /\ BufInv' /\ DataInv'
    BY <1>0, <1>3, <2>3
       DEF ForeignCreate, Manager, NoStreams, Busy, SlotInv, AllWritten, PartInv, WriterInv,
           BufInv, Staged, DataInv
  <2>. QED
    BY <2>3, <2>5 DEF Manager
<1>4. CASE DestroyBegin
  BY <1>4, ManagerDiscard DEF DestroyBegin
<1>5. CASE DestroyEnd
  <2>1. ~Busy /\ EmptyManager(TRUE)
    BY <1>5 DEF DestroyEnd, Busy
  <2>. QED
    BY <2>1, ManagerEmptied
<1>6. CASE UNCHANGED vars
  BY <1>0, <1>6, ManagerSame DEF vars
<1>. QED
  BY <1>1, <1>2, <1>3, <1>4, <1>5, <1>6, RangedTake, RangedIO, RangedDone
     DEF OutsideStep, WriterStep
-----------------------------------------------------------------------------
(* The handlers.                                                           *)

(* The four ways of moving on, when nothing more is said of the new place. *)
LEMMA SenderMoves ==
    ASSUME RangedInv, NEW t \in Threads
    PROVE  /\ Return(t) => Sender(t)'
           /\ \A op, n : Call(t, op, n) /\ op \notin {"cbegin", "cwrite", "cfinish"}
                        => Sender(t)'
           /\ \A then : /\ ClearThen(t, TRUE, then)
                        /\ SameUpload \/ req[t].op \notin {"cwrite", "cfinish"}
                        => Sender(t)'
<1>0. ControlOK /\ Sender(t)
  BY InvParts DEF RangedInv, Control, Senders
<1>1. ASSUME Return(t) PROVE Sender(t)'
  BY <1>0, <1>1, ReturnEffect DEF Sender, NoReq
<1>2. ASSUME NEW op, NEW n, Call(t, op, n), op \notin {"cbegin", "cwrite", "cfinish"}
      PROVE  Sender(t)'
  BY <1>0, <1>2, CallEffect DEF Sender
<1>3. ASSUME NEW then, ClearThen(t, TRUE, then),
             SameUpload \/ req[t].op \notin {"cwrite", "cfinish"}
      PROVE  Sender(t)'
  BY <1>0, <1>3, ClearThenEffect DEF Sender, SameCall, SameRequest, SameUpload, Found
<1>. QED
  BY <1>1, <1>2, <1>3

(* upload_prepare.                                                         *)
LEMMA PrepareSender ==
    ASSUME RangedInv, NEW t \in Threads, PrepareStep(t)
    PROVE  Sender(t)'
BY SenderMoves DEF PrepareStep, PrepareSupersede, PrepareBusy, PrepareRefuse, PrepareUndo,
                   PrepareOk, CanPrepare, Body

(* Ranged PUTs.                                                            *)
LEMMA ChunkSender ==
    ASSUME RangedOnly, RangedInv, NEW t \in Threads, ChunkStep(t)
    PROVE  Sender(t)'
<1>0. Inv /\ ControlOK /\ Sender(t)
  BY RangedTypes, RangedHandler, InvParts
<1>1. SameUpload
  BY <1>0, TransferSlot DEF SameMarks
<1>2. CASE ChunkBeginOk(t) \/ ChunkWriteOk(t)
  <2>1. PICK op \in {"cwrite", "cfinish"} : \E n : Call(t, op, n)
    BY <1>2 DEF ChunkBeginOk, ChunkWriteOk
  <2>2. req[t].size = slot.size
    BY <1>0, <1>2 DEF ChunkBeginOk, ChunkOpen, ChunkWriteOk, Writable, Started, Body, Sender
  <2>3. pc'[t] = "call" /\ req'[t].op = op /\ req'[t].size = req[t].size
    BY <1>0, <2>1, CallEffect
  <2>. QED
    BY <1>1, <2>2, <2>3 DEF Sender, SameUpload
<1>3. CASE \/ ChunkBeginRefused(t) \/ ChunkWriteFail(t) \/ ChunkFinishOk(t)
           \/ ChunkFinishFail(t) \/ ChunkAbort(t)
  BY <1>3, SenderMoves DEF ChunkBeginRefused, ChunkWriteFail, ChunkFinishOk, ChunkFinishFail,
                           ChunkAbort
<1>. QED
  BY <1>2, <1>3 DEF ChunkStep

(* upload_finish_chunks.                                                   *)
LEMMA CompleteSender ==
    ASSUME RangedOnly, RangedInv, NEW t \in Threads, CompleteStep(t)
    PROVE  Sender(t)'
<1>0. Inv /\ ControlOK /\ Sender(t)
  BY RangedTypes, RangedHandler, InvParts
<1>1. CASE CompleteRefused(t) \/ CompleteDrainFail(t) \/ HashedLost(t) \/ HashedError(t)
  <2>1. req[t].op = "complete"
    BY <1>1, RangedHandler DEF CompleteRefused, CompleteDrainFail, HashedLost, HashedError,
                               At, Body, Handler
  <2>. QED
    BY <1>1, <2>1, SenderMoves DEF CompleteRefused, CompleteDrainFail, HashedLost, HashedError
<1>2. CASE CompleteBegin(t)
  BY <1>0, <1>2, GotoEffect DEF CompleteBegin, Body, Sender
<1>3. CASE CompleteDrained(t)
  <2>1. pc'[t] = "hashing" /\ req'[t].op = req[t].op /\ UNCHANGED <<slot, chunk>>
    BY <1>0, <1>3, GotoEffect, LocalSteps DEF CompleteDrained, SameCall, dataVars
  <2>2. req[t].op = "complete" /\ AllWritten
    BY <1>3, RangedHandler DEF CompleteDrained, At, Handler, ChunksWritten, AllWritten
  <2>. QED
    BY <2>1, <2>2 DEF Sender, AllWritten
<1>4. CASE hash_part_file(t)
  <2>1. /\ pc'[t] = "hashed" /\ pc[t] = "hashing" /\ UNCHANGED <<slot, chunk>>
        /\ req'[t].op = req[t].op /\ req'[t].id = req[t].id
    BY <1>0, <1>4, LocalSteps DEF hash_part_file, ControlOK, SameCall, SameRequest, dataVars
  <2>2. req[t].op = "complete"
    BY <2>1, RangedHandler
  <2>. QED
    BY <1>0, <2>1, <2>2 DEF Sender, AllWritten, Found
<1>5. CASE HashedPublish(t)
  <2>1. slot.occupied /\ AllWritten /\ req[t].op = "complete"
    BY <1>0, <1>5, RangedHandler DEF HashedPublish, StillFinalizing, Found, Sender
  <2>2. PICK digest : PublishOk(t, digest) \/ PublishFail(t, digest)
    BY <1>5 DEF HashedPublish
  <2>3. CASE PublishFail(t, digest)
    BY <2>1, <2>3, SenderMoves DEF PublishFail
  <2>4. CASE PublishOk(t, digest)
    <3>1. pc'[t] = "clear" /\ req'[t].op = req[t].op /\ chunk' = chunk
      BY <1>0, <2>4, ClearThenEffect DEF PublishOk, SameCall
    <3>2. SameUpload /\ disk'.linked = disk.linked \ {slot.part}
      BY <1>0, <2>4, FinishSlot, PublishedDisk
    <3>. QED
      BY <2>1, <3>1, <3>2 DEF Sender, SameUpload, AllWritten
  <2>. QED
    BY <2>2, <2>3, <2>4
<1>. QED
  BY <1>1, <1>2, <1>3, <1>4, <1>5 DEF CompleteStep

(* clear_slot, and the calls that lead to it.  It does not wait for the    *)
(* writer when the upload is published.                                    *)
LEMMA EndSender ==
    ASSUME RangedInv, NEW t \in Threads, EndStep(t)
    PROVE  Sender(t)'
<1>0. Inv /\ ControlOK /\ Sender(t)
  BY RangedTypes, InvParts DEF RangedInv, Senders
<1>1. CASE Cancel(t) \/ Abort(t) \/ Status(t) \/ Reap(t)
  <2>1. SameUpload
    BY <1>1, SlotUntouched, SameSlot DEF SameMarks
  <2>. QED
    BY <1>1, <2>1, SenderMoves DEF Cancel, Abort, AfterCall, Status, Reap
<1>2. CASE ClearWait(t)
  <2>1. /\ pc'[t] = "clearing" /\ pc[t] = "clear" /\ req' = req /\ slot' = slot
    BY <1>0, <1>2, GotoEffect DEF ClearWait
  <2>2. Busy
    BY <1>2 DEF ClearWait, Busy
  <2>3. req[t].remove
    BY <1>0, <2>1, <2>2, WrittenGenuine DEF Sender
  <2>. QED
    BY <1>0, <2>1, <2>3 DEF Sender, Found
<1>3. CASE clear_slot(t)
  <2>0. ~slot'.occupied
    BY <1>3 DEF clear_slot, EmptyManager, EmptySlot
  <2>1. CASE AfterCall(t)
    BY <2>1, SenderMoves DEF AfterCall
  <2>2. CASE /\ Goto(t, "body", TRUE)
             /\ req' = [req EXCEPT ![t].remove = FALSE, ![t].then = "return"]
    <3>1. req' = [req EXCEPT ![t] = [req[t] EXCEPT !.remove = FALSE, !.then = "return"]]
      BY <2>2
    <3>2. req'[t] = [req[t] EXCEPT !.remove = FALSE, !.then = "return"] /\ req[t] \in Req
      BY <1>0, <3>1 DEF ControlOK
    <3>3. req'[t].op = req[t].op /\ req'[t].idx = req[t].idx /\ req'[t].size = req[t].size
      BY <3>2 DEF Req
    <3>4. pc'[t] = "body"
      BY <1>0, <2>2, GotoEffect
    <3>. QED
      BY <1>0, <2>0, <3>3, <3>4 DEF Sender, Found
  <2>. QED
    BY <1>3, <2>1, <2>2 DEF clear_slot, AfterClear
<1>. QED
  BY <1>1, <1>2, <1>3 DEF EndStep

(* What clients send, and leave unsent.                                    *)
LEMMA InputSender ==
    ASSUME RangedInv, NEW t \in Threads, InputStep(t)
    PROVE  Sender(t)'
<1>0. ControlOK /\ Sender(t) /\ req[t] \in Req
  BY RangedTypes, InvParts, IdsAreNumbers DEF RangedInv, Senders
<1>1. slot' = slot
  BY SlotUntouched DEF InputStep
<1>2. CASE Request(t)
  <2>0. PICK kind \in Kinds : \E r \in Parameters(kind) :
           req' = [req EXCEPT ![t] = [NoReq EXCEPT
                     !.kind = kind, !.op = r.op, !.id = r.id, !.auth = r.auth,
                     !.size = r.size, !.hash = r.hash, !.idx = r.idx]]
    BY <1>2 DEF Request
  <2>1. PICK r \in Parameters(kind) :
           req' = [req EXCEPT ![t] = [NoReq EXCEPT
                     !.kind = kind, !.op = r.op, !.id = r.id, !.auth = r.auth,
                     !.size = r.size, !.hash = r.hash, !.idx = r.idx]]
    BY <2>0
  <2>2. req'[t].op = r.op /\ req'[t].size = r.size /\ req'[t].idx = r.idx /\ pc'[t] = "call"
    BY <1>0, <1>2, <2>1 DEF NoReq, ControlOK, Request
  <2>3. /\ r.op = FirstOp(kind)
        /\ kind \in {"chunk", "fastchunk"} => r.idx < ChunkCount(r.size)
    BY DEF Parameters
  <2>4. /\ FirstOp(kind) \notin {"cwrite", "cfinish"}
        /\ FirstOp(kind) = "cbegin" => kind \in {"chunk", "fastchunk"}
    BY EnvironmentAssumption DEF FirstOp, AllKinds
  <2>. QED
    BY <2>2, <2>3, <2>4 DEF Sender
<1>3. CASE Drop(t) \/ NoLength(t) \/ ShortBody(t) \/ LongBody(t)
  <2>1. PICK op \in {"cabort", "reabort", "cancel", "cfinish", "cwrite"} :
           /\ \/ req' = [req EXCEPT ![t] = [req[t] EXCEPT !.op = op, !.sent = 0]]
              \/ req' = [req EXCEPT ![t] = [req[t] EXCEPT !.op = op]]
           /\ op \in {"cfinish", "cwrite"} => req[t].op \in {"cfinish", "cwrite"}
    BY <1>3 DEF Drop, NoLength, ShortBody, LongBody
  <2>2. \/ req'[t] = [req[t] EXCEPT !.op = op, !.sent = 0]
        \/ req'[t] = [req[t] EXCEPT !.op = op]
    BY <1>0, <2>1 DEF ControlOK
  <2>3. req'[t].op = op /\ req'[t].id = req[t].id /\ req'[t].size = req[t].size
    BY <1>0, <2>2 DEF Req
  <2>4. pc'[t] = "call"
    BY <1>3 DEF Drop, NoLength, ShortBody, LongBody
  <2>. QED
    BY <1>0, <1>1, <2>1, <2>3, <2>4 DEF Sender, Found
<1>. QED
  BY <1>2, <1>3 DEF InputStep
-----------------------------------------------------------------------------
(* The handlers that do not move.                                          *)

(* What a step leaves of the upload, and of its part file.                 *)
Kept == /\ SameUpload /\ disk'.linked \subseteq disk.linked
        /\ slot.occupied /\ AllWritten => AllWritten'

(* A handler that waits while the upload is kept, or replaced by one that  *)
(* holds the mutex.                                                        *)
LEMMA WaitingSender ==
    ASSUME RangedInv, NEW u \in Threads, pc'[u] = pc[u], req'[u] = req[u],
           \/ Kept
           \/ pc[u] # "clear" /\ (~slot'.occupied \/ slot'.id = nextId)
    PROVE  Sender(u)'
<1>0. Sender(u) /\ Inv /\ req[u].id < nextId
  BY RangedTypes DEF RangedInv, Senders, Control, Handlers, Handler
<1>1. CASE Kept
  BY <1>0, <1>1 DEF Kept, SameUpload, Sender, Found
<1>2. CASE pc[u] # "clear" /\ (~slot'.occupied \/ slot'.id = nextId)
  <2>1. ~Found(u)'
    BY <1>0, <1>2, IdsAreNumbers DEF Found
  <2>. QED
    BY <1>0, <1>2, <2>1 DEF Sender
<1>. QED
  BY <1>1, <1>2

(* The steps of a handler that keep the upload keep it so.                 *)
LEMMA ThreadKeepsUpload ==
    ASSUME RangedOnly, RangedInv, NEW t \in Threads, ThreadNext(t)
    PROVE  \/ Kept
           \/ mutex \in {t, NoThread} /\ (~slot'.occupied \/ slot'.id = nextId)
<1>0. Inv /\ chunk \in ChunkTable
  BY RangedTypes
<1>1. CASE clear_slot(t)
  BY <1>1 DEF clear_slot, EmptyManager, EmptySlot
<1>2. CASE PrepareOk(t) \/ PrepareUndo(t)
  BY <1>0, <1>2, PrepareSlot DEF PrepareOk, PrepareUndo, CanPrepare, Body
<1>3. CASE ~(clear_slot(t) \/ PrepareOk(t) \/ PrepareUndo(t))
  <2>1. SameUpload
    BY <1>0, <1>3, SlotCases
  <2>2. chunk'.next = chunk.next /\ disk'.linked \subseteq disk.linked
    <3>1. CASE PrepareStep(t) \/ EndStep(t) \/ InputStep(t)
      BY <1>3, <3>1 DEF PrepareStep, PrepareSupersede, PrepareBusy, PrepareRefuse, EndStep,
                        Cancel, Abort, Status, Reap, ClearWait, InputStep, Request, Drop,
                        NoLength, ShortBody, LongBody, dataVars
    <3>2. CASE ChunkStep(t)
      <4>1. disk' = disk
        BY <3>2 DEF ChunkStep, ChunkBeginOk, ChunkBeginRefused, ChunkWriteOk, ChunkWriteFail,
                    ChunkFinishOk, ChunkFinishFail, ChunkAbort, dataVars
      <4>2. CASE ChunkBeginOk(t)
        <5>. DEFINE s == [chunk.state EXCEPT ![req[t].idx] = 1]
                    b == [chunk.buf EXCEPT ![req[t].idx] = <<>>]
                    a == chunk.active + 1
        <5>1. chunk' = [chunk EXCEPT !.state = s, !.buf = b, !.active = a]
          BY <4>2 DEF ChunkBeginOk
        <5>. HIDE DEF s, b, a
        <5>. QED
          BY <1>0, <4>1, <5>1 DEF ChunkTable
      <4>3. CASE ChunkWriteOk(t)
        <5>1. PICK b : chunk' = [chunk EXCEPT !.buf = b]
          BY <4>3 DEF ChunkWriteOk
        <5>. QED
          BY <1>0, <4>1, <5>1 DEF ChunkTable
      <4>4. CASE ChunkFinishOk(t)
        <5>1. PICK s, c : chunk' = [chunk EXCEPT !.state = s, !.completed = c]
          BY <4>4 DEF ChunkFinishOk
        <5>. QED
          BY <1>0, <4>1, <5>1 DEF ChunkTable
      <4>5. ASSUME NEW i, NEW stale, FreeChunk(i, stale)
            PROVE  chunk'.next = chunk.next
        <5>1. PICK s, b, a : chunk' = [chunk EXCEPT !.state = s, !.buf = b, !.active = a]
          BY <4>5 DEF FreeChunk
        <5>. QED
          BY <1>0, <5>1 DEF ChunkTable
      <4>. QED
        BY <3>2, <4>1, <4>2, <4>3, <4>4, <4>5
           DEF ChunkStep, ChunkBeginRefused, ChunkWriteFail, ChunkFinishFail, ChunkAbort,
               dataVars
    <3>3. CASE CompleteStep(t)
      <4>1. CASE HashedPublish(t)
        <5>1. PICK digest : PublishOk(t, digest) \/ PublishFail(t, digest)
          BY <4>1 DEF HashedPublish
        <5>2. PublishOk(t, digest) => disk'.linked = disk.linked \ {slot.part}
          BY <1>0, PublishedDisk
        <5>. QED
          BY <5>1, <5>2 DEF PublishOk, PublishFail
      <4>. QED
        BY <3>3, <4>1 DEF CompleteStep, CompleteRefused, CompleteBegin, CompleteDrained,
                          CompleteDrainFail, hash_part_file, HashedLost, HashedError, dataVars
    <3>. QED
      BY <3>1, <3>2, <3>3, RangedSteps
  <2>. QED
    BY <2>1, <2>2 DEF Kept, SameUpload, AllWritten
<1>. QED
  BY <1>1, <1>2, <1>3

(* So do the steps outside the handlers, up to the end.                    *)
LEMMA OutsideSlot ==
    ASSUME Inv, OutsideStep, ~DestroyEnd
    PROVE  SameUpload
<1>1. slot' = slot \/ slot' = [slot EXCEPT !.stale = TRUE]
  BY DEF OutsideStep, WriterStep, WriterTake, WriterIO, WriterDone, WriterExit, LeaseExpires,
         ForeignCreate, DestroyBegin, vars
<1>. QED
  BY <1>1, InvParts DEF SlotOK, Slot, SameUpload

LEMMA OutsideKeepsUpload ==
    ASSUME RangedInv, OutsideStep, ~DestroyEnd
    PROVE  Kept
<1>0. /\ slot \in Slot /\ disk \in Disk /\ chunk.next \in Nat /\ slot.size \in Nat
  BY RangedTypes
<1>1. SameUpload
  BY OutsideSlot, RangedTypes
<1>2. disk'.linked = disk.linked
  <2>1. CASE WriterIO
    <3>1. disk' = disk \/ \E x : disk' = [disk EXCEPT !.data = x]
      BY <2>1 DEF WriterIO, write_all
    <3>. QED
      BY <1>0, <3>1 DEF Disk
  <2>2. CASE ForeignCreate
    <3>1. \E x : disk' = [disk EXCEPT !.files = x]
      BY <2>2 DEF ForeignCreate
    <3>. QED
      BY <1>0, <3>1 DEF Disk
  <2>. QED
    BY <2>1, <2>2 DEF OutsideStep, WriterStep, WriterTake, WriterDone, WriterExit,
                      LeaseExpires, DestroyBegin, vars
<1>3. slot.occupied /\ AllWritten => UNCHANGED chunk
  <2>1. slot.occupied /\ AllWritten => ~WriterDone
    BY WrittenGenuine DEF WriterDone, Busy
  <2>. QED
    BY <2>1 DEF OutsideStep, WriterStep, WriterTake, WriterIO, WriterExit, LeaseExpires,
                ForeignCreate, DestroyBegin, vars
<1>. QED
  BY <1>1, <1>2, <1>3 DEF Kept, SameUpload, AllWritten

(* Every handler stays sound.                                              *)
LEMMA SendersKept ==
    ASSUME RangedOnly, RangedInv, [Next]_vars
    PROVE  Senders'
<1>1. ASSUME NEW t \in Threads, ThreadNext(t)
      PROVE  Senders'
  <2>1. Sender(t)'
    BY <1>1, RangedSteps, PrepareSender, ChunkSender, CompleteSender, EndSender, InputSender
  <2>2. ASSUME NEW u \in Threads, u # t
        PROVE  Sender(u)'
    <3>1. Handler(t) /\ Handler(u) /\ Inv
      BY <1>1, RangedHandler, RangedTypes
    <3>2. pc'[u] = pc[u] /\ req'[u] = req[u]
      BY <1>1, <2>2, <3>1, ThreadMoves DEF ThreadNext, Moves, Others
    <3>3. mutex \in {t, NoThread} => pc[u] # "clear"
      BY <2>2, <3>1, EnvironmentAssumption DEF Handler
    <3>. QED
      BY <1>1, <3>2, <3>3, ThreadKeepsUpload, WaitingSender
  <2>. QED
    BY <2>1, <2>2 DEF Senders
<1>2. CASE OutsideStep
  <2>. SUFFICES ASSUME NEW u \in Threads PROVE Sender(u)'
    BY DEF Senders
  <2>1. pc'[u] = pc[u] /\ req'[u] = req[u]
    BY <1>2, OutsideControl
  <2>2. CASE DestroyEnd
    <3>1. ~slot'.occupied
      BY <2>2 DEF DestroyEnd, EmptyManager, EmptySlot
    <3>2. pc[u] = "idle"
      BY <2>2 DEF DestroyEnd, RangedInv, Joined, AllIdle
    <3>. QED
      BY <2>1, <3>1, <3>2, WaitingSender
  <2>. QED
    BY <1>2, <2>1, <2>2, OutsideKeepsUpload, WaitingSender
<1>. QED
  BY <1>1, <1>2, NextCases

(* No handler runs once the servers are stopped.                           *)
LEMMA JoinedKept ==
    ASSUME RangedOnly, RangedInv, [Next]_vars
    PROVE  Joined'
<1>1. ASSUME NEW t \in Threads, ThreadNext(t)
      PROVE  Joined'
  <2>1. life = "up"
    BY <1>1, RangedSteps
  <2>2. life' = life
    <3>1. CASE PrepareStep(t) \/ InputStep(t) \/ EndStep(t)
      BY <3>1 DEF PrepareStep, PrepareSupersede, PrepareBusy, PrepareRefuse, PrepareUndo,
                  PrepareOk, EndStep, Cancel, Abort, Status, Reap, ClearWait, clear_slot,
                  InputStep, Request, Drop, NoLength, ShortBody, LongBody, dataVars
    <3>2. CASE ChunkStep(t)
      BY <3>2 DEF ChunkStep, ChunkBeginOk, ChunkBeginRefused, ChunkWriteOk, ChunkWriteFail,
                  ChunkFinishOk, ChunkFinishFail, ChunkAbort, dataVars
    <3>3. CASE CompleteStep(t)
      BY <3>3 DEF CompleteStep, CompleteRefused, CompleteBegin, CompleteDrained,
                  CompleteDrainFail, hash_part_file, HashedLost, HashedError, HashedPublish,
                  PublishOk, PublishFail, dataVars
    <3>. QED
      BY <1>1, <3>1, <3>2, <3>3, RangedSteps
  <2>. QED
    BY <2>1, <2>2 DEF Joined
<1>2. CASE OutsideStep
  <2>1. pc' = pc
    BY <1>2, OutsideControl
  <2>2. life' = life \/ AllIdle
    BY <1>2 DEF OutsideStep, WriterStep, WriterTake, WriterIO, WriterDone, WriterExit,
                LeaseExpires, ForeignCreate, DestroyBegin, DestroyEnd, RangedInv, Joined, vars
  <2>. QED
    BY <2>1, <2>2 DEF RangedInv, Joined, AllIdle
<1>. QED
  BY <1>1, <1>2, NextCases

(* RangedInv is inductive when every file is sent in ranges.               *)
LEMMA RangedNext ==
    ASSUME RangedOnly
    PROVE  RangedInv /\ [Next]_vars => RangedInv'
<1>. SUFFICES ASSUME RangedInv, [Next]_vars PROVE RangedInv'
  OBVIOUS
<1>1. Control'
  BY ControlNext DEF RangedInv
<1>2. Manager'
  BY NextCases, RangedThread, RangedOutside
<1>3. Senders' /\ Joined'
  BY SendersKept, JoinedKept
<1>. QED
  BY <1>1, <1>2, <1>3 DEF RangedInv

LEMMA RangedHolds ==
    ASSUME RangedOnly
    PROVE  Spec => []RangedInv
<1>1. RangedInv /\ [Next]_vars => RangedInv'
  BY RangedNext
<1>. QED
  BY <1>1, RangedInit, PTL DEF Spec
-----------------------------------------------------------------------------
(* What it says of the manager.                                            *)

(* No part file outlives its upload: the only one on the disk is that of   *)
(* the slot, whatever is cancelled, aborted, superseded, refused or        *)
(* expired, and whatever disk call fails on the way.                       *)
THEOREM PartFilesOwned ==
    ASSUME RangedOnly
    PROVE  Spec => []NoOrphanPart
<1>1. RangedInv => NoOrphanPart
  BY DEF RangedInv, Manager, PartInv, NoOrphanPart
<1>. QED
  BY <1>1, RangedHolds, PTL

(* The descriptor is never closed under the writer thread: publication     *)
(* waits until the writer has passed the last chunk.                       *)
THEOREM DescriptorOpen ==
    ASSUME RangedOnly
    PROVE  Spec => []WriterHasFile
<1>1. RangedInv => WriterHasFile
  <2>. SUFFICES ASSUME RangedInv, writer.pc = "writing" PROVE slot.fd # 0
    BY DEF WriterHasFile
  <2>1. slot.occupied /\ ~AllWritten
    BY WritingComplete, WrittenGenuine DEF Busy
  <2>. QED
    BY <2>1 DEF RangedInv, Manager, SlotInv
<1>. QED
  BY <1>1, RangedHolds, PTL

(* Every file that is published is the one its client sent, whole and in   *)
(* order, however the ranges of any number of uploads arrive.              *)
THEOREM RangedGenuine ==
    ASSUME RangedOnly
    PROVE  Spec => []PublishedGenuine
<1>1. RangedInv => PublishedGenuine
  BY DEF RangedInv, Manager, FilesInv, GoodFile, PublishedGenuine
<1>. QED
  BY <1>1, RangedHolds, PTL

(* A file whose client declared its SHA-256 is published only with exactly *)
(* that content.                                                           *)
THEOREM RangedIntegrity ==
    ASSUME RangedOnly
    PROVE  Spec => []IntegrityVerified
<1>1. RangedInv => IntegrityVerified
  BY DEF RangedInv, Manager, FilesInv, GoodFile, IntegrityVerified
<1>. QED
  BY <1>1, RangedHolds, PTL
-----------------------------------------------------------------------------
(* The manager implements FileDrop.                                        *)

Current == IF slot.occupied THEN slot.id ELSE 0
Files   == [n \in Names |-> Drop_File(disk.files[n])]

(* A step that FileDrop does not see.                                      *)
Unseen == Current' = Current /\ nextId' = nextId /\ Files' = Files
LEMMA UnseenStutters == Unseen => UNCHANGED Abstract!vars
BY DEF Unseen, Current, Files, Abstract!vars

(* What FileDrop sees of a good file.                                      *)
LEMMA GoodFileSeen ==
    ASSUME NEW f \in File, GoodFile(f)
    PROVE  /\ f.owner = "upload" => Drop_File(f) = f.id
           /\ f.owner = "none" => Drop_File(f) = 0
           /\ f.owner = "foreign" => Drop_File(f) = -1
           /\ f.owner \in {"upload", "none", "foreign"}
BY DEF Drop_File, GoodFile, File

(* The upload in the slot has a number and a name of its own.              *)
Identified == slot.occupied => slot.id \in Ids /\ slot.id < nextId /\ slot.name \in Names
LEMMA NumbersUsed ==
    ASSUME Inv
    PROVE  /\ nextId \in Nat /\ (nextId \in Ids => nextId <= MaxUploads)
           /\ slot.occupied /\ Identified => slot.id \in Nat /\ slot.id # 0
<1>1. \A i \in Ids : i \in Nat /\ i # 0 /\ i <= MaxUploads
  BY SizesAssumption DEF Ids
<1>2. nextId \in Nat
  BY InvParts, SizesAssumption DEF RestOK
<1>. QED
  BY <1>1, <1>2 DEF Identified

(* upload_prepare opens an upload.                                         *)
LEMMA PrepareOpens ==
    ASSUME Inv, NEW t \in Threads, PrepareOk(t), disk'.files = disk.files
    PROVE  Abstract!Open
<1>1. /\ ~slot.occupied /\ slot'.occupied /\ slot'.id = nextId /\ nextId \in Ids
  BY PrepareSlot
<1>2. nextId' = nextId + 1
  BY DEF PrepareOk
<1>3. Files' = Files
  BY DEF Files
<1>4. nextId \in Nat /\ nextId <= MaxUploads /\ MaxUploads \in Nat
  BY <1>1, NumbersUsed, SizesAssumption
<1>. QED
  BY <1>1, <1>2, <1>3, <1>4 DEF Abstract!Open, Files

(* Publication publishes it, for the first time.                           *)
LEMMA PublishPublishes ==
    ASSUME Inv, FilesInv, Identified, slot.occupied,
           disk.data[slot.part] = Genuine(slot.id, slot.size),
           NEW t \in Threads, NEW digest, PublishOk(t, digest)
    PROVE  Abstract!Publish
<1>0. slot \in Slot /\ disk.files \in [Names -> File]
  BY InvParts, DiskFields DEF SlotOK, RestOK
<1>1. SameUpload /\ nextId' = nextId /\ slot.fd # 0
  BY FinishSlot DEF PublishOk
<1>2. slot.id \in Nat /\ slot.id # 0 /\ slot.name \in Names
  BY NumbersUsed DEF Identified
<1>4. \A n \in Names : Files[n] # slot.id
  <2>. SUFFICES ASSUME NEW n \in Names, NEW f, f = disk.files[n] PROVE Drop_File(f) # slot.id
    BY DEF Files
  <2>1. f \in File /\ GoodFile(f)
    BY <1>0 DEF FilesInv
  <2>2. f.owner = "upload" => f.id # slot.id
    BY <1>1, <2>1 DEF GoodFile
  <2>. QED
    BY <1>2, <2>1, <2>2, GoodFileSeen
<1>5. disk.files[slot.name] = NoFile /\ Files' = [Files EXCEPT ![slot.name] = slot.id]
  <2>. DEFINE file == [owner |-> "upload", id |-> slot.id, auth |-> slot.auth,
                       size |-> slot.size, hash |-> slot.hash,
                       data |-> disk.data[slot.part]]
  <2>1. /\ disk'.files = [disk.files EXCEPT ![slot.name] = file]
        /\ disk.files[slot.name] = NoFile
    BY PublishedDisk
  <2>2. Drop_File(file) = slot.id
    BY DEF Drop_File
  <2>. HIDE DEF file
  <2>3. \A n \in Names : disk'.files[n] = IF n = slot.name THEN file ELSE disk.files[n]
    BY <1>0, <2>1
  <2>. QED
    BY <1>2, <2>1, <2>2, <2>3 DEF Files
<1>6. Files[slot.name] = 0
  BY <1>2, <1>5 DEF Files, Drop_File, NoFile
<1>. QED
  BY <1>1, <1>2, <1>4, <1>5, <1>6 DEF Abstract!Publish, Files, Names, SameUpload

(* clear_slot discards the upload, if there is one.                        *)
LEMMA ClearDiscards ==
    ASSUME Inv, Identified, NEW remove, EmptyManager(remove)
    PROVE  Abstract!Discard \/ Unseen
<1>1. ~slot'.occupied /\ nextId' = nextId
  BY DEF EmptyManager, EmptySlot
<1>2. Files' = Files
  BY ClearKeepsFiles, InvParts DEF RestOK, EmptyManager, Files
<1>3. CASE slot.occupied
  BY <1>1, <1>2, <1>3, NumbersUsed DEF Abstract!Discard, Files
<1>4. CASE ~slot.occupied
  BY <1>1, <1>2, <1>4 DEF Unseen, Current
<1>. QED
  BY <1>3, <1>4

(* A step of a handler.                                                    *)
LEMMA ThreadRefines ==
    ASSUME RangedOnly, RangedInv, RoomReserved, NEW t \in Threads, ThreadNext(t)
    PROVE  Abstract!Next \/ Unseen
<1>0. Inv /\ Manager /\ Sender(t) /\ Identified
  BY RangedTypes, RangedHandler DEF Manager, SlotInv, RoomReserved, Identified
<1>1. CASE PrepareOk(t)
  BY <1>0, <1>1, PrepareOpens, PreparedDisk DEF Abstract!Next
<1>2. CASE PrepareUndo(t) /\ ~PrepareOk(t)
  <2>1. ~slot.occupied /\ ~slot'.occupied /\ nextId' = nextId
    BY <1>0, <1>2, PrepareSlot DEF PrepareUndo
  <2>2. Files' = Files
    BY <1>2, PreparedDisk DEF Files
  <2>. QED
    BY <2>1, <2>2 DEF Unseen, Current
<1>3. CASE clear_slot(t)
  BY <1>0, <1>3, ClearDiscards DEF clear_slot, Abstract!Next
<1>4. CASE \E digest : PublishOk(t, digest) /\ HashedPublish(t)
  <2>1. slot.occupied /\ AllWritten
    BY <1>0, <1>4 DEF HashedPublish, StillFinalizing, Found, Sender
  <2>2. slot.fd # 0
    BY <1>4 DEF PublishOk
  <2>3. disk.data[slot.part] = Genuine(slot.id, slot.size)
    BY <2>1, <2>2, WrittenGenuine
  <2>. QED
    BY <1>0, <1>4, <2>1, <2>3, PublishPublishes DEF Manager, Abstract!Next
<1>5. CASE /\ ~(PrepareOk(t) \/ PrepareUndo(t) \/ clear_slot(t))
           /\ ~\E digest : PublishOk(t, digest) /\ HashedPublish(t)
  <2>1. SameUpload
    BY <1>0, <1>5, SlotCases
  <2>2. disk'.files = disk.files
    <3>1. ~Drain(t)
      BY RangedHandler DEF Drain, At
    <3>. QED
      BY <1>0, <1>5, <3>1, FilesCases
  <2>3. nextId' = nextId
    <3>1. CASE PrepareStep(t) \/ InputStep(t) \/ EndStep(t)
      BY <1>5, <3>1 DEF PrepareStep, PrepareSupersede, PrepareBusy, PrepareRefuse, EndStep,
                        Cancel, Abort, Status, Reap, ClearWait, InputStep, Request, Drop,
                        NoLength, ShortBody, LongBody, dataVars
    <3>2. CASE ChunkStep(t)
      BY <3>2 DEF ChunkStep, ChunkBeginOk, ChunkBeginRefused, ChunkWriteOk, ChunkWriteFail,
                  ChunkFinishOk, ChunkFinishFail, ChunkAbort, dataVars
    <3>3. CASE CompleteStep(t)
      BY <3>3 DEF CompleteStep, CompleteRefused, CompleteBegin, CompleteDrained,
                  CompleteDrainFail, hash_part_file, HashedLost, HashedError, HashedPublish,
                  PublishOk, PublishFail, dataVars
    <3>. QED
      BY <3>1, <3>2, <3>3, RangedSteps
  <2>. QED
    BY <2>1, <2>2, <2>3 DEF Unseen, Current, Files, SameUpload
<1>. QED
  BY <1>1, <1>2, <1>3, <1>4, <1>5

(* Another step: a file of another process appears, or the manager is      *)
(* destroyed.                                                              *)
LEMMA OutsideRefines ==
    ASSUME Inv, Identified, OutsideStep
    PROVE  Abstract!Next \/ Unseen
<1>0. disk \in Disk /\ disk.files \in [Names -> File]
  BY InvParts, DiskFields DEF RestOK
<1>1. CASE DestroyEnd
  BY <1>1, ClearDiscards DEF DestroyEnd, Abstract!Next
<1>2. CASE ~DestroyEnd
  <2>1. Current' = Current /\ nextId' = nextId
    BY <1>2, OutsideSlot, OutsideControl DEF SameUpload, Current
  <2>2. CASE ForeignCreate
    <3>1. PICK n \in FreeNames : disk' = [disk EXCEPT !.files[n] = Foreign]
      BY <2>2 DEF ForeignCreate
    <3>. DEFINE files == [disk.files EXCEPT ![n] = Foreign]
    <3>2. disk' = [disk EXCEPT !.files = files]
      BY <3>1
    <3>3. disk'.files = files
      <4>. HIDE DEF files
      <4>. QED
        BY <1>0, <3>2 DEF Disk
    <3>4. Drop_File(Foreign) = -1 /\ Drop_File(NoFile) = 0
      BY DEF Drop_File, Foreign, NoFile
    <3>5. n \in Names /\ disk.files[n] = NoFile
      BY DEF FreeNames
    <3>6. Files' = [Files EXCEPT ![n] = -1] /\ Files[n] = 0
      <4>1. \A m \in Names : disk'.files[m] = IF m = n THEN Foreign ELSE disk.files[m]
        BY <1>0, <3>3, <3>5
      <4>. QED
        BY <3>4, <3>5, <4>1 DEF Files
    <3>. QED
      BY <2>1, <3>5, <3>6 DEF Abstract!Next, Abstract!Appear, Files, Current, Names
  <2>3. CASE ~ForeignCreate
    <3>1. disk'.files = disk.files
      <4>1. CASE WriterIO
        BY <1>0, <4>1, WriteKeepsFiles DEF WriterIO
      <4>. QED
        BY <1>2, <2>3, <4>1 DEF OutsideStep, WriterStep, WriterTake, WriterDone, WriterExit,
                                LeaseExpires, DestroyBegin, vars
    <3>. QED
      BY <2>1, <3>1 DEF Unseen, Files
  <2>. QED
    BY <2>2, <2>3
<1>. QED
  BY <1>1, <1>2

(* Initially nothing is open and no name is used.                          *)
LEMMA DropInit == Init => Abstract!Init
<1>. SUFFICES ASSUME Init PROVE Abstract!Init
  OBVIOUS
<1>1. Drop_File(NoFile) = 0
  BY DEF Drop_File, NoFile
<1>2. ~slot.occupied /\ nextId = 1 /\ \A n \in Names : disk.files[n] = NoFile
  BY DEF Init, EmptySlot
<1>. QED
  BY <1>1, <1>2 DEF Abstract!Init, Names

(* Where every file is sent in ranges, the manager with its handlers,      *)
(* staging buffers and writer implements FileDrop: uploads are opened one  *)
(* at a time under fresh identifiers, and an upload is published at most   *)
(* once, whole, under a name nobody uses.                                  *)
THEOREM RangedImplementsFileDrop ==
    ASSUME RangedOnly
    PROVE  Spec => RefinesFileDrop
<1>1. Init => Abstract!Init
  BY DropInit
<1>2. QuotaInv /\ [Next]_vars => QuotaInv'
  BY QuotaNext DEF RangedOnly, NoUndoUnderStream
<1>3. RangedInv /\ QuotaInv /\ [Next]_vars => [Abstract!Next]_(Abstract!vars)
  <2>. SUFFICES ASSUME RangedInv, QuotaInv, [Next]_vars
                PROVE  [Abstract!Next]_(Abstract!vars)
    OBVIOUS
  <2>0. Inv /\ Identified
    BY RangedTypes DEF Manager, SlotInv, QuotaInv, RoomReserved, Identified
  <2>1. Abstract!Next \/ Unseen
    BY <2>0, NextCases, ThreadRefines, OutsideRefines DEF QuotaInv
  <2>. QED
    BY <2>1, UnseenStutters
<1>. QED
  BY <1>1, <1>2, <1>3, QuotaInit, RangedHolds, PTL DEF Spec, RefinesFileDrop, Abstract!Spec
=============================================================================
