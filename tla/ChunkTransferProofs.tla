------------------------ MODULE ChunkTransferProofs -------------------------
(***************************************************************************)
(* Inv is an inductive invariant of ChunkTransfer, for any number of       *)
(* chunks and parallel requests and any staging window.                    *)
(***************************************************************************)
EXTENDS ChunkTransfer, FiniteSetTheorems, TLAPS

(* The requests `active' counts, and those `completed' counts.             *)
Busy(requests) == {i \in Chunks : requests[i] \in InFlight \cup {"timer"}}
Finished(requests) == {i \in Chunks : requests[i] = "done"}

CountInv == settled = "no" => /\ active = Cardinality(Busy(wire))
                              /\ completed = Cardinality(Finished(wire))
                              /\ active <= Parallelism

(* A chunk that was not started is unknown to both ends.                   *)
FreshInv == \A i \in Chunks : i >= nextIndex => wire[i] = "idle" /\ server.state[i] = 0

(* What the state of a request says about the manager's chunk table.       *)
TableInv ==
    server.alive => \A i \in Chunks :
        /\ wire[i] \in {"sent", "timer", "refused"} => server.state[i] = 0
        /\ wire[i] \in {"open", "cut"} => server.state[i] = 1
        /\ wire[i] \in {"stored", "done"} => server.state[i] \in {2, 3}

(* Completion is asked for after the last chunk, and answered once.        *)
EndInv ==
    /\ complete # "none" => \A i \in Chunks : wire[i] = "done"
    /\ complete = "ok" => server.published
    /\ settled = "done" => complete = "ok"

Inv == TypeOK /\ CountInv /\ FreshInv /\ TableInv /\ EndInv

(* The smaller of two numbers.                                             *)
LEMMA MinPair ==
    ASSUME NEW a \in Int, NEW b \in Int
    PROVE  Min({a, b}) = IF a <= b THEN a ELSE b
<1>1. \E x \in {a, b} : \A y \in {a, b} : x <= y
  BY SMT
<1>2. Min({a, b}) \in {a, b} /\ \A y \in {a, b} : Min({a, b}) <= y
  BY <1>1 DEF Min
<1>. QED
  BY <1>2

(* The larger of two numbers.                                              *)
LEMMA MaxPair ==
    ASSUME NEW a \in Int, NEW b \in Int
    PROVE  Max({a, b}) = IF a >= b THEN a ELSE b
<1>1. \E x \in {a, b} : \A y \in {a, b} : x >= y
  BY SMT
<1>2. Max({a, b}) \in {a, b} /\ \A y \in {a, b} : Max({a, b}) >= y
  BY <1>1 DEF Max
<1>. QED
  BY <1>2

(* Sets of chunks are finite.                                              *)
LEMMA ChunksFinite ==
    /\ IsFiniteSet(Chunks) /\ Cardinality(Chunks) = Count
    /\ \A S \in SUBSET Chunks : IsFiniteSet(S) /\ Cardinality(S) \in Nat
<1>1. IsFiniteSet(Chunks) /\ Cardinality(Chunks) = Count
  BY FS_Interval, TransferAssumption DEF Chunks
<1>2. ASSUME NEW S \in SUBSET Chunks PROVE IsFiniteSet(S)
  BY <1>1, FS_Subset
<1>. QED
  BY <1>1, <1>2, FS_CardinalityType
-----------------------------------------------------------------------------
(* Inv holds when the first requests are sent.                             *)
LEMMA InvInit == Init => Inv
<1>. SUFFICES ASSUME Init PROVE Inv
  OBVIOUS
<1>0. Count \in Nat \ {0} /\ Parallelism \in Nat /\ Parallelism >= 2
  BY TransferAssumption
<1>1. nextIndex = IF Count <= Parallelism THEN Count ELSE Parallelism
  BY <1>0, MinPair DEF Init
<1>2. wire \in [Chunks -> {"sent", "idle"}]
      /\ \A i \in Chunks : wire[i] = IF i < Parallelism THEN "sent" ELSE "idle"
  BY DEF Init
<1>3. TypeOK
  <2>1. nextIndex \in 0..Count /\ nextIndex \in Nat /\ 0 \in 0..Count
    BY <1>0, <1>1
  <2>2. [i \in Chunks |-> 0] \in [Chunks -> 0..3]
    OBVIOUS
  <2>3. server \in [alive : BOOLEAN, state : [Chunks -> 0..3], next : 0..Count,
                    published : BOOLEAN]
    BY <2>1, <2>2 DEF Init
  <2>4. wire \in [Chunks -> InFlight \cup {"idle", "timer", "done", "cut"}]
    BY <1>2 DEF InFlight
  <2>. QED
    BY <2>1, <2>3, <2>4 DEF Init, TypeOK
<1>4. Busy(wire) = 0..(nextIndex - 1)
  BY <1>0, <1>1, <1>2 DEF Busy, Chunks, InFlight
<1>5. Cardinality(0..(nextIndex - 1)) = nextIndex
  BY <1>0, <1>1, FS_Interval
<1>6. Finished(wire) = {}
  BY <1>2 DEF Finished
<1>7. Cardinality({}) = 0
  BY FS_EmptySet
<1>8. CountInv
  <2>1. nextIndex <= Parallelism
    BY <1>0, <1>1
  <2>2. active = nextIndex /\ completed = 0
    BY DEF Init
  <2>. QED
    BY <2>1, <2>2, <1>4, <1>5, <1>6, <1>7 DEF CountInv
<1>9. FreshInv
  BY <1>0, <1>1, <1>2 DEF Init, FreshInv, Chunks
<1>10. TableInv
  BY <1>2 DEF Init, TableInv
<1>11. EndInv
  BY DEF Init, EndInv
<1>. QED
  BY <1>3, <1>8, <1>9, <1>10, <1>11 DEF Inv

(* A request that changes from one counted state to another leaves the     *)
(* counters right.                                                         *)
LEMMA SameCounts ==
    ASSUME Inv, UNCHANGED <<active, completed>>, settled' = "no" => settled = "no",
           Busy(wire') = Busy(wire), Finished(wire') = Finished(wire)
    PROVE  CountInv'
BY DEF Inv, CountInv

(* fail().                                                                 *)
LEMMA FailKeeps ==
    ASSUME Inv, settled = "no", NEW gone \in SUBSET Chunks, Fail(gone),
           UNCHANGED <<nextIndex, completed, cancelled, complete, server>>
    PROVE  Inv'
<1>. USE DEF Inv
<1>1. /\ settled' = "failed" /\ delete' \in {"none", "sent"}
      /\ wire' = Aborted
  BY DEF Fail, TypeOK
<1>2. wire' \in [Chunks -> InFlight \cup {"idle", "timer", "done", "cut"}]
  BY <1>1 DEF Aborted, TypeOK
<1>3. /\ \A i \in Chunks : wire'[i] \in {wire[i], "idle", "cut"}
      /\ \A i \in Chunks : wire'[i] = "cut" => wire[i] \in {"open", "cut"}
      /\ \A i \in Chunks : wire[i] \in {"done", "idle"} => wire'[i] = wire[i]
  BY <1>1 DEF Aborted, InFlight
<1>4. active' \in Nat
  <2>1. Tracked \cup gone \in SUBSET Chunks
    BY DEF Tracked
  <2>2. Cardinality(Tracked \cup gone) \in Nat
    BY <2>1, ChunksFinite
  <2>3. active - Cardinality(Tracked \cup gone) \in Int
    BY <2>2 DEF TypeOK
  <2>4. PICK n \in Int : n = active - Cardinality(Tracked \cup gone)
    BY <2>3
  <2>5. active' = Max({0, n})
    BY <2>4 DEF Fail
  <2>6. Max({0, n}) = IF 0 >= n THEN 0 ELSE n
    BY MaxPair
  <2>. QED
    BY <2>5, <2>6
<1>5. TypeOK'
  BY <1>1, <1>2, <1>4 DEF TypeOK
<1>6. CountInv'
  BY <1>1 DEF CountInv
<1>7. FreshInv'
  BY <1>3 DEF FreshInv
<1>8. TableInv'
  BY <1>3 DEF TableInv
<1>9. EndInv'
  BY <1>1, <1>3 DEF EndInv
<1>. QED
  BY <1>5, <1>6, <1>7, <1>8, <1>9

(* A success: schedule() starts fresh chunks and may ask for completion.   *)
LEMMA StoredKeeps ==
    ASSUME Inv, NEW i \in Chunks, OnStored(i)
    PROVE  Inv'
<1>. USE DEF Inv
<1>. DEFINE new == nextIndex..(nextIndex + Fresh - 1)
<1>0. /\ Count \in Nat \ {0} /\ Parallelism \in Nat /\ nextIndex \in 0..Count
      /\ active \in Nat /\ completed \in 0..Count
  BY TransferAssumption DEF TypeOK
<1>1. /\ wire[i] = "stored" /\ settled = "no" /\ settled' = "no"
      /\ nextIndex' = nextIndex + Fresh /\ active' = active - 1 + Fresh
      /\ completed' = completed + 1
      /\ complete' = IF completed + 1 = Count /\ active' = 0 THEN "sent" ELSE complete
      /\ UNCHANGED <<cancelled, delete, server>>
  BY DEF OnStored, AllIn
<1>2. active = Cardinality(Busy(wire)) /\ completed = Cardinality(Finished(wire))
      /\ active <= Parallelism
  BY <1>1 DEF CountInv
<1>3. i \in Busy(wire) /\ i \notin Finished(wire)
  BY <1>1 DEF Busy, Finished, InFlight
<1>4. active # 0
  BY <1>2, <1>3, ChunksFinite, FS_EmptySet DEF Busy
<1>5. Fresh \in Nat /\ Fresh <= Parallelism - (active - 1) /\ Fresh <= Count - nextIndex
  BY <1>0, <1>2, <1>4, MinPair DEF Fresh
<1>. HIDE DEF Fresh
<1>6. new \subseteq Chunks /\ \A j \in new : j >= nextIndex
  BY <1>0, <1>5 DEF Chunks
<1>7. \A j \in new : wire[j] = "idle" /\ server.state[j] = 0
  BY <1>6 DEF FreshInv
<1>8. i \notin new
  BY <1>1, <1>7
<1>9. /\ wire' \in [Chunks -> InFlight \cup {"idle", "timer", "done", "cut"}]
      /\ wire'[i] = "done"
      /\ \A j \in Chunks \ {i} : wire'[j] = IF j \in new THEN "sent" ELSE wire[j]
  BY DEF OnStored, TypeOK, InFlight
<1>. HIDE DEF new
<1>10. Cardinality(new) = Fresh /\ IsFiniteSet(new)
  <2>1. Cardinality(nextIndex..(nextIndex + Fresh - 1)) = Fresh
        /\ IsFiniteSet(nextIndex..(nextIndex + Fresh - 1))
    BY <1>0, <1>5, FS_Interval
  <2>. QED
    BY <2>1 DEF new
<1>11. active' = Cardinality(Busy(wire'))
  <2>1. Busy(wire') = (Busy(wire) \ {i}) \cup new
    <3>1. \A j \in Chunks : j \in Busy(wire') <=> j \in (Busy(wire) \ {i}) \cup new
      BY <1>8, <1>9 DEF Busy, InFlight
    <3>. QED
      BY <3>1, <1>6 DEF Busy
  <2>2. IsFiniteSet(Busy(wire)) /\ IsFiniteSet(Busy(wire) \ {i})
    BY ChunksFinite DEF Busy
  <2>3. Cardinality(Busy(wire) \ {i}) = active - 1
    BY <1>2, <1>3, <2>2, FS_RemoveElement
  <2>4. (Busy(wire) \ {i}) \cap new = {}
    BY <1>7 DEF Busy, InFlight
  <2>5. Cardinality((Busy(wire) \ {i}) \cup new)
          = Cardinality(Busy(wire) \ {i}) + Cardinality(new) - Cardinality({})
    BY <1>10, <2>2, <2>4, FS_Union
  <2>. QED
    BY <1>0, <1>1, <1>5, <1>10, <2>1, <2>3, <2>5, FS_EmptySet
<1>12. completed' = Cardinality(Finished(wire')) /\ completed' <= Count
  <2>1. Finished(wire') = Finished(wire) \cup {i}
    BY <1>7, <1>9 DEF Finished
  <2>2. IsFiniteSet(Finished(wire)) /\ Finished(wire') \subseteq Chunks
    BY ChunksFinite DEF Finished
  <2>3. Cardinality(Finished(wire) \cup {i}) = Cardinality(Finished(wire)) + 1
    BY <1>3, <2>2, FS_AddElement
  <2>4. Cardinality(Finished(wire')) <= Count
    BY <2>2, ChunksFinite, FS_Subset
  <2>. QED
    BY <1>1, <1>2, <2>1, <2>3, <2>4
<1>13. CountInv'
  BY <1>0, <1>1, <1>5, <1>11, <1>12 DEF CountInv
<1>14. TypeOK'
  <2>1. nextIndex' \in 0..Count /\ completed' \in 0..Count /\ active' \in Nat
    BY <1>0, <1>1, <1>4, <1>5, <1>12
  <2>. QED
    BY <1>1, <1>9, <2>1 DEF TypeOK
<1>15. FreshInv'
  <2>1. ASSUME NEW j \in Chunks, j >= nextIndex' PROVE j >= nextIndex /\ j \notin new
    BY <1>0, <1>1, <1>5, <2>1 DEF new, Chunks
  <2>2. \A j \in Chunks : j >= nextIndex => wire[j] = "idle"
    BY DEF FreshInv
  <2>. QED
    BY <1>1, <1>9, <2>1, <2>2 DEF FreshInv
<1>16. TableInv'
  BY <1>1, <1>7, <1>9 DEF TableInv
<1>17. EndInv'
  <2>1. complete = "none"
    BY <1>1 DEF EndInv, TypeOK
  <2>2. CASE completed' = Count
    <3>1. Finished(wire') \subseteq Chunks /\ Cardinality(Finished(wire')) = Cardinality(Chunks)
      BY <1>12, <2>2, ChunksFinite DEF Finished
    <3>2. Finished(wire') = Chunks
      BY <3>1, ChunksFinite, FS_Subset
    <3>. QED
      BY <1>1, <2>1, <3>2 DEF EndInv, Finished
  <2>3. CASE completed' # Count
    BY <1>1, <2>1, <2>3 DEF EndInv
  <2>. QED
    BY <2>2, <2>3
<1>. QED
  BY <1>13, <1>14, <1>15, <1>16, <1>17

(* The other answers and the retry timer.                                  *)
LEMMA ClientKeeps ==
    ASSUME Inv, NEW i \in Chunks, ClientStep(i) \/ OnNetworkError(i)
    PROVE  Inv'
<1>. USE DEF Inv
<1>1. CASE OnStored(i)
  BY <1>1, StoredKeeps
<1>2. CASE OnFailed(i) \/ OnNetworkError(i) \/ OnTimerCancelled(i)
  <2>1. /\ settled = "no" /\ Fail({i})
        /\ UNCHANGED <<nextIndex, completed, cancelled, complete, server>>
    BY <1>2 DEF OnFailed, OnNetworkError, OnTimerCancelled
  <2>. QED
    BY <2>1, FailKeeps
<1>3. CASE OnRefused(i) \/ OnTimer(i)
  <2>1. /\ wire[i] \in {"refused", "timer"}
        /\ wire' \in [Chunks -> InFlight \cup {"idle", "timer", "done", "cut"}]
        /\ wire'[i] \in {"sent", "timer"}
        /\ \A j \in Chunks : j # i => wire'[j] = wire[j]
        /\ UNCHANGED <<nextIndex, completed, active, cancelled, settled, complete, delete, server>>
    BY <1>3 DEF OnRefused, OnTimer, TypeOK, InFlight
  <2>2. Busy(wire') = Busy(wire) /\ Finished(wire') = Finished(wire)
    BY <2>1 DEF Busy, Finished, InFlight
  <2>3. TypeOK' /\ CountInv'
    BY <2>1, <2>2, SameCounts DEF TypeOK
  <2>4. FreshInv' /\ TableInv' /\ EndInv'
    BY <2>1 DEF FreshInv, TableInv, EndInv
  <2>. QED
    BY <2>3, <2>4
<1>4. CASE OnTimerSettled(i)
  <2>1. /\ wire[i] = "timer" /\ settled # "no"
        /\ wire' \in [Chunks -> InFlight \cup {"idle", "timer", "done", "cut"}]
        /\ wire'[i] = "idle"
        /\ \A j \in Chunks : j # i => wire'[j] = wire[j]
        /\ UNCHANGED <<nextIndex, completed, active, cancelled, settled, complete, delete, server>>
    BY <1>4 DEF OnTimerSettled, TypeOK
  <2>2. TypeOK' /\ CountInv'
    BY <2>1 DEF TypeOK, CountInv
  <2>3. FreshInv' /\ TableInv' /\ EndInv'
    BY <2>1 DEF FreshInv, TableInv, EndInv
  <2>. QED
    BY <2>2, <2>3
<1>. QED
  BY <1>1, <1>2, <1>3, <1>4 DEF ClientStep

(* The user cancels.                                                       *)
LEMMA CancelUploadKeeps == Inv /\ CancelUpload => Inv'
<1>. SUFFICES ASSUME Inv, CancelUpload PROVE Inv'
  OBVIOUS
<1>. USE DEF Inv
<1>1. /\ settled = "no" /\ cancelled' = TRUE /\ delete' = "sent" /\ wire' = Aborted
      /\ active' = active - Cardinality(Tracked)
      /\ settled' = IF Tracked = {} THEN "no" ELSE "failed"
      /\ UNCHANGED <<nextIndex, completed, complete, server>>
  BY DEF CancelUpload
<1>2. wire' \in [Chunks -> InFlight \cup {"idle", "timer", "done", "cut"}]
  BY <1>1 DEF Aborted, TypeOK
<1>3. /\ \A i \in Chunks : wire'[i] \in {wire[i], "idle", "cut"}
      /\ \A i \in Chunks : wire'[i] = "cut" => wire[i] \in {"open", "cut"}
      /\ \A i \in Chunks : wire[i] \in {"done", "idle"} => wire'[i] = wire[i]
  BY <1>1 DEF Aborted, InFlight
<1>4. active' \in Nat
  <2>1. Tracked \subseteq Busy(wire) /\ Busy(wire) \subseteq Chunks
    BY DEF Tracked, Busy
  <2>2. /\ Cardinality(Tracked) <= Cardinality(Busy(wire))
        /\ Cardinality(Tracked) \in Nat /\ Cardinality(Busy(wire)) \in Nat
    BY <2>1, ChunksFinite, FS_Subset
  <2>. QED
    BY <1>1, <2>2 DEF CountInv
<1>5. TypeOK'
  BY <1>1, <1>2, <1>4 DEF TypeOK
<1>6. CountInv'
  <2>1. CASE Tracked = {}
    <3>1. \A i \in Chunks : wire[i] \notin InFlight
      BY <2>1 DEF Tracked
    <3>2. wire' = wire
      BY <1>1, <3>1 DEF Aborted, TypeOK, InFlight
    <3>3. Cardinality(Tracked) = 0
      BY <2>1, FS_EmptySet
    <3>4. active' = active
      BY <1>1, <3>3 DEF TypeOK
    <3>. QED
      BY <1>1, <3>2, <3>4 DEF CountInv
  <2>2. CASE Tracked # {}
    BY <1>1, <2>2 DEF CountInv
  <2>. QED
    BY <2>1, <2>2
<1>7. FreshInv' /\ TableInv' /\ EndInv'
  <2>1. FreshInv'
    BY <1>1, <1>3 DEF FreshInv
  <2>2. TableInv'
    BY <1>1, <1>3 DEF TableInv
  <2>3. EndInv'
    BY <1>1, <1>3 DEF EndInv
  <2>. QED
    BY <2>1, <2>2, <2>3
<1>. QED
  BY <1>5, <1>6, <1>7

(* upload_chunk_begin, upload_chunk_finish and upload_chunk_abort.         *)
LEMMA ServerKeeps ==
    ASSUME Inv, NEW i \in Chunks, ServerStep(i)
    PROVE  Inv'
<1>. USE DEF Inv
<1>0. UNCHANGED <<nextIndex, completed, active, cancelled, settled, delete, complete>>
  BY DEF ServerStep, ChunkBegin, ChunkFinish, ChunkAbort, clientVars
<1>1. /\ server' \in [alive : BOOLEAN, state : [Chunks -> 0..3], next : 0..Count,
                      published : BOOLEAN]
      /\ server'.alive = server.alive /\ server'.published = server.published
      /\ \A j \in Chunks : j # i => server'.state[j] = server.state[j]
  BY DEF ServerStep, ChunkBegin, ChunkFinish, ChunkAbort, TypeOK
<1>2. /\ wire' \in [Chunks -> InFlight \cup {"idle", "timer", "done", "cut"}]
      /\ \A j \in Chunks : j # i => wire'[j] = wire[j]
      /\ wire[i] \in {"sent", "open", "cut"}
  BY DEF ServerStep, ChunkBegin, ChunkFinish, ChunkAbort, Answer, TypeOK, InFlight
<1>3. /\ wire[i] \in {"sent", "open"} => wire'[i] \in {"open", "stored", "refused", "failed"}
      /\ wire[i] = "cut" => wire'[i] = "idle"
  BY DEF ServerStep, ChunkBegin, ChunkFinish, ChunkAbort, Answer, TypeOK
<1>4. server.alive =>
        /\ wire'[i] = "open" => server'.state[i] = 1
        /\ wire'[i] = "stored" => server'.state[i] = 2
        /\ wire'[i] = "refused" => server'.state[i] = 0
  BY DEF ServerStep, ChunkBegin, ChunkFinish, ChunkAbort, Answer, TypeOK
<1>5. TypeOK'
  BY <1>0, <1>1, <1>2 DEF TypeOK
<1>6. CountInv'
  <2>1. Busy(wire') = Busy(wire) /\ Finished(wire') = Finished(wire)
    BY <1>2, <1>3 DEF Busy, Finished, InFlight
  <2>. QED
    BY <1>0, <2>1, SameCounts
<1>7. FreshInv'
  <2>1. i < nextIndex
    BY <1>2 DEF FreshInv, TypeOK, Chunks
  <2>. QED
    BY <1>0, <1>1, <1>2, <2>1 DEF FreshInv
<1>8. TableInv'
  BY <1>1, <1>2, <1>3, <1>4 DEF TableInv
<1>9. EndInv'
  BY <1>0, <1>1, <1>2 DEF EndInv
<1>. QED
  BY <1>5, <1>6, <1>7, <1>8, <1>9

(* The writer, the end of the upload and its loss.                         *)
LEMMA EndKeeps ==
    Inv /\ (EndStep \/ Write \/ Cancel \/ DeleteLost \/ LeaseExpires) => Inv'
<1>. SUFFICES ASSUME Inv, EndStep \/ Write \/ Cancel \/ DeleteLost \/ LeaseExpires
              PROVE  Inv'
  OBVIOUS
<1>. USE DEF Inv
<1>1. CASE OnCompleted
  <2>1. /\ complete = "ok" /\ settled' = "done"
        /\ UNCHANGED <<wire, nextIndex, completed, active, cancelled, complete, delete, server>>
    BY <1>1 DEF OnCompleted, Completed
  <2>. QED
    BY <2>1 DEF TypeOK, CountInv, FreshInv, TableInv, EndInv
<1>2. CASE OnCompleteFailed
  <2>1. /\ settled = "no" /\ Fail({})
        /\ UNCHANGED <<nextIndex, completed, cancelled, complete, server>>
    BY <1>2 DEF OnCompleteFailed
  <2>2. {} \in SUBSET Chunks
    OBVIOUS
  <2>. QED
    BY <2>1, <2>2, FailKeeps
<1>3. CASE CompleteRefused
  <2>1. /\ complete = "sent" /\ complete' = "error"
        /\ UNCHANGED <<wire, nextIndex, completed, active, cancelled, settled, delete, server>>
    BY <1>3 DEF CompleteRefused, clientVars
  <2>. QED
    BY <2>1 DEF TypeOK, CountInv, FreshInv, TableInv, EndInv
<1>4. CASE CompleteOk
  <2>1. /\ complete = "sent" /\ complete' = "ok"
        /\ UNCHANGED <<wire, nextIndex, completed, active, cancelled, settled, delete>>
    BY <1>4 DEF CompleteOk, clientVars
  <2>2. /\ server' \in [alive : BOOLEAN, state : [Chunks -> 0..3], next : 0..Count,
                        published : BOOLEAN]
        /\ ~server'.alive /\ server'.published /\ server'.state = server.state
    BY <1>4 DEF CompleteOk, TypeOK
  <2>. QED
    BY <2>1, <2>2 DEF TypeOK, CountInv, FreshInv, TableInv, EndInv
<1>5. CASE Write
  <2>1. /\ server.next \in Chunks /\ server.state[server.next] = 2
        /\ server' = [server EXCEPT !.state[server.next] = 3, !.next = @ + 1]
        /\ UNCHANGED <<wire, nextIndex, completed, active, cancelled, settled, delete, complete>>
    BY <1>5, TransferAssumption DEF Write, clientVars, TypeOK, Chunks
  <2>11. server.next + 1 \in 0..Count
    BY <2>1, TransferAssumption DEF Chunks
  <2>12. server \in [alive : BOOLEAN, state : [Chunks -> 0..3], next : 0..Count,
                     published : BOOLEAN]
    BY DEF TypeOK
  <2>2. /\ server' \in [alive : BOOLEAN, state : [Chunks -> 0..3], next : 0..Count,
                        published : BOOLEAN]
        /\ server'.alive = server.alive /\ server'.published = server.published
    <3>. DEFINE table == [server.state EXCEPT ![server.next] = 3]
    <3>1. table \in [Chunks -> 0..3]
      <4>1. server.state \in [Chunks -> 0..3] /\ 3 \in 0..3
        BY <2>12
      <4>. QED
        BY ONLY <4>1
    <3>2. server' = [server EXCEPT !.state = table, !.next = server.next + 1]
      BY <2>1
    <3>. HIDE DEF table
    <3>3. PICK t \in [Chunks -> 0..3], n \in 0..Count :
             server' = [server EXCEPT !.state = t, !.next = n]
      BY <3>1, <3>2, <2>11
    <3>. QED
      BY ONLY <3>3, <2>12
  <2>3. \A j \in Chunks : \/ server'.state[j] = server.state[j]
                          \/ server.state[j] = 2 /\ server'.state[j] = 3
    BY <2>1 DEF TypeOK
  <2>4. TypeOK' /\ CountInv'
    BY <2>1, <2>2 DEF TypeOK, CountInv
  <2>5. FreshInv' /\ TableInv' /\ EndInv'
    BY <2>1, <2>2, <2>3 DEF FreshInv, TableInv, EndInv
  <2>. QED
    BY <2>4, <2>5
<1>6. CASE Cancel \/ DeleteLost \/ LeaseExpires
  <2>1. /\ delete' \in {"none", "sent"}
        /\ UNCHANGED <<wire, nextIndex, completed, active, cancelled, settled, complete>>
        /\ server' = server \/ server' = [server EXCEPT !.alive = FALSE]
    BY <1>6 DEF Cancel, DeleteLost, LeaseExpires, clientVars, TypeOK
  <2>2. /\ server' \in [alive : BOOLEAN, state : [Chunks -> 0..3], next : 0..Count,
                        published : BOOLEAN]
        /\ server'.alive => server.alive
        /\ server'.state = server.state /\ server'.published = server.published
    BY <2>1 DEF TypeOK
  <2>3. TypeOK' /\ CountInv'
    BY <2>1, <2>2 DEF TypeOK, CountInv
  <2>4. FreshInv' /\ TableInv' /\ EndInv'
    BY <2>1, <2>2 DEF FreshInv, TableInv, EndInv
  <2>. QED
    BY <2>3, <2>4
<1>. QED
  BY <1>1, <1>2, <1>3, <1>4, <1>5, <1>6 DEF EndStep

(* Every step of the client, of the manager and of the network keeps Inv.  *)
THEOREM InvNext == Inv /\ [Next]_vars => Inv'
<1>. SUFFICES ASSUME Inv, [Next]_vars PROVE Inv'
  OBVIOUS
<1>1. CASE AtRest \/ UNCHANGED vars
  BY <1>1 DEF AtRest, vars, Inv, TypeOK, CountInv, FreshInv, TableInv, EndInv
<1>. QED
  BY <1>1, ClientKeeps, ServerKeeps, CancelUploadKeeps, EndKeeps DEF Next

(* Inv holds in every behaviour of a ranged transfer.                      *)
THEOREM Safety == Spec => []Inv
BY InvInit, InvNext, PTL DEF Spec

(* The client's counters and the manager's table have their types: no      *)
(* request is counted off twice and no chunk is started past the file.     *)
THEOREM TransferTypes == Spec => []TypeOK
<1>1. Inv => TypeOK
  BY DEF Inv
<1>. QED
  BY <1>1, Safety, PTL

(* The counters by which schedule() in uploadChunks decides what to do     *)
(* next agree with its requests.                                           *)
THEOREM CountersAgree == Spec => []ActiveExact
<1>1. Inv => ActiveExact
  BY DEF Inv, CountInv, ActiveExact, Busy, Finished
<1>. QED
  BY <1>1, Safety, PTL

(* The client's retry never meets a chunk the manager has                  *)
(* (upload_chunk_begin would answer 409, which ends the transfer).         *)
THEOREM RetriesSafe == Spec => []ResendsOnlyMissing
<1>1. Inv => ResendsOnlyMissing
  BY DEF Inv, TableInv, ResendsOnlyMissing
<1>. QED
  BY <1>1, Safety, PTL

(* finish() in uploadChunks is called only when every chunk was accepted.  *)
THEOREM CompletionNotEarly == Spec => []NoEarlyComplete
<1>1. Inv => NoEarlyComplete
  BY DEF Inv, TableInv, EndInv, NoEarlyComplete
<1>. QED
  BY <1>1, Safety, PTL

(* A file the page shows as sent was published (upload_finish_chunks).     *)
THEOREM DoneIsPublished == Spec => []DoneMeansPublished
<1>1. Inv => DoneMeansPublished
  BY DEF Inv, EndInv, DoneMeansPublished
<1>. QED
  BY <1>1, Safety, PTL
=============================================================================
