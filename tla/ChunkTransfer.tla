--------------------------- MODULE ChunkTransfer ----------------------------
(***************************************************************************)
(* One ranged upload from both ends: the scheduler of the web client       *)
(* (uploadChunks, cancelUpload and the end of runQueue in web/app.js)      *)
(* against the staging window of the upload manager.  UploadManager has    *)
(* the server in detail with clients that do anything; here the server is  *)
(* its chunk table and the client is the one that ships with it.           *)
(*                                                                         *)
(* A handler of the browser is one step: script runs to completion, and    *)
(* xhr.abort() calls the onabort handlers before it returns.               *)
(***************************************************************************)
EXTENDS Integers, FiniteSets, FiniteSetsExt

CONSTANTS
    Count,         \* chunks of the file
    Parallelism,   \* chunkParallelism, at least 2
    Slots,         \* UPLOAD_CHUNK_BUFFER_SLOTS
    Faults         \* "drop", "cancel", "expire"

ASSUME TransferAssumption ==
    /\ Count \in Nat \ {0} /\ Slots \in Nat \ {0}
    /\ Parallelism \in Nat /\ Parallelism >= 2
    /\ Faults \subseteq {"drop", "cancel", "expire"}

Chunks == 0..(Count - 1)

VARIABLES
    wire,       \* the request for each chunk
    nextIndex,  \* first chunk that was never started
    completed,  \* chunks answered with success
    active,     \* requests the client counts as under way
    cancelled,  \* item.cancelRequested
    settled,    \* the promise: "no", "done" or "failed"
    complete,   \* POST .../complete: "none", "sent", "ok", "error"
    delete,     \* DELETE .../uploads/<id>: "none", "sent"
    server      \* the upload in the manager's slot: [alive, state, next, published]

vars == <<wire, nextIndex, completed, active, cancelled, settled, complete, delete, server>>

(* Where a chunk's request is: not started, on its way, being received,    *)
(* answered (stored, refused with 429, failed), waiting for the retry      *)
(* timer, answered with success at the client, or cut off by the client.   *)
InFlight == {"sent", "open", "stored", "refused", "failed"}

Init ==
    /\ wire = [i \in Chunks |-> IF i < Parallelism THEN "sent" ELSE "idle"]
    /\ nextIndex = Min({Count, Parallelism})
    /\ active = nextIndex
    /\ completed = 0 /\ cancelled = FALSE /\ settled = "no"
    /\ complete = "none" /\ delete = "none"
    /\ server = [alive |-> TRUE, state |-> [i \in Chunks |-> 0], next |-> 0,
                 published |-> FALSE]

Tracked == {i \in Chunks : wire[i] \in InFlight}
-----------------------------------------------------------------------------
(* The client.                                                             *)

(* xhr.abort(): the server finds the connection closed if it is receiving. *)
Aborted == [i \in Chunks |-> IF wire[i] = "open" THEN "cut"
                             ELSE IF wire[i] \in InFlight THEN "idle" ELSE wire[i]]

(* fail(), with `gone' requests that ended before it: the others are       *)
(* aborted, each counting itself off, and unless the user cancelled the    *)
(* rejection makes runQueue send a DELETE.                                 *)
Fail(gone) ==
    /\ settled' = "failed"
    /\ wire' = Aborted
    /\ active' = Max({0, active - Cardinality(Tracked \cup gone)})
    /\ delete' = IF cancelled THEN delete ELSE "sent"

(* schedule() after a success: fill up the parallel requests, and complete *)
(* the upload when all chunks are in.                                      *)
(* Mutant: the end of the file is not looked at.                           *)
FreshUnbounded == Parallelism - (active - 1)
Fresh == Min({Parallelism - (active - 1), Count - nextIndex})

(* Mutant: when all chunks were started.                                   *)
AllStarted(done, busy, first) == first = Count
AllIn(done, busy, first) == done = Count /\ busy = 0

OnStored(i) ==
    /\ wire[i] = "stored" /\ settled = "no"
    /\ wire' = [j \in Chunks |-> IF j = i THEN "done"
                   ELSE IF j \in nextIndex..(nextIndex + Fresh - 1) THEN "sent"
                   ELSE wire[j]]
    /\ active' = active - 1 + Fresh
    /\ nextIndex' = nextIndex + Fresh
    /\ completed' = completed + 1
    /\ complete' = IF AllIn(completed + 1, active', nextIndex') THEN "sent" ELSE complete
    /\ UNCHANGED <<cancelled, settled, delete, server>>

(* 429 upload_backpressure: the request stays counted and a timer is set.  *)
(* Mutant: no timer.                                                       *)
OnRefusedDropped(i) ==
    /\ wire[i] = "refused" /\ settled = "no" /\ ~cancelled
    /\ wire' = [wire EXCEPT ![i] = "idle"]
    /\ UNCHANGED <<nextIndex, completed, active, cancelled, settled, complete, delete, server>>
OnRefused(i) ==
    /\ wire[i] = "refused" /\ settled = "no" /\ ~cancelled
    /\ wire' = [wire EXCEPT ![i] = "timer"]
    /\ UNCHANGED <<nextIndex, completed, active, cancelled, settled, complete, delete, server>>

(* Any other answer.                                                       *)
OnFailed(i) ==
    /\ wire[i] = "failed" /\ settled = "no"
    /\ Fail({i})
    /\ UNCHANGED <<nextIndex, completed, cancelled, complete, server>>

(* onerror: the connection broke, whatever the server has done by then.    *)
(* Mutant: the chunk is tried again.                                       *)
OnNetworkErrorRetry(i) ==
    /\ "drop" \in Faults /\ settled = "no"
    /\ wire[i] \in {"sent", "open", "stored", "refused"}
    /\ wire' = [wire EXCEPT ![i] = "timer"]
    /\ UNCHANGED <<nextIndex, completed, active, cancelled, settled, complete, delete, server>>
OnNetworkError(i) ==
    /\ "drop" \in Faults /\ settled = "no"
    /\ wire[i] \in {"sent", "open", "stored", "refused"}
    /\ Fail({i})
    /\ UNCHANGED <<nextIndex, completed, cancelled, complete, server>>

(* The retry timer: start(chunkIndex, true) does not count again.          *)
(* Mutant: it does.                                                        *)
OnTimerCounted(i) ==
    /\ wire[i] = "timer" /\ settled = "no" /\ ~cancelled
    /\ wire' = [wire EXCEPT ![i] = "sent"]
    /\ active' = active + 1
    /\ UNCHANGED <<nextIndex, completed, cancelled, settled, complete, delete, server>>
OnTimer(i) ==
    /\ wire[i] = "timer" /\ settled = "no" /\ ~cancelled
    /\ wire' = [wire EXCEPT ![i] = "sent"]
    /\ UNCHANGED <<nextIndex, completed, active, cancelled, settled, complete, delete, server>>

OnTimerCancelled(i) ==
    /\ wire[i] = "timer" /\ settled = "no" /\ cancelled
    /\ Fail({i})
    /\ UNCHANGED <<nextIndex, completed, cancelled, complete, server>>

OnTimerSettled(i) ==
    /\ wire[i] = "timer" /\ settled # "no"
    /\ wire' = [wire EXCEPT ![i] = "idle"]
    /\ UNCHANGED <<nextIndex, completed, active, cancelled, settled, complete, delete, server>>

(* Mutant: the status of the answer is not looked at.                      *)
CompletedAnyhow == complete \in {"ok", "error"}
Completed == complete = "ok"

OnCompleted ==
    /\ Completed /\ settled = "no"
    /\ settled' = "done"
    /\ UNCHANGED <<wire, nextIndex, completed, active, cancelled, complete, delete, server>>

(* The answer is an error, or lost.                                        *)
OnCompleteFailed ==
    /\ settled = "no"
    /\ complete = "error" \/ (complete \in {"sent", "ok"} /\ "drop" \in Faults)
    /\ Fail({})
    /\ UNCHANGED <<nextIndex, completed, cancelled, complete, server>>

(* cancelUpload: every request is aborted; a chunk that waits for its      *)
(* timer is found by it, and a POST that is under way is not stopped.      *)
CancelUpload ==
    /\ "cancel" \in Faults /\ settled = "no" /\ ~cancelled
    /\ cancelled' = TRUE
    /\ delete' = "sent"
    /\ wire' = Aborted
    /\ active' = active - Cardinality(Tracked)
    /\ settled' = IF Tracked = {} THEN "no" ELSE "failed"
    /\ UNCHANGED <<nextIndex, completed, complete, server>>
-----------------------------------------------------------------------------
(* The server.                                                             *)

Buffers == {i \in Chunks : server.state[i] \in {1, 2}}
Answer(i, a) == wire' = [wire EXCEPT ![i] = a]
clientVars == <<nextIndex, completed, active, cancelled, settled, delete>>

(* upload_chunk_begin, in the order of its tests.                          *)
ChunkBegin(i) ==
    /\ wire[i] = "sent"
    /\ IF ~server.alive \/ server.state[i] # 0
       THEN Answer(i, "failed") /\ UNCHANGED server
       ELSE IF Cardinality(Buffers) >= Slots
       THEN Answer(i, "refused") /\ UNCHANGED server
       ELSE /\ Answer(i, "open")
            /\ server' = [server EXCEPT !.state[i] = 1]
    /\ UNCHANGED <<clientVars, complete>>

(* upload_chunk_finish, unless the upload is gone.                         *)
ChunkFinish(i) ==
    /\ wire[i] = "open"
    /\ IF server.alive
       THEN Answer(i, "stored") /\ server' = [server EXCEPT !.state[i] = 2]
       ELSE Answer(i, "failed") /\ UNCHANGED server
    /\ UNCHANGED <<clientVars, complete>>

(* upload_chunk_abort after the client closed the connection.              *)
ChunkAbort(i) ==
    /\ wire[i] = "cut"
    /\ Answer(i, "idle")
    /\ server' = IF server.alive THEN [server EXCEPT !.state[i] = 0] ELSE server
    /\ UNCHANGED <<clientVars, complete>>

(* The writer thread: chunks in file order.                                *)
Write ==
    /\ server.alive /\ server.next < Count /\ server.state[server.next] = 2
    /\ server' = [server EXCEPT !.state[server.next] = 3, !.next = @ + 1]
    /\ UNCHANGED <<wire, clientVars, complete>>

(* upload_finish_chunks: refused, or published once everything is written. *)
CompleteRefused ==
    /\ complete = "sent"
    /\ ~server.alive \/ \E i \in Chunks : server.state[i] < 2
    /\ complete' = "error"
    /\ UNCHANGED <<wire, clientVars, server>>

CompleteOk ==
    /\ complete = "sent" /\ server.alive /\ server.next = Count
    /\ server' = [server EXCEPT !.alive = FALSE, !.published = TRUE]
    /\ complete' = "ok"
    /\ UNCHANGED <<wire, clientVars>>

(* upload_cancel; the DELETE may get lost.                                 *)
Cancel ==
    /\ delete = "sent"
    /\ server' = [server EXCEPT !.alive = FALSE]
    /\ delete' = "none"
    /\ UNCHANGED <<wire, nextIndex, completed, active, cancelled, settled, complete>>

DeleteLost ==
    /\ delete = "sent" /\ "drop" \in Faults
    /\ delete' = "none"
    /\ UNCHANGED <<wire, nextIndex, completed, active, cancelled, settled, complete, server>>

(* The lease runs out: neither a refused request nor the writer renews it. *)
LeaseExpires ==
    /\ "expire" \in Faults /\ server.alive
    /\ \A i \in Chunks : wire[i] # "open"
    /\ server' = [server EXCEPT !.alive = FALSE]
    /\ UNCHANGED <<wire, clientVars, complete>>
-----------------------------------------------------------------------------
ClientStep(i) == \/ OnStored(i) \/ OnRefused(i) \/ OnFailed(i) \/ OnTimer(i)
                 \/ OnTimerCancelled(i) \/ OnTimerSettled(i)
ServerStep(i) == ChunkBegin(i) \/ ChunkFinish(i) \/ ChunkAbort(i)
EndStep       == OnCompleted \/ OnCompleteFailed \/ CompleteRefused \/ CompleteOk

(* Nothing is left to do.                                                  *)
AtRest == /\ settled # "no" /\ delete = "none" /\ complete # "sent"
          /\ Tracked = {} /\ UNCHANGED vars

Next == \/ \E i \in Chunks : ClientStep(i) \/ ServerStep(i) \/ OnNetworkError(i)
        \/ EndStep \/ Write
        \/ CancelUpload \/ Cancel \/ DeleteLost \/ LeaseExpires \/ AtRest

Spec == Init /\ [][Next]_vars

(* Requests and answers that are not lost arrive, timers fire, the writer  *)
(* writes, and a lease that nothing renews is found expired by the next    *)
(* call for any upload (reap_locked).                                      *)
Fairness == /\ \A i \in Chunks : WF_vars(ClientStep(i)) /\ WF_vars(ServerStep(i))
            /\ WF_vars(EndStep) /\ WF_vars(Write) /\ WF_vars(Cancel)
            /\ WF_vars(LeaseExpires)
FairSpec == Spec /\ Fairness
-----------------------------------------------------------------------------
(* Properties.                                                             *)

(* Types of the client's counters, of the requests and of the upload.      *)
TypeOK ==
    /\ wire \in [Chunks -> InFlight \cup {"idle", "timer", "done", "cut"}]
    /\ nextIndex \in 0..Count /\ completed \in 0..Count /\ active \in Nat
    /\ cancelled \in BOOLEAN /\ settled \in {"no", "done", "failed"}
    /\ complete \in {"none", "sent", "ok", "error"} /\ delete \in {"none", "sent"}
    /\ server \in [alive : BOOLEAN, state : [Chunks -> 0..3], next : 0..Count,
                   published : BOOLEAN]

(* The client's counters agree with its requests on every path, retries    *)
(* and refusals included, and never pass the advertised parallelism; a     *)
(* counter that is off would leave the upload without its completion       *)
(* (schedule in uploadChunks).                                             *)
ActiveExact ==
    settled = "no" =>
        /\ active = Cardinality({i \in Chunks : wire[i] \in InFlight \cup {"timer"}})
        /\ completed = Cardinality({i \in Chunks : wire[i] = "done"})
        /\ active <= Parallelism

(* A chunk is sent again only if the server does not have it: the answer   *)
(* 409, which ends the transfer, is never met by the client's own retry.   *)
ResendsOnlyMissing ==
    \A i \in Chunks : wire[i] \in {"sent", "timer"} /\ server.alive => server.state[i] = 0

(* The client asks for completion only when the manager has every chunk,   *)
(* or has lost the upload.                                                 *)
NoEarlyComplete ==
    complete = "sent" /\ server.alive => \A i \in Chunks : server.state[i] \in {2, 3}

(* A file shown as sent is published (runQueue after uploadChunks).        *)
DoneMeansPublished == settled = "done" => server.published

(* Every transfer ends at the client, also when answers are lost or the    *)
(* user cancels while chunks wait for their timers, and afterwards the     *)
(* manager's slot is free again.                                           *)
TransferSettles == <>(settled # "no" /\ ~server.alive)

(* A chunk that was refused because the staging window is full is accepted *)
(* when it is tried again ("Upload staging window is full; retry this      *)
(* chunk", src/router.c:243).                                              *)
RetriedChunkAccepted ==
    \A i \in Chunks : wire[i] = "timer" ~> server.state[i] # 0
=============================================================================
