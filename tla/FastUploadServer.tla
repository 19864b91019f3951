-------------------------- MODULE FastUploadServer --------------------------
(***************************************************************************)
(* Threads and descriptors of src/fast_upload_server.c: an accept thread,  *)
(* one detached worker for each connection, a table of registered          *)
(* descriptors, and fast_upload_server_stop, which frees all of it.        *)
(*                                                                         *)
(* What a worker does with its connection is UploadManager's concern; here *)
(* it serves until the client is done or its socket is shut down.          *)
(* Descriptor numbers are those of the process: a closed one is reused.    *)
(***************************************************************************)
EXTENDS Integers, FiniteSets

CONSTANTS
    Limit,   \* FAST_UPLOAD_CONNECTION_LIMIT
    MaxFd    \* bound: descriptors of the process

ASSUME ServerAssumption == Limit \in Nat \ {0} /\ MaxFd \in Nat \ {0}

Slots == 0..(Limit - 1)
Fds   == 1..MaxFd          \* 0 stands for -1

VARIABLES
    client_fds,      \* server->client_fds
    active_workers,  \* server->active_workers
    stopping,        \* server->stopping
    listener,        \* server->listener
    acceptor,        \* the accept thread: its position, descriptor and slot
    worker,          \* per slot: the worker registered there and its descriptor
    sock,            \* per descriptor number: what it names in this process
    stop             \* how far fast_upload_server_stop has come

vars == <<client_fds, active_workers, stopping, listener, acceptor, worker, sock, stop>>

NoWorker == [pc |-> "none", fd |-> 0]
Accepting == [pc |-> "accept", fd |-> 0, slot |-> 0]

Init ==
    /\ client_fds = [s \in Slots |-> 0]
    /\ active_workers = 0
    /\ stopping = FALSE
    /\ listener = 1
    /\ acceptor = Accepting
    /\ worker = [s \in Slots |-> NoWorker]
    /\ sock = [d \in Fds |-> IF d = 1 THEN "listener" ELSE "free"]
    /\ stop = "no"
-----------------------------------------------------------------------------
Smallest(set) == CHOOSE x \in set : \A y \in set : x <= y
FreeFds == {d \in Fds : sock[d] = "free"}
(* Mutant of FreeSlots: the scan of the table runs one entry too far.      *)
FreeSlotsTooFar == {s \in Slots : client_fds[s] = 0} \cup {Limit}
FreeSlots == {s \in Slots : client_fds[s] = 0}

(* unregister_worker and release_reserved_slot.                            *)
(* Mutant: the entry is freed and the worker stays counted.                *)
UnregisterUncounted(s) ==
    /\ client_fds' = [client_fds EXCEPT ![s] = 0]
    /\ UNCHANGED active_workers
Unregister(s) ==
    /\ client_fds' = [client_fds EXCEPT ![s] = 0]
    /\ active_workers' = IF active_workers > 0 THEN active_workers - 1 ELSE 0

Listening == listener # 0 /\ sock[listener] = "listener"

(* accept_main: a connection arrives.                                      *)
Accept ==
    /\ acceptor.pc = "accept" /\ Listening /\ FreeFds # {}
    /\ acceptor' = [acceptor EXCEPT !.pc = "reserve", !.fd = Smallest(FreeFds)]
    /\ sock' = [sock EXCEPT ![Smallest(FreeFds)] = "connection"]
    /\ UNCHANGED <<client_fds, active_workers, stopping, listener, worker, stop>>

(* accept fails, as it does on a listener that was shut down or closed; if *)
(* the server is not stopping, the loop goes on.  A number that was closed *)
(* may name something else before server->listener is -1: accept fails on  *)
(* that too, for no other part of the process starts to listen meanwhile.  *)
AcceptFails ==
    /\ acceptor.pc = "accept" /\ stopping
    /\ acceptor' = [acceptor EXCEPT !.pc = "exited"]
    /\ UNCHANGED <<client_fds, active_workers, stopping, listener, worker, sock, stop>>

(* reserve_slot refuses when the server stops or the table is full.        *)
(* Mutant: a stopping server still registers connections.                  *)
ReservableLate == FreeSlots # {}
Reservable == ~stopping /\ FreeSlots # {}

reserve_slot ==
    /\ acceptor.pc = "reserve" /\ Reservable
    /\ LET s == Smallest(FreeSlots)
       IN  /\ client_fds' = [client_fds EXCEPT ![s] = acceptor.fd]
           /\ acceptor' = [acceptor EXCEPT !.pc = "spawn", !.slot = s]
    /\ active_workers' = active_workers + 1
    /\ UNCHANGED <<stopping, listener, worker, sock, stop>>

reserve_slot_refused ==
    /\ acceptor.pc = "reserve" /\ ~Reservable
    /\ acceptor' = [acceptor EXCEPT !.pc = "close"]
    /\ UNCHANGED <<client_fds, active_workers, stopping, listener, worker, sock, stop>>

(* The worker is created with the descriptor and the slot, or memory or    *)
(* threads run out and the slot is released before the close.              *)
Spawn ==
    /\ acceptor.pc = "spawn"
    /\ worker' = [worker EXCEPT ![acceptor.slot] = [pc |-> "serving", fd |-> acceptor.fd]]
    /\ acceptor' = Accepting
    /\ UNCHANGED <<client_fds, active_workers, stopping, listener, sock, stop>>

SpawnFails ==
    /\ acceptor.pc = "spawn"
    /\ Unregister(acceptor.slot)
    /\ acceptor' = [acceptor EXCEPT !.pc = "close", !.slot = 0]
    /\ UNCHANGED <<stopping, listener, worker, sock, stop>>

AcceptorCloses ==
    /\ acceptor.pc = "close"
    /\ sock' = [sock EXCEPT ![acceptor.fd] = "free"]
    /\ acceptor' = Accepting
    /\ UNCHANGED <<client_fds, active_workers, stopping, listener, worker, stop>>
-----------------------------------------------------------------------------
(* connection_main.  The request ends, in success or failure, and the      *)
(* descriptor is closed; the worker is unregistered after that.            *)
Close(s) ==
    /\ sock' = [sock EXCEPT ![worker[s].fd] = "free"]
    /\ worker' = [worker EXCEPT ![s].pc = "closed"]
    /\ UNCHANGED <<client_fds, active_workers, stopping, listener, acceptor, stop>>

(* The client has sent everything, has gone, or has been silent too long.  *)
RequestEnds(s) == worker[s].pc = "serving" /\ Close(s)
(* recv and send fail on a socket that was shut down.                      *)
ShutDownSeen(s) == worker[s].pc = "serving" /\ sock[worker[s].fd] = "shut" /\ Close(s)

(* Mutant: the descriptor is closed again.                                 *)
unregister_worker_closes(s) ==
    /\ worker[s].pc = "closed"
    /\ Unregister(s)
    /\ worker' = [worker EXCEPT ![s] = NoWorker]
    /\ sock' = [sock EXCEPT ![worker[s].fd] = "free"]
    /\ UNCHANGED <<stopping, listener, acceptor, stop>>

unregister_worker(s) ==
    /\ worker[s].pc = "closed"
    /\ Unregister(s)
    /\ worker' = [worker EXCEPT ![s] = NoWorker]
    /\ UNCHANGED <<stopping, listener, acceptor, sock, stop>>

(* Other parts of the process open and close descriptors.                  *)
OtherOpens ==
    /\ FreeFds # {}
    /\ sock' = [sock EXCEPT ![Smallest(FreeFds)] = "other"]
    /\ UNCHANGED <<client_fds, active_workers, stopping, listener, acceptor, worker, stop>>
OtherCloses ==
    /\ \E d \in Fds : sock[d] = "other" /\ sock' = [sock EXCEPT ![d] = "free"]
    /\ UNCHANGED <<client_fds, active_workers, stopping, listener, acceptor, worker, stop>>
-----------------------------------------------------------------------------
(* fast_upload_server_stop.  shutdown acts on whatever the registered      *)
(* number names now; on another part's file it fails or cuts that socket.  *)
Registered == {client_fds[s] : s \in Slots} \ {0}

StopMarks ==
    /\ stop = "no"
    /\ stopping' = TRUE
    /\ sock' = [d \in Fds |-> IF d \in Registered /\ sock[d] = "connection"
                              THEN "shut" ELSE sock[d]]
    /\ stop' = "marked"
    /\ UNCHANGED <<client_fds, active_workers, listener, acceptor, worker>>

StopClosesListener ==
    /\ stop = "marked"
    /\ sock' = [sock EXCEPT ![listener] = "free"]
    /\ stop' = "closed"
    /\ UNCHANGED <<client_fds, active_workers, stopping, listener, acceptor, worker>>

StopForgetsListener ==
    /\ stop = "closed"
    /\ listener' = 0
    /\ stop' = "joining"
    /\ UNCHANGED <<client_fds, active_workers, stopping, acceptor, worker, sock>>

(* Mutant: the accept thread is not joined.                                *)
AcceptorLeft == TRUE
AcceptorJoined == acceptor.pc = "exited"
StopJoins ==
    /\ stop = "joining" /\ AcceptorJoined
    /\ stop' = "waiting"
    /\ UNCHANGED <<client_fds, active_workers, stopping, listener, acceptor, worker, sock>>

StopFrees ==
    /\ stop = "waiting" /\ active_workers = 0
    /\ stop' = "freed"
    /\ UNCHANGED <<client_fds, active_workers, stopping, listener, acceptor, worker, sock>>

AcceptorStep == \/ Accept \/ AcceptFails \/ reserve_slot \/ reserve_slot_refused
                \/ Spawn \/ SpawnFails \/ AcceptorCloses
StopStep == \/ StopMarks \/ StopClosesListener \/ StopForgetsListener
            \/ StopJoins \/ StopFrees

Next == \/ AcceptorStep
        \/ \E s \in Slots : RequestEnds(s) \/ ShutDownSeen(s) \/ unregister_worker(s)
        \/ OtherOpens \/ OtherCloses
        \/ StopStep

Spec == Init /\ [][Next]_vars

(* The threads of the server run; clients owe nothing.  A blocked accept   *)
(* returns once the listener is shut down and closed.                      *)
Fairness ==
    /\ WF_vars(reserve_slot \/ reserve_slot_refused \/ Spawn \/ SpawnFails \/ AcceptorCloses)
    /\ WF_vars(AcceptFails /\ ~Listening)
    /\ \A s \in Slots : WF_vars(ShutDownSeen(s)) /\ WF_vars(unregister_worker(s))
    /\ WF_vars(StopClosesListener) /\ WF_vars(StopForgetsListener)
    /\ WF_vars(StopJoins) /\ WF_vars(StopFrees)
FairSpec == Spec /\ Fairness
-----------------------------------------------------------------------------
(* Properties.                                                             *)

(* Every variable of the server and of its threads has its type.           *)
TypeOK ==
    /\ client_fds \in [Slots -> Fds \cup {0}]
    /\ active_workers \in Nat
    /\ stopping \in BOOLEAN /\ listener \in Fds \cup {0}
    /\ acceptor \in [pc : {"accept", "reserve", "spawn", "close", "exited"},
                     fd : Fds \cup {0}, slot : Slots]
    /\ worker \in [Slots -> [pc : {"none", "serving", "closed"}, fd : Fds \cup {0}]]
    /\ sock \in [Fds -> {"free", "listener", "connection", "shut", "other"}]
    /\ stop \in {"no", "marked", "closed", "joining", "waiting", "freed"}

(* active_workers, on which fast_upload_server_stop waits, is the number   *)
(* of registered connections, and every registered entry is held by one    *)
(* worker or by the accept thread that is about to create it.              *)
WorkersCounted ==
    /\ active_workers = Cardinality({s \in Slots : client_fds[s] # 0})
    /\ \A s \in Slots : client_fds[s] # 0 <=>
          \/ worker[s].pc # "none"
          \/ acceptor.pc = "spawn" /\ acceptor.slot = s

(* Two threads of the server never hold one open descriptor: what a worker *)
(* closes is its own connection, although numbers are reused.              *)
OwnDescriptor ==
    /\ \A s \in Slots : worker[s].pc = "serving" => sock[worker[s].fd] \in {"connection", "shut"}
    /\ \A r, s \in Slots :
          worker[r].pc = "serving" /\ worker[s].pc = "serving" /\ worker[r].fd = worker[s].fd
          => r = s
    /\ acceptor.pc \in {"reserve", "spawn", "close"} =>
          /\ sock[acceptor.fd] \in {"connection", "shut"}
          /\ \A s \in Slots : worker[s].pc = "serving" => worker[s].fd # acceptor.fd

(* The server is freed only when no thread will use it again, and its      *)
(* listener and every connection it accepted are closed.                   *)
FreedWhenUnused ==
    stop = "freed" =>
        /\ acceptor.pc = "exited"
        /\ \A s \in Slots : worker[s].pc = "none"
        /\ \A d \in Fds : sock[d] \in {"free", "other"}

(* fast_upload_server_stop returns, whatever the clients do: every worker  *)
(* that could hold it up has had its socket shut down.                     *)
StopReturns == stop # "no" ~> stop = "freed"
=============================================================================
