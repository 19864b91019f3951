----------------------- MODULE FastUploadServerProofs -----------------------
(***************************************************************************)
(* Inv is an inductive invariant of FastUploadServer, for any number of    *)
(* connection slots and descriptors.                                       *)
(***************************************************************************)
EXTENDS FastUploadServer, FiniteSetTheorems, WellFoundedInduction, TLAPS

(* The registered entries of a table of descriptors.                       *)
Entries(table) == {s \in Slots : table[s] # 0}

AcceptorHolds(d) == acceptor.pc \in {"reserve", "spawn", "close"} /\ acceptor.fd = d
WorkerHolds(s, d) == worker[s].pc = "serving" /\ worker[s].fd = d

(* Who is registered where, with which descriptor.                         *)
SlotInv ==
    /\ \A s \in Slots : client_fds[s] # 0 <=>
          \/ worker[s].pc # "none"
          \/ acceptor.pc = "spawn" /\ acceptor.slot = s
    /\ acceptor.pc = "spawn" => worker[acceptor.slot].pc = "none"
    /\ \A s \in Slots : worker[s].pc # "none" => worker[s].fd \in Fds
    /\ acceptor.pc \in {"reserve", "spawn", "close"} => acceptor.fd \in Fds

CountInv == active_workers = Cardinality(Entries(client_fds))

(* Every open connection has a thread that will close it.                  *)
HeldInv ==
    \A d \in Fds : sock[d] \in {"connection", "shut"} =>
        AcceptorHolds(d) \/ \E s \in Slots : WorkerHolds(s, d)

(* The server listens on one descriptor, and on none once it is closed.    *)
ListenInv ==
    /\ \A d \in Fds : sock[d] = "listener" => d = listener
    /\ stop \in {"no", "marked"} => listener \in Fds /\ sock[listener] = "listener"
    /\ stop \notin {"no", "marked"} => \A d \in Fds : sock[d] # "listener"

(* How far stop has come says who is left.                                 *)
StopInv ==
    /\ stop \in {"waiting", "freed"} => acceptor.pc = "exited"
    /\ stop = "freed" => \A s \in Slots : client_fds[s] = 0

Inv == TypeOK /\ SlotInv /\ CountInv /\ OwnDescriptor /\ HeldInv /\ ListenInv /\ StopInv
-----------------------------------------------------------------------------
(* A set of numbers has a smallest element, which the scans return.        *)
LEMMA SmallestInSet ==
    ASSUME NEW set, set \subseteq Nat, set # {}
    PROVE  Smallest(set) \in set
<1>1. \E x \in set : \A y \in set : ~ (<<y, x>> \in OpToRel(<, Nat))
  BY WFMin, NatLessThanWellFounded
<1>2. \A x, y \in Nat : y < x => <<y, x>> \in OpToRel(<, Nat)
  BY DEF OpToRel
<1>3. \E x \in set : \A y \in set : ~ (y < x)
  BY <1>1, <1>2, Zenon
<1>4. \E x \in set : \A y \in set : x <= y
  BY <1>3
<1>. QED
  BY <1>4 DEF Smallest

(* accept returns a number that was not in use.                            *)
LEMMA NewDescriptor ==
    ASSUME FreeFds # {}
    PROVE  Smallest(FreeFds) \in Fds /\ sock[Smallest(FreeFds)] = "free"
<1>1. FreeFds \subseteq Nat
  BY ServerAssumption DEF FreeFds, Fds
<1>2. Smallest(FreeFds) \in FreeFds
  BY <1>1, SmallestInSet
<1>. QED
  BY <1>2 DEF FreeFds

(* reserve_slot finds an entry that was free.                              *)
LEMMA NewSlot ==
    ASSUME FreeSlots # {}
    PROVE  Smallest(FreeSlots) \in Slots /\ client_fds[Smallest(FreeSlots)] = 0
<1>1. FreeSlots \subseteq Nat
  BY ServerAssumption DEF FreeSlots, Slots
<1>2. Smallest(FreeSlots) \in FreeSlots
  BY <1>1, SmallestInSet
<1>. QED
  BY <1>2 DEF FreeSlots

(* The table is finite.                                                    *)
LEMMA EntriesFinite ==
    ASSUME NEW table
    PROVE  IsFiniteSet(Entries(table)) /\ Cardinality(Entries(table)) \in Nat
<1>1. IsFiniteSet(Slots)
  BY FS_Interval, ServerAssumption DEF Slots
<1>2. Entries(table) \subseteq Slots
  BY DEF Entries
<1>3. IsFiniteSet(Entries(table))
  BY <1>1, <1>2, FS_Subset
<1>. QED
  BY <1>3, FS_CardinalityType

(* reserve_slot adds one entry.                                            *)
LEMMA Reserving ==
    ASSUME TypeOK, NEW s \in Slots, client_fds[s] = 0, NEW d \in Fds
    PROVE  Cardinality(Entries([client_fds EXCEPT ![s] = d]))
              = Cardinality(Entries(client_fds)) + 1
<1>1. d # 0
  BY ServerAssumption DEF Fds
<1>2. Entries([client_fds EXCEPT ![s] = d]) = Entries(client_fds) \cup {s}
  BY <1>1 DEF Entries, TypeOK
<1>3. s \notin Entries(client_fds)
  BY DEF Entries
<1>4. Cardinality(Entries(client_fds) \cup {s}) = Cardinality(Entries(client_fds)) + 1
  BY <1>3, EntriesFinite, FS_AddElement
<1>. QED
  BY <1>2, <1>4

(* unregister_worker and release_reserved_slot take one away.              *)
LEMMA Unregistering ==
    ASSUME TypeOK, CountInv, NEW s \in Slots, client_fds[s] # 0, Unregister(s)
    PROVE  CountInv' /\ active_workers' \in Nat
<1>1. Entries(client_fds') = Entries(client_fds) \ {s}
  BY DEF Entries, TypeOK, Unregister
<1>2. s \in Entries(client_fds)
  BY DEF Entries
<1>3. Cardinality(Entries(client_fds')) = Cardinality(Entries(client_fds)) - 1
  BY <1>1, <1>2, EntriesFinite, FS_RemoveElement
<1>4. Cardinality(Entries(client_fds)) # 0
  BY <1>2, EntriesFinite, FS_EmptySet
<1>5. active_workers \in Nat /\ active_workers = Cardinality(Entries(client_fds))
  BY DEF TypeOK, CountInv
<1>6. active_workers' = active_workers - 1 /\ active_workers' \in Nat
  BY <1>4, <1>5 DEF Unregister
<1>. QED
  BY <1>3, <1>5, <1>6 DEF CountInv
-----------------------------------------------------------------------------
(* Inv holds at the start.                                                 *)
LEMMA InvInit == Init => Inv
<1>. SUFFICES ASSUME Init PROVE Inv
  OBVIOUS
<1>1. TypeOK
  <2>1. 0 \in Slots
    BY ServerAssumption DEF Slots
  <2>2. acceptor \in [pc : {"accept", "reserve", "spawn", "close", "exited"},
                     fd : Fds \cup {0}, slot : Slots]
    BY <2>1 DEF Init, Accepting
  <2>3. NoWorker \in [pc : {"none", "serving", "closed"}, fd : Fds \cup {0}]
    BY DEF NoWorker
  <2>4. 1 \in Fds
    BY ServerAssumption DEF Fds
  <2>. QED
    BY <2>2, <2>3, <2>4 DEF Init, TypeOK
<1>2. Entries(client_fds) = {}
  BY DEF Init, Entries
<1>3. CountInv
  BY <1>2, FS_EmptySet DEF CountInv, Init
<1>4. SlotInv /\ OwnDescriptor /\ HeldInv /\ ListenInv /\ StopInv
  <2>1. 1 \in Fds
    BY ServerAssumption DEF Fds
  <2>. QED
    BY <2>1 DEF Init, SlotInv, OwnDescriptor, HeldInv, ListenInv, StopInv, Accepting, NoWorker
<1>. QED
  BY <1>1, <1>3, <1>4 DEF Inv

(* The accept thread.                                                      *)
LEMMA AcceptorKeeps == Inv /\ AcceptorStep => Inv'
<1>. SUFFICES ASSUME Inv, AcceptorStep PROVE Inv'
  OBVIOUS
<1>. USE DEF Inv
<1>1. CASE Accept
  <2>. DEFINE d == Smallest(FreeFds)
  <2>1. d \in Fds /\ sock[d] = "free"
    BY <1>1, NewDescriptor DEF Accept
  <2>2. /\ acceptor' = [acceptor EXCEPT !.pc = "reserve", !.fd = d]
        /\ sock' = [sock EXCEPT ![d] = "connection"]
        /\ acceptor.pc = "accept"
        /\ UNCHANGED <<client_fds, active_workers, stopping, listener, worker, stop>>
    BY <1>1 DEF Accept
  <2>. HIDE DEF d
  <2>3. TypeOK'
    BY <2>1, <2>2 DEF TypeOK
  <2>4. acceptor'.pc = "reserve" /\ acceptor'.fd = d
    BY <2>2 DEF TypeOK
  <2>5. SlotInv' /\ CountInv'
    BY <2>1, <2>2, <2>4 DEF SlotInv, CountInv
  <2>6. OwnDescriptor'
    BY <2>1, <2>2, <2>4 DEF OwnDescriptor, TypeOK, SlotInv
  <2>7. HeldInv'
    BY <2>1, <2>2, <2>4 DEF HeldInv, AcceptorHolds, WorkerHolds, TypeOK
  <2>8. StopInv'
    BY <2>2, <2>4 DEF StopInv
  <2>9. ListenInv'
    BY <2>1, <2>2 DEF ListenInv, TypeOK
  <2>. QED
    BY <2>3, <2>5, <2>6, <2>7, <2>8, <2>9
<1>2. CASE AcceptFails
  <2>1. acceptor'.pc = "exited" /\ acceptor.pc = "accept"
    BY <1>2 DEF AcceptFails, TypeOK
  <2>2. TypeOK'
    BY <1>2 DEF AcceptFails, TypeOK
  <2>3. SlotInv' /\ CountInv' /\ StopInv'
    BY <1>2, <2>1 DEF AcceptFails, SlotInv, CountInv, StopInv
  <2>4. OwnDescriptor' /\ HeldInv' /\ ListenInv'
    BY <1>2, <2>1 DEF AcceptFails, OwnDescriptor, HeldInv, AcceptorHolds, WorkerHolds, ListenInv
  <2>. QED
    BY <2>2, <2>3, <2>4
<1>3. CASE reserve_slot
  <2>. DEFINE s == Smallest(FreeSlots)
  <2>1. s \in Slots /\ client_fds[s] = 0
    BY <1>3, NewSlot DEF reserve_slot, Reservable
  <2>2. /\ acceptor' = [acceptor EXCEPT !.pc = "spawn", !.slot = s]
        /\ client_fds' = [client_fds EXCEPT ![s] = acceptor.fd]
        /\ active_workers' = active_workers + 1
        /\ acceptor.pc = "reserve"
        /\ UNCHANGED <<stopping, listener, worker, sock, stop>>
    BY <1>3 DEF reserve_slot
  <2>. HIDE DEF s
  <2>3. acceptor'.pc = "spawn" /\ acceptor'.fd = acceptor.fd /\ acceptor'.slot = s
    BY <2>2 DEF TypeOK
  <2>4. acceptor.fd \in Fds /\ acceptor.fd # 0
    BY <2>2, ServerAssumption DEF SlotInv, Fds
  <2>5. TypeOK'
    <3>1. acceptor' \in [pc : {"accept", "reserve", "spawn", "close", "exited"},
                         fd : Fds \cup {0}, slot : Slots]
      BY <2>1, <2>2 DEF TypeOK
    <3>2. active_workers' \in Nat
      BY <2>2 DEF TypeOK
    <3>3. client_fds' \in [Slots -> Fds \cup {0}]
      BY <2>1, <2>2, <2>4 DEF TypeOK
    <3>. QED
      BY <2>2, <3>1, <3>2, <3>3 DEF TypeOK
  <2>6. SlotInv'
    BY <2>1, <2>2, <2>3, <2>4 DEF SlotInv, TypeOK
  <2>7. CountInv'
    BY <2>1, <2>2, <2>4, Reserving DEF CountInv
  <2>8. OwnDescriptor' /\ HeldInv' /\ ListenInv' /\ StopInv'
    BY <2>2, <2>3 DEF OwnDescriptor, HeldInv, AcceptorHolds, WorkerHolds, ListenInv, StopInv
  <2>. QED
    BY <2>5, <2>6, <2>7, <2>8
<1>4. CASE reserve_slot_refused
  <2>1. acceptor'.pc = "close" /\ acceptor'.fd = acceptor.fd /\ acceptor.pc = "reserve"
    BY <1>4 DEF reserve_slot_refused, TypeOK
  <2>2. TypeOK'
    BY <1>4 DEF reserve_slot_refused, TypeOK
  <2>3. SlotInv' /\ CountInv' /\ StopInv'
    BY <1>4, <2>1 DEF reserve_slot_refused, SlotInv, CountInv, StopInv
  <2>4. OwnDescriptor' /\ HeldInv' /\ ListenInv'
    BY <1>4, <2>1 DEF reserve_slot_refused, OwnDescriptor, HeldInv, AcceptorHolds, WorkerHolds,
                      ListenInv
  <2>. QED
    BY <2>2, <2>3, <2>4
<1>5. CASE Spawn
  <2>. DEFINE s == acceptor.slot
  <2>1. /\ acceptor.pc = "spawn" /\ s \in Slots /\ acceptor.fd \in Fds
        /\ worker[s].pc = "none" /\ acceptor'.pc = "accept"
    BY <1>5 DEF Spawn, Accepting, TypeOK, SlotInv
  <2>2. /\ worker'[s].pc = "serving" /\ worker'[s].fd = acceptor.fd
        /\ \A r \in Slots : r # s => worker'[r] = worker[r]
    BY <1>5, <2>1 DEF Spawn, TypeOK
  <2>3. TypeOK'
    BY <1>5, <2>1, ServerAssumption DEF Spawn, TypeOK, Accepting, Slots
  <2>4. UNCHANGED <<client_fds, active_workers, stopping, listener, sock, stop>>
    BY <1>5 DEF Spawn
  <2>. HIDE DEF s
  <2>5. SlotInv'
    BY <2>1, <2>2, <2>4 DEF SlotInv, s
  <2>6. CountInv' /\ ListenInv' /\ StopInv'
    BY <2>1, <2>4 DEF CountInv, ListenInv, StopInv
  <2>7. OwnDescriptor'
    BY <2>1, <2>2, <2>4 DEF OwnDescriptor
  <2>8. HeldInv'
    BY <2>1, <2>2, <2>4 DEF HeldInv, AcceptorHolds, WorkerHolds
  <2>. QED
    BY <2>3, <2>5, <2>6, <2>7, <2>8
<1>6. CASE SpawnFails
  <2>. DEFINE s == acceptor.slot
  <2>1. /\ acceptor.pc = "spawn" /\ s \in Slots /\ client_fds[s] # 0
        /\ worker[s].pc = "none"
        /\ acceptor'.pc = "close" /\ acceptor'.fd = acceptor.fd
    BY <1>6 DEF SpawnFails, TypeOK, SlotInv
  <2>2. Unregister(s) /\ UNCHANGED <<stopping, listener, worker, sock, stop>>
    BY <1>6 DEF SpawnFails
  <2>3. CountInv' /\ active_workers' \in Nat
    BY <2>1, <2>2, Unregistering
  <2>4. /\ client_fds' \in [Slots -> Fds \cup {0}]
        /\ \A r \in Slots : client_fds'[r] = IF r = s THEN 0 ELSE client_fds[r]
    BY <2>1, <2>2 DEF Unregister, TypeOK
  <2>5. TypeOK'
    <3>1. 0 \in Slots
      BY ServerAssumption DEF Slots
    <3>2. acceptor' \in [pc : {"accept", "reserve", "spawn", "close", "exited"},
                         fd : Fds \cup {0}, slot : Slots]
      BY <1>6, <3>1 DEF SpawnFails, TypeOK
    <3>. QED
      BY <2>2, <2>3, <2>4, <3>2 DEF TypeOK
  <2>6. SlotInv' /\ StopInv'
    BY <2>1, <2>2, <2>4 DEF SlotInv, StopInv
  <2>7. OwnDescriptor' /\ HeldInv' /\ ListenInv'
    BY <2>1, <2>2 DEF OwnDescriptor, HeldInv, AcceptorHolds, WorkerHolds, ListenInv
  <2>. QED
    BY <2>3, <2>5, <2>6, <2>7
<1>7. CASE AcceptorCloses
  <2>1. /\ acceptor.pc = "close" /\ acceptor'.pc = "accept" /\ acceptor.fd \in Fds
        /\ sock' = [sock EXCEPT ![acceptor.fd] = "free"]
        /\ UNCHANGED <<client_fds, active_workers, stopping, listener, worker, stop>>
    BY <1>7 DEF AcceptorCloses, Accepting, SlotInv
  <2>2. TypeOK'
    BY <1>7, <2>1, ServerAssumption DEF AcceptorCloses, TypeOK, Accepting, Slots
  <2>3. SlotInv' /\ CountInv' /\ StopInv'
    BY <2>1 DEF SlotInv, CountInv, StopInv
  <2>4. OwnDescriptor'
    BY <2>1 DEF OwnDescriptor, TypeOK, SlotInv
  <2>5. HeldInv'
    BY <2>1 DEF HeldInv, AcceptorHolds, WorkerHolds, TypeOK
  <2>6. ListenInv'
    BY <2>1 DEF ListenInv, OwnDescriptor, TypeOK
  <2>. QED
    BY <2>2, <2>3, <2>4, <2>5, <2>6
<1>. QED
  BY <1>1, <1>2, <1>3, <1>4, <1>5, <1>6, <1>7 DEF AcceptorStep

(* A worker closes its connection.                                         *)
LEMMA CloseKeeps ==
    ASSUME Inv, NEW s \in Slots, worker[s].pc = "serving", Close(s)
    PROVE  Inv'
<1>. USE DEF Inv
<1>1. worker[s].fd \in Fds
  BY DEF SlotInv
<1>2. /\ sock' = [sock EXCEPT ![worker[s].fd] = "free"]
      /\ UNCHANGED <<client_fds, active_workers, stopping, listener, acceptor, stop>>
  BY DEF Close
<1>3. /\ worker'[s].pc = "closed" /\ worker'[s].fd = worker[s].fd
      /\ \A r \in Slots : r # s => worker'[r] = worker[r]
  BY DEF Close, TypeOK
<1>4. TypeOK'
  BY <1>1 DEF Close, TypeOK
<1>5. SlotInv'
  <2>1. \A r \in Slots : /\ worker'[r].pc # "none" <=> worker[r].pc # "none"
                         /\ worker'[r].fd = worker[r].fd
    BY <1>3
  <2>. QED
    BY <1>2, <2>1 DEF SlotInv, TypeOK
<1>8. CountInv' /\ StopInv'
  BY <1>2 DEF CountInv, StopInv
<1>6. OwnDescriptor'
  BY <1>1, <1>2, <1>3 DEF OwnDescriptor, TypeOK, SlotInv
<1>7. HeldInv'
  BY <1>1, <1>2, <1>3 DEF HeldInv, AcceptorHolds, WorkerHolds, TypeOK
<1>9. ListenInv'
  BY <1>1, <1>2 DEF ListenInv, OwnDescriptor, TypeOK
<1>. QED
  BY <1>4, <1>5, <1>6, <1>7, <1>8, <1>9

(* A worker unregisters after that.                                        *)
LEMMA UnregisterKeeps ==
    ASSUME Inv, NEW s \in Slots, unregister_worker(s)
    PROVE  Inv'
<1>. USE DEF Inv
<1>1. worker[s].pc = "closed" /\ client_fds[s] # 0 /\ Unregister(s)
      /\ UNCHANGED <<stopping, listener, acceptor, sock, stop>>
  BY DEF unregister_worker, SlotInv
<1>2. CountInv' /\ active_workers' \in Nat
  BY <1>1, Unregistering
<1>3. /\ client_fds' \in [Slots -> Fds \cup {0}]
      /\ \A r \in Slots : client_fds'[r] = IF r = s THEN 0 ELSE client_fds[r]
  BY <1>1 DEF Unregister, TypeOK
<1>4. /\ worker'[s].pc = "none"
      /\ \A r \in Slots : r # s => worker'[r] = worker[r]
  BY DEF unregister_worker, NoWorker, TypeOK
<1>5. TypeOK'
  BY <1>1, <1>2, <1>3 DEF unregister_worker, NoWorker, TypeOK
<1>6. SlotInv' /\ StopInv'
  <2>1. acceptor.pc = "spawn" => acceptor.slot # s
    BY <1>1 DEF SlotInv
  <2>2. SlotInv'
    BY <1>1, <1>3, <1>4, <2>1 DEF SlotInv, TypeOK
  <2>3. StopInv'
    BY <1>1, <1>3 DEF StopInv
  <2>. QED
    BY <2>2, <2>3
<1>7. OwnDescriptor' /\ HeldInv' /\ ListenInv'
  BY <1>1, <1>4 DEF OwnDescriptor, HeldInv, AcceptorHolds, WorkerHolds, ListenInv
<1>. QED
  BY <1>2, <1>5, <1>6, <1>7

(* The rest of the process.                                                *)
LEMMA OtherKeeps == Inv /\ (OtherOpens \/ OtherCloses) => Inv'
<1>. SUFFICES ASSUME Inv, OtherOpens \/ OtherCloses PROVE Inv'
  OBVIOUS
<1>. USE DEF Inv
<1>1. PICK d \in Fds : /\ sock[d] \in {"free", "other"}
                       /\ \/ sock' = [sock EXCEPT ![d] = "other"]
                          \/ sock' = [sock EXCEPT ![d] = "free"]
  BY NewDescriptor DEF OtherOpens, OtherCloses
<1>2. UNCHANGED <<client_fds, active_workers, stopping, listener, acceptor, worker, stop>>
  BY DEF OtherOpens, OtherCloses
<1>3. TypeOK' /\ SlotInv' /\ CountInv' /\ StopInv'
  BY <1>1, <1>2 DEF TypeOK, SlotInv, CountInv, StopInv
<1>4. OwnDescriptor'
  BY <1>1, <1>2 DEF OwnDescriptor, TypeOK, SlotInv
<1>5. HeldInv'
  BY <1>1, <1>2 DEF HeldInv, AcceptorHolds, WorkerHolds, TypeOK
<1>6. ListenInv'
  BY <1>1, <1>2 DEF ListenInv, TypeOK
<1>. QED
  BY <1>3, <1>4, <1>5, <1>6

(* fast_upload_server_stop.                                                *)
LEMMA StopKeeps == Inv /\ StopStep => Inv'
<1>. SUFFICES ASSUME Inv, StopStep PROVE Inv'
  OBVIOUS
<1>. USE DEF Inv
<1>1. CASE StopMarks
  <2>1. /\ \A d \in Fds : sock'[d] = sock[d] \/ (sock[d] = "connection" /\ sock'[d] = "shut")
        /\ stop = "no" /\ stop' = "marked"
        /\ UNCHANGED <<client_fds, active_workers, listener, acceptor, worker>>
    BY <1>1 DEF StopMarks
  <2>2. TypeOK'
    BY <1>1 DEF StopMarks, TypeOK
  <2>3. SlotInv' /\ CountInv' /\ StopInv'
    BY <2>1 DEF SlotInv, CountInv, StopInv
  <2>4. OwnDescriptor'
    BY <2>1 DEF OwnDescriptor, SlotInv
  <2>5. HeldInv'
    BY <2>1 DEF HeldInv, AcceptorHolds, WorkerHolds
  <2>6. ListenInv'
    BY <2>1 DEF ListenInv
  <2>. QED
    BY <2>2, <2>3, <2>4, <2>5, <2>6
<1>2. CASE StopClosesListener
  <2>1. /\ listener \in Fds /\ sock[listener] = "listener"
        /\ sock' = [sock EXCEPT ![listener] = "free"]
        /\ stop = "marked" /\ stop' = "closed"
        /\ UNCHANGED <<client_fds, active_workers, stopping, listener, acceptor, worker>>
    BY <1>2 DEF StopClosesListener, ListenInv
  <2>2. TypeOK' /\ ListenInv'
    BY <2>1 DEF TypeOK, ListenInv
  <2>3. SlotInv' /\ CountInv' /\ StopInv'
    BY <2>1 DEF SlotInv, CountInv, StopInv
  <2>4. OwnDescriptor' /\ HeldInv'
    BY <2>1 DEF TypeOK, SlotInv, OwnDescriptor, HeldInv, AcceptorHolds, WorkerHolds
  <2>. QED
    BY <2>2, <2>3, <2>4
<1>3. CASE StopForgetsListener
  BY <1>3 DEF StopForgetsListener, TypeOK, SlotInv, CountInv, OwnDescriptor, HeldInv,
              AcceptorHolds, WorkerHolds, ListenInv, StopInv
<1>4. CASE StopJoins
  BY <1>4 DEF StopJoins, AcceptorJoined, TypeOK, SlotInv, CountInv, OwnDescriptor, HeldInv,
              AcceptorHolds, WorkerHolds, ListenInv, StopInv
<1>5. CASE StopFrees
  <2>1. Entries(client_fds) = {}
    BY <1>5, EntriesFinite, FS_EmptySet DEF StopFrees, CountInv
  <2>2. \A s \in Slots : client_fds[s] = 0
    BY <2>1 DEF Entries
  <2>3. TypeOK' /\ SlotInv' /\ CountInv' /\ ListenInv'
    BY <1>5 DEF StopFrees, TypeOK, SlotInv, CountInv, ListenInv
  <2>4. StopInv'
    BY <1>5, <2>2 DEF StopFrees, StopInv
  <2>5. OwnDescriptor' /\ HeldInv'
    BY <1>5 DEF StopFrees, OwnDescriptor, HeldInv, AcceptorHolds, WorkerHolds
  <2>. QED
    BY <2>3, <2>4, <2>5
<1>. QED
  BY <1>1, <1>2, <1>3, <1>4, <1>5 DEF StopStep

(* Every step of every thread keeps Inv.                                   *)
THEOREM InvNext == Inv /\ [Next]_vars => Inv'
<1>. SUFFICES ASSUME Inv, [Next]_vars PROVE Inv'
  OBVIOUS
<1>1. ASSUME NEW s \in Slots, RequestEnds(s) \/ ShutDownSeen(s) PROVE Inv'
  BY <1>1, CloseKeeps DEF RequestEnds, ShutDownSeen
<1>2. CASE UNCHANGED vars
  BY <1>2 DEF vars, Inv, TypeOK, SlotInv, CountInv, OwnDescriptor, HeldInv, AcceptorHolds,
              WorkerHolds, ListenInv, StopInv
<1>. QED
  BY <1>1, <1>2, AcceptorKeeps, UnregisterKeeps, OtherKeeps, StopKeeps DEF Next

(* Inv holds in every behaviour of the fast upload server.                 *)
THEOREM Safety == Spec => []Inv
BY InvInit, InvNext, PTL DEF Spec

(* The server's memory has its types, whatever clients and descriptors do. *)
THEOREM ServerTypes == Spec => []TypeOK
<1>1. Inv => TypeOK
  BY DEF Inv
<1>. QED
  BY <1>1, Safety, PTL

(* The count fast_upload_server_stop waits on is the number of registered  *)
(* connections, each held by one thread (reserve_slot, unregister_worker). *)
THEOREM CountExact == Spec => []WorkersCounted
<1>1. Inv => WorkersCounted
  BY DEF Inv, SlotInv, CountInv, Entries, WorkersCounted
<1>. QED
  BY <1>1, Safety, PTL

(* No two threads hold one open descriptor, although numbers are reused    *)
(* (accept_main, connection_main).                                         *)
THEOREM DescriptorsOwned == Spec => []OwnDescriptor
<1>1. Inv => OwnDescriptor
  BY DEF Inv
<1>. QED
  BY <1>1, Safety, PTL

(* fast_upload_server_stop frees the server only when no thread will use   *)
(* it again and every connection is closed.                                *)
THEOREM FreedSafely == Spec => []FreedWhenUnused
<1>1. ASSUME Inv, stop = "freed"
      PROVE  /\ acceptor.pc = "exited"
             /\ \A s \in Slots : worker[s].pc = "none"
             /\ \A d \in Fds : sock[d] \in {"free", "other"}
  <2>1. acceptor.pc = "exited"
    BY <1>1 DEF Inv, StopInv
  <2>2. \A s \in Slots : worker[s].pc = "none"
    BY <1>1 DEF Inv, StopInv, SlotInv
  <2>3. \A d \in Fds : sock[d] \in {"free", "other"}
    <3>1. \A d \in Fds : sock[d] \notin {"connection", "shut"}
      BY <1>1, <2>1, <2>2 DEF Inv, HeldInv, AcceptorHolds, WorkerHolds
    <3>. QED
      BY <1>1, <3>1 DEF Inv, ListenInv, TypeOK
  <2>. QED
    BY <2>1, <2>2, <2>3
<1>2. Inv => FreedWhenUnused
  BY <1>1 DEF FreedWhenUnused
<1>. QED
  BY <1>2, Safety, PTL
=============================================================================
