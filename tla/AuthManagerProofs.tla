------------------------- MODULE AuthManagerProofs -------------------------
(***************************************************************************)
(* Inv is an inductive invariant of AuthManager, for any number of         *)
(* threads, clients and table entries and any lifetimes.                   *)
(***************************************************************************)
EXTENDS AuthManager, WellFoundedInduction, TLAPS

(* Freeing entries of the challenge table, as cleanup_expired and the scan *)
(* of auth_create_challenge_at do, keeps what Inv says of the table.       *)
Table(table) ==
    /\ table \in [Slots -> Challenge]
    /\ \A s \in Slots : table[s] = challenges[s] \/ table[s] = FreeChallenge

(* A free entry of the challenge table is typed and not occupied.          *)
LEMMA FreeChallengeType == FreeChallenge \in Challenge /\ ~FreeChallenge.occupied
BY DEF FreeChallenge, Challenge, Client

(* cleanup_expired only frees entries.                                     *)
LEMMA LiveChallengesFrees ==
    ASSUME TypeOK, NEW time \in Nat
    PROVE  Table(LiveChallenges(time))
BY FreeChallengeType DEF TypeOK, Table, LiveChallenges

(* So does replacing the client's own challenge.                           *)
LEMMA ReplacedFrees ==
    ASSUME TypeOK, NEW table, Table(table), NEW client, NEW time \in Nat
    PROVE  Table(Replaced(table, client, time))
BY FreeChallengeType DEF TypeOK, Table, Replaced

(* cleanup_expired on the sessions keeps those that have not expired.      *)
LEMMA LiveSessionsFrees ==
    ASSUME TypeOK, NEW time \in Nat
    PROVE  /\ LiveSessions(time) \in [SessionSlots -> Session]
           /\ \A s \in SessionSlots :
                 LiveSessions(time)[s].occupied =>
                    /\ LiveSessions(time)[s] = sessions[s]
                    /\ time < sessions[s].expires
<1>1. FreeSession \in Session /\ ~FreeSession.occupied
  BY DEF FreeSession, Session, Client
<1>. QED
  BY <1>1 DEF TypeOK, LiveSessions, Session

(* The first element of a non-empty set of entries is one of them.         *)
LEMMA FirstInSet ==
    ASSUME NEW set, set \subseteq Slots, set # {}
    PROVE  First(set) \in set
<1>1. set \subseteq Nat
  BY AuthAssumption DEF Slots
<1>2. \E x \in set : \A y \in set : ~ (<<y, x>> \in OpToRel(<, Nat))
  BY <1>1, WFMin, NatLessThanWellFounded
<1>3. \A x, y \in Nat : y < x => <<y, x>> \in OpToRel(<, Nat)
  BY DEF OpToRel
<1>4. \E x \in set : \A y \in set : ~ (y < x)
  BY <1>1, <1>2, <1>3, Zenon
<1>5. \E x \in set : \A y \in set : x <= y
  BY <1>1, <1>4
<1>. QED
  BY <1>5 DEF First

(* What Inv says of the challenge table alone.                             *)
ChallengeInv == OneChallengePerClient /\ SecretsWiped /\ IdsFresh /\ UnusedYieldedNothing

(* Freeing entries keeps it.                                               *)
LEMMA FreeingKeepsChallenges ==
    ASSUME Inv, NEW table, Table(table), challenges' = table, UNCHANGED <<nextId, issued>>
    PROVE  /\ challenges' \in [Slots -> Challenge]
           /\ \A s \in Slots : challenges'[s].attempts <= MaxAttempts
           /\ ChallengeInv'
<1>1. challenges' \in [Slots -> Challenge]
  BY DEF Table
<1>2. \A s \in Slots : challenges'[s].occupied => challenges'[s] = challenges[s]
  BY FreeChallengeType DEF Table
<1>3. \A s \in Slots : challenges'[s].attempts <= MaxAttempts
  BY AuthAssumption DEF Table, Inv, TypeOK, FreeChallenge
<1>4. OneChallengePerClient'
  BY <1>2 DEF Inv, OneChallengePerClient
<1>5. SecretsWiped'
  BY <1>2 DEF Inv, SecretsWiped
<1>6. IdsFresh'
  BY <1>2 DEF Inv, IdsFresh
<1>7. UnusedYieldedNothing'
  BY <1>2 DEF Inv, UnusedYieldedNothing
<1>. QED
  BY <1>1, <1>3, <1>4, <1>5, <1>6, <1>7 DEF ChallengeInv

(* Dropping expired sessions keeps what Inv says of the sessions.          *)
LEMMA ExpiryKeepsSessions ==
    ASSUME Inv, NEW time \in Nat, sessions' = LiveSessions(time), UNCHANGED issued
    PROVE  sessions' \in [SessionSlots -> Session] /\ SessionGenuine'
<1>1. TypeOK
  BY DEF Inv
<1>2. /\ sessions' \in [SessionSlots -> Session]
      /\ \A s \in SessionSlots : sessions'[s].occupied => sessions'[s] = sessions[s]
  BY <1>1, LiveSessionsFrees
<1>. QED
  BY <1>2 DEF Inv, SessionGenuine

(* A thread that returns leaves the calls of the others as they are.       *)
LEMMA ReturnKeepsCalls ==
    ASSUME Inv, NEW t \in Threads, Return(t), UNCHANGED issued
    PROVE  call' \in [Threads -> Call] /\ BearerGenuine'
<1>1. NoCall \in Call /\ NoCall.op # "accepted"
  BY DEF NoCall, Call, Client
<1>2. call' \in [Threads -> Call]
  BY <1>1 DEF Inv, TypeOK, Return
<1>3. \A u \in Threads : call'[u].op = "accepted" => call'[u] = call[u]
  BY <1>1 DEF Inv, TypeOK, Return
<1>. QED
  BY <1>2, <1>3 DEF Inv, BearerGenuine

(* The manager auth_manager_create returns satisfies Inv.                  *)
THEOREM InvInit == Init => Inv
<1>. SUFFICES ASSUME Init PROVE Inv
  OBVIOUS
<1>1. TypeOK
  <2>1. NoCall \in Call
    BY DEF NoCall, Call, Client
  <2>2. FreeSession \in Session
    BY DEF FreeSession, Session, Client
  <2>. QED
    BY <2>1, <2>2, FreeChallengeType, AuthAssumption DEF Init, TypeOK, FreeChallenge
<1>2. \A s \in Slots : ~challenges[s].occupied
  BY FreeChallengeType DEF Init
<1>3. Len(issued) = 0
  BY DEF Init
<1>4. \A s \in SessionSlots : ~sessions[s].occupied
  BY DEF Init, FreeSession
<1>5. \A t \in Threads : call[t].op # "accepted"
  BY DEF Init, NoCall
<1>. QED
  BY <1>1, <1>2, <1>3, <1>4, <1>5
  DEF Inv, OneChallengePerClient, SecretsWiped, OneTokenPerChallenge, IdsFresh,
      UnusedYieldedNothing, SessionGenuine, BearerGenuine

(* The time a call works with is a natural number, its client an address.  *)
LEMMA CallType ==
    ASSUME TypeOK, NEW t \in Threads
    PROVE  call[t].at \in Nat /\ call[t].id \in Nat /\ call[t].client \in Client
BY DEF TypeOK, Call

(* The tokens of the history are records.                                  *)
LEMMA IssuedType ==
    ASSUME TypeOK
    PROVE  /\ Len(issued) \in Nat
           /\ \A i \in 1..Len(issued) : issued[i] \in Token /\ issued[i].challenge \in Nat
<1>1. Len(issued) \in Nat /\ \A i \in 1..Len(issued) : issued[i] \in Token
  BY DEF TypeOK
<1>. QED
  BY <1>1 DEF Token

(* A step that only returns from a call keeps Inv.                         *)
LEMMA ReturnKeepsInv ==
    ASSUME Inv, NEW t \in Threads, Return(t),
           UNCHANGED <<now, challenges, sessions, nextId, issued>>
    PROVE  Inv'
<1>1. call' \in [Threads -> Call] /\ BearerGenuine'
  BY ReturnKeepsCalls
<1>. QED
  BY <1>1 DEF Inv, TypeOK, OneChallengePerClient, SecretsWiped, OneTokenPerChallenge,
              IdsFresh, UnusedYieldedNothing, SessionGenuine

(* A refused auth_create_challenge_at: tables are only cleaned up.         *)
LEMMA RefusalKeepsInv ==
    ASSUME Inv, NEW t \in Threads, NEW table, Table(table), challenges' = table,
           sessions' = LiveSessions(call[t].at), Return(t),
           UNCHANGED <<now, nextId, issued>>
    PROVE  Inv'
<1>1. /\ challenges' \in [Slots -> Challenge]
      /\ \A s \in Slots : challenges'[s].attempts <= MaxAttempts
      /\ ChallengeInv'
  BY FreeingKeepsChallenges
<1>2. sessions' \in [SessionSlots -> Session] /\ SessionGenuine'
  BY CallType, ExpiryKeepsSessions DEF Inv
<1>3. call' \in [Threads -> Call] /\ BearerGenuine'
  BY ReturnKeepsCalls
<1>4. TypeOK'
  BY <1>1, <1>2, <1>3 DEF Inv, TypeOK
<1>5. OneTokenPerChallenge'
  BY DEF Inv, OneTokenPerChallenge
<1>. QED
  BY <1>1, <1>2, <1>3, <1>4, <1>5 DEF Inv, ChallengeInv

(* auth_create_challenge_at hands out a challenge.                         *)
LEMMA CreateOkKeepsInv ==
    ASSUME Inv, NEW t \in Threads, CreateOk(t)
    PROVE  Inv'
<1>. DEFINE c == call[t]
            table == Replaced(LiveChallenges(c.at), c.client, c.at)
            k == First(FreeSlots(table))
            fresh == NewChallenge(c)
<1>. TypeOK
  BY DEF Inv
<1>. c.at \in Nat /\ c.client \in Client
  BY CallType
<1>1. Table(table)
  BY LiveChallengesFrees, ReplacedFrees
<1>2. k \in Slots /\ ~table[k].occupied
  BY FirstInSet DEF CreateOk, FreeSlots
<1>3. challenges' = [table EXCEPT ![k] = fresh]
  BY DEF CreateOk
<1>4. fresh \in Challenge /\ fresh.attempts = 0 /\ fresh.id = nextId
      /\ fresh.client = c.client /\ fresh.pin /\ ~fresh.used
  <2>1. c.at + PinTtl \in Nat /\ nextId \in Nat
    BY AuthAssumption DEF TypeOK
  <2>. QED
    BY <2>1 DEF NewChallenge, Challenge
<1>5. \A s \in Slots : table[s].occupied => table[s] = challenges[s]
  BY <1>1, FreeChallengeType DEF Table
<1>6. \A s \in Slots : table[s].occupied => table[s].client # c.client
  <2>1. \A s \in Slots : ~LimitedAt(LiveChallenges(c.at), s, c.client, c.at)
    BY DEF CreateOk
  <2>2. \A s \in Slots : 1..s \subseteq Slots
    BY AuthAssumption DEF Slots
  <2>. QED
    BY <2>1, <2>2, FreeChallengeType DEF Replaced, Owned
<1>. HIDE DEF table, k, fresh
<1>7. \A s \in Slots : challenges'[s] = IF s = k THEN fresh ELSE table[s]
  BY <1>1, <1>2, <1>3 DEF Table
<1>8. nextId' = nextId + 1 /\ issued' = issued /\ nextId \in Nat
  BY DEF CreateOk, Inv, TypeOK
<1>9. challenges' \in [Slots -> Challenge]
  BY <1>1, <1>3, <1>4 DEF Table
<1>10. \A s \in Slots : challenges'[s].attempts <= MaxAttempts
  BY <1>1, <1>4, <1>7, AuthAssumption DEF Table, Inv, TypeOK, FreeChallenge
<1>11. OneChallengePerClient'
  BY <1>4, <1>5, <1>6, <1>7 DEF Inv, OneChallengePerClient
<1>12. SecretsWiped'
  BY <1>4, <1>5, <1>7, AuthAssumption DEF Inv, SecretsWiped
<1>13. \A s \in Slots : table[s].occupied => table[s].id < nextId
  BY <1>5 DEF Inv, IdsFresh
<1>14. \A s \in Slots : table[s].id \in Nat
  BY <1>1 DEF Table, Challenge
<1>15. IdsFresh'
  <2>1. \A s \in Slots : challenges'[s].occupied => challenges'[s].id < nextId'
    BY <1>4, <1>7, <1>8, <1>13, <1>14
  <2>2. \A i \in 1..Len(issued') : issued'[i].challenge < nextId'
    BY <1>8, IssuedType DEF Inv, IdsFresh
  <2>3. \A r, s \in Slots :
           /\ challenges'[r].occupied /\ challenges'[s].occupied
           /\ challenges'[r].id = challenges'[s].id
           => r = s
    BY <1>4, <1>5, <1>7, <1>8, <1>13, <1>14 DEF Inv, IdsFresh
  <2>. QED
    BY <2>1, <2>2, <2>3 DEF IdsFresh
<1>16. UnusedYieldedNothing'
  <2>1. \A i \in 1..Len(issued) : issued[i].challenge # nextId
    BY <1>8, IssuedType DEF Inv, IdsFresh
  <2>. QED
    BY <2>1, <1>4, <1>5, <1>7, <1>8 DEF Inv, UnusedYieldedNothing
<1>17. sessions' \in [SessionSlots -> Session] /\ SessionGenuine'
  BY ExpiryKeepsSessions DEF Inv, CreateOk
<1>18. call' \in [Threads -> Call] /\ BearerGenuine'
  BY ReturnKeepsCalls DEF CreateOk
<1>19. TypeOK'
  BY <1>8, <1>9, <1>10, <1>17, <1>18 DEF Inv, TypeOK, CreateOk
<1>20. OneTokenPerChallenge'
  BY <1>8 DEF Inv, OneTokenPerChallenge
<1>. QED
  BY <1>11, <1>12, <1>15, <1>16, <1>17, <1>18, <1>19, <1>20 DEF Inv

(* A wrong PIN is counted against the challenge.                           *)
LEMMA VerifyWrongKeepsInv ==
    ASSUME Inv, NEW t \in Threads, VerifyWrong(t)
    PROVE  Inv'
<1>. TypeOK
  BY DEF Inv
<1>. call[t].at \in Nat
  BY CallType
<1>1. PICK k \in Slots :
         /\ Holds(k, call[t]) /\ Verifiable(challenges[k], call[t])
         /\ challenges' = [challenges EXCEPT ![k] = Failed(challenges[k], call[t])]
  BY DEF VerifyWrong
<1>. DEFINE old == challenges[k]
            new == Failed(old, call[t])
<1>2. /\ old \in Challenge /\ old.occupied /\ ~old.used /\ old.attempts < MaxAttempts
  BY <1>1 DEF TypeOK, Holds, Verifiable
<1>3. new \in Challenge /\ new.attempts = old.attempts + 1
      /\ new.occupied = old.occupied /\ new.used = old.used
      /\ new.client = old.client /\ new.id = old.id
  <2>1. old.attempts + 1 \in Nat /\ call[t].at + RateLimit \in Nat
    BY <1>2, AuthAssumption DEF Challenge
  <2>2. CASE old.attempts + 1 >= MaxAttempts
    BY <1>2, <2>1, <2>2 DEF Failed, Challenge
  <2>3. CASE ~(old.attempts + 1 >= MaxAttempts)
    BY <1>2, <2>1, <2>3 DEF Failed, Challenge
  <2>. QED
    BY <2>2, <2>3
<1>4. new.pin <=> old.pin /\ new.attempts < MaxAttempts
  BY <1>2, AuthAssumption DEF Failed, Challenge
<1>41. new.occupied /\ ~new.used /\ new.attempts <= MaxAttempts
  BY <1>2, <1>3, AuthAssumption DEF Challenge
<1>. HIDE DEF new
<1>5. \A s \in Slots : challenges'[s] = IF s = k THEN new ELSE challenges[s]
  BY <1>1 DEF TypeOK, new
<1>6. UNCHANGED <<now, sessions, nextId, issued>>
  BY DEF VerifyWrong
<1>7. call' \in [Threads -> Call] /\ BearerGenuine'
  BY <1>6, ReturnKeepsCalls DEF VerifyWrong
<1>8. challenges' \in [Slots -> Challenge]
  BY <1>1, <1>3 DEF TypeOK, new
<1>9. TypeOK'
  BY <1>3, <1>41, <1>5, <1>6, <1>7, <1>8 DEF TypeOK
<1>10. OneChallengePerClient'
  BY <1>2, <1>41, <1>3, <1>5 DEF Inv, OneChallengePerClient
<1>11. SecretsWiped'
  BY <1>2, <1>3, <1>4, <1>41, <1>5 DEF Inv, SecretsWiped
<1>12. IdsFresh'
  BY <1>2, <1>3, <1>5, <1>6, <1>41 DEF Inv, IdsFresh
<1>13. UnusedYieldedNothing'
  BY <1>2, <1>3, <1>5, <1>6, <1>41 DEF Inv, UnusedYieldedNothing
<1>. QED
  BY <1>6, <1>7, <1>9, <1>10, <1>11, <1>12, <1>13
  DEF Inv, OneTokenPerChallenge, SessionGenuine

(* A right PIN spends the challenge and opens the only session.            *)
LEMMA VerifyOkKeepsInv ==
    ASSUME Inv, NEW t \in Threads, VerifyOk(t)
    PROVE  Inv'
<1>. TypeOK
  BY DEF Inv
<1>. DEFINE c == call[t]
            token == [challenge |-> c.id, client |-> c.client, expires |-> c.at + SessionTtl]
<1>0. c.at \in Nat /\ c.id \in Nat /\ c.client \in Client
  BY CallType
<1>1. PICK k \in Slots :
         /\ Holds(k, c) /\ Verifiable(challenges[k], c)
         /\ challenges' = [challenges EXCEPT ![k] = Spent(challenges[k])]
  BY DEF VerifyOk
<1>. DEFINE old == challenges[k]
            new == Spent(old)
<1>2. old \in Challenge /\ old.occupied /\ ~old.used /\ old.id = c.id
  BY <1>1 DEF TypeOK, Holds, Verifiable
<1>3. /\ new \in Challenge /\ new.occupied /\ new.used /\ ~new.pin
      /\ new.attempts = old.attempts /\ new.client = old.client /\ new.id = old.id
  BY <1>2 DEF Spent, Challenge
<1>. HIDE DEF new
<1>4. \A s \in Slots : challenges'[s] = IF s = k THEN new ELSE challenges[s]
  BY <1>1 DEF TypeOK, new
<1>5. token \in Token /\ token.challenge = old.id /\ token.client = c.client
      /\ token.expires = c.at + SessionTtl
  BY <1>0, <1>2, AuthAssumption DEF Token
<1>6. issued' = Append(issued, token) /\ UNCHANGED <<now, nextId>>
  BY DEF VerifyOk
<1>. HIDE DEF token
<1>7. /\ issued' \in Seq(Token) /\ Len(issued') = Len(issued) + 1 /\ Len(issued) \in Nat
      /\ issued'[Len(issued) + 1] = token
      /\ \A i \in 1..Len(issued) : issued'[i] = issued[i]
  BY <1>5, <1>6 DEF TypeOK
<1>8. \A i \in 1..Len(issued') : i \in 1..Len(issued) \/ i = Len(issued) + 1
  BY <1>7
<1>9. call' \in [Threads -> Call] /\ \A u \in Threads : call'[u].op = "accepted" => call'[u] = call[u]
  <2>1. NoCall \in Call /\ NoCall.op # "accepted"
    BY DEF NoCall, Call, Client
  <2>. QED
    BY <2>1 DEF TypeOK, VerifyOk, Return
<1>10. BearerGenuine'
  BY <1>7, <1>9 DEF Inv, BearerGenuine
<1>11. sessions' = SingleSession(c)
  BY DEF VerifyOk
<1>12. sessions' \in [SessionSlots -> Session]
  <2>. DEFINE session == [occupied |-> TRUE, expires |-> c.at + SessionTtl,
                          client |-> c.client, token |-> Len(issued) + 1]
  <2>1. c.at + SessionTtl \in Nat /\ Len(issued) + 1 \in Nat
    BY <1>0, <1>7, AuthAssumption
  <2>2. session \in Session
    BY <1>0, <2>1 DEF Session
  <2>3. FreeSession \in Session
    BY DEF FreeSession, Session, Client
  <2>4. sessions' = [s \in SessionSlots |-> IF s = 1 THEN session ELSE FreeSession]
    BY <1>11 DEF SingleSession
  <2>. HIDE DEF session
  <2>. QED
    BY <2>2, <2>3, <2>4
<1>13. SessionGenuine'
  BY <1>5, <1>7, <1>11 DEF SessionGenuine, SingleSession, FreeSession
<1>14. TypeOK'
  <2>1. challenges' \in [Slots -> Challenge]
    BY <1>1, <1>3 DEF TypeOK, new
  <2>. QED
    BY <2>1, <1>3, <1>4, <1>6, <1>7, <1>9, <1>12 DEF TypeOK
<1>15. OneChallengePerClient'
  BY <1>2, <1>3, <1>4 DEF Inv, OneChallengePerClient
<1>16. SecretsWiped'
  BY <1>3, <1>4 DEF Inv, SecretsWiped
<1>17. IdsFresh'
  BY <1>2, <1>3, <1>4, <1>5, <1>6, <1>7, <1>8 DEF Inv, IdsFresh
<1>18. \A i \in 1..Len(issued) : issued[i].challenge # old.id
  BY <1>2 DEF Inv, UnusedYieldedNothing
<1>19. OneTokenPerChallenge'
  BY <1>5, <1>7, <1>8, <1>18 DEF Inv, OneTokenPerChallenge
<1>20. UnusedYieldedNothing'
  <2>1. \A s \in Slots \ {k} : challenges[s].occupied => challenges[s].id # old.id
    BY <1>2 DEF Inv, IdsFresh
  <2>. QED
    BY <2>1, <1>3, <1>4, <1>5, <1>7, <1>8 DEF Inv, UnusedYieldedNothing
<1>. QED
  BY <1>10, <1>13, <1>14, <1>15, <1>16, <1>17, <1>19, <1>20 DEF Inv

(* No step of a handler of auth.c, no passing of time and no shutdown      *)
(* leaves Inv.                                                             *)
THEOREM InvNext == Inv /\ [Next]_vars => Inv'
<1>. SUFFICES ASSUME Inv, [Next]_vars PROVE Inv'
  OBVIOUS
<1>. TypeOK
  BY DEF Inv
<1>1. CASE UNCHANGED vars
  BY <1>1 DEF vars, Inv, TypeOK, OneChallengePerClient, SecretsWiped, OneTokenPerChallenge,
              IdsFresh, UnusedYieldedNothing, SessionGenuine, BearerGenuine
<1>2. CASE Tick
  BY <1>2, AuthAssumption
  DEF Tick, Inv, TypeOK, OneChallengePerClient, SecretsWiped, OneTokenPerChallenge,
      IdsFresh, UnusedYieldedNothing, SessionGenuine, BearerGenuine
<1>3. ASSUME NEW t \in Threads, ThreadStep(t) PROVE Inv'
  <2>0. call[t].at \in Nat /\ call[t].id \in Nat /\ call[t].client \in Client
    BY CallType
  <2>1. CASE Request(t)
    <3>1. PICK c \in Call : c.op # "accepted" /\ call' = [call EXCEPT ![t] = c]
      <4>1. PICK op \in {"create", "verify", "validate"}, client \in Clients,
                 id \in 0..MaxIds, right \in BOOLEAN :
               call' = [call EXCEPT ![t] = [op |-> op, client |-> client, at |-> now,
                                            id |-> id, right |-> right]]
        BY <2>1 DEF Request
      <4>2. id \in Nat
        BY <4>1, AuthAssumption
      <4>. QED
        BY <4>1, <4>2 DEF Call, Client, TypeOK
    <3>2. call' \in [Threads -> Call]
      BY <3>1 DEF TypeOK
    <3>3. \A u \in Threads : call'[u].op = "accepted" => call'[u] = call[u]
      BY <3>1 DEF TypeOK
    <3>4. UNCHANGED <<now, challenges, sessions, nextId, issued>>
      BY <2>1 DEF Request
    <3>. QED
      BY <3>2, <3>3, <3>4
      DEF Inv, TypeOK, OneChallengePerClient, SecretsWiped, OneTokenPerChallenge,
          IdsFresh, UnusedYieldedNothing, SessionGenuine, BearerGenuine
  <2>2. CASE CreateLimited(t)
    BY <2>0, <2>2, LiveChallengesFrees, ReplacedFrees, RefusalKeepsInv DEF CreateLimited
  <2>3. CASE CreateFull(t)
    BY <2>0, <2>3, LiveChallengesFrees, ReplacedFrees, RefusalKeepsInv DEF CreateFull
  <2>4. CASE CreateOk(t)
    BY <2>4, CreateOkKeepsInv
  <2>5. CASE VerifyRefused(t)
    BY <2>5, ReturnKeepsInv DEF VerifyRefused
  <2>6. CASE VerifyExpired(t)
    <3>1. PICK k \in Slots : challenges' = [challenges EXCEPT ![k] = FreeChallenge]
      BY <2>6 DEF VerifyExpired
    <3>2. Table(challenges')
      BY <3>1, FreeChallengeType DEF Table, TypeOK
    <3>3. UNCHANGED <<now, sessions, nextId, issued>> /\ Return(t)
      BY <2>6 DEF VerifyExpired
    <3>4. /\ challenges' \in [Slots -> Challenge]
          /\ \A s \in Slots : challenges'[s].attempts <= MaxAttempts
          /\ ChallengeInv'
      BY <3>2, <3>3, FreeingKeepsChallenges
    <3>5. call' \in [Threads -> Call] /\ BearerGenuine'
      BY <3>3, ReturnKeepsCalls
    <3>. QED
      BY <3>3, <3>4, <3>5
      DEF Inv, TypeOK, ChallengeInv, OneTokenPerChallenge, SessionGenuine
  <2>7. CASE VerifyWrong(t)
    BY <2>7, VerifyWrongKeepsInv
  <2>8. CASE VerifyOk(t)
    BY <2>8, VerifyOkKeepsInv
  <2>9. CASE NoRandomness(t)
    BY <2>9, ReturnKeepsInv DEF NoRandomness
  <2>10. CASE Validate(t)
    <3>. DEFINE live == LiveSessions(call[t].at)
    <3>1. Table(challenges') /\ UNCHANGED <<now, nextId, issued>> /\ sessions' = live
      BY <2>0, <2>10, LiveChallengesFrees DEF Validate
    <3>2. /\ challenges' \in [Slots -> Challenge]
          /\ \A s \in Slots : challenges'[s].attempts <= MaxAttempts
          /\ ChallengeInv'
      BY <3>1, FreeingKeepsChallenges
    <3>3. sessions' \in [SessionSlots -> Session] /\ SessionGenuine'
      BY <2>0, <3>1, ExpiryKeepsSessions
    <3>4. call' \in [Threads -> Call] /\ BearerGenuine'
      <4>1. CASE \E s \in SessionSlots : Matches(live[s], call[t])
        <5>1. PICK s \in SessionSlots : Matches(live[s], call[t])
          BY <4>1
        <5>2. live[s] = sessions[s] /\ call[t].at < sessions[s].expires
          BY <2>0, <5>1, LiveSessionsFrees DEF Matches
        <5>3. /\ call[t].id \in 1..Len(issued)
              /\ issued[call[t].id].client = call[t].client
              /\ call[t].at < issued[call[t].id].expires
          BY <5>1, <5>2, IssuedType DEF Matches, Inv, SessionGenuine
        <5>4. call' = [call EXCEPT ![t].op = "accepted"]
          BY <2>10, <4>1 DEF Validate
        <5>5. call' \in [Threads -> Call]
          BY <5>4 DEF TypeOK, Call
        <5>6. \A u \in Threads \ {t} : call'[u] = call[u]
          BY <5>4 DEF TypeOK
        <5>7. call'[t].id = call[t].id /\ call'[t].client = call[t].client
              /\ call'[t].at = call[t].at
          BY <5>4 DEF TypeOK, Call
        <5>. QED
          BY <3>1, <5>3, <5>5, <5>6, <5>7 DEF Inv, BearerGenuine
      <4>2. CASE ~ \E s \in SessionSlots : Matches(live[s], call[t])
        BY <2>10, <3>1, <4>2, ReturnKeepsCalls DEF Validate
      <4>. QED
        BY <4>1, <4>2
    <3>5. TypeOK'
      BY <3>1, <3>2, <3>3, <3>4 DEF TypeOK
    <3>. QED
      BY <3>1, <3>2, <3>3, <3>4, <3>5 DEF Inv, ChallengeInv, OneTokenPerChallenge
  <2>. QED
    BY <1>3, <2>1, <2>2, <2>3, <2>4, <2>5, <2>6, <2>7, <2>8, <2>9, <2>10 DEF ThreadStep
<1>. QED
  BY <1>1, <1>2, <1>3 DEF Next

(* Inv holds in every behaviour of the authentication manager.             *)
THEOREM Safety == Spec => []Inv
BY InvInit, InvNext, PTL DEF Spec

(* auth_create_challenge_at never leaves a client with two challenges.     *)
THEOREM OneChallenge == Spec => []OneChallengePerClient
<1>1. Inv => OneChallengePerClient
  BY DEF Inv
<1>. QED
  BY <1>1, Safety, PTL

(* The manager's tables and its threads' locals have their types.          *)
THEOREM AuthTypes == Spec => []TypeOK
<1>1. Inv => TypeOK
  BY DEF Inv
<1>. QED
  BY <1>1, Safety, PTL

(* auth_verify_challenge_at never yields two tokens for one challenge.     *)
THEOREM OneLogin == Spec => []OneTokenPerChallenge
<1>1. Inv => OneTokenPerChallenge
  BY DEF Inv
<1>. QED
  BY <1>1, Safety, PTL

(* A PIN is wiped as soon as it can no longer be verified                  *)
(* (clear_challenge).                                                      *)
THEOREM PinWiped == Spec => []SecretsWiped
<1>1. Inv => SecretsWiped
  BY DEF Inv
<1>. QED
  BY <1>1, Safety, PTL

(* Only the newest token has a session: auth_verify_challenge_at clears    *)
(* the others before it opens one.                                         *)
THEOREM NewestSession == Spec => []LastLoginWins
<1>1. Inv => LastLoginWins
  BY DEF Inv, SessionGenuine, LastLoginWins
<1>. QED
  BY <1>1, Safety, PTL

(* auth_validate_bearer_at accepts a token only from its client and in its *)
(* lifetime.                                                               *)
THEOREM BearerSafety == Spec => []BearerGenuine
<1>1. Inv => BearerGenuine
  BY DEF Inv
<1>. QED
  BY <1>1, Safety, PTL
=============================================================================
