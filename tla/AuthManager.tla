---------------------------- MODULE AuthManager ----------------------------
(***************************************************************************)
(* The PIN challenges and bearer sessions of src/auth.c.  A request thread *)
(* reads the clock first and takes the manager's mutex later, so that      *)
(* calls may run with times out of order.  Identifiers and tokens are      *)
(* random in the code; here each one is the next number.                   *)
(***************************************************************************)
EXTENDS Integers, Sequences, FiniteSets

CONSTANTS
    Threads,        \* request threads
    Clients,        \* client addresses
    NoClient,       \* the address of a free table entry
    MaxChallenges,  \* AUTH_MAX_CHALLENGES
    MaxSessions,    \* AUTH_MAX_SESSIONS
    MaxAttempts,    \* AUTH_MAX_ATTEMPTS
    RateLimit,      \* AUTH_RATE_LIMIT_SECONDS
    PinTtl,         \* pin_ttl_seconds
    SessionTtl,     \* session_ttl_seconds
    MaxTime,        \* bound: the last second of a behaviour
    MaxIds          \* bound: challenges handed out in a behaviour

ASSUME AuthAssumption ==
    /\ MaxChallenges \in Nat \ {0} /\ MaxSessions \in Nat \ {0}
    /\ MaxAttempts \in Nat \ {0}
    /\ RateLimit \in Nat /\ PinTtl \in Nat \ {0} /\ SessionTtl \in Nat \ {0}
    /\ MaxTime \in Nat /\ MaxIds \in Nat
    /\ NoClient \notin Clients

Slots        == 1..MaxChallenges
SessionSlots == 1..MaxSessions
Times        == 0..MaxTime
Ids          == 1..MaxIds

VARIABLES
    now,         \* time(NULL)
    call,        \* per thread: the call it is in, with the time it read
    challenges,  \* manager->challenges
    sessions,    \* manager->sessions
    nextId,      \* the next challenge identifier
    issued       \* history: every token handed out, oldest first

vars == <<now, call, challenges, sessions, nextId, issued>>

FreeChallenge == [occupied |-> FALSE, used |-> FALSE, attempts |-> 0, expires |-> 0,
                  limited |-> 0, client |-> NoClient, id |-> 0, pin |-> FALSE]
FreeSession == [occupied |-> FALSE, expires |-> 0, client |-> NoClient, token |-> 0]
NoCall == [op |-> "idle", client |-> NoClient, at |-> 0, id |-> 0, right |-> FALSE]

Init ==
    /\ now = 0
    /\ call = [t \in Threads |-> NoCall]
    /\ challenges = [s \in Slots |-> FreeChallenge]
    /\ sessions = [s \in SessionSlots |-> FreeSession]
    /\ nextId = 1
    /\ issued = <<>>
-----------------------------------------------------------------------------
(* cleanup_expired: a challenge is kept while its client is rate limited.  *)
LiveChallenges(time) ==
    [s \in Slots |->
        IF challenges[s].occupied /\ challenges[s].expires <= time
           /\ challenges[s].limited <= time
        THEN FreeChallenge ELSE challenges[s]]
LiveSessions(time) ==
    [s \in SessionSlots |->
        IF sessions[s].occupied /\ sessions[s].expires <= time
        THEN FreeSession ELSE sessions[s]]

Return(t) == call' = [call EXCEPT ![t] = NoCall]

(* A request: the clock is read, then the manager is called.  `id' is a    *)
(* challenge, or the token of a validation; `right' tells whether the PIN  *)
(* the client sends is the one shown for that challenge.  A request whose  *)
(* bearer was accepted goes on outside this module.                        *)
Request(t) ==
    /\ call[t].op \in {"idle", "accepted"}
    /\ \E op \in {"create", "verify", "validate"}, client \in Clients,
          id \in 0..MaxIds, right \in BOOLEAN :
          /\ op = "create" => id = 0 /\ ~right
          /\ op = "verify" => id \in 1..(nextId - 1)
          /\ op = "validate" => id \in 1..Len(issued) /\ ~right
          /\ call' = [call EXCEPT ![t] = [op |-> op, client |-> client, at |-> now,
                                         id |-> id, right |-> right]]
    /\ UNCHANGED <<now, challenges, sessions, nextId, issued>>
-----------------------------------------------------------------------------
(* auth_create_challenge_at.  The scan frees the challenge the client      *)
(* already has, up to one that is still rate limited, and takes the first  *)
(* entry that is free when it passes.                                      *)
Owned(table, s, client) == table[s].occupied /\ table[s].client = client
LimitedAt(table, s, client, time) == Owned(table, s, client) /\ table[s].limited > time

(* Mutant of Replaced: the client's previous challenge stays.              *)
ReplacedNone(table, client, time) == table
Replaced(table, client, time) ==
    [s \in Slots |->
        IF Owned(table, s, client) /\ \A r \in 1..s : ~LimitedAt(table, r, client, time)
        THEN FreeChallenge ELSE table[s]]

FreeSlots(table) == {s \in Slots : ~table[s].occupied}
First(set) == CHOOSE s \in set : \A r \in set : s <= r

NewChallenge(c) == [occupied |-> TRUE, used |-> FALSE, attempts |-> 0,
                    expires |-> c.at + PinTtl, limited |-> 0, client |-> c.client,
                    id |-> nextId, pin |-> TRUE]

CreateLimited(t) ==
    LET c == call[t]
        live == LiveChallenges(c.at)
    IN  /\ c.op = "create"
        /\ \E s \in Slots : LimitedAt(live, s, c.client, c.at)
        /\ challenges' = Replaced(live, c.client, c.at)
        /\ sessions' = LiveSessions(c.at)
        /\ Return(t)
        /\ UNCHANGED <<now, nextId, issued>>

(* No entry is free (AUTH_CAPACITY), or the bound MaxIds is reached.       *)
CreateFull(t) ==
    LET c == call[t]
        live == LiveChallenges(c.at)
        table == Replaced(live, c.client, c.at)
    IN  /\ c.op = "create"
        /\ \A s \in Slots : ~LimitedAt(live, s, c.client, c.at)
        /\ FreeSlots(table) = {} \/ nextId \notin Ids
        /\ challenges' = table
        /\ sessions' = LiveSessions(c.at)
        /\ Return(t)
        /\ UNCHANGED <<now, nextId, issued>>

CreateOk(t) ==
    LET c == call[t]
        live == LiveChallenges(c.at)
        table == Replaced(live, c.client, c.at)
    IN  /\ c.op = "create"
        /\ \A s \in Slots : ~LimitedAt(live, s, c.client, c.at)
        /\ FreeSlots(table) # {} /\ nextId \in Ids
        /\ challenges' = [table EXCEPT ![First(FreeSlots(table))] = NewChallenge(c)]
        /\ sessions' = LiveSessions(c.at)
        /\ nextId' = nextId + 1
        /\ Return(t)
        /\ UNCHANGED <<now, issued>>
-----------------------------------------------------------------------------
(* auth_verify_challenge_at.  Nothing is cleaned up first.                 *)
Holds(s, c) == challenges[s].occupied /\ challenges[s].id = c.id

(* Mutant: attempts are counted and not limited.                           *)
VerifiableForever(ch, c) == ch.client = c.client /\ ~ch.used /\ ch.expires > c.at
Verifiable(ch, c) == /\ ch.client = c.client
                     /\ ~ch.used
                     /\ ch.expires > c.at
                     /\ ch.attempts < MaxAttempts

(* The PIN sent is the one kept; a wiped PIN equals no PIN.                *)
PinMatches(ch, c) == c.right /\ ch.pin

(* AUTH_INVALID, AUTH_USED, AUTH_RATE_LIMITED: nothing changes.            *)
VerifyRefused(t) ==
    /\ call[t].op = "verify"
    /\ \A s \in Slots : Holds(s, call[t]) =>
          \/ challenges[s].client # call[t].client
          \/ challenges[s].used
          \/ challenges[s].expires > call[t].at /\ challenges[s].attempts >= MaxAttempts
    /\ Return(t)
    /\ UNCHANGED <<now, challenges, sessions, nextId, issued>>

VerifyExpired(t) ==
    /\ call[t].op = "verify"
    /\ \E s \in Slots :
          /\ Holds(s, call[t]) /\ challenges[s].client = call[t].client
          /\ ~challenges[s].used /\ challenges[s].expires <= call[t].at
          /\ challenges' = [challenges EXCEPT ![s] = FreeChallenge]
    /\ Return(t)
    /\ UNCHANGED <<now, sessions, nextId, issued>>

(* A wrong PIN is counted; the last attempt wipes the PIN.                 *)
(* Mutant: the PIN survives the last attempt.                              *)
FailedKeepsPin(ch, c) == [ch EXCEPT !.attempts = @ + 1]
Failed(ch, c) ==
    IF ch.attempts + 1 >= MaxAttempts
    THEN [ch EXCEPT !.attempts = @ + 1, !.pin = FALSE, !.limited = c.at + RateLimit]
    ELSE [ch EXCEPT !.attempts = @ + 1]

VerifyWrong(t) ==
    /\ call[t].op = "verify"
    /\ \E s \in Slots :
          /\ Holds(s, call[t]) /\ Verifiable(challenges[s], call[t])
          /\ ~PinMatches(challenges[s], call[t])
          /\ challenges' = [challenges EXCEPT ![s] = Failed(@, call[t])]
    /\ Return(t)
    /\ UNCHANGED <<now, sessions, nextId, issued>>

(* Mutant: the challenge is not marked used, nor its PIN wiped.            *)
SpentAgain(ch) == ch
Spent(ch) == [ch EXCEPT !.used = TRUE, !.pin = FALSE]
(* Mutant: the new session takes a free entry, the others stay.            *)
AddedSession(c) ==
    LET free == {s \in SessionSlots : ~sessions[s].occupied}
    IN  [sessions EXCEPT ![IF free = {} THEN 1 ELSE First(free)] =
            [occupied |-> TRUE, expires |-> c.at + SessionTtl,
             client |-> c.client, token |-> Len(issued) + 1]]
SingleSession(c) ==
    [s \in SessionSlots |->
        IF s = 1 THEN [occupied |-> TRUE, expires |-> c.at + SessionTtl,
                       client |-> c.client, token |-> Len(issued) + 1]
        ELSE FreeSession]

VerifyOk(t) ==
    /\ call[t].op = "verify"
    /\ \E s \in Slots :
          /\ Holds(s, call[t]) /\ Verifiable(challenges[s], call[t])
          /\ PinMatches(challenges[s], call[t])
          /\ challenges' = [challenges EXCEPT ![s] = Spent(@)]
    /\ sessions' = SingleSession(call[t])
    /\ issued' = Append(issued, [challenge |-> call[t].id, client |-> call[t].client,
                                 expires |-> call[t].at + SessionTtl])
    /\ Return(t)
    /\ UNCHANGED <<now, nextId>>
-----------------------------------------------------------------------------
(* AUTH_RANDOM_FAILURE: before the mutex in auth_create_challenge_at, and  *)
(* with a right PIN in auth_verify_challenge_at.                           *)
NoRandomness(t) ==
    /\ \/ call[t].op = "create"
       \/ /\ call[t].op = "verify"
          /\ \E s \in Slots : /\ Holds(s, call[t]) /\ Verifiable(challenges[s], call[t])
                               /\ PinMatches(challenges[s], call[t])
    /\ Return(t)
    /\ UNCHANGED <<now, challenges, sessions, nextId, issued>>
-----------------------------------------------------------------------------
(* auth_validate_bearer_at.                                                *)
(* Mutant: a token is good for any client.                                 *)
MatchesAnyClient(session, c) == session.occupied /\ session.token = c.id
Matches(session, c) == /\ session.occupied
                       /\ session.token = c.id
                       /\ session.client = c.client

Validate(t) ==
    LET c == call[t]
        live == LiveSessions(c.at)
    IN  /\ c.op = "validate"
        /\ challenges' = LiveChallenges(c.at)
        /\ sessions' = live
        /\ IF \E s \in SessionSlots : Matches(live[s], c)
           THEN call' = [call EXCEPT ![t].op = "accepted"]
           ELSE Return(t)
        /\ UNCHANGED <<now, nextId, issued>>

Tick == /\ now < MaxTime
        /\ now' = now + 1
        /\ UNCHANGED <<call, challenges, sessions, nextId, issued>>

ThreadStep(t) == \/ Request(t) \/ CreateLimited(t) \/ CreateFull(t) \/ CreateOk(t)
                 \/ VerifyRefused(t) \/ VerifyExpired(t) \/ VerifyWrong(t) \/ VerifyOk(t)
                 \/ NoRandomness(t) \/ Validate(t)

Next == Tick \/ \E t \in Threads : ThreadStep(t)

Spec == Init /\ [][Next]_vars
-----------------------------------------------------------------------------
(* Properties.                                                             *)

Client    == Clients \cup {NoClient}
Challenge == [occupied : BOOLEAN, used : BOOLEAN, attempts : Nat, expires : Nat,
              limited : Nat, client : Client, id : Nat, pin : BOOLEAN]
Session   == [occupied : BOOLEAN, expires : Nat, client : Client, token : Nat]
Call      == [op : {"idle", "create", "verify", "validate", "accepted"},
              client : Client, at : Nat, id : Nat, right : BOOLEAN]
Token     == [challenge : Nat, client : Client, expires : Nat]

(* Every entry of the two tables and every call has its type, and the      *)
(* attempt counter stays within AUTH_MAX_ATTEMPTS.                         *)
TypeOK ==
    /\ now \in Nat
    /\ call \in [Threads -> Call]
    /\ challenges \in [Slots -> Challenge]
    /\ sessions \in [SessionSlots -> Session]
    /\ nextId \in Nat \ {0}
    /\ issued \in Seq(Token)
    /\ \A s \in Slots : challenges[s].attempts <= MaxAttempts

(* A client has one challenge at a time: asking again replaces the old     *)
(* one, so that one client cannot fill the table.                          *)
OneChallengePerClient ==
    \A r, s \in Slots :
        /\ challenges[r].occupied /\ challenges[s].occupied
        /\ challenges[r].client = challenges[s].client
        => r = s

(* The PIN is kept exactly as long as it can still be verified: a used or  *)
(* an exhausted challenge has none.                                        *)
SecretsWiped ==
    \A s \in Slots : challenges[s].occupied =>
        (challenges[s].pin <=> ~challenges[s].used /\ challenges[s].attempts < MaxAttempts)

(* A PIN is good for one login: no challenge yields two tokens.            *)
OneTokenPerChallenge ==
    \A i, j \in 1..Len(issued) : issued[i].challenge = issued[j].challenge => i = j

(* The last login wins: a session that is still in the table belongs to    *)
(* the newest token, so every older token is refused.                      *)
LastLoginWins ==
    \A s \in SessionSlots : sessions[s].occupied => sessions[s].token = Len(issued)

(* A bearer is accepted only from the client that logged in, and within    *)
(* the lifetime of that login by the clock the request read.               *)
BearerGenuine ==
    \A t \in Threads : call[t].op = "accepted" =>
        /\ call[t].id \in 1..Len(issued)
        /\ issued[call[t].id].client = call[t].client
        /\ call[t].at < issued[call[t].id].expires

(* What the properties need to be inductive: identifiers are fresh, an     *)
(* unused challenge has yielded no token, and a session is the record of   *)
(* the token it was opened with.                                           *)
IdsFresh ==
    /\ \A s \in Slots : challenges[s].occupied => challenges[s].id < nextId
    /\ \A i \in 1..Len(issued) : issued[i].challenge < nextId
    /\ \A r, s \in Slots :
          /\ challenges[r].occupied /\ challenges[s].occupied
          /\ challenges[r].id = challenges[s].id
          => r = s
UnusedYieldedNothing ==
    \A s \in Slots : challenges[s].occupied /\ ~challenges[s].used =>
        \A i \in 1..Len(issued) : issued[i].challenge # challenges[s].id
SessionGenuine ==
    \A s \in SessionSlots : sessions[s].occupied =>
        /\ sessions[s].token = Len(issued) /\ Len(issued) > 0
        /\ issued[sessions[s].token].client = sessions[s].client
        /\ issued[sessions[s].token].expires = sessions[s].expires
Inv == /\ TypeOK /\ OneChallengePerClient /\ SecretsWiped /\ OneTokenPerChallenge
       /\ IdsFresh /\ UnusedYieldedNothing /\ SessionGenuine /\ BearerGenuine
=============================================================================
