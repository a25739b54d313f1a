---------------------------- MODULE RefreshTokens ----------------------------
(***************************************************************************)
(* The server side of a login session: the refresh_token table and the    *)
(* handlers that read and write it (backend/app/api/routes/login.py).     *)
(*                                                                         *)
(* A member of Pair is one result of _make_tokens: a short-lived access   *)
(* token (a signed JWT, no row) and the row of the refresh token minted   *)
(* with it.  Time is kept as what is left of each lifetime, so that the   *)
(* state space is finite without a bound on the clock; a Tick is one unit *)
(* of all of them.  A Req is one call of POST /login/refresh, which runs  *)
(* in a worker thread of its own and holds the row FOR UPDATE from its    *)
(* SELECT to its COMMIT.                                                   *)
(***************************************************************************)
EXTENDS Naturals

CONSTANTS
    Pair,         \* token pairs _make_tokens may mint
    Req,          \* concurrent calls of POST /login/refresh
    User,
    NoPair,       \* absence of a pair
    AccessLife,   \* ACCESS_TOKEN_EXPIRE_MINUTES, in ticks
    RefreshLife,  \* REFRESH_TOKEN_EXPIRE_DAYS, in ticks
    Grace         \* REFRESH_ROTATION_GRACE_SECONDS, in ticks

ASSUME LifetimesAssumption ==
    /\ AccessLife \in Nat
    /\ RefreshLife \in Nat
    /\ Grace \in Nat
    /\ Grace < RefreshLife

ASSUME NoPairAssumption == NoPair \notin Pair

VARIABLES
    issued,     \* the pairs minted so far
    owner,      \* refresh_token.user_id of each row
    isActive,   \* refresh_token.is_active
    expires,    \* what is left until refresh_token.expires
    access,     \* what is left until the access token's exp claim
    userActive, \* user.is_active
    call,       \* the state of each call of the refresh endpoint
    rotated,    \* history: the refresh tokens redeemed at least once
    sinceRot,   \* history: ticks since the first redemption, capped at Grace
    refused     \* history: the refresh tokens answered with a 401

table == <<issued, owner, isActive, expires, access>>
history == <<rotated, sinceRot, refused>>
vars == <<issued, owner, isActive, expires, access, userActive, call,
          rotated, sinceRot, refused>>

(* Where a call is: not made, on its way, holding its row with all checks  *)
(* passed, or answered (a new pair, a 401, or no usable answer at all).    *)
(* seen is the expiry in the row the call loaded, which is what it later   *)
(* compares with the grace deadline.                                       *)
Idle == [st |-> "idle", tok |-> NoPair, new |-> NoPair, seen |-> 0]

CallState ==
    [st  : {"idle", "sent", "rotating", "granted", "rejected", "failed"},
     tok : Pair \cup {NoPair},
     new : Pair \cup {NoPair},
     seen : 0..RefreshLife]

TypeOK ==
    /\ issued \subseteq Pair
    /\ owner \in [Pair -> User]
    /\ isActive \in [Pair -> BOOLEAN]
    /\ expires \in [Pair -> 0..RefreshLife]
    /\ access \in [Pair -> 0..AccessLife]
    /\ userActive \in [User -> BOOLEAN]
    /\ call \in [Req -> CallState]
    /\ rotated \subseteq Pair
    /\ sinceRot \in [Pair -> 0..Grace]
    /\ refused \subseteq Pair

Init ==
    /\ issued = {}
    /\ owner \in [Pair -> User]     \* the owner a pair will be minted for
    /\ isActive = [p \in Pair |-> TRUE]
    /\ expires = [p \in Pair |-> 0]
    /\ access = [p \in Pair |-> 0]
    /\ userActive = [u \in User |-> TRUE]
    /\ call = [r \in Req |-> Idle]
    /\ rotated = {}
    /\ sinceRot = [p \in Pair |-> 0]
    /\ refused = {}

-----------------------------------------------------------------------------

(* _make_tokens and the INSERT of its row, for the user u.                 *)
MakeTokens(p, u) ==
    /\ p \notin issued
    /\ owner[p] = u
    /\ issued' = issued \cup {p}
    /\ access' = [access EXCEPT ![p] = AccessLife]

(* Mutant: the row is selected without FOR UPDATE.                         *)
NeverLocked(t) == FALSE

(* What SELECT ... FOR UPDATE waits for: another call holding the row.     *)
Locked(t) == \E r \in Req : call[r].st = "rotating" /\ call[r].tok = t

Answer(r, st, new) ==
    call' = [call EXCEPT ![r].st = st, ![r].new = new]

(* A login endpoint (password, GitHub or Google) mints a pair.             *)
Login(p, u) ==
    /\ userActive[u]
    /\ MakeTokens(p, u)
    /\ expires' = [expires EXCEPT ![p] = RefreshLife]
    /\ UNCHANGED <<owner, isActive, userActive, call, history>>

(* A client posts a refresh token it was given.                            *)
Present(r, t) ==
    /\ call[r].st = "idle"
    /\ t \in issued
    /\ call' = [call EXCEPT ![r] = [st |-> "sent", tok |-> t, new |-> NoPair, seen |-> 0]]
    /\ UNCHANGED <<table, userActive, history>>

(* The row is unknown, deactivated or expired: 401, nothing written.       *)
Refuse(r) ==
    LET t == call[r].tok IN
    /\ call[r].st = "sent"
    /\ ~Locked(t)
    /\ ~isActive[t] \/ expires[t] = 0
    /\ Answer(r, "rejected", NoPair)
    /\ refused' = refused \cup {t}
    /\ UNCHANGED <<table, userActive, rotated, sinceRot>>

(* Mutant: the inactive user's row is left as it is.                       *)
RefuseKeepsRow(r) ==
    LET t == call[r].tok IN
    /\ call[r].st = "sent"
    /\ ~Locked(t)
    /\ isActive[t] /\ expires[t] > 0
    /\ ~userActive[owner[t]]
    /\ Answer(r, "rejected", NoPair)
    /\ refused' = refused \cup {t}
    /\ UNCHANGED <<table, userActive, rotated, sinceRot>>

(* The row is good but its user is not: the row is deactivated, then 401.  *)
RefuseInactiveUser(r) ==
    LET t == call[r].tok IN
    /\ call[r].st = "sent"
    /\ ~Locked(t)
    /\ isActive[t] /\ expires[t] > 0
    /\ ~userActive[owner[t]]
    /\ isActive' = [isActive EXCEPT ![t] = FALSE]
    /\ Answer(r, "rejected", NoPair)
    /\ refused' = refused \cup {t}
    /\ UNCHANGED <<issued, owner, expires, access, userActive, rotated, sinceRot>>

(* Every check passes; from here the call holds the row until it commits.  *)
Validate(r) ==
    LET t == call[r].tok IN
    /\ call[r].st = "sent"
    /\ ~Locked(t)
    /\ isActive[t] /\ expires[t] > 0
    /\ userActive[owner[t]]
    /\ call' = [call EXCEPT ![r].st = "rotating", ![r].seen = expires[t]]
    /\ UNCHANGED <<table, userActive, history>>

(* The expiry the old row is left with: if the one the call loaded is past *)
(* the grace deadline the deadline is written, else nothing is.            *)
Shortened(e, seen) == IF seen > Grace THEN Grace ELSE e

(* The rotation commits: the old row is shortened and a new pair is minted *)
(* for the same user, in one transaction.                                  *)
Rotate(r, p) ==
    LET t == call[r].tok IN
    /\ call[r].st = "rotating"
    /\ MakeTokens(p, owner[t])
    /\ expires' = [expires EXCEPT ![t] = Shortened(@, call[r].seen),
                              ![p] = RefreshLife]
    /\ Answer(r, "granted", p)
    /\ rotated' = rotated \cup {t}
    /\ UNCHANGED <<owner, isActive, userActive, sinceRot, refused>>

(* The client gets no answer: the worker died or the database failed       *)
(* before the commit (the transaction is rolled back and the row is free), *)
(* or the connection broke after it.                                       *)
Fail(r) ==
    /\ call[r].st \in {"sent", "rotating", "granted", "rejected"}
    /\ Answer(r, "failed", NoPair)
    /\ UNCHANGED <<table, userActive, history>>

(* The client takes the answer.                                            *)
Receive(r) ==
    /\ call[r].st \in {"granted", "rejected", "failed"}
    /\ call' = [call EXCEPT ![r] = Idle]
    /\ UNCHANGED <<table, userActive, history>>

(* A superuser's PATCH /users/{user_id} sets is_active.                    *)
SetUserActive(u) ==
    /\ userActive' = [userActive EXCEPT ![u] = ~@]
    /\ UNCHANGED <<table, call, history>>

Less(n) == IF n = 0 THEN 0 ELSE n - 1

Tick ==
    /\ expires' = [p \in Pair |-> Less(expires[p])]
    /\ access' = [p \in Pair |-> Less(access[p])]
    /\ sinceRot' = [p \in Pair |-> IF p \in rotated /\ sinceRot[p] < Grace
                                   THEN sinceRot[p] + 1 ELSE sinceRot[p]]
    /\ call' = [r \in Req |-> [call[r] EXCEPT !.seen = Less(@)]]
    /\ UNCHANGED <<issued, owner, isActive, userActive, rotated, refused>>

Next ==
    \/ \E p \in Pair, u \in User : Login(p, u)
    \/ \E r \in Req, t \in Pair : Present(r, t)
    \/ \E r \in Req : Refuse(r)
    \/ \E r \in Req : RefuseInactiveUser(r)
    \/ \E r \in Req : Validate(r)
    \/ \E r \in Req, p \in Pair : Rotate(r, p)
    \/ \E r \in Req : Fail(r)
    \/ \E r \in Req : Receive(r)
    \/ \E u \in User : SetUserActive(u)
    \/ Tick

Spec == Init /\ [][Next]_vars

-----------------------------------------------------------------------------

(* "so it can't be kept alive forever by repeated use": counted from its   *)
(* FIRST redemption, a refresh token is never good for longer than the     *)
(* grace window, however often and however concurrently it is redeemed.    *)
GraceBound == \A p \in rotated : expires[p] + sinceRot[p] <= Grace

Grants(r) == call[r].st # "granted" /\ call'[r].st = "granted"

(* A refresh token that was answered with a 401 once is never honored      *)
(* again: not after its user is reactivated, and not by a call that was    *)
(* already under way when the 401 was sent.                                *)
RefusalIsFinal == [][\A r \in Req : Grants(r) => call[r].tok \notin refused]_vars
=============================================================================
