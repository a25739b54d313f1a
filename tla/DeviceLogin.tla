----------------------------- MODULE DeviceLogin -----------------------------
(***************************************************************************)
(* The device authorization flow by which the CLI logs in                 *)
(* (backend/app/api/routes/login.py, POST /login/device, .../authorize    *)
(* and .../token).  A CLI opens a request and polls for its token; a user *)
(* authorizes the request in a browser.  Every handler runs in a thread   *)
(* of its own: authorize reads the row and writes it later, without a     *)
(* lock; token holds the row FOR UPDATE until it commits.                  *)
(***************************************************************************)
EXTENDS Naturals

CONSTANTS
    Code,      \* device codes; each is one CLI's login attempt
    User,
    NoUser,
    NoCode,
    Approval,  \* concurrent calls of the authorize endpoint
    Poll,      \* concurrent calls of the token endpoint
    CodeLife   \* CLI_AUTH_EXPIRES_MINUTES, in ticks

ASSUME DeviceAssumption ==
    /\ CodeLife \in Nat \ {0}
    /\ NoUser \notin User
    /\ NoCode \notin Code

VARIABLES
    row,       \* the device_auth table
    approval,  \* the calls of authorize
    poll,      \* the calls of token
    cli,       \* what each CLI knows of its login
    mints      \* history: token pairs minted for each code

vars == <<row, approval, poll, cli, mints>>

NoApproval == [code |-> NoCode, user |-> NoUser]
NoPoll == [st |-> "idle", code |-> NoCode, user |-> NoUser]

TypeOK ==
    /\ row \in [Code -> [st : {"none", "present", "deleted"},
                         user : User \cup {NoUser}, left : 0..CodeLife]]
    /\ approval \in [Approval -> [code : Code \cup {NoCode}, user : User \cup {NoUser}]]
    /\ poll \in [Poll -> [st : {"idle", "sent", "minting", "token", "pending",
                                "gone", "expired", "failed"},
                          code : Code \cup {NoCode}, user : User \cup {NoUser}]]
    /\ cli \in [Code -> {"idle", "polling", "token", "gone", "expired"}]
    /\ mints \in [Code -> Nat]

Init ==
    /\ row = [c \in Code |-> [st |-> "none", user |-> NoUser, left |-> 0]]
    /\ approval = [a \in Approval |-> NoApproval]
    /\ poll = [k \in Poll |-> NoPoll]
    /\ cli = [c \in Code |-> "idle"]
    /\ mints = [c \in Code |-> 0]

-----------------------------------------------------------------------------

Present(c) == row[c].st = "present"
Expired(c) == row[c].left = 0

(* Mutant: the token endpoint selects its row without FOR UPDATE.          *)
NeverLocked(c) == FALSE

Locked(c) == \E k \in Poll : poll[k].st = "minting" /\ poll[k].code = c

(* post_login_device: one bulk DELETE of the expired rows, which waits for *)
(* a locked one, then the new request.                                     *)
StartLogin(c) ==
    /\ row[c].st = "none"
    /\ \A d \in Code : Present(d) /\ Expired(d) => ~Locked(d)
    /\ row' = [d \in Code |->
                 IF d = c THEN [st |-> "present", user |-> NoUser, left |-> CodeLife]
                 ELSE IF Present(d) /\ Expired(d) THEN [row[d] EXCEPT !.st = "deleted"]
                 ELSE row[d]]
    /\ cli' = [cli EXCEPT ![c] = "polling"]
    /\ UNCHANGED <<approval, poll, mints>>

(* post_login_device_authorize up to its checks.                           *)
AuthorizeRead(a, u, c) ==
    /\ approval[a] = NoApproval
    /\ Present(c) /\ ~Expired(c)
    /\ row[c].user = NoUser
    /\ approval' = [approval EXCEPT ![a] = [code |-> c, user |-> u]]
    /\ UNCHANGED <<row, poll, cli, mints>>

(* Its UPDATE by primary key waits for a poll that holds the row, and      *)
(* fails when it matches no row any more.                                  *)
AuthorizeCommit(a) ==
    LET c == approval[a].code
        u == approval[a].user IN
    /\ c # NoCode
    /\ Present(c) /\ ~Locked(c)
    /\ row' = [row EXCEPT ![c].user = u]
    /\ approval' = [approval EXCEPT ![a] = NoApproval]
    /\ UNCHANGED <<poll, cli, mints>>

AuthorizeFail(a) ==
    /\ approval[a] # NoApproval
    /\ ~Present(approval[a].code)
    /\ approval' = [approval EXCEPT ![a] = NoApproval]
    /\ UNCHANGED <<row, poll, cli, mints>>

-----------------------------------------------------------------------------

SendPoll(k, c) ==
    /\ cli[c] = "polling"
    /\ poll[k].st = "idle"
    /\ poll' = [poll EXCEPT ![k] = [st |-> "sent", code |-> c, user |-> NoUser]]
    /\ UNCHANGED <<row, approval, cli, mints>>

Answer(k, st) == poll' = [poll EXCEPT ![k].st = st]

(* Mutant: an expired request is still reported as pending.                *)
PollNeverExpires(k) ==
    LET c == poll[k].code IN
    /\ poll[k].st = "sent"
    /\ ~Locked(c)
    /\ \/ ~Present(c) /\ Answer(k, "gone")
       \/ Present(c) /\ row[c].user = NoUser /\ Answer(k, "pending")
    /\ UNCHANGED <<row, approval, cli, mints>>

(* post_login_device_token without a pair to give: the code is unknown,    *)
(* expired, or waiting for a user.                                         *)
PollUnready(k) ==
    LET c == poll[k].code IN
    /\ poll[k].st = "sent"
    /\ ~Locked(c)
    /\ \/ ~Present(c) /\ Answer(k, "gone")
       \/ Present(c) /\ Expired(c) /\ Answer(k, "expired")
       \/ Present(c) /\ ~Expired(c) /\ row[c].user = NoUser /\ Answer(k, "pending")
    /\ UNCHANGED <<row, approval, cli, mints>>

PollReady(k) ==
    LET c == poll[k].code IN
    /\ poll[k].st = "sent"
    /\ ~Locked(c)
    /\ Present(c) /\ ~Expired(c) /\ row[c].user # NoUser
    /\ poll' = [poll EXCEPT ![k].st = "minting", ![k].user = row[c].user]
    /\ UNCHANGED <<row, approval, cli, mints>>

(* Mutant: the request is left in the table after its pair is minted.      *)
PollMintKeepsRow(k) ==
    LET c == poll[k].code IN
    /\ poll[k].st = "minting"
    /\ mints' = [mints EXCEPT ![c] = @ + 1]
    /\ Answer(k, "token")
    /\ UNCHANGED <<row, approval, cli>>

(* The pair is inserted and the request deleted in one commit.             *)
PollMint(k) ==
    LET c == poll[k].code IN
    /\ poll[k].st = "minting"
    /\ mints' = [mints EXCEPT ![c] = @ + 1]
    /\ row' = [row EXCEPT ![c].st = "deleted"]
    /\ Answer(k, "token")
    /\ UNCHANGED <<approval, cli>>

(* The worker dies and its transaction is rolled back, or the answer is    *)
(* lost on its way.                                                        *)
PollFail(k) ==
    /\ poll[k].st \notin {"idle", "failed"}
    /\ Answer(k, "failed")
    /\ UNCHANGED <<row, approval, cli, mints>>

(* The CLI takes the answer and goes on polling unless it is final.        *)
CliReceive(k) ==
    LET c == poll[k].code IN
    /\ poll[k].st \in {"token", "pending", "gone", "expired", "failed"}
    /\ cli' = [cli EXCEPT ![c] = IF @ = "polling" /\ poll[k].st \in {"token", "gone", "expired"}
                                 THEN poll[k].st ELSE @]
    /\ poll' = [poll EXCEPT ![k] = NoPoll]
    /\ UNCHANGED <<row, approval, mints>>

Tick ==
    /\ \E c \in Code : row[c].left > 0
    /\ row' = [c \in Code |-> [row[c] EXCEPT !.left = IF @ = 0 THEN 0 ELSE @ - 1]]
    /\ UNCHANGED <<approval, poll, cli, mints>>

Next ==
    \/ \E c \in Code : StartLogin(c)
    \/ \E a \in Approval, u \in User, c \in Code : AuthorizeRead(a, u, c)
    \/ \E a \in Approval : AuthorizeCommit(a) \/ AuthorizeFail(a)
    \/ \E k \in Poll, c \in Code : SendPoll(k, c)
    \/ \E k \in Poll : \/ PollUnready(k) \/ PollReady(k) \/ PollMint(k)
                       \/ PollFail(k) \/ CliReceive(k)
    \/ Tick

Spec == Init /\ [][Next]_vars

(* Time passes, the CLI polls again, the server finishes what it began and *)
(* the network does not lose every answer.                                 *)
Fairness ==
    /\ WF_vars(Tick)
    /\ \A k \in Poll : /\ WF_vars(PollMint(k) \/ CliReceive(k))
                       /\ SF_vars(PollUnready(k) \/ PollReady(k))
                       /\ SF_vars(poll[k].st # "failed" /\ CliReceive(k))
    /\ \A c \in Code : SF_vars(\E k \in Poll : SendPoll(k, c))

FairSpec == Spec /\ Fairness

-----------------------------------------------------------------------------

(* A code is worth one token pair, whatever polls of an impatient CLI      *)
(* overlap and whichever of them fail.                                     *)
OnePairPerCode == \A c \in Code : mints[c] <= 1

(* Nobody is told that a code is authorized once its pair has been minted: *)
(* an authorize call that read the row before the last poll fails.         *)
SpentCodeNotAuthorized ==
    [][\A a \in Approval : AuthorizeCommit(a) => mints[approval[a].code] = 0]_vars

(* A CLI that keeps polling does not poll for good: its code is redeemed   *)
(* or lapses.                                                              *)
PollingEnds == \A c \in Code : cli[c] = "polling" ~> cli[c] # "polling"
=============================================================================
