------------------------------ MODULE Credentials ------------------------------
(***************************************************************************)
(* One user's OAuth credential for one external provider                  *)
(* (backend/app/users.py: get_github_token, get_zenodo_token and          *)
(* get_google_token, and the handlers that save and delete it).  The      *)
(* provider is external; GitHub and Zenodo rotate refresh tokens, so one   *)
(* that was redeemed is dead, and the handlers for them hold the row FOR   *)
(* UPDATE while they ask.  Google's are not rotated and not locked.        *)
(***************************************************************************)
EXTENDS Naturals

CONSTANTS
    Token,          \* refresh tokens the provider may issue
    Call,           \* concurrent requests
    NoTok,
    LegacyTok,      \* the token a user of the legacy table has in it at first, or NoTok
    Locking,        \* whether the credential is selected FOR UPDATE
    LegacyLocking,  \* whether the legacy row is (GitHub's is, Zenodo's is not)
    Rotates,        \* whether the provider rotates refresh tokens
    CanDisconnect,  \* whether the user may disconnect the provider
    MaxRow          \* bound on the rows inserted

ASSUME CredentialsAssumption ==
    /\ NoTok \notin Token
    /\ LegacyTok \in Token \cup {NoTok}
    /\ Locking \in BOOLEAN /\ LegacyLocking \in BOOLEAN
    /\ Rotates \in BOOLEAN /\ CanDisconnect \in BOOLEAN
    /\ MaxRow \in Nat

VARIABLES
    cred,     \* the user_external_credential row; id 0 is no row
    lastRow,  \* the last id given to a row
    legacy,   \* the token of the legacy table
    call,     \* the requests under way
    issued,   \* external: tokens the provider issued
    good,     \* external: refresh tokens it still honors
    excused   \* history: tokens the user revoked, redeemed by a call that
              \* failed before it saved the answer, or of the legacy table

vars == <<cred, lastRow, legacy, call, issued, good, excused>>

NoRow == [id |-> 0, tok |-> NoTok, due |-> FALSE]

(* auth: the call came from the provider's consent page; row: the row it   *)
(* loaded; holds: whether it holds that row FOR UPDATE.                    *)
Idle == [st |-> "idle", auth |-> FALSE, row |-> 0, holds |-> FALSE,
         tok |-> NoTok, new |-> NoTok]

TypeOK ==
    /\ cred \in [id : 0..MaxRow, tok : Token \cup {NoTok}, due : BOOLEAN]
    /\ cred.id # 0 => cred.tok \in Token
    /\ lastRow \in 0..MaxRow
    /\ legacy \in Token \cup {NoTok}
    /\ call \in [Call -> [st : {"idle", "missing", "migrating", "refreshing",
                                "granted", "denied"},
                          auth : BOOLEAN, row : 0..MaxRow, holds : BOOLEAN,
                          tok : Token \cup {NoTok}, new : Token \cup {NoTok}]]
    /\ issued \subseteq Token
    /\ good \subseteq issued
    /\ excused \subseteq Token

Init ==
    /\ cred = NoRow
    /\ lastRow = 0
    /\ legacy \in {LegacyTok, NoTok}
    /\ call = [k \in Call |-> Idle]
    /\ issued = {legacy} \ {NoTok}
    /\ good = issued
    /\ excused = issued

-----------------------------------------------------------------------------

(* Mutant: the credential is selected without FOR UPDATE.                  *)
NeverLocked(k) == FALSE

(* What a statement of k on the row waits for.                             *)
Locked(k) == \E j \in Call \ {k} : call[j].holds /\ call[j].row = cred.id

LegacyLocked == LegacyLocking /\ \E j \in Call : call[j].st = "migrating"

End(k) == call' = [call EXCEPT ![k] = Idle]

(* The stored access token is about to expire.                             *)
FallsDue ==
    /\ cred.id # 0 /\ ~cred.due
    /\ cred' = [cred EXCEPT !.due = TRUE]
    /\ UNCHANGED <<lastRow, legacy, call, issued, good, excused>>

(* The credential is loaded and needs a refresh (one that does not is      *)
(* returned, and changes nothing).                                         *)
Load(k) ==
    /\ call[k] = Idle
    /\ cred.id # 0 /\ cred.due
    /\ ~Locked(k)
    /\ call' = [call EXCEPT ![k] = [Idle EXCEPT !.st = "refreshing", !.row = cred.id,
                                         !.holds = Locking, !.tok = cred.tok]]
    /\ UNCHANGED <<cred, lastRow, legacy, issued, good, excused>>

(* There is no row: FOR UPDATE locks nothing ...                           *)
LoadNothing(k) ==
    /\ call[k] = Idle
    /\ cred.id = 0 /\ legacy # NoTok
    /\ call' = [call EXCEPT ![k].st = "missing"]
    /\ UNCHANGED <<cred, lastRow, legacy, issued, good, excused>>

(* ... and the legacy row is loaded; GitHub's handler locks that one.      *)
LoadLegacy(k) ==
    /\ call[k].st = "missing"
    /\ ~LegacyLocked
    /\ IF legacy # NoTok THEN call' = [call EXCEPT ![k].st = "migrating", ![k].tok = legacy]
                         ELSE End(k)
    /\ UNCHANGED <<cred, lastRow, legacy, issued, good, excused>>

(* Mutant: the UPDATE sets the access token and its expiry alone.          *)
KeepsRefreshToken(k, tok, due) ==
    /\ ~Locked(k)
    /\ IF cred.id # 0 THEN lastRow' = lastRow
       ELSE lastRow < MaxRow /\ lastRow' = lastRow + 1
    /\ cred' = IF cred.id # 0 THEN [cred EXCEPT !.due = due]
               ELSE [id |-> lastRow', tok |-> tok, due |-> due]

(* save_external_credential: UPDATE the row there is, or INSERT one.       *)
SaveExternalCredential(k, tok, due) ==
    /\ ~Locked(k)
    /\ IF cred.id # 0 THEN lastRow' = lastRow
       ELSE lastRow < MaxRow /\ lastRow' = lastRow + 1
    /\ cred' = [id |-> IF cred.id # 0 THEN cred.id ELSE lastRow', tok |-> tok, due |-> due]

(* The legacy token, overdue by now or not, is copied and stays in its     *)
(* table.  The commit ends the locks; a refresh goes on without one.       *)
Migrate(k, due) ==
    /\ call[k].st = "migrating"
    /\ SaveExternalCredential(k, call[k].tok, due)
    /\ IF due THEN call' = [call EXCEPT ![k].st = "refreshing", ![k].row = cred'.id]
              ELSE End(k)
    /\ UNCHANGED <<legacy, issued, good, excused>>

(* Mutant: whatever error the provider reports counts as a bad token.      *)
DenyOnAnyError(k) ==
    /\ call[k].st = "refreshing"
    /\ call' = [call EXCEPT ![k].st = "denied"]
    /\ UNCHANGED <<cred, lastRow, legacy, issued, good, excused>>

(* The provider is asked for a new access token.                           *)
Grant(k, n) ==
    LET t == call[k].tok IN
    /\ call[k].st = "refreshing"
    /\ t \in good
    /\ IF Rotates THEN /\ n \notin issued
                       /\ good' = (good \ {t}) \cup {n}
                  ELSE n = t /\ good' = good
    /\ issued' = issued \cup {n}
    /\ call' = [call EXCEPT ![k].st = "granted", ![k].new = n]
    /\ UNCHANGED <<cred, lastRow, legacy, excused>>

(* "bad_refresh_token" or "invalid_grant".                                 *)
Deny(k) ==
    /\ call[k].st = "refreshing"
    /\ call[k].tok \notin good
    /\ call' = [call EXCEPT ![k].st = "denied"]
    /\ UNCHANGED <<cred, lastRow, legacy, issued, good, excused>>

Save(k) ==
    /\ call[k].st = "granted"
    /\ SaveExternalCredential(k, call[k].new, FALSE)
    /\ End(k)
    /\ UNCHANGED <<legacy, issued, good, excused>>

(* session.delete(credential): the row the call loaded, by its id.         *)
Delete(k) ==
    /\ call[k].st = "denied"
    /\ ~Locked(k)
    /\ cred' = IF cred.id = call[k].row THEN NoRow ELSE cred
    /\ End(k)
    /\ UNCHANGED <<lastRow, legacy, issued, good, excused>>

(* The provider is unreachable or reports another error, an INSERT         *)
(* conflicts, an UPDATE finds its row deleted, or the worker dies: nothing *)
(* is saved.  A token it was granted is lost.                              *)
CallFails(k) ==
    /\ call[k] # Idle
    /\ End(k)
    /\ excused' = IF call[k].st = "granted" THEN excused \cup ({call[k].tok} \ {NoTok})
                  ELSE excused
    /\ UNCHANGED <<cred, lastRow, legacy, issued, good>>

-----------------------------------------------------------------------------

(* The user comes back from the provider's consent page with a new grant   *)
(* (login_with_github, post_user_zenodo_auth, post_user_google_auth).      *)
Authorize(k, n) ==
    /\ call[k] = Idle
    /\ n \notin issued
    /\ issued' = issued \cup {n}
    /\ good' = good \cup {n}
    /\ call' = [call EXCEPT ![k] = [Idle EXCEPT !.st = "granted", !.auth = TRUE, !.new = n]]
    /\ UNCHANGED <<cred, lastRow, legacy, excused>>

(* The user revokes the app at the provider.                               *)
RevokeAtProvider ==
    /\ good # {}
    /\ good' = {}
    /\ excused' = excused \cup good
    /\ UNCHANGED <<cred, lastRow, legacy, call, issued>>

(* delete_user_external_credential; its DELETEs wait for locked rows.      *)
Disconnect ==
    /\ CanDisconnect
    /\ cred.id # 0 \/ legacy # NoTok
    /\ legacy # NoTok => ~LegacyLocked
    /\ ~\E j \in Call : call[j].holds /\ call[j].row = cred.id
    /\ cred' = NoRow
    /\ legacy' = NoTok
    /\ UNCHANGED <<lastRow, call, issued, good, excused>>

Next ==
    \/ FallsDue \/ RevokeAtProvider \/ Disconnect
    \/ \E k \in Call : \/ Load(k) \/ LoadNothing(k) \/ LoadLegacy(k) \/ Deny(k)
                       \/ Save(k) \/ Delete(k) \/ CallFails(k)
    \/ \E k \in Call, due \in BOOLEAN : Migrate(k, due)
    \/ \E k \in Call, n \in Token : Grant(k, n) \/ Authorize(k, n)

Spec == Init /\ [][Next]_vars

-----------------------------------------------------------------------------

(* Concurrent refreshes do not spend the stored token behind each other's  *)
(* back: it is dead only if the user revoked it, an answer was lost, the   *)
(* call that redeemed it is about to replace it, or it is the one of the   *)
(* legacy table, which is never emptied and may be copied again by a call  *)
(* that overlaps the one that redeemed it.                                 *)
StoredTokenAlive ==
    cred.id # 0 /\ cred.tok \notin good =>
        \/ cred.tok \in excused
        \/ \E k \in Call : call[k].st = "granted" /\ call[k].tok = cred.tok

(* users.py: "Delete credential if refresh token is invalid": a refused    *)
(* refresh that holds the row deletes no credential that works, whatever   *)
(* migrations and new consents overlap it.  (After a migration a refresh   *)
(* holds no row, and may delete the credential a consent stored meanwhile.) *)
DeleteOnlyInvalid ==
    [][\A k \in Call : /\ call[k].st = "denied" /\ call[k].holds
                       /\ call'[k] = Idle /\ cred.id # 0 /\ cred'.id = 0
         => cred.tok \notin good]_vars

(* routes/users.py: "Disconnect an external account by deleting its        *)
(* credential": no refresh that holds the row brings it back.              *)
RefreshNeverReconnects ==
    [][\A k \in Call : call[k].st = "granted" /\ call[k].holds /\ cred.id = 0
         => cred'.id = 0 \/ call'[k] = call[k]]_vars
=============================================================================
