---------------------------- MODULE ProjectAccess ----------------------------
(***************************************************************************)
(* Who may do what with one project of a user's account: get_project in   *)
(* backend/app/projects.py and the collaborator and invitation handlers   *)
(* of backend/app/api/routes/projects/core.py, over the tables            *)
(* user_project_access and project_invitation.  GitHub is an external     *)
(* service asked between two steps of a handler.  The handlers that need  *)
(* admin access are called by the project's owner, who is not in User.    *)
(* (For a project of an org get_project looks at org memberships instead   *)
(* of the table.)                                                          *)
(***************************************************************************)
EXTENDS Naturals

CONSTANTS
    User,
    Linked,     \* the users with a GitHub token; the others are GitHub-less
    Invitation,
    Call,       \* concurrent handler calls
    NoUser,
    NoInv,
    IsPublic,
    MaxUses     \* bound on project_invitation.max_uses; use_count is
                \* counted up to one more

ASSUME AccessAssumption ==
    /\ Linked \subseteq User
    /\ IsPublic \in BOOLEAN
    /\ MaxUses \in Nat
    /\ NoUser \notin User
    /\ NoInv \notin Invitation

VARIABLES
    github,     \* external: each user's permission on the GitHub repo
    access,     \* user_project_access, "none" for NULL
    invitation, \* project_invitation
    call,       \* the handlers under way
    granted,    \* history: users granted a native level, not revoked since
    removed     \* history: users removed as GitHub collaborators

vars == <<github, access, invitation, call, granted, removed>>
history == <<granted, removed>>

Level == {"none", "read", "write", "admin", "owner"}
Rank == [none |-> 0, read |-> 1, write |-> 2, admin |-> 3, owner |-> 4]
Permission == {"none", "read", "write", "admin"}

NoRow == [exists |-> FALSE, role |-> "none", github |-> "none"]
Row == [exists : BOOLEAN, role : Level, github : Permission]

NoInvitation == [st |-> "none", role |-> "read", max |-> 0, uses |-> 0]
Idle == [op |-> "idle", user |-> NoUser, inv |-> NoInv, seen |-> NoRow, says |-> "unknown"]
Saying == Permission \cup {"unknown", "failed"}

TypeOK ==
    /\ github \in [User -> Permission]
    /\ access \in [User -> Row]
    /\ invitation \in [Invitation -> [st : {"none", "open", "expired", "revoked"},
                                      role : {"read", "write", "admin"},
                                      max : 0..MaxUses, uses : 0..(MaxUses + 1)]]
    /\ call \in [Call -> [op : {"idle", "redeem", "add", "resolve", "remove", "share"},
                          user : User \cup {NoUser}, inv : Invitation \cup {NoInv},
                          seen : Row, says : Saying]]
    /\ granted \subseteq User
    /\ removed \subseteq User

Init ==
    /\ github \in [User -> {"none", "write"}]
    /\ access = [u \in User |-> NoRow]
    /\ invitation = [i \in Invitation |-> NoInvitation]
    /\ call = [k \in Call |-> Idle]
    /\ granted = {}
    /\ removed = {}

-----------------------------------------------------------------------------

(* The level get_project works out for a signed-in user who is not the     *)
(* owner: the native role first, else GitHub's cached answer.              *)
Effective(u) ==
    LET level == IF access[u].role # "none" THEN access[u].role ELSE access[u].github
    IN  IF level = "none" /\ IsPublic THEN "read" ELSE level

Begin(k, op, u, i) ==
    /\ call[k] = Idle
    /\ call' = [call EXCEPT ![k] = [op |-> op, user |-> u, inv |-> i,
                                    seen |-> access[u], says |-> "unknown"]]

End(k) == call' = [call EXCEPT ![k] = Idle]

-----------------------------------------------------------------------------
(* Invitations.                                                            *)

(* post_project_invitation; "admin" stands for the legacy links the        *)
(* redemption handler guards against.  max = 0 is an unlimited link.       *)
CreateInvitation(i, role, max) ==
    /\ invitation[i].st = "none"
    /\ invitation' = [invitation EXCEPT
                        ![i] = [st |-> "open", role |-> role, max |-> max, uses |-> 0]]
    /\ UNCHANGED <<github, access, call, history>>

(* Mutant: the invitation row is selected without FOR UPDATE.              *)
NeverLocked(i) == FALSE

Locked(i) == \E k \in Call : call[k].op = "redeem" /\ call[k].inv = i

(* delete_project_invitation; its UPDATE waits for a redemption.           *)
RevokeInvitation(i) ==
    /\ invitation[i].st \in {"open", "expired"}
    /\ ~Locked(i)
    /\ invitation' = [invitation EXCEPT ![i].st = "revoked"]
    /\ UNCHANGED <<github, access, call, history>>

ExpireInvitation(i) ==
    /\ invitation[i].st = "open"
    /\ invitation' = [invitation EXCEPT ![i].st = "expired"]
    /\ UNCHANGED <<github, access, call, history>>

IsValid(i) ==
    /\ invitation[i].st = "open"
    /\ invitation[i].max = 0 \/ invitation[i].uses < invitation[i].max

(* post_project_invitation_redemption up to its reads: the invitation row  *)
(* is locked, the access row is not.                                       *)
Redeem(k, u, i) ==
    /\ ~Locked(i)
    /\ IsValid(i)
    /\ Begin(k, "redeem", u, i)
    /\ UNCHANGED <<github, access, invitation, history>>

(* Invite links never confer more than write.                              *)
CappedRole(role) == IF Rank[role] < Rank["write"] THEN role ELSE "write"

(* The write both ways of granting a native level end in.  seen is the row *)
(* the handler read: an INSERT fails when the row exists by now, an UPDATE *)
(* is made when the grant is more than what was read.                      *)
GrantPossible(u, seen) == seen.exists \/ ~access[u].exists

Upgrades(seen, level) == Rank[level] > Rank[seen.role]

Grant(u, seen, level) ==
    /\ GrantPossible(u, seen)
    /\ IF Upgrades(seen, level)
       THEN access' = [access EXCEPT ![u].exists = TRUE, ![u].role = level]
       ELSE UNCHANGED access
    /\ granted' = granted \cup {u}

RedeemCommit(k) ==
    LET c == call[k] IN
    /\ c.op = "redeem"
    /\ Grant(c.user, c.seen, CappedRole(invitation[c.inv].role))
    /\ invitation' = [invitation EXCEPT ![c.inv].uses = IF @ > MaxUses THEN @ ELSE @ + 1]
    /\ End(k)
    /\ UNCHANGED <<github, removed>>

(* The handler fails after its reads: a conflicting INSERT, a crash.       *)
CallFails(k) ==
    /\ call[k].op # "idle"
    /\ End(k)
    /\ UNCHANGED <<github, access, invitation, history>>

-----------------------------------------------------------------------------
(* Native collaborators.                                                   *)

(* post_project_collaborator_by_email: read, then grant write.             *)
AddByEmail(k, u) ==
    /\ Begin(k, "add", u, NoInv)
    /\ UNCHANGED <<github, access, invitation, history>>

AddCommit(k) ==
    /\ call[k].op = "add"
    /\ Grant(call[k].user, call[k].seen, "write")
    /\ End(k)
    /\ UNCHANGED <<github, invitation, removed>>

(* delete_project_native_collaborator.                                     *)
RevokeNative(u) ==
    /\ access[u].role # "none"
    /\ access' = [access EXCEPT ![u].role = "none"]
    /\ granted' = granted \ {u}
    /\ UNCHANGED <<github, invitation, call, removed>>

-----------------------------------------------------------------------------
(* GitHub collaborators.                                                   *)

(* _resolve_github_collaborator_access on a cache miss: SELECT ... FOR     *)
(* UPDATE finds no row and so locks nothing.                               *)
Resolve(k, u) ==
    /\ u \in Linked
    /\ ~access[u].exists
    /\ Begin(k, "resolve", u, NoInv)
    /\ UNCHANGED <<github, access, invitation, history>>

(* GitHub answers the permission, or with any status but 200.              *)
GitHubSays(k) ==
    LET u == call[k].user IN
    /\ call[k].op = "resolve" /\ call[k].says = "unknown"
    /\ \E answer \in {github[u], "failed"} :
          call' = [call EXCEPT ![k].says = answer]
    /\ UNCHANGED <<github, access, invitation, history>>

(* Mutant: the answer is merged into the row whatever is there by then.    *)
ResolveMerges(k) ==
    LET c == call[k] IN
    /\ c.op = "resolve" /\ c.says # "unknown"
    /\ access' = [access EXCEPT
         ![c.user] = [exists |-> TRUE, role |-> c.seen.role,
                      github |-> IF c.says = "failed" THEN "none" ELSE c.says]]
    /\ End(k)
    /\ UNCHANGED <<github, invitation, history>>

(* The answer is cached by an INSERT; a failed lookup is cached as NULL.   *)
ResolveCommit(k) ==
    LET c == call[k] IN
    /\ c.op = "resolve" /\ c.says # "unknown"
    /\ ~access[c.user].exists
    /\ access' = [access EXCEPT
         ![c.user] = [exists |-> TRUE, role |-> "none",
                      github |-> IF c.says = "failed" THEN "none" ELSE c.says]]
    /\ End(k)
    /\ UNCHANGED <<github, invitation, history>>

(* put_project_collaborator: GitHub first, then the cached permission.     *)
ShareOnGitHub(k, u) ==
    /\ u \in Linked
    /\ Begin(k, "share", u, NoInv)
    /\ github' = [github EXCEPT ![u] = IF @ = "admin" THEN @ ELSE "write"]
    /\ removed' = removed \ {u}
    /\ UNCHANGED <<access, invitation, granted>>

ShareCommit(k) ==
    LET u == call[k].user IN
    /\ call[k].op = "share"
    /\ access' = [access EXCEPT ![u].exists = TRUE, ![u].github = "write"]
    /\ removed' = removed \ {u}
    /\ End(k)
    /\ UNCHANGED <<github, invitation, granted>>

(* delete_project_collaborator: GitHub first, then the cached permission.  *)
RemoveOnGitHub(k, u) ==
    /\ u \in Linked
    /\ Begin(k, "remove", u, NoInv)
    /\ github' = [github EXCEPT ![u] = "none"]
    /\ UNCHANGED <<access, invitation, granted, removed>>

(* Mutant: a missing row is left missing.                                  *)
RemoveCommitKeepsMissing(k) ==
    LET u == call[k].user IN
    /\ call[k].op = "remove"
    /\ access' = [access EXCEPT ![u].github = "none"]
    /\ removed' = removed \cup {u}
    /\ End(k)
    /\ UNCHANGED <<github, invitation, granted>>

RemoveCommit(k) ==
    LET u == call[k].user IN
    /\ call[k].op = "remove"
    /\ access' = [access EXCEPT ![u].exists = TRUE, ![u].github = "none"]
    /\ removed' = removed \cup {u}
    /\ End(k)
    /\ UNCHANGED <<github, invitation, granted>>

(* A maintainer changes the permission on GitHub itself.                   *)
GitHubChanges(u, p) ==
    /\ github[u] # p
    /\ github' = [github EXCEPT ![u] = p]
    /\ UNCHANGED <<access, invitation, call, history>>

Next ==
    \/ \E i \in Invitation, role \in {"read", "write", "admin"}, max \in 0..MaxUses :
          CreateInvitation(i, role, max)
    \/ \E i \in Invitation : RevokeInvitation(i) \/ ExpireInvitation(i)
    \/ \E k \in Call, u \in User, i \in Invitation : Redeem(k, u, i)
    \/ \E k \in Call, u \in User : \/ AddByEmail(k, u) \/ Resolve(k, u)
                                   \/ ShareOnGitHub(k, u) \/ RemoveOnGitHub(k, u)
    \/ \E k \in Call : \/ RedeemCommit(k) \/ AddCommit(k) \/ GitHubSays(k)
                       \/ ResolveCommit(k) \/ ShareCommit(k) \/ RemoveCommit(k)
                       \/ CallFails(k)
    \/ \E u \in User : RevokeNative(u)
    \/ \E u \in User, p \in {"none", "admin"} : GitHubChanges(u, p)

Spec == Init /\ [][Next]_vars

-----------------------------------------------------------------------------

(* An invite link is redeemed at most max_uses times, by however many      *)
(* people at once ("without this, two redeems can both read the same       *)
(* use_count, both pass is_valid, and both increment past max_uses").      *)
UsesBounded ==
    \A i \in Invitation : invitation[i].max > 0 => invitation[i].uses <= invitation[i].max

(* Revoking a link stops it: no redemption commits afterwards.             *)
RevocationHolds ==
    [][\A i \in Invitation :
         invitation[i].st = "revoked" => invitation'[i].uses = invitation[i].uses]_vars

(* "Invite links never confer more than collaborator (write) access": no   *)
(* sequence of grants makes a native collaborator an admin.                *)
NativeAtMostWrite == \A u \in User : Rank[access[u].role] <= Rank["write"]

(* A native grant is lost only by revoking it: an answer of GitHub that    *)
(* comes late never overwrites the row of a member who joined meanwhile.   *)
GrantLostOnlyByRevoking ==
    [][\A u \in User : access[u].role # "none" /\ access'[u].role = "none"
         => u \notin granted']_vars

(* A collaborator removed through Calkit and without a native grant gets   *)
(* no more than the public does, though a request that asked GitHub before *)
(* the removal is answered after it.                                       *)
RemovalSticks ==
    \A u \in removed \ granted : Effective(u) = IF IsPublic THEN "read" ELSE "none"
=============================================================================
