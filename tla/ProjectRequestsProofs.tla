-------------------------- MODULE ProjectRequestsProofs ------------------------
(***************************************************************************)
(* Proofs about both groups of requests, for any number of users, links,   *)
(* files, calls and puts: an invite link is used at most as often as it    *)
(* allows and no grant goes beyond write; a put that is answered was       *)
(* pushed, a locked file rests, and no push brings back an old text.       *)
(***************************************************************************)
EXTENDS ProjectRequests, TLAPS

(* The lock on an invitation row: one redemption of a link at a time ...   *)
Exclusive ==
    \A j, k \in Call :
        call[j].op = "redeem" /\ call[k].op = "redeem" /\ call[j].inv = call[k].inv => j = k

(* ... of a link that exists and has a use left until it commits.          *)
UseLeft ==
    \A k \in Call : call[k].op = "redeem" =>
        /\ call[k].user \in User
        /\ call[k].inv \in Invitation
        /\ invitation[call[k].inv].st # "none"
        /\ \/ invitation[call[k].inv].max = 0
           \/ invitation[call[k].inv].uses < invitation[call[k].inv].max

(* The other calls are about a user, too.                                  *)
CallsAboutUsers == \A k \in Call : call[k].op # "idle" => call[k].user \in User

IInv == /\ TypeOK /\ Exclusive /\ UseLeft /\ CallsAboutUsers
        /\ UsesBounded /\ NativeAtMostWrite

CallType == [op : {"idle", "redeem", "add", "resolve", "remove", "share"},
             user : User \cup {NoUser}, inv : Invitation \cup {NoInv},
             seen : Row, says : Saying]
InvitationType == [st : {"none", "open", "expired", "revoked"},
                   role : {"read", "write", "admin"},
                   max : 0..MaxUses, uses : 0..(MaxUses + 1)]

-----------------------------------------------------------------------------

(* The initial states satisfy the invariant.                               *)
LEMMA InvInit == Init => IInv
<1> SUFFICES ASSUME Init PROVE IInv
  OBVIOUS
<1> USE AccessAssumption DEF Init
<1>1. github \in [User -> Permission]
  BY DEF Level, Permission
<1>2. access \in [User -> Row]
  BY DEF NoRow, Row, Level, Permission
<1>3. invitation \in [Invitation -> InvitationType]
  BY DEF NoInvitation, InvitationType
<1>4. call \in [Call -> CallType]
  BY DEF Idle, CallType, NoRow, Row, Level, Permission, Saying
<1>5. granted \subseteq User /\ removed \subseteq User
  OBVIOUS
<1>6. TypeOK
  BY <1>1, <1>2, <1>3, <1>4, <1>5 DEF TypeOK, CallType, InvitationType
<1>7. Exclusive /\ UseLeft /\ CallsAboutUsers
  BY DEF Exclusive, UseLeft, CallsAboutUsers, Idle
<1>8. UsesBounded /\ NativeAtMostWrite
  BY DEF UsesBounded, NativeAtMostWrite, NoInvitation, NoRow, Rank
<1> QED
  BY <1>6, <1>7, <1>8 DEF IInv

(* A call that starts with a given operation.                              *)
LEMMA BeginCall ==
  ASSUME TypeOK, NEW k \in Call, NEW u \in User,
         NEW i \in Invitation \cup {NoInv},
         NEW op \in {"redeem", "add", "resolve", "remove", "share"},
         Begin(k, op, u, i)
  PROVE  /\ call' \in [Call -> CallType]
         /\ call'[k].op = op /\ call'[k].user = u /\ call'[k].inv = i
         /\ \A j \in Call \ {k} : call'[j] = call[j]
<1> DEFINE new == [op |-> op, user |-> u, inv |-> i, seen |-> access[u], says |-> "unknown"]
<1>1. new \in CallType
  BY DEF TypeOK, CallType, Saying
<1>2. call \in [Call -> CallType]
  BY DEF TypeOK, CallType
<1>3. call' = [call EXCEPT ![k] = new]
  BY DEF Begin
<1>4. new.op = op /\ new.user = u /\ new.inv = i
  OBVIOUS
<1> HIDE DEF new
<1> QED
  BY <1>1, <1>2, <1>3, <1>4

(* A call that ends.                                                       *)
LEMMA EndCall ==
  ASSUME TypeOK, NEW k \in Call, End(k)
  PROVE  /\ call' \in [Call -> CallType]
         /\ call'[k].op = "idle"
         /\ \A j \in Call \ {k} : call'[j] = call[j]
<1>1. Idle \in CallType /\ Idle.op = "idle"
  BY AccessAssumption DEF Idle, CallType, NoRow, Row, Level, Permission, Saying
<1>2. call \in [Call -> CallType]
  BY DEF TypeOK, CallType
<1> QED
  BY <1>1, <1>2 DEF End

(* Calls that start without redeeming or that end keep the facts about     *)
(* redemptions, as long as no invitation changes.                          *)
LEMMA CallsKept ==
  ASSUME IInv, NEW k \in Call,
         \A j \in Call \ {k} : call'[j] = call[j],
         call'[k].op # "redeem",
         call'[k].op = "idle" \/ call'[k].user \in User,
         UNCHANGED invitation
  PROVE  Exclusive' /\ UseLeft' /\ CallsAboutUsers' /\ UsesBounded'
<1> USE DEF IInv
<1>1. Exclusive'
  BY DEF Exclusive
<1>2. UseLeft'
  BY DEF UseLeft
<1>3. CallsAboutUsers'
  BY DEF CallsAboutUsers
<1>4. UsesBounded'
  BY DEF UsesBounded
<1> QED
  BY <1>1, <1>2, <1>3, <1>4

(* What a grant of at most write leaves in a row.                          *)
LEMMA GrantBounded ==
  ASSUME TypeOK, NativeAtMostWrite, NEW u \in User, NEW seen \in Row,
         NEW level \in {"read", "write"}, Grant(u, seen, level)
  PROVE  /\ access' \in [User -> Row]
         /\ NativeAtMostWrite'
         /\ granted' \subseteq User
<1> DEFINE new == [access[u] EXCEPT !.exists = TRUE, !.role = level]
<1>1. access[u] \in Row
  BY DEF TypeOK
<1>2. new \in Row /\ new.role = level
  BY <1>1 DEF Row, Level
<1>3. access' = [access EXCEPT ![u] = new] \/ access' = access
  BY DEF Grant
<1>4. Rank[level] <= Rank["write"]
  BY DEF Rank
<1>5. granted' \subseteq User
  BY DEF Grant, TypeOK
<1> HIDE DEF new
<1>6. access' \in [User -> Row]
  BY <1>2, <1>3 DEF TypeOK
<1>7. \A v \in User : access'[v].role = level \/ access'[v].role = access[v].role
  BY <1>2, <1>3 DEF TypeOK
<1>8. NativeAtMostWrite'
  BY <1>4, <1>7 DEF NativeAtMostWrite
<1> QED
  BY <1>5, <1>6, <1>8

-----------------------------------------------------------------------------

(* Changing one field of one invitation.                                   *)
LEMMA InvitationSteps ==
  ASSUME IInv, NEW i \in Invitation
  PROVE  /\ \A role \in {"read", "write", "admin"}, max \in 0..MaxUses :
               CreateInvitation(i, role, max) => IInv'
         /\ RevokeInvitation(i) => IInv'
         /\ ExpireInvitation(i) => IInv'
<1> USE AccessAssumption DEF IInv
<1> DEFINE Others == \A j \in Invitation \ {i} : invitation'[j] = invitation[j]
<1>t. invitation \in [Invitation -> InvitationType]
  BY DEF TypeOK, InvitationType
<1>1. ASSUME NEW role \in {"read", "write", "admin"}, NEW max \in 0..MaxUses,
             CreateInvitation(i, role, max)
      PROVE  IInv'
  <2> DEFINE new == [st |-> "open", role |-> role, max |-> max, uses |-> 0]
  <2>1. new \in InvitationType /\ new.uses <= new.max
    BY DEF InvitationType
  <2>2. invitation' = [invitation EXCEPT ![i] = new] /\ invitation[i].st = "none"
    BY <1>1 DEF CreateInvitation
  <2> HIDE DEF new
  <2>3. invitation' \in [Invitation -> InvitationType] /\ invitation'[i] = new /\ Others
    BY <1>t, <2>1, <2>2
  <2>4. TypeOK'
    BY <1>1, <2>3 DEF CreateInvitation, TypeOK, InvitationType, history
  <2>5. UsesBounded'
    BY <2>1, <2>3 DEF UsesBounded
  <2>6. UseLeft'
    BY <1>1, <2>2, <2>3 DEF UseLeft, CreateInvitation
  <2> QED
    BY <1>1, <2>4, <2>5, <2>6
    DEF CreateInvitation, Exclusive, CallsAboutUsers, NativeAtMostWrite
<1>2. ASSUME NEW st \in {"revoked", "expired"},
             invitation' = [invitation EXCEPT ![i].st = st],
             UNCHANGED <<github, access, call, history>>
      PROVE  IInv'
  <2> DEFINE new == [invitation[i] EXCEPT !.st = st]
  <2>1. invitation[i] \in InvitationType
    BY <1>t
  <2>2. /\ new \in InvitationType /\ new.st = st
        /\ new.max = invitation[i].max /\ new.uses = invitation[i].uses
    BY <2>1 DEF InvitationType
  <2>3. invitation' = [invitation EXCEPT ![i] = new]
    BY <1>2
  <2> HIDE DEF new
  <2>4. invitation' \in [Invitation -> InvitationType] /\ invitation'[i] = new /\ Others
    BY <1>t, <2>2, <2>3
  <2>5. TypeOK'
    BY <1>2, <2>4 DEF TypeOK, InvitationType, history
  <2>6. UsesBounded'
    BY <2>2, <2>4 DEF UsesBounded
  <2>7. UseLeft'
    <3> SUFFICES ASSUME NEW k \in Call, call'[k].op = "redeem"
                 PROVE  /\ call'[k].user \in User
                        /\ call'[k].inv \in Invitation
                        /\ invitation'[call'[k].inv].st # "none"
                        /\ \/ invitation'[call'[k].inv].max = 0
                           \/ invitation'[call'[k].inv].uses < invitation'[call'[k].inv].max
      BY DEF UseLeft
    <3>1. call'[k] = call[k]
      BY <1>2
    <3>2. CASE call[k].inv = i
      BY <3>1, <3>2, <2>2, <2>4 DEF UseLeft
    <3>3. CASE call[k].inv # i
      BY <3>1, <3>3, <2>4 DEF UseLeft
    <3> QED
      BY <3>2, <3>3
  <2> QED
    BY <1>2, <2>5, <2>6, <2>7 DEF Exclusive, CallsAboutUsers, NativeAtMostWrite
<1>3. RevokeInvitation(i) => IInv'
  BY <1>2 DEF RevokeInvitation
<1>4. ExpireInvitation(i) => IInv'
  BY <1>2 DEF ExpireInvitation
<1> QED
  BY <1>1, <1>3, <1>4

(* A redemption takes the lock and finds a use left.                       *)
LEMMA RedeemStep ==
  ASSUME IInv, NEW k \in Call, NEW u \in User, NEW i \in Invitation, Redeem(k, u, i)
  PROVE  IInv'
<1> USE DEF IInv
<1>1. Begin(k, "redeem", u, i)
  BY DEF Redeem
<1>2. /\ call' \in [Call -> CallType]
      /\ call'[k].op = "redeem" /\ call'[k].user = u /\ call'[k].inv = i
      /\ \A j \in Call \ {k} : call'[j] = call[j]
  BY <1>1, BeginCall
<1>3. TypeOK'
  BY <1>2 DEF Redeem, TypeOK, CallType, history
<1>4. \A j \in Call : call[j].op = "redeem" => call[j].inv # i
  BY DEF Redeem, Locked
<1>5. Exclusive'
  BY <1>2, <1>4 DEF Exclusive
<1>6. /\ invitation[i].st # "none"
      /\ invitation[i].max = 0 \/ invitation[i].uses < invitation[i].max
  BY DEF Redeem, IsValid
<1>7. UNCHANGED <<invitation, access>>
  BY DEF Redeem
<1>8. UseLeft'
  BY <1>2, <1>6, <1>7 DEF UseLeft
<1>9. CallsAboutUsers'
  BY <1>2 DEF CallsAboutUsers
<1> QED
  BY <1>3, <1>5, <1>7, <1>8, <1>9 DEF UsesBounded, NativeAtMostWrite

(* Its commit uses the link once; no other call redeems that link now.     *)
LEMMA RedeemCommitStep ==
  ASSUME IInv, NEW k \in Call, RedeemCommit(k)
  PROVE  IInv'
<1> USE AccessAssumption DEF IInv
<1> DEFINE u == call[k].user
           i == call[k].inv
           level == CappedRole(invitation[i].role)
           new == [invitation[i] EXCEPT !.uses = IF @ > MaxUses THEN @ ELSE @ + 1]
<1>1. /\ u \in User /\ i \in Invitation /\ invitation[i].st # "none"
      /\ invitation[i].max = 0 \/ invitation[i].uses < invitation[i].max
  BY DEF RedeemCommit, UseLeft
<1>2. invitation[i] \in InvitationType /\ call[k] \in CallType
  BY <1>1 DEF TypeOK, InvitationType, CallType
<1>3. level \in {"read", "write"}
  BY <1>2 DEF CappedRole, Rank, InvitationType
<1>4. call[k].seen \in Row
  BY <1>2 DEF CallType
<1>5. /\ access' \in [User -> Row] /\ NativeAtMostWrite' /\ granted' \subseteq User
  <2>1. Grant(u, call[k].seen, level)
    BY DEF RedeemCommit
  <2> HIDE DEF u, level
  <2> QED
    BY <1>1, <1>3, <1>4, <2>1, GrantBounded
<1>6. /\ new \in InvitationType /\ new.max = invitation[i].max
      /\ new.max = 0 \/ new.uses <= new.max
  BY <1>1, <1>2 DEF InvitationType
<1>7. invitation' = [invitation EXCEPT ![i] = new]
  BY <1>1 DEF RedeemCommit
<1>8. End(k) /\ UNCHANGED <<github, removed>> /\ call[k].op = "redeem"
  BY DEF RedeemCommit
<1>9. /\ call' \in [Call -> CallType] /\ call'[k].op = "idle"
      /\ \A j \in Call \ {k} : call'[j] = call[j]
  BY <1>8, EndCall
<1> HIDE DEF new
<1>10. /\ invitation' \in [Invitation -> InvitationType] /\ invitation'[i] = new
       /\ \A j \in Invitation \ {i} : invitation'[j] = invitation[j]
  BY <1>1, <1>6, <1>7 DEF TypeOK, InvitationType
<1>11. TypeOK'
  BY <1>5, <1>8, <1>9, <1>10 DEF TypeOK, CallType, InvitationType
<1>12. UsesBounded'
  BY <1>6, <1>10 DEF UsesBounded, TypeOK, InvitationType
<1>13. Exclusive'
  BY <1>9 DEF Exclusive
<1>14. \A j \in Call \ {k} : call[j].op = "redeem" => call[j].inv # i
  BY <1>8 DEF Exclusive
<1>15. UseLeft'
  BY <1>9, <1>10, <1>14 DEF UseLeft
<1>16. CallsAboutUsers'
  BY <1>9 DEF CallsAboutUsers
<1> QED
  BY <1>5, <1>11, <1>12, <1>13, <1>15, <1>16

(* Granting write to a user by email.                                      *)
LEMMA AddCommitStep ==
  ASSUME IInv, NEW k \in Call, AddCommit(k)
  PROVE  IInv'
<1> USE DEF IInv
<1>1. call[k] \in CallType /\ call[k].user \in User /\ call[k].op = "add"
  BY DEF AddCommit, CallsAboutUsers, TypeOK, CallType
<1>2. Grant(call[k].user, call[k].seen, "write")
  BY DEF AddCommit
<1>3. access' \in [User -> Row] /\ NativeAtMostWrite' /\ granted' \subseteq User
  <2>1. call[k].seen \in Row /\ "write" \in {"read", "write"}
    BY <1>1 DEF CallType
  <2> QED
    BY <1>1, <1>2, <2>1, GrantBounded
<1>4. End(k) /\ UNCHANGED <<github, invitation, removed>>
  BY DEF AddCommit
<1>5. /\ call' \in [Call -> CallType] /\ call'[k].op = "idle"
      /\ \A j \in Call \ {k} : call'[j] = call[j]
  BY <1>4, EndCall
<1>6. TypeOK'
  BY <1>3, <1>4, <1>5 DEF TypeOK, CallType
<1> QED
  BY <1>3, <1>4, <1>5, <1>6, CallsKept

(* Writing the cached GitHub permission of one row.                        *)
LEMMA CacheWritten ==
  ASSUME TypeOK, NativeAtMostWrite, NEW u \in User, NEW new \in Row,
         new.role = access[u].role \/ new.role = "none",
         access' = [access EXCEPT ![u] = new]
  PROVE  access' \in [User -> Row] /\ NativeAtMostWrite'
<1>1. access' \in [User -> Row] /\ access'[u] = new
      /\ \A v \in User \ {u} : access'[v] = access[v]
  BY DEF TypeOK
<1>2. Rank["none"] <= Rank["write"]
  BY DEF Rank
<1>3. NativeAtMostWrite'
  BY <1>1, <1>2 DEF NativeAtMostWrite
<1> QED
  BY <1>1, <1>3

(* Revoking a native grant.                                                *)
LEMMA RevokeStep ==
  ASSUME IInv, NEW u \in User, RevokeNative(u)
  PROVE  IInv'
<1> USE DEF IInv
<1> DEFINE new == [access[u] EXCEPT !.role = "none"]
<1>1. new \in Row /\ new.role = "none"
  BY DEF TypeOK, Row, Level
<1>2. access' = [access EXCEPT ![u] = new]
  BY DEF RevokeNative
<1> HIDE DEF new
<1>3. access' \in [User -> Row] /\ NativeAtMostWrite'
  BY <1>1, <1>2, CacheWritten
<1>4. UNCHANGED <<github, invitation, call, removed>> /\ granted' \subseteq User
  BY DEF RevokeNative, TypeOK
<1>5. TypeOK'
  BY <1>3, <1>4 DEF TypeOK
<1> QED
  BY <1>3, <1>4, <1>5 DEF Exclusive, UseLeft, CallsAboutUsers, UsesBounded

(* A request that asks GitHub: it starts, hears the answer, caches it.     *)
LEMMA ResolveSteps ==
  ASSUME IInv, NEW k \in Call
  PROVE  /\ \A u \in User : Resolve(k, u) => IInv'
         /\ GitHubSays(k) => IInv'
         /\ ResolveCommit(k) => IInv'
<1> USE DEF IInv
<1>1. ASSUME NEW u \in User, Resolve(k, u) PROVE IInv'
  <2>1. Begin(k, "resolve", u, NoInv)
        /\ UNCHANGED <<github, access, invitation, history>>
    BY <1>1 DEF Resolve
  <2>2. /\ call' \in [Call -> CallType]
        /\ call'[k].op = "resolve" /\ call'[k].user = u
        /\ \A j \in Call \ {k} : call'[j] = call[j]
    BY <2>1, BeginCall
  <2>3. TypeOK'
    BY <2>1, <2>2 DEF TypeOK, CallType, history
  <2>4. NativeAtMostWrite'
    BY <2>1 DEF NativeAtMostWrite
  <2> QED
    BY <2>1, <2>2, <2>3, <2>4, CallsKept
<1>2. ASSUME GitHubSays(k) PROVE IInv'
  <2> DEFINE u == call[k].user
  <2>1. u \in User /\ call[k].op = "resolve"
    BY <1>2 DEF GitHubSays, CallsAboutUsers
  <2>2. PICK answer \in {github[u], "failed"} :
          call' = [call EXCEPT ![k].says = answer]
    BY <1>2 DEF GitHubSays
  <2>3. answer \in Saying
    BY <2>1 DEF Saying, TypeOK
  <2> DEFINE new == [call[k] EXCEPT !.says = answer]
  <2>4. call[k] \in CallType /\ call \in [Call -> CallType]
    BY DEF TypeOK, CallType
  <2>5. new \in CallType /\ new.op = "resolve" /\ new.user = u
    BY <2>1, <2>3, <2>4 DEF CallType
  <2>6. call' = [call EXCEPT ![k] = new]
    BY <2>2
  <2>8. UNCHANGED <<github, access, invitation, granted, removed>>
    BY <1>2 DEF GitHubSays, history
  <2> HIDE DEF new
  <2>9. /\ call' \in [Call -> CallType] /\ call'[k] = new
        /\ \A j \in Call \ {k} : call'[j] = call[j]
    BY <2>4, <2>5, <2>6
  <2>10. TypeOK'
    BY <2>8, <2>9 DEF TypeOK, CallType
  <2>11. NativeAtMostWrite'
    BY <2>8 DEF NativeAtMostWrite
  <2> QED
    BY <2>1, <2>5, <2>8, <2>9, <2>10, <2>11, CallsKept
<1>3. ASSUME ResolveCommit(k) PROVE IInv'
  <2> DEFINE u == call[k].user
             new == [exists |-> TRUE, role |-> "none",
                     github |-> IF call[k].says = "failed" THEN "none" ELSE call[k].says]
  <2>1. u \in User /\ call[k] \in CallType /\ call[k].says # "unknown"
    BY <1>3 DEF ResolveCommit, CallsAboutUsers, TypeOK, CallType
  <2>2. new \in Row /\ new.role = "none"
    BY <2>1 DEF CallType, Saying, Row, Level, Permission
  <2>3. access' = [access EXCEPT ![u] = new]
    BY <1>3 DEF ResolveCommit
  <2>4. End(k) /\ UNCHANGED <<github, invitation, history>>
    BY <1>3 DEF ResolveCommit
  <2> HIDE DEF new, u
  <2>5. access' \in [User -> Row] /\ NativeAtMostWrite'
    BY <2>1, <2>2, <2>3, CacheWritten
  <2>6. /\ call' \in [Call -> CallType] /\ call'[k].op = "idle"
        /\ \A j \in Call \ {k} : call'[j] = call[j]
    BY <2>4, EndCall
  <2>7. TypeOK'
    BY <2>4, <2>5, <2>6 DEF TypeOK, CallType, history
  <2> QED
    BY <2>4, <2>5, <2>6, <2>7, CallsKept
<1> QED
  BY <1>1, <1>2, <1>3

(* The owner shares with or removes a collaborator: on GitHub ...          *)
LEMMA OwnerAsks ==
  ASSUME IInv, NEW k \in Call, NEW u \in User
  PROVE  /\ AddByEmail(k, u) => IInv'
         /\ ShareOnGitHub(k, u) => IInv'
         /\ RemoveOnGitHub(k, u) => IInv'
<1> USE DEF IInv
<1>1. ASSUME NEW op \in {"add", "share", "remove"}, Begin(k, op, u, NoInv),
             UNCHANGED <<access, invitation, granted>>,
             github' \in [User -> Permission], removed' \subseteq User
      PROVE  IInv'
  <2>1. /\ call' \in [Call -> CallType]
        /\ call'[k].op = op /\ call'[k].user = u
        /\ \A j \in Call \ {k} : call'[j] = call[j]
    BY <1>1, BeginCall
  <2>2. TypeOK'
    BY <1>1, <2>1 DEF TypeOK, CallType
  <2>3. NativeAtMostWrite'
    BY <1>1 DEF NativeAtMostWrite
  <2> QED
    BY <1>1, <2>1, <2>2, <2>3, CallsKept
<1>2. "write" \in Permission /\ "none" \in Permission
      /\ "write" \in Saying /\ "none" \in Saying
  BY DEF Permission, Saying
<1>3. AddByEmail(k, u) => IInv'
  BY <1>1 DEF AddByEmail, TypeOK, history
<1>4. ShareOnGitHub(k, u) => IInv'
  BY <1>1, <1>2 DEF ShareOnGitHub, TypeOK
<1>5. RemoveOnGitHub(k, u) => IInv'
  BY <1>1, <1>2 DEF RemoveOnGitHub, TypeOK
<1> QED
  BY <1>3, <1>4, <1>5

(* ... and then in the cached permission.                                  *)
LEMMA OwnerCaches ==
  ASSUME IInv, NEW k \in Call, ShareCommit(k) \/ RemoveCommit(k)
  PROVE  IInv'
<1> USE DEF IInv
<1> DEFINE u == call[k].user
<1>1. u \in User
  BY DEF ShareCommit, RemoveCommit, CallsAboutUsers
<1>2. PICK p \in {"write", "none"} :
        access' = [access EXCEPT ![u].exists = TRUE, ![u].github = p]
  BY DEF ShareCommit, RemoveCommit
<1>3. End(k) /\ UNCHANGED <<github, invitation, granted>>
  BY DEF ShareCommit, RemoveCommit
<1>4. removed' \subseteq User
  BY <1>1 DEF ShareCommit, RemoveCommit, TypeOK
<1> DEFINE new == [access[u] EXCEPT !.exists = TRUE, !.github = p]
<1>5. new \in Row /\ new.role = access[u].role
  <2>1. access[u] \in Row /\ p \in Permission
    BY <1>1, <1>2 DEF TypeOK, Permission
  <2> QED
    BY <2>1 DEF Row
<1>6. access' = [access EXCEPT ![u] = new]
  <2>1. access \in [User -> Row] /\ access[u] \in Row
    BY <1>1 DEF TypeOK
  <2> QED
    BY <1>1, <1>2, <2>1
<1> HIDE DEF new, u
<1>7. access' \in [User -> Row] /\ NativeAtMostWrite'
  BY <1>1, <1>5, <1>6, CacheWritten
<1>8. /\ call' \in [Call -> CallType] /\ call'[k].op = "idle"
      /\ \A j \in Call \ {k} : call'[j] = call[j]
  BY <1>3, EndCall
<1>9. TypeOK'
  BY <1>3, <1>4, <1>7, <1>8 DEF TypeOK, CallType
<1> QED
  BY <1>3, <1>7, <1>8, <1>9, CallsKept

(* Every step keeps the invariant.                                         *)
LEMMA InvStep == IInv /\ [Next]_vars => IInv'
<1> SUFFICES ASSUME IInv, [Next]_vars PROVE IInv'
  OBVIOUS
<1>1. ASSUME NEW k \in Call, CallFails(k) PROVE IInv'
  <2> USE DEF IInv
  <2>1. End(k) /\ UNCHANGED <<github, access, invitation, history>>
    BY <1>1 DEF CallFails
  <2>2. /\ call' \in [Call -> CallType] /\ call'[k].op = "idle"
        /\ \A j \in Call \ {k} : call'[j] = call[j]
    BY <2>1, EndCall
  <2>3. TypeOK'
    BY <2>1, <2>2 DEF TypeOK, CallType, history
  <2>4. NativeAtMostWrite'
    BY <2>1 DEF NativeAtMostWrite
  <2> QED
    BY <2>1, <2>2, <2>3, <2>4, CallsKept
<1>2. ASSUME NEW u \in User, NEW p \in {"none", "admin"}, GitHubChanges(u, p) PROVE IInv'
  BY <1>2 DEF GitHubChanges, IInv, TypeOK, Permission, history,
              Exclusive, UseLeft, CallsAboutUsers, UsesBounded, NativeAtMostWrite
<1>3. CASE UNCHANGED vars
  BY <1>3 DEF IInv, vars, TypeOK, Exclusive, UseLeft, CallsAboutUsers,
              UsesBounded, NativeAtMostWrite
<1>4. ASSUME NEW i \in Invitation,
             \/ \E role \in {"read", "write", "admin"}, max \in 0..MaxUses :
                   CreateInvitation(i, role, max)
             \/ RevokeInvitation(i) \/ ExpireInvitation(i)
      PROVE  IInv'
  BY <1>4, InvitationSteps
<1>5. ASSUME NEW k \in Call, NEW u \in User,
             \/ AddByEmail(k, u) \/ Resolve(k, u)
             \/ ShareOnGitHub(k, u) \/ RemoveOnGitHub(k, u)
      PROVE  IInv'
  BY <1>5, ResolveSteps, OwnerAsks
<1>6. ASSUME NEW k \in Call,
             \/ RedeemCommit(k) \/ AddCommit(k) \/ GitHubSays(k)
             \/ ResolveCommit(k) \/ ShareCommit(k) \/ RemoveCommit(k) \/ CallFails(k)
      PROVE  IInv'
  BY <1>6, <1>1, RedeemCommitStep, AddCommitStep, ResolveSteps, OwnerCaches
<1>7. ASSUME NEW k \in Call, NEW u \in User, NEW i \in Invitation, Redeem(k, u, i)
      PROVE  IInv'
  BY <1>7, RedeemStep
<1>8. ASSUME NEW u \in User, RevokeNative(u) PROVE IInv'
  BY <1>8, RevokeStep
<1> QED
  BY <1>2, <1>3, <1>4, <1>5, <1>6, <1>7, <1>8 DEF Next

(* The inductive invariant holds of every behaviour.                       *)
LEMMA Invariance == Spec => []IInv
<1>1. Init => IInv
  BY InvInit
<1>2. IInv /\ [Next]_vars => IInv'
  BY InvStep
<1> QED
  BY <1>1, <1>2, PTL DEF Spec

(* A link is never used more often than its max_uses, however many people  *)
(* redeem it at once (post_project_invitation_redemption).                 *)
THEOREM LinksAreBounded == Spec => []UsesBounded
<1>1. IInv => UsesBounded
  BY DEF IInv
<1> QED
  BY <1>1, Invariance, PTL

(* No grant, by whatever link and in whatever order, exceeds write.        *)
THEOREM GrantsAreBounded == Spec => []NativeAtMostWrite
<1>1. IInv => NativeAtMostWrite
  BY DEF IInv
<1> QED
  BY <1>1, Invariance, PTL

(* A redemption under way is of a link that has not been revoked: revoking  *)
(* it waits for the row.                                                   *)
RedeemsUnrevoked ==
    \A k \in Call : call[k].op = "redeem" => invitation[call[k].inv].st \in {"open", "expired"}

(* What a row says, beside what was granted and who was removed.           *)
RowsAccounted ==
    \A u \in User :
        /\ ~access[u].exists => access[u] = NoRow
        /\ access[u].role # "none" => u \in granted
        /\ u \in removed => access[u].exists /\ access[u].github = "none"

RowsInv == IInv /\ RedeemsUnrevoked /\ RowsAccounted

LEMMA RowsInitially == Init => RowsInv
<1> SUFFICES ASSUME Init PROVE RedeemsUnrevoked /\ RowsAccounted
  BY InvInit DEF RowsInv
<1> QED
  BY DEF Init, RedeemsUnrevoked, RowsAccounted, NoRow, Idle

(* Steps that leave the rows and who was granted and removed as they were. *)
LEMMA RowsUntouched ==
  ASSUME RowsAccounted, UNCHANGED <<access, granted, removed>>
  PROVE  RowsAccounted'
BY DEF RowsAccounted

(* The grant a redemption or an addition ends in.                          *)
LEMMA GrantAccounted ==
  ASSUME TypeOK, RowsAccounted, NEW u \in User, NEW seen \in Row,
         NEW level \in {"read", "write"}, Grant(u, seen, level), UNCHANGED removed
  PROVE  /\ RowsAccounted'
         /\ \A v \in User : access[v].role # "none" => access'[v].role # "none"
<1>1. access \in [User -> Row]
  BY DEF TypeOK
<1>2. granted' = granted \cup {u}
  BY DEF Grant
<1>3. CASE UNCHANGED access
  BY <1>2, <1>3 DEF RowsAccounted
<1>4. CASE access' = [access EXCEPT ![u].exists = TRUE, ![u].role = level]
  <2>1. /\ access'[u].exists = TRUE /\ access'[u].role = level
        /\ access'[u].github = access[u].github
        /\ \A v \in User \ {u} : access'[v] = access[v]
    BY <1>1, <1>4 DEF Row
  <2> QED
    BY <1>2, <2>1 DEF RowsAccounted
<1> QED
  BY <1>3, <1>4 DEF Grant

(* One step: the rows stay accounted for, and a role is dropped only with  *)
(* the grant it stands for.                                                *)
LostWithGrant ==
    \A u \in User : access[u].role # "none" /\ access'[u].role = "none" => u \notin granted'

LEMMA RowsStep ==
  ASSUME RowsInv, [Next]_vars
  PROVE  RowsAccounted' /\ LostWithGrant
<1> USE DEF RowsInv, IInv
<1>1. ASSUME UNCHANGED <<access, granted, removed>> PROVE RowsAccounted' /\ LostWithGrant
  BY <1>1, RowsUntouched DEF LostWithGrant
<1>2. ASSUME NEW i \in Invitation, NEW role \in {"read", "write", "admin"},
             NEW max \in 0..MaxUses, CreateInvitation(i, role, max)
      PROVE  RowsAccounted' /\ LostWithGrant
  BY <1>1, <1>2 DEF CreateInvitation, history
<1>3. ASSUME NEW i \in Invitation, RevokeInvitation(i) \/ ExpireInvitation(i)
      PROVE  RowsAccounted' /\ LostWithGrant
  BY <1>1, <1>3 DEF RevokeInvitation, ExpireInvitation, history
<1>4. ASSUME NEW k \in Call, NEW u \in User,
             (\E i \in Invitation : Redeem(k, u, i)) \/ AddByEmail(k, u) \/ Resolve(k, u)
      PROVE  RowsAccounted' /\ LostWithGrant
  BY <1>1, <1>4 DEF Redeem, AddByEmail, Resolve, history
<1>5. ASSUME NEW k \in Call, NEW u \in User, ShareOnGitHub(k, u) \/ RemoveOnGitHub(k, u)
      PROVE  RowsAccounted' /\ LostWithGrant
  <2>1. UNCHANGED <<access, granted>> /\ removed' \subseteq removed
    BY <1>5 DEF ShareOnGitHub, RemoveOnGitHub
  <2> QED
    BY <2>1 DEF RowsAccounted, LostWithGrant
<1>6. ASSUME NEW k \in Call, RedeemCommit(k) PROVE RowsAccounted' /\ LostWithGrant
  <2> DEFINE u == call[k].user
             seen == call[k].seen
             level == CappedRole(invitation[call[k].inv].role)
  <2>1. u \in User /\ call[k].inv \in Invitation
    BY <1>6 DEF RedeemCommit, UseLeft
  <2>2. seen \in Row /\ level \in {"read", "write"}
    BY <2>1 DEF TypeOK, CappedRole, Rank
  <2>3. Grant(u, seen, level) /\ UNCHANGED removed
    BY <1>6 DEF RedeemCommit
  <2> HIDE DEF u, seen, level
  <2> QED
    BY <2>1, <2>2, <2>3, GrantAccounted DEF LostWithGrant
<1>7. ASSUME NEW k \in Call, AddCommit(k) PROVE RowsAccounted' /\ LostWithGrant
  <2>1. call[k].user \in User /\ call[k].seen \in Row
    BY <1>7 DEF AddCommit, CallsAboutUsers, TypeOK
  <2>2. Grant(call[k].user, call[k].seen, "write") /\ UNCHANGED removed
    BY <1>7 DEF AddCommit
  <2> QED
    BY <2>1, <2>2, GrantAccounted DEF LostWithGrant
<1>8. ASSUME NEW k \in Call, GitHubSays(k) \/ CallFails(k) PROVE RowsAccounted' /\ LostWithGrant
  BY <1>1, <1>8 DEF GitHubSays, CallFails, history
<1>9. ASSUME NEW k \in Call, ResolveCommit(k) PROVE RowsAccounted' /\ LostWithGrant
  <2> DEFINE u == call[k].user
  <2>1. u \in User /\ ~access[u].exists /\ UNCHANGED <<granted, removed>>
    BY <1>9 DEF ResolveCommit, CallsAboutUsers, history
  <2>2. access'[u].exists /\ access'[u].role = "none"
        /\ \A v \in User \ {u} : access'[v] = access[v]
    BY <1>9, <2>1 DEF ResolveCommit, TypeOK
  <2>3. u \notin removed /\ access[u].role = "none"
    BY <2>1 DEF RowsAccounted, NoRow
  <2> QED
    BY <2>1, <2>2, <2>3 DEF RowsAccounted, LostWithGrant
<1>10. ASSUME NEW k \in Call, ShareCommit(k) \/ RemoveCommit(k) PROVE RowsAccounted' /\ LostWithGrant
  <2> DEFINE u == call[k].user
  <2>1. u \in User /\ UNCHANGED granted /\ access \in [User -> Row]
    BY <1>10 DEF ShareCommit, RemoveCommit, CallsAboutUsers, TypeOK
  <2>2. PICK p \in {"write", "none"} :
          /\ access' = [access EXCEPT ![u].exists = TRUE, ![u].github = p]
          /\ removed' = IF p = "none" THEN removed \cup {u} ELSE removed \ {u}
    BY <1>10 DEF ShareCommit, RemoveCommit
  <2>3. /\ access'[u].exists = TRUE /\ access'[u].github = p
        /\ access'[u].role = access[u].role
        /\ \A v \in User \ {u} : access'[v] = access[v]
    BY <2>1, <2>2 DEF Row
  <2> HIDE DEF u
  <2> QED
    BY <2>1, <2>2, <2>3 DEF RowsAccounted, LostWithGrant
<1>11. ASSUME NEW u \in User, RevokeNative(u) PROVE RowsAccounted' /\ LostWithGrant
  <2>1. /\ access[u].role # "none" /\ access \in [User -> Row]
        /\ access' = [access EXCEPT ![u].role = "none"]
        /\ granted' = granted \ {u} /\ UNCHANGED removed
    BY <1>11 DEF RevokeNative, TypeOK
  <2>2. /\ access'[u].exists = access[u].exists /\ access'[u].github = access[u].github
        /\ access'[u].role = "none" /\ \A v \in User \ {u} : access'[v] = access[v]
    BY <2>1 DEF Row
  <2>3. access[u].exists
    BY <2>1 DEF RowsAccounted, NoRow
  <2> QED
    BY <2>1, <2>2, <2>3 DEF RowsAccounted, LostWithGrant
<1>12. ASSUME NEW u \in User, NEW p \in {"none", "admin"}, GitHubChanges(u, p)
       PROVE  RowsAccounted' /\ LostWithGrant
  BY <1>1, <1>12 DEF GitHubChanges, history
<1>13. CASE UNCHANGED vars
  BY <1>1, <1>13 DEF vars
<1> QED
  BY <1>2, <1>3, <1>4, <1>5, <1>6, <1>7, <1>8, <1>9, <1>10, <1>11, <1>12, <1>13 DEF Next

(* One step: a redemption under way keeps its link from being revoked, and *)
(* a link that was revoked is not used any more.                           *)
RevokedUnused ==
    \A i \in Invitation : invitation[i].st = "revoked" => invitation'[i].uses = invitation[i].uses

LEMMA RedeemsStep ==
  ASSUME RowsInv, [Next]_vars
  PROVE  RedeemsUnrevoked' /\ RevokedUnused
<1> USE DEF RowsInv, IInv
<1>0. invitation \in [Invitation -> InvitationType]
  BY DEF TypeOK, InvitationType
<1>1. ASSUME UNCHANGED invitation,
             \A k \in Call : call'[k].op = "redeem" => call'[k] = call[k]
      PROVE  RedeemsUnrevoked' /\ RevokedUnused
  BY <1>1 DEF RedeemsUnrevoked, RevokedUnused
<1>2. ASSUME NEW i \in Invitation, NEW role \in {"read", "write", "admin"},
             NEW max \in 0..MaxUses, CreateInvitation(i, role, max)
      PROVE  RedeemsUnrevoked' /\ RevokedUnused
  <2>1. /\ invitation[i].st = "none" /\ UNCHANGED call
        /\ \A j \in Invitation \ {i} : invitation'[j] = invitation[j]
    BY <1>2, <1>0 DEF CreateInvitation
  <2>2. \A k \in Call : call[k].op = "redeem" => call[k].inv \in Invitation \ {i}
    BY <2>1 DEF UseLeft
  <2> QED
    BY <2>1, <2>2 DEF RedeemsUnrevoked, RevokedUnused
<1>3. ASSUME NEW i \in Invitation, RevokeInvitation(i)
      PROVE  RedeemsUnrevoked' /\ RevokedUnused
  <2>1. /\ UNCHANGED call /\ invitation'[i].uses = invitation[i].uses
        /\ \A j \in Invitation \ {i} : invitation'[j] = invitation[j]
    BY <1>3, <1>0 DEF RevokeInvitation, InvitationType
  <2>2. \A k \in Call : call[k].op = "redeem" => call[k].inv \in Invitation \ {i}
    BY <1>3 DEF RevokeInvitation, Locked, UseLeft
  <2> QED
    BY <2>1, <2>2 DEF RedeemsUnrevoked, RevokedUnused
<1>4. ASSUME NEW i \in Invitation, ExpireInvitation(i)
      PROVE  RedeemsUnrevoked' /\ RevokedUnused
  <2>1. /\ UNCHANGED call /\ invitation'[i].uses = invitation[i].uses
        /\ invitation'[i].st = "expired"
        /\ \A j \in Invitation \ {i} : invitation'[j] = invitation[j]
    BY <1>4, <1>0 DEF ExpireInvitation, InvitationType
  <2>2. \A k \in Call : call[k].op = "redeem" => call[k].inv \in Invitation
    BY DEF UseLeft
  <2> QED
    BY <2>1, <2>2 DEF RedeemsUnrevoked, RevokedUnused
<1>5. ASSUME NEW k \in Call, NEW u \in User, NEW i \in Invitation, Redeem(k, u, i)
      PROVE  RedeemsUnrevoked' /\ RevokedUnused
  <2>1. /\ call'[k].op = "redeem" /\ call'[k].inv = i
        /\ \A j \in Call \ {k} : call'[j] = call[j]
    BY <1>5, BeginCall DEF Redeem
  <2>2. UNCHANGED invitation /\ invitation[i].st = "open"
    BY <1>5 DEF Redeem, IsValid
  <2> QED
    BY <2>1, <2>2 DEF RedeemsUnrevoked, RevokedUnused
<1>6. ASSUME NEW k \in Call, NEW u \in User, NEW op \in {"add", "resolve", "share", "remove"},
             Begin(k, op, u, NoInv), UNCHANGED invitation
      PROVE  RedeemsUnrevoked' /\ RevokedUnused
  BY <1>1, <1>6, BeginCall
<1>7. ASSUME NEW k \in Call, NEW u \in User,
             AddByEmail(k, u) \/ Resolve(k, u) \/ ShareOnGitHub(k, u) \/ RemoveOnGitHub(k, u)
      PROVE  RedeemsUnrevoked' /\ RevokedUnused
  BY <1>6, <1>7 DEF AddByEmail, Resolve, ShareOnGitHub, RemoveOnGitHub
<1>8. ASSUME NEW k \in Call, RedeemCommit(k) PROVE RedeemsUnrevoked' /\ RevokedUnused
  <2> DEFINE i == call[k].inv
  <2>1. call[k].op = "redeem" /\ i \in Invitation /\ invitation[i].st \in {"open", "expired"}
    BY <1>8 DEF RedeemCommit, UseLeft, RedeemsUnrevoked
  <2>2. /\ invitation'[i].st = invitation[i].st
        /\ \A j \in Invitation \ {i} : invitation'[j] = invitation[j]
    BY <1>8, <1>0, <2>1 DEF RedeemCommit, InvitationType
  <2>3. call'[k].op = "idle" /\ \A j \in Call \ {k} : call'[j] = call[j]
    BY <1>8, EndCall DEF RedeemCommit
  <2> HIDE DEF i
  <2>4. \A j \in Call : call[j].op = "redeem" => call[j].inv \in Invitation
    BY DEF UseLeft
  <2>5. RevokedUnused
    BY <2>1, <2>2 DEF RevokedUnused
  <2>6. ASSUME NEW j \in Call, call'[j].op = "redeem"
        PROVE  invitation'[call'[j].inv].st \in {"open", "expired"}
    BY <2>1, <2>2, <2>3, <2>4, <2>6 DEF RedeemsUnrevoked
  <2> QED
    BY <2>5, <2>6 DEF RedeemsUnrevoked
<1>9. ASSUME NEW k \in Call, End(k), UNCHANGED invitation PROVE RedeemsUnrevoked' /\ RevokedUnused
  BY <1>1, <1>9, EndCall
<1>10. ASSUME NEW k \in Call,
             AddCommit(k) \/ ResolveCommit(k) \/ ShareCommit(k) \/ RemoveCommit(k) \/ CallFails(k)
      PROVE  RedeemsUnrevoked' /\ RevokedUnused
  BY <1>9, <1>10 DEF AddCommit, ResolveCommit, ShareCommit, RemoveCommit, CallFails
<1>11. ASSUME NEW k \in Call, GitHubSays(k) PROVE RedeemsUnrevoked' /\ RevokedUnused
  <2>1. /\ call[k].op = "resolve" /\ UNCHANGED invitation
        /\ \E answer : call' = [call EXCEPT ![k].says = answer]
    BY <1>11 DEF GitHubSays
  <2>2. call'[k].op = "resolve" /\ \A j \in Call \ {k} : call'[j] = call[j]
    BY <2>1 DEF TypeOK
  <2> QED
    BY <1>1, <2>1, <2>2
<1>12. ASSUME NEW u \in User,
              RevokeNative(u) \/ \E p \in {"none", "admin"} : GitHubChanges(u, p)
       PROVE  RedeemsUnrevoked' /\ RevokedUnused
  BY <1>1, <1>12 DEF RevokeNative, GitHubChanges
<1>13. CASE UNCHANGED vars
  BY <1>1, <1>13 DEF vars
<1> QED
  BY <1>2, <1>3, <1>4, <1>5, <1>7, <1>8, <1>10, <1>11, <1>12, <1>13 DEF Next

(* The facts about rows and links hold of every behaviour.                 *)
LEMMA RowsInvariance == Spec => []RowsInv
<1>1. Init => RowsInv
  BY RowsInitially
<1>2. RowsInv /\ [Next]_vars => RowsInv'
  BY InvStep, RowsStep, RedeemsStep DEF RowsInv
<1> QED
  BY <1>1, <1>2, PTL DEF Spec

(* No redemption that began before a link was revoked commits after it     *)
(* (delete_project_invitation, post_project_invitation_redemption).        *)
THEOREM RevokedLinksStaySo == Spec => RevocationHolds
<1>1. RowsInv /\ [Next]_vars => [RevokedUnused]_vars
  BY RedeemsStep
<1> QED
  BY <1>1, RowsInvariance, PTL DEF Spec, RevocationHolds, RevokedUnused

(* An answer of GitHub that comes late overwrites no native role: the row  *)
(* it would be cached in has been inserted by then (projects.py 97-148).   *)
THEOREM RolesOutliveAnswers == Spec => GrantLostOnlyByRevoking
<1>1. RowsInv /\ [Next]_vars => [LostWithGrant]_vars
  BY RowsStep
<1> QED
  BY <1>1, RowsInvariance, PTL DEF Spec, GrantLostOnlyByRevoking, LostWithGrant

(* A removed collaborator without a native role gets what the public gets, *)
(* whatever GitHub said of them before (delete_project_collaborator).      *)
THEOREM RemovedStayOut == Spec => []RemovalSticks
<1>1. RowsInv => RemovalSticks
  BY DEF RowsInv, RowsAccounted, RemovalSticks, Effective, IInv, TypeOK
<1> QED
  BY <1>1, RowsInvariance, PTL

-----------------------------------------------------------------------------
(***************************************************************************)
(* The uploads.  A checkout holds what GitHub has or had, and what the     *)
(* puts of its user brought; a text that was at GitHub never differs from  *)
(* HEAD in the index, so it cannot be committed again; and a put that      *)
(* nobody got in the way of finds its text, or nothing to commit.          *)
(***************************************************************************)

PutsOf(u, p) == {k \in Put : put[k].user = u /\ put[k].path = p}

Early == {"idle", "asked", "ready"} \cup Refreshing
States == {"idle", "asked", "ok", "error"} \cup Refreshing \cup Working

Checkout ==
    [head : Tree, index : Tree, work : Tree, fetched : Tree, onBranch : BOOLEAN,
     current : BOOLEAN, upToDate : BOOLEAN, refresher : Put \cup {NoOne}]

PutsHaveUsers == \A k \in Put : put[k].st # "idle" => put[k].user \in Writer /\ put[k].path \in Path

(* What a checkout holds, and where that came from.                        *)
Known(u, c) ==
    \A p \in Path :
        /\ c.fetched[p] \in arrived
        /\ c.head[p] \in arrived \cup PutsOf(u, p)
        /\ c.index[p] = c.head[p] \/ c.index[p] \in PutsOf(u, p)
        /\ c.work[p] = c.index[p] \/ c.work[p] \in PutsOf(u, p)

(* What was at GitHub, or is committed, is not there to be committed anew. *)
NotAgain(c) ==
    \A p \in Path :
        /\ c.index[p] \in arrived => c.index[p] = c.head[p]
        /\ c.work[p] \in arrived \cup {c.head[p]} => c.work[p] = c.index[p]

Abreast(c) ==
    /\ c.current => c.fetched = branch
    /\ c.upToDate => \A p \in Path : c.head[p] = branch[p] \/ c.head[p] \notin arrived

Sound(u, c) == Known(u, c) /\ NotAgain(c) /\ Abreast(c)

(* A text is nowhere until its put has written it.                         *)
Absent(k, c) == \A p \in Path : k # c.head[p] /\ k # c.index[p] /\ k # c.work[p]

(* Where the text of a put is by the time the put has come so far.         *)
Follows(k, st, c, p) ==
    /\ st = "written" => \/ c.work[p] = k
                         \/ c.work[p] = c.index[p] /\ c.index[p] = c.head[p]
    /\ st = "staged" => /\ c.work[p] = c.index[p]
                        /\ c.index[p] = k \/ c.index[p] = c.head[p]
    /\ st = "committed" => c.work[p] = k /\ c.index[p] = k /\ c.head[p] = k

BranchArrived == \A p \in Path : branch[p] \in arrived
CheckoutsSound == \A u \in Writer : Sound(u, checkout[u])
Unwritten ==
    \A k \in Put : put[k].st \in Early => k \notin arrived /\ \A u \in Writer : Absent(k, checkout[u])
PutsFollowed ==
    \A k \in Put \ overtaken : put[k].st # "idle" => Follows(k, put[k].st, Of(k), put[k].path)
LockedPuts ==
    \A p \in Path : holder[p] # NoOne => {k \in Put : put[k].path = p} \subseteq began[p]

UploadsInv ==
    /\ UploadsTypeOK /\ PutsHaveUsers /\ BranchArrived /\ CheckoutsSound /\ Unwritten /\ PutsFollowed
    /\ LockedPuts /\ LockedPathsRest /\ AnsweredIsPushed

LEMMA UploadsInitially == ASSUME UploadsInit PROVE UploadsInv
<1>1. branch \in Tree /\ branch = [p \in Path |-> Original]
  BY DEF UploadsInit, Tree, Contents
<1>2. UploadsTypeOK
  BY <1>1 DEF UploadsInit, UploadsTypeOK, NotAsked, Contents
<1>3. \A u \in Writer : checkout[u] =
        [head |-> branch, index |-> branch, work |-> branch, fetched |-> branch, onBranch |-> TRUE,
         current |-> TRUE, upToDate |-> TRUE, refresher |-> NoOne]
  BY DEF UploadsInit
<1>4. BranchArrived /\ arrived = {Original} /\ \A k \in Put : k # Original
  BY <1>1, UploadsAssumption DEF UploadsInit, BranchArrived
<1>5. CheckoutsSound
  BY <1>1, <1>3, <1>4 DEF BranchArrived, CheckoutsSound, Sound, Known, NotAgain, Abreast
<1>6. Unwritten
  BY <1>1, <1>3, <1>4 DEF Unwritten, Absent
<1>7. \A k \in Put : put[k].st = "idle"
  BY DEF UploadsInit, NotAsked
<1>8. PutsHaveUsers /\ PutsFollowed /\ AnsweredIsPushed
  BY <1>7 DEF PutsHaveUsers, PutsFollowed, AnsweredIsPushed
<1>9. LockedPuts /\ LockedPathsRest
  BY DEF UploadsInit, LockedPuts, LockedPathsRest
<1> QED
  BY <1>2, <1>4, <1>5, <1>6, <1>8, <1>9 DEF UploadsInv

(* A step of one put in its checkout, which leaves GitHub and the locks.   *)
LEMMA LocalStep ==
  ASSUME UploadsInv, NEW k \in Put, put[k].st # "idle",
         NEW st \in States \ {"idle", "ok"}, Goes(k, st), st \in Early => put[k].st \in Early,
         NEW c \in Checkout, checkout' = [checkout EXCEPT ![put[k].user] = c],
         UNCHANGED <<branch, holder, deciding, began, arrived>>,
         overtaken \subseteq overtaken', overtaken' \subseteq Put,
         Sound(put[k].user, c),
         \A j \in Put : put'[j].st \in Early => Absent(j, c),
         \A j \in (Siblings(k) \cup {k}) \ overtaken' : Follows(j, put'[j].st, c, put[j].path)
  PROVE  UploadsInv'
<1> DEFINE u == put[k].user
<1>1. /\ put \in [Put -> [st : States, user : Writer \cup {NoOne}, path : Path \cup {NoOne}]]
      /\ checkout \in [Writer -> Checkout] /\ u \in Writer
  BY DEF UploadsInv, UploadsTypeOK, PutsHaveUsers, States, Checkout
<1>2. /\ put' \in [Put -> [st : States, user : Writer \cup {NoOne}, path : Path \cup {NoOne}]]
      /\ \A j \in Put : put'[j].user = put[j].user /\ put'[j].path = put[j].path
      /\ \A j \in Put : put'[j].st = IF j = k THEN st ELSE put[j].st
  BY <1>1 DEF Goes
<1>3. /\ checkout' \in [Writer -> Checkout]
      /\ \A w \in Writer : checkout'[w] = IF w = u THEN c ELSE checkout[w]
  BY <1>1
<1> HIDE DEF u
<1>4. UploadsTypeOK'
  BY <1>2, <1>3 DEF UploadsInv, UploadsTypeOK, States, Checkout
<1>5. PutsHaveUsers' /\ BranchArrived' /\ LockedPuts' /\ LockedPathsRest' /\ AnsweredIsPushed'
  BY <1>2 DEF UploadsInv, PutsHaveUsers, BranchArrived, LockedPuts, LockedPathsRest, AnsweredIsPushed
<1>6. CheckoutsSound'
  <2>1. ASSUME NEW w \in Writer PROVE Sound(w, checkout[w])'
    <3>1. Sound(w, checkout'[w])
      BY <1>3 DEF UploadsInv, CheckoutsSound, u
    <3>2. \A p \in Path : PutsOf(w, p)' = PutsOf(w, p)
      BY <1>2 DEF PutsOf
    <3> QED
      BY <3>1, <3>2 DEF Sound, Known, NotAgain, Abreast
  <2> QED
    BY <2>1 DEF CheckoutsSound
<1>7. Unwritten'
  <2>1. ASSUME NEW j \in Put, put'[j].st \in Early
        PROVE  j \notin arrived' /\ \A w \in Writer : Absent(j, checkout'[w])
    BY <1>2, <1>3, <2>1 DEF UploadsInv, Unwritten
  <2> QED
    BY <2>1 DEF Unwritten, Absent
<1>8. PutsFollowed'
  <2>1. ASSUME NEW j \in Put \ overtaken', put'[j].st # "idle"
        PROVE  Follows(j, put'[j].st, checkout'[put'[j].user], put'[j].path)
    <3>1. CASE j \in Siblings(k) \cup {k}
      <4>1. put'[j].user = u
        BY <1>2, <3>1 DEF Siblings, u
      <4> QED
        BY <1>2, <1>3, <3>1, <4>1, <1>1
    <3>2. CASE j \notin Siblings(k) \cup {k}
      <4>1. put[j].user # u /\ put[j].st # "idle" /\ put[j].user \in Writer /\ put'[j].st = put[j].st
        BY <1>2, <2>1, <3>2 DEF UploadsInv, PutsHaveUsers, Siblings, u
      <4>2. checkout'[put'[j].user] = Of(j)
        BY <1>2, <1>3, <4>1 DEF Of
      <4> QED
        BY <1>2, <4>1, <4>2 DEF UploadsInv, PutsFollowed
    <3> QED
      BY <3>1, <3>2
  <2> QED
    BY <2>1 DEF PutsFollowed, Follows, Of
<1> QED
  BY <1>4, <1>5, <1>6, <1>7, <1>8 DEF UploadsInv

(* What holds of the checkout of a put that is under way.                  *)
LEMMA OfThePut ==
  ASSUME UploadsInv, NEW k \in Put, put[k].st # "idle"
  PROVE  /\ put[k].user \in Writer /\ put[k].path \in Path
         /\ Of(k) \in Checkout /\ Sound(put[k].user, Of(k))
         /\ checkout \in [Writer -> Checkout]
         /\ \A j \in Put : put[j].st \in Early => Absent(j, Of(k)) /\ j \notin arrived
         /\ \A j \in (Siblings(k) \cup {k}) \ overtaken :
                Follows(j, put[j].st, Of(k), put[j].path) /\ put[j].path \in Path \cup {NoOne}
<1>1. put[k].user \in Writer /\ put[k].path \in Path /\ checkout \in [Writer -> Checkout]
  BY DEF UploadsInv, UploadsTypeOK, PutsHaveUsers, Checkout
<1>2. ASSUME NEW j \in (Siblings(k) \cup {k}) \ overtaken
      PROVE  Follows(j, put[j].st, Of(k), put[j].path) /\ put[j].path \in Path \cup {NoOne}
  <2>1. put[j].user = put[k].user /\ j \in Put
    BY DEF Siblings
  <2>2. put[j].st = "idle" \/ Follows(j, put[j].st, Of(k), put[j].path)
    BY <2>1 DEF UploadsInv, PutsFollowed, Of
  <2>3. put[j].path \in Path \cup {NoOne}
    BY <2>1 DEF UploadsInv, UploadsTypeOK
  <2> QED
    BY <2>2, <2>3 DEF Follows
<1> QED
  BY <1>1, <1>2 DEF UploadsInv, CheckoutsSound, Unwritten, Of

(* A step that changes none of the texts.                                  *)
LEMMA TextsStay ==
  ASSUME UploadsInv, NEW k \in Put, put[k].st # "idle",
         NEW st \in States \ {"idle", "ok", "written", "staged", "committed"},
         Goes(k, st), st \in Early => put[k].st \in Early,
         NEW c \in Checkout, checkout' = [checkout EXCEPT ![put[k].user] = c],
         c.head = Of(k).head, c.index = Of(k).index, c.work = Of(k).work,
         c.upToDate = Of(k).upToDate,
         \/ c.fetched = Of(k).fetched /\ c.current = Of(k).current
         \/ c.fetched = branch,
         UNCHANGED <<branch, holder, deciding, began, arrived, overtaken>>
  PROVE  UploadsInv'
<1>0. put \in [Put -> [st : States, user : Writer \cup {NoOne}, path : Path \cup {NoOne}]]
  BY DEF UploadsInv, UploadsTypeOK, States
<1>1. \A j \in Put : put'[j].st = IF j = k THEN st ELSE put[j].st
  BY <1>0 DEF Goes
<1>2. Sound(put[k].user, c)
  BY OfThePut DEF Sound, Known, NotAgain, Abreast, UploadsInv, BranchArrived
<1>3. \A j \in Put : put'[j].st \in Early => Absent(j, c)
  BY <1>1, OfThePut DEF Absent
<1>4. \A j \in (Siblings(k) \cup {k}) \ overtaken' : Follows(j, put'[j].st, c, put[j].path)
  BY <1>1, OfThePut DEF Follows, Siblings
<1>5. overtaken \subseteq Put
  BY DEF UploadsInv, UploadsTypeOK
<1>6. st \in States \ {"idle", "ok"}
  OBVIOUS
<1> QED
  BY <1>2, <1>3, <1>4, <1>5, <1>6, LocalStep

LEMMA RefreshSteps ==
  ASSUME UploadsInv, NEW k \in Put,
         Fetch(k) \/ Rebranch(k) \/ RefreshFails(k) \/ PutFails(k)
  PROVE  UploadsInv'
<1> DEFINE u == put[k].user
<1>1. put[k].st # "idle"
  BY DEF Fetch, Rebranch, RefreshFails, PutFails, Refreshing, Working
<1>2. Of(k) \in Checkout /\ checkout \in [Writer -> Checkout] /\ u \in Writer /\ branch \in Tree
  BY <1>1, OfThePut DEF UploadsInv, UploadsTypeOK
<1>3. CASE Fetch(k)
  <2> DEFINE c == [Of(k) EXCEPT !.refresher = k, !.fetched = branch, !.current = TRUE]
  <2>1. c \in Checkout /\ checkout' = [checkout EXCEPT ![u] = c]
    BY <1>2, <1>3 DEF Fetch, Of, Checkout
  <2>2. /\ c.head = Of(k).head /\ c.index = Of(k).index /\ c.work = Of(k).work
        /\ c.upToDate = Of(k).upToDate /\ c.fetched = branch
    BY <1>2 DEF Checkout
  <2> HIDE DEF c
  <2>3. Goes(k, "fetched") /\ UNCHANGED <<branch, holder, deciding, began, arrived, overtaken>>
    BY <1>3 DEF Fetch
  <2>4. "fetched" \in States \ {"idle", "ok", "written", "staged", "committed"} /\ put[k].st \in Early
    BY <1>3 DEF Fetch, States, Early, Refreshing
  <2> QED
    BY <1>1, <2>1, <2>2, <2>3, <2>4, TextsStay
<1>4. CASE Rebranch(k)
  <2> DEFINE c == [Of(k) EXCEPT !.onBranch = TRUE, !.refresher = NoOne]
  <2>1. c \in Checkout /\ checkout' = [checkout EXCEPT ![u] = c]
    BY <1>2, <1>4 DEF Rebranch, Of, Checkout
  <2>2. /\ c.head = Of(k).head /\ c.index = Of(k).index /\ c.work = Of(k).work
        /\ c.upToDate = Of(k).upToDate /\ c.fetched = Of(k).fetched /\ c.current = Of(k).current
    BY <1>2 DEF Checkout
  <2> HIDE DEF c
  <2>3. Goes(k, "ready") /\ UNCHANGED <<branch, holder, deciding, began, arrived, overtaken>>
    BY <1>4 DEF Rebranch
  <2>4. "ready" \in States \ {"idle", "ok", "written", "staged", "committed"} /\ put[k].st \in Early
    BY <1>4 DEF Rebranch, States, Early, Refreshing, Working
  <2> QED
    BY <1>1, <2>1, <2>2, <2>3, <2>4, TextsStay
<1>5. CASE RefreshFails(k) \/ PutFails(k)
  <2> DEFINE c == IF Of(k).refresher = k THEN [Of(k) EXCEPT !.refresher = NoOne] ELSE Of(k)
             st == put'[k].st
  <2>1. c \in Checkout /\ checkout' = [checkout EXCEPT ![u] = c]
    BY <1>2, <1>5 DEF RefreshFails, PutFails, Of, Checkout
  <2>2. /\ c.head = Of(k).head /\ c.index = Of(k).index /\ c.work = Of(k).work
        /\ c.upToDate = Of(k).upToDate /\ c.fetched = Of(k).fetched /\ c.current = Of(k).current
    BY <1>2 DEF Checkout
  <2> HIDE DEF c
  <2>3. PICK s \in {"ready", "error"} :
            Goes(k, s) /\ (s = "ready" => put[k].st \in {"asked"} \cup Refreshing)
    BY <1>5 DEF RefreshFails, PutFails
  <2>4. UNCHANGED <<branch, holder, deciding, began, arrived, overtaken>>
    BY <1>5 DEF RefreshFails, PutFails
  <2>5. s \in States \ {"idle", "ok", "written", "staged", "committed"} /\ (s \in Early => put[k].st \in Early)
    BY <2>3 DEF States, Early, Refreshing, Working
  <2> QED
    BY <1>1, <2>1, <2>2, <2>3, <2>4, <2>5, TextsStay
<1> QED
  BY <1>3, <1>4, <1>5

LEMMA ResetStep == ASSUME UploadsInv, NEW k \in Put, Reset(k) PROVE UploadsInv'
<1> DEFINE u == put[k].user
           c == [Of(k) EXCEPT !.index = Of(k).head, !.work = Of(k).head]
<1>1. put[k].st = "fetched" /\ put[k].st # "idle" /\ put[k].st \in Early
  BY DEF Reset, Early, Refreshing
<1>2. Of(k) \in Checkout /\ checkout \in [Writer -> Checkout] /\ u \in Writer
  BY <1>1, OfThePut
<1>3. c \in Checkout /\ checkout' = [checkout EXCEPT ![u] = c]
  BY <1>2 DEF Reset, Of, Checkout
<1>4. /\ c.head = Of(k).head /\ c.index = Of(k).head /\ c.work = Of(k).head
      /\ c.upToDate = Of(k).upToDate /\ c.fetched = Of(k).fetched /\ c.current = Of(k).current
  BY <1>2 DEF Checkout
<1> HIDE DEF c
<1>5. Goes(k, "reset") /\ UNCHANGED <<branch, holder, deciding, began, arrived, overtaken>>
  BY DEF Reset
<1>6. \A j \in Put : put'[j].st = IF j = k THEN "reset" ELSE put[j].st
  BY <1>5 DEF Goes, UploadsInv, UploadsTypeOK
<1>7. Sound(u, c)
  BY <1>1, <1>4, OfThePut DEF Sound, Known, NotAgain, Abreast
<1>8. \A j \in Put : put'[j].st \in Early => Absent(j, c)
  BY <1>1, <1>4, <1>6, OfThePut DEF Absent
<1>9. \A j \in (Siblings(k) \cup {k}) \ overtaken' : Follows(j, put'[j].st, c, put[j].path)
  BY <1>1, <1>4, <1>5, <1>6, OfThePut DEF Follows, Siblings
<1>10. overtaken \subseteq Put /\ "reset" \in States \ {"idle", "ok"}
  BY DEF UploadsInv, UploadsTypeOK, States, Refreshing
<1> QED
  BY <1>1, <1>3, <1>5, <1>7, <1>8, <1>9, <1>10, LocalStep

LEMMA DetachStep == ASSUME UploadsInv, NEW k \in Put, Detach(k) PROVE UploadsInv'
<1> DEFINE u == put[k].user
           o == Of(k)
           Over(tree) == [p \in Path |-> IF p \in Changed(o) THEN tree[p] ELSE o.fetched[p]]
           c == [o EXCEPT !.head = o.fetched, !.index = Over(o.index), !.work = Over(o.work),
                          !.onBranch = FALSE, !.upToDate = o.current]
<1>1. put[k].st = "reset" /\ put[k].st # "idle" /\ put[k].st \in Early
  BY DEF Detach, Early, Refreshing
<1>2. o \in Checkout /\ checkout \in [Writer -> Checkout] /\ u \in Writer
  BY <1>1, OfThePut
<1>3. c \in Checkout /\ checkout' = [checkout EXCEPT ![u] = c]
  <2>1. Over(o.index) \in Tree /\ Over(o.work) \in Tree
    BY <1>2 DEF Tree, Checkout
  <2>2. checkout' = [checkout EXCEPT ![u] = c]
    BY DEF Detach
  <2> QED
    BY <1>2, <2>1, <2>2 DEF Checkout
<1>4. /\ c.head = o.fetched /\ c.upToDate = o.current /\ c.fetched = o.fetched /\ c.current = o.current
      /\ \A p \in Path :
          \/ /\ o.head[p] = o.fetched[p]
             /\ c.head[p] = o.head[p] /\ c.index[p] = o.index[p] /\ c.work[p] = o.work[p]
          \/ /\ o.work[p] = o.head[p] /\ o.index[p] = o.head[p]
             /\ c.head[p] = o.fetched[p] /\ c.index[p] = o.fetched[p] /\ c.work[p] = o.fetched[p]
  BY <1>2 DEF Checkout, Detach, Changed
<1> HIDE DEF c
<1>5. /\ Goes(k, "detached") /\ UNCHANGED <<branch, holder, deciding, began, arrived>>
      /\ overtaken' = overtaken \cup {j \in Siblings(k) : put[j].st = "committed"}
  BY DEF Detach
<1>6. \A j \in Put : put'[j].st = IF j = k THEN "detached" ELSE put[j].st
  BY <1>5 DEF Goes, UploadsInv, UploadsTypeOK
<1>7. /\ Sound(u, o)
      /\ \A j \in Put : put[j].st \in Early => Absent(j, o) /\ j \notin arrived
      /\ \A j \in (Siblings(k) \cup {k}) \ overtaken :
             Follows(j, put[j].st, o, put[j].path) /\ put[j].path \in Path \cup {NoOne}
  BY <1>1, OfThePut
<1> HIDE DEF o
<1>8. Sound(u, c)
  <2>1. Known(u, c)
    BY <1>4, <1>7 DEF Sound, Known
  <2>2. NotAgain(c)
    BY <1>4, <1>7 DEF Sound, NotAgain
  <2>3. Abreast(c)
    BY <1>4, <1>7 DEF Sound, Abreast
  <2> QED
    BY <2>1, <2>2, <2>3 DEF Sound
<1>9. \A j \in Put : put'[j].st \in Early => Absent(j, c)
  BY <1>1, <1>4, <1>6, <1>7 DEF Absent, Sound, Known
<1>10. \A j \in (Siblings(k) \cup {k}) \ overtaken' : Follows(j, put'[j].st, c, put[j].path)
  <2>1. ASSUME NEW j \in (Siblings(k) \cup {k}) \ overtaken' PROVE Follows(j, put'[j].st, c, put[j].path)
    <3>1. put'[j].st \in {"written", "staged", "committed"} =>
            j \in Siblings(k) /\ j \notin overtaken /\ put'[j].st = put[j].st /\ put[j].st # "committed"
      BY <1>5, <1>6 DEF Siblings
    <3>2. put'[j].st \in {"written", "staged", "committed"} => put[j].path \in Path
      BY <3>1 DEF UploadsInv, PutsHaveUsers, Siblings
    <3> QED
      BY <1>4, <1>7, <3>1, <3>2 DEF Follows
  <2> QED
    BY <2>1
<1>11. /\ overtaken \subseteq overtaken' /\ overtaken' \subseteq Put
       /\ "detached" \in States \ {"idle", "ok"}
  BY <1>5 DEF UploadsInv, UploadsTypeOK, States, Refreshing, Siblings
<1> QED
  BY <1>1, <1>3, <1>5, <1>8, <1>9, <1>10, <1>11, LocalStep

LEMMA WriteStep == ASSUME UploadsInv, NEW k \in Put, WriteUpload(k) PROVE UploadsInv'
<1> DEFINE u == put[k].user
           q == put[k].path
           o == Of(k)
           c == [o EXCEPT !.work[q] = k]
<1>1. put[k].st = "ready" /\ put[k].st # "idle" /\ put[k].st \in Early
  BY DEF WriteUpload, Early
<1>2. o \in Checkout /\ checkout \in [Writer -> Checkout] /\ u \in Writer /\ q \in Path
  BY <1>1, OfThePut
<1>3. c \in Checkout /\ checkout' = [checkout EXCEPT ![u] = c]
  <2>1. [o.work EXCEPT ![q] = k] \in Tree
    BY <1>2 DEF Checkout, Tree, Contents
  <2>2. checkout' = [checkout EXCEPT ![u] = c]
    BY <1>2 DEF WriteUpload, Of
  <2> QED
    BY <1>2, <2>1, <2>2 DEF Checkout
<1>4. /\ c.head = o.head /\ c.index = o.index /\ c.upToDate = o.upToDate
      /\ c.fetched = o.fetched /\ c.current = o.current
      /\ \A p \in Path : c.work[p] = IF p = q THEN k ELSE o.work[p]
  BY <1>2 DEF Checkout, Tree
<1> HIDE DEF c
<1>5. /\ Goes(k, "written") /\ UNCHANGED <<branch, holder, deciding, began, arrived>>
      /\ overtaken' = overtaken \cup
            {j \in Siblings(k) : put[j].path = q /\ put[j].st \in {"written", "staged", "committed"}}
  BY DEF WriteUpload
<1>6. \A j \in Put : put'[j].st = IF j = k THEN "written" ELSE put[j].st
  BY <1>5 DEF Goes, UploadsInv, UploadsTypeOK
<1>7. /\ Sound(u, o) /\ k \in PutsOf(u, q)
      /\ \A j \in Put : put[j].st \in Early => Absent(j, o) /\ j \notin arrived
      /\ \A j \in (Siblings(k) \cup {k}) \ overtaken :
             Follows(j, put[j].st, o, put[j].path) /\ put[j].path \in Path \cup {NoOne}
  BY <1>1, OfThePut DEF PutsOf
<1> HIDE DEF o
<1>8. Sound(u, c)
  <2>1. Known(u, c)
    BY <1>4, <1>7 DEF Sound, Known
  <2>2. k \notin arrived /\ \A p \in Path : k # o.head[p]
    BY <1>1, <1>7 DEF Absent
  <2>3. NotAgain(c)
    BY <1>4, <1>7, <2>2 DEF Sound, NotAgain
  <2>4. Abreast(c)
    BY <1>4, <1>7 DEF Sound, Abreast
  <2> QED
    BY <2>1, <2>3, <2>4 DEF Sound
<1>9. \A j \in Put : put'[j].st \in Early => Absent(j, c)
  <2>1. "written" \notin Early
    BY DEF Early, Refreshing
  <2> QED
    BY <1>1, <1>4, <1>6, <1>7, <2>1 DEF Absent
<1>10. \A j \in (Siblings(k) \cup {k}) \ overtaken' : Follows(j, put'[j].st, c, put[j].path)
  <2>1. ASSUME NEW j \in Siblings(k) \ overtaken' PROVE Follows(j, put'[j].st, c, put[j].path)
    <3>1. put'[j].st \in {"written", "staged", "committed"} =>
            j \notin overtaken /\ put'[j].st = put[j].st /\ put[j].path # q
      BY <1>5, <1>6 DEF Siblings
    <3>2. put'[j].st \in {"written", "staged", "committed"} => put[j].path \in Path
      BY <3>1 DEF UploadsInv, PutsHaveUsers, Siblings
    <3> QED
      BY <1>4, <1>7, <3>1, <3>2 DEF Follows
  <2>2. Follows(k, put'[k].st, c, q)
    BY <1>2, <1>4, <1>6 DEF Follows
  <2> QED
    BY <2>1, <2>2
<1>11. /\ overtaken \subseteq overtaken' /\ overtaken' \subseteq Put
       /\ "written" \in States \ {"idle", "ok"} /\ "written" \notin Early
  BY <1>5 DEF UploadsInv, UploadsTypeOK, States, Refreshing, Working, Siblings, Early
<1> QED
  BY <1>1, <1>3, <1>5, <1>8, <1>9, <1>10, <1>11, LocalStep

LEMMA AddStep == ASSUME UploadsInv, NEW k \in Put, Add(k) PROVE UploadsInv'
<1> DEFINE u == put[k].user
           q == put[k].path
           o == Of(k)
           c == [o EXCEPT !.index[q] = o.work[q]]
<1>1. put[k].st = "written" /\ put[k].st # "idle" /\ put[k].st \notin Early
  BY DEF Add, Early, Refreshing
<1>2. o \in Checkout /\ checkout \in [Writer -> Checkout] /\ u \in Writer /\ q \in Path
  BY <1>1, OfThePut
<1>3. c \in Checkout /\ checkout' = [checkout EXCEPT ![u] = c]
  <2>1. [o.index EXCEPT ![q] = o.work[q]] \in Tree
    BY <1>2 DEF Checkout, Tree
  <2>2. checkout' = [checkout EXCEPT ![u] = c]
    BY <1>2 DEF Add, Of
  <2> QED
    BY <1>2, <2>1, <2>2 DEF Checkout
<1>4. /\ c.head = o.head /\ c.work = o.work /\ c.upToDate = o.upToDate
      /\ c.fetched = o.fetched /\ c.current = o.current
      /\ \A p \in Path : c.index[p] = IF p = q THEN o.work[q] ELSE o.index[p]
  BY <1>2 DEF Checkout, Tree
<1> HIDE DEF c
<1>5. Goes(k, "staged") /\ UNCHANGED <<branch, holder, deciding, began, arrived, overtaken>>
  BY DEF Add
<1>6. \A j \in Put : put'[j].st = IF j = k THEN "staged" ELSE put[j].st
  BY <1>5 DEF Goes, UploadsInv, UploadsTypeOK
<1>7. /\ Sound(u, o)
      /\ \A j \in Put : put[j].st \in Early => Absent(j, o) /\ j \notin arrived
      /\ \A j \in (Siblings(k) \cup {k}) \ overtaken :
             Follows(j, put[j].st, o, put[j].path) /\ put[j].path \in Path \cup {NoOne}
  BY <1>1, OfThePut
<1> HIDE DEF o
<1>8. Sound(u, c)
  <2>1. Known(u, c)
    BY <1>4, <1>7 DEF Sound, Known
  <2>2. NotAgain(c)
    BY <1>4, <1>7 DEF Sound, NotAgain
  <2>3. Abreast(c)
    BY <1>4, <1>7 DEF Sound, Abreast
  <2> QED
    BY <2>1, <2>2, <2>3 DEF Sound
<1>9. \A j \in Put : put'[j].st \in Early => Absent(j, c)
  <2>1. "staged" \notin Early
    BY DEF Early, Refreshing
  <2> QED
    BY <1>1, <1>2, <1>4, <1>6, <1>7, <2>1 DEF Absent
<1>10. \A j \in (Siblings(k) \cup {k}) \ overtaken' : Follows(j, put'[j].st, c, put[j].path)
  <2>1. ASSUME NEW j \in Siblings(k) \ overtaken PROVE Follows(j, put'[j].st, c, put[j].path)
    <3>1. put'[j].st = put[j].st
      BY <1>6 DEF Siblings
    <3>2. put[j].st \in {"written", "staged", "committed"} => put[j].path \in Path
      BY DEF UploadsInv, PutsHaveUsers, Siblings
    <3> QED
      BY <1>4, <1>7, <3>1, <3>2 DEF Follows
  <2>2. k \notin overtaken => Follows(k, put'[k].st, c, q)
    BY <1>1, <1>2, <1>4, <1>6, <1>7 DEF Follows
  <2> QED
    BY <1>5, <2>1, <2>2
<1>11. /\ overtaken \subseteq overtaken' /\ overtaken' \subseteq Put
       /\ "staged" \in States \ {"idle", "ok"} /\ "staged" \notin Early
  BY <1>5 DEF UploadsInv, UploadsTypeOK, States, Refreshing, Working, Early
<1> QED
  BY <1>1, <1>3, <1>5, <1>8, <1>9, <1>10, <1>11, LocalStep

LEMMA CommitStep == ASSUME UploadsInv, NEW k \in Put, CommitUpload(k) PROVE UploadsInv'
<1> DEFINE u == put[k].user
           q == put[k].path
           o == Of(k)
           c == [o EXCEPT !.head = o.index]
<1>1. put[k].st = "staged" /\ put[k].st # "idle" /\ put[k].st \notin Early
  BY DEF CommitUpload, Early, Refreshing
<1>2. o \in Checkout /\ checkout \in [Writer -> Checkout] /\ u \in Writer /\ q \in Path
  BY <1>1, OfThePut
<1>3. UNCHANGED <<branch, holder, deciding, began, arrived, overtaken>>
  BY DEF CommitUpload
<1>4. CASE ~Differs(k)
  <2>1. Goes(k, "error") /\ checkout' = [checkout EXCEPT ![u] = o]
    BY <1>2, <1>4 DEF CommitUpload, Of
  <2>2. "error" \in States \ {"idle", "ok", "written", "staged", "committed"} /\ "error" \notin Early
    BY DEF States, Refreshing, Working, Early
  <2> QED
    BY <1>1, <1>2, <1>3, <2>1, <2>2, TextsStay
<1>5. CASE Differs(k)
  <2>1. c \in Checkout /\ checkout' = [checkout EXCEPT ![u] = c] /\ Goes(k, "committed")
    BY <1>2, <1>5 DEF CommitUpload, Of, Checkout
  <2>2. /\ c.head = o.index /\ c.index = o.index /\ c.work = o.work /\ c.upToDate = o.upToDate
        /\ c.fetched = o.fetched /\ c.current = o.current
    BY <1>2 DEF Checkout
  <2> HIDE DEF c
  <2>3. \A j \in Put : put'[j].st = IF j = k THEN "committed" ELSE put[j].st
    BY <2>1 DEF Goes, UploadsInv, UploadsTypeOK
  <2>4. /\ Sound(u, o)
        /\ \A j \in Put : put[j].st \in Early => Absent(j, o) /\ j \notin arrived
        /\ \A j \in (Siblings(k) \cup {k}) \ overtaken :
               Follows(j, put[j].st, o, put[j].path) /\ put[j].path \in Path \cup {NoOne}
    BY <1>1, OfThePut
  <2>5. o.index[q] # o.head[q]
    BY <1>5 DEF Differs
  <2> HIDE DEF o
  <2>6. Sound(u, c)
    <3>1. Known(u, c)
      BY <2>2, <2>4 DEF Sound, Known
    <3>2. NotAgain(c)
      BY <2>2, <2>4 DEF Sound, NotAgain
    <3>3. Abreast(c)
      BY <2>2, <2>4 DEF Sound, Abreast, NotAgain
    <3> QED
      BY <3>1, <3>2, <3>3 DEF Sound
  <2>7. "committed" \in States \ {"idle", "ok"} /\ "committed" \notin Early
    BY DEF States, Refreshing, Working, Early
  <2>8. \A j \in Put : put'[j].st \in Early => Absent(j, c)
    BY <2>2, <2>3, <2>4, <2>7 DEF Absent
  <2>9. \A j \in (Siblings(k) \cup {k}) \ overtaken' : Follows(j, put'[j].st, c, put[j].path)
    <3>1. ASSUME NEW j \in Siblings(k) \ overtaken PROVE Follows(j, put'[j].st, c, put[j].path)
      BY <2>2, <2>3, <2>4 DEF Follows, Siblings
    <3>2. k \notin overtaken => Follows(k, put'[k].st, c, q)
      BY <1>1, <2>2, <2>3, <2>4, <2>5 DEF Follows
    <3> QED
      BY <1>3, <3>1, <3>2
  <2>10. overtaken \subseteq overtaken' /\ overtaken' \subseteq Put
    BY <1>3 DEF UploadsInv, UploadsTypeOK
  <2> QED
    BY <1>1, <1>3, <2>1, <2>6, <2>7, <2>8, <2>9, <2>10, LocalStep
<1> QED
  BY <1>4, <1>5

(* The push.  What is new at GitHub came from this user's puts, so that no *)
(* other checkout has it; and who has not got it is not up to date.        *)
LEMMA PushedTexts ==
  ASSUME UploadsInv, NEW k \in Put, PushUpload(k), NEW p \in Path
  PROVE  /\ branch'[p] = Of(k).head[p]
         /\ branch'[p] = branch[p] \/ branch'[p] \in PutsOf(put[k].user, p) \ arrived
<1>1. put[k].st # "idle" /\ branch' = Of(k).head /\ Of(k).upToDate
  BY DEF PushUpload, Accepts
<1> QED
  BY <1>1, OfThePut DEF Sound, Known, Abreast

LEMMA PushStep == ASSUME UploadsInv, NEW k \in Put, PushUpload(k) PROVE UploadsInv'
<1> DEFINE u == put[k].user
           o == Of(k)
<1>1. /\ put[k].st = "committed" /\ put[k].st # "idle" /\ put[k].st \notin Early
      /\ branch' = o.head /\ o.upToDate /\ Goes(k, "ok")
      /\ arrived' = arrived \cup {branch'[p] : p \in Path}
      /\ UNCHANGED <<holder, deciding, began, overtaken>>
  BY DEF PushUpload, Accepts, Early, Refreshing
<1>2. /\ o \in Checkout /\ checkout \in [Writer -> Checkout] /\ u \in Writer
      /\ put \in [Put -> [st : States, user : Writer \cup {NoOne}, path : Path \cup {NoOne}]]
  BY <1>1, OfThePut DEF UploadsInv, UploadsTypeOK, States
<1>3. /\ put' \in [Put -> [st : States, user : Writer \cup {NoOne}, path : Path \cup {NoOne}]]
      /\ \A j \in Put : put'[j].user = put[j].user /\ put'[j].path = put[j].path
      /\ \A j \in Put : put'[j].st = IF j = k THEN "ok" ELSE put[j].st
  BY <1>1, <1>2 DEF Goes, States
<1>4. /\ checkout' \in [Writer -> Checkout]
      /\ \A w \in Writer :
          /\ checkout'[w].head = checkout[w].head /\ checkout'[w].index = checkout[w].index
          /\ checkout'[w].work = checkout[w].work
          /\ checkout'[w].fetched = branch' \/ checkout'[w].fetched = checkout[w].fetched
          /\ w = u => checkout'[w].fetched = branch'
          /\ w # u /\ checkout'[w].current => branch' = branch /\ checkout[w].current
          /\ w # u /\ checkout'[w].upToDate => branch' = branch /\ checkout[w].upToDate
          /\ w # u => checkout'[w].fetched = checkout[w].fetched
  <2>1. \A w \in Writer : checkout'[w] =
           IF w = u THEN [checkout[w] EXCEPT !.fetched = branch', !.current = TRUE]
           ELSE IF branch' = branch THEN checkout[w]
           ELSE [checkout[w] EXCEPT !.current = FALSE, !.upToDate = FALSE]
    BY DEF PushUpload
  <2>2. checkout' = [w \in Writer |-> checkout'[w]]
    BY DEF PushUpload
  <2>3. branch' \in Tree
    BY <1>1, <1>2 DEF Checkout
  <2>4. ASSUME NEW w \in Writer
        PROVE  /\ checkout'[w] \in Checkout
               /\ checkout'[w].head = checkout[w].head /\ checkout'[w].index = checkout[w].index
               /\ checkout'[w].work = checkout[w].work
               /\ checkout'[w].fetched = branch' \/ checkout'[w].fetched = checkout[w].fetched
               /\ w = u => checkout'[w].fetched = branch'
               /\ w # u /\ checkout'[w].current => branch' = branch /\ checkout[w].current
               /\ w # u /\ checkout'[w].upToDate => branch' = branch /\ checkout[w].upToDate
               /\ w # u => checkout'[w].fetched = checkout[w].fetched
    <3>1. checkout[w] \in Checkout
      BY <1>2
    <3> HIDE DEF u
    <3>2. CASE w = u
      BY <2>1, <2>3, <3>1, <3>2 DEF Checkout
    <3>3. CASE w # u /\ branch' = branch
      BY <2>1, <3>1, <3>3
    <3>4. CASE w # u /\ branch' # branch
      BY <2>1, <3>1, <3>4 DEF Checkout
    <3> QED
      BY <3>2, <3>3, <3>4
  <2> QED
    BY <2>2, <2>4
<1>5. \A w \in Writer, p \in Path : PutsOf(w, p)' = PutsOf(w, p)
  BY <1>3 DEF PutsOf
<1>6. /\ branch' \in Tree /\ arrived \subseteq arrived' /\ arrived' \subseteq Contents
      /\ \A p \in Path : branch'[p] \in arrived'
  BY <1>1, <1>2 DEF Checkout, Tree, UploadsInv, UploadsTypeOK
<1>7. \A x \in arrived' \ arrived : \E p \in Path : x = branch'[p] /\ x = o.head[p] /\ x \in PutsOf(u, p)
  BY <1>1, PushedTexts DEF UploadsInv, BranchArrived
<1>8. UploadsTypeOK' /\ PutsHaveUsers' /\ BranchArrived' /\ LockedPuts'
  BY <1>1, <1>3, <1>4, <1>6
     DEF UploadsInv, UploadsTypeOK, PutsHaveUsers, BranchArrived, LockedPuts, States, Checkout
<1>9. CheckoutsSound'
  <2>1. ASSUME NEW w \in Writer PROVE Sound(w, checkout[w])'
    <3>0. Sound(w, checkout[w]) /\ Sound(u, o)
      BY <1>2 DEF UploadsInv, CheckoutsSound, Of
    <3>1. Known(w, checkout[w])'
      BY <1>4, <1>5, <1>6, <3>0 DEF Sound, Known
    <3>2. NotAgain(checkout[w])'
      <4>1. ASSUME NEW p \in Path, checkout[w].index[p] \in arrived'
            PROVE  checkout[w].index[p] = checkout[w].head[p]
        <5>1. CASE checkout[w].index[p] \in arrived
          BY <3>0, <5>1 DEF Sound, NotAgain
        <5>2. CASE checkout[w].index[p] \notin arrived
          <6>1. PICK r \in Path : checkout[w].index[p] = o.head[r] /\ checkout[w].index[p] \in PutsOf(u, r)
            BY <1>7, <4>1, <5>2
          <6>2. CASE checkout[w].index[p] \in PutsOf(w, p)
            BY <6>1, <6>2 DEF PutsOf, Of
          <6> QED
            BY <3>0, <6>2 DEF Sound, Known
        <5> QED
          BY <5>1, <5>2
      <4>2. ASSUME NEW p \in Path, checkout[w].work[p] \in arrived' \cup {checkout[w].head[p]}
            PROVE  checkout[w].work[p] = checkout[w].index[p]
        <5>1. CASE checkout[w].work[p] \in arrived \cup {checkout[w].head[p]}
          BY <3>0, <5>1 DEF Sound, NotAgain
        <5>2. CASE checkout[w].work[p] \in arrived' \ arrived
          <6>1. PICK r \in Path : checkout[w].work[p] = o.head[r] /\ checkout[w].work[p] \in PutsOf(u, r)
            BY <1>7, <5>2
          <6>2. CASE checkout[w].work[p] \in PutsOf(w, p)
            <7>1. checkout[w].work[p] = checkout[w].head[p]
              BY <6>1, <6>2 DEF PutsOf, Of
            <7> QED
              BY <3>0, <7>1 DEF Sound, NotAgain
          <6> QED
            BY <3>0, <6>2 DEF Sound, Known
        <5> QED
          BY <4>2, <5>1, <5>2
      <4> QED
        BY <1>4, <4>1, <4>2 DEF NotAgain
    <3>3. Abreast(checkout[w])'
      <4>1. CASE w = u
        BY <1>1, <1>4, <4>1 DEF Abreast, Of
      <4>2. CASE w # u
        <5>1. branch' = branch => arrived' = arrived
          BY <1>1 DEF UploadsInv, BranchArrived
        <5> QED
          BY <1>4, <3>0, <4>2, <5>1 DEF Sound, Abreast
      <4> QED
        BY <4>1, <4>2
    <3> QED
      BY <3>1, <3>2, <3>3 DEF Sound
  <2> QED
    BY <2>1 DEF CheckoutsSound
<1>10. Unwritten'
  <2>1. ASSUME NEW j \in Put, put'[j].st \in Early
        PROVE  j \notin arrived' /\ \A w \in Writer : Absent(j, checkout[w])'
    <3>1. put[j].st \in Early
      BY <1>3, <2>1 DEF Early, Refreshing
    <3>2. j \notin arrived /\ \A w \in Writer : Absent(j, checkout[w])
      BY <3>1 DEF UploadsInv, Unwritten
    <3>3. j \notin arrived'
      BY <1>2, <1>7, <3>2 DEF Absent, Of
    <3> QED
      BY <1>4, <3>2, <3>3 DEF Absent
  <2> QED
    BY <2>1 DEF Unwritten
<1>11. PutsFollowed'
  <2>1. ASSUME NEW j \in Put \ overtaken, put'[j].st # "idle"
        PROVE  Follows(j, put'[j].st, checkout'[put[j].user], put[j].path)
    <3>1. CASE j = k
      BY <1>3, <3>1 DEF Follows
    <3>2. CASE j # k
      <4>1. put[j].st # "idle" /\ put'[j].st = put[j].st /\ put[j].user \in Writer
        BY <1>3, <2>1, <3>2 DEF UploadsInv, PutsHaveUsers
      <4>2. Follows(j, put[j].st, checkout[put[j].user], put[j].path)
        BY <4>1 DEF UploadsInv, PutsFollowed, Of
      <4> QED
        BY <1>4, <4>1, <4>2 DEF Follows
    <3> QED
      BY <3>1, <3>2
  <2> QED
    BY <1>1, <1>3, <2>1 DEF PutsFollowed, Follows, Of
<1>12. LockedPathsRest'
  <2>1. ASSUME NEW p \in Path, holder[p] # NoOne PROVE branch'[p] \in began[p]
    BY <2>1, PushedTexts DEF UploadsInv, LockedPathsRest, LockedPuts, PutsOf
  <2> QED
    BY <1>1, <2>1 DEF LockedPathsRest
<1>13. AnsweredIsPushed'
  <2>1. k \in arrived' \cup overtaken
    <3>1. k \notin overtaken => o.head[put[k].path] = k /\ put[k].path \in Path
      BY <1>1, OfThePut DEF Follows
    <3> QED
      BY <1>1, <3>1
  <2> QED
    BY <1>1, <1>3, <2>1 DEF UploadsInv, AnsweredIsPushed
<1> QED
  BY <1>8, <1>9, <1>10, <1>11, <1>12, <1>13 DEF UploadsInv

LEMMA AskStep ==
  ASSUME UploadsInv, NEW k \in Put, NEW u \in Writer, NEW q \in Path, AskPut(k, u, q)
  PROVE  UploadsInv'
<1> DEFINE asked == [st |-> "asked", user |-> u, path |-> q]
<1>1. /\ put[k].st = "idle" /\ put[k].user = NoOne /\ put[k].path = NoOne /\ holder[q] = NoOne
      /\ put' = [put EXCEPT ![k] = asked]
      /\ UNCHANGED <<branch, checkout, holder, deciding, began, arrived, overtaken>>
  BY DEF AskPut, NotAsked
<1>2. put \in [Put -> [st : States, user : Writer \cup {NoOne}, path : Path \cup {NoOne}]]
  BY DEF UploadsInv, UploadsTypeOK, States
<1>3. /\ put' \in [Put -> [st : States, user : Writer \cup {NoOne}, path : Path \cup {NoOne}]]
      /\ \A j \in Put : put'[j] = IF j = k THEN asked ELSE put[j]
      /\ asked.st = "asked" /\ asked.user = u /\ asked.path = q
  BY <1>1, <1>2 DEF States
<1> HIDE DEF asked
<1>4. \A w \in Writer, p \in Path : PutsOf(w, p) \subseteq PutsOf(w, p)'
  BY <1>1, <1>3, UploadsAssumption DEF PutsOf
<1>5. UploadsTypeOK' /\ PutsHaveUsers' /\ BranchArrived' /\ LockedPathsRest' /\ AnsweredIsPushed'
  BY <1>1, <1>3
     DEF UploadsInv, UploadsTypeOK, PutsHaveUsers, BranchArrived, LockedPathsRest, AnsweredIsPushed,
         States
<1>6. CheckoutsSound'
  <2>1. ASSUME NEW w \in Writer PROVE Sound(w, checkout[w])'
    BY <1>1, <1>4 DEF UploadsInv, CheckoutsSound, Sound, Known, NotAgain, Abreast
  <2> QED
    BY <2>1 DEF CheckoutsSound
<1>7. Unwritten'
  BY <1>1, <1>3 DEF UploadsInv, Unwritten, Absent, Early
<1>8. PutsFollowed'
  <2>1. ASSUME NEW j \in Put \ overtaken, put'[j].st # "idle"
        PROVE  Follows(j, put'[j].st, checkout[put'[j].user], put'[j].path)
    <3>1. CASE j = k
      BY <1>3, <3>1 DEF Follows
    <3>2. CASE j # k
      BY <1>3, <2>1, <3>2 DEF UploadsInv, PutsFollowed, Of
    <3> QED
      BY <3>1, <3>2
  <2> QED
    BY <1>1, <2>1 DEF PutsFollowed, Follows, Of
<1>9. LockedPuts'
  BY <1>1, <1>3 DEF UploadsInv, LockedPuts
<1> QED
  BY <1>5, <1>6, <1>7, <1>8, <1>9 DEF UploadsInv

LEMMA LockSteps ==
  ASSUME UploadsInv,
         \/ \E u \in Writer, p \in Path : AskLock(u, p) \/ AskUnlock(u, p)
         \/ \E d \in deciding : CommitLock(d) \/ CommitUnlock(d)
         \/ UNCHANGED uvars
  PROVE  UploadsInv'
<1>1. UNCHANGED <<branch, checkout, put, arrived, overtaken>>
  BY DEF AskLock, AskUnlock, CommitLock, CommitUnlock, uvars
<1>2. PutsHaveUsers' /\ BranchArrived' /\ Unwritten' /\ PutsFollowed' /\ AnsweredIsPushed'
  BY <1>1
     DEF UploadsInv, PutsHaveUsers, BranchArrived, Unwritten, PutsFollowed, AnsweredIsPushed, Absent,
         Follows, Of
<1>3. CheckoutsSound'
  BY <1>1 DEF UploadsInv, CheckoutsSound, Sound, Known, NotAgain, Abreast, PutsOf
<1> DEFINE Kept == /\ deciding' \subseteq [op : {"lock", "unlock"}, user : Writer, path : Path]
                   /\ holder' \in [Path -> Writer \cup {NoOne}] /\ began' \in [Path -> SUBSET Contents]
                   /\ LockedPuts' /\ LockedPathsRest'
<1>4. Kept
  <2> USE DEF UploadsInv, UploadsTypeOK, LockedPuts, LockedPathsRest
  <2>1. CASE UNCHANGED <<holder, began>>
    <3>1. deciding' \subseteq [op : {"lock", "unlock"}, user : Writer, path : Path]
      BY DEF AskLock, AskUnlock, CommitLock, CommitUnlock, uvars
    <3> QED
      BY <1>1, <2>1, <3>1
  <2>2. ASSUME NEW d \in deciding, CommitLock(d), holder[d.path] = NoOne
        PROVE  Kept
    <3>1. /\ d.path \in Path /\ d.user \in Writer /\ deciding' = deciding \ {d}
          /\ holder' = [holder EXCEPT ![d.path] = d.user]
          /\ began' = [began EXCEPT ![d.path] =
                 {branch[d.path]} \cup {k \in Put : put[k].path = d.path}]
      BY <2>2 DEF CommitLock
    <3>2. {branch[d.path]} \cup {k \in Put : put[k].path = d.path} \in SUBSET Contents
      BY <3>1 DEF Tree, Contents
    <3> QED
      BY <1>1, <3>1, <3>2
  <2>3. ASSUME NEW d \in deciding, CommitUnlock(d)
        PROVE  Kept
    <3>1. /\ d.path \in Path /\ deciding' = deciding \ {d}
          /\ holder' = [holder EXCEPT ![d.path] = NoOne]
          /\ began' = [began EXCEPT ![d.path] = {}]
      BY <2>3 DEF CommitUnlock
    <3> QED
      BY <1>1, <3>1
  <2> QED
    BY <2>1, <2>2, <2>3 DEF AskLock, AskUnlock, CommitLock, uvars
<1> QED
  BY <1>1, <1>2, <1>3, <1>4 DEF UploadsInv, UploadsTypeOK

LEMMA UploadsStep == ASSUME UploadsInv, [UploadsNext]_uvars PROVE UploadsInv'
  BY AskStep, RefreshSteps, ResetStep, DetachStep, WriteStep, AddStep, CommitStep, PushStep, LockSteps
     DEF UploadsNext

LEMMA UploadsInvariance == UploadsSpec => []UploadsInv
<1>1. UploadsInit => UploadsInv
  BY UploadsInitially
<1>2. UploadsInv /\ [UploadsNext]_uvars => UploadsInv'
  BY UploadsStep
<1> QED
  BY <1>1, <1>2, PTL DEF UploadsSpec

THEOREM UploadsTypeCorrect == UploadsSpec => []UploadsTypeOK
<1>1. UploadsInv => UploadsTypeOK
  BY DEF UploadsInv
<1> QED
  BY <1>1, UploadsInvariance, PTL

(* A put that is answered 200 was pushed, unless another request of its    *)
(* user got in its way (core.py 1307-1316, git.py 336-344).                *)
THEOREM AnsweredPutsArePushed == UploadsSpec => []AnsweredIsPushed
<1>1. UploadsInv => AnsweredIsPushed
  BY DEF UploadsInv
<1> QED
  BY <1>1, UploadsInvariance, PTL

(* A locked file changes only by puts that were past their check before it *)
(* was locked (core.py 1304-1306).                                         *)
THEOREM LockedPathsStay == UploadsSpec => []LockedPathsRest
<1>1. UploadsInv => LockedPathsRest
  BY DEF UploadsInv
<1> QED
  BY <1>1, UploadsInvariance, PTL

(* No push brings back a text that was at GitHub before, from whatever     *)
(* checkout and after whatever failures (core.py 1314-1316).               *)
THEOREM NoPushReverts == UploadsSpec => PushesNeverRevert
<1> DEFINE Forward == \A p \in Path : branch'[p] # branch[p] => branch'[p] \notin arrived
<1>1. ASSUME UploadsInv, UploadsNext PROVE Forward
  <2>1. CASE \E k \in Put : PushUpload(k)
    BY <1>1, <2>1, PushedTexts
  <2>2. CASE UNCHANGED branch
    BY <2>2
  <2>3. UNCHANGED branch \/ \E k \in Put : PushUpload(k)
    BY <1>1
       DEF UploadsNext, AskPut, Fetch, Reset, Detach, Rebranch, RefreshFails, WriteUpload, Add,
           CommitUpload, PutFails, AskLock, AskUnlock, CommitLock, CommitUnlock
  <2> QED
    BY <2>1, <2>2, <2>3
<1>2. UploadsInv /\ [UploadsNext]_uvars => [Forward]_uvars
  BY <1>1
<1> HIDE DEF Forward
<1>3. UploadsSpec => [][Forward]_uvars
  BY <1>2, UploadsInvariance, PTL DEF UploadsSpec
<1> QED
  BY <1>3 DEF PushesNeverRevert, Forward

-----------------------------------------------------------------------------

(* What is proved of either group holds of the specification the run has:  *)
(* its behaviours are behaviours of both groups.                           *)
THEOREM RequestsAreOfBothGroups == RequestsSpec => Spec /\ UploadsSpec
<1>1. RequestsInit => Init /\ UploadsInit
  BY DEF RequestsInit
<1>2. [RequestsNext]_requestVars => [Next]_vars /\ [UploadsNext]_uvars
  BY DEF RequestsNext, requestVars
<1> QED
  BY <1>1, <1>2, PTL DEF RequestsSpec, Spec, UploadsSpec

=============================================================================
