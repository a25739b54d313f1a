-------------------------- MODULE SessionPartsProofs -------------------------
(***************************************************************************)
(* Proofs about three of the parts: that a Zotero flow that is open stays  *)
(* so, that an uploaded object stays, and that the sign-in pages keep an   *)
(* invite and the states of their flows, for any number of tabs, flows,    *)
(* calls, objects and uploads.                                             *)
(***************************************************************************)
EXTENDS SessionParts, FiniteSetTheorems, SequenceTheorems, TLAPS

(***************************************************************************)
(* Zotero.  A call that has passed its check and not yet deleted the row   *)
(* works for the newest flow, or began before it, and the flow counts as   *)
(* raced, or that flow is no longer open.                                  *)
(***************************************************************************)

CallsHaveFlows == \A c \in Finish : finish[c].st # "idle" => finish[c].flow \in ZoteroFlows

SpentOnceExchanged ==
    \A c \in Finish : finish[c].st \in {"exchanged", "saving"} => oauth[finish[c].flow] = "exchanged"

FinishesNewest ==
    \A c \in Finish :
        finish[c].st # "idle" /\ newest # None /\ newest \notin raced /\ oauth[newest] = "open"
            => finish[c].flow = newest

ZoteroInv ==
    ZoteroTypeOK /\ CallsHaveFlows /\ SpentOnceExchanged /\ FinishesNewest /\ OpenFlowCanFinish

LEMMA ZoteroInitially == ASSUME ZoteroInit PROVE ZoteroInv
  BY DEF ZoteroInit, ZoteroInv, ZoteroTypeOK, CallsHaveFlows, SpentOnceExchanged,
         FinishesNewest, OpenFlowCanFinish, NoFinish

LEMMA ZoteroStep == ASSUME ZoteroInv, [ZoteroNext]_zvars PROVE ZoteroInv'
<1> USE ZoteroAssumption
<1> USE DEF ZoteroInv, ZoteroTypeOK, CallsHaveFlows, SpentOnceExchanged, FinishesNewest,
            OpenFlowCanFinish, None, NoFinish
<1>1. ASSUME NEW f \in ZoteroFlows, FetchRequestToken(f) PROVE ZoteroInv'
  BY <1>1 DEF FetchRequestToken
<1>2. ASSUME NEW f \in ZoteroFlows, SaveRequestToken(f) PROVE ZoteroInv'
  BY <1>2 DEF SaveRequestToken
<1>3. ASSUME NEW f \in ZoteroFlows, StartFails(f) PROVE ZoteroInv'
  BY <1>3 DEF StartFails
<1>4. ASSUME NEW c \in Finish, NEW f \in ZoteroFlows, Accept(c, f) PROVE ZoteroInv'
  BY <1>4 DEF Accept, CanPresent
<1>5. ASSUME NEW c \in Finish, NEW f \in ZoteroFlows, Mismatch(c, f) PROVE ZoteroInv'
  BY <1>5 DEF Mismatch, zvars
<1>6. ASSUME NEW c \in Finish, Exchange(c) PROVE ZoteroInv'
  BY <1>6 DEF Exchange
<1>7. ASSUME NEW c \in Finish, ClearPending(c) PROVE ZoteroInv'
  BY <1>7 DEF ClearPending
<1>8. ASSUME NEW c \in Finish, SaveKey(c) PROVE ZoteroInv'
  BY <1>8 DEF SaveKey
<1>9. ASSUME NEW c \in Finish, FinishFails(c) PROVE ZoteroInv'
  BY <1>9 DEF FinishFails
<1>10. CASE Disconnect
  BY <1>10 DEF Disconnect
<1>11. CASE UNCHANGED zvars
  BY <1>11 DEF zvars
<1> QED
  BY <1>1, <1>2, <1>3, <1>4, <1>5, <1>6, <1>7, <1>8, <1>9, <1>10, <1>11 DEF ZoteroNext

(* The flow a user began last can be finished until it is exchanged, unless *)
(* the finish of another overlapped its beginning (routes/users.py 725).    *)
THEOREM NewestFlowStaysOpen == ZoteroSpec => []OpenFlowCanFinish
<1>1. ZoteroInit => ZoteroInv
  BY ZoteroInitially
<1>2. ZoteroInv /\ [ZoteroNext]_zvars => ZoteroInv'
  BY ZoteroStep
<1>3. ZoteroInv => OpenFlowCanFinish
  BY DEF ZoteroInv
<1> QED
  BY <1>1, <1>2, <1>3, PTL DEF ZoteroSpec

-----------------------------------------------------------------------------
(***************************************************************************)
(* The DVC remote.  An upload that is alone on its object owns the pending *)
(* path; what it is about to rename has the digest it computed.            *)
(***************************************************************************)

Intact(o) == stored[o] # "none" /\ (o \notin torn => stored[o] = "good")

AloneOnObject ==
    \A u, v \in Upload :
        Active(u) /\ Active(v) /\ u # v /\ upload[u].alone => upload[v].object # upload[u].object

MatchedIsGood ==
    \A u \in Upload :
        Active(u) /\ upload[u].st = "matched" /\ upload[u].alone => partial[upload[u].object] = "good"

CopiedIsIntact ==
    \A u \in Upload : Active(u) /\ upload[u].st = "copied" => Intact(upload[u].object)

RemoteInv == RemoteTypeOK /\ AloneOnObject /\ MatchedIsGood /\ CopiedIsIntact /\ ToldStored

LEMMA RemoteInitially == ASSUME RemoteInit PROVE RemoteInv
  BY DEF RemoteInit, RemoteInv, RemoteTypeOK, AloneOnObject, MatchedIsGood, CopiedIsIntact,
         ToldStored, Active, Content

LEMMA RemoteStep == ASSUME RemoteInv, [RemoteNext]_rvars PROVE RemoteInv'
<1> USE DEF RemoteInv, RemoteTypeOK, AloneOnObject, MatchedIsGood, CopiedIsIntact, ToldStored,
            Active, Content, Intact, NoUpload, UploadState
<1>1. ASSUME NEW u \in Upload, NEW o \in Object, StartUpload(u, o) PROVE RemoteInv'
  <2> DEFINE others == {v \in Upload : Active(v) /\ upload[v].object = o}
             started == [st |-> "streaming", object |-> o, alone |-> others = {}]
  <2> HIDE DEF others
  <2>1. /\ UNCHANGED <<stored, partial, told, torn>>
        /\ upload[u] = NoUpload
        /\ upload' \in [Upload -> {NoUpload} \cup UploadState]
        /\ upload'[u] = started
    BY <1>1, Zenon DEF StartUpload, others
  <2>2. ASSUME NEW v \in Upload \ {u}
        PROVE  IF v \in others THEN upload'[v] = [upload[v] EXCEPT !.alone = FALSE]
                               ELSE upload'[v] = upload[v]
    BY <1>1 DEF StartUpload, others
  <2>3. ASSUME NEW v \in Upload \ {u}, Active(v)'
        PROVE  /\ Active(v)
               /\ upload'[v].st = upload[v].st /\ upload'[v].object = upload[v].object
               /\ upload'[v].alone => upload[v].alone /\ upload[v].object # o
    <3>1. CASE v \in others
      <4>1. upload[v] \in UploadState /\ upload[v].object = o
        BY <3>1 DEF others
      <4>2. upload'[v] = [upload[v] EXCEPT !.alone = FALSE]
        BY <2>2, <3>1
      <4> QED
        BY <4>1, <4>2
    <3>2. CASE v \notin others
      BY <2>2, <2>3, <3>2 DEF others
    <3> QED
      BY <3>1, <3>2
  <2>4. started.alone => \A v \in Upload : Active(v) => upload[v].object # o
    BY DEF others
  <2>5. AloneOnObject'
    BY <2>1, <2>3, <2>4
  <2>6. MatchedIsGood' /\ CopiedIsIntact'
    BY <2>1, <2>3
  <2> QED
    BY <2>1, <2>5, <2>6
<1>2. ASSUME NEW u \in Upload, NEW body \in Content \ {"none"}, CloseFile(u, body) PROVE RemoteInv'
  BY <1>2 DEF CloseFile, DigestMatches
<1>3. ASSUME NEW u \in Upload, CopyPending(u) PROVE RemoteInv'
  BY <1>3 DEF CopyPending
<1>4. ASSUME NEW u \in Upload, RemovePending(u) PROVE RemoteInv'
  BY <1>4 DEF RemovePending
<1>5. ASSUME NEW u \in Upload, Clean(u) PROVE RemoteInv'
  BY <1>5 DEF Clean
<1>6. ASSUME NEW u \in Upload, StoreFails(u) PROVE RemoteInv'
  BY <1>6 DEF StoreFails
<1>7. ASSUME NEW u \in Upload, Die(u) PROVE RemoteInv'
  BY <1>7 DEF Die
<1>8. CASE UNCHANGED rvars
  BY <1>8 DEF rvars
<1> QED
  BY <1>1, <1>2, <1>3, <1>4, <1>5, <1>6, <1>7, <1>8 DEF RemoteNext

(* What a client was told is stored stays, with the content of its name,    *)
(* unless uploads of it overlapped (dvc.py 82-115).                         *)
THEOREM ToldObjectsStay == RemoteSpec => []ToldStored
<1>1. RemoteInit => RemoteInv
  BY RemoteInitially
<1>2. RemoteInv /\ [RemoteNext]_rvars => RemoteInv'
  BY RemoteStep
<1>3. RemoteInv => ToldStored
  BY DEF RemoteInv
<1> QED
  BY <1>1, <1>2, <1>3, PTL DEF RemoteSpec

-----------------------------------------------------------------------------
(***************************************************************************)
(* The sign-in pages.  Whatever logs in pops the redirect, and a page is   *)
(* shown as the join page only by a navigation that leaves no request      *)
(* behind whose answer could navigate away before its effect has run.      *)
(***************************************************************************)

Tabular == page = [t \in Tab |-> page[t]] /\ request = [t \in Tab |-> request[t]]

VisitorHasRedirect == redirect # NoTarget => ~loggedIn

JoinWaitsForNothing == \A t \in Tab : page[t] = At("join") => request[t] = "none"

HasItsFlow(p) == p.at \in Provider \cup {"handled"} => p.flow # 0

FlowsKnown == HasItsFlow(redirect) /\ \A t \in Tab : HasItsFlow(page[t])

PagesInv == Tabular /\ VisitorHasRedirect /\ JoinWaitsForNothing /\ FlowsKnown /\ InviteKept

LEMMA PagesInitially == ASSUME SignInInit PROVE PagesInv
  BY DEF SignInInit, PagesInv, Tabular, VisitorHasRedirect, JoinWaitsForNothing, InviteKept,
         FlowsKnown, HasItsFlow, Provider, At, Closed, NoTarget

(* A tab that is not at the join page goes somewhere and leaves the rest.   *)
LEMMA Elsewhere ==
  ASSUME PagesInv, NEW t \in Tab, page[t] # At("join"),
         NEW p, page' = [page EXCEPT ![t] = p], p # At("join"), HasItsFlow(p),
         \/ UNCHANGED request
         \/ \E r : request' = [request EXCEPT ![t] = r],
         UNCHANGED <<redirect, inviteHistory>>, loggedIn' => loggedIn
  PROVE  PagesInv'
  BY DEF PagesInv, Tabular, VisitorHasRedirect, JoinWaitsForNothing, FlowsKnown, InviteKept,
         inviteHistory

LEMMA EnteringLogin ==
  ASSUME PagesInv, NEW t \in Tab, NEW p \in {"login", "signup"}, EnterLogin(t, p)
  PROVE  /\ page' = [page EXCEPT ![t] = page'[t]]
         /\ page'[t] # At("join") /\ HasItsFlow(page'[t])
         /\ redirect' = redirect
  BY DEF PagesInv, Tabular, VisitorHasRedirect, EnterLogin, Pop, PoppedFrom, Enter, At, NoTarget,
         HasItsFlow, Provider

LEMMA PagesStep == ASSUME PagesInv, [SignInNext]_svars PROVE PagesInv'
<1> USE DEF At, FlowsKnown, HasItsFlow, Provider
<1>1. ASSUME NEW t \in Tab, NEW p \in Target, OpenLink(t, p) PROVE PagesInv'
  <2>1. page[t] # At("join") /\ Tabular /\ p \notin {Closed, Away} /\ HasItsFlow(p)
    BY <1>1 DEF OpenLink, AtRest, Unsettled, Away, Closed, PagesInv, Target
  <2>2. /\ page' = [page EXCEPT ![t] = p] /\ request' = [request EXCEPT ![t] = "none"]
        /\ UNCHANGED <<loggedIn, redirect, inviteHistory>>
    BY <1>1 DEF OpenLink, Load, Enter
  <2>3. VisitorHasRedirect' /\ Tabular' /\ FlowsKnown'
    BY <2>1, <2>2 DEF PagesInv, Tabular, VisitorHasRedirect
  <2>4. JoinWaitsForNothing' /\ InviteKept'
    BY <2>1, <2>2 DEF PagesInv, Tabular, JoinWaitsForNothing, InviteKept, inviteHistory
  <2> QED
    BY <2>3, <2>4 DEF PagesInv
<1>2. ASSUME NEW t \in Tab, Leave(t) \/ OpenSettings(t) PROVE PagesInv'
  BY <1>2, Elsewhere DEF Leave, OpenSettings, Enter, AtRest, Unsettled, PagesInv, Tabular
<1>3. ASSUME NEW t \in Tab, SignInFrom(t) PROVE PagesInv'
  <2> DEFINE q == page'[t]
  <2>1. /\ page[t] # At("join") /\ q \in {page[t], At("login")} /\ redirect' # At("join")
        /\ page' = [page EXCEPT ![t] = q] /\ UNCHANGED <<loggedIn, request>>
        /\ redirect' \in {NoTarget, page[t]} /\ (redirect' # NoTarget => ~loggedIn)
        /\ followed' = followed /\ displaced' = (displaced \/ redirect = At("join"))
    BY <1>3 DEF SignInFrom, Enter, NoTarget, PagesInv, Tabular
  <2>2. q # At("join") /\ HasItsFlow(q) /\ HasItsFlow(redirect')
    BY <2>1 DEF PagesInv, NoTarget
  <2> HIDE DEF q
  <2>3. VisitorHasRedirect' /\ Tabular' /\ FlowsKnown'
    BY <2>1, <2>2 DEF PagesInv, Tabular, VisitorHasRedirect
  <2>4. JoinWaitsForNothing' /\ InviteKept'
    BY <2>1, <2>2 DEF PagesInv, Tabular, JoinWaitsForNothing, InviteKept
  <2> QED
    BY <2>3, <2>4 DEF PagesInv
<1>4. ASSUME NEW t \in Tab, OtherForm(t) PROVE PagesInv'
  <2>1. page[t] # At("join")
    BY <1>4 DEF OtherForm, LoginShown
  <2>2. PICK p \in {"login", "signup"} : EnterLogin(t, p)
    BY <1>4 DEF OtherForm
  <2>3. PICK q : page' = [page EXCEPT ![t] = q] /\ q # At("join") /\ HasItsFlow(q) /\ redirect' = redirect
    BY <2>2, EnteringLogin
  <2> QED
    BY <1>4, <2>1, <2>3, Elsewhere DEF OtherForm, inviteHistory
<1>5. ASSUME NEW t \in Tab, NEW p, NEW q, page[t] # At("join"), Begin(t, p, q) PROVE PagesInv'
  BY <1>5, Elsewhere DEF Begin, Load, Enter, Away, PagesInv, Tabular
<1>6. ASSUME NEW t \in Tab,
             ClickGitHub(t) \/ ClickGoogle(t) \/ ConnectGoogle(t) \/ ConnectZenodo(t)
      PROVE  PagesInv'
  BY <1>5, <1>6 DEF ClickGitHub, ClickGoogle, ConnectGoogle, ConnectZenodo, LoginShown
<1>7. ASSUME NEW t \in Tab, NEW f \in Flow, ProviderReturns(t, f) PROVE PagesInv'
  <2>1. /\ page[t] # At("join") /\ page' = [page EXCEPT ![t] = Callback(f)]
        /\ request' = [request EXCEPT ![t] = "none"] /\ UNCHANGED <<loggedIn, redirect, inviteHistory>>
    BY <1>7 DEF ProviderReturns, Load, Enter, Away
  <2>2. f # 0
    BY SignInAssumption DEF Flow
  <2>3. Callback(f) # At("join") /\ HasItsFlow(Callback(f))
    BY <2>2 DEF Callback
  <2> QED
    BY <2>1, <2>3, Elsewhere
<1>8. ASSUME NEW t \in Tab, Reload(t) PROVE PagesInv'
  <2> DEFINE f == page[t].flow
  <2>1. /\ page[t] # At("join") /\ page' = [page EXCEPT ![t] = Callback(f)]
        /\ request' = [request EXCEPT ![t] = "none"] /\ UNCHANGED <<loggedIn, redirect, inviteHistory>>
    BY <1>8 DEF Reload, Load, Enter
  <2>2. f # 0
    BY <1>8 DEF Reload, PagesInv
  <2> HIDE DEF f
  <2>3. Callback(f) # At("join") /\ HasItsFlow(Callback(f))
    BY <2>2 DEF Callback
  <2> QED
    BY <2>1, <2>3, Elsewhere
<1>9. ASSUME NEW t \in Tab, GitHubCallback(t) PROVE PagesInv'
  <2>1. CASE loggedIn
    <3>1. redirect = NoTarget
      BY <2>1 DEF PagesInv, VisitorHasRedirect
    <3>2. page' = [page EXCEPT ![t] = At("home")] /\ UNCHANGED redirect
      BY <1>9, <2>1, <3>1 DEF GitHubCallback, Pop, PoppedFrom, Enter
    <3> QED
      BY <1>9, <2>1, <3>2, Elsewhere DEF GitHubCallback, PagesInv, Tabular
  <2>2. CASE ~loggedIn
    BY <1>9, <2>2, Elsewhere DEF GitHubCallback, Enter, Send, Handled, PagesInv, Tabular
  <2> QED
    BY <2>1, <2>2
<1>10. ASSUME NEW t \in Tab, GoogleCallback(t) PROVE PagesInv'
  <2>1. page[t] # At("join")
    BY <1>10 DEF GoogleCallback
  <2>2. CASE ownState[t]["google"] = page[t].flow
    BY <1>10, <2>1, <2>2, Elsewhere DEF GoogleCallback, Enter, Send, Handled, PagesInv, Tabular
  <2>3. CASE ownState[t]["google"] # page[t].flow
    BY <1>10, <2>1, <2>3, EnteringLogin, Elsewhere DEF GoogleCallback
  <2> QED
    BY <2>2, <2>3
<1>11. ASSUME NEW t \in Tab, ZenodoCallback(t) PROVE PagesInv'
  <2> DEFINE r == IF loggedIn THEN "connect" ELSE "refused"
  <2>1. /\ page[t] # At("join") /\ page' = [page EXCEPT ![t] = Handled(page[t].flow)]
        /\ request' = [request EXCEPT ![t] = r]
        /\ UNCHANGED <<loggedIn, redirect, inviteHistory>>
    BY <1>11 DEF ZenodoCallback, Enter, Send
  <2>2. page[t].flow # 0
    BY <1>11 DEF ZenodoCallback, PagesInv
  <2>3. Handled(page[t].flow) # At("join") /\ HasItsFlow(Handled(page[t].flow))
    BY <2>2 DEF Handled
  <2> QED
    BY <2>1, <2>3, Elsewhere
<1>12. ASSUME NEW t \in Tab, SubmitPassword(t) PROVE PagesInv'
  <2>1. page[t] # At("join") /\ request' = [request EXCEPT ![t] = "login"]
        /\ UNCHANGED <<loggedIn, redirect, page, inviteHistory>>
    BY <1>12 DEF SubmitPassword, LoginShown
  <2>2. page' = [page EXCEPT ![t] = page[t]] /\ HasItsFlow(page[t])
    BY <2>1 DEF PagesInv, Tabular
  <2> QED
    BY <2>1, <2>2, Elsewhere
<1>13. ASSUME NEW t \in Tab, JoinMounts(t) PROVE PagesInv'
  BY <1>13 DEF JoinMounts, Enter, PagesInv, Tabular, VisitorHasRedirect, JoinWaitsForNothing,
               InviteKept
<1>14. ASSUME NEW t \in Tab, LoggedIn(t) PROVE PagesInv'
  <2> DEFINE p == PoppedFrom(redirect)
  <2>1. /\ page' = [page EXCEPT ![t] = p] /\ request' = [request EXCEPT ![t] = "none"]
        /\ redirect' = NoTarget /\ UNCHANGED inviteHistory /\ page[t] # At("join")
    BY <1>14 DEF LoggedIn, PagesInv, JoinWaitsForNothing
  <2>2. HasItsFlow(p) /\ (redirect = At("join") => p = At("join"))
    BY DEF PoppedFrom, NoTarget, PagesInv
  <2> HIDE DEF p
  <2>3. VisitorHasRedirect' /\ Tabular' /\ FlowsKnown'
    BY <2>1, <2>2 DEF PagesInv, Tabular, VisitorHasRedirect, NoTarget
  <2>4. JoinWaitsForNothing' /\ InviteKept'
    BY <2>1, <2>2 DEF PagesInv, Tabular, JoinWaitsForNothing, InviteKept, inviteHistory
  <2> QED
    BY <2>3, <2>4 DEF PagesInv
<1>15. ASSUME NEW t \in Tab, Connected(t) \/ Joined(t) PROVE PagesInv'
  BY <1>15, Elsewhere DEF Connected, Joined, Enter, PagesInv, Tabular, JoinWaitsForNothing
<1>16. ASSUME NEW t \in Tab, RequestFailed(t) PROVE PagesInv'
  BY <1>16 DEF RequestFailed, PagesInv, Tabular, VisitorHasRedirect, JoinWaitsForNothing,
               InviteKept, inviteHistory
<1>17. ASSUME NEW t \in Tab, TimerFires(t) PROVE PagesInv'
  BY <1>17, Elsewhere DEF TimerFires, Enter, AtRest, Unsettled, PagesInv, Tabular
<1>18. ASSUME NEW t \in Tab, LogOut(t) PROVE PagesInv'
  <2>1. /\ page[t] # At("join") /\ page' = [page EXCEPT ![t] = At("home")]
        /\ request' = [request EXCEPT ![t] = "none"] /\ redirect' = NoTarget
        /\ followed' = followed /\ displaced' = (displaced \/ redirect = At("join"))
    BY <1>18 DEF LogOut, SetRedirect, AtRest, Unsettled, NoTarget
  <2>2. VisitorHasRedirect' /\ Tabular' /\ FlowsKnown'
    BY <2>1 DEF PagesInv, Tabular, VisitorHasRedirect, NoTarget
  <2>3. JoinWaitsForNothing' /\ InviteKept'
    BY <2>1 DEF PagesInv, Tabular, JoinWaitsForNothing, InviteKept
  <2> QED
    BY <2>2, <2>3 DEF PagesInv
<1>19. CASE SessionEnds
  BY <1>19 DEF SessionEnds, PagesInv, Tabular, VisitorHasRedirect, JoinWaitsForNothing,
               InviteKept, inviteHistory
<1>20. CASE UNCHANGED svars
  BY <1>20 DEF svars, PagesInv, Tabular, VisitorHasRedirect, JoinWaitsForNothing, InviteKept
<1> QED
  BY <1>1, <1>2, <1>3, <1>4, <1>6, <1>7, <1>8, <1>9, <1>10, <1>11, <1>12, <1>13, <1>14, <1>15,
     <1>16, <1>17, <1>18, <1>19, <1>20 DEF SignInNext

(* A visitor who followed an invite link gets back to it after signing in,  *)
(* in whatever tab and by whatever way (join/$token.tsx 51, auth.ts 156).   *)
THEOREM InvitesAreKept == SignInSpec => []InviteKept
<1>1. SignInInit => PagesInv
  BY PagesInitially
<1>2. PagesInv /\ [SignInNext]_svars => PagesInv'
  BY PagesStep
<1>3. PagesInv => InviteKept
  BY DEF PagesInv
<1> QED
  BY <1>1, <1>2, <1>3, PTL DEF SignInSpec

-----------------------------------------------------------------------------
(***************************************************************************)
(* The types of the sign-in pages: whatever page a tab shows and whatever  *)
(* state it kept, the flow that is meant is one that was begun.            *)
(***************************************************************************)

Request == {"none", "login", "connect", "refused", "redeem"}

FlowRecord ==
    [provider : Provider, tab : Tab, purpose : {"login", "connect"}, moved : BOOLEAN,
     sentAs : SUBSET Request, resent : BOOLEAN]

Place(n) ==
    Target \cup {At("login"), At("signup"), At("settings"), At("joining"), Away, Closed}
           \cup [at : Provider \cup {"handled"}, flow : 1..n]

FlowsTyped == flows \in Seq(FlowRecord) /\ Len(flows) <= MaxBusy

StatesTyped ==
    /\ ownState \in [Tab -> [Provider -> 0..Len(flows)]]
    /\ \A t \in Tab, p \in Provider :
        ownState[t][p] # 0 => flows[ownState[t][p]].provider = p /\ flows[ownState[t][p]].tab = t

PagesTyped ==
    /\ loggedIn \in BOOLEAN
    /\ redirect \in Target \cup {NoTarget}
    /\ page \in [Tab -> Place(Len(flows))] /\ moved \subseteq Tab

RequestsTyped == request \in [Tab -> Request] /\ timer \in [Tab -> BOOLEAN]

SignInTyped == FlowsTyped /\ StatesTyped /\ PagesTyped /\ RequestsTyped

LEMMA SignInTypedInitially == ASSUME SignInInit PROVE SignInTyped
<1>1. flows \in Seq(FlowRecord) /\ Len(flows) = 0
  BY EmptySeq DEF SignInInit
<1>2. ownState = [t \in Tab |-> [p \in Provider |-> 0]]
  BY DEF SignInInit, NoState
<1>3. page \in [Tab -> Place(0)]
  BY DEF SignInInit, Place, Target
<1> QED
  BY <1>1, <1>2, <1>3, SignInAssumption
     DEF SignInInit, SignInTyped, FlowsTyped, StatesTyped, PagesTyped, RequestsTyped, Request

(* A page that shows a flow shows one that was begun.                      *)
LEMMA ShownFlow ==
  ASSUME SignInTyped, NEW t \in Tab, page[t].at \in Provider \cup {"handled"}
  PROVE  page[t].flow \in 1..Len(flows)
  BY DEF SignInTyped, PagesTyped, Place, Target, At, Away, Closed, Provider

LEMMA CallbackPlace ==
  ASSUME SignInTyped, NEW f \in 1..Len(flows)
  PROVE  Callback(f) \in Place(Len(flows)) /\ Handled(f) \in Place(Len(flows))
<1>1. flows[f] \in FlowRecord
  BY ElementOfSeq DEF SignInTyped, FlowsTyped
<1> QED
  BY <1>1 DEF Callback, Handled, Place, FlowRecord

(* Flows that are only annotated stay who they are.                        *)
LEMMA SentFlows ==
  ASSUME SignInTyped, NEW f \in 1..Len(flows), NEW t \in Tab, NEW as \in Request, Send(t, f, as)
  PROVE  /\ flows' \in Seq(FlowRecord) /\ Len(flows') = Len(flows)
         /\ \A g \in 1..Len(flows) :
                flows'[g].provider = flows[g].provider /\ flows'[g].tab = flows[g].tab
         /\ request' \in [Tab -> Request]
<1> DEFINE e == [flows[f] EXCEPT !.sentAs = @ \cup {as}, !.resent = flows[f].sentAs # {}]
<1>1. flows[f] \in FlowRecord /\ flows \in Seq(FlowRecord)
  BY ElementOfSeq DEF SignInTyped, FlowsTyped
<1>2. e \in FlowRecord /\ e.provider = flows[f].provider /\ e.tab = flows[f].tab
  BY <1>1 DEF FlowRecord
<1>3. flows \in [1..Len(flows) -> FlowRecord]
  BY <1>1, LenProperties
<1>4. flows' = [flows EXCEPT ![f] = e]
  BY <1>3 DEF Send
<1> HIDE DEF e
<1>5. /\ [flows EXCEPT ![f] = e] \in Seq(FlowRecord)
      /\ Len([flows EXCEPT ![f] = e]) = Len(flows)
      /\ \A j \in 1..Len(flows) : [flows EXCEPT ![f] = e][j] = IF j = f THEN e ELSE flows[j]
  BY <1>1, <1>2, ExceptSeq
<1> QED
  BY <1>2, <1>4, <1>5 DEF Send, SignInTyped, RequestsTyped

LEMMA OutlivedFlows ==
  ASSUME SignInTyped, flows' = Outlived
  PROVE  /\ flows' \in Seq(FlowRecord) /\ Len(flows') = Len(flows)
         /\ \A g \in 1..Len(flows) :
                flows'[g].provider = flows[g].provider /\ flows'[g].tab = flows[g].tab
<1>1. /\ flows \in Seq(FlowRecord) /\ Len(flows) \in Nat
      /\ DOMAIN flows = 1..Len(flows) /\ flows \in [1..Len(flows) -> FlowRecord]
  BY LenProperties DEF SignInTyped, FlowsTyped
<1>2. flows' \in [1..Len(flows) -> FlowRecord]
  BY <1>1 DEF Outlived, FlowRecord
<1>3. flows' \in Seq(FlowRecord)
  BY <1>1, <1>2, SeqDef
<1>4. Len(flows') = Len(flows)
  BY <1>1, <1>2, <1>3, LenProperties
<1>5. ASSUME NEW g \in 1..Len(flows)
      PROVE  flows'[g].provider = flows[g].provider /\ flows'[g].tab = flows[g].tab
  <2>1. flows[g] \in FlowRecord /\ flows'[g] = [flows[g] EXCEPT !.moved = TRUE]
    BY <1>1 DEF Outlived
  <2> QED
    BY <2>1 DEF FlowRecord
<1> QED
  BY <1>3, <1>4, <1>5

(* Whatever a step does to the pages, the states survive it as long as the *)
(* flows are who they were.                                                *)
LEMMA StatesSurvive ==
  ASSUME SignInTyped, Len(flows') = Len(flows),
         \A g \in 1..Len(flows) :
             flows'[g].provider = flows[g].provider /\ flows'[g].tab = flows[g].tab,
         \/ UNCHANGED ownState
         \/ \E t \in Tab, p \in Provider : ConsumeState(t, p)
  PROVE  StatesTyped'
<1>1. /\ ownState \in [Tab -> [Provider -> 0..Len(flows)]] /\ Len(flows) \in Nat
      /\ \A t \in Tab, p \in Provider :
          ownState[t][p] # 0 => flows[ownState[t][p]].provider = p /\ flows[ownState[t][p]].tab = t
  BY LenProperties DEF SignInTyped, StatesTyped, FlowsTyped
<1>2. /\ ownState' \in [Tab -> [Provider -> 0..Len(flows)]]
      /\ \A t \in Tab, p \in Provider : ownState'[t][p] # 0 => ownState'[t][p] = ownState[t][p]
  <2>1. CASE UNCHANGED ownState
    BY <1>1, <2>1
  <2>2. ASSUME NEW t \in Tab, NEW p \in Provider, ownState' = [ownState EXCEPT ![t][p] = 0]
        PROVE  /\ ownState' \in [Tab -> [Provider -> 0..Len(flows)]]
               /\ \A u \in Tab, q \in Provider : ownState'[u][q] # 0 => ownState'[u][q] = ownState[u][q]
    <3>1. [ownState[t] EXCEPT ![p] = 0] \in [Provider -> 0..Len(flows)]
      BY <1>1
    <3>2. ownState' = [ownState EXCEPT ![t] = [ownState[t] EXCEPT ![p] = 0]]
      BY <2>2
    <3>3. \A u \in Tab, q \in Provider :
             ownState'[u][q] = IF u = t /\ q = p THEN 0 ELSE ownState[u][q]
      BY <1>1, <3>2
    <3> QED
      BY <1>1, <3>1, <3>2, <3>3
  <2> QED
    BY <2>1, <2>2 DEF ConsumeState
<1>3. ASSUME NEW t \in Tab, NEW p \in Provider, ownState'[t][p] # 0
      PROVE  flows'[ownState'[t][p]].provider = p /\ flows'[ownState'[t][p]].tab = t
  <2>1. ownState'[t][p] = ownState[t][p] /\ ownState[t][p] \in 1..Len(flows)
    BY <1>1, <1>2, <1>3
  <2> QED
    BY <1>1, <1>3, <2>1
<1> QED
  BY <1>2, <1>3 DEF StatesTyped

LEMMA SignInTypedStep == ASSUME SignInTyped, [SignInNext]_svars PROVE SignInTyped'
<1>0. Len(flows) \in Nat
  BY LenProperties DEF SignInTyped, FlowsTyped
<1> DEFINE P == Place(Len(flows))
<1>1. /\ Target \subseteq P /\ NoTarget \notin P
      /\ {At("login"), At("signup"), At("settings"), At("joining"), Away, Closed} \subseteq P
  BY DEF Place, NoTarget, Target, At, Away, Closed, Provider
<1>2. /\ page \in [Tab -> P] /\ moved \subseteq Tab /\ loggedIn \in BOOLEAN
      /\ redirect \in Target \cup {NoTarget}
      /\ request \in [Tab -> Request] /\ timer \in [Tab -> BOOLEAN]
  BY DEF SignInTyped, PagesTyped, RequestsTyped
<1> HIDE DEF P
(* A step that leaves the flows alone.                                     *)
<1>3. ASSUME UNCHANGED <<flows, ownState>>,
             page' \in [Tab -> P], moved' \subseteq Tab, loggedIn' \in BOOLEAN,
             redirect' \in Target \cup {NoTarget},
             request' \in [Tab -> Request], timer' \in [Tab -> BOOLEAN]
      PROVE  SignInTyped'
  BY <1>3 DEF P, SignInTyped, FlowsTyped, StatesTyped, PagesTyped, RequestsTyped
<1>4. At("home") \in P /\ At("login") \in P /\ At("signup") \in P /\ At("settings") \in P /\ Away \in P
      /\ At("joining") \in P /\ At("home") \in Target /\ PoppedFrom(redirect) \in P
  BY <1>1, <1>2 DEF Target, PoppedFrom
<1>5. ASSUME NEW t \in Tab, NEW p \in Target, OpenLink(t, p) PROVE SignInTyped'
  BY <1>1, <1>2, <1>3, <1>5 DEF OpenLink, Load, Enter, Request
<1>6. ASSUME NEW t \in Tab, Leave(t) \/ OpenSettings(t) PROVE SignInTyped'
  BY <1>2, <1>3, <1>4, <1>6 DEF Leave, OpenSettings, Enter
<1>7. ASSUME NEW t \in Tab, SignInFrom(t) PROVE SignInTyped'
  <2>1. page[t] \in P /\ page[t] \in Target
    BY <1>2, <1>7 DEF SignInFrom, P, Place, Target, At, Away, Closed, Provider
  <2> QED
    BY <1>2, <1>3, <1>4, <1>7, <2>1 DEF SignInFrom, Enter
<1>8. ASSUME NEW t \in Tab, NEW p \in {"login", "signup"}, EnterLogin(t, p)
      PROVE  /\ page' \in [Tab -> P] /\ moved' \subseteq Tab
             /\ redirect' \in Target \cup {NoTarget}
  BY <1>2, <1>4, <1>8 DEF EnterLogin, Pop, Enter
<1>9. ASSUME NEW t \in Tab, OtherForm(t) PROVE SignInTyped'
  <2>1. PICK p \in {"login", "signup"} : EnterLogin(t, p)
    BY <1>9 DEF OtherForm
  <2> QED
    BY <1>2, <1>3, <1>8, <1>9, <2>1 DEF OtherForm
<1>10. ASSUME NEW t \in Tab,
              ClickGitHub(t) \/ ClickGoogle(t) \/ ConnectGoogle(t) \/ ConnectZenodo(t)
       PROVE  SignInTyped'
  <2>1. PICK p \in Provider, q \in {"login", "connect"} : Begin(t, p, q)
    BY <1>10 DEF ClickGitHub, ClickGoogle, ConnectGoogle, ConnectZenodo, Provider
  <2> DEFINE e == [provider |-> p, tab |-> t, purpose |-> q,
                   moved |-> t \in moved, sentAs |-> {}, resent |-> FALSE]
  <2>2. e \in FlowRecord /\ e.provider = p /\ e.tab = t
    BY DEF FlowRecord
  <2>3. flows' = Append(flows, e) /\ flows \in Seq(FlowRecord)
    BY <2>1 DEF Begin, SignInTyped, FlowsTyped
  <2> HIDE DEF e
  <2>4. /\ flows' \in Seq(FlowRecord) /\ Len(flows') = Len(flows) + 1
        /\ \A g \in 1..Len(flows) : flows'[g] = flows[g]
        /\ flows'[Len(flows) + 1] = e
    BY <2>2, <2>3, AppendProperties
  <2>5. Len(flows') <= MaxBusy
    <3>1. Cardinality({u \in Tab : page[u] # Closed}) \in Nat
      BY SignInAssumption, FS_Subset, FS_CardinalityType
    <3> QED
      BY <1>0, <2>1, <2>4, <3>1, SignInAssumption DEF Begin
  <2>6. P \subseteq Place(Len(flows'))
    BY <1>0, <2>4 DEF P, Place
  <2>7. PagesTyped'
    BY <1>2, <1>4, <2>1, <2>6 DEF PagesTyped, Begin, Load, Enter
  <2>8. RequestsTyped'
    BY <1>2, <2>1 DEF RequestsTyped, Begin, Load, Request
  <2>9. StatesTyped'
    <3>1. /\ ownState \in [Tab -> [Provider -> 0..Len(flows)]]
          /\ \A u \in Tab, r \in Provider :
              ownState[u][r] # 0 => flows[ownState[u][r]].provider = r /\ flows[ownState[u][r]].tab = u
      BY DEF SignInTyped, StatesTyped
    <3>2. ownState' \in [Tab -> [Provider -> 0..Len(flows')]]
      BY <1>0, <2>1, <2>4, <3>1 DEF Begin
    <3>3. ASSUME NEW u \in Tab, NEW r \in Provider, ownState'[u][r] # 0
          PROVE  flows'[ownState'[u][r]].provider = r /\ flows'[ownState'[u][r]].tab = u
      <4>1. \/ ownState'[u][r] = ownState[u][r]
            \/ u = t /\ r = p /\ ownState'[u][r] = Len(flows) + 1
        BY <2>1, <2>4, <3>1 DEF Begin
      <4> QED
        BY <1>0, <2>2, <2>4, <3>1, <3>3, <4>1
    <3> QED
      BY <3>2, <3>3 DEF StatesTyped
  <2> QED
    BY <2>4, <2>5, <2>7, <2>8, <2>9 DEF SignInTyped, FlowsTyped
<1>11. ASSUME NEW t \in Tab, \/ \E f \in Flow : ProviderReturns(t, f)
                             \/ Reload(t)
       PROVE  SignInTyped'
  <2>1. PICK f \in 1..Len(flows) : Load(t, Callback(f)) /\ UNCHANGED <<loggedIn, redirect, ownState, flows>>
    BY <1>11, ShownFlow DEF ProviderReturns, Reload
  <2>2. Callback(f) \in P
    BY CallbackPlace DEF P
  <2> QED
    BY <1>2, <1>3, <2>1, <2>2 DEF Load, Enter, Request
(* A callback: the page goes on, and the flow may be annotated.            *)
<1>12. ASSUME NEW t \in Tab, NEW f \in 1..Len(flows),
              \/ UNCHANGED <<request, flows>>
              \/ \E as \in Request : Send(t, f, as),
              \/ UNCHANGED ownState
              \/ \E p \in Provider : ConsumeState(t, p),
              page' \in [Tab -> P], moved' \subseteq Tab, loggedIn' = loggedIn,
              redirect' \in Target \cup {NoTarget}, timer' = timer
       PROVE  SignInTyped'
  <2>1. /\ flows' \in Seq(FlowRecord) /\ Len(flows') = Len(flows)
        /\ \A g \in 1..Len(flows) :
               flows'[g].provider = flows[g].provider /\ flows'[g].tab = flows[g].tab
        /\ request' \in [Tab -> Request]
    BY <1>2, <1>12, SentFlows DEF SignInTyped, FlowsTyped
  <2>2. StatesTyped'
    BY <1>12, <2>1, StatesSurvive
  <2> QED
    BY <1>2, <1>12, <2>1, <2>2 DEF P, SignInTyped, FlowsTyped, PagesTyped, RequestsTyped
<1>13. ASSUME NEW t \in Tab, page[t].at \in Provider
       PROVE  /\ page[t].flow \in 1..Len(flows)
              /\ [page EXCEPT ![t] = Handled(page[t].flow)] \in [Tab -> P]
  BY <1>2, <1>13, ShownFlow, CallbackPlace DEF P
<1>14. ASSUME NEW t \in Tab, GitHubCallback(t) PROVE SignInTyped'
  <2>1. page[t].at \in Provider
    BY <1>14 DEF GitHubCallback, Provider
  <2>2. /\ page' \in [Tab -> P] /\ moved' \subseteq Tab
        /\ redirect' \in Target \cup {NoTarget}
    BY <1>2, <1>4, <1>13, <1>14, <2>1 DEF GitHubCallback, Pop, Enter
  <2>3. /\ \/ UNCHANGED <<request, flows>>
           \/ \E as \in Request : Send(t, page[t].flow, as)
        /\ \/ UNCHANGED ownState
           \/ \E p \in Provider : ConsumeState(t, p)
    BY <1>14 DEF GitHubCallback, Provider, Request
  <2> QED
    BY <1>12, <1>13, <1>14, <2>1, <2>2, <2>3 DEF GitHubCallback
<1>15. ASSUME NEW t \in Tab, GoogleCallback(t) PROVE SignInTyped'
  <2>1. page[t].at \in Provider
    BY <1>15 DEF GoogleCallback, Provider
  <2>2. /\ page' \in [Tab -> P] /\ moved' \subseteq Tab
        /\ redirect' \in Target \cup {NoTarget}
    BY <1>2, <1>8, <1>13, <1>15, <2>1 DEF GoogleCallback, Enter
  <2>3. /\ \/ UNCHANGED <<request, flows>>
           \/ \E as \in Request : Send(t, page[t].flow, as)
        /\ \E p \in Provider : ConsumeState(t, p)
    BY <1>15 DEF GoogleCallback, GooglePurpose, Provider, Request
  <2> QED
    BY <1>12, <1>13, <1>15, <2>1, <2>2, <2>3 DEF GoogleCallback
<1>16. ASSUME NEW t \in Tab, ZenodoCallback(t) PROVE SignInTyped'
  <2>1. page[t].at \in Provider
    BY <1>16 DEF ZenodoCallback, Provider
  <2>2. page' \in [Tab -> P] /\ moved' \subseteq Tab
    BY <1>2, <1>13, <1>16, <2>1 DEF ZenodoCallback, Enter
  <2>3. \E as \in Request : Send(t, page[t].flow, as)
    BY <1>16 DEF ZenodoCallback, Request
  <2> QED
    BY <1>2, <1>12, <1>13, <1>16, <2>1, <2>2, <2>3 DEF ZenodoCallback
<1>17. ASSUME NEW t \in Tab, SubmitPassword(t) PROVE SignInTyped'
  BY <1>2, <1>3, <1>17 DEF SubmitPassword, Request
<1>18. ASSUME NEW t \in Tab, JoinMounts(t) PROVE SignInTyped'
  <2>1. At("join") \in Target
    BY DEF Target
  <2> QED
    BY <1>2, <1>3, <1>4, <1>18, <2>1 DEF JoinMounts, Enter, Request
(* Somebody logs in or out: the flows begun before outlive the session.    *)
<1>19. ASSUME flows' \in {flows, Outlived}, UNCHANGED ownState,
              page' \in [Tab -> P], moved' \subseteq Tab, loggedIn' \in BOOLEAN,
              redirect' \in Target \cup {NoTarget},
              request' \in [Tab -> Request], timer' \in [Tab -> BOOLEAN]
       PROVE  SignInTyped'
  <2>1. /\ flows' \in Seq(FlowRecord) /\ Len(flows') = Len(flows)
        /\ \A g \in 1..Len(flows) :
               flows'[g].provider = flows[g].provider /\ flows'[g].tab = flows[g].tab
    BY <1>19, OutlivedFlows DEF SignInTyped, FlowsTyped
  <2>2. StatesTyped'
    BY <1>19, <2>1, StatesSurvive
  <2> QED
    BY <1>19, <2>1, <2>2 DEF P, SignInTyped, FlowsTyped, PagesTyped, RequestsTyped
<1>20. ASSUME NEW t \in Tab, LoggedIn(t) PROVE SignInTyped'
  BY <1>2, <1>4, <1>19, <1>20 DEF LoggedIn, Request
<1>21. ASSUME NEW t \in Tab, LogOut(t) PROVE SignInTyped'
  BY <1>2, <1>4, <1>19, <1>21 DEF LogOut, SetRedirect, Request
<1>22. CASE SessionEnds
  BY <1>2, <1>19, <1>22 DEF SessionEnds
<1>23. ASSUME NEW t \in Tab, Connected(t) \/ Joined(t) \/ RequestFailed(t) \/ TimerFires(t)
       PROVE  SignInTyped'
  BY <1>2, <1>3, <1>4, <1>23 DEF Connected, Joined, RequestFailed, TimerFires, Enter, Request
<1>24. CASE UNCHANGED svars
  BY <1>2, <1>3, <1>24 DEF svars
<1> QED
  BY <1>5, <1>6, <1>7, <1>9, <1>10, <1>11, <1>14, <1>15, <1>16, <1>17, <1>18, <1>20, <1>21,
     <1>22, <1>23, <1>24 DEF SignInNext

(* Whatever pages are shown, left, loaded again and returned to, a code is *)
(* taken for the flow it belongs to: the state a tab kept for a provider   *)
(* is of a flow that this tab began with that provider.                    *)
THEOREM SignInTypeCorrect == SignInSpec => []SignInTypeOK
<1>1. SignInInit => SignInTyped
  BY SignInTypedInitially
<1>2. SignInTyped /\ [SignInNext]_svars => SignInTyped'
  BY SignInTypedStep
<1>3. SignInTyped => SignInTypeOK
  BY DEF SignInTyped, FlowsTyped, StatesTyped, PagesTyped, RequestsTyped, SignInTypeOK, Place, Request
<1> QED
  BY <1>1, <1>2, <1>3, PTL DEF SignInSpec

-----------------------------------------------------------------------------
(***************************************************************************)
(* What Google's answer is used for.  The intent is read from whether      *)
(* somebody is logged in when the code arrives.  It is what was asked      *)
(* because a page that offers to sign in is shown to visitors only, the    *)
(* settings to users only, until somebody logs in or out elsewhere; and    *)
(* because whoever does marks every flow.  A code is sent once because a   *)
(* state that a tab still holds is of a flow that was never sent.          *)
(***************************************************************************)

FitsPage(p) == p.at \in Provider => flows[p.flow].provider = p.at

KnowsSession(p) ==
    /\ p.at = "login" \/ (p.at = "handled" /\ flows[p.flow].provider = "github") => ~loggedIn
    /\ p.at = "settings" => loggedIn

PagesFit == \A t \in Tab : FitsPage(page[t])

PagesKnowSession == \A t \in Tab \ moved : KnowsSession(page[t])

FlowsKnowSession ==
    \A f \in 1..Len(flows) :
        flows[f].provider = "google" /\ ~flows[f].moved => flows[f].purpose = GooglePurpose

(* Zenodo's state is not kept at all.                                      *)
StatesUnspent ==
    \A t \in Tab :
        /\ ownState[t]["zenodo"] = 0
        /\ \A p \in Provider : ownState[t][p] # 0 => flows[ownState[t][p]].sentAs = {}

AsAsked(e) ==
    /\ e.provider = "google" /\ ~e.moved => e.sentAs \subseteq {e.purpose}
    /\ e.provider # "zenodo" => ~e.resent

AskedInv ==
    /\ SignInTyped
    /\ PagesFit /\ PagesKnowSession /\ FlowsKnowSession /\ StatesUnspent
    /\ \A f \in 1..Len(flows) : AsAsked(flows[f])

LEMMA FlowDomain ==
  ASSUME SignInTyped
  PROVE  /\ Len(flows) \in Nat /\ DOMAIN flows = 1..Len(flows)
         /\ \A f \in 1..Len(flows) : flows[f] \in FlowRecord
<1>1. flows \in Seq(FlowRecord)
  BY DEF SignInTyped, FlowsTyped
<1> QED
  BY <1>1, LenProperties, ElementOfSeq

LEMMA AskedInitially == ASSUME SignInInit PROVE AskedInv
<1>1. SignInTyped
  BY SignInTypedInitially
<1>2. Len(flows) = 0
  BY DEF SignInInit
<1>3. \A t \in Tab : page[t] \in {At("home"), Closed}
  BY DEF SignInInit
<1>4. PagesFit /\ PagesKnowSession
  BY <1>3 DEF PagesFit, FitsPage, PagesKnowSession, KnowsSession, At, Closed, Provider
<1>5. StatesUnspent
  BY DEF SignInInit, StatesUnspent, NoState, Provider
<1> QED
  BY <1>1, <1>2, <1>4, <1>5 DEF AskedInv, FlowsKnowSession

(* A tab goes on to a page that is right for the session, and the flows    *)
(* the other tabs show are with whom they were.                            *)
LEMMA PagesGoOn ==
  ASSUME AskedInv, NEW t \in Tab, NEW p, page' = [page EXCEPT ![t] = p], moved' = moved \ {t},
         loggedIn' = loggedIn, \A g \in 1..Len(flows) : flows'[g].provider = flows[g].provider,
         FitsPage(p)', KnowsSession(p)'
  PROVE  PagesFit' /\ PagesKnowSession'
<1>1. page \in [Tab -> Place(Len(flows))] /\ page'[t] = p
  BY DEF AskedInv, SignInTyped, PagesTyped
<1>2. ASSUME NEW u \in Tab, u # t
      PROVE  /\ page'[u] = page[u]
             /\ page[u].at \in Provider \cup {"handled"} => page[u].flow \in 1..Len(flows)
  BY <1>1, <1>2, ShownFlow DEF AskedInv
<1>3. ASSUME NEW u \in Tab PROVE FitsPage(page[u])'
  BY <1>1, <1>2 DEF AskedInv, PagesFit, FitsPage
<1>4. ASSUME NEW u \in Tab \ moved' PROVE KnowsSession(page[u])'
  <2>1. CASE u = t
    BY <1>1, <2>1
  <2>2. CASE u # t
    <3>1. KnowsSession(page[u]) /\ page'[u] = page[u]
      BY <1>2, <1>4, <2>2 DEF AskedInv, PagesKnowSession
    <3>2. page[u].at = "handled" => flows'[page[u].flow].provider = flows[page[u].flow].provider
      BY <1>2, <1>4, <2>2
    <3> QED
      BY <3>1, <3>2 DEF KnowsSession
  <2> QED
    BY <2>1, <2>2
<1> QED
  BY <1>3, <1>4 DEF PagesFit, PagesKnowSession

(* States are kept or cleared.                                             *)
LEMMA StatesDropped ==
  ASSUME AskedInv,
         \/ UNCHANGED ownState
         \/ \E t \in Tab, p \in Provider : ConsumeState(t, p)
  PROVE  /\ \A t \in Tab, p \in Provider : ownState'[t][p] # 0 => ownState'[t][p] = ownState[t][p]
         /\ \A t \in Tab : ownState'[t]["zenodo"] = 0
<1>0. "zenodo" \in Provider /\ \A t \in Tab : ownState[t]["zenodo"] = 0
  BY DEF Provider, AskedInv, StatesUnspent
<1>1. ownState \in [Tab -> [Provider -> 0..Len(flows)]]
  BY DEF AskedInv, SignInTyped, StatesTyped
<1>2. ASSUME NEW t \in Tab, NEW p \in Provider, ConsumeState(t, p)
      PROVE  \A u \in Tab, q \in Provider :
                 ownState'[u][q] = IF u = t /\ q = p THEN 0 ELSE ownState[u][q]
  <2>1. ownState' = [ownState EXCEPT ![t] = [ownState[t] EXCEPT ![p] = 0]]
    BY <1>2 DEF ConsumeState
  <2>2. ownState[t] \in [Provider -> 0..Len(flows)]
    BY <1>1
  <2> QED
    BY <1>1, <2>1, <2>2
<1> QED
  BY <1>0, <1>2

(* A step that leaves the flows and the session alone.                     *)
LEMMA AskedKept ==
  ASSUME AskedInv, SignInTyped', UNCHANGED <<flows, loggedIn>>, PagesFit', PagesKnowSession',
         \/ UNCHANGED ownState
         \/ \E t \in Tab, p \in Provider : ConsumeState(t, p)
  PROVE  AskedInv'
<1>1. StatesUnspent'
  BY StatesDropped DEF AskedInv, StatesUnspent
<1> QED
  BY <1>1 DEF AskedInv, FlowsKnowSession, GooglePurpose

LEMMA AskedOnward ==
  ASSUME AskedInv, SignInTyped', UNCHANGED <<flows, loggedIn>>,
         NEW t \in Tab, NEW p, Enter(t, p), FitsPage(p), KnowsSession(p),
         \/ UNCHANGED ownState
         \/ \E u \in Tab, q \in Provider : ConsumeState(u, q)
  PROVE  AskedInv'
<1>1. FitsPage(p)' /\ KnowsSession(p)'
  BY DEF FitsPage, KnowsSession
<1>2. PagesFit' /\ PagesKnowSession'
  BY <1>1, PagesGoOn DEF Enter
<1> QED
  BY <1>2, AskedKept

(* A page that is neither a form, nor the settings, nor about a flow.      *)
LEMMA PlainPage ==
  ASSUME NEW p \in Target \cup {At("joining"), At("signup"), Away, Closed}
  PROVE  FitsPage(p) /\ KnowsSession(p)
  BY DEF Target, At, Away, Closed, FitsPage, KnowsSession, Provider

(* Somebody logs in or out: the flows begun before no longer count.        *)
LEMMA AskedOutlived ==
  ASSUME AskedInv, SignInTyped', flows' = Outlived, UNCHANGED ownState,
         \/ moved' = Tab /\ UNCHANGED page
         \/ \E t \in Tab, p \in Target : moved' = Tab \ {t} /\ page' = [page EXCEPT ![t] = p]
  PROVE  AskedInv'
<1>1. /\ Len(flows) \in Nat /\ DOMAIN flows = 1..Len(flows)
      /\ \A f \in 1..Len(flows) : flows[f] \in FlowRecord
  BY FlowDomain DEF AskedInv
<1>2. Len(flows') = Len(flows)
  BY OutlivedFlows DEF AskedInv
<1>3. ASSUME NEW f \in 1..Len(flows)
      PROVE  /\ flows'[f].moved /\ flows'[f].provider = flows[f].provider
             /\ flows'[f].resent = flows[f].resent /\ flows'[f].sentAs = flows[f].sentAs
  <2>1. flows'[f] = [flows[f] EXCEPT !.moved = TRUE]
    BY <1>1 DEF Outlived
  <2> QED
    BY <1>1, <2>1 DEF FlowRecord
<1>4. page \in [Tab -> Place(Len(flows))] /\ ownState \in [Tab -> [Provider -> 0..Len(flows)]]
  BY DEF AskedInv, SignInTyped, PagesTyped, StatesTyped
<1>5. FlowsKnowSession' /\ \A f \in 1..Len(flows') : AsAsked(flows'[f])
  BY <1>2, <1>3 DEF AskedInv, FlowsKnowSession, AsAsked
<1>6. StatesUnspent'
  BY <1>3, <1>4 DEF AskedInv, StatesUnspent
<1>7. ASSUME NEW u \in Tab, page'[u] = page[u] PROVE FitsPage(page[u])'
  <2>1. page[u].at \in Provider => page[u].flow \in 1..Len(flows)
    BY ShownFlow DEF AskedInv
  <2> QED
    BY <1>3, <1>7, <2>1 DEF AskedInv, PagesFit, FitsPage
<1>8. PagesFit' /\ PagesKnowSession'
  <2>1. CASE moved' = Tab /\ UNCHANGED page
    BY <1>7, <2>1 DEF PagesFit, PagesKnowSession
  <2>2. ASSUME NEW t \in Tab, NEW p \in Target, moved' = Tab \ {t}, page' = [page EXCEPT ![t] = p]
        PROVE  PagesFit' /\ PagesKnowSession'
    <3>1. FitsPage(p)' /\ KnowsSession(p)'
      BY DEF Target, At, FitsPage, KnowsSession, Provider
    <3>2. page'[t] = p /\ \A u \in Tab \ {t} : page'[u] = page[u]
      BY <1>4, <2>2
    <3> QED
      BY <1>7, <2>2, <3>1, <3>2 DEF PagesFit, PagesKnowSession, FitsPage, KnowsSession
  <2> QED
    BY <2>1, <2>2
<1> QED
  BY <1>5, <1>6, <1>8 DEF AskedInv

(* A flow is begun on a page that knew the session, or that has moved.     *)
LEMMA AskedBegun ==
  ASSUME AskedInv, SignInTyped', NEW t \in Tab, NEW provider \in Provider,
         NEW purpose \in {"login", "connect"}, Begin(t, provider, purpose),
         provider = "google" /\ t \notin moved => purpose = GooglePurpose
  PROVE  AskedInv'
<1> DEFINE e == [provider |-> provider, tab |-> t, purpose |-> purpose,
                 moved |-> t \in moved, sentAs |-> {}, resent |-> FALSE]
           n == Len(flows) + 1
<1>1. flows \in Seq(FlowRecord) /\ Len(flows) \in Nat
  BY FlowDomain DEF AskedInv, SignInTyped, FlowsTyped
<1>2. e \in FlowRecord /\ flows' = Append(flows, e)
  BY DEF FlowRecord, Begin
<1>3. /\ e.provider = provider /\ e.purpose = purpose /\ (e.moved <=> t \in moved)
      /\ e.sentAs = {} /\ ~e.resent
  OBVIOUS
<1> HIDE DEF e
<1>4. /\ Len(flows') = n /\ flows'[n] = e
      /\ \A g \in 1..Len(flows) : flows'[g] = flows[g]
  BY <1>1, <1>2, AppendProperties
<1>5. loggedIn' = loggedIn /\ page' = [page EXCEPT ![t] = Away] /\ moved' = moved \ {t}
  BY DEF Begin, Load, Enter
<1>6. FitsPage(Away)' /\ KnowsSession(Away)'
  BY DEF Away, At, FitsPage, KnowsSession, Provider
<1>7. PagesFit' /\ PagesKnowSession'
  BY <1>4, <1>5, <1>6, PagesGoOn
<1>8. ASSUME NEW f \in 1..Len(flows') PROVE f = n \/ f \in 1..Len(flows)
  BY <1>1, <1>4
<1>9. FlowsKnowSession' /\ \A f \in 1..Len(flows') : AsAsked(flows'[f])
  BY <1>3, <1>4, <1>5, <1>8 DEF AskedInv, FlowsKnowSession, GooglePurpose, AsAsked
<1>10. StatesUnspent'
  <2>1. ownState \in [Tab -> [Provider -> 0..Len(flows)]]
    BY DEF AskedInv, SignInTyped, StatesTyped
  <2>2. ASSUME NEW u \in Tab, NEW r \in Provider, ownState'[u][r] # 0
        PROVE  flows'[ownState'[u][r]].sentAs = {}
    <3>1. ownState'[u][r] = ownState[u][r] \/ ownState'[u][r] = n
      BY <1>4, <2>1 DEF Begin
    <3>2. CASE ownState'[u][r] = n
      BY <1>3, <1>4, <3>2
    <3>3. CASE ownState'[u][r] = ownState[u][r]
      <4>1. ownState[u][r] \in 1..Len(flows)
        BY <1>1, <2>1, <2>2, <3>3
      <4> QED
        BY <1>4, <2>2, <3>3, <4>1 DEF AskedInv, StatesUnspent
    <3> QED
      BY <3>1, <3>2, <3>3
  <2>3. ASSUME NEW u \in Tab PROVE ownState'[u]["zenodo"] = 0
    <3>1. ownState'[u]["zenodo"] = 0
      <4>1. ownState[u]["zenodo"] = 0 /\ "zenodo" \in Provider
        BY DEF AskedInv, StatesUnspent, Provider
      <4>2. CASE provider = "zenodo"
        BY <4>1, <4>2 DEF Begin
      <4>3. CASE provider # "zenodo"
        BY <2>1, <4>1, <4>3 DEF Begin
      <4> QED
        BY <4>2, <4>3
    <3> QED
      BY <3>1
  <2> QED
    BY <2>2, <2>3 DEF StatesUnspent
<1> QED
  BY <1>7, <1>9, <1>10 DEF AskedInv

(* A code is sent, for a flow whose state this tab held and has cleared,   *)
(* or that of Zenodo, whose state is of no use.                            *)
LEMMA AskedSent ==
  ASSUME AskedInv, SignInTyped', NEW t \in Tab, NEW f \in 1..Len(flows), NEW as \in Request,
         Send(t, f, as), Enter(t, Handled(f)), UNCHANGED loggedIn,
         flows[f].provider = "github" => ~loggedIn,
         flows[f].provider = "google" => as = GooglePurpose,
         \/ flows[f].provider = "zenodo" /\ UNCHANGED ownState
         \/ \E p \in Provider : ConsumeState(t, p) /\ ownState[t][p] = f /\ f # 0
  PROVE  AskedInv'
<1>1. /\ Len(flows) \in Nat /\ DOMAIN flows = 1..Len(flows)
      /\ \A g \in 1..Len(flows) : flows[g] \in FlowRecord
  BY FlowDomain DEF AskedInv
<1> DEFINE e == [flows[f] EXCEPT !.sentAs = @ \cup {as}, !.resent = flows[f].sentAs # {}]
<1>2. Len(flows') = Len(flows)
  BY SentFlows DEF AskedInv
<1>3. flows'[f] = e /\ \A g \in 1..Len(flows) \ {f} : flows'[g] = flows[g]
  BY <1>1 DEF Send
<1>4. /\ e.provider = flows[f].provider /\ e.purpose = flows[f].purpose /\ e.moved = flows[f].moved
      /\ e.sentAs = flows[f].sentAs \cup {as} /\ e.resent = (flows[f].sentAs # {})
  BY <1>1 DEF FlowRecord
<1> HIDE DEF e
<1>5. \A g \in 1..Len(flows) :
          /\ flows'[g].provider = flows[g].provider
          /\ flows'[g].purpose = flows[g].purpose /\ flows'[g].moved = flows[g].moved
  BY <1>3, <1>4
<1>6. FlowsKnowSession'
  BY <1>2, <1>5 DEF AskedInv, FlowsKnowSession, GooglePurpose
<1>7. flows[f].provider # "zenodo" => flows[f].sentAs = {}
  BY DEF AskedInv, StatesUnspent
<1>8. AsAsked(e)
  <2>1. e.provider # "zenodo" => ~e.resent
    BY <1>4, <1>7
  <2>2. ASSUME e.provider = "google", ~e.moved PROVE e.sentAs \subseteq {e.purpose}
    <3>1. flows[f].purpose = GooglePurpose
      BY <1>4, <2>2 DEF AskedInv, FlowsKnowSession
    <3>2. as = GooglePurpose /\ flows[f].sentAs = {}
      BY <1>4, <1>7, <2>2
    <3> QED
      BY <1>4, <3>1, <3>2
  <2> QED
    BY <2>1, <2>2 DEF AsAsked
<1>9. \A g \in 1..Len(flows') : AsAsked(flows'[g])
  BY <1>2, <1>3, <1>8 DEF AskedInv
<1>10. Handled(f).at = "handled" /\ Handled(f).flow = f
  BY DEF Handled
<1>11. FitsPage(Handled(f))' /\ KnowsSession(Handled(f))'
  BY <1>5, <1>10 DEF FitsPage, KnowsSession, Provider
<1>12. PagesFit' /\ PagesKnowSession'
  BY <1>5, <1>11, PagesGoOn DEF Enter
<1>13. StatesUnspent'
  <2>1. /\ ownState \in [Tab -> [Provider -> 0..Len(flows)]]
        /\ \A u \in Tab, q \in Provider :
              ownState[u][q] # 0 => flows[ownState[u][q]].provider = q /\ flows[ownState[u][q]].tab = u
    BY DEF AskedInv, SignInTyped, StatesTyped
  <2>2. \A u \in Tab, q \in Provider : ownState'[u][q] # 0 => ownState'[u][q] = ownState[u][q]
    BY StatesDropped
  <2>3. ASSUME NEW u \in Tab, NEW q \in Provider, ownState'[u][q] # 0 PROVE ownState[u][q] # f
    <3>1. SUFFICES ASSUME ownState[u][q] = f PROVE FALSE
      OBVIOUS
    <3>2. f # 0 /\ flows[f].provider = q /\ flows[f].tab = u
      BY <1>1, <2>1, <3>1
    <3>3. CASE flows[f].provider = "zenodo"
      BY <2>1, <2>2, <2>3, <3>1, <3>2, <3>3 DEF AskedInv, StatesUnspent
    <3>4. ASSUME NEW p \in Provider, ConsumeState(t, p), ownState[t][p] = f PROVE FALSE
      <4>1. p = q /\ t = u
        BY <2>1, <3>2, <3>4
      <4>2. ownState' = [ownState EXCEPT ![u] = [ownState[u] EXCEPT ![q] = 0]]
        BY <3>4, <4>1 DEF ConsumeState
      <4>3. ownState'[u][q] = 0
        BY <2>1, <4>2
      <4> QED
        BY <2>3, <4>3
    <3> QED
      BY <3>3, <3>4
  <2>4. ASSUME NEW u \in Tab, NEW q \in Provider, ownState'[u][q] # 0
        PROVE  flows'[ownState'[u][q]].sentAs = {}
    <3>1. ownState[u][q] \in 1..Len(flows) \ {f} /\ ownState'[u][q] = ownState[u][q]
      BY <1>1, <2>1, <2>2, <2>3, <2>4
    <3> QED
      BY <1>3, <3>1 DEF AskedInv, StatesUnspent
  <2> QED
    BY <2>4, StatesDropped DEF StatesUnspent
<1> QED
  BY <1>6, <1>9, <1>12, <1>13 DEF AskedInv

LEMMA AskedStep == ASSUME AskedInv, [SignInNext]_svars PROVE AskedInv'
<1>1. SignInTyped /\ SignInTyped' /\ PagesFit /\ PagesKnowSession
  BY SignInTypedStep DEF AskedInv
<1>2. page \in [Tab -> Place(Len(flows))] /\ redirect \in Target \cup {NoTarget}
  BY <1>1 DEF SignInTyped, PagesTyped
<1>3. /\ FitsPage(At("home")) /\ KnowsSession(At("home"))
      /\ FitsPage(At("signup")) /\ KnowsSession(At("signup"))
      /\ FitsPage(At("joining")) /\ KnowsSession(At("joining"))
  BY DEF FitsPage, KnowsSession, At, Provider
<1>4. PoppedFrom(redirect) \in Target
  BY <1>2 DEF PoppedFrom, Target
<1>5. /\ FitsPage(At("login")) /\ (~loggedIn => KnowsSession(At("login")))
      /\ FitsPage(At("settings")) /\ (loggedIn => KnowsSession(At("settings")))
  BY DEF FitsPage, KnowsSession, At, Provider
<1>6. ASSUME UNCHANGED <<flows, loggedIn, page, moved, ownState>> PROVE AskedInv'
  <2>1. PagesFit' /\ PagesKnowSession'
    BY <1>1, <1>6 DEF PagesFit, PagesKnowSession, FitsPage, KnowsSession
  <2> QED
    BY <1>1, <1>6, <2>1, AskedKept
(* A step that moves one tab.                                              *)
<1>7. ASSUME UNCHANGED <<flows, loggedIn>>,
             NEW t \in Tab, NEW p, Enter(t, p), FitsPage(p), KnowsSession(p),
             \/ UNCHANGED ownState
             \/ \E u \in Tab, q \in Provider : ConsumeState(u, q)
      PROVE  AskedInv'
  BY <1>1, <1>7, AskedOnward
<1>8. ASSUME NEW t \in Tab, NEW p \in {"login", "signup"}, EnterLogin(t, p)
      PROVE  \E q : Enter(t, q) /\ FitsPage(q) /\ KnowsSession(q)
  BY <1>3, <1>4, <1>5, <1>8, PlainPage DEF EnterLogin, Pop
<1>9. ASSUME NEW t \in Tab, NEW p \in Target, OpenLink(t, p) PROVE AskedInv'
  BY <1>7, <1>9, PlainPage DEF OpenLink, Load
<1>10. ASSUME NEW t \in Tab, Leave(t) \/ OpenSettings(t) PROVE AskedInv'
  BY <1>3, <1>5, <1>7, <1>10 DEF Leave, OpenSettings
<1>11. ASSUME NEW t \in Tab, SignInFrom(t) PROVE AskedInv'
  <2>1. page[t] \in Target
    BY <1>2, <1>11 DEF SignInFrom, Place, Target, At, Away, Closed, Provider
  <2> QED
    BY <1>5, <1>7, <1>11, <2>1, PlainPage DEF SignInFrom
<1>12. ASSUME NEW t \in Tab, OtherForm(t) PROVE AskedInv'
  <2>1. PICK p \in {"login", "signup"} : EnterLogin(t, p)
    BY <1>12 DEF OtherForm
  <2> QED
    BY <1>7, <1>8, <1>12, <2>1 DEF OtherForm
<1>13. ASSUME NEW t \in Tab, ClickGitHub(t) \/ ConnectZenodo(t) PROVE AskedInv'
  <2>1. PICK p \in Provider \ {"google"}, q \in {"login", "connect"} : Begin(t, p, q)
    BY <1>13 DEF ClickGitHub, ConnectZenodo, Provider
  <2> QED
    BY <1>1, <2>1, AskedBegun
<1>14. ASSUME NEW t \in Tab, ClickGoogle(t) PROVE AskedInv'
  <2>1. t \notin moved => ~loggedIn
    BY <1>1, <1>14 DEF ClickGoogle, LoginShown, PagesKnowSession, KnowsSession
  <2>2. "google" \in Provider /\ Begin(t, "google", "login")
    BY <1>14 DEF ClickGoogle, Provider
  <2> QED
    BY <1>1, <2>1, <2>2, AskedBegun DEF GooglePurpose
<1>15. ASSUME NEW t \in Tab, ConnectGoogle(t) PROVE AskedInv'
  <2>1. t \notin moved => loggedIn
    BY <1>1, <1>15 DEF ConnectGoogle, PagesKnowSession, KnowsSession
  <2>2. "google" \in Provider /\ Begin(t, "google", "connect")
    BY <1>15 DEF ConnectGoogle, Provider
  <2> QED
    BY <1>1, <2>1, <2>2, AskedBegun DEF GooglePurpose
<1>16. ASSUME NEW t \in Tab,
              (\E f \in Flow : ProviderReturns(t, f)) \/ Reload(t)
       PROVE  AskedInv'
  <2>1. PICK f : /\ f \in 1..Len(flows) /\ Load(t, Callback(f))
                 /\ UNCHANGED <<loggedIn, ownState, flows>>
    BY <1>1, <1>16, ShownFlow DEF ProviderReturns, Reload
  <2>2. flows[f].provider \in Provider
    BY <1>1, <2>1, FlowDomain DEF FlowRecord
  <2>3. FitsPage(Callback(f)) /\ KnowsSession(Callback(f))
    BY <2>2 DEF Callback, FitsPage, KnowsSession, Provider
  <2> QED
    BY <1>7, <2>1, <2>3 DEF Load
<1>17. ASSUME NEW t \in Tab, page[t].at \in Provider
       PROVE  page[t].flow \in 1..Len(flows) /\ page[t].flow # 0 /\ flows[page[t].flow].provider = page[t].at
  <2>1. page[t].flow \in 1..Len(flows) /\ Len(flows) \in Nat
    BY <1>1, <1>17, ShownFlow, FlowDomain
  <2> QED
    BY <1>1, <1>17, <2>1 DEF PagesFit, FitsPage
<1>18. ASSUME NEW t \in Tab, NEW p, page[t].at \in Provider, p = Handled(page[t].flow),
              flows[page[t].flow].provider = "github" => ~loggedIn
       PROVE  FitsPage(p) /\ KnowsSession(p)
  BY <1>18 DEF Handled, FitsPage, KnowsSession, Provider
<1>19. ASSUME NEW t \in Tab, GitHubCallback(t) PROVE AskedInv'
  <2>1. page[t].at = "github" /\ "github" \in Provider
    BY <1>19 DEF GitHubCallback, Provider
  <2>2. CASE loggedIn
    BY <1>4, <1>7, <1>19, <2>2, PlainPage DEF GitHubCallback, Pop
  <2>3. CASE ~loggedIn /\ ownState[t]["github"] = page[t].flow
    BY <1>1, <1>17, <1>19, <2>1, <2>3, AskedSent DEF GitHubCallback, Request
  <2>4. CASE ~loggedIn /\ ownState[t]["github"] # page[t].flow
    BY <1>7, <1>18, <1>19, <2>1, <2>4 DEF GitHubCallback
  <2> QED
    BY <2>2, <2>3, <2>4
<1>20. ASSUME NEW t \in Tab, GoogleCallback(t) PROVE AskedInv'
  <2>1. page[t].at = "google" /\ "google" \in Provider
    BY <1>20 DEF GoogleCallback, Provider
  <2>2. CASE ownState[t]["google"] = page[t].flow
    <3>1. GooglePurpose \in Request
      BY DEF GooglePurpose, Request
    <3> QED
      BY <1>1, <1>17, <1>20, <2>1, <2>2, <3>1, AskedSent DEF GoogleCallback
  <2>3. CASE ownState[t]["google"] # page[t].flow
    BY <1>7, <1>8, <1>20, <2>1, <2>3 DEF GoogleCallback
  <2> QED
    BY <2>2, <2>3
<1>21. ASSUME NEW t \in Tab, ZenodoCallback(t) PROVE AskedInv'
  <2>1. page[t].at = "zenodo" /\ "zenodo" \in Provider
    BY <1>21 DEF ZenodoCallback, Provider
  <2>2. PICK as \in Request : Send(t, page[t].flow, as)
    BY <1>21 DEF ZenodoCallback, Request
  <2> QED
    BY <1>1, <1>17, <1>21, <2>1, <2>2, AskedSent DEF ZenodoCallback
<1>22. ASSUME NEW t \in Tab, SubmitPassword(t) \/ RequestFailed(t) PROVE AskedInv'
  BY <1>6, <1>22 DEF SubmitPassword, RequestFailed
<1>23. ASSUME NEW t \in Tab, JoinMounts(t) PROVE AskedInv'
  BY <1>3, <1>7, <1>23 DEF JoinMounts
<1>24. ASSUME NEW t \in Tab, Connected(t) \/ Joined(t) \/ TimerFires(t) PROVE AskedInv'
  BY <1>3, <1>5, <1>7, <1>24 DEF Connected, Joined, TimerFires
<1>25. ASSUME NEW t \in Tab, LoggedIn(t) PROVE AskedInv'
  <2>1. CASE loggedIn
    <3>1. UNCHANGED <<flows, loggedIn, ownState>> /\ Enter(t, PoppedFrom(redirect))
      BY <1>25, <2>1 DEF LoggedIn, Enter
    <3> QED
      BY <1>4, <1>7, <3>1, PlainPage
  <2>2. CASE ~loggedIn
    BY <1>1, <1>4, <1>25, <2>2, AskedOutlived DEF LoggedIn
  <2> QED
    BY <2>1, <2>2
<1>26. ASSUME NEW t \in Tab, LogOut(t) PROVE AskedInv'
  <2>1. At("home") \in Target
    BY DEF Target
  <2> QED
    BY <1>1, <1>26, <2>1, AskedOutlived DEF LogOut
<1>27. CASE SessionEnds
  BY <1>1, <1>27, AskedOutlived DEF SessionEnds
<1>28. CASE UNCHANGED svars
  BY <1>6, <1>28 DEF svars
<1> QED
  BY <1>9, <1>10, <1>11, <1>12, <1>13, <1>14, <1>15, <1>16, <1>19, <1>20, <1>21, <1>22, <1>23,
     <1>24, <1>25, <1>26, <1>27, <1>28 DEF SignInNext

(* What Google answers is used for what the user asked for, though both    *)
(* intents come back to one page (auth/google.tsx, isLoggedIn()), unless   *)
(* somebody logged in or out in between; and a code is sent once.          *)
THEOREM GoogleDoesAsAsked == SignInSpec => []GoogleAsAsked
<1>1. SignInInit => AskedInv
  BY AskedInitially
<1>2. AskedInv /\ [SignInNext]_svars => AskedInv'
  BY AskedStep
<1>3. AskedInv => GoogleAsAsked
  BY FlowDomain DEF AskedInv, AsAsked, GoogleAsAsked
<1> QED
  BY <1>1, <1>2, <1>3, PTL DEF SignInSpec

-----------------------------------------------------------------------------

(* The parts share no state: what is proved of each holds where they are   *)
(* explored together.                                                      *)
THEOREM PartsAreApart ==
    PartsSpec => Spec /\ SignInSpec /\ ZoteroSpec /\ RemoteSpec
<1>1. PartsInit => Init /\ SignInInit /\ ZoteroInit /\ RemoteInit
  BY DEF PartsInit
<1>2. [PartsNext]_partsVars =>
          [Next]_vars /\ [SignInNext]_svars /\ [ZoteroNext]_zvars /\ [RemoteNext]_rvars
  BY DEF PartsNext, partsVars
<1> QED
  BY <1>1, <1>2, PTL DEF PartsSpec, Spec, SignInSpec, ZoteroSpec, RemoteSpec

=============================================================================
