--------------------------- MODULE BrowserSession ---------------------------
(***************************************************************************)
(* The browser side of a login session (frontend/src/lib/auth.ts and      *)
(* hooks/useAuth.ts) over the server side of RefreshTokens.  The tabs of  *)
(* one browser share localStorage; each has a JavaScript realm of its own *)
(* with a module-level refreshPromise.  A realm runs to completion: code  *)
(* between two awaits is one action.                                      *)
(***************************************************************************)
EXTENDS RefreshTokens, FiniteSets

CONSTANTS
    Tab,
    NoReq,    \* refreshPromise is null
    NoTab,    \* nobody made the call
    Settled,  \* refreshPromise is a promise that already resolved to null
    Buffer    \* bufferSeconds of isTokenExpiredOrExpiringSoon, in ticks

VARIABLES
    accessTok,   \* localStorage["access_token"]: the pair it belongs to
    refreshTok,  \* localStorage["refresh_token"]
    promise,     \* each tab's refreshPromise: the call it awaits
    via,         \* who made each call, how, and the access token it saw
    query,       \* each tab's GET /user: the access token it carries
    error,       \* each tab's getUserError, by the outcome that led to it
    lost         \* history: tokens redeemed by a call whose answer got lost

storage == <<accessTok, refreshTok>>
browser == <<accessTok, refreshTok, promise, via, query, error, lost>>
allVars == <<vars, browser>>

NoQuery == [tok |-> NoPair, retry |-> FALSE]
NoVia == [tab |-> NoTab, kind |-> "none", prior |-> NoPair]

BrowserTypeOK ==
    /\ accessTok \in Pair \cup {NoPair}
    /\ refreshTok \in Pair \cup {NoPair}
    /\ promise \in [Tab -> Req \cup {NoReq, Settled}]
    /\ via \in [Req -> [tab : Tab \cup {NoTab}, kind : {"none", "silent", "force", "dropped"},
                        prior : Pair \cup {NoPair}]]
    /\ query \in [Tab -> [tok : Pair \cup {NoPair}, retry : BOOLEAN]]
    /\ error \in [Tab -> {"none", "rejected", "transient"}]
    /\ lost \subseteq Pair

BrowserInit ==
    /\ Init
    /\ accessTok = NoPair
    /\ refreshTok = NoPair
    /\ promise = [b \in Tab |-> NoReq]
    /\ via = [r \in Req |-> NoVia]
    /\ query = [b \in Tab |-> NoQuery]
    /\ error = [b \in Tab |-> "none"]
    /\ lost = {}

-----------------------------------------------------------------------------

ExpiringSoon(p) == access[p] <= Buffer

(* Mutant: the rotated refresh token in the response is not stored.        *)
StoreAccessOnly(p) == accessTok' = p /\ refreshTok' = IF refreshTok = NoPair THEN p ELSE refreshTok

Store(p) == accessTok' = p /\ refreshTok' = p
ClearTokens == accessTok' = NoPair /\ refreshTok' = NoPair

(* Bound: a new call or login starts only while a pair is left for it and  *)
(* for every call under way, so that no call waits for a pair forever.     *)
PairsLeft ==
    Cardinality(issued) + Cardinality({r \in Req : call[r].st \in {"sent", "rotating"}})
        < Cardinality(Pair)

(* LoginService.refreshAccessToken with the refresh token in localStorage. *)
PostRefresh(b, r, kind) ==
    /\ PairsLeft
    /\ Present(r, refreshTok)
    /\ via' = [via EXCEPT ![r] = [tab |-> b, kind |-> kind, prior |-> accessTok]]

(* The realm of a tab goes away (a reload, a closed tab, the navigation of *)
(* a logout): answers to its calls find nobody.                            *)
DropRealm(b) ==
    /\ promise' = [promise EXCEPT ![b] = NoReq]
    /\ via' = [r \in Req |-> IF via[r].tab = b
                             THEN [via[r] EXCEPT !.kind = "dropped"] ELSE via[r]]
    /\ query' = [query EXCEPT ![b] = NoQuery]
    /\ error' = [error EXCEPT ![b] = "none"]

(* useAuth's login mutations store the tokens of the response.             *)
LoginInTab(b, p, u) ==
    /\ accessTok = NoPair
    /\ PairsLeft
    /\ Login(p, u)
    /\ Store(p)
    /\ UNCHANGED <<promise, via, query, error, lost>>

(* A session of an access token alone: what storeTokens leaves for a       *)
(* response without a refresh token (Token.refresh_token is optional) and  *)
(* what frontend/tests/auth.setup.ts seeds.                                *)
LoginWithoutRefresh(b, p, u) ==
    /\ accessTok = NoPair
    /\ PairsLeft
    /\ Login(p, u)
    /\ accessTok' = p /\ refreshTok' = NoPair
    /\ UNCHANGED <<promise, via, query, error, lost>>

(* getValidAccessToken with an expiring access token and no refresh under  *)
(* way.  Without a refresh token the async function returns before its     *)
(* first await: its finally clears refreshPromise, and only then is the    *)
(* promise it returned assigned to it.                                     *)
RefreshNotPossible(b) ==
    /\ accessTok # NoPair /\ ExpiringSoon(accessTok)
    /\ promise[b] = NoReq
    /\ refreshTok = NoPair
    /\ promise' = [promise EXCEPT ![b] = Settled]
    /\ UNCHANGED <<vars, storage, via, query, error, lost>>

StartSilent(b, r) ==
    /\ accessTok # NoPair /\ ExpiringSoon(accessTok)
    /\ promise[b] = NoReq
    /\ refreshTok # NoPair
    /\ PostRefresh(b, r, "silent")
    /\ promise' = [promise EXCEPT ![b] = r]
    /\ UNCHANGED <<storage, query, error, lost>>

(* Mutant: a failed refresh always means that the session is dead.         *)
NeverAdoptable(r) == FALSE

(* A token another tab stored meanwhile and that is still good.            *)
Adoptable(r) ==
    /\ accessTok # NoPair
    /\ accessTok # via[r].prior
    /\ ~ExpiringSoon(accessTok)

Settle(r, kind) ==
    /\ via[r].kind = kind
    /\ Receive(r)
    /\ via' = [via EXCEPT ![r] = NoVia]

(* Mutant: no finally; only a success clears refreshPromise.               *)
SilentFailedKeepsPromise(r) ==
    /\ call[r].st \in {"rejected", "failed"}
    /\ Settle(r, "silent")
    /\ IF Adoptable(r) THEN UNCHANGED storage ELSE ClearTokens
    /\ UNCHANGED <<promise, query, error, lost>>

(* The answer arrives in getValidAccessToken; its finally clears whatever  *)
(* refreshPromise holds by then.                                           *)
SilentGranted(r) ==
    /\ call[r].st = "granted"
    /\ Settle(r, "silent")
    /\ Store(call[r].new)
    /\ promise' = [promise EXCEPT ![via[r].tab] = NoReq]
    /\ UNCHANGED <<query, error, lost>>

SilentFailed(r) ==
    /\ call[r].st \in {"rejected", "failed"}
    /\ Settle(r, "silent")
    /\ IF Adoptable(r) THEN UNCHANGED storage ELSE ClearTokens
    /\ promise' = [promise EXCEPT ![via[r].tab] = NoReq]
    /\ UNCHANGED <<query, error, lost>>

-----------------------------------------------------------------------------

(* useAuth's queryFn: GET /user with a token getValidAccessToken returned. *)
SendQuery(b) ==
    /\ query[b] = NoQuery
    /\ error[b] = "none"
    /\ accessTok # NoPair /\ ~ExpiringSoon(accessTok)
    /\ query' = [query EXCEPT ![b].tok = accessTok]
    /\ UNCHANGED <<vars, storage, promise, via, error, lost>>

QueryAnswered(b) ==
    /\ query[b].tok # NoPair
    /\ access[query[b].tok] > 0
    /\ query' = [query EXCEPT ![b] = NoQuery]
    /\ UNCHANGED <<vars, storage, promise, via, error, lost>>

(* The server rejects the token of a first try: forceRefreshAccessToken    *)
(* drops refreshPromise and posts the refresh token, or gives up at once.  *)
ForceRefresh(b, r) ==
    /\ query[b].tok # NoPair /\ ~query[b].retry
    /\ access[query[b].tok] = 0
    /\ refreshTok # NoPair
    /\ PostRefresh(b, r, "force")
    /\ promise' = [promise EXCEPT ![b] = NoReq]
    /\ query' = [query EXCEPT ![b] = [tok |-> NoPair, retry |-> TRUE]]
    /\ UNCHANGED <<storage, error, lost>>

QueryGivenUp(b) ==
    /\ query[b].tok # NoPair
    /\ access[query[b].tok] = 0
    /\ query[b].retry \/ refreshTok = NoPair
    /\ promise' = [promise EXCEPT ![b] = IF query[b].retry THEN @ ELSE NoReq]
    /\ query' = [query EXCEPT ![b] = NoQuery]
    /\ error' = [error EXCEPT ![b] = "rejected"]
    /\ UNCHANGED <<vars, storage, via, lost>>

(* The refreshed or adopted token lets queryFn retry GET /user with it.    *)
ForceGranted(r) ==
    /\ call[r].st = "granted"
    /\ Settle(r, "force")
    /\ Store(call[r].new)
    /\ query' = [query EXCEPT ![via[r].tab].tok = call[r].new]
    /\ UNCHANGED <<promise, error, lost>>

ForceAdopted(r) ==
    /\ call[r].st \in {"rejected", "failed"}
    /\ Adoptable(r)
    /\ Settle(r, "force")
    /\ query' = [query EXCEPT ![via[r].tab].tok = accessTok]
    /\ UNCHANGED <<storage, promise, error, lost>>

(* No token: only a 401 clears the tokens, but either way queryFn rethrows *)
(* the error of its first try.                                             *)
ForceFailed(r) ==
    LET b == via[r].tab IN
    /\ call[r].st \in {"rejected", "failed"}
    /\ ~Adoptable(r)
    /\ Settle(r, "force")
    /\ IF call[r].st = "rejected" THEN ClearTokens ELSE UNCHANGED storage
    /\ query' = [query EXCEPT ![b] = NoQuery]
    /\ error' = [error EXCEPT ![b] = IF call[r].st = "rejected" THEN "rejected"
                                                               ELSE "transient"]
    /\ UNCHANGED <<promise, lost>>

(* The next render of useAuth finds getUserError and a token in storage.   *)
AutoLogoutDue(b) == error[b] # "none" /\ accessTok # NoPair

AutoLogout(b) ==
    /\ AutoLogoutDue(b)
    /\ ClearTokens
    /\ DropRealm(b)
    /\ UNCHANGED <<vars, lost>>

-----------------------------------------------------------------------------

LogOut(b) ==
    /\ accessTok # NoPair
    /\ ClearTokens
    /\ DropRealm(b)
    /\ UNCHANGED <<vars, lost>>

Reload(b) ==
    /\ DropRealm(b)
    /\ UNCHANGED <<vars, storage, lost>>

(* An answer for a realm that is gone.                                     *)
DropAnswer(r) ==
    /\ Settle(r, "dropped")
    /\ lost' = IF call[r].st = "granted" THEN lost \cup {call[r].tok} ELSE lost
    /\ UNCHANGED <<storage, promise, query, error>>

NetworkFailure(r) ==
    /\ Fail(r)
    /\ lost' = IF call[r].st = "granted" THEN lost \cup {call[r].tok} ELSE lost
    /\ UNCHANGED <<storage, promise, via, query, error>>

(* Steps of the server alone (bound: a user is deactivated, never          *)
(* reactivated; RefreshTokens has both).                                   *)
ServerStep ==
    /\ \/ \E r \in Req : Refuse(r) \/ RefuseInactiveUser(r) \/ Validate(r)
       \/ \E r \in Req, p \in Pair : Rotate(r, p)
       \/ \E u \in User : userActive[u] /\ SetUserActive(u)
       \/ Tick
    /\ UNCHANGED browser

BrowserNext ==
    \/ \E b \in Tab, p \in Pair, u \in User :
          LoginInTab(b, p, u) \/ LoginWithoutRefresh(b, p, u)
    \/ \E b \in Tab : \/ RefreshNotPossible(b) \/ SendQuery(b) \/ QueryAnswered(b)
                      \/ QueryGivenUp(b) \/ AutoLogout(b) \/ LogOut(b) \/ Reload(b)
    \/ \E b \in Tab, r \in Req : StartSilent(b, r) \/ ForceRefresh(b, r)
    \/ \E r \in Req : \/ SilentGranted(r) \/ SilentFailed(r) \/ ForceGranted(r)
                      \/ ForceAdopted(r) \/ ForceFailed(r) \/ DropAnswer(r)
                      \/ NetworkFailure(r)
    \/ ServerStep

BrowserSpec == BrowserInit /\ [][BrowserNext]_allVars

(* The server answers what reaches it or the connection breaks, and the    *)
(* event loop runs the continuation of a settled promise.  A call waiting  *)
(* for the row lock gets it in turn (PostgreSQL queues lock waiters), hence *)
(* strong fairness for what follows the SELECT.                            *)
Answered(r) == \/ Refuse(r) /\ UNCHANGED browser
               \/ RefuseInactiveUser(r) /\ UNCHANGED browser
               \/ Validate(r) /\ UNCHANGED browser
Fairness ==
    \A r \in Req :
        /\ SF_allVars(Answered(r))
        /\ WF_allVars(\E p \in Pair : Rotate(r, p) /\ UNCHANGED browser)
        /\ WF_allVars(SilentGranted(r) \/ SilentFailed(r))

FairBrowserSpec == BrowserSpec /\ Fairness

-----------------------------------------------------------------------------

Redeemable(p) ==
    p # NoPair /\ isActive[p] /\ expires[p] > 0 /\ userActive[owner[p]]

Pending(r) == via[r].kind \in {"silent", "force"}

(* A rotation strands nobody unless its answer got lost: the refresh token *)
(* in storage has been redeemed only if the answer that replaces it is     *)
(* still on its way, or never arrived (a reload, a broken connection).     *)
StrandedOnlyByLoss ==
    refreshTok \in rotated =>
        \/ refreshTok \in lost
        \/ \E r \in Req : /\ via[r].kind # "none"
                          /\ call[r].st = "granted" /\ call[r].tok = refreshTok

(* The tab that loses a refresh race does not log the others out: when a   *)
(* 401 makes a tab clear the tokens, the session in storage is dead, or    *)
(* its access token went stale while the answer was on its way.            *)
RejectionSparesLiveSession ==
    [][\A r \in Req :
         /\ Pending(r) /\ via'[r].kind = "none"
         /\ call[r].st = "rejected"
         /\ accessTok # NoPair /\ accessTok' = NoPair
         => ExpiringSoon(accessTok) \/ ~Redeemable(refreshTok)]_allVars

(* Every request that waits for a silent refresh goes on eventually: the   *)
(* in-flight promise does not stay in place for good.                      *)
SilentRefreshSettles ==
    \A b \in Tab : promise[b] \in Req ~> promise[b] \notin Req

(* auth.ts: "Returns a valid access token, silently refreshing if it is    *)
(* expired or expiring within 30 seconds": no tab holds a promise that     *)
(* answers null for good while storage has a redeemable refresh token.     *)
ExpiredIsRefreshed ==
    \A b \in Tab : promise[b] = Settled =>
        ~(accessTok # NoPair /\ ExpiringSoon(accessTok) /\ Redeemable(refreshTok))
=============================================================================
