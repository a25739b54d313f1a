------------------------------- MODULE SignIn --------------------------------
(***************************************************************************)
(* Signing in and connecting accounts in one browser: the pages of         *)
(* routes/login, routes/auth, routes/join and signup.tsx, over             *)
(* localStorage (tokens and post_login_redirect, shared by the tabs) and   *)
(* sessionStorage (the OAuth state, one per tab).  Providers are external. *)
(***************************************************************************)
EXTENDS Naturals, Sequences, FiniteSets

CONSTANTS
    Tab,
    MaxBusy      \* bound: the tabs, and the consents asked of providers, together

ASSUME SignInAssumption == MaxBusy \in Nat /\ IsFiniteSet(Tab)

Flow == 1..MaxBusy
Provider == {"github", "google", "zenodo"}

VARIABLES
    loggedIn,   \* localStorage holds tokens
    redirect,   \* localStorage: post_login_redirect
    page,       \* where each tab is
    moved,      \* history: the tabs whose user logged in or out since they showed the page
    ownState,   \* sessionStorage: the state of the last flow, by provider
    flows,      \* the flows begun: provider, tab, what for and, as history, whether somebody
                \* logged in or out since, what the code was sent for, and whether twice
    request,    \* each tab's mutation
    timer,      \* each tab's setTimeout after a connection that failed
    followed,   \* history: the invite link was followed by a visitor
    displaced   \* history: another target took its place, or a logout

svars == <<loggedIn, redirect, page, moved, ownState, flows, request, timer, followed, displaced>>
inviteHistory == <<followed, displaced>>

At(place) == [at |-> place, flow |-> 0]
NoTarget == At("none")
Target == {At("join"), At("device"), At("home")}
Callback(f) == [at |-> flows[f].provider, flow |-> f]
Handled(f) == [at |-> "handled", flow |-> f]
Away == At("provider")
Closed == At("closed")
NoState == [p \in Provider |-> 0]

(* A callback or a join page whose effect has yet to run.                  *)
Unsettled(p) == p.at \in Provider \cup {"join"}
AtRest(t) == ~Unsettled(page[t]) /\ page[t] \notin {Away, Closed}

SignInTypeOK ==
    /\ loggedIn \in BOOLEAN
    /\ redirect \in Target \cup {NoTarget}
    /\ \A t \in Tab :
        /\ page[t] \in Target \cup {At("login"), At("signup"), At("settings"), At("joining"), Away, Closed}
                       \cup [at : Provider \cup {"handled"}, flow : 1..Len(flows)]
        /\ \A p \in Provider :
            ownState[t][p] # 0 => flows[ownState[t][p]].provider = p /\ flows[ownState[t][p]].tab = t
        /\ request[t] \in {"none", "login", "connect", "refused", "redeem"}
        /\ timer[t] \in BOOLEAN
    /\ Len(flows) <= MaxBusy
    /\ moved \subseteq Tab

SignInInit ==
    /\ loggedIn \in BOOLEAN
    /\ redirect = NoTarget
    /\ page \in [Tab -> {At("home"), Closed}] /\ moved = {}
    /\ ownState = [t \in Tab |-> NoState]
    /\ flows = <<>>
    /\ request = [t \in Tab |-> "none"] /\ timer = [t \in Tab |-> FALSE]
    /\ followed = FALSE /\ displaced = FALSE

-----------------------------------------------------------------------------
(* Navigation.                                                             *)

Enter(t, p) == page' = [page EXCEPT ![t] = p] /\ moved' = moved \ {t}

(* A document is loaded: the old one's requests and timers are gone.       *)
Load(t, p) ==
    /\ Enter(t, p)
    /\ request' = [request EXCEPT ![t] = "none"] /\ timer' = [timer EXCEPT ![t] = FALSE]

SetRedirect(p) ==
    /\ redirect' = p
    /\ displaced' = (displaced \/ (redirect = At("join") /\ p # At("join")))

(* Mutant: what was popped is not gone to.                                 *)
PoppedForgotten(target) == At("home")

(* What popPostLoginRedirect returns, which is gone to.                    *)
PoppedFrom(target) == IF target = NoTarget THEN At("home") ELSE target

Pop(t) == redirect' = NoTarget /\ Enter(t, PoppedFrom(redirect))

(* History: the flows outlive the session that was when they began.        *)
Outlived == [f \in DOMAIN flows |-> [flows[f] EXCEPT !.moved = TRUE]]

(* beforeLoad of the login and signup pages.                               *)
EnterLogin(t, p) == IF loggedIn THEN Pop(t) ELSE Enter(t, At(p)) /\ UNCHANGED redirect

(* The user opens a link in a tab.                                         *)
OpenLink(t, p) ==
    /\ AtRest(t) \/ page[t] = Away
    /\ page[t] # p
    /\ p \in {At("join"), At("device"), At("home")}
    /\ UNCHANGED loggedIn /\ Load(t, p)
    /\ UNCHANGED <<redirect, ownState, flows, inviteHistory>>

(* A link inside the application: requests and timers live on.             *)
Leave(t) ==
    /\ AtRest(t) /\ page[t] # At("home")
    /\ UNCHANGED loggedIn /\ Enter(t, At("home"))
    /\ UNCHANGED <<redirect, ownState, flows, request, timer, inviteHistory>>

(* beforeLoad of the settings sends a visitor to the login page.           *)
OpenSettings(t) ==
    /\ AtRest(t) /\ page[t] # At("settings")
    /\ UNCHANGED loggedIn
    /\ Enter(t, At(IF loggedIn THEN "settings" ELSE "login"))
    /\ UNCHANGED <<redirect, ownState, flows, request, timer, inviteHistory>>

(* "Sign in" of the top bar, "Log in to authorize" of the device page;     *)
(* both may be shown though another tab has signed in meanwhile.           *)
SignInFrom(t) ==
    /\ page[t].at \in {"home", "device"}
    /\ UNCHANGED loggedIn
    /\ displaced' = (displaced \/ redirect = At("join"))
    /\ IF loggedIn THEN redirect' = NoTarget /\ Enter(t, page[t])
       ELSE redirect' = page[t] /\ Enter(t, At("login"))
    /\ UNCHANGED <<ownState, flows, request, timer, followed>>

(* The page a GitHub code was brought to is the login page.                *)
LoginShown(t) ==
    \/ page[t].at = "login"
    \/ page[t].at = "handled" /\ flows[page[t].flow].provider = "github"

(* The links between the two forms.                                        *)
OtherForm(t) ==
    /\ LoginShown(t) \/ page[t].at = "signup"
    /\ UNCHANGED loggedIn
    /\ EnterLogin(t, IF page[t].at = "signup" THEN "login" ELSE "signup")
    /\ UNCHANGED <<ownState, flows, request, timer, inviteHistory>>

-----------------------------------------------------------------------------
(* Flows.                                                                  *)

Begin(t, provider, purpose) ==
    /\ Len(flows) + Cardinality({u \in Tab : page[u] # Closed}) < MaxBusy
    /\ flows' = Append(flows, [provider |-> provider, tab |-> t, purpose |-> purpose,
                               moved |-> t \in moved, sentAs |-> {}, resent |-> FALSE])
    /\ ownState' = IF provider = "zenodo" THEN ownState
                 ELSE [ownState EXCEPT ![t][provider] = Len(flows')]
    /\ UNCHANGED loggedIn /\ Load(t, Away)
    /\ UNCHANGED <<redirect, inviteHistory>>

ClickGitHub(t) == LoginShown(t) /\ Begin(t, "github", "login")
ClickGoogle(t) == LoginShown(t) /\ Begin(t, "google", "login")
ConnectGoogle(t) == page[t].at = "settings" /\ Begin(t, "google", "connect")
ConnectZenodo(t) == page[t].at = "settings" /\ Begin(t, "zenodo", "connect")

(* The user consents, perhaps in the consent screen of an earlier flow     *)
(* that the Back button has led to.                                        *)
ProviderReturns(t, f) ==
    /\ page[t] = Away /\ f \in 1..Len(flows) /\ flows[f].tab = t
    /\ UNCHANGED loggedIn /\ Load(t, Callback(f))
    /\ UNCHANGED <<redirect, ownState, flows, inviteHistory>>

Reload(t) ==
    /\ page[t].at = "handled"
    /\ UNCHANGED loggedIn /\ Load(t, Callback(page[t].flow))
    /\ UNCHANGED <<redirect, ownState, flows, inviteHistory>>

(* Read and clear.                                                         *)
ConsumeState(t, provider) == ownState' = [ownState EXCEPT ![t][provider] = 0]

Send(t, f, as) ==
    /\ request' = [request EXCEPT ![t] = as]
    /\ flows' = [flows EXCEPT ![f].sentAs = @ \cup {as}, ![f].resent = flows[f].sentAs # {}]

(* /login?code=...: beforeLoad first, then the effect.                     *)
GitHubCallback(t) ==
    LET f == page[t].flow IN
    /\ page[t].at = "github"
    /\ UNCHANGED loggedIn
    /\ IF loggedIn THEN Pop(t) /\ UNCHANGED <<ownState, request, flows>>
       ELSE /\ Enter(t, Handled(f)) /\ ConsumeState(t, "github")
            /\ IF ownState[t]["github"] = f THEN Send(t, f, "login") ELSE UNCHANGED <<request, flows>>
            /\ UNCHANGED redirect
    /\ UNCHANGED <<timer, inviteHistory>>

(* Mutant: the redirect of Google is taken for a sign-in.                  *)
GooglePurposeLogin == "login"

(* One redirect URI serves both intents; isLoggedIn() tells them apart.    *)
GooglePurpose == IF loggedIn THEN "connect" ELSE "login"

GoogleCallback(t) ==
    LET f == page[t].flow IN
    /\ page[t].at = "google"
    /\ UNCHANGED loggedIn
    /\ ConsumeState(t, "google")
    /\ IF ownState[t]["google"] = f
       THEN Enter(t, Handled(f)) /\ Send(t, f, GooglePurpose) /\ UNCHANGED redirect
       ELSE EnterLogin(t, "login") /\ UNCHANGED <<request, flows>>
    /\ UNCHANGED <<timer, inviteHistory>>

(* Zenodo's state is a constant: it matches whatever flow this is.  The    *)
(* request of a visitor is refused.                                        *)
ZenodoCallback(t) ==
    LET f == page[t].flow IN
    /\ page[t].at = "zenodo"
    /\ UNCHANGED loggedIn
    /\ Enter(t, Handled(f)) /\ Send(t, f, IF loggedIn THEN "connect" ELSE "refused")
    /\ UNCHANGED <<redirect, ownState, timer, inviteHistory>>

(* A password, or the form of the signup page.                             *)
SubmitPassword(t) ==
    /\ LoginShown(t) \/ page[t].at = "signup"
    /\ request[t] = "none"
    /\ request' = [request EXCEPT ![t] = "login"]
    /\ UNCHANGED <<loggedIn, redirect, page, moved, ownState, flows, timer, inviteHistory>>

(* The effect of the join page.                                            *)
JoinMounts(t) ==
    /\ page[t] = At("join")
    /\ UNCHANGED loggedIn
    /\ IF loggedIn
       THEN /\ Enter(t, At("joining"))
            /\ request' = [request EXCEPT ![t] = "redeem"]
            /\ followed' = FALSE /\ displaced' = FALSE
            /\ UNCHANGED redirect
       ELSE /\ Enter(t, At("signup")) /\ redirect' = At("join")
            /\ followed' = TRUE /\ displaced' = FALSE
            /\ UNCHANGED request
    /\ UNCHANGED <<ownState, flows, timer>>

-----------------------------------------------------------------------------
(* Answers.  A provider honors a code once; that, and the other reasons    *)
(* for which a request may fail, are left open.                            *)

(* storeTokens, and onSuccess: also when the user has left the page.       *)
LoggedIn(t) ==
    /\ request[t] = "login"
    /\ loggedIn' = TRUE
    /\ redirect' = NoTarget
    /\ page' = [page EXCEPT ![t] = PoppedFrom(redirect)]
    /\ moved' = IF loggedIn THEN moved \ {t} ELSE Tab \ {t}
    /\ flows' = IF loggedIn THEN flows ELSE Outlived
    /\ request' = [request EXCEPT ![t] = "none"]
    /\ UNCHANGED <<ownState, timer, inviteHistory>>

Connected(t) ==
    /\ request[t] = "connect"
    /\ UNCHANGED loggedIn
    /\ Enter(t, At(IF loggedIn THEN "settings" ELSE "login"))
    /\ request' = [request EXCEPT ![t] = "none"]
    /\ UNCHANGED <<redirect, ownState, flows, timer, inviteHistory>>

Joined(t) ==
    /\ request[t] = "redeem"
    /\ UNCHANGED loggedIn /\ Enter(t, At("home"))
    /\ request' = [request EXCEPT ![t] = "none"]
    /\ UNCHANGED <<redirect, ownState, flows, timer, inviteHistory>>

(* onError: a connection that failed goes back to the settings later.      *)
RequestFailed(t) ==
    /\ request[t] # "none"
    /\ timer' = [timer EXCEPT ![t] = timer[t] \/ request[t] \in {"connect", "refused"}]
    /\ request' = [request EXCEPT ![t] = "none"]
    /\ UNCHANGED <<loggedIn, redirect, page, moved, ownState, flows, inviteHistory>>

TimerFires(t) ==
    /\ timer[t] /\ AtRest(t)
    /\ timer' = [timer EXCEPT ![t] = FALSE]
    /\ UNCHANGED loggedIn
    /\ Enter(t, At(IF loggedIn THEN "settings" ELSE "login"))
    /\ UNCHANGED <<redirect, ownState, flows, request, inviteHistory>>

LogOut(t) ==
    /\ loggedIn /\ AtRest(t)
    /\ loggedIn' = FALSE
    /\ SetRedirect(NoTarget)
    /\ page' = [page EXCEPT ![t] = At("home")]
    /\ moved' = Tab \ {t} /\ flows' = Outlived
    /\ request' = [request EXCEPT ![t] = "none"] /\ timer' = [timer EXCEPT ![t] = FALSE]
    /\ UNCHANGED <<ownState, followed>>

(* Tokens that auth.ts clears after a refresh was refused.                 *)
SessionEnds ==
    /\ loggedIn
    /\ loggedIn' = FALSE
    /\ moved' = Tab /\ flows' = Outlived
    /\ UNCHANGED <<redirect, page, ownState, request, timer, inviteHistory>>

SignInNext ==
    \/ \E t \in Tab :
        \/ \E p \in Target : OpenLink(t, p)
        \/ Leave(t) \/ OpenSettings(t) \/ SignInFrom(t) \/ OtherForm(t)
        \/ ClickGitHub(t) \/ ClickGoogle(t) \/ ConnectGoogle(t) \/ ConnectZenodo(t)
        \/ \E f \in Flow : ProviderReturns(t, f)
        \/ Reload(t)
        \/ GitHubCallback(t) \/ GoogleCallback(t) \/ ZenodoCallback(t)
        \/ SubmitPassword(t) \/ JoinMounts(t)
        \/ LoggedIn(t) \/ Connected(t) \/ Joined(t) \/ RequestFailed(t) \/ TimerFires(t)
        \/ LogOut(t)
    \/ SessionEnds

SignInSpec == SignInInit /\ [][SignInNext]_svars

-----------------------------------------------------------------------------

(* A visitor who followed an invite link gets back to it after signing in, *)
(* however many pages and tabs that takes, unless another page asked to be *)
(* returned to, or the user logged out, in between.                        *)
InviteKept ==
    followed /\ ~displaced => redirect = At("join") \/ \E t \in Tab : page[t] = At("join")

(* What Google answers is used for what the user asked for, though the two *)
(* intents share a page that only looks whether somebody is logged in;     *)
(* unless somebody logged in or out since the page was shown on which the  *)
(* user asked.  And a code is sent once, even if the page is loaded again. *)
GoogleAsAsked ==
    \A f \in DOMAIN flows :
        /\ flows[f].provider = "google" /\ ~flows[f].moved => flows[f].sentAs \subseteq {flows[f].purpose}
        /\ flows[f].provider # "zenodo" => ~flows[f].resent

=============================================================================
