------------------------------ MODULE ZoteroFlow -----------------------------
(***************************************************************************)
(* Connecting a Zotero account (backend/app/users.py 608-689,              *)
(* routes/users.py 690-773).  The request token of OAuth 1.0a is kept in a *)
(* row of its own until the user comes back from Zotero; there is one such *)
(* row, however many flows a user has open.                                *)
(***************************************************************************)
EXTENDS Naturals

CONSTANTS
    ZoteroFlows,  \* the flows of one user, in the order of their numbers
    Finish        \* concurrent calls that finish a flow

ASSUME ZoteroAssumption == ZoteroFlows \subseteq Nat \ {0}

None == 0

VARIABLES
    oauth,    \* where each flow is
    pending,  \* the row labelled "pending": the flow whose token it has
    apiKey,   \* the row labelled "default": the flow that earned it
    finish,   \* the calls of POST /user/zotero-auth
    newest,   \* history: the flow whose token was saved last
    raced     \* history: flows begun while a finish of another was past its check

zvars == <<oauth, pending, apiKey, finish, newest, raced>>

NoFinish == [flow |-> None, st |-> "idle"]

ZoteroTypeOK ==
    /\ oauth \in [ZoteroFlows -> {"new", "fetched", "open", "exchanged", "failed"}]
    /\ {pending, apiKey, newest} \subseteq ZoteroFlows \cup {None}
    /\ finish \in [Finish -> [flow : ZoteroFlows \cup {None},
                              st : {"idle", "exchanging", "exchanged", "saving"}]]
    /\ raced \subseteq ZoteroFlows

ZoteroInit ==
    /\ oauth = [f \in ZoteroFlows |-> "new"]
    /\ pending = None /\ apiKey = None /\ newest = None
    /\ finish = [c \in Finish |-> NoFinish]
    /\ raced = {}

-----------------------------------------------------------------------------

(* post_user_zotero_auth_start up to the answer of Zotero.                 *)
FetchRequestToken(f) ==
    /\ oauth[f] = "new" /\ \A g \in ZoteroFlows : g < f => oauth[g] # "new"
    /\ oauth' = [oauth EXCEPT ![f] = "fetched"]
    /\ UNCHANGED <<pending, apiKey, finish, newest, raced>>

(* The row is inserted or overwritten; then the user is sent to Zotero.    *)
SaveRequestToken(f) ==
    /\ oauth[f] = "fetched"
    /\ oauth' = [oauth EXCEPT ![f] = "open"]
    /\ pending' = f /\ newest' = f
    /\ raced' = IF \E c \in Finish : finish[c].st # "idle" THEN raced \cup {f} ELSE raced
    /\ UNCHANGED <<apiKey, finish>>

(* Zotero does not answer, another call inserts or deletes the row         *)
(* meanwhile, or the worker dies.                                          *)
StartFails(f) ==
    /\ oauth[f] = "fetched"
    /\ oauth' = [oauth EXCEPT ![f] = "failed"]
    /\ UNCHANGED <<pending, apiKey, finish, newest, raced>>

-----------------------------------------------------------------------------

CanPresent(c, f) == finish[c] = NoFinish /\ oauth[f] \in {"open", "exchanged"}

(* The page the user comes back to sends the token, again if reloaded.     *)
Accept(c, f) ==
    /\ CanPresent(c, f) /\ pending = f
    /\ finish' = [finish EXCEPT ![c] = [flow |-> f, st |-> "exchanging"]]
    /\ UNCHANGED <<oauth, pending, apiKey, newest, raced>>

(* Mutant: a token of another flow ends the flow that is stored.           *)
MismatchClears(c, f) ==
    /\ CanPresent(c, f) /\ pending # f
    /\ pending' = None
    /\ UNCHANGED <<oauth, apiKey, finish, newest, raced>>

(* 400: no flow is in progress, or it is another one, whose token stays.   *)
Mismatch(c, f) ==
    /\ CanPresent(c, f) /\ pending # f
    /\ UNCHANGED zvars

(* Zotero exchanges a request token once.                                  *)
Exchange(c) ==
    LET f == finish[c].flow IN
    /\ finish[c].st = "exchanging" /\ oauth[f] = "open"
    /\ oauth' = [oauth EXCEPT ![f] = "exchanged"]
    /\ finish' = [finish EXCEPT ![c].st = "exchanged"]
    /\ UNCHANGED <<pending, apiKey, newest, raced>>

(* save_zotero_api_key deletes the pending row, whichever flow it is of,   *)
(* commits, and then saves the key.                                        *)
ClearPending(c) ==
    /\ finish[c].st = "exchanged"
    /\ pending' = None
    /\ finish' = [finish EXCEPT ![c].st = "saving"]
    /\ UNCHANGED <<oauth, apiKey, newest, raced>>

SaveKey(c) ==
    /\ finish[c].st = "saving"
    /\ apiKey' = finish[c].flow
    /\ finish' = [finish EXCEPT ![c] = NoFinish]
    /\ UNCHANGED <<oauth, pending, newest, raced>>

(* Zotero refuses, or the worker dies between any two steps.               *)
FinishFails(c) ==
    /\ finish[c].st # "idle"
    /\ finish' = [finish EXCEPT ![c] = NoFinish]
    /\ UNCHANGED <<oauth, pending, apiKey, newest, raced>>

(* delete_user_external_credential leaves the pending row.                 *)
Disconnect ==
    /\ apiKey # None
    /\ apiKey' = None
    /\ UNCHANGED <<oauth, pending, finish, newest, raced>>

ZoteroNext ==
    \/ \E f \in ZoteroFlows : FetchRequestToken(f) \/ SaveRequestToken(f) \/ StartFails(f)
    \/ \E c \in Finish, f \in ZoteroFlows : Accept(c, f) \/ Mismatch(c, f)
    \/ \E c \in Finish : Exchange(c) \/ ClearPending(c) \/ SaveKey(c) \/ FinishFails(c)
    \/ Disconnect

ZoteroSpec == ZoteroInit /\ [][ZoteroNext]_zvars

-----------------------------------------------------------------------------

(* "A flow the user still has open elsewhere can finish"                   *)
(* (routes/users.py 725): the token of the flow begun last stays until it  *)
(* is exchanged, whatever stale tabs present, unless the finish of another *)
(* flow had passed its check before this one began.                        *)
OpenFlowCanFinish ==
    newest # None /\ newest \notin raced /\ oauth[newest] = "open" => pending = newest

=============================================================================
