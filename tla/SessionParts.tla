----------------------------- MODULE SessionParts ----------------------------
(***************************************************************************)
(* The refresh tokens a session lives by, the pages where it begins and    *)
(* where accounts are connected to it, and two things done within it: the  *)
(* connection of a Zotero account and uploads to the DVC remote.  They     *)
(* share no state here; this module lets one run explore each of them.     *)
(***************************************************************************)
EXTENDS RefreshTokens, SignIn, ZoteroFlow, DvcRemote

VARIABLE part

Parts == {"tokens", "pages", "zotero", "dvc"}

partsVars == <<part, vars, svars, zvars, rvars>>

PartsInit ==
    /\ part \in Parts
    /\ Init
    /\ SignInInit /\ (part = "pages" \/ (loggedIn /\ \A t \in Tab : page[t] = Closed))
    /\ ZoteroInit
    /\ RemoteInit

PartsNext ==
    \/ part = "tokens" /\ Next /\ UNCHANGED <<part, svars, zvars, rvars>>
    \/ part = "pages" /\ SignInNext /\ UNCHANGED <<part, vars, zvars, rvars>>
    \/ part = "zotero" /\ ZoteroNext /\ UNCHANGED <<part, vars, svars, rvars>>
    \/ part = "dvc" /\ RemoteNext /\ UNCHANGED <<part, vars, svars, zvars>>

PartsSpec == PartsInit /\ [][PartsNext]_partsVars

=============================================================================
