--------------------------- MODULE ProjectRequests ---------------------------
(***************************************************************************)
(* Two groups of requests about one project: those that decide who may     *)
(* write to it, and those that put files into its repository.  A put is    *)
(* one of somebody who may write, and looks no further at the access; the  *)
(* groups share no other state, and this module lets one run explore each. *)
(***************************************************************************)
EXTENDS ProjectAccess, ContentUploads

VARIABLE part

Parts == {"access", "uploads"}

requestVars == <<part, vars, uvars>>

RequestsInit == part \in Parts /\ Init /\ UploadsInit

RequestsNext ==
    \/ part = "access" /\ Next /\ UNCHANGED <<part, uvars>>
    \/ part = "uploads" /\ UploadsNext /\ UNCHANGED <<part, vars>>

RequestsSpec == RequestsInit /\ [][RequestsNext]_requestVars

=============================================================================
