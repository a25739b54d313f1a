------------------------------ MODULE DvcRemote ------------------------------
(***************************************************************************)
(* Uploads to the DVC remote (backend/app/api/routes/projects/dvc.py).  An *)
(* object is named by the MD5 of its content.  It is streamed to a path    *)
(* with the suffix ".pending", which all uploads of it share, and renamed  *)
(* once the digest of what was streamed is found to be the name.  In the   *)
(* object store a file appears when it is closed, and a rename is a copy   *)
(* and a deletion.                                                         *)
(***************************************************************************)
EXTENDS Naturals, FiniteSets

CONSTANTS
    Object,  \* the MD5s uploaded, all of the size of one unit
    Upload,  \* concurrent requests
    Quota    \* storage_limit, in units

ASSUME RemoteAssumption == Quota \in Nat

VARIABLES
    stored,   \* what is at the path of each object
    partial,  \* what is at its pending path
    upload,   \* the requests
    told,     \* history: the objects that a client was told are stored
    torn      \* history: those renamed by an upload that was not alone

rvars == <<stored, partial, upload, told, torn>>

Content == {"none", "good", "bad"}
NoUpload == [st |-> "idle"]
UploadState == [st : {"streaming", "matched", "copied", "failing"},
                object : Object, alone : BOOLEAN]
Active(u) == upload[u] # NoUpload

RemoteTypeOK ==
    /\ stored \in [Object -> Content] /\ partial \in [Object -> Content]
    /\ upload \in [Upload -> {NoUpload} \cup UploadState]
    /\ told \subseteq Object /\ torn \subseteq Object

RemoteInit ==
    /\ stored = [o \in Object |-> "none"] /\ partial = [o \in Object |-> "none"]
    /\ upload = [u \in Upload |-> NoUpload]
    /\ told = {} /\ torn = {}

-----------------------------------------------------------------------------

(* The usage counts the pending files.                                     *)
Used == Cardinality({o \in Object : stored[o] # "none"})
            + Cardinality({o \in Object : partial[o] # "none"})

(* Up to fs.open: access and quota.                                        *)
StartUpload(u, o) ==
    LET others == {v \in Upload : Active(v) /\ upload[v].object = o} IN
    /\ ~Active(u)
    /\ Used <= Quota
    /\ upload' = [v \in Upload |->
                    IF v = u THEN [st |-> "streaming", object |-> o, alone |-> others = {}]
                    ELSE IF v \in others THEN [upload[v] EXCEPT !.alone = FALSE]
                    ELSE upload[v]]
    /\ UNCHANGED <<stored, partial, told, torn>>

(* Mutant: the digest of the stream is not looked at.                      *)
AnyDigest(body) == TRUE

DigestMatches(body) == body = "good"

(* The file is closed, and appears, with what was streamed: also when the  *)
(* client went away in the middle, which raises.                           *)
CloseFile(u, body) ==
    LET o == upload[u].object IN
    /\ Active(u) /\ upload[u].st = "streaming"
    /\ partial' = [partial EXCEPT ![o] = body]
    /\ upload' = [upload EXCEPT ![u].st = IF DigestMatches(body) THEN "matched" ELSE "failing"]
    /\ UNCHANGED <<stored, told, torn>>

(* fs.mv copies what is there now, if another upload has not removed it.   *)
CopyPending(u) ==
    LET o == upload[u].object IN
    /\ Active(u) /\ upload[u].st = "matched"
    /\ IF partial[o] = "none"
       THEN upload' = [upload EXCEPT ![u].st = "failing"] /\ UNCHANGED <<stored, torn>>
       ELSE /\ stored' = [stored EXCEPT ![o] = partial[o]]
            /\ torn' = IF upload[u].alone THEN torn ELSE torn \cup {o}
            /\ upload' = [upload EXCEPT ![u].st = "copied"]
    /\ UNCHANGED <<partial, told>>

RemovePending(u) ==
    LET o == upload[u].object IN
    /\ Active(u) /\ upload[u].st = "copied"
    /\ IF partial[o] = "none"
       THEN upload' = [upload EXCEPT ![u].st = "failing"] /\ UNCHANGED told
       ELSE upload' = [upload EXCEPT ![u] = NoUpload] /\ told' = told \cup {o}
    /\ partial' = [partial EXCEPT ![o] = "none"]
    /\ UNCHANGED <<stored, torn>>

(* The finally clause; an error there is logged and the file stays.        *)
Clean(u) ==
    LET o == upload[u].object IN
    /\ Active(u) /\ upload[u].st = "failing"
    /\ \/ partial' = [partial EXCEPT ![o] = "none"]
       \/ UNCHANGED partial
    /\ upload' = [upload EXCEPT ![u] = NoUpload]
    /\ UNCHANGED <<stored, told, torn>>

(* The object store fails, or the request does before the file appears.    *)
StoreFails(u) ==
    /\ Active(u) /\ upload[u].st # "failing"
    /\ upload' = [upload EXCEPT ![u].st = "failing"]
    /\ UNCHANGED <<stored, partial, told, torn>>

(* The worker dies.                                                        *)
Die(u) ==
    /\ Active(u)
    /\ upload' = [upload EXCEPT ![u] = NoUpload]
    /\ UNCHANGED <<stored, partial, told, torn>>

RemoteNext ==
    \E u \in Upload :
        \/ \E o \in Object : StartUpload(u, o)
        \/ \E body \in Content \ {"none"} : CloseFile(u, body)
        \/ CopyPending(u) \/ RemovePending(u) \/ Clean(u) \/ StoreFails(u) \/ Die(u)

RemoteSpec == RemoteInit /\ [][RemoteNext]_rvars

-----------------------------------------------------------------------------

(* An object that a client was told is stored stays, and has the content   *)
(* its name says, whatever uploads of it fail or are cut off afterwards,   *)
(* and whatever an upload that died left under the pending name: unless an *)
(* upload of it overlapped another, which may rename the other's content.  *)
ToldStored ==
    \A o \in told : stored[o] # "none" /\ (o \notin torn => stored[o] = "good")

=============================================================================
