------------------------------ MODULE ReleaseForm ----------------------------
(***************************************************************************)
(* The dialog that releases an artifact or imports a published release     *)
(* (components/Releases/NewRelease.tsx).  A stale artifact needs an        *)
(* acknowledgement; the dialog learns of the staleness by a debounced      *)
(* query, and the server checks it again (post_project_release).           *)
(***************************************************************************)
EXTENDS Naturals

CONSTANTS
    Artifact,
    WholeProject,  \* the empty path
    DefaultPath,   \* what the dialog is opened for
    StaleArtifact, \* what the pipeline has not brought up to date
    MaxReleases    \* bound: requests that are answered

ReleasePath == Artifact \cup {WholeProject}

ASSUME ReleaseFormAssumption ==
    /\ WholeProject \notin Artifact /\ DefaultPath \in ReleasePath
    /\ StaleArtifact \subseteq Artifact
    /\ MaxReleases \in Nat

VARIABLES
    formOpen,
    mode,
    path,
    acknowledged,
    pathTimer,     \* the debounce of the path is armed
    stalenessPath,
    looked,        \* staleness answers in the query cache
    looking,       \* staleness queries under way
    parsing,       \* parseMutation is pending
    fetched,       \* metadata has been looked up: the import form is shown
    posting,       \* the request of createMutation or importMutation
    success,       \* the success screen is shown in the dialog's place
    posted,        \* bound: requests answered
    ackFor,        \* history: the path in the field when the box was ticked
    released       \* history: what the server released

formVars == <<formOpen, mode, path, acknowledged, pathTimer, stalenessPath, looked, looking,
              parsing, fetched, posting, success, posted, ackFor, released>>
gateVars == <<stalenessPath, looked, looking>>
sentVars == <<posting, success, posted, released>>

NoPost == [kind |-> "none"]
Unasked == "unasked"

Released == [path : ReleasePath, ackFor : ReleasePath \cup {Unasked}, early : BOOLEAN]

FormTypeOK ==
    /\ {formOpen, acknowledged, pathTimer, parsing, fetched, success} \subseteq BOOLEAN
    /\ mode \in {"create", "import"}
    /\ path \in ReleasePath /\ stalenessPath \in ReleasePath
    /\ looked \subseteq Artifact /\ looking \subseteq Artifact \ looked
    /\ posting \in {NoPost, [kind |-> "import"]}
                   \cup [kind : {"create"}, ack : BOOLEAN, as : Released]
    /\ posted \in 0..MaxReleases
    /\ ackFor \in ReleasePath \cup {Unasked}
    /\ released \subseteq Released

FormInit ==
    /\ formOpen = FALSE /\ mode = "create"
    /\ path = DefaultPath /\ acknowledged = FALSE /\ pathTimer = TRUE
    /\ stalenessPath = WholeProject /\ looked = {} /\ looking = {}
    /\ parsing = FALSE /\ fetched = FALSE
    /\ posting = NoPost /\ success = FALSE /\ posted = 0
    /\ ackFor = Unasked /\ released = {}

StalenessEnabled == formOpen /\ mode = "create" /\ stalenessPath \in Artifact
IsStale == StalenessEnabled /\ stalenessPath \in looked \cap StaleArtifact
NeedsAck == IsStale /\ ~acknowledged
FieldsShown == formOpen /\ ~success /\ (mode = "create" \/ fetched)

SetPath(p) == path' = p /\ pathTimer' = (pathTimer \/ p # path)

(* reset() of the form library: every field as at the first mount.         *)
ResetFields == SetPath(DefaultPath) /\ acknowledged' = FALSE /\ ackFor' = Unasked

-----------------------------------------------------------------------------

OpenForm ==
    /\ ~formOpen
    /\ formOpen' = TRUE
    /\ SetPath(DefaultPath)
    /\ UNCHANGED <<mode, acknowledged, gateVars, parsing, fetched, sentVars, ackFor>>

PickPath(p) ==
    /\ FieldsShown /\ p # path
    /\ SetPath(p)
    /\ UNCHANGED <<formOpen, mode, acknowledged, gateVars, parsing, fetched, sentVars, ackFor>>

(* Mutant: the acknowledgement survives a new path.                        *)
PathSettlesKeeping ==
    /\ pathTimer
    /\ pathTimer' = FALSE
    /\ stalenessPath' = path
    /\ UNCHANGED <<formOpen, mode, path, acknowledged, looked, looking, parsing, fetched, sentVars, ackFor>>

PathSettles ==
    /\ pathTimer
    /\ pathTimer' = FALSE
    /\ stalenessPath' = path
    /\ acknowledged' = FALSE /\ ackFor' = Unasked
    /\ UNCHANGED <<formOpen, mode, path, looked, looking, parsing, fetched, sentVars>>

AskStaleness ==
    /\ StalenessEnabled /\ stalenessPath \notin looked \cup looking
    /\ looking' = looking \cup {stalenessPath}
    /\ UNCHANGED <<formOpen, mode, path, acknowledged, pathTimer, stalenessPath, looked, parsing,
                   fetched, sentVars, ackFor>>

(* The answer, or the error that leaves the artifact without a warning.    *)
StalenessAnswers(p) ==
    /\ p \in looking
    /\ looking' = looking \ {p} /\ looked' \in {looked, looked \cup {p}}
    /\ UNCHANGED <<formOpen, mode, path, acknowledged, pathTimer, stalenessPath, parsing, fetched,
                   sentVars, ackFor>>

(* The checkbox is part of the warning, which is about stalenessPath.      *)
TickAcknowledge ==
    /\ FieldsShown /\ IsStale
    /\ acknowledged' = ~acknowledged
    /\ ackFor' = IF acknowledged THEN Unasked ELSE path
    /\ UNCHANGED <<formOpen, mode, path, pathTimer, gateVars, parsing, fetched, sentVars>>

SwitchMode ==
    /\ formOpen /\ ~success
    /\ mode' = IF mode = "create" THEN "import" ELSE "create"
    /\ fetched' = FALSE
    /\ UNCHANGED <<formOpen, path, acknowledged, pathTimer, gateVars, parsing, sentVars, ackFor>>

LookUp ==
    /\ formOpen /\ ~success /\ mode = "import" /\ ~parsing
    /\ parsing' = TRUE
    /\ UNCHANGED <<formOpen, mode, path, acknowledged, pathTimer, gateVars, fetched, sentVars, ackFor>>

(* Whatever the dialog shows by then; an error leaves it as it is.         *)
ParseAnswers ==
    /\ parsing
    /\ parsing' = FALSE /\ fetched' \in {fetched, TRUE}
    /\ UNCHANGED <<formOpen, mode, path, acknowledged, pathTimer, gateVars, sentVars, ackFor>>

SubmitRelease ==
    /\ FieldsShown /\ posting = NoPost
    /\ mode = "create" => ~NeedsAck
    /\ posting' = IF mode = "import" THEN [kind |-> "import"]
                  ELSE [kind |-> "create", ack |-> acknowledged,
                        as |-> [path |-> path, ackFor |-> ackFor, early |-> pathTimer]]
    /\ UNCHANGED <<formOpen, mode, path, acknowledged, pathTimer, gateVars, parsing, fetched,
                   success, posted, ackFor, released>>

(* The server refuses a stale artifact that is not acknowledged.           *)
ServerAccepts(p) == p.ack \/ p.as.path \notin StaleArtifact

(* onSuccess, also of a dialog that was closed meanwhile.  With onCreated  *)
(* (the sharing panel) the dialog closes instead.                          *)
PostSucceeds(handOver) ==
    /\ posting # NoPost /\ posted < MaxReleases
    /\ posting.kind = "create" => ServerAccepts(posting)
    /\ handOver => posting.kind = "create"
    /\ posting' = NoPost /\ posted' = posted + 1
    /\ released' = IF posting.kind = "create" THEN released \cup {posting.as} ELSE released
    /\ ResetFields
    /\ IF handOver
       THEN formOpen' = FALSE /\ mode' = "create" /\ fetched' = FALSE /\ success' = FALSE
       ELSE success' = TRUE /\ UNCHANGED <<formOpen, mode, fetched>>
    /\ UNCHANGED <<gateVars, parsing>>

PostFails ==
    /\ posting # NoPost
    /\ posting' = NoPost
    /\ UNCHANGED <<formOpen, mode, path, acknowledged, pathTimer, gateVars, parsing, fetched,
                   success, posted, ackFor, released>>

CloseForm ==
    /\ formOpen
    /\ formOpen' = FALSE /\ mode' = "create" /\ fetched' = FALSE /\ success' = FALSE
    /\ ResetFields
    /\ UNCHANGED <<gateVars, parsing, posting, posted, released>>

FormNext ==
    \/ OpenForm \/ PathSettles \/ AskStaleness \/ TickAcknowledge \/ SwitchMode
    \/ LookUp \/ ParseAnswers \/ SubmitRelease \/ PostFails \/ CloseForm
    \/ \E p \in ReleasePath : PickPath(p) \/ StalenessAnswers(p)
    \/ \E h \in BOOLEAN : PostSucceeds(h)

FormSpec == FormInit /\ [][FormNext]_formVars

-----------------------------------------------------------------------------

(* "A new artifact means any prior acknowledgement no longer applies": no  *)
(* stale artifact is released on the strength of a box ticked for another  *)
(* one, unless the dialog was submitted before the debounce of the new     *)
(* path had ended, whatever order the answers came in.                     *)
StaleOnlyAcknowledged ==
    \A r \in released : r.path \in StaleArtifact => r.ackFor = r.path \/ r.early

=============================================================================
