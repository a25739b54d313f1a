----------------------------- MODULE FormDialogs -----------------------------
(***************************************************************************)
(* The dialogs and buttons that change something on the server, over the   *)
(* query cache (React Query) that shows it: what each invalidates, when,   *)
(* and what its form does with a draft.  Every dialog is one record; those *)
(* that behave alike are explored once.                                    *)
(***************************************************************************)
EXTENDS Naturals, Sequences, FiniteSets, SequencesExt

CONSTANT MaxChanges   \* bound: drafts written, buttons pressed

ASSUME FormDialogsAssumption == MaxChanges \in Nat

Change == 1..MaxChanges

-----------------------------------------------------------------------------
(* What pages read.  refetch: "always" on mount, "invalid" only when       *)
(* invalidated (staleTime: Infinity), "never" (refetchOnMount: false).     *)

Query(key, refetch) == [key |-> key, refetch |-> refetch]
OfProject(tail) == <<"projects", "owner", "project">> \o tail
OfLocal(tail) == <<"local-server-main", "owner", "project">> \o tail

ProjectQuery == Query(OfProject(<<>>), "never")
ShowcaseQuery == Query(OfProject(<<"showcase", "ref">>), "never")
QuestionsQuery == Query(OfProject(<<"questions", "ref">>), "always")
FiguresQuery == Query(OfProject(<<"figures", "ref">>), "always")
DatasetsQuery == Query(OfProject(<<"datasets", "ref">>), "always")
PublicationsQuery == Query(OfProject(<<"publications", "ref">>), "always")
FilesQuery == Query(OfProject(<<"files", "ref">>), "always")
SelectedFileQuery == Query(OfProject(<<"files", "path", "ref">>), "always")
CollaboratorsQuery == Query(OfProject(<<"collaborators">>), "always")
InvitationsQuery == Query(OfProject(<<"invitations">>), "always")
ReleasesQuery == Query(OfProject(<<"releases", "undefined">>), "always")
SharesQuery == Query(OfProject(<<"releases", "name", "shares">>), "always")
OwnedProjectsQuery == Query(<<"projects", "page">>, "always")
OrgsQuery == Query(<<"orgs-all", "page">>, "always")
OrgUsersQuery == Query(<<"org-users", "org">>, "always")
UsersQuery == Query(<<"users", "page">>, "always")
CurrentUserQuery == Query(<<"currentUser">>, "invalid")
TokensQuery == Query(<<"user", "tokens">>, "always")
ConnectedAccountsQuery == Query(<<"user", "connected-accounts">>, "always")
NotificationsQuery == Query(<<"notifications", "unread">>, "always")
LocalStatusQuery == Query(OfLocal(<<"status">>), "never")
LocalPipelineQuery == Query(OfLocal(<<"pipeline">>), "never")

-----------------------------------------------------------------------------
(* What changes them.                                                      *)

(* A modal form as most are: the submit button waits for the answer,       *)
(* success resets the fields and closes, Cancel keeps the fields and the   *)
(* mutation, and the keys are invalidated when the request settles.        *)
Form(list, keys) ==
    [query |-> list, keys |-> keys, after |-> "settled", form |-> TRUE, guarded |-> TRUE,
     hotkey |-> FALSE, success |-> "closes", clears |-> TRUE, cancelClears |-> FALSE,
     resets |-> FALSE, away |-> FALSE]
Button(list, keys) ==
    [Form(list, keys) EXCEPT !.form = FALSE, !.success = "stays", !.clears = FALSE]
(* A button in every row of a list: only the pending row's is disabled.    *)
RowButton(list, keys) == [Button(list, keys) EXCEPT !.guarded = FALSE]

UploadFigure == Form(FiguresQuery, {OfProject(<<"figures">>)})
LabelAsFigure == Form(FiguresQuery, {OfProject(<<"figures">>)})
UploadDataset == Form(DatasetsQuery, {OfProject(<<"datasets">>)})
DatasetFromExisting == Form(DatasetsQuery, {OfProject(<<"datasets">>)})
UploadFile == Form(FilesQuery, {OfProject(<<"files">>)})
EditFileInfo == Form(SelectedFileQuery, {OfProject(<<"files">>)})
CreateQuestion == [Form(QuestionsQuery, {OfProject(<<"questions">>)}) EXCEPT !.hotkey = TRUE]
EditQuestion ==
    [Form(QuestionsQuery, {OfProject(<<"questions">>)}) EXCEPT !.hotkey = TRUE, !.clears = FALSE]
NewPublication == Form(PublicationsQuery, {OfProject(<<"publications">>)})
ImportOverleaf == Form(PublicationsQuery, {OfProject(<<"publications">>)})
(* Mutant: the key of a list that is read under another one.               *)
AddCollaboratorElsewhere == Form(CollaboratorsQuery, {OfProject(<<"access">>)})

AddCollaborator == Form(CollaboratorsQuery, {OfProject(<<"collaborators">>)})
CreateInvite == Form(InvitationsQuery, {OfProject(<<"invitations">>)})
CreateShare ==
    [Form(SharesQuery, {OfProject(<<"releases", "name", "shares">>)})
        EXCEPT !.success = "stays", !.cancelClears = TRUE]
ProjectStatus == Form(ProjectQuery, {OfProject(<<>>)})
EditProject ==
    [Form(ProjectQuery, {<<"projects">>})
        EXCEPT !.clears = FALSE, !.cancelClears = TRUE, !.away = TRUE]
NewProject ==
    [Form(OwnedProjectsQuery, {<<"projects">>}) EXCEPT !.after = "success", !.away = TRUE]
NewOrg == [Form(OrgsQuery, {<<"orgs">>}) EXCEPT !.away = TRUE]
AddMember == Form(OrgUsersQuery, {<<"org-users", "org">>})
AddUser == Form(UsersQuery, {<<"users">>})
EditUser ==
    [Form(UsersQuery, {<<"users">>}) EXCEPT !.clears = FALSE, !.cancelClears = TRUE]
UserInformation ==
    [Form(CurrentUserQuery, {<<>>})
        EXCEPT !.guarded = FALSE, !.success = "left", !.clears = FALSE, !.cancelClears = TRUE]
NewToken ==
    [Form(TokensQuery, {<<"user", "tokens">>}) EXCEPT !.success = "shows", !.resets = TRUE]
UpdateOverleafToken == Form(ConnectedAccountsQuery, {<<"user", "connected-accounts">>})
AddPath == Form(LocalStatusQuery, {OfLocal(<<"status">>), OfLocal(<<"pipeline">>)})
IgnorePath == Form(LocalStatusQuery, {OfLocal(<<"status">>), OfLocal(<<"pipeline">>)})
NewStage == Form(LocalPipelineQuery, {OfLocal(<<"status">>), OfLocal(<<"pipeline">>)})
SaveFiles == Form(LocalStatusQuery, {OfLocal(<<"status">>), OfLocal(<<"pipeline">>)})

Delete(type) ==
    Button(CASE type = "Project" -> OwnedProjectsQuery
             [] type = "User" -> UsersQuery
             [] type = "Collaborator" -> CollaboratorsQuery,
           CASE type = "Project" -> {<<"projects">>}
             [] type = "User" -> {<<"users">>}
             [] type = "Collaborator" -> {OfProject(<<"collaborators">>)})
MakeProjectPublic == Button(ProjectQuery, {<<"projects">>})
RevokeInvite == RowButton(InvitationsQuery, {OfProject(<<"invitations">>)})
RevokeShare == RowButton(SharesQuery, {OfProject(<<"releases", "name", "shares">>)})
DeleteRelease == Button(ReleasesQuery, {OfProject(<<"releases">>)})
ImportGithubReleases == Button(ReleasesQuery, {OfProject(<<"releases">>)})
ReleaseToGithub == RowButton(ReleasesQuery, {OfProject(<<"releases">>)})
TokenActive == Button(TokensQuery, {<<"user", "tokens">>})
DisconnectAccount == Button(ConnectedAccountsQuery, {<<"user", "connected-accounts">>})
FileLock == [Button(SelectedFileQuery, {OfProject(<<"files">>)}) EXCEPT !.after = "success"]
OverleafSync ==
    [Button(PublicationsQuery, {OfProject(<<"publications">>)}) EXCEPT !.after = "success"]
MarkRead ==
    [RowButton(NotificationsQuery, {<<"notifications">>}) EXCEPT !.after = "success"]
MarkAllRead == [Button(NotificationsQuery, {<<"notifications">>}) EXCEPT !.after = "success"]
DiscardChanges == Button(LocalStatusQuery, {OfLocal(<<"status">>), OfLocal(<<"pipeline">>)})
GitPush == Button(LocalStatusQuery, {OfLocal(<<"status">>)})
GitPull(list) == Button(list, {OfLocal(<<"status">>)})
DvcPush == Button(LocalStatusQuery, {OfLocal(<<"status">>)})
DvcPull == Button(LocalStatusQuery, {OfLocal(<<"status">>)})
RunPipeline == Button(LocalStatusQuery, {OfLocal(<<"status">>)})
Clone == Button(LocalPipelineQuery, {OfLocal(<<"status">>), OfLocal(<<"pipeline">>), OfLocal(<<>>)})
SaveLatex(list) == [Button(list, {OfProject(<<>>)}) EXCEPT !.after = "success", !.away = TRUE]

Dialogs ==
    {UploadFigure, LabelAsFigure, UploadDataset, DatasetFromExisting, UploadFile, EditFileInfo,
     CreateQuestion, EditQuestion, NewPublication, ImportOverleaf, AddCollaborator, CreateInvite,
     CreateShare, ProjectStatus, EditProject, NewProject, NewOrg, AddMember, AddUser, EditUser,
     UserInformation, NewToken, UpdateOverleafToken, AddPath, IgnorePath, NewStage, SaveFiles,
     MakeProjectPublic, RevokeInvite, RevokeShare, DeleteRelease, ImportGithubReleases,
     ReleaseToGithub, TokenActive, DisconnectAccount, FileLock, OverleafSync, MarkRead,
     MarkAllRead, DiscardChanges, GitPush, DvcPush, DvcPull, RunPipeline, Clone}
    \cup {Delete(type) : type \in {"Project", "User", "Collaborator"}}
    \cup {GitPull(list) : list \in {LocalStatusQuery, LocalPipelineQuery}}
    \cup {SaveLatex(list) : list \in {PublicationsQuery, ShowcaseQuery}}

(* Where no key that is invalidated is a prefix of the query's: a new      *)
(* organization is missing from the list, a pull leaves the old pipeline.  *)
KnownGaps == {NewOrg, GitPull(LocalPipelineQuery)}

Covered(d) == \E k \in d.keys : IsPrefix(k, d.query.key)

Behaviour(d) ==
    [covered |-> Covered(d), gap |-> d \in KnownGaps, refetch |-> d.query.refetch,
     after |-> d.after, form |-> d.form, guarded |-> d.guarded, hotkey |-> d.hotkey,
     success |-> d.success, clears |-> d.clears, cancelClears |-> d.cancelClears,
     resets |-> d.resets, away |-> d.away]

-----------------------------------------------------------------------------

VARIABLES
    dialog,      \* the behaviour of the dialog in use
    mounted,     \* the page that shows the list is mounted
    dialogOpen,  \* the form is on screen
    draft,       \* what the form holds: 0 when it is blank
    written,     \* bound: changes thought of
    sent,        \* requests under way: the change, and whether the server has made it
    awaited,     \* the request the submit button waits for, NoRequest for none
    made,        \* the server: how often each change was made
    listData,    \* the query's data: the changes it shows, NoData before the first
    invalid,     \* isInvalidated
    fetching,    \* the query's fetch: Idle, Asked, or what it read
    behind       \* history: why the list may lack a change, until it is fetched anew

dialogVars == <<dialogOpen, draft, written>>
serverVars == <<sent, awaited, made>>
listVars == <<listData, invalid, fetching, behind>>
fvars == <<dialog, mounted, dialogVars, serverVars, listVars>>

NoRequest == <<0, 0>>
NoData == {0}
Idle == [st |-> "idle"]
Asked == [st |-> "asked"]
Made == {c \in Change : made[c] > 0}

FormsTypeOK ==
    /\ dialog \in {Behaviour(d) : d \in Dialogs}
    /\ {mounted, dialogOpen, invalid, behind} \subseteq BOOLEAN
    /\ written \in 0..MaxChanges /\ draft \in 0..written
    /\ sent \subseteq [change : 1..written, n : 1..2, made : BOOLEAN]
    /\ awaited \in (0..written) \X (0..2)
    /\ made \in [Change -> 0..2]
    /\ listData = NoData \/ listData \subseteq Made
    /\ fetching \in {Idle, Asked} \cup [st : {"read"}, read : SUBSET Made]

FormsInit ==
    /\ dialog \in {Behaviour(d) : d \in Dialogs}
    /\ mounted = TRUE
    /\ dialogOpen = FALSE /\ draft = 0 /\ written = 0
    /\ sent = {} /\ awaited = NoRequest /\ made = [c \in Change |-> 0]
    /\ listData = NoData /\ invalid = FALSE /\ fetching = Asked
    /\ behind = FALSE

Usable == mounted \/ dialog.away

-----------------------------------------------------------------------------
(* The query.                                                              *)

ServerReads ==
    /\ fetching = Asked
    /\ fetching' = [st |-> "read", read |-> Made]
    /\ UNCHANGED <<dialog, mounted, dialogVars, serverVars, listData, invalid, behind>>

FetchEnds ==
    /\ fetching.st = "read"
    /\ listData' = fetching.read /\ invalid' = FALSE /\ fetching' = Idle
    /\ UNCHANGED <<dialog, mounted, dialogVars, serverVars, behind>>

(* After its retries; what was shown stays.                                *)
FetchFails ==
    /\ fetching # Idle
    /\ fetching' = Idle /\ behind' = TRUE
    /\ UNCHANGED <<dialog, mounted, dialogVars, serverVars, listData, invalid>>

(* Mounting fetches where there is no data or it is stale, and joins a     *)
(* fetch that is under way.                                                *)
MountPage ==
    /\ ~mounted
    /\ mounted' = TRUE
    /\ LET needed == \/ listData = NoData \/ dialog.refetch = "always"
                     \/ (dialog.refetch = "invalid" /\ invalid)
       IN IF needed /\ fetching = Idle THEN fetching' = Asked /\ behind' = FALSE
          ELSE behind' = (behind \/ (~needed /\ invalid)) /\ UNCHANGED fetching
    /\ UNCHANGED <<dialog, dialogVars, serverVars, listData, invalid>>

(* A request goes on when its dialog is unmounted; nothing waits for it.   *)
LeavePage ==
    /\ mounted
    /\ mounted' = FALSE /\ dialogOpen' = FALSE /\ draft' = 0
    /\ awaited' \in {NoRequest} \cup (IF dialog.away THEN {awaited} ELSE {})
    /\ UNCHANGED <<dialog, written, sent, made, listVars>>

(* Five minutes without an observer.                                       *)
CollectList ==
    /\ ~mounted /\ fetching = Idle /\ listData # NoData
    /\ listData' = NoData /\ invalid' = FALSE
    /\ UNCHANGED <<dialog, mounted, dialogVars, serverVars, fetching, behind>>

(* invalidateQueries: an active query is fetched again; a fetch under way  *)
(* is cancelled for it, unless it is the first, which is joined.           *)
Invalidate ==
    IF ~dialog.covered THEN UNCHANGED <<invalid, fetching, behind>>
    ELSE /\ invalid' = TRUE
         /\ IF mounted /\ (listData # NoData \/ fetching = Idle)
            THEN fetching' = Asked /\ behind' = FALSE
            ELSE behind' = (behind \/ fetching # Idle) /\ UNCHANGED fetching

-----------------------------------------------------------------------------
(* The dialog.                                                             *)

OpenDialog ==
    /\ Usable /\ dialog.form /\ ~dialogOpen
    /\ dialogOpen' = TRUE
    /\ UNCHANGED <<dialog, mounted, draft, written, serverVars, listVars>>

WriteDraft ==
    /\ dialogOpen /\ written < MaxChanges
    /\ written' = written + 1 /\ draft' = written'
    /\ UNCHANGED <<dialog, mounted, dialogOpen, serverVars, listVars>>

(* By Cancel, or by the X, which resets the mutation of a new token.       *)
CloseDialog ==
    /\ dialogOpen
    /\ dialogOpen' = FALSE
    /\ draft' = IF dialog.cancelClears THEN 0 ELSE draft
    /\ awaited' \in {awaited} \cup (IF dialog.resets THEN {NoRequest} ELSE {})
    /\ UNCHANGED <<dialog, mounted, written, sent, made, listVars>>

(* mutation.mutate: of several requests the button waits for the last.     *)
(* Bound: no change is under way or made more than twice.                  *)
Send(c) ==
    LET mine == {p \in sent : p.change = c}
        n == CHOOSE k \in 1..2 : \A p \in mine : p.n # k
    IN /\ made[c] + Cardinality({p \in mine : ~p.made}) < 2
       /\ sent' = sent \cup {[change |-> c, made |-> FALSE, n |-> n]}
       /\ awaited' = IF dialog.guarded THEN <<c, n>> ELSE NoRequest

(* The submit button is disabled while its request is pending.  The form   *)
(* of the user's own data leaves the edit mode with the click.             *)
Submit ==
    /\ dialogOpen /\ draft # 0
    /\ awaited = NoRequest
    /\ Send(draft)
    /\ dialogOpen' = (dialog.success # "left")
    /\ UNCHANGED <<dialog, mounted, draft, written, made, listVars>>

(* Ctrl or Cmd with Enter submits whether or not a request is pending.     *)
SubmitByKey ==
    /\ dialog.hotkey /\ dialogOpen /\ draft # 0 /\ awaited # NoRequest
    /\ Send(draft)
    /\ UNCHANGED <<dialog, mounted, dialogVars, made, listVars>>

PressButton ==
    /\ Usable /\ ~dialog.form /\ written < MaxChanges
    /\ awaited = NoRequest
    /\ written' = written + 1
    /\ Send(written')
    /\ UNCHANGED <<dialog, mounted, dialogOpen, draft, made, listVars>>

ServerMakes(p) ==
    /\ ~p.made
    /\ made' = [made EXCEPT ![p.change] = @ + 1]
    /\ sent' = (sent \ {p}) \cup {[p EXCEPT !.made = TRUE]}
    /\ UNCHANGED <<dialog, mounted, dialogVars, awaited, listVars>>

IsAwaited(p) == awaited = <<p.change, p.n>>

Settle(p) ==
    /\ sent' = sent \ {p}
    /\ awaited' = IF IsAwaited(p) THEN NoRequest ELSE awaited

(* onSuccess closes the dialog as it is by then, and resets its form; a    *)
(* new token is shown in place of the form, unless its mutation was reset. *)
RequestSucceeds(p) ==
    /\ p.made
    /\ Settle(p)
    /\ dialogOpen' = (dialogOpen /\ (\/ dialog.success \in {"stays", "left"}
                                     \/ dialog.success = "shows" /\ ~IsAwaited(p)))
    /\ draft' = IF dialog.clears THEN 0 ELSE draft
    /\ Invalidate
    /\ UNCHANGED <<dialog, mounted, written, made, listData>>

(* An error, or an answer that is lost after the server has made the       *)
(* change: the dialog and the draft stay.                                  *)
RequestFails(p) ==
    /\ Settle(p)
    /\ IF dialog.after = "settled" THEN Invalidate
       ELSE behind' = (behind \/ p.made) /\ UNCHANGED <<invalid, fetching>>
    /\ UNCHANGED <<dialog, mounted, dialogVars, made, listData>>

FormsNext ==
    \/ ServerReads \/ FetchEnds \/ FetchFails \/ MountPage \/ LeavePage \/ CollectList
    \/ OpenDialog \/ WriteDraft \/ CloseDialog \/ Submit \/ SubmitByKey \/ PressButton
    \/ \E p \in sent : ServerMakes(p) \/ RequestSucceeds(p) \/ RequestFails(p)

FormsSpec == FormsInit /\ [][FormsNext]_fvars

-----------------------------------------------------------------------------

(* Once nothing is under way, the page shows every change the server made. *)
(* What may leave it behind until the next fetch: a request that settles   *)
(* during the first fetch, or during any fetch of a page that was left; a  *)
(* fetch that failed; a query that is invalid and not fetched on mount; a  *)
(* lost answer where only success invalidates; and the gaps in the keys.   *)
ListShowsChanges ==
    mounted /\ sent = {} /\ fetching = Idle /\ ~dialog.gap /\ ~behind => listData = Made

=============================================================================
