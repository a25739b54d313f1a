----------------------------- MODULE LatexEditor -----------------------------
(***************************************************************************)
(* The in-browser LaTeX editor (components/Publications/LatexEditor.tsx)  *)
(* over a repository that others push to: buffers, their common ancestor  *)
(* with origin, the three-way merge of a pull, and the save that puts one *)
(* file at a time.  A text is the set of edits it contains.  Code between *)
(* two awaits is one action.                                              *)
(***************************************************************************)
EXTENDS Naturals, Sequences, FiniteSets

CONSTANTS
    File,
    Mine,       \* edits the user types
    Others,     \* edits somebody else pushes
    Mark,       \* an unresolved <<<<<<< marker
    MaxCommits, \* bound: commits at origin
    Overlap     \* the user acts while a save or a pull is still under way

ASSUME LatexEditorAssumption ==
    /\ Mine \cap Others = {}
    /\ Mark \notin Mine \cup Others
    /\ MaxCommits \in Nat \ {0}
    /\ Overlap \in BOOLEAN

VARIABLES
    commits,  \* origin: the texts of each commit, newest last
    checkout, \* the user's checkout at the server: the commit it is at
    ready,    \* the project is loaded
    buf,      \* buffersRef
    base,     \* baseBuffersRef
    baseSha,  \* baseShaRef: a commit, 0 for null
    asked,    \* the head request of the loading: origin's head when it was sent, 0 for none
    dirty,
    updates,  \* updatesAvailable
    modal,    \* the commit-message modal is open
    active,   \* activePath
    shown,    \* the document in the CodeMirror pane of activePath
    save,     \* the save mutation: its step and the files it has not reached
    pull,     \* pullUpdates: its step, the files it could read and their texts
    poll,     \* the 20 s poll: the head it read, 0 when none is under way
    unsaved   \* history: the user's edits that no put has carried yet

pane == <<active, shown>>
origin == <<commits, checkout>>
heads == <<baseSha, asked>>

evars == <<origin, ready, buf, base, heads, dirty, updates, modal, pane, save, pull, poll, unsaved>>

Edit == Mine \cup Others \cup {Mark}
Text == [File -> SUBSET Edit]
Tip == Len(commits)
Remote == commits[Tip]
NoSave == [st |-> "idle", todo |-> {}]
NoPull == [st |-> "idle", got |-> {}, theirs |-> [f \in File |-> {}]]

EditorTypeOK ==
    /\ commits \in Seq(Text) /\ Tip \in 1..MaxCommits
    /\ ready \in BOOLEAN
    /\ buf \in Text /\ base \in Text
    /\ baseSha \in 0..Tip
    /\ dirty \subseteq File
    /\ updates \in BOOLEAN /\ modal \in BOOLEAN
    /\ active \in File /\ shown \subseteq Edit
    /\ save \in [st : {"idle", "put", "head"}, todo : SUBSET File]
    /\ checkout \in 1..Tip /\ asked \in 0..Tip
    /\ pull \in [st : {"idle", "load", "merge", "head"}, got : SUBSET File, theirs : Text]
    /\ poll \in 0..Tip
    /\ unsaved \in [File -> SUBSET Mine]

EditorInit ==
    /\ commits = <<[f \in File |-> {}]>> /\ checkout = 1
    /\ ready = FALSE
    /\ buf = [f \in File |-> {}] /\ base = buf
    /\ baseSha = 0 /\ asked = 0
    /\ dirty = {}
    /\ updates = FALSE /\ modal = FALSE
    /\ active \in File /\ shown = {}
    /\ save = NoSave /\ pull = NoPull /\ poll = 0
    /\ unsaved = buf

Settled == save.st = "idle" /\ pull.st = "idle"

(* The controls do not wait for a save or a pull.  Without Overlap the     *)
(* user does, but for going on to write while a pull loads.                *)
UserMayAct == ready /\ (Overlap \/ Settled)
UserMayWrite == UserMayAct \/ (ready /\ save.st = "idle" /\ pull.st # "head")

(* The loaded files become buffers and common ancestors, and the head is   *)
(* asked for.  What is loaded may be older than origin, file by file: a    *)
(* cached answer of the query, or a checkout not refreshed yet.            *)
InitializeBuffers ==
    /\ ~ready
    /\ checkout' \in checkout..Tip
    /\ \E at \in [File -> 1..checkout'] :
        /\ buf' = [f \in File |-> commits[at[f]][f]]
        /\ base' = buf'
        /\ shown' = buf'[active]
    /\ ready' = TRUE
    /\ asked' = Tip
    /\ UNCHANGED <<commits, baseSha, dirty, updates, modal, active, save, pull, poll, unsaved>>

(* fetchRemoteHead answers null on any error.                              *)
HeadOr(sha) == {Tip, sha}

(* The answer may be late, and is recorded over whatever head a save or a  *)
(* pull has recorded since.                                                *)
RecordHead ==
    /\ asked # 0
    /\ baseSha' \in (asked..Tip) \cup {baseSha}
    /\ asked' = 0
    /\ UNCHANGED <<origin, ready, buf, base, dirty, updates, modal, pane, save, pull, poll, unsaved>>

PollReads ==
    /\ ready /\ poll = 0
    /\ poll' = Tip
    /\ UNCHANGED <<origin, ready, buf, base, heads, dirty, updates, modal, pane, save, pull, unsaved>>

PollAnswers ==
    /\ poll # 0
    /\ updates' = (updates \/ (baseSha # 0 /\ poll # baseSha))
    /\ poll' = 0
    /\ UNCHANGED <<origin, ready, buf, base, heads, dirty, modal, pane, save, pull, unsaved>>

SelectFile(f) ==
    /\ UserMayWrite /\ f # active
    /\ active' = f /\ shown' = buf[f]
    /\ UNCHANGED <<origin, ready, buf, base, heads, dirty, updates, modal, save, pull, poll, unsaved>>

(* A change of the pane's document replaces the whole buffer.              *)
MarkDirty(text) ==
    /\ UserMayWrite /\ ~modal
    /\ shown' = text
    /\ buf' = [buf EXCEPT ![active] = text]
    /\ dirty' = dirty \cup {active}
    /\ UNCHANGED <<origin, ready, base, heads, updates, modal, active, save, pull, poll>>

Type(e) ==
    /\ \A f \in File : e \notin buf[f] \cup base[f] \cup Remote[f]
    /\ MarkDirty(shown \cup {e})
    /\ unsaved' = [unsaved EXCEPT ![active] = @ \cup {e}]

(* The user takes an own edit back, or resolves the conflict.              *)
Erase(e) ==
    /\ e \in shown
    /\ MarkDirty(shown \ {e})
    /\ unsaved' = [unsaved EXCEPT ![active] = @ \ {e}]

-----------------------------------------------------------------------------

RequestSave ==
    /\ UserMayAct /\ save.st = "idle" /\ dirty # {}
    /\ \A f \in dirty : Mark \notin buf[f]
    /\ modal' = TRUE
    /\ UNCHANGED <<origin, ready, buf, base, heads, dirty, updates, pane, save, pull, poll, unsaved>>

(* The modal can be left while the save it submitted is under way.         *)
CancelSave ==
    /\ modal /\ UserMayAct
    /\ modal' = FALSE
    /\ UNCHANGED <<origin, ready, buf, base, heads, dirty, updates, pane, save, pull, poll, unsaved>>

SubmitSave ==
    /\ modal /\ UserMayAct /\ save.st = "idle"
    /\ save' = [st |-> "put", todo |-> dirty]
    /\ UNCHANGED <<origin, ready, buf, base, heads, dirty, updates, modal, pane, pull, poll, unsaved>>

SkipUnchanged(f) ==
    /\ save.st = "put" /\ f \in save.todo /\ buf[f] = base[f]
    /\ save' = [save EXCEPT !.todo = @ \ {f}]
    /\ UNCHANGED <<origin, ready, buf, base, heads, dirty, updates, modal, pane, pull, poll, unsaved>>

(* putProjectContents replaces the file at origin by the whole buffer; the *)
(* server does not compare what was there with the ancestor.  The answer   *)
(* may be lost.                                                            *)
PutContents(f) ==
    /\ save.st = "put" /\ f \in save.todo /\ buf[f] # base[f]
    /\ buf[f] # Remote[f] /\ Tip < MaxCommits
    /\ commits' = Append(commits, [Remote EXCEPT ![f] = buf[f]])
    /\ checkout' = Tip'
    /\ unsaved' = [unsaved EXCEPT ![f] = @ \ buf[f]]
    /\ save' \in {[save EXCEPT !.todo = @ \ {f}], NoSave}
    /\ UNCHANGED <<ready, buf, base, heads, dirty, updates, modal, pane, pull, poll>>

(* Mutant: the base buffers advance when the save settles, failed or not.  *)
SaveFailsAdvancing ==
    /\ save.st = "put"
    /\ save' = NoSave
    /\ base' = [f \in File |-> IF f \in dirty THEN buf[f] ELSE base[f]]
    /\ UNCHANGED <<origin, ready, buf, heads, dirty, updates, modal, pane, pull, poll, unsaved>>

(* Any put that is refused ends the save: a text the origin already has is *)
(* one ("not different").                                                  *)
SaveFails ==
    /\ save.st = "put"
    /\ save' = NoSave
    /\ UNCHANGED <<origin, ready, buf, base, heads, dirty, updates, modal, pane, pull, poll, unsaved>>

(* onSuccess, to its await: the buffers as they are now become ancestors.  *)
AdvanceBase ==
    /\ save.st = "put" /\ save.todo = {}
    /\ base' = [f \in File |-> IF f \in dirty THEN buf[f] ELSE base[f]]
    /\ save' = [st |-> "head", todo |-> {}]
    /\ UNCHANGED <<origin, ready, buf, heads, dirty, updates, modal, pane, pull, poll, unsaved>>

(* Mutant: the own push is counted once more on top of the head read.      *)
FinishSaveAhead ==
    /\ save.st = "head"
    /\ baseSha' = Tip + 1
    /\ dirty' = {} /\ updates' = FALSE /\ modal' = FALSE
    /\ save' = NoSave
    /\ UNCHANGED <<origin, ready, buf, base, asked, pane, pull, poll, unsaved>>

FinishSave ==
    /\ save.st = "head"
    /\ baseSha' \in HeadOr(baseSha)
    /\ dirty' = {} /\ updates' = FALSE /\ modal' = FALSE
    /\ save' = NoSave
    /\ UNCHANGED <<origin, ready, buf, base, asked, pane, pull, poll, unsaved>>

-----------------------------------------------------------------------------

StartPull ==
    /\ UserMayAct /\ updates /\ pull.st = "idle" /\ ~modal
    /\ pull' = [NoPull EXCEPT !.st = "load"]
    /\ UNCHANGED <<origin, ready, buf, base, heads, dirty, updates, modal, pane, save, poll, unsaved>>

(* loadLatexProject: the checkout is refreshed unless that fails, and a    *)
(* file that cannot be read is left out, both silently.  Reads are one by  *)
(* one, and any of them may find the checkout refreshed.                   *)
PullLoads ==
    /\ pull.st = "load"
    /\ checkout' \in checkout..Tip
    /\ \E got \in SUBSET File, at \in [File -> checkout..checkout'] :
        pull' = [st |-> "merge", got |-> got,
                 theirs |-> [f \in File |-> IF f \in got THEN commits[at[f]][f] ELSE {}]]
    /\ UNCHANGED <<commits, ready, buf, base, heads, dirty, updates, modal, pane, save, poll, unsaved>>

PullFails ==
    /\ pull.st \in {"load", "merge"}
    /\ pull' = NoPull
    /\ UNCHANGED <<origin, ready, buf, base, heads, dirty, updates, modal, pane, save, poll, unsaved>>

(* Mutant: a buffer with local edits is overwritten when origin changed.   *)
MergedTheirs(local, ancestor, remote, clash) == IF remote # ancestor THEN remote ELSE local

(* Mutant: local edits win silently over what others wrote.                *)
MergedMine(local, ancestor, remote, clash) == IF local = ancestor THEN remote ELSE local

(* diff3Merge: an edit is in the result unless one side dropped it; where  *)
(* both changed the same lines, both sides and a marker are.               *)
Merged(local, ancestor, remote, clash) ==
    IF local = ancestor THEN remote
    ELSE IF remote = ancestor THEN local
    ELSE IF clash THEN local \cup remote \cup {Mark}
    ELSE {e \in local \cup remote : e \in ancestor => e \in local \cap remote}

PullMerges(clashes) ==
    LET theirs == pull.theirs
        both == {f \in pull.got : base[f] \notin {buf[f], theirs[f]}}
    IN /\ pull.st = "merge"
       /\ clashes \subseteq {f \in both : buf[f] # theirs[f]}
       /\ buf' = [f \in File |-> IF f \in pull.got THEN Merged(buf[f], base[f], theirs[f], f \in clashes)
                                 ELSE buf[f]]
       /\ base' = [f \in File |-> IF f \in both \/ (f \in pull.got /\ buf[f] = base[f])
                                  THEN theirs[f] ELSE base[f]]
       /\ dirty' = {f \in dirty \cup both : f \in both => buf'[f] # theirs[f]}
       /\ pull' = [NoPull EXCEPT !.st = "head"]
       /\ UNCHANGED <<origin, ready, heads, updates, modal, pane, save, poll, unsaved>>

(* The pane is only remounted with the merged text after this await.       *)
FinishPull ==
    /\ pull.st = "head"
    /\ baseSha' \in HeadOr(baseSha)
    /\ updates' = FALSE
    /\ shown' = buf[active]
    /\ pull' = NoPull
    /\ UNCHANGED <<origin, ready, buf, base, asked, dirty, modal, active, save, poll, unsaved>>

OtherPushes(f, e) ==
    /\ Tip < MaxCommits
    /\ e \notin UNION {commits[k][g] : k \in 1..Tip, g \in File}
    /\ commits' = Append(commits, [Remote EXCEPT ![f] = @ \cup {e}])
    /\ UNCHANGED <<checkout, ready, buf, base, heads, dirty, updates, modal, pane, save, pull, poll, unsaved>>

EditorNext ==
    \/ InitializeBuffers \/ RecordHead \/ PollReads \/ PollAnswers
    \/ \E f \in File : SelectFile(f) \/ SkipUnchanged(f) \/ PutContents(f)
    \/ \E e \in Mine : Type(e)
    \/ \E e \in Mine \cup {Mark} : Erase(e)
    \/ RequestSave \/ CancelSave \/ SubmitSave \/ SaveFails \/ AdvanceBase \/ FinishSave
    \/ StartPull \/ PullLoads \/ PullFails \/ FinishPull
    \/ \E c \in SUBSET File : PullMerges(c)
    \/ \E f \in File, e \in Others : OtherPushes(f, e)

EditorSpec == EditorInit /\ [][EditorNext]_evars

-----------------------------------------------------------------------------

(* No step but the user's own takes an edit that was never saved out of    *)
(* the buffer or from under the unsaved badge: a pull merges around it, a  *)
(* save clears the badge of what it put only.                              *)
UnsavedKept ==
    \A f \in File : unsaved[f] \subseteq buf[f] /\ (unsaved[f] # {} => f \in dirty)

(* What a merge takes for the common ancestor was the file at origin once. *)
AncestorWasCommitted ==
    ready => \A f \in File : \E k \in 1..Tip : commits[k][f] = base[f]

(* The comment over pullUpdates: "preserving local edits".                 *)
PullKeepsEdits ==
    [][pull.st = "merge" /\ pull'.st = "head"
        => \A f \in File : unsaved[f] \subseteq buf'[f]]_evars

(* A save drops only what others pushed after the text it was merged with: *)
(* what the editor has loaded or pulled survives in every later commit.    *)
SeenPushesSurvive ==
    [][\A f \in File : (Remote[f] \cap Others) \ Remote'[f] \subseteq Others \ base[f]]_evars

=============================================================================
