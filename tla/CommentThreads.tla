---------------------------- MODULE CommentThreads ---------------------------
(***************************************************************************)
(* The comments of a release, publication, presentation or figure: the     *)
(* panel and its query cache (components/Common/CommentsPanel.tsx and its  *)
(* callers), the tables, and the GitHub issue that mirrors a thread.  A    *)
(* read of the comments also takes over what GitHub says of their issues.  *)
(***************************************************************************)
EXTENDS Naturals, Sequences, FiniteSets

CONSTANT MaxComments   \* bound: comments posted

ASSUME CommentThreadsAssumption == MaxComments \in Nat

VARIABLES
    board,      \* where the comments are shown
    rows,       \* the table: the thread a comment replies to (0: none), and resolved
    issues,     \* GitHub: the state of each comment's issue
    panel,      \* the query's data: comments and whether they are resolved
    read,       \* the page's GET request: its step, the rows it loaded, what GitHub said
    posting,    \* postMutation: its thread, and the comment once it is made (0: not yet)
    resolving,  \* resolveMutation: its thread and the step of its handler
    outdated,   \* history: why the panel may differ from the table until it is read anew
    adrift      \* history: threads that may differ from their issue

cvars == <<board, rows, issues, panel, read, posting, resolving, outdated, adrift>>

Comment == 1..MaxComments
Threads == {c \in 1..Len(rows) : rows[c].thread = 0}
Unknown == [c \in Comment |-> "none"]
NoRead == [st |-> "idle", seen |-> <<>>, issues |-> Unknown]
Asking == [NoRead EXCEPT !.st = "asked"]
NoPost == [st |-> "idle", thread |-> 0, id |-> 0]
NoResolve == [st |-> "idle", thread |-> 0, to |-> FALSE]
NotRead == <<[id |-> 0, resolved |-> FALSE]>>

(* Where comments are shown.  appends: an answer is written into the cache *)
(* (the other pages invalidate); both: an open issue reopens its thread    *)
(* (release comments; all others are project comments).  Pages that behave *)
(* alike are explored once.                                                *)
ReleaseComments == [appends |-> TRUE, both |-> TRUE]
ReleaseHighlights == ReleaseComments
MemberComments == [appends |-> TRUE, both |-> FALSE]
PublicationComments == [appends |-> FALSE, both |-> FALSE]
PublicationHighlights == PublicationComments
PresentationComments == PublicationComments
FigureComments == PublicationComments

Boards ==
    {ReleaseComments, ReleaseHighlights, MemberComments, PublicationComments,
     PublicationHighlights, PresentationComments, FigureComments}

CommentsTypeOK ==
    /\ board \in Boards
    /\ rows \in Seq([thread : 0..MaxComments, resolved : BOOLEAN]) /\ Len(rows) <= MaxComments
    /\ issues \in [Comment -> {"none", "open", "closed"}]
    /\ panel = NotRead \/ panel \in Seq([id : Comment, resolved : BOOLEAN])
    /\ read.st \in {"idle", "asked", "loaded", "checked"} /\ Len(read.seen) <= Len(rows)
    /\ posting \in [st : {"idle", "sent", "done"}, thread : 0..MaxComments, id : 0..MaxComments]
    /\ resolving \in [st : {"idle", "sent", "committed", "done"}, thread : 0..MaxComments, to : BOOLEAN]
    /\ outdated \in BOOLEAN /\ adrift \subseteq Comment

CommentsInit ==
    /\ board \in Boards
    /\ rows = <<>> /\ issues = Unknown
    /\ panel = NotRead
    /\ read = Asking
    /\ posting = NoPost /\ resolving = NoResolve
    /\ outdated = FALSE /\ adrift = {}

(* The page read anew (focus, or an invalidation); a read under way is    *)
(* dropped for it, unless it is the first.                                 *)
Refetch ==
    IF read.st # "idle" /\ panel = NotRead
    THEN outdated' = TRUE /\ UNCHANGED read
    ELSE outdated' = FALSE /\ read' = Asking

(* Threads whose issue says something else.                                *)
Mismatched == {c \in Threads : issues[c] # "none" /\ rows[c].resolved # (issues[c] = "closed")}

(* What this page is changing.                                             *)
Changing == posting # NoPost \/ resolving # NoResolve

-----------------------------------------------------------------------------
(* Reading.                                                                *)

StartRead ==
    /\ read.st = "idle"
    /\ read' = Asking /\ outdated' = FALSE
    /\ UNCHANGED <<board, rows, issues, panel, posting, resolving, adrift>>

(* What this page has changed and does not know of yet may be read.        *)
LoadComments ==
    /\ read.st = "asked"
    /\ read' = [read EXCEPT !.st = "loaded", !.seen = rows]
    /\ outdated' = (outdated \/ Changing)
    /\ UNCHANGED <<board, rows, issues, panel, posting, resolving, adrift>>

Said(answered) == [c \in Comment |-> IF c \in answered THEN issues[c] ELSE "none"]

(* GitHub is asked for the issues, and answers for some: errors are logged.*)
CheckIssues(answered) ==
    /\ read.st = "loaded"
    /\ read' = [read EXCEPT !.st = "checked", !.issues = Said(answered)]
    /\ UNCHANGED <<board, rows, issues, panel, posting, resolving, outdated, adrift>>

(* _resolve_thread.                                                        *)
Cascade(t, to) ==
    [c \in DOMAIN rows |->
        IF c = t \/ rows[c].thread = t THEN [rows[c] EXCEPT !.resolved = to] ELSE rows[c]]

(* What the sync of a read changes: threads of a release both ways         *)
(* (_sync_release_comment_resolutions), with their replies; project        *)
(* comments whose issue is closed (_sync_github_issue_resolutions).        *)
Turned(seen, said) ==
    {c \in DOMAIN seen : /\ said[c] # "none" /\ seen[c].resolved # (said[c] = "closed")
                         /\ board.both \/ said[c] = "closed"}

Synced(seen, said) ==
    LET turned == Turned(seen, said)
        thread(c) == IF rows[c].thread # 0 /\ board.both THEN rows[c].thread ELSE c
    IN [c \in DOMAIN rows |->
           IF thread(c) \in turned
           THEN [rows[c] EXCEPT !.resolved = (said[thread(c)] = "closed")] ELSE rows[c]]

(* The commit, and the answer: the comments that were loaded, as they are  *)
(* after the commit if there was one.                                      *)
FinishRead ==
    /\ read.st = "checked"
    /\ rows' = Synced(read.seen, read.issues)
    /\ panel' = [c \in DOMAIN read.seen |->
                    [id |-> c, resolved |-> (IF Turned(read.seen, read.issues) = {}
                                             THEN read.seen ELSE rows')[c].resolved]]
    /\ read' = NoRead
    /\ outdated' = (outdated \/ (rows' # rows /\ Changing))
    /\ UNCHANGED <<board, issues, posting, resolving>>
    /\ adrift' = IF resolving # NoResolve THEN adrift ELSE adrift \cap Mismatched'

ReadFails ==
    /\ read.st # "idle"
    /\ read' = NoRead
    /\ outdated' = TRUE
    /\ UNCHANGED <<board, rows, issues, panel, posting, resolving, adrift>>

(* A read of another page, as one step: how a read and the other handlers  *)
(* interleave is seen on this page's.                                      *)
OtherReads(answered) ==
    /\ rows' = Synced(rows, Said(answered))
    /\ outdated' = (outdated \/ rows' # rows)
    /\ UNCHANGED <<board, issues, panel, read, posting, resolving>>
    /\ adrift' = IF read # NoRead \/ resolving # NoResolve THEN adrift ELSE adrift \cap Mismatched'

-----------------------------------------------------------------------------
(* Posting.                                                                *)

OnPanel(t, resolved) == \E k \in DOMAIN panel : panel[k] = [id |-> t, resolved |-> resolved]

(* submitNew, or submitReply below a thread.  Bound: one change of this    *)
(* page at a time.                                                         *)
SubmitPost(t) ==
    /\ ~Changing
    /\ t = 0 \/ (t \in Threads /\ \E b \in BOOLEAN : OnPanel(t, b))
    /\ posting' = [st |-> "sent", thread |-> t, id |-> 0]
    /\ UNCHANGED <<board, rows, issues, panel, read, resolving, outdated, adrift>>

(* A new thread opens an issue, where there is a repository and a token.   *)
MakePost(issue) ==
    /\ posting.st = "sent" /\ Len(rows) < MaxComments
    /\ rows' = Append(rows, [thread |-> posting.thread, resolved |-> FALSE])
    /\ issues' = [issues EXCEPT ![Len(rows')] = IF posting.thread = 0 THEN issue ELSE "none"]
    /\ posting' = [posting EXCEPT !.st = "done", !.id = Len(rows')]
    /\ UNCHANGED <<board, panel, read, resolving, outdated, adrift>>

Cached(list) == IF list = NotRead THEN <<>> ELSE list

PostSucceeds ==
    /\ posting.st = "done"
    /\ posting' = NoPost
    /\ IF board.appends
       THEN /\ panel' = Append(Cached(panel), [id |-> posting.id, resolved |-> FALSE])
            /\ outdated' = (outdated \/ read # NoRead)
            /\ UNCHANGED read
       ELSE Refetch /\ UNCHANGED panel
    /\ UNCHANGED <<board, rows, issues, resolving, adrift>>

(* Refused, or the answer is lost.                                         *)
PostFails ==
    /\ posting # NoPost
    /\ posting' = NoPost
    /\ outdated' = (outdated \/ posting.st = "done")
    /\ UNCHANGED <<board, rows, issues, panel, read, resolving, adrift>>

-----------------------------------------------------------------------------
(* Resolving.                                                              *)

SubmitResolve(t, to) ==
    /\ ~Changing
    /\ t \in Threads /\ OnPanel(t, ~to)
    /\ resolving' = [st |-> "sent", thread |-> t, to |-> to]
    /\ UNCHANGED <<board, rows, issues, panel, read, posting, outdated, adrift>>

ResolveCommits ==
    /\ resolving.st = "sent"
    /\ rows' = Cascade(resolving.thread, resolving.to)
    /\ resolving' = [resolving EXCEPT !.st = "committed"]
    /\ adrift' = adrift \cup {resolving.thread}
    /\ UNCHANGED <<board, issues, panel, read, posting, outdated>>

(* A read overlaps the handler, or one has undone what it committed.       *)
Overtaken(t) ==
    \/ read # NoRead
    \/ rows[t].resolved # resolving.to

(* Mutant: the issue is closed whether the thread is resolved or reopened. *)
MirrorAlwaysCloses ==
    LET t == resolving.thread
    IN /\ resolving.st = "committed"
       /\ issues' = [issues EXCEPT ![t] = IF @ = "none" THEN @ ELSE "closed"]
       /\ adrift' = IF Overtaken(t) THEN adrift ELSE adrift \ {t}
       /\ resolving' = [resolving EXCEPT !.st = "done"]
       /\ UNCHANGED <<board, rows, panel, read, posting, outdated>>

(* The issue is closed or reopened after the commit.                       *)
MirrorResolution ==
    LET t == resolving.thread
    IN /\ resolving.st = "committed"
       /\ issues' = [issues EXCEPT ![t] = IF @ = "none" THEN @
                                          ELSE IF resolving.to THEN "closed" ELSE "open"]
       /\ adrift' = IF Overtaken(t) THEN adrift ELSE adrift \ {t}
       /\ resolving' = [resolving EXCEPT !.st = "done"]
       /\ UNCHANGED <<board, rows, panel, read, posting, outdated>>

(* Best effort: GitHub is not reached, or the user has no token.           *)
MirrorFails ==
    /\ resolving.st = "committed"
    /\ resolving' = [resolving EXCEPT !.st = "done"]
    /\ UNCHANGED <<board, rows, issues, panel, read, posting, outdated, adrift>>

(* Mutant: the replies in the cache are left as they are.                  *)
ResolveSucceedsOnTop ==
    /\ resolving.st = "done"
    /\ resolving' = NoResolve
    /\ IF board.appends
       THEN /\ panel' = [k \in DOMAIN Cached(panel) |->
                            IF panel[k].id = resolving.thread
                            THEN [panel[k] EXCEPT !.resolved = resolving.to] ELSE panel[k]]
            /\ outdated' = (outdated \/ read # NoRead)
            /\ UNCHANGED read
       ELSE Refetch /\ UNCHANGED panel
    /\ UNCHANGED <<board, rows, issues, posting, adrift>>

ResolveSucceeds ==
    LET t == resolving.thread
        ofThread(c) == c = t \/ (c \in DOMAIN rows /\ rows[c].thread = t)
    IN /\ resolving.st = "done"
       /\ resolving' = NoResolve
       /\ IF board.appends
          THEN /\ panel' = [k \in DOMAIN Cached(panel) |->
                               IF ofThread(panel[k].id)
                               THEN [panel[k] EXCEPT !.resolved = resolving.to] ELSE panel[k]]
               /\ outdated' = (outdated \/ read # NoRead)
               /\ UNCHANGED read
          ELSE Refetch /\ UNCHANGED panel
       /\ UNCHANGED <<board, rows, issues, posting, adrift>>

(* Refused, the worker dies after the commit, or the answer is lost.       *)
ResolveFails ==
    /\ resolving # NoResolve
    /\ resolving' = NoResolve
    /\ outdated' = (outdated \/ resolving.st # "sent")
    /\ UNCHANGED <<board, rows, issues, panel, read, posting, adrift>>

IssueTurns(c) ==
    /\ issues[c] # "none"
    /\ issues' = [issues EXCEPT ![c] = IF @ = "open" THEN "closed" ELSE "open"]
    /\ adrift' = adrift \cup {c}
    /\ UNCHANGED <<board, rows, panel, read, posting, resolving, outdated>>

CommentsNext ==
    \/ StartRead \/ LoadComments \/ FinishRead \/ ReadFails
    \/ \E a \in SUBSET Comment : CheckIssues(a) \/ OtherReads(a)
    \/ \E t \in 0..MaxComments : SubmitPost(t)
    \/ PostSucceeds \/ PostFails \/ \E i \in {"none", "open"} : MakePost(i)
    \/ \E t \in Comment, b \in BOOLEAN : SubmitResolve(t, b)
    \/ ResolveCommits \/ MirrorResolution \/ MirrorFails \/ ResolveSucceeds \/ ResolveFails
    \/ \E c \in Comment : IssueTurns(c)

CommentsSpec == CommentsInit /\ [][CommentsNext]_cvars

-----------------------------------------------------------------------------

(* Once nothing is under way, the panel shows every comment of the table   *)
(* once, resolved or not as it is there.  It may differ until it is read   *)
(* anew when a read failed or overlapped a change of the panel's own, when *)
(* an answer was lost, or when somebody else's read changed the table.     *)
PanelShowsComments ==
    read = NoRead /\ posting = NoPost /\ resolving = NoResolve /\ ~outdated =>
        /\ Len(panel) = Len(rows)
        /\ \A c \in DOMAIN rows : OnPanel(c, rows[c].resolved)

(* A thread and its issue are in step, whoever read the comments, unless  *)
(* the issue was turned on GitHub, could not be turned from here, or some  *)
(* read overlapped the handler that resolved the thread, until a read that *)
(* overlaps nothing has set it right.                                      *)
ThreadInStep == Mismatched \subseteq adrift

=============================================================================
