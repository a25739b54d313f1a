------------------------------- MODULE Releases -------------------------------
(***************************************************************************)
(* The releases of one project (backend/app/api/routes/projects/           *)
(* releases.py).  A release made on Calkit is kept twice, by hand: as a    *)
(* row of the release table and as an internal entry of calkit.yaml on the *)
(* branch at GitHub; one declared as published elsewhere is an entry       *)
(* alone.  A handler works in the checkout that get_repo (backend/app/     *)
(* git.py) keeps for its user and project, and ends with a push.           *)
(***************************************************************************)
EXTENDS Naturals, FiniteSets

CONSTANTS
    User,
    Call,      \* concurrent requests
    Name,      \* release names
    Art,       \* what is released: a path at a commit
    External,  \* what an entry of an external release says instead
    NoArt,     \* no row, no entry
    NoUser,
    NoName,
    Overlap,   \* whether requests of one user overlap
    MaxTorn    \* bound on the names that failures part

ASSUME ReleasesAssumption ==
    /\ NoArt \notin Art \cup {External}
    /\ External \notin Art
    /\ NoUser \notin User
    /\ NoName \notin Name
    /\ Overlap \in BOOLEAN
    /\ MaxTorn \in Nat

VARIABLES
    row,     \* the release table: what each name stands for
    origin,  \* external: the releases in calkit.yaml on the branch at GitHub
    clone,   \* the checkout of each user
    call,    \* the requests under way
    torn     \* history: names whose two records a failure may have parted

vars == <<row, origin, clone, call, torn>>

Entries == [Name -> Art \cup {External, NoArt}]
None == [n \in Name |-> NoArt]

(* A checkout: origin/<branch> as last seen, the branch, and the file; and *)
(* whether GitHub would take a push (no commit there is missing here).     *)
CloneType == [fresh : BOOLEAN, track : Entries, head : Entries, tree : Entries]
CloneOf(e) == [fresh |-> TRUE, track |-> e, head |-> e, tree |-> e]

Idle == [op |-> "none", st |-> "idle", user |-> NoUser, name |-> NoName,
         art |-> NoArt, seen |-> None, stale |-> FALSE]

(* stale: the row a delete has loaded was deleted by another since.        *)
CallType ==
    [op : {"none", "create", "declare", "delete"},
     st : {"idle", "begun", "ready", "checked", "flushed", "loaded", "written",
           "committed", "pushed"},
     user : User \cup {NoUser}, name : Name \cup {NoName},
     art : Art \cup {NoArt}, seen : Entries, stale : BOOLEAN]

TypeOK ==
    /\ row \in [Name -> Art \cup {NoArt}]
    /\ origin \in Entries
    /\ clone \in [User -> CloneType]
    /\ call \in [Call -> CallType]
    /\ torn \subseteq Name

Init ==
    /\ row = None
    /\ origin = None
    /\ clone = [u \in User |-> CloneOf(None)]
    /\ call = [k \in Call |-> Idle]
    /\ torn = {}

-----------------------------------------------------------------------------
(* A request begins and gets its checkout.                                 *)

Begin(k, op, u, n, a) ==
    /\ call[k] = Idle
    /\ Overlap \/ \A j \in Call : call[j].user # u
    /\ call' = [call EXCEPT ![k] = [Idle EXCEPT !.op = op, !.st = "begun", !.user = u,
                                                !.name = n, !.art = a]]
    /\ UNCHANGED <<row, origin, clone, torn>>

(* The history of a failure that may part the two records of a name.      *)
Tears(n) ==
    /\ Cardinality(torn \cup {n}) <= MaxTorn
    /\ torn' = torn \cup {n}

Goes(k, st) == call' = [call EXCEPT ![k].st = st]
End(k) == call' = [call EXCEPT ![k] = Idle]

(* post_project_release: the name is not in the table.                     *)
CreateRelease(k, u, n, a) ==
    /\ row[n] = NoArt
    /\ Begin(k, "create", u, n, a)

(* post_external_release.                                                  *)
DeclareRelease(k, u, n) == Begin(k, "declare", u, n, NoArt)

(* delete_project_release: the row is there.                               *)
DeleteRelease(k, u, n) ==
    /\ row[n] # NoArt
    /\ Begin(k, "delete", u, n, NoArt)

(* get_repo with no TTL, under its lock: fetch, drop what is not committed *)
(* and what is not pushed, and check out the branch of origin (or clone).  *)
Refresh(k) ==
    /\ call[k].st = "begun"
    /\ clone' = [clone EXCEPT ![call[k].user] = CloneOf(origin)]
    /\ Goes(k, "ready")
    /\ UNCHANGED <<row, origin, torn>>

(* The lock is not free for 5 s, or Git fails: get_repo logs a warning and *)
(* returns the checkout as it is.                                          *)
RefreshSkipped(k) ==
    /\ call[k].st = "begun"
    /\ Goes(k, "ready")
    /\ UNCHANGED <<row, origin, clone, torn>>

-----------------------------------------------------------------------------
(* What is checked before anything is written.                             *)

Tree(k) == clone[call[k].user].tree

(* Mutant: only the checkout is asked for the artifact.                    *)
CheckTreeOnly(k) ==
    LET c == call[k] IN
    /\ c.op = "create" /\ c.st = "ready"
    /\ Tree(k)[c.name] = NoArt
    /\ \A n \in Name : Tree(k)[n] # c.art
    /\ Goes(k, "checked")
    /\ UNCHANGED <<row, origin, clone, torn>>

(* Neither the table nor calkit.yaml has the artifact at this commit, nor  *)
(* calkit.yaml the name.  (A request that is refused ends: Fail.)          *)
Check(k) ==
    LET c == call[k] IN
    /\ c.op = "create" /\ c.st = "ready"
    /\ \A n \in Name : row[n] # c.art
    /\ Tree(k)[c.name] = NoArt
    /\ \A n \in Name : Tree(k)[n] # c.art
    /\ Goes(k, "checked")
    /\ UNCHANGED <<row, origin, clone, torn>>

(* A row flushed and not committed yet holds its name in the unique index. *)
HoldsName(k) ==
    /\ call[k].op = "create"
    /\ call[k].st \in {"flushed", "loaded", "written", "committed", "pushed"}

(* The INSERT waits for another of the same name, and fails when there is  *)
(* a row by then.                                                          *)
Flush(k) ==
    LET c == call[k] IN
    /\ c.st = "checked"
    /\ row[c.name] = NoArt
    /\ ~\E j \in Call : HoldsName(j) /\ call[j].name = c.name
    /\ Goes(k, "flushed")
    /\ UNCHANGED <<row, origin, clone, torn>>

-----------------------------------------------------------------------------
(* calkit.yaml is loaded, changed and dumped.                              *)

Ready(k) == call[k].st = IF call[k].op = "create" THEN "flushed" ELSE "ready"

(* An entry of that name is refused.                                       *)
LoadForAdding(k) ==
    LET c == call[k] IN
    /\ c.op \in {"create", "declare"} /\ Ready(k)
    /\ Tree(k)[c.name] = NoArt
    /\ call' = [call EXCEPT ![k].st = "loaded", ![k].seen = Tree(k)]
    /\ UNCHANGED <<row, origin, clone, torn>>

(* The internal entry is the one to be dropped.                            *)
LoadForDeleting(k) ==
    LET c == call[k] IN
    /\ c.op = "delete" /\ Ready(k)
    /\ Tree(k)[c.name] \in Art
    /\ call' = [call EXCEPT ![k].st = "loaded", ![k].seen = Tree(k)]
    /\ UNCHANGED <<row, origin, clone, torn>>

(* No internal entry in the checkout: nothing is written or pushed.  The   *)
(* one at GitHub stays if the checkout is behind.                          *)
NothingToDelete(k) ==
    LET c == call[k] IN
    /\ c.op = "delete" /\ Ready(k)
    /\ Tree(k)[c.name] \notin Art
    /\ Goes(k, "pushed")
    /\ IF clone[c.user].fresh THEN UNCHANGED torn ELSE Tears(c.name)
    /\ UNCHANGED <<row, origin, clone>>

NewEntry(c) == IF c.op = "declare" THEN External ELSE c.art

WriteFile(k) ==
    LET c == call[k] IN
    /\ c.st = "loaded"
    /\ clone' = [clone EXCEPT ![c.user].tree = [c.seen EXCEPT ![c.name] = NewEntry(c)]]
    /\ call' = [call EXCEPT ![k].st = "written", ![k].seen = None]
    /\ UNCHANGED <<row, origin, torn>>

-----------------------------------------------------------------------------
(* _commit_calkit_change.                                                  *)

(* git reset --hard origin/<branch>; git clean -fd                         *)
ResetTo(c) == [c EXCEPT !.head = c.track, !.tree = c.track]

GitCommit(k) ==
    LET u == call[k].user IN
    /\ call[k].st = "written"
    /\ clone[u].tree # clone[u].head
    /\ clone' = [clone EXCEPT ![u].head = clone[u].tree]
    /\ Goes(k, "committed")
    /\ UNCHANGED <<row, origin, torn>>

(* Mutant: the clone keeps its commit when the push fails.                 *)
GitFailsKeepsCommit(k) ==
    /\ call[k].st \in {"written", "committed"}
    /\ End(k)
    /\ UNCHANGED <<row, origin, clone, torn>>

(* Nothing to commit, a push that is rejected, or GitHub out of reach: the *)
(* checkout is reset, and with the 502 a flushed row is rolled back.       *)
GitFails(k) ==
    LET u == call[k].user IN
    /\ call[k].st \in {"written", "committed"}
    /\ clone' = [clone EXCEPT ![u] = ResetTo(@)]
    /\ End(k)
    /\ UNCHANGED <<row, origin, torn>>

(* A push changes the branch for everybody: the other checkouts lack it.   *)
Published(u, mine) ==
    [v \in User |-> IF v = u THEN mine
                    ELSE [clone[v] EXCEPT !.fresh = @ /\ clone[u].head = origin]]

(* Mutant: git push --force.                                               *)
ForcedPush(k) ==
    LET c == call[k]
        u == c.user IN
    /\ c.st = "committed"
    /\ origin' = clone[u].head
    /\ clone' = Published(u, [clone[u] EXCEPT !.track = clone[u].head, !.fresh = TRUE])
    /\ IF c.op = "declare" THEN End(k) ELSE Goes(k, "pushed")
    /\ IF c.stale THEN Tears(c.name) ELSE UNCHANGED torn
    /\ UNCHANGED row

(* The push of a declared release is its last step.                        *)
Push(k) ==
    LET c == call[k]
        u == c.user IN
    /\ c.st = "committed"
    /\ clone[u].fresh
    /\ origin' = clone[u].head
    /\ clone' = Published(u, [clone[u] EXCEPT !.track = clone[u].head])
    /\ IF c.op = "declare" THEN End(k) ELSE Goes(k, "pushed")
    /\ IF c.stale THEN Tears(c.name) ELSE UNCHANGED torn
    /\ UNCHANGED row

(* GitHub takes the push and its answer is lost: git reports a failure.    *)
PushUnanswered(k) ==
    LET c == call[k]
        u == c.user IN
    /\ c.st = "committed"
    /\ clone[u].fresh
    /\ origin' = clone[u].head
    /\ clone' = Published(u, [ResetTo(clone[u]) EXCEPT !.fresh = clone[u].head = origin])
    /\ End(k)
    /\ Tears(c.name)
    /\ UNCHANGED row

-----------------------------------------------------------------------------

CommitCreate(k) ==
    LET c == call[k] IN
    /\ c.op = "create" /\ c.st = "pushed"
    /\ row' = [row EXCEPT ![c.name] = c.art]
    /\ End(k)
    /\ UNCHANGED <<origin, clone, torn>>

(* DELETE by the id that was loaded.                                       *)
CommitDelete(k) ==
    LET c == call[k] IN
    /\ c.op = "delete" /\ c.st = "pushed"
    /\ IF c.stale THEN UNCHANGED row ELSE row' = [row EXCEPT ![c.name] = NoArt]
    /\ call' = [j \in Call |->
                  IF j = k THEN Idle
                  ELSE IF call[j].op = "delete" /\ call[j].name = c.name /\ ~c.stale
                       THEN [call[j] EXCEPT !.stale = TRUE]
                  ELSE call[j]]
    /\ UNCHANGED <<origin, clone, torn>>

(* A check refuses the request, an exception ends it or the worker dies:   *)
(* the transaction is rolled back, the checkout stays as it is.            *)
Fail(k) ==
    LET c == call[k] IN
    /\ c.st # "idle"
    /\ End(k)
    /\ IF c.st \in {"written", "committed", "pushed"} THEN Tears(c.name) ELSE UNCHANGED torn
    /\ UNCHANGED <<row, origin, clone>>

(* A commit that is about something else reaches the branch.               *)
OtherPush ==
    /\ \E u \in User : clone[u].fresh
    /\ clone' = [u \in User |-> [clone[u] EXCEPT !.fresh = FALSE]]
    /\ UNCHANGED <<row, origin, call, torn>>

Next ==
    \/ \E k \in Call, u \in User, n \in Name :
          \/ \E a \in Art : CreateRelease(k, u, n, a)
          \/ DeclareRelease(k, u, n)
          \/ DeleteRelease(k, u, n)
    \/ \E k \in Call :
          \/ Refresh(k) \/ RefreshSkipped(k) \/ Check(k) \/ Flush(k)
          \/ LoadForAdding(k) \/ LoadForDeleting(k) \/ NothingToDelete(k) \/ WriteFile(k)
          \/ GitCommit(k) \/ GitFails(k) \/ Push(k) \/ PushUnanswered(k)
          \/ CommitCreate(k) \/ CommitDelete(k) \/ Fail(k)
    \/ OtherPush

Spec == Init /\ [][Next]_vars

-----------------------------------------------------------------------------

UnderWay(n) == \E k \in Call : call[k].op \in {"create", "delete"} /\ call[k].name = n

(* releases.py: "so the two stores stay consistent".  When nobody is at    *)
(* work on a name, its row and its internal entry at GitHub agree, unless  *)
(* one of four failures parted them: a worker that died after it wrote, a  *)
(* push whose answer was lost, a deletion in a checkout that is behind,    *)
(* and one that outlived the row it had loaded.                            *)
StoresAgree ==
    \A n \in Name \ torn :
        ~UnderWay(n) => row[n] = IF origin[n] \in Art THEN origin[n] ELSE NoArt

(* The table never has one artifact at one commit under two names, though  *)
(* the check for it and the INSERT are far apart: the push of the later    *)
(* request is rejected.                                                    *)
OneReleasePerArtifact ==
    \A n, m \in Name \ torn : n # m /\ row[n] # NoArt => row[n] # row[m]

(* No push of anybody removes or replaces the entry of another release,    *)
(* whatever checkout it came from and whatever was left there.             *)
EntryLostOnlyByDelete ==
    [][\A n \in Name : origin[n] # NoArt /\ origin'[n] # origin[n] =>
         \/ n \in torn
         \/ \E k \in Call : /\ call[k].op = "delete" /\ call[k].name = n
                            /\ call[k].st = "committed"]_vars

(* releases.py: the entry is dropped "before deleting the DB row, so it    *)
(* doesn't reappear as a calkit.yaml release".                             *)
DeletedStaysGone ==
    [][\A n \in Name : row[n] # NoArt /\ row'[n] = NoArt => origin[n] \notin Art]_vars

(* The handlers keep the ledger of ReleaseLedger: however their steps and  *)
(* the users' checkouts are interleaved, a push adds or drops one entry,   *)
(* rows follow entries, and an artifact is released once.                  *)
Known(f) == [n \in Name |-> IF n \in torn THEN NoArt ELSE f[n]]

Ledger == INSTANCE ReleaseLedger WITH record <- Known(row), entry <- Known(origin), lost <- torn

KeepsLedger == Ledger!LedgerSpec
=============================================================================
