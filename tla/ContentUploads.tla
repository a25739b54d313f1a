--------------------------- MODULE ContentUploads ----------------------------
(***************************************************************************)
(* Files that are put from the browser, and the locks on their paths       *)
(* (routes/projects/core.py, git.py).  Each user has one checkout on the   *)
(* disk of the server, which all requests of that user share: the lock     *)
(* file of get_repo covers the refresh, and nothing covers the rest.       *)
(***************************************************************************)
EXTENDS Naturals, FiniteSets

CONSTANTS
    Path,       \* files of the repository
    Writer,     \* users who may write
    Put,        \* the puts; each stands for what it uploads as well
    NoOne,      \* no request, or no user
    Original    \* the text of a file that nobody has put

ASSUME UploadsAssumption == NoOne \notin Put \cup Writer \cup Path /\ Original \notin Put

Contents == Put \cup {Original}
Tree == [Path -> Contents]

VARIABLES
    branch,     \* the branch at GitHub
    checkout,   \* per user: the working tree, its index and HEAD, what was fetched,
                \* whether HEAD is on no branch, whether GitHub has nothing that HEAD
                \* or what was fetched lacks, and who refreshes it
    put,        \* the requests
    holder,     \* the table file_lock
    deciding,   \* requests to lock or unlock that have read the table
    began,      \* per locked path: the puts that were past their check by then
    arrived,    \* the puts that GitHub has had on the branch
    overtaken   \* the puts that another request of their user got in the way of

uvars == <<branch, checkout, put, holder, deciding, began, arrived, overtaken>>

NotAsked == [st |-> "idle", user |-> NoOne, path |-> NoOne]

Refreshing == {"fetched", "reset", "detached"}
Working == {"ready", "written", "staged", "committed"}

UploadsTypeOK ==
    /\ branch \in Tree
    /\ checkout \in [Writer ->
        [head : Tree, index : Tree, work : Tree, fetched : Tree, onBranch : BOOLEAN,
         current : BOOLEAN, upToDate : BOOLEAN, refresher : Put \cup {NoOne}]]
    /\ put \in [Put -> [st : {"idle", "asked", "ok", "error"} \cup Refreshing \cup Working,
                        user : Writer \cup {NoOne}, path : Path \cup {NoOne}]]
    /\ holder \in [Path -> Writer \cup {NoOne}]
    /\ deciding \subseteq [op : {"lock", "unlock"}, user : Writer, path : Path]
    /\ began \in [Path -> SUBSET Contents]
    /\ arrived \subseteq Contents /\ overtaken \subseteq Put

UploadsInit ==
    /\ branch = [p \in Path |-> Original]
    /\ checkout = [u \in Writer |->
        [head |-> branch, index |-> branch, work |-> branch, fetched |-> branch, onBranch |-> TRUE,
         current |-> TRUE, upToDate |-> TRUE, refresher |-> NoOne]]
    /\ put = [k \in Put |-> NotAsked]
    /\ holder = [p \in Path |-> NoOne]
    /\ deciding = {}
    /\ began = [p \in Path |-> {}]
    /\ arrived = {Original} /\ overtaken = {}

-----------------------------------------------------------------------------
(* One put.                                                                *)

Of(k) == checkout[put[k].user]
Goes(k, st) == put' = [put EXCEPT ![k].st = st]
Siblings(k) == {j \in Put \ {k} : put[j].user = put[k].user}

(* Mutant: the locks are not looked up.                                    *)
AskPutRegardless(k, u, p) ==
    /\ put[k] = NotAsked
    /\ put' = [put EXCEPT ![k] = [st |-> "asked", user |-> u, path |-> p]]
    /\ UNCHANGED <<branch, checkout, holder, deciding, began, arrived, overtaken>>

(* The access is checked, and the path is not locked: not by the user who  *)
(* asks either.                                                            *)
AskPut(k, u, p) ==
    /\ put[k] = NotAsked /\ holder[p] = NoOne
    /\ put' = [put EXCEPT ![k] = [st |-> "asked", user |-> u, path |-> p]]
    /\ UNCHANGED <<branch, checkout, holder, deciding, began, arrived, overtaken>>

(* get_repo without a TTL: the lock file is free, HEAD is on a branch, and *)
(* the fetch succeeds.                                                     *)
Fetch(k) ==
    LET u == put[k].user IN
    /\ put[k].st = "asked" /\ Of(k).refresher = NoOne /\ Of(k).onBranch
    /\ checkout' = [checkout EXCEPT ![u].refresher = k, ![u].fetched = branch, ![u].current = TRUE]
    /\ Goes(k, "fetched")
    /\ UNCHANGED <<branch, holder, deciding, began, arrived, overtaken>>

(* git reset, clean and stash.                                             *)
Reset(k) ==
    LET u == put[k].user IN
    /\ put[k].st = "fetched"
    /\ checkout' = [checkout EXCEPT ![u].index = Of(k).head, ![u].work = Of(k).head]
    /\ Goes(k, "reset")
    /\ UNCHANGED <<branch, holder, deciding, began, arrived, overtaken>>

(* git checkout of what was fetched, which refuses to overwrite what       *)
(* another request has written since the stash, and keeps it elsewhere.    *)
Changed(c) == {p \in Path : c.work[p] # c.head[p] \/ c.index[p] # c.head[p]}
Detach(k) ==
    LET u == put[k].user
        c == Of(k)
        Over(tree) == [p \in Path |-> IF p \in Changed(c) THEN tree[p] ELSE c.fetched[p]]
    IN  /\ put[k].st = "reset"
        /\ \A p \in Changed(c) : c.head[p] = c.fetched[p]
        /\ checkout' = [checkout EXCEPT ![u] =
               [c EXCEPT !.head = c.fetched, !.index = Over(c.index), !.work = Over(c.work),
                         !.onBranch = FALSE, !.upToDate = c.current]]
        /\ overtaken' = overtaken \cup {j \in Siblings(k) : put[j].st = "committed"}
        /\ Goes(k, "detached")
        /\ UNCHANGED <<branch, holder, deciding, began, arrived>>

(* The old branch is deleted and made again from HEAD.                     *)
Rebranch(k) ==
    LET u == put[k].user IN
    /\ put[k].st = "detached"
    /\ checkout' = [checkout EXCEPT ![u].onBranch = TRUE, ![u].refresher = NoOne]
    /\ Goes(k, "ready")
    /\ UNCHANGED <<branch, holder, deciding, began, arrived, overtaken>>

(* A Git command of the refresh fails, or the lock file was not free for   *)
(* five seconds: the handler goes on with the checkout as it is.           *)
RefreshFails(k) ==
    LET u == put[k].user IN
    /\ \/ put[k].st = "asked" /\ (Of(k).refresher # NoOne \/ Of(k).onBranch)
       \/ put[k].st \in Refreshing
    /\ checkout' = IF Of(k).refresher = k THEN [checkout EXCEPT ![u].refresher = NoOne] ELSE checkout
    /\ Goes(k, "ready")
    /\ UNCHANGED <<branch, holder, deciding, began, arrived, overtaken>>

(* The upload is written over the file, whoever wrote it before.           *)
WriteUpload(k) ==
    LET u == put[k].user
        p == put[k].path
    IN  /\ put[k].st = "ready"
        /\ checkout' = [checkout EXCEPT ![u].work[p] = k]
        /\ overtaken' = overtaken \cup
               {j \in Siblings(k) : put[j].path = p /\ put[j].st \in {"written", "staged", "committed"}}
        /\ Goes(k, "written")
        /\ UNCHANGED <<branch, holder, deciding, began, arrived>>

Add(k) ==
    LET u == put[k].user
        p == put[k].path
    IN  /\ put[k].st = "written"
        /\ checkout' = [checkout EXCEPT ![u].index[p] = Of(k).work[p]]
        /\ Goes(k, "staged")
        /\ UNCHANGED <<branch, holder, deciding, began, arrived, overtaken>>

(* Mutant: the put is answered 200 also when the file is not different.    *)
CommitUploadAnyway(k) ==
    LET u == put[k].user IN
    /\ put[k].st = "staged"
    /\ IF Of(k).index[put[k].path] # Of(k).head[put[k].path]
       THEN /\ checkout' = [checkout EXCEPT ![u].head = Of(k).index]
            /\ Goes(k, "committed")
       ELSE UNCHANGED checkout /\ Goes(k, "ok")
    /\ UNCHANGED <<branch, holder, deciding, began, arrived, overtaken>>

(* The commit takes all that is staged, if the path is; else the request   *)
(* ends with "File is either not different or ignored by Git".             *)
Differs(k) == Of(k).index[put[k].path] # Of(k).head[put[k].path]
CommitUpload(k) ==
    LET u == put[k].user IN
    /\ put[k].st = "staged"
    /\ IF Differs(k)
       THEN /\ checkout' = [checkout EXCEPT ![u].head = Of(k).index]
            /\ Goes(k, "committed")
       ELSE UNCHANGED checkout /\ Goes(k, "error")
    /\ UNCHANGED <<branch, holder, deciding, began, arrived, overtaken>>

(* Mutant: the push is forced.                                             *)
AcceptsAny(k) == TRUE

(* The push of the branch HEAD is on.  GitHub refuses it if it has commits *)
(* that HEAD lacks.  What was pushed counts as fetched.                    *)
Accepts(k) == Of(k).upToDate
PushUpload(k) ==
    /\ put[k].st = "committed" /\ Of(k).onBranch /\ Accepts(k)
    /\ branch' = Of(k).head
    /\ checkout' = [u \in Writer |->
           IF u = put[k].user THEN [checkout[u] EXCEPT !.fetched = branch', !.current = TRUE]
           ELSE IF branch' = branch THEN checkout[u]
           ELSE [checkout[u] EXCEPT !.current = FALSE, !.upToDate = FALSE]]
    /\ arrived' = arrived \cup {branch'[p] : p \in Path}
    /\ Goes(k, "ok")
    /\ UNCHANGED <<holder, deciding, began, overtaken>>

(* A Git command of the put fails: its index is locked by another request, *)
(* the push is refused, or HEAD is on no branch, of which active_branch    *)
(* makes an exception.  Or the worker dies.  The file lock goes with it.   *)
PutFails(k) ==
    LET u == put[k].user IN
    /\ put[k].st \in {"asked"} \cup Refreshing \cup Working
    /\ checkout' = IF Of(k).refresher = k THEN [checkout EXCEPT ![u].refresher = NoOne] ELSE checkout
    /\ Goes(k, "error")
    /\ UNCHANGED <<branch, holder, deciding, began, arrived, overtaken>>

-----------------------------------------------------------------------------
(* The table of locks: what is read may have changed when it is written.   *)

AskLock(u, p) ==
    /\ holder[p] = NoOne
    /\ deciding' = deciding \cup {[op |-> "lock", user |-> u, path |-> p]}
    /\ UNCHANGED <<branch, checkout, put, holder, began, arrived, overtaken>>

AskUnlock(u, p) ==
    /\ holder[p] = u
    /\ deciding' = deciding \cup {[op |-> "unlock", user |-> u, path |-> p]}
    /\ UNCHANGED <<branch, checkout, put, holder, began, arrived, overtaken>>

(* The INSERT, which fails if the path was locked meanwhile.               *)
CommitLock(d) ==
    /\ d.op = "lock"
    /\ deciding' = deciding \ {d}
    /\ IF holder[d.path] = NoOne
       THEN /\ holder' = [holder EXCEPT ![d.path] = d.user]
            /\ began' = [began EXCEPT ![d.path] =
                   {branch[d.path]} \cup {k \in Put : put[k].path = d.path}]
       ELSE UNCHANGED <<holder, began>>
    /\ UNCHANGED <<branch, checkout, put, arrived, overtaken>>

(* The DELETE names the project and the path, and not the user.            *)
CommitUnlock(d) ==
    /\ d.op = "unlock"
    /\ deciding' = deciding \ {d}
    /\ holder' = [holder EXCEPT ![d.path] = NoOne]
    /\ began' = [began EXCEPT ![d.path] = {}]
    /\ UNCHANGED <<branch, checkout, put, arrived, overtaken>>

UploadsNext ==
    \/ \E k \in Put, u \in Writer, p \in Path : AskPut(k, u, p)
    \/ \E k \in Put :
        \/ Fetch(k) \/ Reset(k) \/ Detach(k) \/ Rebranch(k) \/ RefreshFails(k)
        \/ WriteUpload(k) \/ Add(k) \/ CommitUpload(k) \/ PushUpload(k) \/ PutFails(k)
    \/ \E u \in Writer, p \in Path : AskLock(u, p) \/ AskUnlock(u, p)
    \/ \E d \in deciding : CommitLock(d) \/ CommitUnlock(d)

UploadsSpec == UploadsInit /\ [][UploadsNext]_uvars

-----------------------------------------------------------------------------

(* A put that is answered 200 has been on the branch, however requests of  *)
(* one user overlap in their checkout, fail and leave things behind: what  *)
(* is swept away before the commit is answered as "not different".  Not so *)
(* if another of them reset the checkout between its commit and its push,  *)
(* or wrote the same file after it.                                        *)
AnsweredIsPushed == \A k \in Put : put[k].st = "ok" => k \in arrived \cup overtaken

(* As long as a path is locked its file at GitHub changes only by a put    *)
(* that had looked for the lock before it was taken, be it pushed late or  *)
(* by another request of that user.                                        *)
LockedPathsRest ==
    \A p \in Path : holder[p] # NoOne => branch[p] \in began[p]

(* No push brings back a text that the file had at GitHub before, though   *)
(* checkouts fall behind and keep what failures left in them.              *)
PushesNeverRevert ==
    [][\A p \in Path : branch'[p] # branch[p] => branch'[p] \notin arrived]_uvars

=============================================================================
