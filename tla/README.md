# Calkit Cloud in TLA+

Calkit Cloud is a web service for reproducible research projects: a FastAPI
backend over PostgreSQL, a React frontend, and three kinds of external
services (GitHub and other OAuth providers, Git remotes, an object store). This
directory holds TLA+ modules that model its stateful core, the configurations
by which TLC checks them on small instances, and theorems proved with TLAPS for
every instance. Paths below are relative to the root of the repository
(`backend/...`, `frontend/...`). They are abbreviated where no confusion is
possible: `login.py`, `users.py`, `core.py` and so on live in
`backend/app/` or `backend/app/api/routes/`.

The first part is an inventory of the system. The second describes the modules.
The third says what is checked and proved and what that shows, and the last
what is not modelled, why, and what could come next.

## 1. The system

### How it runs, and what that means for the models

The backend is served by several worker processes (`backend/Dockerfile`,
`docker-compose.yml`), and in each of them FastAPI runs a plain `def` handler in
a thread of its own. So any two handlers interleave, and also two calls of one
handler. What orders them is PostgreSQL and nothing else: every statement
commits at READ COMMITTED, and a handler that wants to keep a row as it read it
has to say `with_for_update()`. Three facts of PostgreSQL shape all the modules:

* A `SELECT ... FOR UPDATE` or an `UPDATE` of a row that another transaction
  holds waits for that transaction to end. In the models a step that needs the
  row has `~Locked(...)` as a guard.
* `SELECT ... FOR UPDATE` that finds no row locks nothing. Two calls that both
  find no row both go on, and the primary key makes the second `INSERT` fail.
* SQLAlchemy writes the columns that were changed, by primary key, at the
  commit. What a handler decides on is the row as it was read.

So a handler that makes one transaction is one action if nothing it reads can
change before it commits, and two or three actions otherwise: one per point at
which another handler can get in between. A call to an external service always
ends an action.

The browser is different. A tab is one JavaScript realm, which runs to the next
`await` without interruption; localStorage is shared by all tabs, and the
in-flight promise of `auth.ts` is not. What a component shows comes from the
cache of React Query: a query is fetched when a page mounts, and fetched anew
when a mutation invalidates its key. Between two awaits, and between two
answers of the server, the user may do anything, other tabs and other people
included. So an action of a frontend module is the code from one await, event
or answer to the next.

### Components

Each entry gives the state a component keeps, its operations, whom it talks to,
what is hard about it, and what makes it correct.

**Session refresh tokens** (`login.py` 63-167). State: the table
`refresh_token` (user, expiry, active flag); access tokens are signed and have
no row. Operations: log in (password, GitHub, Google), refresh, deactivate a
user. Called by the browser, the CLI and the device flow. Hard: rotation with a
grace window in which the old token still works, so that a lost answer can be
retried and two tabs do not log each other out; refreshes of one token at once;
deactivation in between. Correct when the window is never extended and a
refusal is final.

**Browser session** (`frontend/src/lib/auth.ts`, `hooks/useAuth.ts`). State:
two localStorage keys, one module-level promise per tab, the state of the query
for the current user. Operations: silent refresh before a request, forced
refresh after a 401 or 403, login, logout, reload. Talks to the server above.
Hard: tabs race over one stored token; answers come after a logout, a reload or
a newer login; a promise that never settles blocks every request of its tab.
Correct when a race does not end a live session and every refresh settles.

**Device login of the CLI** (`login.py` 690-800). State: the table
`device_auth`. Operations: open a request, authorize it in a browser, poll for
the token. Hard: polls overlap, two users authorize, the row expires or is
deleted with other expired rows by somebody else's request. Correct when a code
gives one pair of tokens and nobody is told that a spent code is authorized.

**Project access and invitations** (`projects.py` 97-236, `core.py` 4404-4792).
State: `user_project_access`, one row per user and project, which is both the
native role and a cache of GitHub's permission, and `project_invitation`.
Operations: create, revoke and redeem an invite link, add by email, revoke,
share and unshare on GitHub, look up on GitHub. Hard: the cache is filled by
requests that asked GitHub some time ago; links have a limited number of uses.
Correct when a link is not used more often than it allows, nobody gets more
than a link or a grant confers, and removal is not undone by a late answer.

**External OAuth credentials** (`users.py` 70-551). State: one
`user_external_credential` row per user and provider, and the legacy tables it
is migrated from. Operations: load and refresh, save after a consent, delete
when refused, disconnect. Talks to GitHub, Zenodo, Google. Hard: GitHub and
Zenodo rotate refresh tokens, so that two refreshes with one token cost the
user the connection; what a call saves or deletes may not be the row it read.
Correct when a refresh neither loses a working credential nor brings back a
disconnected one.

**Sign-in pages** (`frontend/src/routes/login`, `routes/auth`, `routes/join`,
`signup.tsx`, `lib/google.ts`). State: `post_login_redirect` in localStorage,
which every tab shares, an OAuth state per provider in sessionStorage, which
none does. Operations: sign in by password, GitHub or Google, sign up, connect
Google or Zenodo, follow an invite link, log out. Hard: the user is away at a
provider while other tabs log in and out; one redirect URI serves two purposes;
a page with a code may be loaded again. Correct when a visitor who followed an
invite gets back to it and a code is used for what the user asked for, once.

**Zotero connection** (`zotero.py`, `users.py` 608-689, `routes/users.py`
690-739, `routes/auth/zotero.tsx`). OAuth 1.0a: a pending request token in a row
of its own label is exchanged for a key in another. Hard: several flows of one
user, stale tabs, a crash between the two commits. Correct when the flow the
user has open can be finished.

**Repository checkouts** (`git.py` 132-373). State: one clone per user and
project on the disk of the server, with a lock file. Operations: clone, refresh
(fetch, reset, clean, stash, checkout), reuse within a TTL, and the handlers
that write, commit and push in it. Hard: the lock covers the clone and the
refresh and not the use; a request that waits five seconds goes on without it.

**Releases** (`routes/projects/releases.py` 409-790, 1322-1383). State: a table
and a section of `calkit.yaml` in Git, written one after the other by hand.
Operations: create, declare one published elsewhere, delete, import from GitHub.
Talks to the checkouts and through them to GitHub. Hard: the file is pushed
before the row is committed, from checkouts that may be behind and may hold what
a failure left; what is checked is long past when it is pushed. Correct when the
two agree about every name that no failure has parted, an artifact is released
once, and nobody's push takes away what another has pushed.

**Release review** (`releases.py` 1823-2194, `ReleaseViewer.tsx`) and **project
comments** (`core.py` 2321-2658, `CommentsPanel.tsx`). State: comment rows, the
GitHub issues that mirror the threads, the list in the query cache of the page.
Operations: post, reply, resolve, reopen, synchronize from GitHub on every read.
Hard: both sides change, the handlers write one after the other, and some pages
write an answer into a list that is being read. Correct when the panel shows
what is in the table and a thread and its issue are in step.

**LaTeX editor** (`components/Publications/LatexEditor.tsx`). State: buffers,
their common ancestor with GitHub, the dirty set, the head of the branch as last
seen. Operations: type, select a file, save file by file, poll, pull with a
three-way merge, cancel. Hard: others push; a save takes several requests, of
which some may fail; the user types while a merge loads. Correct when no typed
text is lost and no push that was seen is undone.

**LaTeX preview** (the same file, `lib/latexCompiler.ts`, the worker). State: a
debounce, a running and a pending compilation, a cached result. Correct when
what is shown belongs to the sources it was asked for, and catches up.

**To-do list** (`hooks/useProject.ts` 227-370, `CreateIssue.tsx`). State: the
issues GitHub lists and the changes the page still expects of that list. Hard:
GitHub lists a change some time after it made it. Correct when a late list does
not undo a change on screen, and the screen is right in the end.

**PDF viewer** (`components/Common/PdfDocumentViewer.tsx`), **release dialog**
(`components/Releases/NewRelease.tsx`), and **the dialogs over the query cache**
(some forty forms and buttons). Hard: searches end out of order; an
acknowledgement is ticked for one artifact and sent for another; a key that is
invalidated is not the one the page reads. Correct when what is shown belongs to
what was asked.

**DVC remote and object storage** (`routes/projects/dvc.py`, `fs.py`,
`storage.py`). State: objects by MD5, and uploads under a pending name.
Operations: put, get, signed URLs, the storage quota. Hard: uploads of one
object share the pending name; the quota is compared before the upload.

**File locks and content uploads** (`core.py` 1291-1329, 5256-5304). State:
`file_lock` rows by project and path; the checkout of the user. Operations: lock
and unlock a path, put a file (look for a lock, refresh, write, add, commit,
push). Talks to the checkouts and through them to GitHub. Hard: the requests of
one user are at work in one checkout at once; a failure leaves files, staged
texts and commits in it; the lock is looked up long before the push. Correct
when a put that is answered 200 was pushed, a locked file rests but for the puts
that were under way, and no push brings back an old text.

**Organizations** (`routes/orgs.py`), **subscriptions and discount codes**
(`routes/users.py` 269-398, `routes/orgs.py` 277-389, `subscriptions.py`). State:
members, seats, plans, redeemed codes. Hard: read-then-write on counts.

**Pipeline status** (`pipeline.py`). A pure computation over `dvc.yaml` and
`dvc.lock`: which stages are stale.

**The rest**: the GitHub App token cache (`github.py`), project content and
artifacts, Overleaf and publication imports, users and API tokens, search,
email, the other pages of the frontend, the schema. They are input and output,
single-row updates, or rendering. `PROJECT.json` names the reason for each.

## 2. The modules

| Module | Models | Extends |
| --- | --- | --- |
| `RefreshTokens` | `refresh_token` and its handlers | |
| `BrowserSession` | tabs and localStorage over it | `RefreshTokens` |
| `DeviceLogin` | `device_auth` and its handlers, the polling CLI | |
| `ProjectAccess` | the access and invitation tables, GitHub | |
| `Credentials` | one external credential and its provider | |
| `Releases` | the release table, `calkit.yaml` and the checkouts between them, shown to implement `ReleaseLedger` | INSTANCE `ReleaseLedger` |
| `ReleaseLedger` | what the release handlers promise of the two records of a release | |
| `SignIn` | the pages where a session begins and accounts are connected | |
| `ZoteroFlow` | the pending request token and the key of one user | |
| `DvcRemote` | uploads of objects over pending files | |
| `ContentUploads` | puts of files, and file locks, over one checkout per user | |
| `ProjectRequests` | access or uploads at a time | `ProjectAccess`, `ContentUploads` |
| `SessionParts` | one of the four parts of a session at a time | `RefreshTokens`, `SignIn`, `ZoteroFlow`, `DvcRemote` |
| `LatexEditor` | buffers, save and pull against other people's pushes | |
| `CommentThreads` | panel, table and issues of one artifact's comments | |
| `PublicationPage` | editor or comments of one page | `LatexEditor`, `CommentThreads` |
| `CompileService` | what a compilation promises | |
| `LatexPreview` | the preview, shown to implement it | INSTANCE `CompileService` |
| `IssueList` | the to-do list against a GitHub that lags | |
| `PdfViewer` | page tracking and search | |
| `ReleaseForm` | the release dialog and the server's check | |
| `FormDialogs` | every dialog and button whose change a list shows | |
| `ProjectViews` | one of the five views at a time | the five above it |
| `MC<module>` | symmetry sets and values for TLC | the module |
| `<module>Proofs` | invariants, lemmas, theorems | the module, TLAPS |

`BrowserSession` is a composition: its steps are conjunctions of a step of
`RefreshTokens` (or of none of its variables) with what the browser does. The
one below is its specification of the server, and `BrowserImplementsServer`
proves that no step of the composition leaves it. `SessionParts`,
`ProjectRequests`, `PublicationPage` and `ProjectViews` are not compositions in
that sense: their parts share no state in the code either, and a constant of the
behaviour (`part`, `view`) says which one it explores, so that one run does for
several parts. The other modules share no state with each other (a device code's
pair of tokens becomes a row of `RefreshTokens`, whose `Login` is that step).

Definitions marked *Mutant* in a comment are never used by a specification.
Each is a definition of the module with a plausible mistake in it (a lock that
is not taken, a reset that is forgotten), and stands next to the one it would
replace; with it TLC finds the property that depends on it violated.
`PROJECT.json` lists which one belongs to which property.

### RefreshTokens

A member of `Pair` is one result of `_make_tokens`: an access token and the row
of the refresh token made with it. `expires`, `isActive`, `owner` are columns.
Time is kept as what is *left* of each lifetime and a `Tick` lowers all of
them, so there is no clock to bound. A `Req` is one call of
`POST /login/refresh`:

| Step | Code (`login.py`) |
| --- | --- |
| `Present` | the request reaches the server with a token that was handed out |
| `Refuse` | 127-136: row unknown, inactive or expired, 401 |
| `RefuseInactiveUser` | 138-144: the row is deactivated and committed, then 401 |
| `Validate` | 127-139: all checks pass; the row is held FOR UPDATE from here |
| `Rotate` | 146-167: the old row is shortened, a new pair minted, one commit |
| `Fail` | the worker dies before the commit, or the answer is lost after it |

`call[r].seen` is the expiry the call loaded. `Shortened` compares that one, as
the code does, and not the one in the table, with the deadline. That is what
makes `GraceBound` depend on the row lock. Two abstractions: the deadline is
computed at `Rotate` and not a few statements earlier, and a token nobody
issued is left out (it finds no row and is refused).

### BrowserSession

`accessTok` and `refreshTok` are the localStorage keys, `promise[b]` is the
`refreshPromise` of tab `b`, `via[r]` says which tab made call `r`, from where
(`"silent"`, `"force"`; `"dropped"` when its realm is gone), and which access
token it saw in storage when it did. Code between two awaits is one action:

| Step | Code |
| --- | --- |
| `StartSilent`, `SilentGranted`, `SilentFailed` | `auth.ts` 67-111, before and after the await, with the `finally` |
| `RefreshNotPossible` | the same function without a refresh token |
| `SendQuery`, `QueryAnswered`, `QueryGivenUp` | `queryFn` of `useAuth.ts` 34-63 |
| `ForceRefresh`, `ForceGranted`, `ForceAdopted`, `ForceFailed` | `auth.ts` 114-150 as called from it |
| `AutoLogout`, `LogOut` | `useAuth.ts` 171-200 |
| `LoginInTab`, `LoginWithoutRefresh` | the login mutations, which store a refresh token if the response has one |
| `Reload`, `DropAnswer`, `NetworkFailure` | the environment |

`promise[b] = Settled` deserves a word. Without a refresh token the async
function in `getValidAccessToken` returns before its first `await`, so its
`finally` sets `refreshPromise = null` *before* the assignment on the
left of the call is made. The variable then holds a promise that has resolved
to null, for as long as the tab lives.

### DeviceLogin

`row[c]` is the `device_auth` row of code `c`. `AuthorizeRead` and
`AuthorizeCommit` are two steps because that handler reads without a lock; an
UPDATE that finds its row deleted fails (`AuthorizeFail`). The token endpoint
holds the row from `PollReady` to `PollMint`. `cli[c]` is what the CLI (which
is not in this repository) knows: it polls until an answer is final. `mints` is a
history variable.

### ProjectAccess

One project of a user's own account. The owner, who makes the calls that need
admin access, is not a member of `User`. `access[u]` is the row, with
`"none"` for NULL in both of its columns. A call that reads the row and writes
it later (`Redeem`, `AddByEmail`, `Resolve`, `ShareOnGitHub`, `RemoveOnGitHub`)
keeps what it read in `call[k].seen` and what GitHub said in `call[k].says`;
its second step is the commit. `Grant` is shared by the two handlers
that confer a native role. An answer of GitHub other than 200 is cached as
NULL, as in the code (`projects.py` 140). `ShareCommit` and `RemoveCommit` do
not use `seen`: SQLAlchemy writes the one column that changed.

### ContentUploads

`checkout[u]` is the clone of user `u`: its HEAD, index and working tree, what was
fetched last, and `onBranch`, which is false between two commands of the refresh.
A tree gives each path its text, and a text is known by the put that uploads it.
Instead of commit ids there are `current` (GitHub has no commit that is not in what
was fetched) and `upToDate` (nor one that HEAD lacks), which is when GitHub takes a
push. Unlike in `Releases` every Git command is a step of its own, because the
requests of one user share the checkout: `refresher` holds the lock file of
`get_repo`, which covers `Fetch` to `Rebranch` and no more.

| Step | Code |
| --- | --- |
| `AskPut` | `core.py` 1291-1308: access, and no lock on the path |
| `Fetch`, `Reset`, `Detach`, `Rebranch` | `git.py` 327-345 |
| `RefreshFails` | `git.py` 355-358: Git fails or the lock file is not free, and the handler goes on |
| `WriteUpload`, `Add`, `CommitUpload`, `PushUpload` | `core.py` 1309-1329 |
| `PutFails` | any of these commands fails, `active_branch` raises, or the worker dies |
| `AskLock`, `CommitLock`, `AskUnlock`, `CommitUnlock` | `core.py` 5256-5304, each a read and a write |

Three histories say what the requests could not know. `arrived` has the texts that
GitHub has had, `began` what was at work on a path when it was locked, and
`overtaken` the puts whose commit, or file, another request of their user
replaced. The conflict that `git checkout` finds with a file that was written since
the stash is the guard of `Detach`; without one the file is kept.

### Credentials

One user and one provider. Four constants make it any of the providers:

| | `Locking` | `LegacyLocking` | `Rotates` | `CanDisconnect` |
| --- | --- | --- | --- | --- |
| GitHub | TRUE | TRUE | TRUE | FALSE |
| Zenodo | TRUE | FALSE | TRUE | TRUE |
| Google | FALSE | - | FALSE | TRUE |

`LegacyTok` is what the legacy table holds at first (of Google there is none), which
`Migrate` copies and nobody but `Disconnect` removes. FOR UPDATE locks no row that is
not there, so a migration overlaps whatever else goes on, other migrations included,
and a refresh that goes on after one holds no lock (`holds`). The run is Zenodo's.
`good` is the provider's state: the refresh tokens it honors. `excused` collects the
tokens whose death the code cannot help or does not prevent: revoked by the user,
redeemed by a call that failed before it could save the answer, or the one of the
legacy table, which may be copied back after it was spent.

### Releases

One project, whose branch at GitHub is `origin`: what its `calkit.yaml` has under
each name. `row` is the table. An artifact stands for a path at a commit, which is
what a row, and an entry with `internal: true`, say; `External` is an entry that
says where a release was published. `clone[u]` is the checkout of user `u`:
the branch, the file, `origin/<branch>` as last fetched and, instead of
commit ids, `fresh`: there is no commit at GitHub that this checkout lacks,
which is when GitHub takes a push.

| Step | Code (`releases.py` unless named) |
| --- | --- |
| `CreateRelease`, `DeclareRelease`, `DeleteRelease` | 494-523, 674-696, 1322-1343: access, and, for the first and last, the row of the name |
| `Refresh`, `RefreshSkipped` | `git.py` 285-354 and 355-373 |
| `Check` | 567-633: neither record has the artifact, `calkit.yaml` has not the name |
| `Flush` | 635-648: the INSERT, which waits for another of the same name |
| `LoadForAdding`, `LoadForDeleting`, `NothingToDelete` | 449-460, 1347-1373: `calkit.yaml` is read |
| `WriteFile` | 462-475: and dumped |
| `GitCommit`, `GitFails`, `Push` | 425-436 |
| `CommitCreate`, `CommitDelete` | 649-660, 1372-1373: the transaction |
| `Fail` | a check that refuses, an exception, a worker that dies |
| `PushUnanswered`, `OtherPush` | GitHub |

The refresh is one step though it is a dozen Git commands, because a checkout
belongs to one user and nobody else looks at it; one that is killed in the
middle is what `ContentUploads` has. A deletion that has loaded a row
which another deletion removes is `stale`: its DELETE by id finds nothing. The
import of several GitHub releases writes their entries at once and touches no
row: it is the step of `DeclareRelease` for each of them, and not an action.

`torn` records the names whose two records a failure may have parted. Four
things do that, and the invariants say that nothing else does: a worker that
died after it wrote the file; a push whose answer was lost; a deletion in a
checkout that is behind; and a deletion that goes on after the row it loaded is
gone. None of them is repaired by the code.

`Overlap` says whether two requests of one user run at once. They share the
checkout, and the refresh of the second takes back the commit that the first is
about to push. The push then succeeds with nothing in it and the row is
committed. `StoresAgree` is false with `Overlap = TRUE`; the run and the theorems
have it FALSE.

`ReleaseLedger` is the same without handlers and checkouts: the two records of each
name, and five steps of which each changes one record of one name. `Publish` makes the
entry, `Record` the row, `Withdraw` drops the entry, `Erase` the row, and `Lose` gives
a name up. The refinement mapping takes `row` for the table, `origin` for the entries
and `torn` for the names that were given up, of which nothing is said any more. A
push, with whatever it carries, has to be a `Publish` or a `Withdraw`.

### SignIn

`page[t]` is where tab `t` is: a page, the provider (`Away`), or a callback whose
effect has not run (`github`, `google`, `zenodo` with the flow it belongs to),
and `handled` afterwards. A route's `beforeLoad`, which runs before anything else
sees the page, is part of the action that navigates; an effect is an action of
its own, because another tab may change localStorage before it. `request[t]` is
the mutation under way: its `onSuccess` navigates even if the user has gone
elsewhere in the application; a document that is loaded ends it (`Load`). The
answers of providers and of the server are left open. Histories: `moved` and the
fields of `flows` say what happened since the user asked; `followed` and
`displaced` are about the invite.

| Step | Code |
| --- | --- |
| `GitHubCallback`, `EnterLogin` | `login/index.tsx` 39-47 and 91-111 |
| `GoogleCallback`, `GooglePurpose`, `Connected`, `RequestFailed`, `TimerFires` | `auth/google.tsx` 33-94 |
| `ZenodoCallback` | `auth/zenodo.tsx` 26-70, whose state is a constant |
| `JoinMounts`, `Joined` | `join/$token.tsx` 22-56 |
| `LoggedIn`, `Pop` | the mutations of `useAuth.ts` and `signup.tsx`, `auth.ts` 156-166 |
| `SignInFrom`, `OtherForm`, `OpenSettings`, `LogOut` | the links and buttons |

### ZoteroFlow and DvcRemote

`pending` and `apiKey` are the two rows, named by the flow they came from. A
finish is four steps because two commits and a request to Zotero lie between
its check and its answer. `raced` collects the flows that began while a finish
of another was past its check. In `DvcRemote` a request streams to `partial`,
which appears when the file is closed with the whole of what was streamed
(S3 and GCS show no file before), `fs.mv` is a copy (`CopyPending`) and a deletion
(`RemovePending`), and `Clean` is the `finally`. `torn` collects the objects that were
renamed by an upload that was not alone.

### LatexEditor

A text is the set of the edits it contains, each known by its author; a line
that both sides changed is a conflict that `PullMerges` may draw, and leaves
both sides and a marker. `commits` is the branch, `checkout` the commit at which the
user's checkout at the server is, `unsaved` a history of what
the user typed and no request has carried. `SubmitSave`, `PutContents` (one file),
`SaveFails` and `FinishSave` are the mutation, `StartPull` to `FinishPull` the pull with
its two awaits, `PollReads` and `PollAnswers` the poll every 20 seconds. A pull reads
its files one by one from a checkout whose refresh may fail, and leaves out those it
cannot read: `pull.got` are the others, and only they are merged. A project whose
loading leaves files out is one with fewer files (`File`). `RecordHead` is the
answer to the request for the head that the loading made, however late it comes
(`asked`); it overwrites the head that a save or a pull has recorded since. With
`Overlap = FALSE` the user waits for a save, and for a pull but for going on to write
while the remote text is loaded: see `latex_pull` below.

### CommentThreads

`board` says how a page behaves: whether it writes answers into its cache, and
whether an issue that is open reopens a thread. A read loads the rows, asks GitHub
about the issues and commits what they say (`LoadComments`, `CheckIssues`,
`FinishRead`); the handler that resolves commits and then turns the issue
(`ResolveCommits`, `MirrorResolution`). `OtherReads` is a read by somebody else.
`outdated` and `adrift` record what the code gives up on: see the properties.

### The views

`LatexPreview` has `compile()` up to its await (`Compile`), the compiler behind it
(`EngineLoads`, `Dispatch`, `EngineAnswers`, `EngineThrows`) and what the user does.
`CompileService` is two variables: the sources asked for and the answer.
`IssueList` keeps for each issue the states GitHub still has to list (`lagging`),
with `ListCatchesUp` as GitHub's own step. In `PdfViewer` a search that awaits the
text of the pages carries the sequence number it began with. In `ReleaseForm`
`ackFor` is the path in the field when the box was ticked. `FormDialogs` is one
state machine and a table: every dialog is a record of what the code does with
its draft, of the key it invalidates, when, and of the query its page reads. The
record is the translation of the dialog, and dialogs with equal records are
explored once. `dialogOpen` says that the form is on screen: after a success it is,
or not, as the record's `success` says (most dialogs close, the one for share links
stays, a new token takes the form's place, and the user's own data leave their edit
mode with the click). `awaited` is the request that disables the button, the last
one React Query's mutation has sent, and none once the page was left or the mutation
reset. A button in every row of a list is not `guarded`, because only the pending
row's is disabled.

## 3. What is checked

TLC explores every state of the instances below in some ten minutes altogether.
Symmetry is used over sets whose members no definition distinguishes, and for
safety only: `browser_liveness`, `device_login` and `views`, which check
liveness, have none.

| Run | Instance | States | Properties |
| --- | --- | --- | --- |
| `session_parts` | refreshes: 3 pairs, 2 calls, 1 user; sign-in: 2 tabs, 3 tabs and consents together; Zotero: 3 flows, 2 finishes; uploads: 2 objects, 2 requests, room for 1 | 389 k | `GraceBound`, `RefusalIsFinal`, `InviteKept`, `GoogleAsAsked`, `OpenFlowCanFinish`, `ToldStored` |
| `browser_session` | 2 tabs, 2 calls, 3 pairs | 871 k | `StrandedOnlyByLoss`, `RejectionSparesLiveSession` |
| `browser_liveness` | 1 tab, 2 calls, 3 pairs | 461 k | `SilentRefreshSettles` |
| `device_login` | 2 codes, 1 user, 2 authorizations, 2 polls | 113 k | `OnePairPerCode`, `SpentCodeNotAuthorized`, `PollingEnds` |
| `project_requests` | access: 1 user, 1 link, 2 calls; uploads: 2 users, 2 paths, 2 puts | 541 k | `UsesBounded`, `RemovalSticks`, `RevocationHolds`, `GrantLostOnlyByRevoking`, `AnsweredIsPushed`, `LockedPathsRest`, `PushesNeverRevert` |
| `credentials` | 3 calls, 5 tokens, one of them legacy, locking, rotating | 154 k | `StoredTokenAlive`, `DeleteOnlyInvalid`, `RefreshNeverReconnects` |
| `releases` | 2 users, 2 calls, 2 names, 1 artifact, 1 torn name | 1.17 M | `StoresAgree`, `OneReleasePerArtifact`, `KeepsLedger` |
| `publication_page` | editor: 2 files, 2 edits of one's own and 1 of others, 4 commits; comments: 2 | 4.30 M | `PageTypeOK`, `UnsavedKept`, `AncestorWasCommitted`, `SeenPushesSurvive`, `PanelShowsComments`, `ThreadInStep` |
| `views` | preview: 3 sources, one broken, 3 edits; to-do list: 3 issues, one of them new, 2 changes, 2 reads; PDF: 3 pages, 2 queries, 2 searches; releases: 2 stale artifacts, 1 release; dialogs: 2 changes | 591 k | `ViewsTypeOK`, `ImplementsService`, `PreviewCatchesUp`, `ReconcileKeepsExpected`, `ShownListSettles`, `SearchShowsQuery`, `StaleOnlyAcknowledged`, `ListShowsChanges` |
| `browser_stuck` | as `browser_session` | | `ExpiredIsRefreshed`, violated |
| `releases_deleted` | as `releases` | | `DeletedStaysGone`, violated |
| `latex_pull` | the editor with 1 file and `Overlap` | | `PullKeepsEdits`, violated |

Ten type invariants have no run, since they are proved: `TypeOK` of
`RefreshTokens`, `DeviceLogin`, `ProjectAccess` and `Credentials` and those of
`ZoteroFlow` and `DvcRemote` as parts of invariants, `TypeOK` of `Releases`,
`BrowserTypeOK`, `SignInTypeOK` and `UploadsTypeOK` as theorems. `PageTypeOK` and
`ViewsTypeOK`, of two compositions, have both.

### What the properties say

* `GraceBound`: counted from its *first* redemption a refresh token is good for
  at most the grace window. It fails when the row is selected without FOR
  UPDATE: a call that loaded the row before a tick writes a deadline after it.
* `RefusalIsFinal`: a token answered with a 401 once is never honored again.
  This is what deactivating the row of an inactive user is for: without it the
  token comes back to life with the user.
* `StrandedOnlyByLoss`: the token in localStorage has been redeemed only if the
  answer that replaces it is on its way or was lost. So no interleaving of
  tabs leaves a browser with a spent token, but a reload at the wrong moment
  does, and the grace window is then all that is left of the session.
* `RejectionSparesLiveSession`: when a 401 makes a tab clear the tokens, the
  stored session is dead (or its access token about to expire). It fails when
  the loser of a race does not adopt what the winner stored.
* `SilentRefreshSettles`: no in-flight refresh blocks its tab for good.
* `InviteKept`: a visitor who followed an invite link gets back to it after
  signing in, in whatever tab and by whatever provider, unless another page
  asked to be returned to meanwhile or the user logged out.
* `GoogleAsAsked`: a code that Google sent for signing in is not used to connect
  an account, nor the reverse, unless somebody logged in or out since the page
  on which the user chose; and no code of Google or GitHub is sent twice.
* `OpenFlowCanFinish`: stale tabs do not take away the pending Zotero token of
  the flow begun last, unless a finish was past its check when that one began.
* `ToldStored`: an object whose client was answered 200 stays and has the
  content of its name, whatever uploads fail, or die, afterwards. The content is
  excepted once two uploads of the object have overlapped.
* `OnePairPerCode`: overlapping polls get one pair of tokens out of a code.
* `SpentCodeNotAuthorized`: nobody is told "CLI access authorized" for a code
  whose pair has been minted, though the authorize call may have read the row
  before that.
* `PollingEnds`: a CLI stops polling, with tokens, an expiry or a 404.
* `UsesBounded`, `RevocationHolds`: an invite link is used at most `max_uses`
  times, and not at all after it was revoked, though redemptions overlap.
* `GrantLostOnlyByRevoking`: a role is not overwritten by an answer of GitHub
  that was asked for before the member joined.
* `RemovalSticks`: a collaborator removed through Calkit gets no more than the
  public does, though a request that asked GitHub before is answered after.
  This is why `delete_project_collaborator` inserts a row when there is none.
* `AnsweredIsPushed`: a put that is answered 200 has been on the branch, whatever
  the requests of one user do to each other's checkout, unless it was `overtaken`.
  What keeps the others is the answer "not different" to a put whose file was swept
  away before its commit, and the reset of what a push that failed has committed.
* `LockedPathsRest`: as long as a path is locked, its file at GitHub changes only by
  a put that had looked for the lock before.
* `PushesNeverRevert`: no push brings back a text that a file had before, though
  checkouts fall behind and keep what failures left in them. It holds because
  GitHub refuses what is behind; with a push that is forced it fails.
* `StoredTokenAlive`: the stored refresh token is dead only for an excused
  reason, or while the call that spent it is about to replace it.
* `DeleteOnlyInvalid`: a refused refresh that holds the row deletes no credential
  that works, whatever migrations and consents overlap it.
* `RefreshNeverReconnects`: a refresh that holds the row does not bring back an
  account that was disconnected. Of a refresh that holds none (after a migration, or
  Google's) both are false: see the disagreements.
* `StoresAgree`: of a name that is not torn and that nobody is at work on, the
  row and the internal entry at GitHub say the same. It fails without the reset
  after a push that is rejected: the commit then goes out with the next one.
* `OneReleasePerArtifact`: the check for a duplicate is made many steps before
  the row is committed, without a constraint in the table. What makes it hold
  is that two requests which both pass the check cannot both push.
* `KeepsLedger`: the handlers implement `ReleaseLedger`. A push adds one entry, of a
  name that is free and an artifact that has none, or drops the one entry its request
  deletes, whatever the checkout was like when its request began; a row follows its
  entry, and goes after it; and nothing else happens to a name that is not lost.
* `UnsavedKept`: what the user typed and no request has carried stays in the
  buffer and under the badge, though polls, saves and pulls come and go. It fails
  when the merge uses the buffer as it was before the remote text was loaded.
* `AncestorWasCommitted`: what the next merge will take for the common ancestor
  was the file at GitHub once. It fails when a save of several files advances
  the base and then fails.
* `SeenPushesSurvive`: a save may undo a push, because it puts whole files; but
  only one that the editor had not loaded. (A head that is recorded as seen is not
  loaded by that: see the disagreements.)
* `PanelShowsComments`: when nothing is under way the panel shows the comments
  of the table, each once and with its state, or one of the things happened
  that the code leaves to the next read (`outdated`). One of these is a change that
  is answered while a read is under way, so what is left for the property is the
  answer that a page writes into its cache: of a resolution, the whole cascade.
* `ThreadInStep`: a thread and its issue agree, or one of the things happened
  that only a later read repairs (`adrift`). A handler that dies between its
  commit and GitHub is one of these; the property is about the direction in which
  each of the two is copied to the other, and about the read that repairs them.
* `ImplementsService`: whatever is cached, pending or running, an outcome that
  the preview shows belongs to the sources it was asked for, and every request
  is answered. `PreviewCatchesUp`: the sources as they are, and not only some
  earlier ones, are compiled in the end if compiling is automatic.
* `ReconcileKeepsExpected`: a list that GitHub served too early does not take a
  toggled or created issue off the page. `ShownListSettles`: the page shows
  what GitHub has in the end, unless something happened that the code gives
  up on (`forgot`).
* `SearchShowsQuery`: what the search box shows belongs to the query in it.
* `StaleOnlyAcknowledged`: a stale artifact is released only if its own staleness
  was acknowledged.
* `ListShowsChanges`: of every dialog, the list that shows its changes shows them
  all when nothing is under way; `gap` names the dialogs of which that is false,
  `behind` the events after which it need not hold until the next fetch. It comes
  down to the table of keys, which is long, and to the invalidation, which cancels
  a fetch that began before the change.

### The bounds

Two calls, tabs, polls or authorizations are enough for a race, and the third
pair lets a winner rotate again while the loser is still under way. The
lifetimes are small numbers in the right order (grace shorter than the refresh
token; the buffer shorter than the access token; in `session_parts` the access
token plays no part in a guard). In `browser_session` one user suffices because
the pairs of different users differ in nothing but the deactivation of their
owner, and `PairsLeft` starts a call only if a pair is left for it, so that no
call waits for a bound. Users are not reactivated there, as they are in
`RefreshTokens`. `MaxBusy` counts the tabs that are open and the consents asked for: three are two
tabs of which one is away at a provider, or a tab that asked twice. Three Zotero flows and
two finishes are a stale tab, the one that races and the newest. In
`DvcRemote` two uploads of one object overlap, a second object tells the quota
apart, and a request that died may leave its pending file to the next. In
`project_requests` the rows of two users are independent but for the uses of a link,
and those do not depend on who redeems it; `MaxUses = 1` has the limited and the
unlimited link (0), `use_count` is counted up to one more. GitHub permissions
start as none or write, and admin is reached by `GitHubChanges`. Two puts are of one
user, who has them overlap, or of two, of whose checkouts one falls behind; a second
path makes a commit carry what another request has staged. The uploads were
explored with three puts once (6 million states), to the same result, and are
proved for any number. Five tokens in
`credentials` are the legacy one, the first grant, two rotations and one more
consent; `MaxRow = 3` lets the row be inserted three times. In `releases` two users
with a checkout each make every conflict of two pushes; one artifact under two
names is what `OneReleasePerArtifact` is about; `MaxTorn = 1` stops the run
where failures would have torn both names, so that one is left for the
invariants to speak of.

In the editor two files make a save, or a pull, that stops half way; one edit of
one's own and one of somebody else's make a conflict, and a second of one's own is
what is typed after the merge began; `MaxCommits = 4` has all three committed. With
a second edit of somebody else's the instance has 7.5 million states and was
explored once, to the same result. Two comments are a thread with a reply or two threads. Three
sources are one compiled, one that is running and one that is pending; the
broken one fails. `MaxReconcile = 2` stands for the cap of six reads: the
counter is compared with nothing else. Three issues are two that GitHub has and
one created here; with two changes the list may lag by both. Two of everything
suffice in the PDF viewer, the release dialog and the other dialogs, where
nothing waits for more than one other event.

`CHECK_DEADLOCK FALSE` is set where the bounded instance runs out of codes,
links, tokens, edits or searches.

### Fairness

`SilentRefreshSettles` assumes that the server answers what reaches it or the
connection breaks, and that the event loop runs the continuation of a settled
promise. It is *strong* fairness for the step after the SELECT, because a call
may find the row locked, again and again, by others; PostgreSQL queues lock
waiters, so it gets the lock in turn. `PollingEnds` assumes that time passes,
that the CLI polls again after an answer that is not final, that a poll that
keeps getting the chance is answered, and that not every answer is lost.
`PreviewFairness`, under which the preview is shown to implement
`CompileService`, is weak fairness for the debounce timer, for the two promises
of the engine and for the worker, which answers or throws. `IssuesFairness` is
weak fairness for the requests of the page (each is answered or fails) and for
GitHub's list, which shows a change some time; which of two answers comes first
is left open. Nothing is assumed of users: that anybody authorizes a code, logs
in, types or reloads.

### Disagreements between the code and what it says

Three runs end with a counterexample to something a comment says.

* `browser_stuck`: `auth.ts` 63 promises "a valid access token, silently
  refreshing if it is expired". A tab that had no refresh token once is left
  with the settled promise and answers null for good, though another tab has
  stored a session since.
* `releases_deleted`: `releases.py` 1344, the entry is dropped "before deleting
  the DB row, so it doesn't reappear as a calkit.yaml release". `get_repo` goes on
  with the checkout as it is when Git fails or its lock is not free for five
  seconds (`git.py` 355-358). If that checkout has no such entry, the handler
  pushes nothing and deletes the row, and the release is one of `calkit.yaml`.
* `latex_pull`: the comment over `pullUpdates` says "preserving local edits".
  `onSuccess` of a save (`LatexEditor.tsx` 351) takes the buffers as they are
  *then* for what was saved. What was typed while the save was under way becomes
  the base without having been committed, and the next merge takes it for
  a line that the others deleted.

Others were noticed while modelling. The models have the steps they take, but
no run states them.

Sessions and accounts:

* `auth.ts` 59 speaks of one in-flight refresh. `forceRefreshAccessToken` (121)
  drops the promise of a silent refresh that is under way, and the `finally` of
  that one then clears the promise of its successor.
* `auth.ts` 87: an answer that comes after a logout, or after another tab's login
  as somebody else, is stored all the same.
* `auth.ts` 90 speaks of rotated, single-use refresh tokens; inside the grace
  window a token may be used any number of times.
* `auth.ts` 103: `getValidAccessToken` clears the tokens after any failure of
  the refresh, a broken connection included; line 141 says "a transient
  network/5xx failure should not clear it". `forceRefreshAccessToken` does not,
  but `queryFn` (`useAuth.ts` 53) rethrows the 403 of its first try and the next
  render logs out.
* The query of the current user is never stale. A tab is not told when another
  logs in or out: the device page may show one account and act as another.
* The timers of the error pages (two seconds) and an `onSuccess` that comes late
  navigate away from wherever the user has gone. Zenodo's `state` is a constant,
  and its page loaded again sends the code again.
* `login.py` 744: "Device code already authorized" is answered from a read
  without a lock. Two users can both be told that they authorized a code.
* `login.py` 767: a CLI is to poll until it receives a token or the request
  expires. When the answer with the token is lost the next poll gets a 404.
* `routes/users.py` 754, "Disconnect an external account by deleting its
  credential": Google's credential is not locked, and a refresh under way
  inserts it again (`users.py` 551). The handler also deletes it by its id after
  a refusal, though a consent may have put a working token there meanwhile
  (535-540; `DeleteOnlyInvalid` is checked where the row is locked).
* `users.py` 242, "Migrate from legacy to new system": FOR UPDATE
  locks no row that is not there, and the legacy tables are never emptied. With two
  requests at once a migration can overwrite what a login saved between its two
  selects, and put a token back that the provider has rotated away (`excused`). Its
  commit gives up the locks, and the refresh that follows (`users.py` 259, 371)
  holds none: it may delete a working credential that a consent has stored meanwhile
  ("Delete credential if refresh token is invalid", 393), or bring an account
  back that was disconnected.
* `routes/users.py` 725: "a flow the user still has open elsewhere can finish".
  Not if a finish of another had passed its check before that flow began
  (`raced`): it deletes whatever token is pending (`users.py` 671).

Projects and files:

* `core.py` 4779, "Grant, or upgrade if the invite confers more than they already
  have": the access row is read without a lock, so that of two redemptions the
  later one may write read over write.
* `projects.py` 192: in a project of an organization the access row is not read,
  so what an invite link confers there (`core.py` 4714-4792) has no effect.
* `projects.py` 140: any answer of GitHub but 200 is cached as "no access".
* `git.py` 343: the lock ends with the refresh. With `Overlap = TRUE` (`Releases`) a
  request whose commit was dropped by the refresh of another pushes nothing, is
  answered 200 and commits its row. A put whose commit was dropped is also
  answered 200 (`overtaken`), and one whose file another put of the same path has
  written over pushes that one's text.
* `git.py` 140, "Ensure that the repo exists and is ready for operating upon": a
  worker that dies between the checkout of `origin/...` and the making of the branch
  (343-345), or an index that another request has locked then, leaves a HEAD that
  is on no branch. `active_branch` (329) raises for it in every later request of
  that user, and nothing repairs it.
* `core.py` 1307: a put that has looked for the lock is not stopped by one that is
  taken meanwhile (`began`).
* `core.py` 5303, "Cannot delete someone else's lock": the row is read and then
  deleted by project and path. The second of two deletions that overlap deletes
  the lock that somebody else has taken after the first.
* `dvc.py` 82: two uploads of one object share one pending name. One may rename
  what the other has half written, after it has checked its own (`torn`).
* `routes/users.py` 291: the months of a discount code are taken modulo 12 before
  the years are, so that twelve of them are none, and what is left is added to
  the month of the date, which may pass December.

Comments and editors:

* The synchronization of project comments resolves top comments only, and
  reopens nothing; a reply in a resolved thread counts as open.
* A thread that a member without a GitHub token resolves is reopened by
  the next read of a release, because the issue is still open. So is one whose
  handler a read overlaps.
* A late answer to a comment wipes the draft that was begun meanwhile, and
  Ctrl+Enter submits a pending one again. Drafts are kept when the page shows
  another artifact.
* `LatexEditor.tsx` 357, 398, 497: the head that is recorded after a save, a pull or
  the loading is read anew and may be newer than the text that was loaded; no badge
  then says that there is something to pull, and the next save takes back a push
  that nobody saw. The answer to "Record the loaded commit" (392) is recorded
  also when it comes after a save or a pull has recorded a newer one.
* `LatexEditor.tsx` 424-436: a pull that could not refresh, or not read some of the
  files (`latexProject.ts` 161-192 swallows both), merges what it has, records the
  head and takes the badge away.
* `LatexEditor.tsx`: what is typed between the merge and the new editor pane
  replaces the merged buffer by the old document. The run has the user
  wait for that step, and write while the remote text is loaded.
* `useProject.ts` 232-235: changes are kept "until the server confirms them", and
  given up after six reads. A read that fails is not scheduled again
  (270-272). A created issue that is toggled at once flips back, a second toggle
  that fails discards the first expectation, and an answer that was overtaken
  replaces a newer one.
* `PdfDocumentViewer.tsx`: the dots of a search stay when the query is cleared
  under it; a search that ends after its box was closed still jumps; a page
  number out of range stays in its field, where line 459 says otherwise.
* `NewRelease.tsx` 152, "any prior acknowledgement no longer applies": a path that
  is edited and submitted within the half second of its debounce carries the
  acknowledgement of the one before (`early`). A late answer fills the fields
  after the mode was switched, and a canceled dialog opens with the success
  screen of its last release.
* The dialogs with a `gap`: the form for a new organization invalidates `orgs`
  where the page reads `orgs-all`; a pull invalidates the status and not the
  pipeline; editing a project, and saving in the LaTeX editor, leave queries stale that
  are not fetched on mount; `repro-check` has no reader. Ctrl+Enter submits a
  question that is pending. A new token's dialog that is closed by its X while the
  request is pending can be submitted again. A share link that is minted after its dialog was
  closed is shown at the next opening; a token that is minted after its dialog was
  closed is never shown.

## 4. What is proved

The theorems hold for every value of the constants that satisfies the named
`ASSUME`s (lifetimes are naturals with the grace window shorter than the
refresh token's; the "no such thing" constants are not members of the sets).
Each rests on an invariant of its `Proofs` module (`IInv`, or one per part),
because the property itself says nothing about calls under way and so is not
inductive.

* `BrowserSessionProofs`. Of the server: `GraceIsBounded` and `RefusalsAreFinal`. The
  invariant adds what the row lock gives (`LockHolds`): a call past its checks
  sees the expiry that is in the table, its token has not been refused, and no
  other call is past its checks with the same token. `Bookkeeping` adds that a
  refused token is inactive or expired for good.
  Of the browser: `BrowserImplementsServer`, that the composition
  implements `RefreshTokens`, step by step, and `BrowserGraceIsBounded`, which
  follows. The step needs the server's `IInv`, since a tab presents the token
  it has in storage and the server's specification only allows one that was
  issued. `NobodyIsStranded` and `BrowserTypeCorrect`: what a call brings was not
  in storage before and has not been redeemed (`BringsUnused`), and the answer that
  replaces a redeemed token in storage has a caller (`StorageInv`).
  `LosersLogNobodyOut` adds that storage holds both tokens of one pair or one of
  them, that a call whose tab still waits carries the refresh token of the pair
  its tab saw (`SentWithPrior`), and that a 401 is for a token that was refused
  (`LoserInv`); so the tab that clears the tokens clears those.
* `DeviceLoginProofs`: `OnePair` and `SpentCodesStaySpent`. The invariant: a poll
  that is minting holds a row that is still there, no two of them hold the same,
  and a row that is still there has not been redeemed.
* `ProjectRequestsProofs`. Of the access: `LinksAreBounded`, and `GrantsAreBounded`,
  that no sequence of grants makes an admin, legacy links with the role admin
  included (`NativeAtMostWrite`). The invariant: one redemption of a link at a time,
  and the link has a use left until it commits; the roles are at most write.
  `RevokedLinksStaySo`, `RolesOutliveAnswers` and `RemovedStayOut` need two facts more.
  A redemption under way is of a link that is not revoked, since the revocation waits
  for the row (`RedeemsUnrevoked`). And a row says what was granted and who was removed
  (`RowsAccounted`): one with a native role was granted, one that is missing says nothing,
  and of who was removed there is a row, whose cached permission is none. So an
  answer of GitHub that comes late finds a row, and is not stored.
  Of the uploads: `AnsweredPutsArePushed`, `LockedPathsStay`, `NoPushReverts` and
  `UploadsTypeCorrect`, for any number of users, paths and requests. What a checkout
  holds came from GitHub or from puts of its user to that path (`Known`, `Unwritten`);
  a text that was at GitHub is not staged, written or committed anew (`NotAgain`);
  and where GitHub would take a push, HEAD differs from the branch in texts that
  it never had (`Abreast`). So a push brings new texts only. A put that is not
  overtaken is where its state says, in the working tree, the index or HEAD, or was
  swept away before its commit (`Follows`); so what it pushes is its own. What is at
  GitHub, or under way, for a path that is locked was there when the lock was taken
  (`LockedPuts`). `RequestsAreOfBothGroups` carries both groups over to the
  specification that the run checks.
* `CredentialsProofs`: `RefreshesKeepTheCredential`, `WorkingCredentialsStay` and
  `DisconnectedStaysSo`, under one assumption, `Locking`, with any number of calls and
  of migrations under way. The invariant `IInv`: a call that holds the row finds it as
  it was when it was loaded (`Held`), and no two hold it (`Exclusive`); only a call that
  came from a migration refreshes without holding it (`Unheld`), and then with the
  token of the legacy table, which is excused (`LegacyExcused`). What calls were granted
  are distinct tokens that are alive or excused (`Granted`, `Distinct`), and one that is
  refused has a dead token (`Refused`). Without `Locking` the last two theorems
  are false, as is said above of Google.
* `ReleasesProofs`: `StoresStayTogether`, `NoPushLosesAnEntry`, `ReleasedOnce` and
  `TypeCorrect`, for any number of users, names and requests, on the condition
  `~Overlap`. The invariant follows what a push can contain. A checkout differs
  from what was fetched only in the name of the request at work in it
  (`Leftovers`; torn names aside), and what was fetched is what is at GitHub if
  GitHub would take a push (`UpToDate`), so a push changes one name. Between the
  push and the commit the request accounts for the difference (`Accounted`,
  `Pushed`), and no other request can: the unique index keeps two creations of a
  name apart (`Holders`), and a deletion needs the row (`LiveRow`). For
  `ReleasedOnce`, `Alone` adds that what a creation has checked stays true as long as
  its checkout is up to date, which it is when it pushes.
  `ReleasesKeepTheLedger` is the refinement of `ReleaseLedger`, under the same
  condition: the initial states map to its initial state, and every step to
  one of its steps or a stutter, with one lemma for the push, one for the two commits
  and one for the steps that change nothing the mapping sees. It
  needs the invariants above, `Alone` for the guards of `Publish`, and `DropsInternal`:
  an entry that a deletion is about to drop was an internal one when the checkout
  was fetched.
* `SessionPartsProofs`, one invariant for each of three parts, and `SignInTypeCorrect`,
  for a finite set of tabs.
  `NewestFlowStaysOpen`: while the newest flow is open and has not raced, every
  finish past its check is of that flow (`FinishesNewest`), and one that has
  exchanged its token knows it is spent (`SpentOnceExchanged`).
  `ToldObjectsStay`: an object that nothing has torn has one upload under way
  (`AloneOnObject`), so what it found to match is what it renames
  (`MatchedIsGood`, `CopiedIsIntact`). `InvitesAreKept`: `post_login_redirect` is set
  only while nobody is logged in (`VisitorHasRedirect`), and a tab that has reached
  the invite has no request behind it whose answer could navigate away
  (`JoinWaitsForNothing`). `GoogleDoesAsAsked`: the page that is shown, unless somebody
  logged in or out since, tells whether somebody is logged in (`PagesKnowSession`);
  a flow begun on it is thus for the purpose that its answer will be used for, until
  somebody logs in or out (`FlowsKnowSession`); and the state of a flow is kept only
  until its code is sent (`StatesUnspent`), so it is sent once, though the page
  is loaded again. `PartsAreApart` carries all of them over to the run's specification.
* `PublicationPageProofs`. Of the editor, where the user waits for saves and pulls
  (`~Overlap`; `latex_pull` shows what happens otherwise): `EditsAreKept`,
  `AncestorsWereCommitted`, `PullsKeepEdits` and `SeenPushesAreKept`, for any number of
  files, edits and commits. The invariant: the pane shows the buffer until a merge
  (`PaneIsBuffer`); what is unsaved is in neither the ancestor nor the branch
  (`UnsavedApart`); nothing was taken out of the branch since the commit of the
  checkout, since every put goes through it (`CheckoutIsThere`), so what a pull has
  loaded is still there (`LoadedIsThere`); of
  a save that puts its files one by one those it is done with are at origin as
  they are here (`SavedSoFar`), which is what the ancestor becomes if the save
  ends; and no edit of others is in the ancestor and missing from the buffer
  (`OthersKept`), so a save takes back nothing that was merged.
  Of the comments: `PanelIsTrue` and `ThreadsAreInStep`. What the panel has, or
  a read under way has loaded, lacks only the change that is being made
  (`PanelFollows`, unless `outdated`), and an issue that was turned after GitHub told of
  it is of a thread that counts as adrift (`AnswersAge`). `PageTypes` and
  `PageHasBothParts` are about the composition.
* `ProjectViewsProofs`: `PreviewImplementsService`, the initial states and steps
  of the refinement, from what is cached being the outcome of its key and
  what is awaited being the request (`CacheIsOfKey`, `Awaiting`);
  `StaleReleasesAcknowledged`, from a ticked box belonging to the path in the field
  or to one whose debounce is running (`AckIsOfPath`), and a post carrying what
  was ticked (`PostIsAcknowledged`); `MatchesAreOfQuery`, from the numbers of searches
  being their own and the latest one being of the query in the box (`OfQuery`).
  `IssuesShownAsExpected` is about lists of GitHub in the order they were read: an issue
  in one of them is in all later ones (`ListsInOrder`), and one on the page that was
  not created there is in every list to come (`ListedForGood`), so that an
  expectation about it is met or kept. `ListsShowChanges` is about any of the dialogs:
  `EveryKeyIsAPrefix` goes through the table and finds that each but the two gaps
  invalidates the query that shows its change, and what a list lacks is then still to
  be answered, and will invalidate (`ListFollows`). `ViewsAreApart` and `ViewTypes` are
  about the composition.

Model-checked only: liveness, which is out of the prover's reach under fairness
(`SilentRefreshSettles`, `PollingEnds`, `PreviewCatchesUp`, `ShownListSettles` and the
fairness of `ImplementsService`). Every other property of a passing run is a theorem.

To run: `tlc -config MCSessionParts.cfg MCSessionParts` (and so on; `latex_pull` is
`tlc -config MCLatexEditorOverlap.cfg LatexEditor`) and
`tlapm BrowserSessionProofs.tla`.

## 5. The plan

Twelve runs are what this project wants to keep at a time; a new component
takes the place of a weaker run, and the runs of one module share an instance
where that is affordable.

1. **Checkouts.** What `ContentUploads` leaves out of them: the first clone and a
   clone that is killed half way, the TTL, refreshes at a ref. `Releases` would then
   take its steps on a checkout from there, and lose the condition `~Overlap` where
   it can.
2. **Share tokens and notifications.** What a share token grants while its
   release is read, its grace expiry, the anonymous comment; a mention that
   becomes a notification and an email.
3. **Organizations, subscriptions and the pipeline.** `Seats`: members and
   discount codes. `ProjectAccess` with org roles and the anonymous reader.
   `Pipeline`: staleness as a recursive function, compared with a reference
   definition over bounded graphs.
4. **More proofs**: of the uploads, an abstract file store that takes and answers
   puts at once, which `ContentUploads` implements but for what was overtaken; and of
   the editor with `Overlap`, what is left of `UnsavedKept`.

### Not modelled, and not planned

Rendering, routing and the layout of the frontend; search; email and analytics;
reading and formatting what a checkout holds; Stripe, whose webhook changes no
state here; signed URLs; generated migrations; Overleaf and publication imports,
one long request each over two Git repositories.

The map covers about an eighth of the TypeScript and JavaScript lines. Of the
55.6 thousand, 24.5 are generated or bundled (the API client and its schemas, the
route tree, busytex), and most of the others say how things look: a dialog
of three hundred lines has some thirty in which its state changes, and these are
what is mapped. The Python of the backend, where most of the modules are, is not
among those lines.

Some hazards that were found are not in the list of `PROJECT.json`, which keeps
the ones a property could tell: what comes late in `auth.ts` (87, 121) and
`useAuth.ts` (53); the cached answer of GitHub (`projects.py` 140) and the
collaborator that is added there while the worker dies (`core.py` 4437); two
users who authorize one code (`login.py` 744); the quota that is compared before
an upload (`dvc.py` 68); seats (`orgs.py` 260) and months (`users.py` 291). Three are in
the list without a property, all disagreements above: the HEAD that is left on no
branch (`git.py` 344), which `ContentUploads` reaches and nothing repairs, the
redemption that writes over a higher role (`core.py` 4781), and the head that is
recorded as seen though its text was not loaded (`LatexEditor.tsx` 357).
