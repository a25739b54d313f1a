---------------------------- MODULE ReleasesProofs ----------------------------
(***************************************************************************)
(* Requests of one user do not overlap: then, for any number of users,     *)
(* names and requests, nothing but the failures recorded in torn parts the *)
(* release table from calkit.yaml, and no push loses what others pushed.   *)
(***************************************************************************)
EXTENDS Releases, TLAPS

Busy(k) == call[k].op # "none"

(* What a request in each stage is known to be.                            *)
Shapes ==
    \A k \in Call :
        /\ Busy(k) => /\ call[k].st # "idle"
                      /\ call[k].user \in User /\ call[k].name \in Name
        /\ ~Busy(k) => call[k] = Idle
        /\ call[k].op = "create" => call[k].art \in Art
        /\ call[k].op \in {"declare", "delete"} => call[k].art = NoArt
        /\ call[k].st \in {"checked", "flushed"} => call[k].op = "create"
        /\ call[k].st = "pushed" => call[k].op # "declare"
        /\ call[k].stale => call[k].op = "delete"

(* One request at a time works in a checkout.                              *)
Own == \A j, k \in Call : Busy(j) /\ Busy(k) /\ call[j].user = call[k].user => j = k

(* A checkout that GitHub would take a push from knows what is there.      *)
UpToDate == \A u \in User : clone[u].fresh => clone[u].track = origin

(* A checkout differs from what was fetched in the name of the request     *)
(* that works in it, and in what a failure left there.                     *)
Writing(k, u, n) ==
    Busy(k) /\ call[k].user = u /\ call[k].name = n /\ call[k].st \in {"written", "committed"}

Clean(u, n) == clone[u].tree[n] = clone[u].track[n] /\ clone[u].head[n] = clone[u].track[n]

Leftovers ==
    \A u \in User, n \in Name \ torn :
        ~Clean(u, n) => \E k \in Call : Writing(k, u, n)

Content ==
    \A k \in Call :
        LET c == call[k] IN
        /\ c.st = "loaded" => c.seen = clone[c.user].tree
        /\ c.st = "written" => clone[c.user].tree[c.name] = NewEntry(c)
        /\ c.st = "committed" => /\ clone[c.user].head[c.name] = NewEntry(c)
                                 /\ clone[c.user].head = clone[c.user].tree

(* A request adds a name that was not there.                               *)
AddsNew ==
    \A k \in Call :
        /\ call[k].op \in {"create", "declare"}
        /\ call[k].st \in {"loaded", "written", "committed"}
        /\ call[k].name \notin torn
        => clone[call[k].user].track[call[k].name] = NoArt

(* The unique index: a row that is not committed yet is the only one.      *)
Holders ==
    /\ \A k \in Call : HoldsName(k) => row[call[k].name] = NoArt
    /\ \A j, k \in Call :
          HoldsName(j) /\ HoldsName(k) /\ call[j].name = call[k].name => j = k

(* Between its push and its commit a request accounts for the difference.  *)
Creating(k, n) == call[k].op = "create" /\ call[k].st = "pushed" /\ call[k].name = n
Deleting(k, n) ==
    /\ call[k].op = "delete" /\ call[k].st = "pushed" /\ call[k].name = n
    /\ ~call[k].stale

LiveRow == \A k \in Call : call[k].op = "delete" /\ ~call[k].stale => row[call[k].name] # NoArt

Pushed ==
    \A k \in Call, n \in Name \ torn :
        /\ Creating(k, n) => origin[n] = call[k].art
        /\ Deleting(k, n) => origin[n] \notin Art

Accounted ==
    \A n \in Name \ torn :
        /\ row[n] # NoArt /\ origin[n] # row[n] => \E k \in Call : Deleting(k, n)
        /\ row[n] = NoArt /\ origin[n] \in Art => \E k \in Call : Creating(k, n)

IInv == /\ TypeOK /\ Shapes /\ Own /\ UpToDate /\ Leftovers /\ Content /\ AddsNew
        /\ Holders /\ LiveRow /\ Pushed /\ Accounted

(* For OneReleasePerArtifact: what a creation has checked stays true as    *)
(* long as its checkout is up to date, and after its push.                 *)
Checked(k) ==
    /\ call[k].op = "create"
    /\ call[k].st \in {"checked", "flushed", "loaded", "written", "committed"}
    /\ clone[call[k].user].fresh

AloneChecked ==
    \A k \in Call, m \in Name \ torn :
        Checked(k) /\ m # call[k].name => origin[m] # call[k].art /\ row[m] # call[k].art

AlonePushed ==
    \A k \in Call, n, m \in Name \ torn :
        Creating(k, n) /\ m # n =>
            /\ row[m] # call[k].art
            /\ \A j \in Call : Creating(j, m) => call[j].art # call[k].art

Alone == AloneChecked /\ AlonePushed /\ OneReleasePerArtifact

-----------------------------------------------------------------------------

(* No entries are entries.                                                 *)
LEMMA NoneEntries == None \in Entries
  BY ReleasesAssumption DEF None, Entries

(* A request that is not under way is well typed.                          *)
LEMMA IdleType == Idle \in CallType
  BY NoneEntries, ReleasesAssumption DEF Idle, CallType

(* There are no releases and no requests at first.                         *)
LEMMA InvInit == Init => IInv /\ Alone
<1> SUFFICES ASSUME Init PROVE IInv /\ Alone
  OBVIOUS
<1> USE DEF Init
<1>1. TypeOK
  BY NoneEntries, IdleType DEF TypeOK, CloneType, CloneOf, None
<1>2. \A k \in Call : ~Busy(k) /\ call[k].st = "idle" /\ ~call[k].stale
  BY DEF Busy, Idle
<1>3. Shapes /\ Own
  BY <1>2 DEF Shapes, Own, Busy, Idle
<1>4. UpToDate /\ Leftovers
  BY DEF UpToDate, Leftovers, Clean, CloneOf
<1>5. Content /\ AddsNew /\ Holders
  BY <1>2 DEF Content, AddsNew, Holders, HoldsName
<1>6. LiveRow /\ Pushed /\ Accounted /\ Alone
  BY <1>2, ReleasesAssumption
     DEF LiveRow, Pushed, Accounted, Alone, AloneChecked, AlonePushed,
         OneReleasePerArtifact, Checked, Creating, Deleting, Busy, Idle, None
<1> QED
  BY <1>1, <1>3, <1>4, <1>5, <1>6 DEF IInv

(* What a step of one request does to the requests.                        *)
OthersSame(k) == \A j \in Call \ {k} : call'[j] = call[j]

SameButStage(k) ==
    /\ call'[k].op = call[k].op /\ call'[k].user = call[k].user
    /\ call'[k].name = call[k].name /\ call'[k].art = call[k].art
    /\ call'[k].stale = call[k].stale

(* A request goes to its next stage: only its stage changes.               *)
LEMMA GoesCall ==
  ASSUME TypeOK, NEW k \in Call, NEW st, Goes(k, st),
         st \in {"ready", "checked", "flushed", "committed", "pushed"}
  PROVE  /\ call' \in [Call -> CallType]
         /\ call'[k].st = st /\ SameButStage(k) /\ OthersSame(k)
<1>1. call[k] \in CallType
  BY DEF TypeOK
<1>2. [call[k] EXCEPT !.st = st] \in CallType
  BY <1>1 DEF CallType
<1> QED
  BY <1>1, <1>2 DEF TypeOK, Goes, SameButStage, OthersSame, CallType

(* A request ends.                                                         *)
LEMMA EndCall ==
  ASSUME TypeOK, NEW k \in Call, End(k)
  PROVE  call' \in [Call -> CallType] /\ call'[k] = Idle /\ OthersSame(k)
  BY IdleType DEF TypeOK, End, OthersSame

(* A request loads the file, or forgets what it loaded.                    *)
LEMMA LoadCall ==
  ASSUME TypeOK, NEW k \in Call, NEW e \in Entries, NEW st \in {"loaded", "written"},
         call' = [call EXCEPT ![k].st = st, ![k].seen = e]
  PROVE  /\ call' \in [Call -> CallType]
         /\ call'[k].st = st /\ call'[k].seen = e /\ SameButStage(k) /\ OthersSame(k)
<1>1. call[k] \in CallType
  BY DEF TypeOK
<1>2. [call[k] EXCEPT !.st = st, !.seen = e] \in CallType
  BY <1>1 DEF CallType
<1>3. call' = [call EXCEPT ![k] = [call[k] EXCEPT !.st = st, !.seen = e]]
  OBVIOUS
<1> QED
  BY <1>1, <1>2, <1>3 DEF TypeOK, SameButStage, OthersSame, CallType

(* The requests after a step that changes the stage of one of them.        *)
StageOnly(k) == call' \in [Call -> CallType] /\ SameButStage(k) /\ OthersSame(k)

(* What stays of every request when one changes its stage.                 *)
LEMMA StageFacts ==
  ASSUME NEW k \in Call, StageOnly(k)
  PROVE  \A j \in Call :
           /\ Busy(j)' = Busy(j) /\ call'[j].op = call[j].op
           /\ call'[j].user = call[j].user /\ call'[j].name = call[j].name
           /\ call'[j].art = call[j].art /\ call'[j].stale = call[j].stale
           /\ j # k => call'[j] = call[j]
  BY DEF StageOnly, SameButStage, OthersSame, Busy

(* A checkout is clean where its own request has not written.              *)
LEMMA OwnClean ==
  ASSUME IInv, NEW k \in Call, Busy(k), NEW n \in Name \ torn,
         call[k].st \in {"written", "committed"} => call[k].name # n
  PROVE  Clean(call[k].user, n)
<1>1. \A j \in Call : ~Writing(j, call[k].user, n)
  BY DEF IInv, Own, Writing
<1> QED
  BY <1>1 DEF IInv, Leftovers, Shapes

(* A step of a request that has not written yet keeps the invariant.       *)
LEMMA QuietStep ==
  ASSUME IInv, NEW k \in Call, StageOnly(k), Busy(k),
         call[k].st \in {"begun", "ready", "checked", "flushed"},
         call'[k].st \in {"ready", "checked", "flushed", "loaded"},
         call'[k].st \in {"checked", "flushed"} => call[k].op = "create",
         call'[k].st = "loaded" => /\ call'[k].seen = Tree(k)
                                   /\ call[k].op # "delete" => Tree(k)[call[k].name] = NoArt,
         HoldsName(k)' => HoldsName(k) \/
             /\ row[call[k].name] = NoArt
             /\ ~\E j \in Call : HoldsName(j) /\ call[j].name = call[k].name,
         UNCHANGED <<row, origin, clone, torn>>
  PROVE  IInv'
<1>0. \A j \in Call :
        /\ Busy(j)' = Busy(j) /\ call'[j].op = call[j].op
        /\ call'[j].user = call[j].user /\ call'[j].name = call[j].name
        /\ call'[j].art = call[j].art /\ call'[j].stale = call[j].stale
        /\ j # k => call'[j] = call[j]
  BY StageFacts
<1>1. TypeOK'
  BY DEF IInv, TypeOK, StageOnly
<1>2. Shapes'
  BY <1>0 DEF IInv, Shapes, Busy
<1>3. Own' /\ UpToDate'
  BY <1>0 DEF IInv, Own, UpToDate
<1>4. Leftovers'
  <2>1. \A j \in Call, u \in User, n \in Name : Writing(j, u, n) => Writing(j, u, n)'
    BY <1>0 DEF Writing
  <2> QED
    BY <2>1 DEF IInv, Leftovers, Clean
<1>5. Content'
  BY <1>0 DEF IInv, Content, NewEntry, Tree
<1>6. AddsNew'
  <2>1. CASE call'[k].st = "loaded" /\ call[k].op # "delete" /\ call[k].name \notin torn
    <3>1. call[k].name \in Name
      BY DEF IInv, Shapes
    <3>2. Clean(call[k].user, call[k].name)
      BY <2>1, <3>1, OwnClean
    <3> QED
      BY <1>0, <2>1, <3>2 DEF IInv, AddsNew, Clean, Tree
  <2>2. CASE ~(call'[k].st = "loaded" /\ call[k].op # "delete" /\ call[k].name \notin torn)
    BY <1>0, <2>2 DEF IInv, AddsNew
  <2> QED
    BY <2>1, <2>2
<1>7. Holders'
  BY <1>0 DEF IInv, Holders, HoldsName
<1>8. LiveRow'
  BY <1>0 DEF IInv, LiveRow
<1>9. \A j \in Call, n \in Name : /\ Creating(j, n)' = Creating(j, n)
                                  /\ Deleting(j, n)' = Deleting(j, n)
  BY <1>0 DEF Creating, Deleting
<1>10. Pushed' /\ Accounted'
  BY <1>0, <1>9 DEF IInv, Pushed, Accounted
<1> QED
  BY <1>1, <1>2, <1>3, <1>4, <1>5, <1>6, <1>7, <1>8, <1>10 DEF IInv

(* The steps before a request writes.                                      *)
LEMMA BeforeWriting ==
  ASSUME IInv, NEW k \in Call,
         \/ RefreshSkipped(k) \/ Check(k) \/ Flush(k)
         \/ LoadForAdding(k) \/ LoadForDeleting(k)
  PROVE  IInv'
<1>0. TypeOK /\ (Busy(k) \/ call[k].st = "idle") /\ (Busy(k) => call[k].user \in User)
  BY DEF IInv, Shapes, Idle
<1>1. CASE RefreshSkipped(k)
  <2>1. StageOnly(k) /\ call'[k].st = "ready"
    BY <1>0, <1>1, GoesCall DEF RefreshSkipped, StageOnly
  <2> QED
    BY <1>0, <1>1, <2>1, QuietStep DEF RefreshSkipped, HoldsName
<1>2. CASE Check(k)
  <2>1. StageOnly(k) /\ call'[k].st = "checked"
    BY <1>0, <1>2, GoesCall DEF Check, StageOnly
  <2> QED
    BY <1>0, <1>2, <2>1, QuietStep DEF Check, HoldsName
<1>3. CASE Flush(k)
  <2>1. StageOnly(k) /\ call'[k].st = "flushed"
    BY <1>0, <1>3, GoesCall DEF Flush, StageOnly
  <2>2. call[k].op = "create"
    BY <1>3 DEF Flush, IInv, Shapes
  <2> QED
    BY <1>0, <1>3, <2>1, <2>2, QuietStep DEF Flush
<1>4. CASE LoadForAdding(k) \/ LoadForDeleting(k)
  <2>1. /\ call[k].st = IF call[k].op = "create" THEN "flushed" ELSE "ready"
        /\ call' = [call EXCEPT ![k].st = "loaded", ![k].seen = Tree(k)]
        /\ UNCHANGED <<row, origin, clone, torn>>
    BY <1>4 DEF LoadForAdding, LoadForDeleting, Ready
  <2>2. Tree(k) \in Entries
    BY <1>0, <2>1 DEF TypeOK, Tree, CloneType
  <2>3. StageOnly(k) /\ call'[k].st = "loaded" /\ call'[k].seen = Tree(k)
    BY <1>0, <2>1, <2>2, LoadCall DEF StageOnly
  <2>4. call[k].op # "delete" => Tree(k)[call[k].name] = NoArt
    BY <1>4 DEF LoadForAdding, LoadForDeleting
  <2>5. HoldsName(k)' => HoldsName(k)
    BY <2>1, <2>3 DEF HoldsName, StageOnly, SameButStage
  <2> QED
    BY <1>0, <2>1, <2>3, <2>4, <2>5, QuietStep
<1> QED
  BY <1>1, <1>2, <1>3, <1>4

(* A request begins.                                                       *)
LEMMA BeginStep ==
  ASSUME IInv, ~Overlap, NEW k \in Call, NEW u \in User, NEW n \in Name,
         NEW op \in {"create", "declare", "delete"}, NEW a \in Art \cup {NoArt},
         op = "create" <=> a \in Art, op = "delete" => row[n] # NoArt,
         Begin(k, op, u, n, a)
  PROVE  IInv'
<1> DEFINE new == [Idle EXCEPT !.op = op, !.st = "begun", !.user = u, !.name = n, !.art = a]
<1>1. new \in CallType /\ new.op = op /\ new.st = "begun" /\ new.user = u
      /\ new.name = n /\ new.art = a /\ ~new.stale
  BY NoneEntries DEF Idle, CallType
<1>2. /\ call' \in [Call -> CallType] /\ call'[k] = new
      /\ \A j \in Call \ {k} : call'[j] = call[j]
  BY <1>1 DEF Begin, IInv, TypeOK
<1>3. /\ ~Busy(k) /\ call[k] = Idle /\ call[k].st = "idle"
      /\ \A j \in Call : call[j].user # u
      /\ UNCHANGED <<row, origin, clone, torn>>
  BY DEF Begin, Idle, Busy
<1> HIDE DEF new
<1>4. TypeOK'
  BY <1>2, <1>3 DEF IInv, TypeOK
<1>5. Shapes'
  BY <1>1, <1>2, <1>3, ReleasesAssumption DEF IInv, Shapes, Busy
<1>6. Own' /\ UpToDate'
  BY <1>1, <1>2, <1>3 DEF IInv, Own, UpToDate, Busy
<1>7. Leftovers'
  <2>1. \A j \in Call, v \in User, m \in Name : Writing(j, v, m) => Writing(j, v, m)'
    BY <1>2, <1>3 DEF Writing, Busy
  <2> QED
    BY <1>3, <2>1 DEF IInv, Leftovers, Clean
<1>8. Content' /\ AddsNew'
  BY <1>1, <1>2, <1>3 DEF IInv, Content, AddsNew, NewEntry
<1>9. Holders' /\ LiveRow'
  BY <1>1, <1>2, <1>3 DEF IInv, Holders, HoldsName, LiveRow
<1>10. \A j \in Call, m \in Name : /\ Creating(j, m)' = Creating(j, m)
                                   /\ Deleting(j, m)' = Deleting(j, m)
                                   /\ Creating(j, m) => call'[j].art = call[j].art
  BY <1>1, <1>2, <1>3 DEF Creating, Deleting, Busy
<1>11. Pushed' /\ Accounted'
  BY <1>3, <1>10 DEF IInv, Pushed, Accounted
<1> QED
  BY <1>4, <1>5, <1>6, <1>7, <1>8, <1>9, <1>11 DEF IInv

(* What a step leaves of the checkouts of the other requests, if it        *)
(* changes nothing but the checkout of its own user.                       *)
LEMMA OthersUntouched ==
  ASSUME IInv, NEW k \in Call, Busy(k),
         \A v \in User : v # call[k].user => clone'[v] = clone[v]
  PROVE  \A j \in Call \ {k} : call[j].st \in {"loaded", "written", "committed"}
            => clone'[call[j].user] = clone[call[j].user]
<1> TAKE j \in Call \ {k}
<1> HAVE call[j].st \in {"loaded", "written", "committed"}
<1>1. Busy(j) /\ call[j].user \in User
  BY DEF IInv, Shapes, Idle
<1> QED
  BY <1>1 DEF IInv, Own

(* The checkout is refreshed: it is what is at GitHub.                     *)
LEMMA RefreshStep ==
  ASSUME IInv, NEW k \in Call, Refresh(k)
  PROVE  IInv'
<1>a. Busy(k) /\ call[k].user \in User /\ call[k].st = "begun"
  BY DEF IInv, Shapes, Refresh, Idle
<1> PICK u \in User : u = call[k].user
  BY <1>a
<1>0. Busy(k) /\ u = call[k].user /\ call[k].st = "begun"
  BY <1>a
<1>1. StageOnly(k) /\ call'[k].st = "ready" /\ UNCHANGED <<row, origin, torn>>
  BY GoesCall DEF IInv, Refresh, StageOnly
<1>2. \A j \in Call :
        /\ Busy(j)' = Busy(j) /\ call'[j].op = call[j].op
        /\ call'[j].user = call[j].user /\ call'[j].name = call[j].name
        /\ call'[j].art = call[j].art /\ call'[j].stale = call[j].stale
        /\ j # k => call'[j] = call[j]
  BY <1>1, StageFacts
<1>3. CloneOf(origin) \in CloneType
  BY DEF IInv, TypeOK, CloneOf, CloneType
<1>4. /\ clone' \in [User -> CloneType] /\ clone'[u] = CloneOf(origin)
      /\ \A v \in User \ {u} : clone'[v] = clone[v]
  BY <1>0, <1>3 DEF IInv, TypeOK, Refresh
<1>5. TypeOK' /\ Shapes' /\ Own'
  BY <1>0, <1>1, <1>2, <1>4 DEF IInv, TypeOK, Shapes, Own, StageOnly, Busy
<1>6. UpToDate'
  BY <1>1, <1>4 DEF IInv, UpToDate, CloneOf
<1>7. Leftovers'
  <2>1. \A n \in Name : Clean(u, n)'
    BY <1>4 DEF Clean, CloneOf
  <2>2. \A v \in User \ {u}, n \in Name : Clean(v, n)' = Clean(v, n)
    BY <1>4 DEF Clean
  <2>3. \A j \in Call, v \in User, m \in Name : Writing(j, v, m) => Writing(j, v, m)'
    BY <1>0, <1>2 DEF Writing
  <2> QED
    BY <1>1, <2>1, <2>2, <2>3 DEF IInv, Leftovers
<1>8. \A j \in Call \ {k} : call[j].st \in {"loaded", "written", "committed"}
        => clone'[call[j].user] = clone[call[j].user]
  BY <1>0, <1>4, OthersUntouched
<1>9. Content' /\ AddsNew'
  BY <1>1, <1>2, <1>8 DEF IInv, Content, AddsNew, NewEntry
<1>10. Holders' /\ LiveRow'
  BY <1>0, <1>1, <1>2 DEF IInv, Holders, HoldsName, LiveRow
<1>11. \A j \in Call, m \in Name : /\ Creating(j, m)' = Creating(j, m)
                                   /\ Deleting(j, m)' = Deleting(j, m)
  BY <1>0, <1>1, <1>2 DEF Creating, Deleting
<1>12. Pushed' /\ Accounted'
  BY <1>1, <1>2, <1>11 DEF IInv, Pushed, Accounted
<1> QED
  BY <1>5, <1>6, <1>7, <1>9, <1>10, <1>12 DEF IInv

(* A deletion that finds nothing to drop.                                  *)
LEMMA NothingToDeleteStep ==
  ASSUME IInv, NEW k \in Call, NothingToDelete(k)
  PROVE  IInv'
<1> DEFINE u == call[k].user
           n == call[k].name
<1>0. Busy(k) /\ u \in User /\ n \in Name /\ call[k].st = "ready" /\ call[k].op = "delete"
  BY DEF IInv, Shapes, NothingToDelete, Ready, Busy
<1>1. StageOnly(k) /\ call'[k].st = "pushed" /\ UNCHANGED <<row, origin, clone>>
  BY GoesCall DEF IInv, NothingToDelete, StageOnly
<1>2. \A j \in Call :
        /\ Busy(j)' = Busy(j) /\ call'[j].op = call[j].op
        /\ call'[j].user = call[j].user /\ call'[j].name = call[j].name
        /\ call'[j].art = call[j].art /\ call'[j].stale = call[j].stale
        /\ j # k => call'[j] = call[j]
  BY <1>1, StageFacts
<1>3. torn' \in SUBSET Name /\ torn \subseteq torn' /\ (n \notin torn' => clone[u].fresh)
  BY <1>0 DEF IInv, TypeOK, NothingToDelete, Tears
<1>4. n \notin torn' => origin[n] \notin Art
  <2>1. ASSUME n \notin torn' PROVE origin[n] \notin Art
    <3>1. Clean(u, n) /\ clone[u].track = origin
      BY <1>0, <1>3, <2>1, OwnClean DEF IInv, UpToDate
    <3> QED
      BY <3>1 DEF NothingToDelete, Tree, Clean
  <2> QED BY <2>1
<1>5. TypeOK' /\ Shapes' /\ Own' /\ UpToDate'
  BY <1>0, <1>1, <1>2, <1>3 DEF IInv, TypeOK, Shapes, Own, UpToDate, StageOnly, Busy
<1>6. Leftovers'
  <2>1. \A j \in Call, v \in User, m \in Name : Writing(j, v, m) => Writing(j, v, m)'
    BY <1>0, <1>2 DEF Writing
  <2> QED
    BY <1>1, <1>3, <2>1 DEF IInv, Leftovers, Clean
<1>7. Content' /\ AddsNew'
  BY <1>0, <1>1, <1>2, <1>3 DEF IInv, Content, AddsNew, NewEntry
<1>8. Holders' /\ LiveRow'
  BY <1>0, <1>1, <1>2 DEF IInv, Holders, HoldsName, LiveRow
<1>9. \A j \in Call, m \in Name : /\ Creating(j, m)' = Creating(j, m)
                                  /\ Deleting(j, m) => Deleting(j, m)'
                                  /\ Deleting(j, m)' => Deleting(j, m) \/ m = n
  BY <1>0, <1>1, <1>2 DEF Creating, Deleting
<1>10. Pushed' /\ Accounted'
  BY <1>1, <1>2, <1>3, <1>4, <1>9 DEF IInv, Pushed, Accounted
<1> QED
  BY <1>5, <1>6, <1>7, <1>8, <1>10 DEF IInv

(* Shapes, Own, Holders and LiveRow are about the requests and the table:  *)
(* they survive the end of a request, and one that goes a stage further.   *)
LEMMA EndKeeps ==
  ASSUME IInv, NEW k \in Call, End(k), UNCHANGED row
  PROVE  /\ call' \in [Call -> CallType]
         /\ call'[k] = Idle /\ ~Busy(k)' /\ \A j \in Call \ {k} : call'[j] = call[j]
         /\ Shapes' /\ Own' /\ Holders' /\ LiveRow'
<1>1. /\ call' \in [Call -> CallType]
      /\ call'[k] = Idle /\ \A j \in Call \ {k} : call'[j] = call[j]
  BY EndCall DEF IInv, OthersSame
<1>2. ~Busy(k)'
  BY <1>1 DEF Busy, Idle
<1>3. Shapes'
  BY <1>1 DEF IInv, Shapes, Busy, Idle
<1>4. Own'
  BY <1>1, <1>2 DEF IInv, Own, Busy
<1>5. Holders' /\ LiveRow'
  BY <1>1 DEF IInv, Holders, HoldsName, LiveRow, Idle
<1> QED
  BY <1>1, <1>2, <1>3, <1>4, <1>5

(* The same for a request that goes a stage further.                       *)
LEMMA StageKeeps ==
  ASSUME IInv, NEW k \in Call, Busy(k), StageOnly(k), UNCHANGED row,
         call'[k].st \in {"written", "committed", "pushed"},
         call[k].st \in {"loaded", "written", "committed"},
         call'[k].st = "pushed" => call[k].op # "declare"
  PROVE  Shapes' /\ Own' /\ Holders' /\ LiveRow'
<1>1. \A j \in Call :
        /\ Busy(j)' = Busy(j) /\ call'[j].op = call[j].op
        /\ call'[j].user = call[j].user /\ call'[j].name = call[j].name
        /\ call'[j].art = call[j].art /\ call'[j].stale = call[j].stale
        /\ j # k => call'[j] = call[j]
  BY StageFacts
<1>2. Shapes' /\ Own'
  BY <1>1 DEF IInv, Shapes, Own
<1>3. \A j \in Call : HoldsName(j)' = HoldsName(j)
  BY <1>1 DEF HoldsName
<1> QED
  BY <1>1, <1>2, <1>3 DEF IInv, Holders, LiveRow

(* Writing the file and committing it change the checkout of one user.     *)
LEMMA WriteFileStep ==
  ASSUME IInv, NEW k \in Call, WriteFile(k)
  PROVE  IInv'
<1>a. Busy(k) /\ call[k].user \in User /\ call[k].name \in Name /\ call[k].st = "loaded"
  BY DEF IInv, Shapes, WriteFile, Idle
<1> PICK u \in User : u = call[k].user
  BY <1>a
<1> PICK n \in Name : n = call[k].name
  BY <1>a
<1>0. Busy(k) /\ u = call[k].user /\ n = call[k].name /\ call[k].st = "loaded"
  BY <1>a
<1>1. StageOnly(k) /\ call'[k].st = "written" /\ UNCHANGED <<row, origin, torn>>
  BY NoneEntries, LoadCall DEF IInv, WriteFile, StageOnly
<1>2. \A j \in Call :
        /\ Busy(j)' = Busy(j) /\ call'[j].op = call[j].op
        /\ call'[j].user = call[j].user /\ call'[j].name = call[j].name
        /\ call'[j].art = call[j].art /\ call'[j].stale = call[j].stale
        /\ j # k => call'[j] = call[j]
  BY <1>1, StageFacts
<1>3. Shapes' /\ Own' /\ Holders' /\ LiveRow'
  BY <1>0, <1>1, StageKeeps
<1>4. call[k] \in CallType /\ clone[u] \in CloneType
  BY DEF IInv, TypeOK
<1>5. NewEntry(call[k]) \in Art \cup {External, NoArt} /\ call[k].seen = clone[u].tree
  BY <1>0, <1>4 DEF IInv, Content, NewEntry, CallType
<1> DEFINE tree == [clone[u].tree EXCEPT ![n] = NewEntry(call[k])]
<1>6. tree \in Entries
  BY <1>4, <1>5 DEF CloneType, Entries
<1>7. /\ clone'[u] = [clone[u] EXCEPT !.tree = tree]
      /\ clone' = [clone EXCEPT ![u] = [clone[u] EXCEPT !.tree = tree]]
  BY <1>0, <1>5 DEF WriteFile, IInv, TypeOK
<1>8. [clone[u] EXCEPT !.tree = tree] \in CloneType
  BY <1>4, <1>6 DEF CloneType
<1>9. /\ clone' \in [User -> CloneType]
      /\ clone'[u].fresh = clone[u].fresh /\ clone'[u].track = clone[u].track
      /\ clone'[u].head = clone[u].head /\ clone'[u].tree = tree
      /\ \A v \in User \ {u} : clone'[v] = clone[v]
  BY <1>4, <1>7, <1>8 DEF IInv, TypeOK, CloneType
<1>10. /\ tree[n] = NewEntry(call[k])
       /\ \A m \in Name \ {n} : tree[m] = clone[u].tree[m]
  BY <1>4 DEF CloneType, Entries
<1> HIDE DEF tree
<1>11. TypeOK' /\ UpToDate'
  BY <1>1, <1>9 DEF IInv, TypeOK, UpToDate, StageOnly
<1>12. Leftovers'
  <2>1. \A v \in User, m \in Name : v # u \/ m # n => Clean(v, m)' = Clean(v, m)
    BY <1>9, <1>10 DEF Clean
  <2>2. \A j \in Call, v \in User, m \in Name : Writing(j, v, m) => Writing(j, v, m)'
    BY <1>0, <1>2 DEF Writing
  <2>3. Writing(k, u, n)'
    BY <1>0, <1>1, <1>2 DEF Writing
  <2> QED
    BY <1>1, <2>1, <2>2, <2>3 DEF IInv, Leftovers
<1>13. \A j \in Call \ {k} : call[j].st \in {"loaded", "written", "committed"}
        => clone'[call[j].user] = clone[call[j].user]
  BY <1>0, <1>9, OthersUntouched
<1>14. Content' /\ AddsNew'
  BY <1>0, <1>1, <1>2, <1>9, <1>10, <1>13 DEF IInv, Content, AddsNew, NewEntry
<1>15. \A j \in Call, m \in Name : /\ Creating(j, m)' = Creating(j, m)
                                   /\ Deleting(j, m)' = Deleting(j, m)
  BY <1>0, <1>1, <1>2 DEF Creating, Deleting
<1>16. Pushed' /\ Accounted'
  BY <1>1, <1>2, <1>15 DEF IInv, Pushed, Accounted
<1> QED
  BY <1>3, <1>11, <1>12, <1>14, <1>16 DEF IInv

(* The commit takes the branch of the checkout to the file.                *)
LEMMA GitCommitStep ==
  ASSUME IInv, NEW k \in Call, GitCommit(k)
  PROVE  IInv'
<1>a. Busy(k) /\ call[k].user \in User /\ call[k].name \in Name /\ call[k].st = "written"
  BY DEF IInv, Shapes, GitCommit, Idle
<1> PICK u \in User : u = call[k].user
  BY <1>a
<1> PICK n \in Name : n = call[k].name
  BY <1>a
<1>0. Busy(k) /\ u = call[k].user /\ n = call[k].name /\ call[k].st = "written"
  BY <1>a
<1>1. StageOnly(k) /\ call'[k].st = "committed" /\ UNCHANGED <<row, origin, torn>>
  BY GoesCall DEF IInv, GitCommit, StageOnly
<1>2. \A j \in Call :
        /\ Busy(j)' = Busy(j) /\ call'[j].op = call[j].op
        /\ call'[j].user = call[j].user /\ call'[j].name = call[j].name
        /\ call'[j].art = call[j].art /\ call'[j].stale = call[j].stale
        /\ j # k => call'[j] = call[j]
  BY <1>1, StageFacts
<1>3. Shapes' /\ Own' /\ Holders' /\ LiveRow'
  BY <1>0, <1>1, StageKeeps
<1>4. clone[u] \in CloneType /\ [clone[u] EXCEPT !.head = clone[u].tree] \in CloneType
  BY DEF IInv, TypeOK, CloneType
<1>5. clone' = [clone EXCEPT ![u] = [clone[u] EXCEPT !.head = clone[u].tree]]
  BY <1>0 DEF GitCommit
<1>6. /\ clone' \in [User -> CloneType]
      /\ clone'[u].fresh = clone[u].fresh /\ clone'[u].track = clone[u].track
      /\ clone'[u].head = clone[u].tree /\ clone'[u].tree = clone[u].tree
      /\ \A v \in User \ {u} : clone'[v] = clone[v]
  BY <1>4, <1>5 DEF IInv, TypeOK, CloneType
<1>7. TypeOK' /\ UpToDate'
  BY <1>1, <1>6 DEF IInv, TypeOK, UpToDate, StageOnly
<1>8. Leftovers'
  <2>1. \A v \in User \ {u}, m \in Name : Clean(v, m)' = Clean(v, m)
    BY <1>6 DEF Clean
  <2>2. \A m \in Name : Clean(u, m) => Clean(u, m)'
    BY <1>6 DEF Clean
  <2>3. \A j \in Call, v \in User, m \in Name : Writing(j, v, m) => Writing(j, v, m)'
    BY <1>0, <1>1, <1>2 DEF Writing
  <2> QED
    BY <1>1, <2>1, <2>2, <2>3 DEF IInv, Leftovers
<1>9. \A j \in Call \ {k} : call[j].st \in {"loaded", "written", "committed"}
        => clone'[call[j].user] = clone[call[j].user]
  BY <1>0, <1>6, OthersUntouched
<1>10. Content' /\ AddsNew'
  BY <1>0, <1>1, <1>2, <1>6, <1>9 DEF IInv, Content, AddsNew, NewEntry
<1>11. \A j \in Call, m \in Name : /\ Creating(j, m)' = Creating(j, m)
                                   /\ Deleting(j, m)' = Deleting(j, m)
  BY <1>0, <1>1, <1>2 DEF Creating, Deleting
<1>12. Pushed' /\ Accounted'
  BY <1>1, <1>2, <1>11 DEF IInv, Pushed, Accounted
<1> QED
  BY <1>3, <1>7, <1>8, <1>10, <1>12 DEF IInv

(* A failure of Git takes the checkout back to what was fetched.           *)
LEMMA GitFailsStep ==
  ASSUME IInv, NEW k \in Call, GitFails(k)
  PROVE  IInv'
<1>a. Busy(k) /\ call[k].user \in User /\ call[k].st \in {"written", "committed"}
  BY DEF IInv, Shapes, GitFails, Idle
<1> PICK u \in User : u = call[k].user
  BY <1>a
<1>1. End(k) /\ UNCHANGED <<row, origin, torn>>
  BY DEF GitFails
<1>2. /\ call' \in [Call -> CallType]
      /\ call'[k] = Idle /\ ~Busy(k)' /\ \A j \in Call \ {k} : call'[j] = call[j]
      /\ Shapes' /\ Own' /\ Holders' /\ LiveRow'
  BY <1>1, EndKeeps
<1>3. clone[u] \in CloneType /\ ResetTo(clone[u]) \in CloneType
  BY DEF IInv, TypeOK, CloneType, ResetTo
<1>4. clone' = [clone EXCEPT ![u] = ResetTo(clone[u])]
  BY <1>a DEF GitFails, IInv, TypeOK
<1>5. /\ clone' \in [User -> CloneType]
      /\ clone'[u].fresh = clone[u].fresh /\ clone'[u].track = clone[u].track
      /\ clone'[u].head = clone[u].track /\ clone'[u].tree = clone[u].track
      /\ \A v \in User \ {u} : clone'[v] = clone[v]
  BY <1>3, <1>4 DEF IInv, TypeOK, CloneType, ResetTo
<1>6. TypeOK' /\ UpToDate'
  BY <1>1, <1>2, <1>5 DEF IInv, TypeOK, UpToDate
<1>7. Leftovers'
  <2>1. \A v \in User \ {u}, m \in Name : Clean(v, m)' = Clean(v, m)
    BY <1>5 DEF Clean
  <2>2. \A m \in Name : Clean(u, m)'
    BY <1>5 DEF Clean
  <2>3. \A j \in Call, v \in User \ {u}, m \in Name : Writing(j, v, m) => Writing(j, v, m)'
    BY <1>a, <1>2 DEF Writing, Busy
  <2> QED
    BY <1>1, <2>1, <2>2, <2>3 DEF IInv, Leftovers
<1>8. \A j \in Call \ {k} : call[j].st \in {"loaded", "written", "committed"}
        => clone'[call[j].user] = clone[call[j].user]
  BY <1>a, <1>5, OthersUntouched
<1>9. Content' /\ AddsNew'
  BY <1>1, <1>2, <1>8 DEF IInv, Content, AddsNew, NewEntry, Idle
<1>10. \A j \in Call, m \in Name : /\ Creating(j, m)' = Creating(j, m)
                                   /\ Deleting(j, m)' = Deleting(j, m)
                                   /\ Creating(j, m) => call'[j] = call[j]
  BY <1>a, <1>2 DEF Creating, Deleting, Idle
<1>11. Pushed' /\ Accounted'
  BY <1>1, <1>10 DEF IInv, Pushed, Accounted
<1> QED
  BY <1>2, <1>6, <1>7, <1>9, <1>11 DEF IInv

(* A request that fails anywhere else leaves the checkout, and its name is *)
(* torn if it had written.                                                 *)
LEMMA FailStep ==
  ASSUME IInv, NEW k \in Call, Fail(k)
  PROVE  IInv'
<1>1. End(k) /\ UNCHANGED <<row, origin, clone>>
  BY DEF Fail
<1>2. /\ call' \in [Call -> CallType]
      /\ call'[k] = Idle /\ ~Busy(k)' /\ \A j \in Call \ {k} : call'[j] = call[j]
      /\ Shapes' /\ Own' /\ Holders' /\ LiveRow'
  BY <1>1, EndKeeps
<1>3. call[k].name \in Name
  BY DEF IInv, Shapes, Fail, Idle
<1>4. /\ torn' \in SUBSET Name /\ torn \subseteq torn'
      /\ call[k].st \in {"written", "committed", "pushed"} => call[k].name \in torn'
  BY <1>3 DEF IInv, TypeOK, Fail, Tears
<1>5. TypeOK' /\ UpToDate'
  BY <1>1, <1>2, <1>4 DEF IInv, TypeOK, UpToDate
<1>6. Leftovers'
  <2>1. \A j \in Call, v \in User, m \in Name \ torn' : Writing(j, v, m) => Writing(j, v, m)'
    BY <1>2, <1>4 DEF Writing, Busy
  <2> QED
    BY <1>1, <1>4, <2>1 DEF IInv, Leftovers, Clean
<1>7. Content' /\ AddsNew'
  BY <1>1, <1>2, <1>4 DEF IInv, Content, AddsNew, NewEntry, Idle
<1>8. \A j \in Call, m \in Name \ torn' : /\ Creating(j, m)' = Creating(j, m)
                                          /\ Deleting(j, m)' = Deleting(j, m)
                                          /\ Creating(j, m) => call'[j] = call[j]
  BY <1>2, <1>4 DEF Creating, Deleting, Idle
<1>9. Pushed' /\ Accounted'
  BY <1>1, <1>4, <1>8 DEF IInv, Pushed, Accounted
<1> QED
  BY <1>2, <1>5, <1>6, <1>7, <1>9 DEF IInv

(* Somebody else's commit leaves every checkout behind.                    *)
LEMMA OtherPushStep ==
  ASSUME IInv, OtherPush
  PROVE  IInv'
<1>1. UNCHANGED <<row, origin, call, torn>>
  BY DEF OtherPush
<1>2. /\ clone' \in [User -> CloneType]
      /\ \A u \in User : /\ ~clone'[u].fresh /\ clone'[u].track = clone[u].track
                         /\ clone'[u].head = clone[u].head /\ clone'[u].tree = clone[u].tree
  <2>1. clone' = [u \in User |-> [clone[u] EXCEPT !.fresh = FALSE]]
    BY DEF OtherPush
  <2>2. \A u \in User : clone[u] \in CloneType /\ [clone[u] EXCEPT !.fresh = FALSE] \in CloneType
    BY DEF IInv, TypeOK, CloneType
  <2>3. \A u \in User : clone'[u] = [clone[u] EXCEPT !.fresh = FALSE]
    BY <2>1
  <2>4. clone' \in [User -> CloneType]
    BY <2>1, <2>2
  <2> QED
    BY <2>2, <2>3, <2>4 DEF CloneType
<1>3. TypeOK' /\ UpToDate' /\ Shapes' /\ Own'
  BY <1>1, <1>2 DEF IInv, TypeOK, UpToDate, Shapes, Own, Busy
<1>4. Leftovers'
  BY <1>1, <1>2 DEF IInv, Leftovers, Clean, Writing, Busy
<1>5. \A j \in Call : call[j].st # "idle" => call[j].user \in User
  BY DEF IInv, Shapes, Idle
<1>6. Content' /\ AddsNew'
  BY <1>1, <1>2, <1>5 DEF IInv, Content, AddsNew, NewEntry
<1>7. Holders' /\ LiveRow' /\ Pushed' /\ Accounted'
  BY <1>1 DEF IInv, Holders, HoldsName, LiveRow, Pushed, Accounted, Creating, Deleting
<1> QED
  BY <1>3, <1>4, <1>6, <1>7 DEF IInv

(* What a request is about to push: what is at GitHub and its own name.    *)
LEMMA PushFacts ==
  ASSUME IInv, NEW k \in Call, NEW u \in User, u = call[k].user,
         call[k].st = "committed", clone[u].fresh
  PROVE  /\ Busy(k) /\ call[k].name \in Name
         /\ clone[u].track = origin /\ clone[u].tree = clone[u].head
         /\ clone[u].head[call[k].name] = NewEntry(call[k])
         /\ \A m \in Name \ torn : m # call[k].name => clone[u].head[m] = origin[m]
         /\ call[k].op \in {"create", "declare"} /\ call[k].name \notin torn
              => origin[call[k].name] = NoArt
<1>1. Busy(k) /\ call[k].name \in Name
  BY DEF IInv, Shapes, Idle
<1>2. clone[u].track = origin
  BY DEF IInv, UpToDate
<1>3. clone[u].tree = clone[u].head /\ clone[u].head[call[k].name] = NewEntry(call[k])
  BY DEF IInv, Content
<1>4. \A m \in Name \ torn : m # call[k].name => clone[u].head[m] = origin[m]
  BY <1>1, <1>2, OwnClean DEF Clean
<1>5. call[k].op \in {"create", "declare"} /\ call[k].name \notin torn
        => origin[call[k].name] = NoArt
  BY <1>2 DEF IInv, AddsNew
<1> QED
  BY <1>1, <1>2, <1>3, <1>4, <1>5

(* What a push does to the checkouts.                                      *)
LEMMA PublishedFacts ==
  ASSUME TypeOK, NEW u \in User, NEW mine \in CloneType, clone' = Published(u, mine)
  PROVE  /\ clone' \in [User -> CloneType]
         /\ clone'[u] = mine
         /\ \A v \in User \ {u} :
               /\ clone'[v].fresh => clone[v].fresh /\ clone[u].head = origin
               /\ clone'[v].track = clone[v].track
               /\ clone'[v].head = clone[v].head /\ clone'[v].tree = clone[v].tree
<1>1. \A v \in User : clone[v] \in CloneType
  BY DEF TypeOK
<1> DEFINE their(v) == [clone[v] EXCEPT !.fresh = @ /\ clone[u].head = origin]
<1>2. \A v \in User :
        /\ their(v) \in CloneType
        /\ their(v).fresh => clone[v].fresh /\ clone[u].head = origin
        /\ their(v).track = clone[v].track
        /\ their(v).head = clone[v].head /\ their(v).tree = clone[v].tree
  BY <1>1 DEF CloneType
<1>3. clone' = [v \in User |-> IF v = u THEN mine ELSE their(v)]
  BY DEF Published
<1> HIDE DEF their
<1>4. \A v \in User : clone'[v] = IF v = u THEN mine ELSE their(v)
  BY <1>3
<1>5. clone' \in [User -> CloneType]
  BY <1>2, <1>3
<1> QED
  BY <1>2, <1>4, <1>5

(* Once it has pushed, a request accounts for its name; the others keep    *)
(* theirs.                                                                 *)
LEMMA PushStep ==
  ASSUME IInv, NEW k \in Call, Push(k)
  PROVE  IInv'
<1>a. Busy(k) /\ call[k].user \in User /\ call[k].name \in Name /\ call[k].st = "committed"
  BY DEF IInv, Shapes, Push, Idle
<1> PICK u \in User : u = call[k].user
  BY <1>a
<1> PICK n \in Name : n = call[k].name
  BY <1>a
<1>1. /\ clone[u].fresh /\ origin' = clone[u].head /\ UNCHANGED row
      /\ clone' = Published(u, [clone[u] EXCEPT !.track = clone[u].head])
      /\ IF call[k].op = "declare" THEN End(k) ELSE Goes(k, "pushed")
  BY DEF Push
<1>2. /\ clone[u].track = origin /\ clone[u].tree = clone[u].head
      /\ clone[u].head[n] = NewEntry(call[k])
      /\ \A m \in Name \ torn : m # n => clone[u].head[m] = origin[m]
      /\ call[k].op \in {"create", "declare"} /\ n \notin torn => origin[n] = NoArt
  BY <1>a, <1>1, PushFacts
<1>3. /\ torn' \in SUBSET Name /\ torn \subseteq torn'
      /\ call[k].stale => n \in torn'
  BY <1>a DEF IInv, TypeOK, Push, Tears
<1>4. /\ call' \in [Call -> CallType]
      /\ \A j \in Call \ {k} : call'[j] = call[j]
      /\ IF call[k].op = "declare" THEN call'[k] = Idle
         ELSE call'[k].st = "pushed" /\ SameButStage(k)
      /\ Shapes' /\ Own' /\ Holders' /\ LiveRow'
  <2>1. CASE call[k].op = "declare"
    BY <1>1, <2>1, EndKeeps
  <2>2. CASE call[k].op # "declare"
    <3>1. StageOnly(k) /\ call'[k].st = "pushed"
      BY <1>1, <2>2, GoesCall DEF IInv, StageOnly
    <3> QED
      BY <1>a, <1>1, <2>2, <3>1, StageKeeps DEF StageOnly, OthersSame
  <2> QED
    BY <2>1, <2>2
<1>5. clone[u] \in CloneType /\ [clone[u] EXCEPT !.track = clone[u].head] \in CloneType
  BY DEF IInv, TypeOK, CloneType
<1>6. /\ clone' \in [User -> CloneType]
      /\ clone'[u] = [clone[u] EXCEPT !.track = clone[u].head]
      /\ \A v \in User \ {u} :
            /\ clone'[v].fresh => clone[v].fresh /\ clone[u].head = origin
            /\ clone'[v].track = clone[v].track
            /\ clone'[v].head = clone[v].head /\ clone'[v].tree = clone[v].tree
  BY <1>1, <1>5, PublishedFacts DEF IInv
<1>7. /\ clone'[u].fresh /\ clone'[u].track = clone[u].head
      /\ clone'[u].head = clone[u].head /\ clone'[u].tree = clone[u].head
  BY <1>1, <1>2, <1>5, <1>6 DEF CloneType
<1>8. TypeOK' /\ UpToDate'
  <2>1. clone[u].head \in Entries
    BY <1>5 DEF CloneType
  <2>2. TypeOK'
    <3>1. row' \in [Name -> Art \cup {NoArt}] /\ origin' \in Entries
      BY <1>1, <2>1 DEF IInv, TypeOK
    <3> QED
      BY <1>3, <1>4, <1>6, <3>1 DEF TypeOK
  <2>3. UpToDate'
    <3> SUFFICES ASSUME NEW v \in User, clone'[v].fresh PROVE clone'[v].track = origin'
      BY DEF UpToDate
    <3>1. CASE v = u
      BY <1>1, <1>7, <3>1
    <3>2. CASE v # u
      <4>1. clone[v].fresh /\ clone[u].head = origin /\ clone'[v].track = clone[v].track
        BY <1>6, <3>2
      <4> QED
        BY <1>1, <4>1 DEF IInv, UpToDate
    <3> QED
      BY <3>1, <3>2
  <2> QED
    BY <2>2, <2>3
<1>9. Leftovers'
  <2>1. \A v \in User \ {u}, m \in Name : Clean(v, m)' = Clean(v, m)
    BY <1>6 DEF Clean
  <2>2. \A m \in Name : Clean(u, m)'
    BY <1>7 DEF Clean
  <2>3. \A j \in Call, v \in User \ {u}, m \in Name : Writing(j, v, m) => Writing(j, v, m)'
    BY <1>4 DEF Writing, Busy
  <2> QED
    BY <1>3, <2>1, <2>2, <2>3 DEF IInv, Leftovers
<1>10. Content' /\ AddsNew'
  <2>1. \A j \in Call \ {k} : call[j].st \in {"loaded", "written", "committed"}
          => call[j].user \in User \ {u}
    BY <1>a DEF IInv, Shapes, Own, Idle, Busy
  <2>2. call'[k].st \notin {"loaded", "written", "committed"}
    BY <1>4 DEF Idle
  <2> QED
    BY <1>3, <1>4, <1>6, <2>1, <2>2 DEF IInv, Content, AddsNew, NewEntry
<1>11. \A j \in Call \ {k}, m \in Name : /\ Creating(j, m)' = Creating(j, m)
                                         /\ Deleting(j, m)' = Deleting(j, m)
  BY <1>4 DEF Creating, Deleting
<1>12. \A m \in Name \ {n} : ~Creating(k, m)' /\ ~Deleting(k, m)'
  BY <1>a, <1>4 DEF Creating, Deleting, SameButStage, Idle
<1>13. /\ Creating(k, n)' <=> call[k].op = "create"
       /\ Deleting(k, n)' <=> call[k].op = "delete" /\ ~call[k].stale
       /\ \A m \in Name : ~Creating(k, m) /\ ~Deleting(k, m)
       /\ Creating(k, n)' => call'[k].art = call[k].art
  BY <1>a, <1>4 DEF Creating, Deleting, SameButStage, Idle
<1>14. \A j \in Call \ {k} : Creating(j, n) => n \in torn'
  <2> SUFFICES ASSUME NEW j \in Call \ {k}, Creating(j, n), n \notin torn' PROVE FALSE
    OBVIOUS
  <2>1. HoldsName(j) /\ row[n] = NoArt /\ origin[n] = call[j].art /\ call[j].art \in Art
    BY <1>3 DEF Creating, HoldsName, IInv, Holders, Pushed, Shapes
  <2>2. CASE call[k].op = "create"
    BY <1>a, <2>1, <2>2 DEF HoldsName, Creating, IInv, Holders
  <2>3. CASE call[k].op = "declare"
    BY <1>2, <1>3, <2>1, <2>3, ReleasesAssumption
  <2>4. CASE call[k].op = "delete"
    BY <1>3, <2>1, <2>4 DEF IInv, LiveRow
  <2>5. call[k].op \in {"create", "declare", "delete"}
    BY <1>a DEF IInv, TypeOK, CallType, Busy
  <2> QED
    BY <2>2, <2>3, <2>4, <2>5
<1>15. \A j \in Call \ {k} : Deleting(j, n) => row[n] # NoArt
  BY DEF Deleting, IInv, LiveRow
<1>16. /\ call[k].op = "create" => row[n] = NoArt /\ call[k].art \in Art
                                   /\ NewEntry(call[k]) = call[k].art
       /\ call[k].op = "delete" => NewEntry(call[k]) = NoArt
       /\ call[k].op = "declare" => NewEntry(call[k]) = External
       /\ call[k].op = "delete" /\ ~call[k].stale => row[n] # NoArt
       /\ call[k].op \in {"create", "declare", "delete"}
       /\ call[k].op # "delete" => ~call[k].stale
  BY <1>a DEF IInv, Holders, HoldsName, Shapes, NewEntry, LiveRow, TypeOK, CallType, Busy
<1>17. Pushed'
  <2> SUFFICES ASSUME NEW j \in Call, NEW m \in Name \ torn'
               PROVE  /\ Creating(j, m)' => origin'[m] = call'[j].art
                      /\ Deleting(j, m)' => origin'[m] \notin Art
    BY DEF Pushed
  <2>1. CASE m # n
    BY <1>1, <1>2, <1>3, <1>4, <1>11, <1>12, <2>1 DEF IInv, Pushed
  <2>2. CASE m = n /\ j = k
    BY <1>1, <1>2, <1>13, <1>16, <2>2, ReleasesAssumption
  <2>3. CASE m = n /\ j # k
    <3>1. ~Creating(j, m)'
      BY <1>11, <1>14, <2>3
    <3>2. Deleting(j, m)' => origin'[m] \notin Art
      BY <1>1, <1>2, <1>11, <1>15, <1>16, <2>3, ReleasesAssumption
    <3> QED
      BY <3>1, <3>2
  <2> QED
    BY <2>1, <2>2, <2>3
<1>18. Accounted'
  <2> SUFFICES ASSUME NEW m \in Name \ torn'
               PROVE  /\ row[m] # NoArt /\ origin'[m] # row[m] =>
                           \E j \in Call : Deleting(j, m)'
                      /\ row[m] = NoArt /\ origin'[m] \in Art =>
                           \E j \in Call : Creating(j, m)'
    BY <1>1 DEF Accounted
  <2>1. CASE m # n
    BY <1>1, <1>2, <1>3, <1>11, <1>13, <2>1 DEF IInv, Accounted
  <2>2. CASE m = n /\ call[k].op = "create"
    BY <1>13, <1>16, <2>2
  <2>3. CASE m = n /\ call[k].op = "delete"
    BY <1>1, <1>2, <1>3, <1>13, <1>16, <2>3, ReleasesAssumption
  <2>4. CASE m = n /\ call[k].op = "declare"
    <3>1. origin[n] = NoArt /\ origin'[n] \notin Art
      BY <1>1, <1>2, <1>3, <1>16, <2>4, ReleasesAssumption
    <3>2. row[n] # NoArt => \E j \in Call \ {k} : Deleting(j, n)
      BY <1>3, <1>13, <2>4, <3>1 DEF IInv, Accounted
    <3> QED
      BY <1>11, <2>4, <3>1, <3>2
  <2> QED
    BY <1>16, <2>1, <2>2, <2>3, <2>4
<1> QED
  BY <1>4, <1>8, <1>9, <1>10, <1>17, <1>18 DEF IInv

(* A push that is taken and not answered.                                  *)
LEMMA PushUnansweredStep ==
  ASSUME IInv, NEW k \in Call, PushUnanswered(k)
  PROVE  IInv'
<1>a. Busy(k) /\ call[k].user \in User /\ call[k].name \in Name /\ call[k].st = "committed"
  BY DEF IInv, Shapes, PushUnanswered, Idle
<1> PICK u \in User : u = call[k].user
  BY <1>a
<1> PICK n \in Name : n = call[k].name
  BY <1>a
<1> DEFINE mine == [ResetTo(clone[u]) EXCEPT !.fresh = clone[u].head = origin]
<1>1. /\ clone[u].fresh /\ origin' = clone[u].head /\ UNCHANGED row
      /\ clone' = Published(u, mine) /\ End(k)
  BY DEF PushUnanswered
<1>2. /\ clone[u].track = origin
      /\ \A m \in Name \ torn : m # n => clone[u].head[m] = origin[m]
  BY <1>a, <1>1, PushFacts
<1>3. torn' \in SUBSET Name /\ torn \subseteq torn' /\ n \in torn'
  BY <1>a DEF IInv, TypeOK, PushUnanswered, Tears
<1>4. /\ call' \in [Call -> CallType]
      /\ call'[k] = Idle /\ ~Busy(k)' /\ \A j \in Call \ {k} : call'[j] = call[j]
      /\ Shapes' /\ Own' /\ Holders' /\ LiveRow'
  BY <1>1, EndKeeps
<1>5. /\ clone[u] \in CloneType /\ mine \in CloneType
      /\ mine.track = clone[u].track
      /\ mine.head = clone[u].track /\ mine.tree = clone[u].track
  BY DEF IInv, TypeOK, CloneType, ResetTo
<1>b. mine.fresh => clone[u].head = origin
  BY DEF IInv, TypeOK, CloneType, ResetTo
<1> HIDE DEF mine
<1>6. /\ clone' \in [User -> CloneType]
      /\ clone'[u] = mine
      /\ \A v \in User \ {u} :
            /\ clone'[v].fresh => clone[v].fresh /\ clone[u].head = origin
            /\ clone'[v].track = clone[v].track
            /\ clone'[v].head = clone[v].head /\ clone'[v].tree = clone[v].tree
  BY <1>1, <1>5, PublishedFacts DEF IInv
<1>7. TypeOK' /\ UpToDate'
  <2>1. clone[u].head \in Entries
    BY <1>5 DEF CloneType
  <2>2. TypeOK'
    <3>1. row' \in [Name -> Art \cup {NoArt}] /\ origin' \in Entries
      BY <1>1, <2>1 DEF IInv, TypeOK
    <3> QED
      BY <1>3, <1>4, <1>6, <3>1 DEF TypeOK
  <2>3. UpToDate'
    <3> SUFFICES ASSUME NEW v \in User, clone'[v].fresh PROVE clone'[v].track = origin'
      BY DEF UpToDate
    <3>1. CASE v = u
      BY <1>1, <1>2, <1>b, <1>5, <1>6, <3>1
    <3>2. CASE v # u
      <4>1. clone[v].fresh /\ clone[u].head = origin /\ clone'[v].track = clone[v].track
        BY <1>6, <3>2
      <4> QED
        BY <1>1, <4>1 DEF IInv, UpToDate
    <3> QED
      BY <3>1, <3>2
  <2> QED
    BY <2>2, <2>3
<1>8. Leftovers'
  <2>1. \A v \in User \ {u}, m \in Name : Clean(v, m)' = Clean(v, m)
    BY <1>6 DEF Clean
  <2>2. \A m \in Name : Clean(u, m)'
    <3>1. clone'[u].tree = clone'[u].track /\ clone'[u].head = clone'[u].track
      BY <1>5, <1>6
    <3> QED
      BY <3>1 DEF Clean
  <2>3. \A j \in Call, v \in User \ {u}, m \in Name : Writing(j, v, m) => Writing(j, v, m)'
    BY <1>4 DEF Writing, Busy
  <2> QED
    BY <1>3, <2>1, <2>2, <2>3 DEF IInv, Leftovers
<1>9. Content' /\ AddsNew'
  <2>1. \A j \in Call \ {k} : call[j].st \in {"loaded", "written", "committed"}
          => call[j].user \in User \ {u}
    BY <1>a DEF IInv, Shapes, Own, Idle, Busy
  <2>2. call'[k].st \notin {"loaded", "written", "committed"}
    BY <1>4 DEF Idle
  <2> QED
    BY <1>3, <1>4, <1>6, <2>1, <2>2 DEF IInv, Content, AddsNew, NewEntry
<1>10. \A j \in Call, m \in Name : /\ Creating(j, m)' = Creating(j, m)
                                   /\ Deleting(j, m)' = Deleting(j, m)
                                   /\ Creating(j, m) => call'[j] = call[j]
  BY <1>a, <1>4 DEF Creating, Deleting, Idle
<1>11. Pushed' /\ Accounted'
  BY <1>1, <1>2, <1>3, <1>10 DEF IInv, Pushed, Accounted
<1> QED
  BY <1>4, <1>7, <1>8, <1>9, <1>11 DEF IInv

(* The commit of a creation.                                               *)
LEMMA CommitCreateStep ==
  ASSUME IInv, NEW k \in Call, CommitCreate(k)
  PROVE  IInv'
<1>a. Busy(k) /\ call[k].name \in Name /\ call[k].art \in Art
  BY DEF IInv, Shapes, CommitCreate, Busy
<1> PICK n \in Name : n = call[k].name
  BY <1>a
<1>1. /\ End(k) /\ UNCHANGED <<origin, clone, torn>>
      /\ row' = [row EXCEPT ![n] = call[k].art]
      /\ HoldsName(k) /\ Creating(k, n)
  BY DEF CommitCreate, HoldsName, Creating
<1>2. /\ call' \in [Call -> CallType]
      /\ call'[k] = Idle /\ \A j \in Call \ {k} : call'[j] = call[j]
  BY <1>1, EndCall DEF IInv, OthersSame
<1>3. /\ row' \in [Name -> Art \cup {NoArt}]
      /\ row'[n] = call[k].art /\ row'[n] # NoArt
      /\ \A m \in Name \ {n} : row'[m] = row[m]
  BY <1>a, <1>1, ReleasesAssumption DEF IInv, TypeOK
<1>4. TypeOK' /\ UpToDate'
  BY <1>1, <1>2, <1>3 DEF IInv, TypeOK, UpToDate
<1>5. Shapes' /\ Own'
  BY <1>2 DEF IInv, Shapes, Own, Busy, Idle
<1>6. Leftovers'
  <2>1. \A j \in Call, v \in User, m \in Name : Writing(j, v, m) => Writing(j, v, m)'
    BY <1>1, <1>2 DEF Writing, Creating, Busy
  <2> QED
    BY <1>1, <2>1 DEF IInv, Leftovers, Clean
<1>7. Content' /\ AddsNew'
  BY <1>1, <1>2 DEF IInv, Content, AddsNew, NewEntry, Idle
<1>8. Holders'
  <2>1. \A j \in Call : HoldsName(j)' => HoldsName(j) /\ j # k /\ call'[j] = call[j]
    BY <1>2 DEF HoldsName, Idle
  <2>2. \A j \in Call \ {k} : HoldsName(j) => call[j].name \in Name /\ call[j].name # n
    BY <1>1 DEF IInv, Holders, HoldsName, Shapes, Busy, Creating
  <2> QED
    BY <1>3, <2>1, <2>2 DEF IInv, Holders
<1>9. LiveRow'
  <2>1. \A j \in Call : call'[j].op = "delete" => j # k /\ call[j].name \in Name
    BY <1>2 DEF IInv, Shapes, Busy, Idle
  <2> QED
    BY <1>2, <1>3, <2>1 DEF IInv, LiveRow
<1>10. \A j \in Call \ {k}, m \in Name : /\ Creating(j, m)' = Creating(j, m)
                                         /\ Deleting(j, m)' = Deleting(j, m)
  BY <1>2 DEF Creating, Deleting
<1>11. \A m \in Name : ~Creating(k, m)' /\ ~Deleting(k, m)' /\ ~Deleting(k, m)
  BY <1>1, <1>2 DEF Creating, Deleting, Idle
<1>12. Pushed'
  BY <1>1, <1>2, <1>10, <1>11 DEF IInv, Pushed
<1>13. Accounted'
  <2> SUFFICES ASSUME NEW m \in Name \ torn
               PROVE  /\ row'[m] # NoArt /\ origin[m] # row'[m] =>
                           \E j \in Call : Deleting(j, m)'
                      /\ row'[m] = NoArt /\ origin[m] \in Art =>
                           \E j \in Call : Creating(j, m)'
    BY <1>1 DEF Accounted
  <2>1. CASE m = n
    BY <1>1, <1>3, <2>1 DEF IInv, Pushed
  <2>2. CASE m # n
    <3>1. ~Creating(k, m)
      BY <1>1, <2>2 DEF Creating
    <3> QED
      BY <1>3, <1>10, <1>11, <2>2, <3>1 DEF IInv, Accounted
  <2> QED
    BY <2>1, <2>2
<1> QED
  BY <1>4, <1>5, <1>6, <1>7, <1>8, <1>9, <1>12, <1>13 DEF IInv

(* The commit of a deletion: the other deletions of the row are stale.     *)
LEMMA CommitDeleteStep ==
  ASSUME IInv, NEW k \in Call, CommitDelete(k)
  PROVE  IInv'
<1>a. Busy(k) /\ call[k].name \in Name /\ call[k].op = "delete" /\ call[k].st = "pushed"
  BY DEF IInv, Shapes, CommitDelete, Busy
<1> PICK n \in Name : n = call[k].name
  BY <1>a
<1>1. /\ UNCHANGED <<origin, clone, torn>>
      /\ IF call[k].stale THEN UNCHANGED row ELSE row' = [row EXCEPT ![n] = NoArt]
  BY DEF CommitDelete
<1> DEFINE outlived(j) == call[j].op = "delete" /\ call[j].name = n /\ ~call[k].stale
<1>2. \A j \in Call : call[j] \in CallType /\ [call[j] EXCEPT !.stale = TRUE] \in CallType
  BY DEF IInv, TypeOK, CallType
<1>3. call' = [j \in Call |-> IF j = k THEN Idle
                              ELSE IF outlived(j) THEN [call[j] EXCEPT !.stale = TRUE]
                              ELSE call[j]]
  BY DEF CommitDelete
<1>4. call' \in [Call -> CallType]
  BY <1>2, <1>3, IdleType
<1>5. call'[k] = Idle
  BY <1>3
<1>6. \A j \in Call \ {k} :
        /\ call'[j].op = call[j].op /\ call'[j].st = call[j].st
        /\ call'[j].user = call[j].user /\ call'[j].name = call[j].name
        /\ call'[j].art = call[j].art /\ call'[j].seen = call[j].seen
        /\ outlived(j) => call'[j].stale
        /\ ~outlived(j) => call'[j] = call[j]
  <2> TAKE j \in Call \ {k}
  <2>1. CASE outlived(j)
    <3>1. call'[j] = [call[j] EXCEPT !.stale = TRUE]
      BY <1>3, <2>1
    <3> QED
      BY <1>2, <2>1, <3>1 DEF CallType
  <2>2. CASE ~outlived(j)
    BY <1>3, <2>2
  <2> QED
    BY <2>1, <2>2
<1>7. /\ row' \in [Name -> Art \cup {NoArt}]
      /\ \A m \in Name \ {n} : row'[m] = row[m]
      /\ row'[n] # NoArt => call[k].stale /\ row'[n] = row[n]
      /\ row[n] = NoArt => row'[n] = NoArt
      /\ call[k].stale => row'[n] = row[n]
  BY <1>1 DEF IInv, TypeOK
<1>8. TypeOK' /\ UpToDate'
  BY <1>1, <1>4, <1>7 DEF IInv, TypeOK, UpToDate
<1>9. \A j \in Call : Busy(j)' => Busy(j) /\ j # k
  BY <1>5, <1>6 DEF Busy, Idle
<1>10. Shapes'
  <2>1. \A j \in Call \ {k} : Busy(j)' = Busy(j) /\ (~Busy(j) => call'[j] = call[j])
    BY <1>6 DEF Busy
  <2>2. \A j \in Call \ {k} : call'[j].stale => call'[j].op = "delete"
    BY <1>6 DEF IInv, Shapes
  <2>3. ~Busy(k)'
    BY <1>9
  <2>4. /\ call'[k].op = "none" /\ call'[k].st = "idle" /\ ~call'[k].stale
    BY <1>5 DEF Idle
  <2> QED
    BY <1>5, <1>6, <2>1, <2>2, <2>3, <2>4 DEF IInv, Shapes
<1>11. Own'
  BY <1>6, <1>9 DEF IInv, Own
<1> HIDE DEF outlived
<1>12. Leftovers'
  <2>1. \A j \in Call, v \in User, m \in Name : Writing(j, v, m) => Writing(j, v, m)'
    BY <1>a, <1>6 DEF Writing, Busy
  <2> QED
    BY <1>1, <2>1 DEF IInv, Leftovers, Clean
<1>13. Content' /\ AddsNew'
  BY <1>1, <1>5, <1>6 DEF IInv, Content, AddsNew, NewEntry, Idle
<1>14. Holders'
  <2>1. \A j \in Call : HoldsName(j)' => /\ HoldsName(j) /\ j # k
                                         /\ call'[j].name = call[j].name
                                         /\ call[j].name \in Name
    BY <1>5, <1>6 DEF HoldsName, Idle, IInv, Shapes, Busy
  <2> QED
    BY <1>7, <2>1 DEF IInv, Holders
<1>15. LiveRow'
  <2> SUFFICES ASSUME NEW j \in Call, call'[j].op = "delete", ~call'[j].stale
               PROVE  row'[call'[j].name] # NoArt
    BY DEF LiveRow
  <2>1. j # k /\ ~outlived(j)
    BY <1>5, <1>6 DEF Idle
  <2>2. call'[j] = call[j] /\ call[j].name \in Name /\ row[call[j].name] # NoArt
    BY <1>6, <2>1 DEF IInv, LiveRow, Shapes, Busy
  <2> QED
    BY <1>7, <2>1, <2>2 DEF outlived
<1>16. \A j \in Call, m \in Name :
         /\ Creating(j, m)' = Creating(j, m)
         /\ Creating(j, m) => call'[j] = call[j]
         /\ Deleting(j, m)' => Deleting(j, m)
         /\ m # n \/ call[k].stale => (Deleting(j, m) => Deleting(j, m)')
  BY <1>a, <1>5, <1>6 DEF Creating, Deleting, Idle, outlived
<1>17. Pushed'
  BY <1>1, <1>16 DEF IInv, Pushed
<1>18. Accounted'
  <2> SUFFICES ASSUME NEW m \in Name \ torn
               PROVE  /\ row'[m] # NoArt /\ origin[m] # row'[m] =>
                           \E j \in Call : Deleting(j, m)'
                      /\ row'[m] = NoArt /\ origin[m] \in Art =>
                           \E j \in Call : Creating(j, m)'
    BY <1>1 DEF Accounted
  <2>1. CASE m # n \/ call[k].stale
    BY <1>7, <1>16, <2>1 DEF IInv, Accounted
  <2>2. CASE m = n /\ ~call[k].stale
    <3>1. Deleting(k, n)
      BY <1>a, <2>2 DEF Deleting
    <3>2. row'[m] = NoArt /\ origin[m] \notin Art
      BY <1>7, <2>2, <3>1 DEF IInv, Pushed
    <3> QED
      BY <3>2
  <2> QED
    BY <2>1, <2>2
<1> QED
  BY <1>8, <1>10, <1>11, <1>12, <1>13, <1>14, <1>15, <1>17, <1>18 DEF IInv

(* Every step keeps the invariant.                                         *)
LEMMA InvStep == ~Overlap /\ IInv /\ [Next]_vars => IInv'
<1> SUFFICES ASSUME ~Overlap, IInv, [Next]_vars PROVE IInv'
  OBVIOUS
<1>1. ASSUME NEW k \in Call, NEW u \in User, NEW n \in Name, NEW a \in Art,
             CreateRelease(k, u, n, a)
      PROVE  IInv'
  BY <1>1, BeginStep DEF CreateRelease
<1>2. ASSUME NEW k \in Call, NEW u \in User, NEW n \in Name, DeclareRelease(k, u, n)
      PROVE  IInv'
  BY <1>2, BeginStep, ReleasesAssumption DEF DeclareRelease
<1>3. ASSUME NEW k \in Call, NEW u \in User, NEW n \in Name, DeleteRelease(k, u, n)
      PROVE  IInv'
  BY <1>3, BeginStep, ReleasesAssumption DEF DeleteRelease
<1>4. ASSUME NEW k \in Call,
             \/ RefreshSkipped(k) \/ Check(k) \/ Flush(k)
             \/ LoadForAdding(k) \/ LoadForDeleting(k)
      PROVE  IInv'
  BY <1>4, BeforeWriting
<1>5. ASSUME NEW k \in Call, Refresh(k) \/ NothingToDelete(k) \/ WriteFile(k) PROVE IInv'
  BY <1>5, RefreshStep, NothingToDeleteStep, WriteFileStep
<1>6. ASSUME NEW k \in Call,
             GitCommit(k) \/ GitFails(k) \/ Push(k) \/ PushUnanswered(k)
      PROVE  IInv'
  BY <1>6, GitCommitStep, GitFailsStep, PushStep, PushUnansweredStep
<1>7. ASSUME NEW k \in Call, CommitCreate(k) \/ CommitDelete(k) \/ Fail(k) PROVE IInv'
  BY <1>7, CommitCreateStep, CommitDeleteStep, FailStep
<1>8. CASE OtherPush
  BY <1>8, OtherPushStep
<1>9. CASE UNCHANGED vars
  BY <1>9 DEF vars, IInv, TypeOK, Shapes, Own, UpToDate, Leftovers, Content, AddsNew,
              Holders, LiveRow, Pushed, Accounted, Busy, Clean, Writing, HoldsName,
              Creating, Deleting
<1> QED
  BY <1>1, <1>2, <1>3, <1>4, <1>5, <1>6, <1>7, <1>8, <1>9 DEF Next

(* The invariant, where requests of one user do not overlap.               *)
LEMMA Invariance == ASSUME ~Overlap PROVE Spec => []IInv
<1>1. Init => IInv
  BY InvInit
<1>2. IInv /\ [Next]_vars => IInv'
  BY InvStep
<1> QED
  BY <1>1, <1>2, PTL DEF Spec

(* The variables hold the values TypeOK gives them.                        *)
THEOREM TypeCorrect == ASSUME ~Overlap PROVE Spec => []TypeOK
<1>1. IInv => TypeOK
  BY DEF IInv
<1> QED
  BY <1>1, Invariance, PTL

(* The table and the entries at GitHub agree about every name that nobody  *)
(* is at work on and no recorded failure has parted.                       *)
THEOREM StoresStayTogether == ASSUME ~Overlap PROVE Spec => []StoresAgree
<1>1. IInv => StoresAgree
  <2> SUFFICES ASSUME IInv, NEW n \in Name \ torn, ~UnderWay(n)
               PROVE  row[n] = IF origin[n] \in Art THEN origin[n] ELSE NoArt
    BY DEF StoresAgree
  <2>1. \A k \in Call : ~Creating(k, n) /\ ~Deleting(k, n)
    BY DEF UnderWay, Creating, Deleting
  <2>2. row[n] \in Art \cup {NoArt}
    BY DEF IInv, TypeOK
  <2>3. CASE row[n] # NoArt
    <3>1. origin[n] = row[n]
      BY <2>1, <2>3 DEF IInv, Accounted
    <3> QED
      BY <2>2, <2>3, <3>1
  <2>4. CASE row[n] = NoArt
    <3>1. origin[n] \notin Art
      BY <2>1, <2>4 DEF IInv, Accounted
    <3> QED
      BY <2>4, <3>1
  <2> QED
    BY <2>3, <2>4
<1> QED
  BY <1>1, Invariance, PTL

(* No push loses an entry but that of the release it deletes.              *)
THEOREM NoPushLosesAnEntry == ASSUME ~Overlap PROVE Spec => EntryLostOnlyByDelete
<1> DEFINE Kept ==
      \A n \in Name : origin[n] # NoArt /\ origin'[n] # origin[n] =>
         \/ n \in torn
         \/ \E k \in Call : /\ call[k].op = "delete" /\ call[k].name = n
                            /\ call[k].st = "committed"
<1>1. IInv /\ [Next]_vars => [Kept]_vars
  <2> SUFFICES ASSUME IInv, [Next]_vars PROVE [Kept]_vars
    OBVIOUS
  <2>1. CASE origin' = origin
    BY <2>1
  <2>2. ASSUME NEW k \in Call, Push(k) \/ PushUnanswered(k) PROVE Kept
    <3> SUFFICES ASSUME NEW n \in Name \ torn, origin[n] # NoArt, origin'[n] # origin[n]
                 PROVE  /\ call[k].op = "delete" /\ call[k].name = n
                        /\ call[k].st = "committed"
      OBVIOUS
    <3>1. /\ call[k].st = "committed" /\ clone[call[k].user].fresh
          /\ origin' = clone[call[k].user].head
      BY <2>2 DEF Push, PushUnanswered
    <3>2. call[k].user \in User /\ Busy(k)
      BY <3>1 DEF IInv, Shapes, Idle
    <3>3. call[k].name = n
      BY <3>1, <3>2, PushFacts
    <3>4. call[k].op \notin {"create", "declare"}
      BY <3>1, <3>2, <3>3, PushFacts
    <3>5. call[k].op \in {"create", "declare", "delete"}
      BY <3>2 DEF IInv, TypeOK, CallType, Busy
    <3> QED
      BY <3>1, <3>3, <3>4, <3>5
  <2>3. CASE UNCHANGED vars
    BY <2>3 DEF vars
  <2>4. CASE Next /\ \A k \in Call : ~Push(k) /\ ~PushUnanswered(k)
    <3>1. origin' = origin
      BY <2>4 DEF Next, CreateRelease, DeclareRelease, DeleteRelease, Begin, Refresh,
                  RefreshSkipped, Check, Flush, LoadForAdding, LoadForDeleting,
                  NothingToDelete, WriteFile, GitCommit, GitFails, CommitCreate,
                  CommitDelete, Fail, OtherPush
    <3> QED
      BY <2>1, <3>1
  <2> HIDE DEF Kept
  <2> QED
    BY <2>2, <2>3, <2>4
<1> QED
  BY <1>1, Invariance, PTL DEF Spec, EntryLostOnlyByDelete

-----------------------------------------------------------------------------
(* A step that changes neither record and checks nothing, and after which  *)
(* no checkout is up to date that was not, keeps it.                       *)
LEMMA AloneQuiet ==
  ASSUME Alone, UNCHANGED <<row, origin>>, torn \subseteq torn',
         \A j \in Call : Checked(j)' =>
            Checked(j) /\ call'[j].name = call[j].name /\ call'[j].art = call[j].art,
         \A j \in Call, m \in Name : Creating(j, m)' =>
            Creating(j, m) /\ call'[j].name = call[j].name /\ call'[j].art = call[j].art
  PROVE  Alone'
<1>1. AloneChecked'
  BY DEF Alone, AloneChecked
<1>2. AlonePushed'
  BY DEF Alone, AlonePushed
<1>3. OneReleasePerArtifact'
  BY DEF Alone, OneReleasePerArtifact
<1> QED
  BY <1>1, <1>2, <1>3 DEF Alone

(* Such are the steps that begin, refresh, write, fail and so on.          *)
LEMMA AloneQuietStep ==
  ASSUME IInv, ~Overlap, Alone, Next,
         \A k \in Call : /\ ~Check(k) /\ ~Push(k) /\ ~PushUnanswered(k)
                         /\ ~CommitCreate(k) /\ ~CommitDelete(k)
  PROVE  Alone'
<1> USE DEF Checked, Creating
<1>1. ASSUME NEW k \in Call, NEW u \in User, NEW n \in Name,
             \/ \E a \in Art : CreateRelease(k, u, n, a)
             \/ DeclareRelease(k, u, n) \/ DeleteRelease(k, u, n)
      PROVE  Alone'
  <2>1. PICK new : /\ new.st = "begun" /\ call' = [call EXCEPT ![k] = new]
    BY <1>1 DEF CreateRelease, DeclareRelease, DeleteRelease, Begin, Idle
  <2>2. call'[k].st = "begun" /\ \A j \in Call \ {k} : call'[j] = call[j]
    BY <2>1 DEF IInv, TypeOK
  <2>3. UNCHANGED <<row, origin, clone, torn>>
    BY <1>1 DEF CreateRelease, DeclareRelease, DeleteRelease, Begin
  <2> QED
    BY <2>2, <2>3, AloneQuiet
<1>2. ASSUME NEW k \in Call,
             \/ RefreshSkipped(k) \/ Flush(k) \/ LoadForAdding(k) \/ LoadForDeleting(k)
             \/ GitCommit(k) \/ WriteFile(k) \/ NothingToDelete(k) \/ Refresh(k)
      PROVE  Alone'
  <2>a. Busy(k) /\ call[k].user \in User /\ call[k].name \in Name
    BY <1>2 DEF IInv, Shapes, RefreshSkipped, Flush, LoadForAdding, LoadForDeleting, GitCommit,
                WriteFile, NothingToDelete, Refresh, Idle, Busy
  <2>1. /\ \A j \in Call \ {k} : call'[j] = call[j]
        /\ call'[k].op = call[k].op /\ call'[k].name = call[k].name
        /\ call'[k].art = call[k].art /\ call'[k].user = call[k].user
        /\ call[k].op = "create" => call'[k].st # "pushed"
        /\ call'[k].st \in {"checked", "flushed", "loaded", "written", "committed"} =>
              \/ call[k].op # "create"
              \/ call[k].st \in {"checked", "flushed", "loaded", "written", "committed"}
    BY <1>2 DEF IInv, TypeOK, CallType, RefreshSkipped, Flush, LoadForAdding, LoadForDeleting,
                GitCommit, WriteFile, NothingToDelete, Refresh, Goes, Ready
  <2>2. UNCHANGED <<row, origin>> /\ torn \subseteq torn'
    BY <1>2 DEF RefreshSkipped, Flush, LoadForAdding, LoadForDeleting,
                GitCommit, WriteFile, NothingToDelete, Refresh, Tears
  <2>3. \A v \in User : \/ clone'[v].fresh = clone[v].fresh
                        \/ v = call[k].user /\ call'[k].st = "ready"
    BY <1>2, <2>a DEF IInv, TypeOK, CloneType, CallType, RefreshSkipped, Flush, LoadForAdding,
                LoadForDeleting, GitCommit, WriteFile, NothingToDelete, Refresh, Goes
  <2>4. \A j \in Call : Busy(j) => call[j].user \in User
    BY DEF IInv, Shapes
  <2> QED
    BY <2>a, <2>1, <2>2, <2>3, <2>4, AloneQuiet DEF IInv, Own, Busy
<1>3. ASSUME NEW k \in Call, GitFails(k) \/ Fail(k) PROVE Alone'
  <2>1. End(k) /\ UNCHANGED <<row, origin>> /\ torn \subseteq torn'
    BY <1>3 DEF GitFails, Fail, Tears
  <2>2. call'[k].op = "none" /\ \A j \in Call \ {k} : call'[j] = call[j]
    <3>1. call'[k] = Idle /\ \A j \in Call \ {k} : call'[j] = call[j]
      BY <2>1, EndCall DEF IInv, OthersSame
    <3> QED
      BY <3>1 DEF Idle
  <2>3. \A v \in User : clone'[v].fresh = clone[v].fresh
    <3>1. CASE Fail(k)
      BY <3>1 DEF Fail
    <3>2. CASE GitFails(k)
      <4>1. clone' = [clone EXCEPT ![call[k].user] = ResetTo(@)]
        BY <3>2 DEF GitFails
      <4>2. \A v \in User : clone[v] \in CloneType
        BY DEF IInv, TypeOK
      <4>3. \A v \in User : clone'[v] = clone[v] \/ clone'[v] = ResetTo(clone[v])
        BY <4>1 DEF IInv, TypeOK
      <4> QED
        BY <4>2, <4>3 DEF CloneType, ResetTo
    <3> QED
      BY <1>3, <3>1, <3>2
  <2>4. \A j \in Call : Busy(j) => call[j].user \in User
    BY DEF IInv, Shapes
  <2> QED
    BY <2>1, <2>2, <2>3, <2>4, AloneQuiet DEF Busy
<1>4. CASE OtherPush
  <2>1. UNCHANGED <<row, origin, call, torn>>
    BY <1>4 DEF OtherPush
  <2>2. \A v \in User : ~clone'[v].fresh
    BY <1>4 DEF OtherPush, IInv, TypeOK, CloneType
  <2>3. \A j \in Call : Busy(j) => call[j].user \in User
    BY DEF IInv, Shapes
  <2> QED
    BY <2>1, <2>2, <2>3, AloneQuiet DEF Busy
<1> QED
  BY <1>1, <1>2, <1>3, <1>4 DEF Next

(* The check asks a checkout that, if it is up to date, is what is at      *)
(* GitHub.                                                                 *)
LEMMA AloneCheck ==
  ASSUME IInv, Alone, NEW k \in Call, Check(k)
  PROVE  Alone'
<1>1. /\ StageOnly(k) /\ call'[k].st = "checked" /\ UNCHANGED <<row, origin, clone, torn>>
      /\ Busy(k) /\ call[k].st = "ready"
  BY GoesCall DEF IInv, Check, StageOnly, Busy
<1>2. \A j \in Call :
        /\ call'[j].op = call[j].op /\ call'[j].user = call[j].user
        /\ call'[j].name = call[j].name /\ call'[j].art = call[j].art
        /\ j # k => call'[j] = call[j]
  BY <1>1, StageFacts
<1>3. \A m \in Name \ torn : clone[call[k].user].fresh =>
         origin[m] # call[k].art /\ row[m] # call[k].art
  <2> TAKE m \in Name \ torn
  <2> HAVE clone[call[k].user].fresh
  <2>1. call[k].user \in User
    BY <1>1 DEF IInv, Shapes
  <2>2. Clean(call[k].user, m) /\ clone[call[k].user].track = origin
    BY <1>1, <2>1, OwnClean DEF IInv, UpToDate
  <2> QED
    BY <2>2 DEF Check, Tree, Clean
<1>4. AloneChecked'
  <2>1. \A j \in Call \ {k} : Checked(j)' = Checked(j)
    BY <1>1, <1>2 DEF Checked
  <2>2. Checked(k)' => clone[call[k].user].fresh
    BY <1>1, <1>2 DEF Checked
  <2> QED
    BY <1>1, <1>2, <1>3, <2>1, <2>2 DEF Alone, AloneChecked
<1>5. \A j \in Call, m \in Name : Creating(j, m)' = Creating(j, m)
  BY <1>1, <1>2 DEF Creating
<1>6. AlonePushed' /\ OneReleasePerArtifact'
  BY <1>1, <1>2, <1>5 DEF Alone, AlonePushed, OneReleasePerArtifact
<1> QED
  BY <1>4, <1>6 DEF Alone

(* The push of a creation comes from a checkout that is up to date; where  *)
(* a push changes anything, no other checkout stays up to date.            *)
LEMMA AlonePush ==
  ASSUME IInv, Alone, NEW k \in Call, Push(k) \/ PushUnanswered(k)
  PROVE  Alone'
<1>a. Busy(k) /\ call[k].user \in User /\ call[k].name \in Name /\ call[k].st = "committed"
  BY DEF IInv, Shapes, Push, PushUnanswered, Idle
<1> PICK u \in User : u = call[k].user
  BY <1>a
<1>1. /\ clone[u].fresh /\ origin' = clone[u].head /\ UNCHANGED row
      /\ torn \subseteq torn'
      /\ End(k) \/ (call[k].op # "declare" /\ Goes(k, "pushed"))
  BY DEF Push, PushUnanswered, Tears
<1>2. /\ \A j \in Call \ {k} : call'[j] = call[j]
      /\ call'[k].st \in {"idle", "pushed"}
      /\ \A m \in Name : Creating(k, m)' =>
            /\ m = call[k].name /\ call[k].op = "create"
            /\ call'[k].art = call[k].art
  <2>1. CASE End(k)
    <3>1. call'[k] = Idle /\ \A j \in Call \ {k} : call'[j] = call[j]
      BY <2>1, EndCall DEF IInv, OthersSame
    <3>2. call'[k].st = "idle"
      BY <3>1 DEF Idle
    <3> QED
      BY <3>1, <3>2 DEF Creating
  <2>2. CASE Goes(k, "pushed")
    BY <2>2, GoesCall DEF IInv, OthersSame, SameButStage, Creating
  <2> QED
    BY <1>1, <2>1, <2>2
<1>3. \A v \in User \ {u} : clone'[v].fresh => clone[v].fresh /\ origin' = origin
  <2>1. PICK mine \in CloneType : clone' = Published(u, mine)
    <3>1. /\ [clone[u] EXCEPT !.track = clone[u].head] \in CloneType
          /\ [ResetTo(clone[u]) EXCEPT !.fresh = clone[u].head = origin] \in CloneType
      BY DEF IInv, TypeOK, CloneType, ResetTo
    <3> QED
      BY <3>1 DEF Push, PushUnanswered
  <2> QED
    BY <1>1, <2>1, PublishedFacts DEF IInv
<1>4. AloneChecked'
  <2> SUFFICES ASSUME NEW j \in Call, NEW m \in Name \ torn', Checked(j)', m # call'[j].name
               PROVE  origin'[m] # call'[j].art /\ row'[m] # call'[j].art
    BY DEF AloneChecked
  <2>1. j # k
    BY <1>2 DEF Checked
  <2>2. call'[j] = call[j] /\ Busy(j) /\ call[j].user \in User \ {u}
    BY <1>a, <1>2, <2>1 DEF Checked, Busy, IInv, Shapes, Own
  <2>3. Checked(j) /\ origin' = origin
    BY <1>3, <2>2 DEF Checked
  <2> QED
    BY <1>1, <2>2, <2>3 DEF Alone, AloneChecked
<1>5. \A j \in Call \ {k}, m \in Name : Creating(j, m)' = Creating(j, m)
  BY <1>2 DEF Creating
<1>6. call[k].op = "create" => Checked(k)
  BY <1>a, <1>1 DEF Checked
<1>7. \A j \in Call, m \in Name \ torn : call[k].op = "create" /\ m # call[k].name
        => row[m] # call[k].art /\ (Creating(j, m) => call[j].art # call[k].art)
  BY <1>6 DEF Alone, AloneChecked, IInv, Pushed
<1>8. AlonePushed'
  <2> SUFFICES ASSUME NEW i \in Call, NEW n \in Name \ torn', NEW m \in Name \ torn',
                      Creating(i, n)', m # n
               PROVE  /\ row[m] # call'[i].art
                      /\ \A j \in Call : Creating(j, m)' => call'[j].art # call'[i].art
    BY <1>1 DEF AlonePushed
  <2>1. n \in Name \ torn /\ m \in Name \ torn
    BY <1>1
  <2>2. CASE i = k
    <3>1. n = call[k].name /\ call[k].op = "create" /\ call'[k].art = call[k].art
      BY <1>2, <2>2
    <3>2. \A j \in Call : Creating(j, m)' => j # k
      BY <1>2, <3>1
    <3> QED
      BY <1>2, <1>5, <1>7, <2>1, <2>2, <3>1, <3>2
  <2>3. CASE i # k
    <3>1. Creating(i, n) /\ call'[i] = call[i] /\ row[m] # call[i].art
      BY <1>2, <1>5, <2>1, <2>3 DEF Alone, AlonePushed
    <3> SUFFICES ASSUME NEW j \in Call, Creating(j, m)' PROVE call'[j].art # call'[i].art
      BY <3>1
    <3>2. CASE j # k
      BY <1>2, <1>5, <2>1, <3>1, <3>2 DEF Alone, AlonePushed
    <3>3. CASE j = k
      BY <1>2, <1>7, <2>1, <3>1, <3>3
    <3> QED
      BY <3>2, <3>3
  <2> QED
    BY <2>2, <2>3
<1>9. OneReleasePerArtifact'
  BY <1>1 DEF Alone, OneReleasePerArtifact
<1> QED
  BY <1>4, <1>8, <1>9 DEF Alone

(* What is committed was pushed.                                           *)
LEMMA AloneCommitCreate ==
  ASSUME IInv, Alone, NEW k \in Call, CommitCreate(k)
  PROVE  Alone'
<1>a. Busy(k) /\ call[k].name \in Name /\ call[k].art \in Art
  BY DEF IInv, Shapes, CommitCreate, Busy
<1> PICK n \in Name : n = call[k].name
  BY <1>a
<1> PICK a \in Art : a = call[k].art
  BY <1>a
<1>1. /\ End(k) /\ UNCHANGED <<origin, clone, torn>>
      /\ row' = [row EXCEPT ![n] = a] /\ Creating(k, n)
  BY DEF CommitCreate, Creating
<1>2. call'[k] = Idle /\ \A j \in Call \ {k} : call'[j] = call[j]
  BY <1>1, EndCall DEF IInv, OthersSame
<1>3. /\ row'[n] = a /\ \A m \in Name \ {n} : row'[m] = row[m]
      /\ n \notin torn => origin[n] = a
  BY <1>1 DEF IInv, TypeOK, Pushed
<1>4. \A j \in Call : /\ Checked(j)' => Checked(j) /\ j # k
                      /\ \A m \in Name : Creating(j, m)' => Creating(j, m) /\ j # k
  BY <1>1, <1>2 DEF Checked, Creating, Idle
<1>5. AloneChecked'
  BY <1>1, <1>2, <1>3, <1>4 DEF Alone, AloneChecked
<1>6. AlonePushed'
  BY <1>1, <1>2, <1>3, <1>4 DEF Alone, AlonePushed
<1>7. OneReleasePerArtifact'
  BY <1>1, <1>3, ReleasesAssumption DEF Alone, AlonePushed, OneReleasePerArtifact
<1> QED
  BY <1>5, <1>6, <1>7 DEF Alone

(* A deletion removes a row and adds nothing.                              *)
LEMMA AloneCommitDelete ==
  ASSUME IInv, Alone, NEW k \in Call, CommitDelete(k)
  PROVE  Alone'
<1>1. /\ UNCHANGED <<origin, clone, torn>>
      /\ \A m \in Name : row'[m] = row[m] \/ row'[m] = NoArt
  BY DEF CommitDelete, IInv, TypeOK
<1>2. \A j \in Call : call'[j].op = "create" => call'[j] = call[j]
  BY DEF CommitDelete, IInv, TypeOK, CallType, Idle
<1>3. \A j \in Call : /\ Checked(j)' => Checked(j) /\ call'[j] = call[j]
                      /\ \A m \in Name : Creating(j, m)' => Creating(j, m) /\ call'[j] = call[j]
  BY <1>1, <1>2 DEF Checked, Creating
<1>4. \A j \in Call : call[j].op = "create" => call[j].art # NoArt
  BY ReleasesAssumption DEF IInv, Shapes
<1>5. AloneChecked'
  BY <1>1, <1>3, <1>4 DEF Alone, AloneChecked, Checked
<1>6. AlonePushed'
  BY <1>1, <1>3, <1>4 DEF Alone, AlonePushed, Creating
<1>7. OneReleasePerArtifact'
  BY <1>1 DEF Alone, OneReleasePerArtifact
<1> QED
  BY <1>5, <1>6, <1>7 DEF Alone

LEMMA AloneStep == ASSUME ~Overlap, IInv, Alone, [Next]_vars PROVE Alone'
<1>1. CASE UNCHANGED vars
  BY <1>1 DEF vars, Alone, AloneChecked, AlonePushed, OneReleasePerArtifact, Checked, Creating
<1>2. CASE Next
  BY <1>2, AloneQuietStep, AloneCheck, AlonePush, AloneCommitCreate, AloneCommitDelete
<1> QED
  BY <1>1, <1>2

(* The table has an artifact at a commit under one name, however far the   *)
(* check for it is from the INSERT.                                        *)
THEOREM ReleasedOnce == ASSUME ~Overlap PROVE Spec => []OneReleasePerArtifact
<1>1. Init => Alone
  BY InvInit
<1>2. IInv /\ Alone /\ [Next]_vars => Alone'
  BY AloneStep
<1>3. Alone => OneReleasePerArtifact
  BY DEF Alone
<1> QED
  BY <1>1, <1>2, <1>3, Invariance, PTL DEF Spec

-----------------------------------------------------------------------------
(***************************************************************************)
(* The handlers keep the ledger.  What is needed beyond the invariants:    *)
(* the entry that a deletion drops was an internal one when it was loaded, *)
(* and is so at GitHub when a push is taken.                               *)
(***************************************************************************)

Drops(k) ==
    /\ call[k].op = "delete" /\ call[k].st \in {"loaded", "written", "committed"}
    /\ call[k].name \notin torn

DropsInternal == \A k \in Call : Drops(k) => clone[call[k].user].track[call[k].name] \in Art

LEMMA DropsKept ==
  ASSUME DropsInternal, torn \subseteq torn',
         \A j \in Call : Drops(j)' =>
            /\ Drops(j) /\ call'[j].name = call[j].name /\ call'[j].user = call[j].user
            /\ clone'[call[j].user].track = clone[call[j].user].track
  PROVE  DropsInternal'
  BY DEF DropsInternal

(* The steps of a request that has nothing to do with the entry it drops.  *)
LEMMA DropsQuiet ==
  ASSUME IInv, DropsInternal, NEW k \in Call, torn \subseteq torn',
         \A j \in Call \ {k} :
            /\ call'[j].op = call[j].op /\ call'[j].st = call[j].st
            /\ call'[j].name = call[j].name /\ call'[j].user = call[j].user,
         Drops(k)' => /\ Drops(k)
                      /\ call'[k].name = call[k].name /\ call'[k].user = call[k].user,
         \A v \in User : v # call[k].user \/ Drops(k)' => clone'[v].track = clone[v].track
  PROVE  DropsInternal'
<1>1. ASSUME NEW j \in Call, Drops(j)'
      PROVE  /\ Drops(j) /\ call'[j].name = call[j].name /\ call'[j].user = call[j].user
             /\ clone'[call[j].user].track = clone[call[j].user].track
  <2>1. /\ Drops(j) /\ call'[j].name = call[j].name /\ call'[j].user = call[j].user
    BY <1>1 DEF Drops
  <2>2. Busy(j) /\ call[j].user \in User
    BY <2>1 DEF Drops, Busy, IInv, Shapes
  <2>3. CASE j = k
    BY <1>1, <2>1, <2>2, <2>3
  <2>4. CASE j # k /\ Busy(k)
    BY <2>1, <2>2, <2>4 DEF IInv, Own
  <2>5. CASE j # k /\ ~Busy(k)
    <3>1. call[k].user = NoUser
      BY <2>5 DEF IInv, Shapes, Idle
    <3> QED
      BY <2>1, <2>2, <3>1, ReleasesAssumption
  <2> QED
    BY <2>3, <2>4, <2>5
<1> QED
  BY <1>1, DropsKept

LEMMA DropsStep == ASSUME IInv, ~Overlap, DropsInternal, [Next]_vars PROVE DropsInternal'
<1>0. TypeOK
  BY DEF IInv
<1>1. ASSUME NEW k \in Call, NEW u \in User, NEW n \in Name,
             \/ \E a \in Art : CreateRelease(k, u, n, a)
             \/ DeclareRelease(k, u, n) \/ DeleteRelease(k, u, n)
      PROVE  DropsInternal'
  <2>1. PICK new : new.st = "begun" /\ call' = [call EXCEPT ![k] = new]
    BY <1>1 DEF CreateRelease, DeclareRelease, DeleteRelease, Begin, Idle
  <2>2. call'[k].st = "begun" /\ \A j \in Call \ {k} : call'[j] = call[j]
    BY <1>0, <2>1 DEF TypeOK
  <2>3. UNCHANGED <<clone, torn>>
    BY <1>1 DEF CreateRelease, DeclareRelease, DeleteRelease, Begin
  <2> QED
    BY <2>2, <2>3, DropsQuiet DEF Drops
<1>2. ASSUME NEW k \in Call, LoadForDeleting(k) PROVE DropsInternal'
  <2>1. /\ SameButStage(k) /\ OthersSame(k) /\ UNCHANGED <<clone, torn>>
        /\ Tree(k)[call[k].name] \in Art /\ call[k].op = "delete" /\ call[k].st = "ready"
    <3>1. Busy(k) /\ call[k].user \in User
      BY <1>2 DEF LoadForDeleting, Busy, IInv, Shapes
    <3>2. Tree(k) \in Entries
      BY <1>0, <3>1 DEF Tree, TypeOK, CloneType
    <3> QED
      BY <1>0, <1>2, <3>2, LoadCall DEF LoadForDeleting, Ready
  <2>2. Busy(k) /\ call[k].user \in User /\ call[k].name \in Name
    BY <2>1 DEF Busy, IInv, Shapes
  <2>3. call[k].name \notin torn => clone[call[k].user].track[call[k].name] \in Art
    BY <2>1, <2>2, OwnClean DEF Clean, Tree
  <2> QED
    BY <2>1, <2>3 DEF DropsInternal, Drops, SameButStage, OthersSame
<1>3. ASSUME NEW k \in Call,
             RefreshSkipped(k) \/ Check(k) \/ Flush(k) \/ NothingToDelete(k)
      PROVE  DropsInternal'
  <2>1. PICK st \in {"ready", "checked", "flushed", "pushed"} :
           Goes(k, st) /\ UNCHANGED clone /\ torn \subseteq torn'
    BY <1>3 DEF RefreshSkipped, Check, Flush, NothingToDelete, Tears
  <2>2. call'[k].st = st /\ OthersSame(k)
    BY <1>0, <2>1, GoesCall
  <2> QED
    BY <2>1, <2>2, DropsQuiet DEF Drops, OthersSame
<1>4. ASSUME NEW k \in Call, LoadForAdding(k) PROVE DropsInternal'
  <2>1. call'[k].op # "delete" /\ \A j \in Call \ {k} : call'[j] = call[j]
    BY <1>0, <1>4 DEF LoadForAdding, TypeOK, CallType
  <2> QED
    BY <1>4, <2>1, DropsQuiet DEF Drops, LoadForAdding
<1>5. ASSUME NEW k \in Call, Refresh(k) PROVE DropsInternal'
  <2>1. call'[k].st = "ready" /\ OthersSame(k)
    BY <1>0, <1>5, GoesCall DEF Refresh
  <2>2. \A v \in User \ {call[k].user} : clone'[v] = clone[v]
    BY <1>0, <1>5 DEF Refresh, TypeOK
  <2> QED
    BY <1>5, <2>1, <2>2, DropsQuiet DEF Refresh, Drops, OthersSame
<1>6. ASSUME NEW k \in Call, WriteFile(k) \/ GitCommit(k) PROVE DropsInternal'
  <2>0. call[k].user \in User
    BY <1>6 DEF WriteFile, GitCommit, IInv, Shapes, Idle
  <2>1. /\ SameButStage(k) /\ OthersSame(k) /\ UNCHANGED torn
        /\ call[k].st \in {"loaded", "written"}
    BY <1>0, <1>6, GoesCall, LoadCall, NoneEntries DEF WriteFile, GitCommit
  <2>2. \A v \in User : clone'[v].track = clone[v].track
    BY <1>0, <1>6, <2>0 DEF WriteFile, GitCommit, TypeOK, CloneType
  <2> QED
    BY <2>1, <2>2, DropsQuiet DEF Drops, OthersSame, SameButStage
<1>7. ASSUME NEW k \in Call, GitFails(k) \/ Fail(k) PROVE DropsInternal'
  <2>1. call'[k].op = "none" /\ OthersSame(k) /\ torn \subseteq torn'
    BY <1>0, <1>7, EndCall DEF GitFails, Fail, Tears, Idle
  <2>2. \A v \in User : clone'[v].track = clone[v].track
    <3>1. CASE Fail(k)
      BY <3>1 DEF Fail
    <3>2. CASE GitFails(k)
      <4>1. \A v \in User : clone'[v] = clone[v] \/ clone'[v] = ResetTo(clone[v])
        BY <1>0, <3>2 DEF GitFails, TypeOK
      <4> QED
        BY <1>0, <4>1 DEF TypeOK, CloneType, ResetTo
    <3> QED
      BY <1>7, <3>1, <3>2
  <2> QED
    BY <2>1, <2>2, DropsQuiet DEF Drops, OthersSame
<1>8. ASSUME NEW k \in Call, Push(k) \/ PushUnanswered(k) PROVE DropsInternal'
  <2>0. Busy(k) /\ call[k].user \in User
    BY <1>8 DEF Push, PushUnanswered, IInv, Shapes, Idle
  <2>1. call'[k].st \in {"pushed", "idle"} /\ OthersSame(k) /\ torn \subseteq torn'
    BY <1>0, <1>8, GoesCall, EndCall DEF Push, PushUnanswered, Tears, Idle
  <2>2. PICK mine \in CloneType : clone' = Published(call[k].user, mine)
    <3>1. clone[call[k].user] \in CloneType
      BY <1>0, <2>0 DEF TypeOK
    <3>2. \A yes \in BOOLEAN :
             /\ [clone[call[k].user] EXCEPT !.track = clone[call[k].user].head] \in CloneType
             /\ [ResetTo(clone[call[k].user]) EXCEPT !.fresh = yes] \in CloneType
      BY <3>1 DEF CloneType, ResetTo
    <3> QED
      BY <1>8, <3>2 DEF Push, PushUnanswered
  <2>3. \A v \in User \ {call[k].user} : clone'[v].track = clone[v].track
    BY <1>0, <2>0, <2>2, PublishedFacts
  <2> QED
    BY <2>1, <2>3, DropsQuiet DEF Drops, OthersSame
<1>9. ASSUME NEW k \in Call, CommitCreate(k) PROVE DropsInternal'
  <2>1. call'[k].op = "none" /\ OthersSame(k)
    BY <1>0, <1>9, EndCall DEF CommitCreate, Idle
  <2> QED
    BY <1>9, <2>1, DropsQuiet DEF CommitCreate, Drops, OthersSame
<1>10. ASSUME NEW k \in Call, CommitDelete(k) PROVE DropsInternal'
  <2>1. \A j \in Call : call[j] \in CallType
    BY <1>0 DEF TypeOK
  <2>2. \A j \in Call :
           \/ j = k /\ call'[j] = Idle
           \/ j # k /\ (call'[j] = call[j] \/ call'[j] = [call[j] EXCEPT !.stale = TRUE])
    BY <1>10 DEF CommitDelete
  <2>3. call'[k].op = "none"
    <3>1. call'[k] = Idle
      BY <1>10, <2>2
    <3> QED
      BY <3>1 DEF Idle
  <2>4. \A j \in Call \ {k} :
           /\ call'[j].op = call[j].op /\ call'[j].st = call[j].st
           /\ call'[j].name = call[j].name /\ call'[j].user = call[j].user
    BY <2>1, <2>2 DEF CallType
  <2> QED
    BY <1>10, <2>3, <2>4, DropsQuiet DEF CommitDelete, Drops
<1>11. CASE OtherPush
  <2>1. UNCHANGED <<call, torn>>
    BY <1>11 DEF OtherPush
  <2>2. \A v \in User : clone'[v].track = clone[v].track
    BY <1>0, <1>11 DEF OtherPush, TypeOK, CloneType
  <2>3. \A j \in Call : Drops(j) => call[j].user \in User
    BY DEF Drops, IInv, Shapes, Busy
  <2> QED
    BY <2>1, <2>2, <2>3, DropsKept DEF Drops
<1>12. CASE UNCHANGED vars
  BY <1>12, DropsKept DEF vars, Drops
<1> QED
  BY <1>1, <1>2, <1>3, <1>4, <1>5, <1>6, <1>7, <1>8, <1>9, <1>10, <1>11, <1>12 DEF Next

-----------------------------------------------------------------------------

(* What the ledger sees of a step.                                         *)
LEMMA LedgerStays ==
  ASSUME torn' = torn, \A m \in Name \ torn : row'[m] = row[m] /\ origin'[m] = origin[m]
  PROVE  UNCHANGED Ledger!lvars
  BY DEF Ledger!lvars, Known

LEMMA LedgerLoses ==
  ASSUME NEW n \in Name, torn' = torn \cup {n},
         \A m \in Name \ (torn \cup {n}) : row'[m] = row[m] /\ origin'[m] = origin[m]
  PROVE  Ledger!Lose(n)
  BY DEF Ledger!Lose, Known

LEMMA LedgerEntry ==
  ASSUME NEW n \in Name \ torn, torn' = torn, row' = row,
         \A m \in Name \ torn : m # n => origin'[m] = origin[m]
  PROVE  /\ Known(origin)' = [Known(origin) EXCEPT ![n] = origin'[n]]
         /\ Known(row)' = Known(row)
  BY DEF Known

LEMMA LedgerRecord ==
  ASSUME NEW n \in Name \ torn, torn' = torn, origin' = origin,
         \A m \in Name \ torn : m # n => row'[m] = row[m]
  PROVE  /\ Known(row)' = [Known(row) EXCEPT ![n] = row'[n]]
         /\ Known(origin)' = Known(origin)
  BY DEF Known

LEMMA KnownAt ==
  /\ \A n \in Name \ torn : Known(row)[n] = row[n] /\ Known(origin)[n] = origin[n]
  /\ \A n \in torn \cap Name : Known(row)[n] = NoArt /\ Known(origin)[n] = NoArt
  BY DEF Known

(* A push publishes or withdraws an entry.                                 *)
LEMMA LedgerPush ==
  ASSUME IInv, Alone, DropsInternal, NEW k \in Call, Push(k) \/ PushUnanswered(k)
  PROVE  [Ledger!LedgerNext]_(Ledger!lvars)
<1>a. Busy(k) /\ call[k].user \in User /\ call[k].name \in Name /\ call[k].st = "committed"
  BY DEF IInv, Shapes, Push, PushUnanswered, Idle
<1> PICK u \in User : u = call[k].user
  BY <1>a
<1> PICK n \in Name : n = call[k].name
  BY <1>a
<1>1. clone[u].fresh /\ origin' = clone[u].head /\ UNCHANGED row
  BY DEF Push, PushUnanswered
<1>2. /\ clone[u].track = origin /\ origin'[n] = NewEntry(call[k])
      /\ \A m \in Name \ torn : m # n => origin'[m] = origin[m]
      /\ call[k].op \in {"create", "declare"} /\ n \notin torn => origin[n] = NoArt
  BY <1>a, <1>1, PushFacts
<1>3. torn' = torn \/ torn' = torn \cup {n}
  BY DEF Push, PushUnanswered, Tears
<1>4. CASE torn' = torn \cup {n}
  <2>1. Ledger!Lose(n)
    BY <1>1, <1>2, <1>4, LedgerLoses
  <2> QED
    BY <2>1 DEF Ledger!LedgerNext
<1>5. CASE torn' = torn /\ n \in torn
  BY <1>1, <1>2, <1>5, LedgerStays
<1>6. CASE torn' = torn /\ n \notin torn
  <2>1. /\ Known(origin)' = [Known(origin) EXCEPT ![n] = origin'[n]]
        /\ Known(row)' = Known(row)
    BY <1>1, <1>2, <1>6, LedgerEntry
  <2>2. Known(row)[n] = row[n] /\ Known(origin)[n] = origin[n]
    BY <1>6, KnownAt
  <2>3. CASE call[k].op = "create"
    <3>1. origin'[n] = call[k].art /\ call[k].art \in Art /\ origin[n] = NoArt
      BY <1>2, <1>6, <2>3 DEF NewEntry, IInv, Shapes
    <3>2. row[n] = NoArt
      BY <1>a, <2>3 DEF IInv, Holders, HoldsName
    <3>3. \A m \in Name \ torn : m # n => origin[m] # call[k].art /\ row[m] # call[k].art
      BY <1>a, <1>1, <2>3 DEF Alone, AloneChecked, Checked
    <3>4. \A m \in Name : Known(row)[m] # call[k].art /\ Known(origin)[m] # call[k].art
      BY <3>1, <3>2, <3>3, KnownAt, ReleasesAssumption
    <3>5. Ledger!Publish(n, call[k].art)
      BY <1>6, <2>1, <2>2, <3>1, <3>2, <3>4 DEF Ledger!Publish
    <3> QED
      BY <3>1, <3>5 DEF Ledger!LedgerNext
  <2>4. CASE call[k].op = "declare"
    <3>1. origin'[n] = External /\ origin[n] = NoArt /\ External \notin Art
      BY <1>2, <1>6, <2>4, ReleasesAssumption DEF NewEntry
    <3>2. Ledger!Publish(n, External)
      BY <1>6, <2>1, <2>2, <3>1 DEF Ledger!Publish
    <3> QED
      BY <3>2 DEF Ledger!LedgerNext
  <2>5. CASE call[k].op = "delete"
    <3>1. origin'[n] = NoArt /\ origin[n] \in Art
      BY <1>a, <1>2, <1>6, <2>5 DEF NewEntry, IInv, Shapes, DropsInternal, Drops
    <3>2. ~call[k].stale
      <4>1. CASE Push(k)
        BY <1>6, <4>1 DEF Push, Tears
      <4>2. CASE PushUnanswered(k)
        BY <1>6, <4>2 DEF PushUnanswered, Tears
      <4> QED
        BY <4>1, <4>2
    <3>3. row[n] # NoArt
      BY <2>5, <3>2 DEF IInv, LiveRow
    <3>4. origin[n] = row[n]
      BY <1>6, <3>1, <3>3 DEF IInv, Accounted, Pushed
    <3>5. Ledger!Withdraw(n)
      BY <1>6, <2>1, <2>2, <3>1, <3>4 DEF Ledger!Withdraw
    <3> QED
      BY <3>5 DEF Ledger!LedgerNext
  <2>6. call[k].op \in {"create", "declare", "delete"}
    BY <1>a DEF Busy, IInv, TypeOK, CallType
  <2> QED
    BY <2>3, <2>4, <2>5, <2>6
<1> QED
  BY <1>3, <1>4, <1>5, <1>6

(* The table follows: a row is added for an entry, or goes without one.    *)
LEMMA LedgerCommit ==
  ASSUME IInv, NEW k \in Call, CommitCreate(k) \/ CommitDelete(k)
  PROVE  [Ledger!LedgerNext]_(Ledger!lvars)
<1>1. /\ Busy(k) /\ call[k].name \in Name /\ call[k].st = "pushed" /\ UNCHANGED <<origin, torn>>
      /\ call[k].op \in {"create", "delete"}
  BY DEF CommitCreate, CommitDelete, Busy, IInv, Shapes
<1> PICK n \in Name : n = call[k].name
  BY <1>1
<1>2. row \in [Name -> Art \cup {NoArt}]
  BY DEF IInv, TypeOK
<1>3. \A m \in Name \ {n} : row'[m] = row[m]
  BY <1>1, <1>2 DEF CommitCreate, CommitDelete
<1>4. CASE n \in torn
  BY <1>1, <1>3, <1>4, LedgerStays
<1>5. CASE n \notin torn /\ CommitCreate(k)
  <2>1. Creating(k, n) /\ HoldsName(k) /\ call[k].art \in Art
    BY <1>1, <1>5 DEF CommitCreate, Creating, HoldsName, IInv, Shapes
  <2>2. origin[n] = call[k].art /\ row[n] = NoArt /\ row'[n] = call[k].art
    BY <1>2, <1>5, <2>1 DEF IInv, Pushed, Holders, CommitCreate
  <2>3. Known(row)' = [Known(row) EXCEPT ![n] = row'[n]] /\ Known(origin)' = Known(origin)
    BY <1>1, <1>3, <1>5, LedgerRecord
  <2>4. Known(row)[n] = row[n] /\ Known(origin)[n] = origin[n]
    BY <1>5, KnownAt
  <2>5. Ledger!Record(n)
    BY <1>1, <2>1, <2>2, <2>3, <2>4 DEF Ledger!Record
  <2> QED
    BY <2>5 DEF Ledger!LedgerNext
<1>6. CASE n \notin torn /\ CommitDelete(k) /\ call[k].stale
  BY <1>1, <1>6, LedgerStays DEF CommitDelete
<1>7. CASE n \notin torn /\ CommitDelete(k) /\ ~call[k].stale
  <2>1. Deleting(k, n)
    BY <1>1, <1>7 DEF CommitDelete, Deleting
  <2>2. origin[n] \notin Art /\ row[n] \in Art /\ row'[n] = NoArt
    BY <1>2, <1>7, <2>1 DEF IInv, Pushed, LiveRow, CommitDelete, Deleting
  <2>3. Known(row)' = [Known(row) EXCEPT ![n] = row'[n]] /\ Known(origin)' = Known(origin)
    BY <1>1, <1>3, <1>7, LedgerRecord
  <2>4. Known(row)[n] = row[n] /\ Known(origin)[n] = origin[n]
    BY <1>7, KnownAt
  <2>5. Ledger!Erase(n)
    BY <1>1, <2>2, <2>3, <2>4 DEF Ledger!Erase
  <2> QED
    BY <2>5 DEF Ledger!LedgerNext
<1> QED
  BY <1>4, <1>5, <1>6, <1>7

LEMMA LedgerStep ==
  ASSUME IInv, Alone, DropsInternal, [Next]_vars
  PROVE  [Ledger!LedgerNext]_(Ledger!lvars)
<1>1. CASE UNCHANGED <<row, origin, torn>>
  BY <1>1, LedgerStays
<1>2. ASSUME NEW k \in Call, NothingToDelete(k) \/ Fail(k) PROVE [Ledger!LedgerNext]_(Ledger!lvars)
  <2>1. UNCHANGED <<row, origin>> /\ (torn' = torn \/ torn' = torn \cup {call[k].name})
    BY <1>2 DEF NothingToDelete, Fail, Tears
  <2>2. call[k].name \in Name
    BY <1>2 DEF NothingToDelete, Fail, IInv, Shapes, Busy, Idle
  <2>3. CASE torn' = torn
    BY <1>1, <2>1, <2>3
  <2>4. CASE torn' = torn \cup {call[k].name}
    <3>1. Ledger!Lose(call[k].name)
      BY <2>1, <2>2, <2>4, LedgerLoses
    <3> QED
      BY <2>2, <3>1 DEF Ledger!LedgerNext
  <2> QED
    BY <2>1, <2>3, <2>4
<1>3. CASE UNCHANGED vars
  BY <1>1, <1>3 DEF vars
<1>4. ASSUME NEW k \in Call, NEW u \in User, NEW n \in Name,
             \/ \E a \in Art : CreateRelease(k, u, n, a)
             \/ DeclareRelease(k, u, n) \/ DeleteRelease(k, u, n)
      PROVE  [Ledger!LedgerNext]_(Ledger!lvars)
  BY <1>1, <1>4 DEF CreateRelease, DeclareRelease, DeleteRelease, Begin
<1>5. ASSUME NEW k \in Call,
             \/ Refresh(k) \/ RefreshSkipped(k) \/ Check(k) \/ Flush(k) \/ LoadForAdding(k)
             \/ LoadForDeleting(k) \/ WriteFile(k) \/ GitCommit(k) \/ GitFails(k)
      PROVE  [Ledger!LedgerNext]_(Ledger!lvars)
  BY <1>1, <1>5 DEF Refresh, RefreshSkipped, Check, Flush, LoadForAdding, LoadForDeleting,
                    WriteFile, GitCommit, GitFails
<1>6. CASE OtherPush
  BY <1>1, <1>6 DEF OtherPush
<1> QED
  BY <1>2, <1>3, <1>4, <1>5, <1>6, LedgerPush, LedgerCommit DEF Next

LEMMA LedgerInitially == ASSUME Init PROVE Ledger!LedgerInit /\ DropsInternal
<1>1. Ledger!LedgerInit
  BY DEF Init, Ledger!LedgerInit, Ledger!Nothing, Known, None
<1>2. DropsInternal
  BY DEF Init, DropsInternal, Drops, Idle
<1> QED
  BY <1>1, <1>2

(* The handlers, with their checkouts, pushes and commits, implement the   *)
(* ledger: a push adds one entry that was free or drops one whose row goes *)
(* next, rows follow entries, and no artifact is released twice            *)
(* (releases.py 417, 508, 630, 707, 1126).                                 *)
THEOREM ReleasesKeepTheLedger == ASSUME ~Overlap PROVE Spec => KeepsLedger
<1>1. Init => Alone /\ DropsInternal /\ Ledger!LedgerInit
  BY InvInit, LedgerInitially
<1>2. IInv /\ Alone /\ DropsInternal /\ [Next]_vars => Alone' /\ DropsInternal'
  BY AloneStep, DropsStep
<1>3. IInv /\ Alone /\ DropsInternal /\ [Next]_vars => [Ledger!LedgerNext]_(Ledger!lvars)
  BY LedgerStep
<1> QED
  BY <1>1, <1>2, <1>3, Invariance, PTL DEF Spec, KeepsLedger, Ledger!LedgerSpec
=============================================================================
