-------------------------- MODULE ProjectViewsProofs -------------------------
(***************************************************************************)
(* Proofs about the views, for any sources, artifacts, issues, documents   *)
(* and number of steps: the LaTeX preview answers as CompileService does, a *)
(* release of a stale artifact was acknowledged for it, the PDF viewer     *)
(* shows the matches of its query, the to-do list keeps what it expects,   *)
(* and every dialog's list ends up with the changes made.  Part by part;   *)
(* the last section puts them together.                                    *)
(***************************************************************************)
EXTENDS ProjectViews, TLAPS, FiniteSetTheorems

(***************************************************************************)
(* The preview.  A compilation that awaits has its sources, and the cached *)
(* result is that of the cached key.                                       *)
(***************************************************************************)

CacheIsOfKey == lastKey # NoSource => lastKey \in Source /\ lastResult = Ran(lastKey)

Awaiting == (step # "idle" => request \in Source) /\ (pending => step = "wait")

CompilerInv == src \in Source /\ CacheIsOfKey /\ Awaiting

LEMMA PreviewInitially == ASSUME PreviewInit PROVE CompilerInv /\ Service!ServiceInit
  BY DEF PreviewInit, CompilerInv, CacheIsOfKey, Awaiting, Service!ServiceInit, NoReply,
         Service!NoReply

LEMMA PreviewStep ==
  ASSUME CompilerInv, [PreviewNext]_pvars
  PROVE  CompilerInv' /\ [Service!ServiceNext]_Service!svars
<1> USE LatexPreviewAssumption
<1> USE DEF CompilerInv, CacheIsOfKey, Awaiting, compilerVars, resultVars, editing,
            Service!ServiceNext, Service!svars, Service!Ask, Service!Abandon
<1>1. CASE Open
  BY <1>1 DEF Open, CompileIf, Compile
<1>2. ASSUME NEW s \in Source, MarkDirty(s)
      PROVE  CompilerInv' /\ [Service!ServiceNext]_Service!svars
  BY <1>2 DEF MarkDirty
<1>3. ASSUME NEW s \in Source, PullMerged(s)
      PROVE  CompilerInv' /\ [Service!ServiceNext]_Service!svars
  BY <1>3 DEF PullMerged, CompileIf, Compile
<1>4. CASE ToggleAuto \/ SelectPath
  BY <1>4 DEF ToggleAuto, SelectPath
<1>5. CASE TimerFires \/ CompileManually
  BY <1>5 DEF TimerFires, CompileManually, Compile
<1>6. CASE EngineLoads
  BY <1>6 DEF EngineLoads
<1>7. ASSUME NEW r \in Service!Outcomes(request), request \in Source, Finish(r)
      PROVE  Service!Answer /\ (step' # "idle" => request' \in Source)
  BY <1>7 DEF Finish, Service!Answer
<1>8. CASE Dispatch
  <2>1. CASE request = lastKey
    <3>1. request \in Source /\ Finish(lastResult) /\ lastResult = Ran(request)
      BY <1>8, <2>1 DEF Dispatch
    <3>2. lastResult \in Service!Outcomes(request)
      BY <3>1 DEF Ran, Service!Outcomes
    <3>3. Service!Answer /\ (step' # "idle" => request' \in Source)
      BY <1>7, <3>1, <3>2
    <3>4. UNCHANGED <<src, pending, lastKey, lastResult>> /\ ~pending'
      BY <1>8, <2>1 DEF Dispatch
    <3> QED
      BY <3>3, <3>4
  <2>2. CASE request # lastKey
    BY <1>8, <2>2 DEF Dispatch
  <2> QED
    BY <2>1, <2>2
<1>9. CASE RejectInit
  <2>1. request \in Source /\ Finish(Error(request))
    BY <1>9 DEF RejectInit
  <2>2. Error(request) \in Service!Outcomes(request)
    BY DEF Error, Service!Outcomes
  <2>3. Service!Answer /\ (step' # "idle" => request' \in Source)
    BY <1>7, <2>1, <2>2
  <2> QED
    BY <1>9, <2>3 DEF RejectInit
<1>10. CASE EngineAnswers
  BY <1>7, <1>10 DEF EngineAnswers, Ran, Service!Outcomes
<1>11. CASE EngineThrows
  BY <1>7, <1>11 DEF EngineThrows, Error, Service!Outcomes
<1>12. CASE Unmount
  BY <1>12 DEF Unmount, NoReply, Service!NoReply
<1>13. CASE UNCHANGED pvars
  BY <1>13 DEF pvars
<1> QED
  BY <1>1, <1>2, <1>3, <1>4, <1>5, <1>6, <1>8, <1>9, <1>10, <1>11, <1>12, <1>13 DEF PreviewNext

(* Whatever compile() shows is the outcome of the sources that were asked   *)
(* for: every step of the preview is a step of the service, or a stutter    *)
(* (LatexEditor.tsx 224-262, latexCompiler.ts).                             *)
THEOREM PreviewImplementsService ==
  PreviewInit /\ [][PreviewNext]_pvars => Service!ServiceInit /\ [][Service!ServiceNext]_Service!svars
<1>1. PreviewInit => CompilerInv /\ Service!ServiceInit
  BY PreviewInitially
<1>2. CompilerInv /\ [PreviewNext]_pvars => CompilerInv' /\ [Service!ServiceNext]_Service!svars
  BY PreviewStep
<1> QED
  BY <1>1, <1>2, PTL

-----------------------------------------------------------------------------
(***************************************************************************)
(* The release dialog.  A box that is ticked was ticked for the path in    *)
(* the field, or the debounce of the path is running.                      *)
(***************************************************************************)

AckIsOfPath == acknowledged => ackFor = path \/ pathTimer

PostIsAcknowledged ==
    posting.kind = "create" /\ posting.ack => posting.as.ackFor = posting.as.path \/ posting.as.early

FormInv == FormTypeOK /\ AckIsOfPath /\ PostIsAcknowledged /\ StaleOnlyAcknowledged

LEMMA FormInitially == ASSUME FormInit PROVE FormInv
<1>1. FormTypeOK
  <2>1. {formOpen, acknowledged, pathTimer, parsing, fetched, success} \subseteq BOOLEAN
    BY DEF FormInit
  <2>2. posting \in {NoPost, [kind |-> "import"]} /\ released \subseteq Released
    BY DEF FormInit
  <2>3. path \in ReleasePath /\ stalenessPath \in ReleasePath /\ posted \in 0..MaxReleases
    BY ReleaseFormAssumption DEF FormInit, ReleasePath
  <2> QED
    BY <2>1, <2>2, <2>3 DEF FormInit, FormTypeOK
<1>2. posting.kind = "none"
  BY DEF FormInit, NoPost
<1> QED
  BY <1>1, <1>2 DEF FormInit, FormInv, AckIsOfPath, PostIsAcknowledged, StaleOnlyAcknowledged

LEMMA FormStep == ASSUME FormInv, [FormNext]_formVars PROVE FormInv'
<1> USE ReleaseFormAssumption
<1> USE DEF FormInv, FormTypeOK, AckIsOfPath, PostIsAcknowledged, StaleOnlyAcknowledged, NoPost,
            ReleasePath, Released, gateVars, sentVars, SetPath, ResetFields
<1>1. CASE OpenForm
  BY <1>1 DEF OpenForm
<1>2. ASSUME NEW p \in ReleasePath, PickPath(p) PROVE FormInv'
  BY <1>2 DEF PickPath
<1>3. CASE PathSettles
  BY <1>3 DEF PathSettles
<1>4. CASE AskStaleness
  BY <1>4 DEF AskStaleness, StalenessEnabled
<1>5. ASSUME NEW p \in ReleasePath, StalenessAnswers(p) PROVE FormInv'
  BY <1>5 DEF StalenessAnswers
<1>6. CASE TickAcknowledge
  BY <1>6 DEF TickAcknowledge
<1>7. CASE SwitchMode
  BY <1>7 DEF SwitchMode
<1>13. CASE LookUp
  BY <1>13 DEF LookUp
<1>14. CASE ParseAnswers
  BY <1>14 DEF ParseAnswers
<1>8. CASE SubmitRelease
  BY <1>8 DEF SubmitRelease
<1>9. ASSUME NEW h \in BOOLEAN, PostSucceeds(h) PROVE FormInv'
  <2>1. posting' = NoPost /\ posted' = posted + 1 /\ posted < MaxReleases
    BY <1>9 DEF PostSucceeds
  <2>2. released' \in {released, released \cup {posting.as}} /\ (released' = released \/ posting.kind = "create")
    BY <1>9 DEF PostSucceeds
  <2>3. posting.kind = "create" => posting.as \in Released /\ ServerAccepts(posting)
    BY <1>9 DEF PostSucceeds
  <2>4. /\ mode' \in {"create", mode} /\ formOpen' \in {FALSE, formOpen} /\ fetched' \in {FALSE, fetched}
        /\ success' \in BOOLEAN /\ parsing' = parsing
    BY <1>9 DEF PostSucceeds
  <2>5. /\ path' \in ReleasePath /\ acknowledged' = FALSE /\ ackFor' = Unasked /\ pathTimer' \in BOOLEAN
        /\ UNCHANGED <<stalenessPath, looked, looking>>
    BY <1>9 DEF PostSucceeds
  <2>6. FormTypeOK'
    <3>1. ({formOpen, acknowledged, pathTimer, parsing, fetched, success} \subseteq BOOLEAN)'
      BY <2>4, <2>5
    <3>2. (posted \in 0..MaxReleases)' /\ (released \subseteq Released)'
      BY <2>1, <2>2, <2>3
    <3> QED
      BY <2>1, <2>4, <2>5, <3>1, <3>2
  <2>7. StaleOnlyAcknowledged'
    BY <2>2, <2>3 DEF ServerAccepts
  <2> QED
    BY <2>1, <2>5, <2>6, <2>7
<1>10. CASE PostFails
  BY <1>10 DEF PostFails
<1>11. CASE CloseForm
  BY <1>11 DEF CloseForm
<1>12. CASE UNCHANGED formVars
  BY <1>12 DEF formVars
<1> QED
  BY <1>1, <1>2, <1>3, <1>4, <1>5, <1>6, <1>7, <1>8, <1>9, <1>10, <1>11, <1>12,
     <1>13, <1>14 DEF FormNext

(* No stale artifact is released on an acknowledgement given for another,   *)
(* unless the dialog was submitted within the debounce of its path          *)
(* (NewRelease.tsx 145-155).                                                *)
THEOREM StaleReleasesAcknowledged == FormSpec => []StaleOnlyAcknowledged
<1>1. FormInit => FormInv
  BY FormInitially
<1>2. FormInv /\ [FormNext]_formVars => FormInv'
  BY FormStep
<1>3. FormInv => StaleOnlyAcknowledged
  BY DEF FormInv
<1> QED
  BY <1>1, <1>2, <1>3, PTL DEF FormSpec

-----------------------------------------------------------------------------
(***************************************************************************)
(* The PDF viewer.  A search that awaits the index has a number of its     *)
(* own, and the latest is of what the box says once the debounce is over.  *)
(***************************************************************************)

OfQuery ==
    /\ \A s, t \in searches : s.seq = t.seq => s = t
    /\ searchOpen /\ ~debounce => \A s \in searches : s.seq = searchSeq => s.q = query

PdfInv == PdfTypeOK /\ OfQuery /\ SearchShowsQuery

LEMMA PdfStarts == PdfInit => PdfInv
<1> SUFFICES ASSUME PdfInit PROVE PdfInv
  OBVIOUS
<1>1. PdfTypeOK
  <2>1. {paged, rendered, frame, focused, searchOpen, debounce, indexed, searching} \subseteq BOOLEAN
        /\ unread \in BOOLEAN
    BY DEF PdfInit
  <2>2. top \in Page /\ current \in Page /\ pageInput \in 0..NumPages + 1
    BY PdfViewerAssumption DEF PdfInit, Page
  <2>3. query \in SearchText \cup {NoText} /\ searchSeq \in 0..MaxSearches
        /\ searches \subseteq [seq : 1..searchSeq, q : SearchText]
    BY PdfViewerAssumption DEF PdfInit
  <2>4. matchPages \in Seq(Page) /\ matchIdx = 0
    BY DEF PdfInit
  <2> QED BY <2>1, <2>2, <2>3, <2>4 DEF PdfTypeOK
<1> QED BY <1>1 DEF PdfInit, PdfInv, OfQuery, SearchShowsQuery

(* Where a jump to a page leaves the viewer.                               *)
LEMMA GoToPageFacts ==
    ASSUME PdfTypeOK, NEW n \in Int, GoToPage(n)
    PROVE  /\ top' \in Page /\ current' \in Page /\ frame' \in BOOLEAN
           /\ pageInput' \in 0..NumPages + 1
<1>1. Limit(n, 1, NumPages) \in Page /\ \A p \in Page : Limit(p, 1, LastTop) \in Page
  BY PdfViewerAssumption DEF Limit, Page
<1>2. CASE ~rendered
  BY <1>2 DEF GoToPage, GoToPageWith, PdfTypeOK
<1>3. CASE rendered
  <2>1. current' = Limit(n, 1, NumPages) /\ pageInput' \in {current', pageInput}
        /\ top' \in {current', Limit(current', 1, LastTop)} /\ frame' = (frame \/ top' # top)
    BY <1>3 DEF GoToPage, GoToPageWith, SetCurrent
  <2>2. current' \in Page
    BY <1>1, <2>1
  <2>3. current' \in 0..NumPages + 1
    BY <2>2, PdfViewerAssumption DEF Page
  <2>4. pageInput \in 0..NumPages + 1
    BY DEF PdfTypeOK
  <2> QED BY <1>1, <2>1, <2>2, <2>3, <2>4
<1> QED BY <1>2, <1>3

(* The steps of the pages and the page field.                              *)
LEMMA PageStepsKeep ==
    ASSUME PdfInv, UNCHANGED <<boxVars, searchVars, unread>>, UNCHANGED paged,
           {rendered, frame, focused}' \subseteq BOOLEAN, top' \in Page, current' \in Page,
           pageInput' \in 0..NumPages + 1
    PROVE  PdfInv'
<1>1. PdfTypeOK'
  BY DEF PdfInv, PdfTypeOK, boxVars, searchVars
<1> QED BY <1>1 DEF PdfInv, OfQuery, SearchShowsQuery, boxVars, searchVars

LEMMA PagingKeeps ==
    ASSUME PdfInv,
           \/ PagesRender \/ Recompute \/ SubmitPageInput
           \/ \E n \in Page : UserScrolls(n)
           \/ \E n \in 0..NumPages + 1 : EditPageInput(n)
           \/ \E d \in {-1, 1} : GoByDelta(d)
    PROVE  PdfInv'
<1> USE DEF PdfInv
<1>1. CASE PagesRender
  BY <1>1, PageStepsKeep DEF PagesRender, PdfTypeOK
<1>2. CASE Recompute
  <2>1. current' = top /\ pageInput' \in {top, pageInput} /\ top \in 0..NumPages + 1
    BY <1>2, PdfViewerAssumption DEF Recompute, SetCurrent, PdfTypeOK, Page
  <2> QED BY <1>2, <2>1, PageStepsKeep DEF Recompute, PdfTypeOK
<1>3. CASE SubmitPageInput
  <2>1. CASE pageInput = 0
    <3>1. current \in 0..NumPages + 1
      BY PdfViewerAssumption DEF PdfTypeOK, Page
    <3> QED BY <1>3, <2>1, <3>1, PageStepsKeep DEF SubmitPageInput, PdfTypeOK
  <2>2. CASE pageInput # 0
    <3>1. GoToPage(pageInput) /\ pageInput \in Int
      BY <1>3, <2>2, PdfViewerAssumption DEF SubmitPageInput, PdfTypeOK
    <3> QED BY <1>3, <3>1, GoToPageFacts, PageStepsKeep DEF SubmitPageInput, PdfTypeOK
  <2> QED BY <2>1, <2>2
<1>4. ASSUME NEW n \in Page, UserScrolls(n) PROVE PdfInv'
  BY <1>4, PageStepsKeep DEF UserScrolls, PdfTypeOK
<1>5. ASSUME NEW n \in 0..NumPages + 1, EditPageInput(n) PROVE PdfInv'
  BY <1>5, PageStepsKeep DEF EditPageInput, PdfTypeOK
<1>6. ASSUME NEW d \in {-1, 1}, GoByDelta(d) PROVE PdfInv'
  <2>1. GoToPage(current + d) /\ current + d \in Int
    BY <1>6, PdfViewerAssumption DEF GoByDelta, PdfTypeOK, Page
  <2> QED BY <1>6, <2>1, GoToPageFacts, PageStepsKeep DEF GoByDelta, PdfTypeOK
<1> QED BY <1>1, <1>2, <1>3, <1>4, <1>5, <1>6

(* The steps of the search box that start no search.                       *)
LEMMA BoxKeeps ==
    ASSUME PdfInv, ToggleSearch \/ \E q \in SearchText \cup {NoText} : EditQuery(q)
    PROVE  PdfInv'
<1> USE DEF PdfInv
<1>1. CASE ToggleSearch
  <2>1. PdfTypeOK'
    <3>1. UNCHANGED <<viewVars, indexed, searchSeq, searches, searching, unread>> /\ query' = NoText
          /\ searchOpen' \in BOOLEAN /\ debounce' \in BOOLEAN
      BY <1>1 DEF ToggleSearch
    <3>2. matchPages' \in Seq(Page) /\ (matchIdx' = 0 \/ matchIdx' \in 0..Len(matchPages') - 1)
      <4>1. CASE searchOpen
        <5>1. matchPages' = <<>> /\ matchIdx' = 0
          BY <1>1, <4>1 DEF ToggleSearch
        <5> QED BY <5>1
      <4>2. CASE ~searchOpen
        <5>1. matchPages' = matchPages /\ matchIdx' = matchIdx
          BY <1>1, <4>2 DEF ToggleSearch
        <5> QED BY <5>1 DEF PdfTypeOK
      <4> QED BY <4>1, <4>2
    <3> QED BY <3>1, <3>2 DEF PdfTypeOK, viewVars
  <2> QED BY <1>1, <2>1 DEF ToggleSearch, OfQuery, SearchShowsQuery
<1>2. ASSUME NEW q \in SearchText \cup {NoText}, EditQuery(q) PROVE PdfInv'
  <2>1. PdfTypeOK'
    BY <1>2 DEF EditQuery, PdfTypeOK, viewVars, searchVars
  <2> QED BY <1>2, <2>1 DEF EditQuery, searchVars, OfQuery, SearchShowsQuery
<1> QED BY <1>1, <1>2

(* The matches that a search shows.                                        *)
LEMMA ShowHitsFacts ==
    ASSUME PdfTypeOK, NEW q \in SearchText, ShowHits(q)
    PROVE  /\ matchPages' = Hits[q] /\ matchPages' \in Seq(Page) /\ matchIdx' = 0
           /\ top' \in Page /\ current' \in Page /\ frame' \in BOOLEAN
           /\ pageInput' \in 0..NumPages + 1
<1>1. Hits[q] \in Seq(Page) /\ matchPages' = Hits[q] /\ matchIdx' = 0
  BY PdfViewerAssumption DEF ShowHits
<1>2. CASE Hits[q] = <<>>
  BY <1>1, <1>2 DEF ShowHits, PdfTypeOK
<1>3. CASE Hits[q] # <<>>
  <2>1. Hits[q][1] \in Int /\ GoToPage(Hits[q][1])
    BY <1>1, <1>3, PdfViewerAssumption DEF ShowHits, Page
  <2> QED BY <1>1, <2>1, GoToPageFacts
<1> QED BY <1>2, <1>3

LEMMA RunSearchKeeps == PdfInv /\ RunSearch => PdfInv'
<1> SUFFICES ASSUME PdfInv, RunSearch PROVE PdfInv'
  OBVIOUS
<1> USE DEF PdfInv
<1>1. /\ UNCHANGED <<paged, rendered, focused, searchOpen, query, indexed>>
      /\ debounce' = FALSE /\ unread' = FALSE
      /\ searchSeq' = searchSeq + 1 /\ searchSeq' \in 0..MaxSearches /\ searchSeq \in Nat
  BY PdfViewerAssumption DEF RunSearch, PdfTypeOK
<1>2. \A s \in searches : s.seq \in 1..searchSeq /\ s.q \in SearchText /\ s \in [seq : 1..searchSeq', q : SearchText]
                          /\ s.seq # searchSeq'
  BY <1>1 DEF PdfTypeOK
<1>3. CASE query = NoText
  <2>1. matchPages' = <<>> /\ matchIdx' = 0 /\ UNCHANGED <<searches, searching, top, frame, current, pageInput>>
    BY <1>3 DEF RunSearch
  <2>2. PdfTypeOK'
    <3>1. searches' \subseteq [seq : 1..searchSeq', q : SearchText] /\ matchPages' \in Seq(Page)
      BY <1>2, <2>1
    <3> QED BY <1>1, <2>1, <3>1 DEF PdfTypeOK
  <2> QED BY <1>1, <1>2, <1>3, <2>1, <2>2 DEF OfQuery, SearchShowsQuery
<1>4. CASE query # NoText /\ indexed
  <2>1. ShowHits(query) /\ searching' = FALSE /\ UNCHANGED searches /\ query \in SearchText
    BY <1>4 DEF RunSearch, PdfTypeOK
  <2>2. PdfTypeOK'
    BY <1>1, <1>2, <2>1, ShowHitsFacts DEF PdfTypeOK
  <2> QED BY <1>1, <1>2, <1>4, <2>1, <2>2, ShowHitsFacts DEF OfQuery, SearchShowsQuery
<1>5. CASE query # NoText /\ ~indexed
  <2> DEFINE new == [seq |-> searchSeq + 1, q |-> query]
  <2>1. /\ searches' = searches \cup {new} /\ searching' = TRUE
        /\ UNCHANGED <<matchPages, matchIdx, top, frame, current, pageInput>>
    BY <1>5 DEF RunSearch
  <2>2. new.seq = searchSeq' /\ new.q = query /\ new \in [seq : 1..searchSeq', q : SearchText]
    BY <1>1, <1>5 DEF PdfTypeOK
  <2> HIDE DEF new
  <2>3. PdfTypeOK'
    BY <1>1, <1>2, <2>1, <2>2 DEF PdfTypeOK
  <2> QED BY <1>1, <1>2, <1>5, <2>1, <2>2, <2>3 DEF OfQuery, SearchShowsQuery
<1> QED BY <1>3, <1>4, <1>5

LEMMA SearchEndsKeeps ==
    ASSUME PdfInv, NEW s \in searches, FinishSearch(s) \/ FailSearch(s)
    PROVE  PdfInv'
<1> USE DEF PdfInv
<1>1. s.q \in SearchText /\ query \in SearchText \cup {NoText} /\ NoText \notin SearchText
  BY PdfViewerAssumption DEF PdfTypeOK
<1>2. CASE FinishSearch(s) /\ s.seq = searchSeq
  <2>1. /\ UNCHANGED <<paged, rendered, focused, boxVars, searchSeq, unread>>
        /\ searches' = searches \ {s} /\ indexed' = TRUE /\ ShowHits(s.q) /\ searching' = FALSE
    BY <1>2 DEF FinishSearch
  <2>2. PdfTypeOK'
    BY <1>1, <2>1, ShowHitsFacts DEF PdfTypeOK, boxVars
  <2>3. ~\E t \in searches' : t.seq = searchSeq
    BY <1>2, <2>1 DEF OfQuery
  <2>4. searchOpen /\ ~debounce => query = s.q
    BY <1>2 DEF OfQuery
  <2> QED BY <1>1, <2>1, <2>2, <2>3, <2>4, ShowHitsFacts DEF OfQuery, SearchShowsQuery, boxVars
<1>3. CASE FinishSearch(s) /\ s.seq # searchSeq
  <2>1. /\ UNCHANGED <<paged, rendered, focused, boxVars, searchSeq, unread, searching, matchPages, matchIdx,
                       top, frame, current, pageInput>>
        /\ searches' = searches \ {s} /\ indexed' = TRUE
    BY <1>3 DEF FinishSearch
  <2>2. PdfTypeOK'
    BY <2>1 DEF PdfTypeOK, boxVars
  <2> QED BY <1>3, <2>1, <2>2 DEF OfQuery, SearchShowsQuery, boxVars
<1>4. CASE FailSearch(s)
  <2>1. /\ UNCHANGED <<viewVars, boxVars, indexed, searchSeq, matchPages, matchIdx>>
        /\ searches' = searches \ {s}
        /\ searching' = (IF s.seq = searchSeq THEN FALSE ELSE searching)
        /\ unread' = (unread \/ s.seq = searchSeq)
    BY <1>4 DEF FailSearch
  <2>2. PdfTypeOK'
    BY <2>1 DEF PdfTypeOK, boxVars, viewVars
  <2> QED BY <2>1, <2>2 DEF OfQuery, SearchShowsQuery, boxVars
<1> QED BY <1>2, <1>3, <1>4

LEMMA GotoMatchKeeps ==
    ASSUME PdfInv, NEW delta \in {-1, 1}, GotoMatch(delta)
    PROVE  PdfInv'
<1> USE DEF PdfInv
<1>1. /\ UNCHANGED <<paged, rendered, focused, boxVars, indexed, searchSeq, searches, searching, matchPages, unread>>
      /\ matchIdx' = (matchIdx + delta + Len(matchPages)) % Len(matchPages)
      /\ GoToPage(matchPages[matchIdx' + 1]) /\ matchPages \in Seq(Page) /\ matchPages # <<>>
  BY DEF GotoMatch, PdfTypeOK
<1>2. Len(matchPages) \in Nat \ {0}
  BY <1>1
<1>3. matchIdx \in Int
  BY <1>2 DEF PdfTypeOK
<1>4. matchIdx' \in 0..Len(matchPages) - 1
  BY <1>1, <1>2, <1>3
<1>5. matchPages[matchIdx' + 1] \in Int
  BY <1>1, <1>2, <1>4, PdfViewerAssumption DEF Page
<1>6. PdfTypeOK'
  BY <1>1, <1>4, <1>5, GoToPageFacts DEF PdfTypeOK, boxVars
<1> QED BY <1>1, <1>6 DEF OfQuery, SearchShowsQuery, boxVars

LEMMA PdfSteps == PdfInv /\ [PdfNext]_pdfVars => PdfInv'
<1> SUFFICES ASSUME PdfInv, [PdfNext]_pdfVars PROVE PdfInv'
  OBVIOUS
<1>1. CASE UNCHANGED pdfVars
  BY <1>1 DEF pdfVars, viewVars, boxVars, searchVars, PdfInv, PdfTypeOK, OfQuery, SearchShowsQuery
<1>2. CASE PdfNext
  BY <1>2, PagingKeeps, BoxKeeps, RunSearchKeeps, SearchEndsKeeps, GotoMatchKeeps DEF PdfNext
<1> QED BY <1>1, <1>2

(* In whatever order searches end, the matches are those of the query in   *)
(* the box (PdfDocumentViewer.tsx, runSearch), for any document.           *)
THEOREM MatchesAreOfQuery == PdfSpec => []SearchShowsQuery
<1>1. PdfInv => SearchShowsQuery
  BY DEF PdfInv
<1> QED BY PdfStarts, PdfSteps, <1>1, PTL DEF PdfSpec

-----------------------------------------------------------------------------
(***************************************************************************)
(* The to-do list.  Lists are read in the order GitHub shows them, but     *)
(* handled in any: what keeps an expected change on the page is that an    *)
(* issue is never missing from a list after it was in one.                 *)
(***************************************************************************)

(* What GitHub lists of an issue and what it will list: once an issue is    *)
(* there, it stays.                                                        *)
Lagging ==
    /\ lagging \in [Issue -> Seq(State)] /\ \A i \in Issue : lagging[i] # <<>>
    /\ \A i \in Issue : \A m \in 2..Len(lagging[i]) : lagging[i][m] # "absent"

(* A change under way knows what it changes, to and from.                  *)
PatchesKnown ==
    \A i \in Issue : patching[i] # NoPatch => patching[i].to # "none" /\ patching[i].from # "none"

(* Lists that were read follow each other: an issue in an older one is in  *)
(* every newer one, and in what GitHub lists now.                          *)
ListsInOrder ==
    /\ \A k \in 1..Len(answers), i \in Issue : answers[k][i] # "absent" =>
        /\ Listed[i] # "absent"
        /\ \A m \in 1..Len(answers) : m > k => answers[m][i] # "absent"
    /\ initial # NoList => \A i \in Issue : initial[i] # "absent" => Listed[i] # "absent"

(* Nothing is expected, changed or read again before there is a list.      *)
BeforeList ==
    listing = NoList => /\ answers = <<>> /\ created = {} /\ ~reconcile
                        /\ \A i \in Issue : expected[i] = "none" /\ patching[i] = NoPatch

(* An issue on the page that was not created here is in every list that is *)
(* still to come: an expectation about it can only be met, not orphaned.   *)
ListedForGood ==
    forgot = {} => \A i \in Issue \ created :
        /\ listing # NoList /\ listing[i] # "absent" =>
              Listed[i] # "absent" /\ \A k \in 1..Len(answers) : answers[k][i] # "absent"
        /\ expected[i] # "none" => listing # NoList /\ listing[i] # "absent"

IssueTypes == IssuesTypeOK /\ Lagging /\ PatchesKnown

IssueInv == IssueTypes /\ ListsInOrder /\ BeforeList /\ ListedForGood

LEMMA SomeList ==
    /\ \A l : l \in [Issue -> State] /\ Issue # {} => l # NoList
    /\ \A l : l \in [Issue -> State] \cup {NoList} /\ l # NoList => l \in [Issue -> State] /\ Issue # {}
<1>1. \A i \in Issue : NoList[i] = "unknown"
  BY DEF NoList
<1>2. \A l : l \in [Issue -> State] /\ Issue # {} => l # NoList
  BY <1>1 DEF State
<1>3. ASSUME NEW l \in [Issue -> State], Issue = {} PROVE l = NoList
  BY <1>3 DEF NoList
<1> QED BY <1>2, <1>3

(* Helpers about sequences.                                                *)
LEMMA LongIsNotEmpty ==
    ASSUME NEW S, NEW s \in Seq(S), Len(s) > 0
    PROVE  s # <<>>
OBVIOUS

LEMMA IssueBounds == MaxReconcile \in Nat /\ MaxIssueChanges \in Nat
BY IssueListAssumption

LEMMA IssuesStart == IssuesInit => IssueInv
<1> SUFFICES ASSUME IssuesInit PROVE IssueInv
  OBVIOUS
<1>1. lagging \in [Issue -> Seq(State)] /\ \A i \in Issue : Len(lagging[i]) = 1
  <2>1. \A i \in Issue : <<IF i \in NewIssue THEN "absent" ELSE "open">> \in Seq(State)
    BY DEF State
  <2> QED BY <2>1 DEF IssuesInit
<1>2. Lagging
  <2>1. \A i \in Issue : lagging[i] # <<>>
    <3> TAKE i \in Issue
    <3>1. lagging[i] \in Seq(State)
      BY <1>1
    <3>2. Len(lagging[i]) = 1
      BY <1>1
    <3>3. Len(lagging[i]) > 0
      BY <3>2
    <3> QED BY <3>1, <3>3, LongIsNotEmpty
  <2>2. ASSUME NEW i \in Issue, NEW m \in 2..Len(lagging[i]) PROVE FALSE
    BY <1>1
  <2> QED BY <1>1, <2>1, <2>2 DEF Lagging
<1>3. NoPatch \in [to : {"none", "open", "closed"}, from : State \cup {"none"}, done : BOOLEAN]
  BY DEF NoPatch
<1>4. patching \in [Issue -> [to : {"none", "open", "closed"}, from : State \cup {"none"}, done : BOOLEAN]]
  BY <1>3 DEF IssuesInit
<1>5. PatchesKnown /\ \A i \in Issue : patching[i] = NoPatch
  BY DEF IssuesInit, PatchesKnown
<1>6. IssuesTypeOK
  <2>1. answers \in Seq([Issue -> State])
    <3> HIDE DEF State
    <3> QED BY DEF IssuesInit
  <2>2. attempts \in 0..MaxReconcile /\ changes \in 0..MaxIssueChanges
    BY IssueListAssumption DEF IssuesInit
  <2>3. expected \in [Issue -> {"none", "open", "closed"}]
    BY DEF IssuesInit
  <2>4. /\ listing = NoList /\ initial = NoList /\ created = {} /\ reconcile = FALSE /\ forgot = {}
    BY DEF IssuesInit
  <2>5. \A i \in Issue : lagging[i] \in Seq(State) /\ lagging[i] # <<>>
    BY <1>2 DEF Lagging
  <2> QED BY <1>4, <2>1, <2>2, <2>3, <2>4, <2>5 DEF IssuesTypeOK
<1>7. answers = <<>> /\ initial = NoList /\ \A i \in Issue : expected[i] = "none"
  BY DEF IssuesInit
<1>8. ListsInOrder
  BY <1>7 DEF ListsInOrder
<1>9. BeforeList /\ ListedForGood
  BY <1>5, <1>7 DEF IssuesInit, BeforeList, ListedForGood
<1> QED BY <1>2, <1>5, <1>6, <1>8, <1>9 DEF IssueInv, IssueTypes

(* A change GitHub makes is at the end of what it lists; catching up drops *)
(* the first.                                                              *)
LEMMA LagsGrow ==
    ASSUME Lagging, NEW i \in Issue, NEW s \in {"open", "closed"},
           lagging' = [lagging EXCEPT ![i] = Append(@, s)]
    PROVE  Lagging' /\ Listed' = Listed
<1>1. Append(lagging[i], s) \in Seq(State) /\ Append(lagging[i], s) # <<>>
      /\ Append(lagging[i], s)[1] = lagging[i][1]
  BY DEF Lagging, State
<1>2. \A m \in 2..Len(Append(lagging[i], s)) : Append(lagging[i], s)[m] # "absent"
  <2> TAKE m \in 2..Len(Append(lagging[i], s))
  <2>1. lagging[i] \in Seq(State)
    BY DEF Lagging
  <2>2. CASE m <= Len(lagging[i])
    BY <2>1, <2>2 DEF Lagging
  <2>3. CASE m = Len(lagging[i]) + 1
    BY <2>1, <2>3
  <2> QED BY <2>1, <2>2, <2>3
<1>3. \A j \in Issue : lagging'[j] = IF j = i THEN Append(lagging[i], s) ELSE lagging[j]
  BY DEF Lagging
<1>4. lagging' \in [Issue -> Seq(State)]
  BY <1>1 DEF Lagging
<1>5. Lagging'
  BY <1>1, <1>2, <1>3, <1>4 DEF Lagging
<1> QED BY <1>1, <1>3, <1>5 DEF Listed

LEMMA Tails ==
    ASSUME NEW S, NEW s \in Seq(S), Len(s) > 1
    PROVE  /\ Tail(s) \in Seq(S) /\ Tail(s) # <<>> /\ Len(Tail(s)) = Len(s) - 1
           /\ \A m \in 1..Len(Tail(s)) : Tail(s)[m] = s[m + 1]
<1>1. Tail(s) \in Seq(S) /\ Len(Tail(s)) = Len(s) - 1
  OBVIOUS
<1>2. \A m \in 1..Len(Tail(s)) : Tail(s)[m] = s[m + 1]
  OBVIOUS
<1> DEFINE t == Tail(s)
<1>3. t \in Seq(S) /\ Len(t) > 0
  BY <1>1
<1> HIDE DEF t
<1>4. t # <<>>
  BY <1>3, LongIsNotEmpty
<1> USE DEF t
<1> QED BY <1>1, <1>2, <1>4

LEMMA LagsShrink ==
    ASSUME Lagging, NEW i \in Issue, Len(lagging[i]) > 1,
           lagging' = [lagging EXCEPT ![i] = Tail(@)]
    PROVE  Lagging' /\ \A j \in Issue : Listed[j] # "absent" => Listed'[j] # "absent"
<1>1. lagging[i] \in Seq(State)
  BY DEF Lagging
<1>2. /\ Tail(lagging[i]) \in Seq(State) /\ Tail(lagging[i]) # <<>>
      /\ Len(Tail(lagging[i])) = Len(lagging[i]) - 1
      /\ \A m \in 1..Len(Tail(lagging[i])) : Tail(lagging[i])[m] = lagging[i][m + 1]
  BY <1>1, Tails
<1>3. \A m \in 1..Len(Tail(lagging[i])) : Tail(lagging[i])[m] # "absent"
  BY <1>1, <1>2 DEF Lagging
<1>4. \A j \in Issue : lagging'[j] = IF j = i THEN Tail(lagging[i]) ELSE lagging[j]
  BY DEF Lagging
<1>5. lagging' \in [Issue -> Seq(State)]
  BY <1>2 DEF Lagging
<1>6. Lagging'
  BY <1>2, <1>3, <1>4, <1>5 DEF Lagging
<1> QED BY <1>2, <1>3, <1>4, <1>6 DEF Listed

(* While no list is read or handled, what was listed stays so.             *)
LEMMA OrderStays ==
    ASSUME IssueInv, UNCHANGED answers,
           \A i \in Issue : Listed[i] # "absent" => Listed'[i] # "absent",
           initial' \in {initial, NoList, Listed}
    PROVE  ListsInOrder'
<1>1. Listed = [i \in Issue |-> Listed[i]]
  BY DEF Listed
<1> QED BY DEF IssueInv, ListsInOrder

(* The steps, one lemma for each or for a few.                             *)
LEMMA FetchKeeps == ASSUME IssueInv, FetchIssues \/ ShowIssues PROVE IssueInv'
<1> USE DEF IssueInv
<1>1. /\ UNCHANGED <<lagging, expected, created, patching, reconcile, attempts, answers, changes>>
      /\ Listed' = Listed
  BY DEF FetchIssues, ShowIssues, Listed
<1>2. Lagging' /\ PatchesKnown' /\ Listed \in [Issue -> State]
  <2>1. \A i \in Issue : lagging[i] \in Seq(State) /\ lagging[i] # <<>>
    BY DEF IssueTypes, Lagging
  <2>2. \A i \in Issue : lagging[i][1] \in State
    BY <2>1
  <2> QED BY <1>1, <2>2 DEF IssueTypes, Lagging, PatchesKnown, Listed
<1>3. ListsInOrder'
  <2>1. initial' \in {initial, NoList, Listed}
    BY DEF FetchIssues, ShowIssues
  <2> QED BY <1>1, <2>1, OrderStays
<1>4. CASE FetchIssues
  <2>1. UNCHANGED <<listing, forgot>> /\ initial' = Listed
    BY <1>4 DEF FetchIssues
  <2>2. IssuesTypeOK'
    BY <1>1, <1>2, <2>1 DEF IssueTypes, IssuesTypeOK
  <2> QED BY <1>1, <1>2, <1>3, <2>1, <2>2 DEF IssueTypes, BeforeList, ListedForGood
<1>5. CASE ShowIssues
  <2>1. /\ initial # NoList /\ listing' = initial /\ initial' = NoList
        /\ forgot' = forgot \cup (IF listing # NoList THEN {"late fetch"} ELSE {})
    BY <1>5 DEF ShowIssues
  <2>2. IssuesTypeOK'
    BY <1>1, <2>1 DEF IssueTypes, IssuesTypeOK
  <2>3. BeforeList'
    BY <2>1 DEF BeforeList
  <2>4. ListedForGood'
    <3>1. CASE listing # NoList
      BY <2>1, <3>1 DEF ListedForGood
    <3>2. CASE listing = NoList
      <4>1. answers = <<>> /\ \A i \in Issue : expected[i] = "none"
        BY <3>2 DEF BeforeList
      <4>2. \A i \in Issue : initial[i] # "absent" => Listed[i] # "absent"
        BY <2>1 DEF ListsInOrder
      <4>3. \A k \in 1..Len(answers) : FALSE
        BY <4>1
      <4> QED BY <1>1, <2>1, <4>1, <4>2, <4>3 DEF ListedForGood
    <3> QED BY <3>1, <3>2
  <2> QED BY <1>2, <1>3, <2>2, <2>3, <2>4 DEF IssueTypes
<1> QED BY <1>4, <1>5

LEMMA ToggleKeeps == ASSUME IssueInv, NEW i \in Issue, ToggleIssue(i) PROVE IssueInv'
<1> USE DEF IssueInv
<1> DEFINE to == IF listing[i] = "open" THEN "closed" ELSE "open"
           p == [to |-> to, from |-> listing[i], done |-> FALSE]
<1>1. /\ UNCHANGED <<lagging, created, reconcile, attempts, answers>> /\ Listed' = Listed
      /\ listing # NoList /\ listing[i] \in {"open", "closed"} /\ changes < MaxIssueChanges
      /\ patching' = [patching EXCEPT ![i] = p] /\ expected' = [expected EXCEPT ![i] = to]
      /\ listing' = [listing EXCEPT ![i] = to] /\ initial' = NoList /\ changes' = changes + 1
      /\ forgot' = forgot \cup (IF expected[i] # "none" \/ i \in created THEN {"again"} ELSE {})
  BY DEF ToggleIssue, Listed
<1>2. to \in {"open", "closed"}
  OBVIOUS
<1>3. listing \in [Issue -> State] /\ listing' \in [Issue -> State] /\ listing' # NoList
  BY <1>1, <1>2, SomeList DEF IssueTypes, IssuesTypeOK, State
<1>4. /\ p \in [to : {"none", "open", "closed"}, from : State \cup {"none"}, done : BOOLEAN]
      /\ p.to # "none" /\ p.from # "none"
  BY <1>1, <1>2 DEF State
<1> HIDE DEF to, p
<1>5. IssueTypes'
  <2>1. Lagging'
    BY <1>1 DEF IssueTypes, Lagging
  <2>2. patching' \in [Issue -> [to : {"none", "open", "closed"}, from : State \cup {"none"}, done : BOOLEAN]]
    BY <1>1, <1>4 DEF IssueTypes, IssuesTypeOK
  <2>3. PatchesKnown'
    BY <1>1, <1>4 DEF IssueTypes, IssuesTypeOK, PatchesKnown
  <2>4. expected' \in [Issue -> {"none", "open", "closed"}]
    BY <1>1, <1>2 DEF IssueTypes, IssuesTypeOK
  <2>5. changes' \in 0..MaxIssueChanges
    <3>1. changes \in 0..MaxIssueChanges
      BY DEF IssueTypes, IssuesTypeOK
    <3> QED BY <1>1, <3>1, IssueBounds
  <2>6. IssuesTypeOK'
    BY <1>1, <1>3, <2>2, <2>4, <2>5 DEF IssueTypes, IssuesTypeOK
  <2> QED BY <2>1, <2>3, <2>6 DEF IssueTypes
<1>6. ListsInOrder'
  BY <1>1, OrderStays
<1>7. BeforeList'
  BY <1>3 DEF BeforeList
<1>8. ListedForGood'
  <2>1. \A j \in Issue : /\ listing'[j] # "absent" <=> listing[j] # "absent"
                         /\ expected'[j] # "none" => expected[j] # "none" \/ listing[j] # "absent"
    BY <1>1, <1>2, <1>3 DEF IssueTypes, IssuesTypeOK
  <2> QED BY <1>1, <1>3, <2>1 DEF ListedForGood
<1> QED BY <1>5, <1>6, <1>7, <1>8

LEMMA PatchKeeps == ASSUME IssueInv, NEW i \in Issue, PatchIssue(i) PROVE IssueInv'
<1> USE DEF IssueInv
<1>1. /\ UNCHANGED <<listing, initial, expected, created, reconcile, attempts, answers, changes, forgot>>
      /\ lagging' = [lagging EXCEPT ![i] = Append(@, patching[i].to)]
      /\ patching' = [patching EXCEPT ![i].done = TRUE] /\ patching[i] # NoPatch
  BY DEF PatchIssue
<1>2. patching[i].to \in {"open", "closed"}
  BY <1>1 DEF IssueTypes, IssuesTypeOK, PatchesKnown
<1>3. Lagging' /\ Listed' = Listed
  BY <1>1, <1>2, LagsGrow DEF IssueTypes
<1>4. /\ patching' \in [Issue -> [to : {"none", "open", "closed"}, from : State \cup {"none"}, done : BOOLEAN]]
      /\ \A j \in Issue : j # i => patching'[j] = patching[j]
      /\ patching'[i].to = patching[i].to /\ patching'[i].from = patching[i].from
  BY <1>1 DEF IssueTypes, IssuesTypeOK
<1>5. PatchesKnown'
  BY <1>1, <1>4 DEF IssueTypes, PatchesKnown
<1>6. IssuesTypeOK'
  <2>1. \A j \in Issue : lagging'[j] \in Seq(State) /\ lagging'[j] # <<>>
    BY <1>3 DEF Lagging
  <2> QED BY <1>1, <1>4, <2>1 DEF IssueTypes, IssuesTypeOK
<1>7. ListsInOrder'
  BY <1>1, <1>3, OrderStays
<1>8. BeforeList' /\ ListedForGood'
  BY <1>1, <1>3, <1>4 DEF BeforeList, ListedForGood
<1> QED BY <1>3, <1>5, <1>6, <1>7, <1>8 DEF IssueTypes

LEMMA SettleKeeps ==
    ASSUME IssueInv, NEW i \in Issue, PatchSettles(i) \/ PatchFails(i) PROVE IssueInv'
<1> USE DEF IssueInv
<1>1. /\ UNCHANGED <<lagging, initial, created, answers, changes>> /\ Listed' = Listed
      /\ patching' = [patching EXCEPT ![i] = NoPatch]
      /\ reconcile' = TRUE /\ attempts' = 0
  BY DEF PatchSettles, PatchFails, ScheduleFresh, Listed
<1>2. patching[i] # NoPatch
  <2>1. CASE PatchSettles(i)
    <3>1. patching[i].done
      BY <2>1 DEF PatchSettles
    <3> QED BY <3>1 DEF NoPatch
  <2>2. CASE PatchFails(i)
    BY <2>2 DEF PatchFails
  <2> QED BY <2>1, <2>2
<1>3. listing # NoList /\ listing \in [Issue -> State]
  BY <1>2, SomeList DEF BeforeList, IssueTypes, IssuesTypeOK
<1>4. listing' \in [Issue -> State] /\ listing' # NoList
  <2>1. patching[i].from \in State
    BY <1>2 DEF IssueTypes, IssuesTypeOK, PatchesKnown
  <2>2. listing' \in [Issue -> State]
    BY <1>3, <2>1 DEF PatchSettles, PatchFails
  <2> QED BY <2>2, SomeList
<1>5. IssueTypes'
  <2>1. Lagging' /\ PatchesKnown'
    BY <1>1 DEF IssueTypes, Lagging, PatchesKnown, IssuesTypeOK
  <2>2. NoPatch \in [to : {"none", "open", "closed"}, from : State \cup {"none"}, done : BOOLEAN]
    BY DEF NoPatch
  <2>3. patching' \in [Issue -> [to : {"none", "open", "closed"}, from : State \cup {"none"}, done : BOOLEAN]]
    BY <1>1, <2>2 DEF IssueTypes, IssuesTypeOK
  <2>4. expected' \in [Issue -> {"none", "open", "closed"}]
    BY DEF PatchSettles, PatchFails, IssueTypes, IssuesTypeOK
  <2>5. attempts' \in 0..MaxReconcile
    BY <1>1, IssueListAssumption
  <2>6. forgot' \subseteq {"failed read", "cap", "failed change", "overtaken", "late fetch", "again"}
    BY DEF PatchSettles, PatchFails, IssueTypes, IssuesTypeOK
  <2>7. IssuesTypeOK'
    BY <1>1, <1>4, <2>3, <2>4, <2>5, <2>6 DEF IssueTypes, IssuesTypeOK
  <2> QED BY <2>1, <2>7 DEF IssueTypes
<1>6. ListsInOrder'
  BY <1>1, OrderStays
<1>7. BeforeList'
  BY <1>4 DEF BeforeList
<1>8. ListedForGood'
  <2>1. CASE PatchSettles(i)
    <3>1. UNCHANGED <<listing, expected, forgot>>
      BY <2>1 DEF PatchSettles
    <3> QED BY <1>1, <3>1 DEF ListedForGood
  <2>2. CASE PatchFails(i)
    BY <2>2 DEF PatchFails, ListedForGood
  <2> QED BY <2>1, <2>2
<1> QED BY <1>5, <1>6, <1>7, <1>8

LEMMA RegisterKeeps == ASSUME IssueInv, NEW i \in Issue, RegisterCreatedIssue(i) PROVE IssueInv'
<1> USE DEF IssueInv
<1>1. /\ UNCHANGED <<initial, expected, patching, answers, forgot>>
      /\ lagging' = [lagging EXCEPT ![i] = Append(@, "open")]
      /\ created' = created \cup {i} /\ i \in NewIssue
      /\ changes < MaxIssueChanges /\ changes' = changes + 1
      /\ reconcile' = TRUE /\ attempts' = 0
  BY DEF RegisterCreatedIssue, ScheduleFresh
<1>2. listing' = IF listing = NoList
                 THEN [j \in Issue |-> IF j = i THEN "open" ELSE "absent"]
                 ELSE [listing EXCEPT ![i] = "open"]
  BY DEF RegisterCreatedIssue
<1>3. Lagging' /\ Listed' = Listed
  BY <1>1, LagsGrow DEF IssueTypes
<1>4. listing' \in [Issue -> State] /\ listing' # NoList
  <2>1. listing' \in [Issue -> State]
    BY <1>2, SomeList DEF IssueTypes, IssuesTypeOK, State
  <2> QED BY <2>1, SomeList
<1>5. IssueTypes'
  <2>1. PatchesKnown'
    BY <1>1 DEF IssueTypes, PatchesKnown
  <2>2. \A j \in Issue : lagging'[j] \in Seq(State) /\ lagging'[j] # <<>>
    BY <1>3 DEF Lagging
  <2>3. attempts' \in 0..MaxReconcile /\ changes' \in 0..MaxIssueChanges
    <3>1. changes \in 0..MaxIssueChanges
      BY DEF IssueTypes, IssuesTypeOK
    <3> QED BY <1>1, <3>1, IssueBounds
  <2>4. IssuesTypeOK'
    BY <1>1, <1>4, <2>2, <2>3 DEF IssueTypes, IssuesTypeOK
  <2> QED BY <1>3, <2>1, <2>4 DEF IssueTypes
<1>6. ListsInOrder'
  BY <1>1, <1>3, OrderStays
<1>7. BeforeList'
  BY <1>4 DEF BeforeList
<1>8. ListedForGood'
  <2>1. ASSUME NEW j \in Issue, j # i, listing'[j] # "absent"
        PROVE  listing # NoList /\ listing[j] # "absent"
    BY <1>2, <2>1, SomeList DEF IssueTypes, IssuesTypeOK
  <2>2. ASSUME NEW j \in Issue, j # i, listing # NoList, listing[j] # "absent"
        PROVE  listing'[j] # "absent"
    BY <1>2, <2>2, SomeList DEF IssueTypes, IssuesTypeOK
  <2> QED BY <1>1, <1>3, <1>4, <2>1, <2>2 DEF ListedForGood
<1> QED BY <1>5, <1>6, <1>7, <1>8

LEMMA CatchUpKeeps == ASSUME IssueInv, NEW i \in Issue, ListCatchesUp(i) PROVE IssueInv'
<1> USE DEF IssueInv
<1>1. /\ UNCHANGED <<listing, initial, expected, created, patching, reconcile, attempts, answers, changes, forgot>>
      /\ Len(lagging[i]) > 1 /\ lagging' = [lagging EXCEPT ![i] = Tail(@)]
  BY DEF ListCatchesUp
<1>2. Lagging' /\ \A j \in Issue : Listed[j] # "absent" => Listed'[j] # "absent"
  BY <1>1, LagsShrink DEF IssueTypes
<1>3. IssueTypes'
  <2>1. \A j \in Issue : lagging'[j] \in Seq(State) /\ lagging'[j] # <<>>
    BY <1>2 DEF Lagging
  <2> QED BY <1>1, <1>2, <2>1 DEF IssueTypes, IssuesTypeOK, PatchesKnown
<1>4. ListsInOrder'
  BY <1>1, <1>2, OrderStays
<1>5. BeforeList' /\ ListedForGood'
  BY <1>1, <1>2 DEF BeforeList, ListedForGood
<1> QED BY <1>3, <1>4, <1>5

LEMMA Joined ==
    ASSUME NEW S, NEW a \in Seq(S), NEW b \in Seq(S)
    PROVE  /\ a \o b \in Seq(S) /\ Len(a \o b) = Len(a) + Len(b)
           /\ \A m \in 1..Len(a) : (a \o b)[m] = a[m]
           /\ \A m \in 1..Len(b) : (a \o b)[Len(a) + m] = b[m]
OBVIOUS

(* The lists that are left when the read numbered k has ended.             *)
LEMMA OthersLeft ==
    ASSUME NEW S, NEW s \in Seq(S), NEW k \in 1..Len(s)
    PROVE  LET t == SubSeq(s, 1, k - 1) \o SubSeq(s, k + 1, Len(s))
           IN  /\ t \in Seq(S) /\ Len(t) = Len(s) - 1
               /\ \A m \in 1..Len(t) : t[m] = IF m < k THEN s[m] ELSE s[m + 1]
<1> DEFINE a == SubSeq(s, 1, k - 1)
           b == SubSeq(s, k + 1, Len(s))
           t == a \o b
<1>1. a \in Seq(S) /\ Len(a) = k - 1 /\ \A m \in 1..k - 1 : a[m] = s[m]
  OBVIOUS
<1>2. b \in Seq(S) /\ Len(b) = Len(s) - k /\ \A m \in 1..Len(s) - k : b[m] = s[m + k]
  OBVIOUS
<1>a. a \in Seq(S) /\ b \in Seq(S)
  BY <1>1, <1>2
<1> HIDE DEF a, b
<1>3. /\ t \in Seq(S) /\ Len(t) = Len(a) + Len(b)
      /\ \A m \in 1..Len(a) : t[m] = a[m]
      /\ \A m \in 1..Len(b) : t[Len(a) + m] = b[m]
  BY <1>a, Joined
<1> HIDE DEF t
<1>4. /\ t \in Seq(S) /\ Len(t) = Len(s) - 1
      /\ \A m \in 1..Len(t) : t[m] = IF m < k THEN s[m] ELSE s[m + 1]
  <2>1. Len(a) = k - 1 /\ Len(b) = Len(s) - k
    BY <1>1, <1>2
  <2>2. t \in Seq(S) /\ Len(t) = Len(a) + Len(b)
    BY <1>3
  <2>3. \A m \in 1..k - 1 : a[m] = s[m]
    BY <1>1
  <2>4. \A m \in 1..Len(s) - k : b[m] = s[m + k]
    BY <1>2
  <2>5. (\A m \in 1..Len(a) : t[m] = a[m]) /\ \A m \in 1..Len(b) : t[Len(a) + m] = b[m]
    BY <1>3
  <2>6. Len(s) \in Nat /\ k \in 1..Len(s) /\ Len(t) = Len(s) - 1
    BY <2>1, <2>2
  <2>7. ASSUME NEW m \in 1..Len(t) PROVE t[m] = IF m < k THEN s[m] ELSE s[m + 1]
    <3>1. m \in Int
      OBVIOUS
    <3>2. CASE m < k
      <4>1. m \in 1..k - 1
        BY <2>6, <3>1, <3>2
      <4> QED BY <2>1, <2>3, <2>5, <3>2, <4>1
    <3>3. CASE ~(m < k)
      <4> DEFINE n == m - (k - 1)
      <4>1. n \in 1..Len(s) - k
        BY <2>6, <3>1, <3>3
      <4>2. n \in 1..Len(b) /\ Len(a) + n = m /\ n + k = m + 1
        BY <2>1, <2>6, <3>1, <4>1
      <4> HIDE DEF n
      <4>3. t[Len(a) + n] = b[n] /\ b[n] = s[n + k]
        BY <2>4, <2>5, <4>1, <4>2
      <4> QED BY <3>3, <4>2, <4>3
    <3> QED BY <3>2, <3>3
  <2> QED BY <2>2, <2>6, <2>7
<1> QED BY <1>4 DEF t, a, b

(* The order of the lists survives the end of any read.                    *)
LEMMA EndsFacts ==
    ASSUME IssueInv, NEW k \in 1..Len(answers), Ends(k), UNCHANGED <<lagging, initial>>
    PROVE  /\ answers' \in Seq([Issue -> State]) /\ answers[k] \in [Issue -> State]
           /\ \A m \in 1..Len(answers') : \E n \in 1..Len(answers) :
                 answers'[m] = answers[n] /\ (k = 1 => n > k)
           /\ ListsInOrder'
<1> DEFINE L == [Issue -> State]
<1>1. answers \in Seq(L)
  BY DEF IssueInv, IssueTypes, IssuesTypeOK
<1> HIDE DEF L
<1>2. /\ answers' \in Seq(L) /\ Len(answers') = Len(answers) - 1
      /\ \A m \in 1..Len(answers') : answers'[m] = IF m < k THEN answers[m] ELSE answers[m + 1]
  BY <1>1, OthersLeft DEF Ends
<1>3. answers[k] \in L
  BY <1>1
<1>4. Len(answers) \in Nat
  BY <1>1
<1>5. ASSUME NEW m \in 1..Len(answers')
      PROVE  \E n \in 1..Len(answers) : answers'[m] = answers[n] /\ (k = 1 => n > k)
  <2>1. CASE m < k
    BY <1>2, <1>4, <2>1
  <2>2. CASE ~(m < k)
    <3>1. m + 1 \in 1..Len(answers) /\ m + 1 > k /\ answers'[m] = answers[m + 1]
      BY <1>2, <1>4, <2>2
    <3> QED BY <3>1
  <2> QED BY <2>1, <2>2
<1>6. ListsInOrder'
  <2>1. ASSUME NEW m \in 1..Len(answers'), NEW i \in Issue, answers'[m][i] # "absent"
        PROVE  /\ Listed[i] # "absent"
               /\ \A n \in 1..Len(answers') : n > m => answers'[n][i] # "absent"
    <3>1. PICK j \in 1..Len(answers) : answers'[m] = answers[j] /\ j \in {m, m + 1} /\ (m < k <=> j = m)
      BY <1>2, <1>4
    <3>2. /\ Listed[i] # "absent"
          /\ \A n \in 1..Len(answers) : n > j => answers[n][i] # "absent"
      BY <2>1, <3>1 DEF IssueInv, ListsInOrder
    <3>3. ASSUME NEW n \in 1..Len(answers'), n > m PROVE answers'[n][i] # "absent"
      <4>1. PICK h \in 1..Len(answers) : answers'[n] = answers[h] /\ h \in {n, n + 1} /\ (n < k <=> h = n)
        <5>1. CASE n < k
          BY <1>2, <1>4, <5>1
        <5>2. CASE ~(n < k)
          <6>1. n + 1 \in 1..Len(answers)
            BY <1>2, <1>4
          <6>2. answers'[n] = answers[n + 1]
            BY <1>2, <5>2
          <6> QED BY <5>2, <6>1, <6>2
        <5> QED BY <5>1, <5>2
      <4>2. h > j
        BY <3>1, <3>3, <4>1
      <4> QED BY <3>2, <4>1, <4>2
    <3> QED BY <3>2, <3>3
  <2>2. Listed' = Listed
    BY DEF Listed
  <2> QED BY <2>1, <2>2 DEF IssueInv, ListsInOrder
<1> QED BY <1>2, <1>3, <1>5, <1>6 DEF L

LEMMA ReadKeeps == ASSUME IssueInv, ReconcileReads PROVE IssueInv'
<1> USE DEF IssueInv
<1>1. /\ UNCHANGED <<lagging, listing, initial, expected, created, patching, attempts, changes, forgot>>
      /\ reconcile /\ reconcile' = FALSE /\ answers' = Append(answers, Listed) /\ Listed' = Listed
  BY DEF ReconcileReads, Listed
<1>2. Listed \in [Issue -> State]
  <2>1. \A i \in Issue : lagging[i] \in Seq(State) /\ lagging[i] # <<>>
    BY DEF IssueTypes, Lagging
  <2>2. \A i \in Issue : lagging[i][1] \in State
    BY <2>1
  <2> QED BY <2>2 DEF Listed
<1> DEFINE L == [Issue -> State]
<1>3. answers \in Seq(L) /\ Listed \in L
  BY <1>2 DEF IssueTypes, IssuesTypeOK
<1> HIDE DEF L
<1>4. /\ answers' \in Seq(L) /\ Len(answers') = Len(answers) + 1
      /\ \A m \in 1..Len(answers') : answers'[m] = IF m = Len(answers) + 1 THEN Listed ELSE answers[m]
  BY <1>1, <1>3
<1>5. Len(answers) \in Nat
  BY <1>3
<1>6. IssueTypes'
  BY <1>1, <1>4 DEF IssueTypes, IssuesTypeOK, Lagging, PatchesKnown, L
<1>7. ListsInOrder'
  <2>1. ASSUME NEW m \in 1..Len(answers'), NEW i \in Issue, answers'[m][i] # "absent"
        PROVE  /\ Listed[i] # "absent"
               /\ \A n \in 1..Len(answers') : n > m => answers'[n][i] # "absent"
    <3>1. CASE m = Len(answers) + 1
      BY <1>4, <1>5, <2>1, <3>1
    <3>2. CASE m # Len(answers) + 1
      <4>1. m \in 1..Len(answers) /\ answers'[m] = answers[m]
        BY <1>4, <1>5, <3>2
      <4>2. /\ Listed[i] # "absent"
            /\ \A n \in 1..Len(answers) : n > m => answers[n][i] # "absent"
        BY <2>1, <4>1 DEF ListsInOrder
      <4> QED BY <1>4, <1>5, <4>2
    <3> QED BY <3>1, <3>2
  <2> QED BY <1>1, <2>1 DEF ListsInOrder
<1>8. BeforeList'
  BY <1>1 DEF BeforeList
<1>9. ListedForGood'
  <2>1. ASSUME forgot = {}, NEW i \in Issue \ created, listing # NoList, listing[i] # "absent"
        PROVE  Listed[i] # "absent" /\ \A k \in 1..Len(answers') : answers'[k][i] # "absent"
    <3>1. Listed[i] # "absent" /\ \A k \in 1..Len(answers) : answers[k][i] # "absent"
      BY <2>1 DEF ListedForGood
    <3> QED BY <1>4, <1>5, <3>1
  <2> QED BY <1>1, <2>1 DEF ListedForGood
<1> QED BY <1>6, <1>7, <1>8, <1>9

LEMMA FailKeeps == ASSUME IssueInv, NEW k \in 1..Len(answers), ReconcileFails(k) PROVE IssueInv'
<1> USE DEF IssueInv
<1>1. /\ UNCHANGED <<lagging, listing, initial, expected, created, patching, reconcile, attempts, changes>>
      /\ Ends(k) /\ forgot' = forgot \cup {"failed read"}
  BY DEF ReconcileFails
<1>2. answers' \in Seq([Issue -> State]) /\ ListsInOrder'
  BY <1>1, EndsFacts
<1>3. IssueTypes'
  <2>1. forgot' \subseteq {"failed read", "cap", "failed change", "overtaken", "late fetch", "again"}
    BY <1>1 DEF IssueTypes, IssuesTypeOK
  <2> QED BY <1>1, <1>2, <2>1 DEF IssueTypes, IssuesTypeOK, Lagging, PatchesKnown
<1>4. listing # NoList
  <2>1. answers = <<>> => \A m \in 1..Len(answers) : FALSE
    OBVIOUS
  <2> QED BY <2>1 DEF BeforeList
<1> QED BY <1>1, <1>2, <1>3, <1>4 DEF BeforeList, ListedForGood

(* What a list that was read makes of the expectations.                    *)
LEMMA AnswerFacts ==
    ASSUME IssueInv, NEW k \in 1..Len(answers), ReconcileAnswers(k)
    PROVE  LET list == answers[k]
               e == [i \in Issue |-> IF list[i] = expected[i] THEN "none" ELSE expected[i]]
               c == {i \in created : list[i] = "absent"}
           IN  /\ Ends(k) /\ UNCHANGED <<lagging, initial, patching, changes>>
               /\ list \in [Issue -> State] /\ e \in [Issue -> {"none", "open", "closed"}]
               /\ listing' \in [Issue -> State] /\ listing' # NoList /\ listing # NoList
               /\ \A i \in Issue : listing'[i] = IF list[i] = "absent"
                                                 THEN IF i \in c THEN "open" ELSE "absent"
                                                 ELSE IF e[i] # "none" THEN e[i] ELSE list[i]
               /\ \/ expected' = e /\ created' = c
                  \/ /\ created' = {} /\ expected' = [i \in Issue |-> "none"]
                     /\ (forgot' = {} => c = {})
               /\ reconcile' \in BOOLEAN /\ attempts' \in 0..MaxReconcile
               /\ forgot' \in SUBSET (forgot \cup {"overtaken", "cap"})
               /\ forgot \subseteq forgot' /\ (forgot' = {} => k = 1)
<1> DEFINE list == answers[k]
           e == [i \in Issue |-> IF list[i] = expected[i] THEN "none" ELSE expected[i]]
           c == {i \in created : list[i] = "absent"}
<1>1. Ends(k) /\ UNCHANGED <<lagging, initial, patching, changes>> /\ listing' = ApplyPending(list, e, c)
  BY DEF ReconcileAnswers
<1>2. \/ /\ HasPending(e, c) /\ attempts < MaxReconcile
         /\ attempts' = attempts + 1 /\ reconcile' = TRUE
         /\ expected' = e /\ created' = c
         /\ forgot' = forgot \cup Overtakes(k)
      \/ /\ expected' = [i \in Issue |-> "none"] /\ created' = {}
         /\ forgot' = forgot \cup Overtakes(k) \cup (IF HasPending(e, c) THEN {"cap"} ELSE {})
         /\ UNCHANGED <<attempts, reconcile>>
  BY DEF ReconcileAnswers
<1>3. list \in [Issue -> State]
  BY <1>1, EndsFacts
<1>4. listing # NoList /\ Issue # {}
  <2>1. answers = <<>> => \A m \in 1..Len(answers) : FALSE
    OBVIOUS
  <2>2. listing # NoList
    BY <2>1 DEF IssueInv, BeforeList
  <2> QED BY <2>2, SomeList DEF IssueInv, IssueTypes, IssuesTypeOK
<1>5. e \in [Issue -> {"none", "open", "closed"}]
  BY DEF IssueInv, IssueTypes, IssuesTypeOK
<1> HIDE DEF list, e, c
<1>6. /\ listing' \in [Issue -> State]
      /\ \A i \in Issue : listing'[i] = IF list[i] = "absent"
                                        THEN IF i \in c THEN "open" ELSE "absent"
                                        ELSE IF e[i] # "none" THEN e[i] ELSE list[i]
  BY <1>1, <1>3, <1>5 DEF ApplyPending, State
<1>7. listing' # NoList
  BY <1>4, <1>6, SomeList
<1>8. reconcile' \in BOOLEAN /\ attempts' \in 0..MaxReconcile
  <2>1. reconcile \in BOOLEAN /\ attempts \in 0..MaxReconcile
    BY DEF IssueInv, IssueTypes, IssuesTypeOK
  <2>2. reconcile' \in BOOLEAN
    BY <1>2, <2>1
  <2>3. attempts' = attempts \/ (attempts < MaxReconcile /\ attempts' = attempts + 1)
    BY <1>2
  <2>4. attempts' \in 0..MaxReconcile
    BY <2>1, <2>3, IssueBounds
  <2> QED BY <2>2, <2>4
<1>9. k # 1 => Overtakes(k) # {}
  BY DEF Overtakes
<1>10. /\ forgot' \in SUBSET (forgot \cup {"overtaken", "cap"})
       /\ forgot \subseteq forgot' /\ (forgot' = {} => k = 1)
  BY <1>2, <1>9 DEF Overtakes
<1>11. \/ expected' = e /\ created' = c
       \/ created' = {} /\ expected' = [i \in Issue |-> "none"] /\ (forgot' = {} => c = {})
  BY <1>2 DEF HasPending
<1>12. /\ Ends(k) /\ UNCHANGED <<lagging, initial, patching, changes>>
       /\ list \in [Issue -> State] /\ e \in [Issue -> {"none", "open", "closed"}]
       /\ listing' \in [Issue -> State] /\ listing' # NoList /\ listing # NoList
       /\ \A i \in Issue : listing'[i] = IF list[i] = "absent"
                                         THEN IF i \in c THEN "open" ELSE "absent"
                                         ELSE IF e[i] # "none" THEN e[i] ELSE list[i]
       /\ \/ expected' = e /\ created' = c
          \/ /\ created' = {} /\ expected' = [i \in Issue |-> "none"]
             /\ (forgot' = {} => c = {})
       /\ reconcile' \in BOOLEAN /\ attempts' \in 0..MaxReconcile
       /\ forgot' \in SUBSET (forgot \cup {"overtaken", "cap"})
       /\ forgot \subseteq forgot' /\ (forgot' = {} => k = 1)
  BY <1>1, <1>3, <1>4, <1>5, <1>6, <1>7, <1>8, <1>10, <1>11
<1> QED BY <1>12 DEF list, e, c

LEMMA AnswerKeeps == ASSUME IssueInv, NEW k \in 1..Len(answers), ReconcileAnswers(k) PROVE IssueInv'
<1> DEFINE list == answers[k]
           e == [i \in Issue |-> IF list[i] = expected[i] THEN "none" ELSE expected[i]]
           c == {i \in created : list[i] = "absent"}
<1>1. /\ Ends(k) /\ UNCHANGED <<lagging, initial, patching, changes>>
      /\ list \in [Issue -> State] /\ e \in [Issue -> {"none", "open", "closed"}]
      /\ listing' \in [Issue -> State] /\ listing' # NoList /\ listing # NoList
      /\ reconcile' \in BOOLEAN /\ attempts' \in 0..MaxReconcile
      /\ forgot' \in SUBSET (forgot \cup {"overtaken", "cap"})
      /\ forgot \subseteq forgot' /\ (forgot' = {} => k = 1)
  BY AnswerFacts
<1>2. \A i \in Issue : listing'[i] = IF list[i] = "absent"
                                     THEN IF i \in c THEN "open" ELSE "absent"
                                     ELSE IF e[i] # "none" THEN e[i] ELSE list[i]
  BY AnswerFacts
<1>3. \/ expected' = e /\ created' = c
      \/ created' = {} /\ expected' = [i \in Issue |-> "none"] /\ (forgot' = {} => c = {})
  BY AnswerFacts
<1>4. /\ \A i \in Issue : e[i] # "none" => expected[i] # "none"
      /\ c \subseteq created /\ \A i \in created \ c : list[i] # "absent"
  OBVIOUS
<1> HIDE DEF e, c
<1>5. /\ answers' \in Seq([Issue -> State]) /\ ListsInOrder'
      /\ \A m \in 1..Len(answers') : \E n \in 1..Len(answers) :
            answers'[m] = answers[n] /\ (k = 1 => n > k)
  BY <1>1, EndsFacts
<1>6. IssueTypes'
  <2>1. created' \subseteq NewIssue /\ expected' \in [Issue -> {"none", "open", "closed"}]
    <3>1. created \subseteq NewIssue
      BY DEF IssueInv, IssueTypes, IssuesTypeOK
    <3> QED BY <1>1, <1>3, <1>4, <3>1
  <2>2. forgot' \subseteq {"failed read", "cap", "failed change", "overtaken", "late fetch", "again"}
    BY <1>1 DEF IssueInv, IssueTypes, IssuesTypeOK
  <2> HIDE DEF list
  <2> QED BY <1>1, <1>5, <2>1, <2>2 DEF IssueInv, IssueTypes, IssuesTypeOK, Lagging, PatchesKnown
<1>7. BeforeList'
  BY <1>1 DEF BeforeList
<1>8. ListedForGood'
  <2>1. SUFFICES ASSUME forgot' = {}, NEW i \in Issue \ created'
                 PROVE  /\ listing'[i] # "absent" =>
                              Listed[i] # "absent" /\ \A m \in 1..Len(answers') : answers'[m][i] # "absent"
                        /\ expected'[i] # "none" => listing'[i] # "absent"
    BY <1>1 DEF ListedForGood, Listed
  <2>2. forgot = {} /\ k = 1
    BY <1>1, <2>1
  <2>3. i \notin c
    BY <1>3, <2>1
  <2>4. listing'[i] # "absent" => list[i] # "absent"
    BY <1>2, <2>3
  <2>5. list[i] # "absent" =>
            Listed[i] # "absent" /\ \A m \in 1..Len(answers') : answers'[m][i] # "absent"
    BY <1>5, <2>2 DEF IssueInv, ListsInOrder
  <2>6. expected'[i] # "none" => listing'[i] # "absent"
    <3>1. SUFFICES ASSUME expected'[i] # "none" PROVE listing'[i] # "absent"
      OBVIOUS
    <3>2. e[i] # "none"
      BY <1>3, <3>1
    <3>3. list[i] # "absent"
      BY <1>1, <1>4, <2>2, <2>3, <3>2 DEF IssueInv, ListedForGood
    <3>4. e[i] # "absent"
      BY <1>1
    <3> HIDE DEF list
    <3> QED BY <1>2, <3>2, <3>3, <3>4
  <2> QED BY <2>4, <2>5, <2>6
<1> QED BY <1>5, <1>6, <1>7, <1>8 DEF IssueInv

LEMMA IssueSteps == IssueInv /\ [IssuesNext]_ivars => IssueInv'
<1> SUFFICES ASSUME IssueInv, [IssuesNext]_ivars PROVE IssueInv'
  OBVIOUS
<1>1. CASE UNCHANGED ivars
  <2>1. IssueTypes'
    BY <1>1 DEF ivars, IssueInv, IssueTypes, IssuesTypeOK, Lagging, PatchesKnown
  <2>2. Listed' = Listed
    BY <1>1 DEF ivars, Listed
  <2>3. ListsInOrder' /\ BeforeList' /\ ListedForGood'
    BY <1>1, <2>2 DEF ivars, IssueInv, ListsInOrder, BeforeList, ListedForGood
  <2> QED BY <2>1, <2>3 DEF IssueInv
<1>2. CASE FetchIssues \/ ShowIssues \/ ReconcileReads
  BY <1>2, FetchKeeps, ReadKeeps
<1>3. ASSUME NEW i \in Issue,
             \/ ToggleIssue(i) \/ PatchIssue(i) \/ PatchSettles(i) \/ PatchFails(i)
             \/ RegisterCreatedIssue(i) \/ ListCatchesUp(i)
      PROVE  IssueInv'
  BY <1>3, ToggleKeeps, PatchKeeps, SettleKeeps, RegisterKeeps, CatchUpKeeps
<1>4. ASSUME NEW k \in 1..Len(answers), ReconcileAnswers(k) \/ ReconcileFails(k)
      PROVE  IssueInv'
  BY <1>4, AnswerKeeps, FailKeeps
<1> QED BY <1>1, <1>2, <1>3, <1>4 DEF IssuesNext

LEMMA AnswersKeepExpected ==
    ASSUME IssueInv, [IssuesNext]_ivars, answers' # answers, forgot = {},
           NEW i \in Issue, Shown(i)
    PROVE  Shown(i)'
<1>1. CASE UNCHANGED <<listing, expected, created>>
  BY <1>1 DEF Shown
<1>2. ASSUME NEW k \in 1..Len(answers), ReconcileAnswers(k) PROVE Shown(i)'
  <2> DEFINE list == answers[k]
             e == [j \in Issue |-> IF list[j] = expected[j] THEN "none" ELSE expected[j]]
             c == {j \in created : list[j] = "absent"}
  <2>1. /\ listing # NoList /\ e \in [Issue -> {"none", "open", "closed"}]
        /\ listing'[i] = IF list[i] = "absent" THEN IF i \in c THEN "open" ELSE "absent"
                         ELSE IF e[i] # "none" THEN e[i] ELSE list[i]
        /\ \/ expected' = e /\ created' = c
           \/ created' = {} /\ expected' = [j \in Issue |-> "none"]
    BY <1>2, AnswerFacts
  <2>2. (e[i] # "none" => expected[i] # "none") /\ (i \in created \ c => list[i] # "absent")
    OBVIOUS
  <2> HIDE DEF e, c
  <2>3. i \notin created /\ expected[i] # "none" => list[i] # "absent"
    BY <2>1 DEF IssueInv, ListedForGood
  <2> HIDE DEF list
  <2>4. CASE created' = {} /\ expected' = [j \in Issue |-> "none"]
    BY <2>4 DEF Shown
  <2>5. CASE expected' = e /\ created' = c
    <3>1. CASE i \in c
      <4>1. listing'[i] # "absent"
        BY <2>1, <3>1
      <4> QED BY <2>5, <3>1, <4>1 DEF Shown
    <3>2. CASE i \notin c
      <4>1. e[i] # "none" => listing'[i] = e[i]
        BY <2>1, <2>2, <2>3, <3>2
      <4> QED BY <2>5, <3>2, <4>1 DEF Shown
    <3> QED BY <3>1, <3>2
  <2> QED BY <2>1, <2>4, <2>5
<1>3. UNCHANGED <<listing, expected, created>> \/ \E k \in 1..Len(answers) : ReconcileAnswers(k)
  BY DEF IssuesNext, ivars, FetchIssues, ShowIssues, ReconcileReads, ToggleIssue, PatchIssue,
         PatchSettles, PatchFails, RegisterCreatedIssue, ListCatchesUp, ReconcileFails
<1> QED BY <1>1, <1>2, <1>3

(* Whatever list comes back and in whatever order, it takes no expected    *)
(* change off the page (useProject.ts, reconcileIssues), unless the page   *)
(* has given up on one, for any issues and number of changes.              *)
THEOREM IssuesShownAsExpected ==
  IssuesInit /\ [][IssuesNext]_ivars => ReconcileKeepsExpected
<1>1. IssueInv /\ [IssuesNext]_ivars =>
        [answers' # answers /\ forgot = {} => \A i \in Issue : Shown(i) => Shown(i)']_ivars
  BY AnswersKeepExpected
<1> QED BY IssuesStart, IssueSteps, <1>1, PTL DEF ReconcileKeepsExpected

-----------------------------------------------------------------------------
(***************************************************************************)
(* The dialogs over the query cache.  First the keys of all of them, then  *)
(* the counting that the type invariant needs, then the list.              *)
(***************************************************************************)

(* The keys.  A key that a dialog invalidates is a prefix of its query's.   *)
Agrees(s, t) == Len(s) <= Len(t) /\ \A i \in 1..Len(s) : s[i] = t[i]

LEMMA PrefixAgrees ==
    ASSUME NEW S, NEW s \in Seq(S), NEW t \in Seq(S), Agrees(s, t)
    PROVE  IsPrefix(s, t)
<1>1. SubSeq(s, 1, Len(s)) = SubSeq(t, 1, Len(s))
  BY DEF Agrees
<1> QED BY <1>1 DEF IsPrefix, Agrees

LEMMA PrefixUnder ==
    ASSUME NEW S, NEW p \in Seq(S), NEW s \in Seq(S), NEW t \in Seq(S), Agrees(s, t)
    PROVE  IsPrefix(p \o s, p \o t)
<1>1. p \o s \in Seq(S) /\ p \o t \in Seq(S)
  OBVIOUS
<1>2. Len(p \o s) <= Len(p \o t)
  BY DEF Agrees
<1>3. ASSUME NEW i \in 1..Len(p \o s) PROVE (p \o s)[i] = (p \o t)[i]
  <2>3. i \in Int /\ Len(p) \in Int
    OBVIOUS
  <2>0. i \in 1..Len(p \o t)
    BY <1>2
  <2>1. CASE i <= Len(p)
    BY <2>1, <2>0
  <2>2. CASE ~(i <= Len(p))
    <3>1. (p \o s)[i] = s[i - Len(p)] /\ (p \o t)[i] = t[i - Len(p)]
      BY <2>2, <2>0, <2>3
    <3>2. i - Len(p) \in 1..Len(s)
      BY <2>2, <2>3
    <3> QED BY <3>1, <3>2 DEF Agrees
  <2> QED BY <2>1, <2>2
<1> QED BY <1>1, <1>2, <1>3, PrefixAgrees DEF Agrees

LEMMA Tuples ==
    ASSUME NEW S, NEW a \in S, NEW b \in S, NEW c \in S
    PROVE  /\ <<>> \in Seq(S) /\ <<a>> \in Seq(S) /\ <<a, b>> \in Seq(S) /\ <<a, b, c>> \in Seq(S)
           /\ Agrees(<<>>, <<>>) /\ Agrees(<<>>, <<a>>) /\ Agrees(<<>>, <<a, b>>)
           /\ Agrees(<<a>>, <<a>>) /\ Agrees(<<a>>, <<a, b>>) /\ Agrees(<<a>>, <<a, b, c>>)
           /\ Agrees(<<a, b>>, <<a, b>>) /\ Agrees(<<a, b, c>>, <<a, b, c>>)
<1>1. <<>> \in Seq(S)
  OBVIOUS
<1>2. <<a>> \in Seq(S)
  OBVIOUS
<1>3. <<a, b>> \in Seq(S)
  OBVIOUS
<1>4. <<a, b, c>> \in Seq(S)
  OBVIOUS
<1>5. Agrees(<<>>, <<>>) 
  BY DEF Agrees
<1>6. Agrees(<<>>, <<a>>) /\ Agrees(<<>>, <<a, b>>)
  BY DEF Agrees
<1>7. Agrees(<<a>>, <<a>>)
  BY DEF Agrees
<1>8. Agrees(<<a>>, <<a, b>>)
  BY DEF Agrees
<1>9. Agrees(<<a>>, <<a, b, c>>)
  BY DEF Agrees
<1>10. Agrees(<<a, b, c>>, <<a, b, c>>) /\ Agrees(<<a, b>>, <<a, b>>)
  BY DEF Agrees
<1> QED BY <1>1, <1>2, <1>3, <1>4, <1>5, <1>6, <1>7, <1>8, <1>9, <1>10


(* The words that keys are made of.                                        *)
Word == {"projects", "owner", "project", "ref", "path", "name", "undefined", "showcase",
         "questions", "figures", "datasets", "publications", "files", "collaborators",
         "invitations", "releases", "shares", "page", "local-server-main", "status", "pipeline",
         "org-users", "org", "users", "currentUser", "user", "tokens", "connected-accounts",
         "notifications", "unread"}

LEMMA ProjectPrefixes ==
    ASSUME NEW a \in Word, NEW b \in Word, NEW c \in Word
    PROVE  /\ IsPrefix(OfProject(<<a>>), OfProject(<<a>>))
           /\ IsPrefix(OfProject(<<a>>), OfProject(<<a, b>>))
           /\ IsPrefix(OfProject(<<a>>), OfProject(<<a, b, c>>))
           /\ IsPrefix(OfProject(<<a, b, c>>), OfProject(<<a, b, c>>))
           /\ IsPrefix(OfProject(<<>>), OfProject(<<>>))
           /\ IsPrefix(OfProject(<<>>), OfProject(<<a, b>>))
<1>1. <<"projects", "owner", "project">> \in Seq(Word) 
  <2>1. "projects" \in Word /\ "owner" \in Word /\ "project" \in Word
    BY DEF Word
  <2> QED BY <2>1, Tuples
<1> QED BY <1>1, Tuples, PrefixUnder DEF OfProject

LEMMA OtherPrefixes ==
    ASSUME NEW a \in Word, NEW b \in Word
    PROVE  /\ IsPrefix(<<>>, <<a>>) /\ IsPrefix(<<a>>, <<a, b>>) /\ IsPrefix(<<a, b>>, <<a, b>>)
           /\ IsPrefix(<<"projects">>, OfProject(<<>>))
           /\ IsPrefix(OfLocal(<<a>>), OfLocal(<<a>>))
<1>1. /\ "projects" \in Word /\ "owner" \in Word /\ "project" \in Word
      /\ "local-server-main" \in Word
  BY DEF Word
<1>2. /\ <<"projects">> \in Seq(Word) /\ <<"projects", "owner", "project">> \in Seq(Word)
      /\ <<"local-server-main", "owner", "project">> \in Seq(Word)
      /\ <<>> \in Seq(Word)
      /\ Agrees(<<"projects">>, <<"projects", "owner", "project">>)
  BY <1>1, Tuples
<1>3. OfProject(<<>>) = <<"projects", "owner", "project">>
  BY <1>2 DEF OfProject
<1> QED BY <1>2, <1>3, Tuples, PrefixAgrees, PrefixUnder DEF OfLocal

LEMMA ProjectListsCovered ==
    \A d \in {UploadFigure, LabelAsFigure, UploadDataset, DatasetFromExisting, UploadFile, EditFileInfo, FileLock, CreateQuestion, EditQuestion, NewPublication, ImportOverleaf, OverleafSync, AddCollaborator, CreateInvite, RevokeInvite, CreateShare, RevokeShare, DeleteRelease, ImportGithubReleases, ReleaseToGithub, ProjectStatus, EditProject, MakeProjectPublic} : Covered(d)
<1> USE DEF Covered, Form, Query
<1>1. Covered(UploadFigure) /\ Covered(LabelAsFigure)
  <2>1. "figures" \in Word /\ "ref" \in Word
    BY DEF Word
  <2> QED BY <2>1, ProjectPrefixes DEF UploadFigure, LabelAsFigure, FiguresQuery
<1>2. Covered(UploadDataset) /\ Covered(DatasetFromExisting)
  <2>1. "datasets" \in Word /\ "ref" \in Word
    BY DEF Word
  <2> QED BY <2>1, ProjectPrefixes DEF UploadDataset, DatasetFromExisting, DatasetsQuery
<1>3. Covered(UploadFile)
  <2>1. "files" \in Word /\ "ref" \in Word
    BY DEF Word
  <2> QED BY <2>1, ProjectPrefixes DEF UploadFile, FilesQuery
<1>4. Covered(EditFileInfo) /\ Covered(FileLock)
  <2>1. "files" \in Word /\ "path" \in Word /\ "ref" \in Word
    BY DEF Word
  <2> QED BY <2>1, ProjectPrefixes DEF EditFileInfo, FileLock, SelectedFileQuery, Button
<1>5. Covered(CreateQuestion) /\ Covered(EditQuestion)
  <2>1. "questions" \in Word /\ "ref" \in Word
    BY DEF Word
  <2> QED BY <2>1, ProjectPrefixes DEF CreateQuestion, EditQuestion, QuestionsQuery
<1>6. Covered(NewPublication) /\ Covered(ImportOverleaf) /\ Covered(OverleafSync)
  <2>1. "publications" \in Word /\ "ref" \in Word
    BY DEF Word
  <2> QED BY <2>1, ProjectPrefixes DEF NewPublication, ImportOverleaf, OverleafSync, PublicationsQuery, Button
<1>7. Covered(AddCollaborator)
  <2>1. "collaborators" \in Word
    BY DEF Word
  <2> QED BY <2>1, ProjectPrefixes DEF AddCollaborator, CollaboratorsQuery
<1>8. Covered(CreateInvite) /\ Covered(RevokeInvite)
  <2>1. "invitations" \in Word
    BY DEF Word
  <2> QED BY <2>1, ProjectPrefixes DEF CreateInvite, RevokeInvite, InvitationsQuery, Button, RowButton
<1>9. Covered(CreateShare) /\ Covered(RevokeShare)
  <2>1. "releases" \in Word /\ "name" \in Word /\ "shares" \in Word
    BY DEF Word
  <2> QED BY <2>1, ProjectPrefixes DEF CreateShare, RevokeShare, SharesQuery, Button, RowButton
<1>10. Covered(DeleteRelease) /\ Covered(ImportGithubReleases) /\ Covered(ReleaseToGithub)
  <2>1. "releases" \in Word /\ "undefined" \in Word
    BY DEF Word
  <2> QED BY <2>1, ProjectPrefixes DEF DeleteRelease, ImportGithubReleases, ReleaseToGithub, ReleasesQuery, Button, RowButton
<1>11. Covered(ProjectStatus)
  <2>1. "ref" \in Word
    BY DEF Word
  <2> QED BY <2>1, ProjectPrefixes DEF ProjectStatus, ProjectQuery
<1>12. Covered(EditProject) /\ Covered(MakeProjectPublic)
  <2>1. "ref" \in Word
    BY DEF Word
  <2> QED BY <2>1, OtherPrefixes DEF EditProject, MakeProjectPublic, ProjectQuery, Button
<1> HIDE DEF Covered
<1> QED BY <1>1, <1>2, <1>3, <1>4, <1>5, <1>6, <1>7, <1>8, <1>9, <1>10, <1>11, <1>12

LEMMA OtherListsCovered ==
    \A d \in {NewProject, AddMember, AddUser, EditUser, UserInformation, NewToken, TokenActive, UpdateOverleafToken, DisconnectAccount, MarkRead, MarkAllRead, AddPath, IgnorePath, SaveFiles, DiscardChanges, GitPush, DvcPush, DvcPull, RunPipeline, NewStage, Clone} : Covered(d)
<1> USE DEF Covered, Form, Query
<1>1. Covered(NewProject)
  <2>1. "projects" \in Word /\ "page" \in Word
    BY DEF Word
  <2> QED BY <2>1, OtherPrefixes DEF NewProject, OwnedProjectsQuery
<1>2. Covered(AddMember)
  <2>1. "org-users" \in Word /\ "org" \in Word
    BY DEF Word
  <2> QED BY <2>1, OtherPrefixes DEF AddMember, OrgUsersQuery
<1>3. Covered(AddUser) /\ Covered(EditUser)
  <2>1. "users" \in Word /\ "page" \in Word
    BY DEF Word
  <2> QED BY <2>1, OtherPrefixes DEF AddUser, EditUser, UsersQuery
<1>4. Covered(UserInformation)
  <2>1. "currentUser" \in Word
    BY DEF Word
  <2> QED BY <2>1, OtherPrefixes DEF UserInformation, CurrentUserQuery
<1>5. Covered(NewToken) /\ Covered(TokenActive)
  <2>1. "user" \in Word /\ "tokens" \in Word
    BY DEF Word
  <2> QED BY <2>1, OtherPrefixes DEF NewToken, TokenActive, TokensQuery, Button
<1>6. Covered(UpdateOverleafToken) /\ Covered(DisconnectAccount)
  <2>1. "user" \in Word /\ "connected-accounts" \in Word
    BY DEF Word
  <2> QED BY <2>1, OtherPrefixes DEF UpdateOverleafToken, DisconnectAccount, ConnectedAccountsQuery, Button
<1>7. Covered(MarkRead) /\ Covered(MarkAllRead)
  <2>1. "notifications" \in Word /\ "unread" \in Word
    BY DEF Word
  <2> QED BY <2>1, OtherPrefixes DEF MarkRead, MarkAllRead, NotificationsQuery, Button, RowButton
<1>8. Covered(AddPath) /\ Covered(IgnorePath) /\ Covered(SaveFiles)
  <2>1. "status" \in Word
    BY DEF Word
  <2> QED BY <2>1, OtherPrefixes DEF AddPath, IgnorePath, SaveFiles, LocalStatusQuery
<1>9. Covered(DiscardChanges) /\ Covered(GitPush) /\ Covered(DvcPush) /\ Covered(DvcPull) /\ Covered(RunPipeline)
  <2>1. "status" \in Word
    BY DEF Word
  <2> QED BY <2>1, OtherPrefixes DEF DiscardChanges, GitPush, DvcPush, DvcPull, RunPipeline, LocalStatusQuery, Button
<1>10. Covered(NewStage) /\ Covered(Clone)
  <2>1. "pipeline" \in Word
    BY DEF Word
  <2> QED BY <2>1, OtherPrefixes DEF NewStage, Clone, LocalPipelineQuery, Button
<1> HIDE DEF Covered
<1> QED BY <1>1, <1>2, <1>3, <1>4, <1>5, <1>6, <1>7, <1>8, <1>9, <1>10

LEMMA DeletesCovered ==
    \A type \in {"Project", "User", "Collaborator"} : Covered(Delete(type))
<1> USE DEF Covered, Form, Query, Button, Delete
<1>1. Covered(Delete("Project"))
  <2>1. "projects" \in Word /\ "page" \in Word
    BY DEF Word
  <2> QED BY <2>1, OtherPrefixes DEF OwnedProjectsQuery
<1>2. Covered(Delete("User"))
  <2>1. "users" \in Word /\ "page" \in Word
    BY DEF Word
  <2> QED BY <2>1, OtherPrefixes DEF UsersQuery
<1>3. Covered(Delete("Collaborator"))
  <2>1. "collaborators" \in Word
    BY DEF Word
  <2> QED BY <2>1, ProjectPrefixes DEF CollaboratorsQuery
<1> QED BY <1>1, <1>2, <1>3

LEMMA FilesCovered ==
    /\ Covered(GitPull(LocalStatusQuery))
    /\ \A list \in {PublicationsQuery, ShowcaseQuery} : Covered(SaveLatex(list))
<1> USE DEF Covered, Form, Query, Button
<1>1. Covered(GitPull(LocalStatusQuery))
  <2>1. "status" \in Word
    BY DEF Word
  <2> QED BY <2>1, OtherPrefixes DEF LocalStatusQuery, GitPull
<1>2. \A list \in {PublicationsQuery, ShowcaseQuery} : Covered(SaveLatex(list))
  <2>1. "publications" \in Word /\ "showcase" \in Word /\ "ref" \in Word
    BY DEF Word
  <2>2. Covered(SaveLatex(PublicationsQuery))
    BY <2>1, ProjectPrefixes DEF PublicationsQuery, SaveLatex
  <2>3. Covered(SaveLatex(ShowcaseQuery))
    BY <2>1, ProjectPrefixes DEF ShowcaseQuery, SaveLatex
  <2> HIDE DEF Covered
  <2> QED BY <2>2, <2>3
<1> QED BY <1>1, <1>2

(* Every dialog and button but the two known gaps invalidates a key that   *)
(* is a prefix of the key of the query that shows its change (React Query's *)
(* partial matching; the invalidateQueries calls of FormDialogs' sources). *)
THEOREM EveryKeyIsAPrefix == \A d \in Dialogs \ KnownGaps : Covered(d)
BY ProjectListsCovered, OtherListsCovered, DeletesCovered, FilesCovered DEF Dialogs, KnownGaps


(* What a list lacks is still to be answered: its answer will invalidate.  *)
Lacks(list) == \A c \in Made \ list : \E p \in sent : p.change = c /\ p.made

Waiting(c) == {p \in sent : p.change = c /\ ~p.made}
Answered(c) == {p \in sent : p.change = c /\ p.made}

DialogTypes ==
    /\ dialog \in {Behaviour(d) : d \in Dialogs} /\ (dialog.gap \/ dialog.covered)
    /\ {mounted, dialogOpen, invalid, behind} \subseteq BOOLEAN
    /\ written \in 0..MaxChanges /\ draft \in 0..written
    /\ sent \subseteq [change : 1..written, n : 1..2, made : BOOLEAN]
    /\ awaited \in (0..written) \X (0..2)
    /\ made \in [Change -> Nat]
    /\ listData = NoData \/ listData \subseteq Made
    /\ fetching \in {Idle, Asked} \cup [st : {"read"}, read : SUBSET Made]

(* A change is made or under way at most twice, so that a number is free    *)
(* for the request, and an answer that waits is of a change that was made. *)
Counted ==
    /\ IsFiniteSet(sent)
    /\ \A c \in Change : /\ made[c] + Cardinality(Waiting(c)) <= 2
                         /\ Cardinality(Answered(c)) <= made[c]

(* Of a query that is covered and was not left behind: what is shown, once *)
(* nothing is fetched, and what was read lack only what will be answered.  *)
ListFollows ==
    ~dialog.gap /\ ~behind =>
        /\ fetching = Idle /\ (mounted \/ (listData # NoData /\ ~invalid)) =>
              listData # NoData /\ Lacks(listData)
        /\ fetching.st = "read" => Lacks(fetching.read)

DialogInv == DialogTypes /\ Counted /\ ListFollows

LEMMA DialogsStart == FormsInit => DialogInv
<1> SUFFICES ASSUME FormsInit PROVE DialogInv
  OBVIOUS
<1>1. dialog.gap \/ dialog.covered
  <2>1. PICK d \in Dialogs : dialog = Behaviour(d)
    BY DEF FormsInit
  <2>2. d \in KnownGaps \/ Covered(d)
    BY EveryKeyIsAPrefix
  <2> QED BY <2>1, <2>2 DEF Behaviour
<1>2. Counted
  <2>1. sent = {} /\ \A c \in Change : Waiting(c) = {} /\ Answered(c) = {} /\ made[c] = 0
    BY DEF FormsInit, Waiting, Answered
  <2> QED BY <2>1, FS_EmptySet DEF Counted
<1>3. /\ dialog \in {Behaviour(d) : d \in Dialogs}
      /\ {mounted, dialogOpen, invalid, behind} \subseteq BOOLEAN
      /\ sent = {} /\ listData = NoData /\ fetching = Asked
  BY DEF FormsInit
<1>4. written \in 0..MaxChanges /\ draft \in 0..written /\ made \in [Change -> Nat]
      /\ awaited \in (0..written) \X (0..2)
  BY FormDialogsAssumption DEF FormsInit, NoRequest
<1>5. ListFollows
  BY <1>3 DEF ListFollows, Asked, Idle
<1> QED BY <1>1, <1>2, <1>3, <1>4, <1>5 DEF DialogInv, DialogTypes

LEMMA CountsAreSmall ==
    ASSUME Counted, made \in [Change -> Nat], NEW c \in Change
    PROVE  /\ IsFiniteSet(Waiting(c)) /\ Cardinality(Waiting(c)) \in Nat
           /\ IsFiniteSet(Answered(c)) /\ Cardinality(Answered(c)) \in Nat
           /\ made[c] \in 0..2
<1>1. Waiting(c) \in SUBSET sent /\ Answered(c) \in SUBSET sent
  BY DEF Waiting, Answered
<1>2. IsFiniteSet(Waiting(c)) /\ IsFiniteSet(Answered(c))
  BY <1>1, FS_Subset DEF Counted
<1>3. Cardinality(Waiting(c)) \in Nat /\ Cardinality(Answered(c)) \in Nat
  BY <1>2, FS_CardinalityType
<1> QED BY <1>2, <1>3 DEF Counted

LEMMA DialogTyping == DialogInv => FormsTypeOK
<1> SUFFICES ASSUME DialogInv PROVE FormsTypeOK
  OBVIOUS
<1>1. made \in [Change -> 0..2]
  BY CountsAreSmall DEF DialogInv, DialogTypes
<1> QED BY <1>1 DEF DialogInv, DialogTypes, FormsTypeOK

(* Steps of the query and the page.                                        *)
LEMMA QueryKeeps ==
    ASSUME DialogInv,
           \/ ServerReads \/ FetchEnds \/ FetchFails \/ MountPage \/ LeavePage \/ CollectList
           \/ OpenDialog \/ WriteDraft \/ CloseDialog
    PROVE  DialogInv'
<1> USE DEF DialogInv, DialogTypes, dialogVars, serverVars, listVars
<1>1. /\ UNCHANGED <<dialog, sent, made>> /\ Made' = Made
      /\ (\A l : Lacks(l)' <=> Lacks(l))
  <2>1. UNCHANGED <<dialog, sent, made>>
    BY DEF ServerReads, FetchEnds, FetchFails, MountPage, LeavePage, CollectList, OpenDialog,
           WriteDraft, CloseDialog
  <2> QED BY <2>1 DEF Made, Lacks
<1>2. Counted' /\ awaited' \in (0..written') \X (0..2)
  <2>1. Counted'
    BY <1>1 DEF Counted, Waiting, Answered
  <2>2. awaited' \in {awaited, NoRequest}
    BY DEF ServerReads, FetchEnds, FetchFails, MountPage, LeavePage, CollectList, OpenDialog,
           WriteDraft, CloseDialog
  <2>3. written' \in {written, written + 1}
    BY DEF ServerReads, FetchEnds, FetchFails, MountPage, LeavePage, CollectList, OpenDialog,
           WriteDraft, CloseDialog
  <2>4. 0..written \subseteq 0..written' /\ 0 \in 0..written'
    BY <2>3, FormDialogsAssumption
  <2>5. NoRequest \in (0..written') \X (0..2)
    BY <2>4 DEF NoRequest
  <2>6. awaited \in (0..written') \X (0..2)
    BY <2>4
  <2> QED BY <2>1, <2>2, <2>5, <2>6
<1>3. CASE ServerReads
  <2>1. fetching' \in [st : {"read"}, read : SUBSET Made'] /\ fetching'.read = Made
    BY <1>1, <1>3 DEF ServerReads
  <2>2. UNCHANGED <<mounted, dialogOpen, draft, written, listData, invalid, behind>>
    BY <1>3 DEF ServerReads
  <2> QED BY <1>1, <1>2, <2>1, <2>2 DEF ListFollows, Lacks, Idle
<1>4. CASE FetchEnds
  <2>1. fetching \in [st : {"read"}, read : SUBSET Made]
    BY <1>4 DEF FetchEnds, Idle, Asked
  <2>2. fetching.read # NoData
    BY <2>1, FormDialogsAssumption DEF NoData, Made, Change
  <2>3. /\ UNCHANGED <<mounted, dialogOpen, draft, written, behind>>
        /\ listData' = fetching.read /\ invalid' = FALSE /\ fetching' = Idle
    BY <1>4 DEF FetchEnds
  <2> QED BY <1>1, <1>2, <2>1, <2>2, <2>3 DEF ListFollows, Idle
<1>5. CASE FetchFails
  <2>1. /\ UNCHANGED <<mounted, dialogOpen, draft, written, listData, invalid>>
        /\ behind' = TRUE /\ fetching' = Idle
    BY <1>5 DEF FetchFails
  <2> QED BY <1>1, <1>2, <2>1 DEF ListFollows
<1>6. CASE MountPage
  <2>1. /\ UNCHANGED <<dialogOpen, draft, written, listData, invalid>> /\ mounted' = TRUE
    BY <1>6 DEF MountPage
  <2>2. CASE fetching' = Asked /\ behind' = FALSE
    BY <1>1, <1>2, <2>1, <2>2 DEF ListFollows, Asked, Idle
  <2>3. CASE /\ UNCHANGED fetching
             /\ behind' \in BOOLEAN /\ (behind => behind')
             /\ behind' \/ fetching # Idle \/ (~behind /\ listData # NoData /\ ~invalid)
    BY <1>1, <1>2, <2>1, <2>3 DEF ListFollows
  <2> QED BY <1>6, <2>2, <2>3 DEF MountPage
<1>7. CASE LeavePage
  <2>1. /\ UNCHANGED <<written, listData, invalid, fetching, behind>>
        /\ mounted /\ mounted' = FALSE /\ dialogOpen' = FALSE /\ draft' = 0
    BY <1>7 DEF LeavePage
  <2>2. 0 \in 0..written
    BY FormDialogsAssumption
  <2>3. DialogTypes'
    BY <1>1, <1>2, <2>1, <2>2
  <2> QED BY <1>1, <1>2, <2>1, <2>3 DEF ListFollows
<1>8. CASE CollectList
  <2>1. /\ UNCHANGED <<mounted, dialogOpen, draft, written, fetching, behind>>
        /\ ~mounted /\ fetching = Idle /\ listData' = NoData /\ invalid' = FALSE
    BY <1>8 DEF CollectList
  <2> QED BY <1>1, <1>2, <2>1 DEF ListFollows, Idle
<1>9. CASE OpenDialog \/ WriteDraft \/ CloseDialog
  <2>1. UNCHANGED <<mounted, listData, invalid, fetching, behind>> /\ dialogOpen' \in BOOLEAN
    BY <1>9 DEF OpenDialog, WriteDraft, CloseDialog
  <2>2. /\ draft' \in 0..written' /\ written' \in 0..MaxChanges
        /\ sent \subseteq [change : 1..written', n : 1..2, made : BOOLEAN]
    BY <1>9, FormDialogsAssumption DEF OpenDialog, WriteDraft, CloseDialog
  <2> QED BY <1>1, <1>2, <2>1, <2>2 DEF ListFollows
<1> QED BY <1>3, <1>4, <1>5, <1>6, <1>7, <1>8, <1>9

(* Send finds a number for the request: fewer than two are under way.      *)
LEMMA SendAdds ==
    ASSUME DialogTypes, Counted, NEW c \in Change, Send(c)
    PROVE  /\ made[c] + Cardinality(Waiting(c)) < 2
           /\ \E n \in 1..2 : /\ sent' = sent \cup {[change |-> c, made |-> FALSE, n |-> n]}
                            /\ awaited' \in {NoRequest, <<c, n>>}
<1> DEFINE mine == {p \in sent : p.change = c}
<1>1. made[c] + Cardinality(Waiting(c)) < 2
  <2>1. {p \in mine : ~p.made} = Waiting(c)
    BY DEF Waiting
  <2> QED BY <2>1 DEF Send
<1>2. \E n \in 1..2 : \A p \in mine : p.n # n
  <2>1. SUFFICES ASSUME NEW p \in mine, p.n = 1, NEW q \in mine, q.n = 2
                 PROVE  FALSE
    OBVIOUS
  <2>2. p # q
    BY <2>1
  <2>3. Cardinality(Waiting(c)) + Cardinality(Answered(c)) < 2
    BY <1>1, CountsAreSmall DEF Counted, DialogTypes
  <2>4. \A S \in {Waiting(c), Answered(c)} : p \in S => Cardinality(S) >= 1
    BY CountsAreSmall, FS_EmptySet DEF DialogTypes
  <2>5. \A S \in {Waiting(c), Answered(c)} : q \in S => Cardinality(S) >= 1
    BY CountsAreSmall, FS_EmptySet DEF DialogTypes
  <2>6. \A S \in {Waiting(c), Answered(c)} : p \in S /\ q \in S => Cardinality(S) >= 2
    <3> SUFFICES ASSUME NEW S \in {Waiting(c), Answered(c)}, p \in S, q \in S
                 PROVE  Cardinality(S) >= 2
      OBVIOUS
    <3>1. IsFiniteSet(S) /\ Cardinality(S) \in Nat
      BY CountsAreSmall DEF DialogTypes
    <3>2. Cardinality(S) # 0 /\ Cardinality(S) # 1
      BY <2>2, <3>1, FS_EmptySet, FS_Singleton
    <3> QED BY <3>1, <3>2
  <2>7. (p \in Waiting(c) \/ p \in Answered(c)) /\ (q \in Waiting(c) \/ q \in Answered(c))
    BY DEF Waiting, Answered
  <2>8. Cardinality(Waiting(c)) \in Nat /\ Cardinality(Answered(c)) \in Nat
    BY CountsAreSmall DEF DialogTypes
  <2> QED BY <2>3, <2>4, <2>5, <2>6, <2>7, <2>8
<1>3. DEFINE n == CHOOSE k \in 1..2 : \A p \in mine : p.n # k
<1>4. n \in 1..2
  BY <1>2
<1>5. /\ sent' = sent \cup {[change |-> c, made |-> FALSE, n |-> n]}
      /\ awaited' \in {NoRequest, <<c, n>>}
  BY DEF Send
<1> HIDE DEF n
<1> QED BY <1>1, <1>4, <1>5

LEMMA SendKeeps ==
    ASSUME DialogInv, NEW c \in 1..written', Send(c),
           UNCHANGED <<dialog, mounted, made, listVars>>, dialogOpen' \in BOOLEAN,
           draft' \in 0..written', written' \in 0..MaxChanges, written <= written'
    PROVE  DialogInv'
<1> USE DEF DialogInv
<1>0. c \in Change
  BY FormDialogsAssumption DEF Change
<1>1. PICK n \in 1..2 : /\ sent' = sent \cup {[change |-> c, made |-> FALSE, n |-> n]}
                        /\ awaited' \in {NoRequest, <<c, n>>}
  BY <1>0, SendAdds
<1> DEFINE q == [change |-> c, made |-> FALSE, n |-> n]
<1>2. UNCHANGED <<dialog, mounted, made, listData, invalid, fetching, behind>>
      /\ Made' = Made
  BY DEF listVars, Made
<1>3. DialogTypes'
  <2>1. sent \subseteq [change : 1..written', n : 1..2, made : BOOLEAN]
    BY DEF DialogTypes
  <2>2. q \in [change : 1..written', n : 1..2, made : BOOLEAN]
    OBVIOUS
  <2>3. awaited' \in (0..written') \X (0..2)
    BY <1>1, FormDialogsAssumption DEF NoRequest
  <2> QED BY <1>1, <1>2, <2>1, <2>2, <2>3 DEF DialogTypes
<1>4. Counted'
  <2>1. IsFiniteSet(sent')
    BY <1>1, FS_AddElement DEF Counted
  <2>2. \A k \in Change : Answered(k)' = Answered(k)
    BY <1>1 DEF Answered
  <2>3. \A k \in Change \ {c} : Waiting(k)' = Waiting(k)
    BY <1>1 DEF Waiting
  <2>4. Waiting(c)' = Waiting(c) \cup {q}
    BY <1>1 DEF Waiting
  <2>5. Cardinality(Waiting(c)') <= Cardinality(Waiting(c)) + 1
    <3>1. IsFiniteSet(Waiting(c)) /\ Cardinality(Waiting(c)) \in Nat
      BY <1>0, CountsAreSmall DEF DialogTypes
    <3>2. Cardinality(Waiting(c) \cup {q}) \in {Cardinality(Waiting(c)), Cardinality(Waiting(c)) + 1}
      BY <3>1, FS_AddElement
    <3> QED BY <2>4, <3>1, <3>2
  <2>6. made[c] + Cardinality(Waiting(c)') <= 2
    <3>1. Cardinality(Waiting(c)') \in Nat
      BY <1>0, <2>4, CountsAreSmall, FS_AddElement, FS_CardinalityType DEF DialogTypes
    <3> QED BY <1>0, <2>5, <3>1, SendAdds, CountsAreSmall DEF DialogTypes
  <2> HIDE DEF q
  <2> QED BY <1>0, <1>2, <2>1, <2>2, <2>3, <2>6 DEF Counted
<1>5. ListFollows'
  <2>1. \A l : Lacks(l) => Lacks(l)'
    BY <1>1, <1>2 DEF Lacks
  <2> QED BY <1>2, <2>1 DEF ListFollows
<1> QED BY <1>3, <1>4, <1>5

(* A request is answered, or fails: its keys are invalidated, or the list  *)
(* is known to be behind.                                                  *)
LEMMA AnswersKeep ==
    ASSUME DialogInv, NEW p \in sent, Settle(p),
           \/ Invalidate
           \/ behind' = (behind \/ p.made) /\ UNCHANGED <<invalid, fetching>>,
           UNCHANGED <<dialog, mounted, written, made, listData>>,
           draft' \in {0, draft}, dialogOpen' \in BOOLEAN
    PROVE  DialogInv'
<1> USE DEF DialogInv
<1>0. sent' = sent \ {p} /\ awaited' \in {awaited, NoRequest}
  BY DEF Settle
<1>1. Made' = Made
  BY DEF Made
<1>2. DialogTypes'
  <2>1. fetching' = Asked \/ fetching' = fetching
    BY DEF Invalidate
  <2>2. draft' \in 0..written'
    BY FormDialogsAssumption DEF DialogTypes
  <2>3. invalid' \in BOOLEAN /\ behind' \in BOOLEAN
    BY DEF DialogTypes, Invalidate
  <2>4. awaited' \in (0..written') \X (0..2)
    BY <1>0, FormDialogsAssumption DEF DialogTypes, NoRequest
  <2> QED BY <1>0, <1>1, <2>1, <2>2, <2>3, <2>4 DEF DialogTypes, Asked
<1>3. Counted'
  <2>1. IsFiniteSet(sent')
    BY <1>0, FS_RemoveElement DEF Counted
  <2>2. ASSUME NEW c \in Change
        PROVE  /\ made'[c] + Cardinality(Waiting(c)') <= 2
               /\ Cardinality(Answered(c)') <= made'[c]
    <3>1. Waiting(c)' \in SUBSET Waiting(c) /\ Answered(c)' \in SUBSET Answered(c)
      BY <1>0 DEF Waiting, Answered
    <3>2. /\ IsFiniteSet(Waiting(c)) /\ Cardinality(Waiting(c)) \in Nat
          /\ IsFiniteSet(Answered(c)) /\ Cardinality(Answered(c)) \in Nat
          /\ made[c] \in 0..2
      BY CountsAreSmall DEF DialogTypes
    <3>3. /\ Cardinality(Waiting(c)') <= Cardinality(Waiting(c))
          /\ Cardinality(Answered(c)') <= Cardinality(Answered(c))
          /\ Cardinality(Waiting(c)') \in Nat /\ Cardinality(Answered(c)') \in Nat
      BY <3>1, <3>2, FS_Subset, FS_CardinalityType
    <3> QED BY <3>2, <3>3 DEF Counted
  <2> QED BY <2>1, <2>2 DEF Counted
<1>4. CASE Invalidate
  <2>1. ASSUME dialog.gap PROVE ListFollows'
    BY <2>1 DEF ListFollows
  <2>2. ASSUME ~dialog.gap, mounted, listData # NoData \/ fetching = Idle PROVE ListFollows'
    <3>1. fetching' = Asked
      BY <1>4, <2>2 DEF Invalidate, DialogTypes
    <3> QED BY <3>1 DEF ListFollows, Asked, Idle
  <2>3. ASSUME ~dialog.gap, ~(mounted /\ (listData # NoData \/ fetching = Idle)) PROVE ListFollows'
    <3>1. invalid' = TRUE /\ behind' = (behind \/ fetching # Idle) /\ UNCHANGED fetching
      BY <1>4, <2>3 DEF Invalidate, DialogTypes
    <3>2. ~behind' => fetching' = Idle /\ ~mounted' /\ invalid'
      BY <2>3, <3>1
    <3>3. fetching' = Idle => fetching'.st # "read"
      BY DEF Idle
    <3> QED BY <3>2, <3>3 DEF ListFollows
  <2>4. ListFollows'
    BY <2>1, <2>2, <2>3
  <2> QED BY <1>2, <1>3, <2>4
<1>5. CASE behind' = (behind \/ p.made) /\ UNCHANGED <<invalid, fetching>>
  <2>1. CASE p.made
    BY <1>2, <1>3, <1>5, <2>1 DEF ListFollows
  <2>2. CASE ~p.made
    <3>1. \A l : Lacks(l) => Lacks(l)'
      BY <1>0, <1>1, <2>2 DEF Lacks
    <3> QED BY <1>2, <1>3, <1>5, <2>2, <3>1 DEF ListFollows
  <2> QED BY <2>1, <2>2
<1> QED BY <1>4, <1>5

LEMMA Makes ==
    ASSUME NEW W, NEW p \in [change : W, n : 1..2, made : BOOLEAN]
    PROVE  LET q == [p EXCEPT !.made = TRUE]
           IN q \in [change : W, n : 1..2, made : BOOLEAN] /\ q.made /\ q.change = p.change
OBVIOUS

LEMMA MakeKeeps == ASSUME DialogInv, NEW p \in sent, ServerMakes(p) PROVE DialogInv'
<1> USE DEF DialogInv
<1> DEFINE c == p.change
           q == [p EXCEPT !.made = TRUE]
<1>1. UNCHANGED <<dialog, mounted, dialogOpen, draft, written, awaited, listData, invalid, fetching, behind>>
  BY DEF ServerMakes, dialogVars, listVars
<1>2. /\ p \in [change : 1..written, n : 1..2, made : BOOLEAN] /\ ~p.made /\ c \in Change
      /\ q \in [change : 1..written, n : 1..2, made : BOOLEAN] /\ q.made /\ q.change = c
  <2>1. p \in [change : 1..written, n : 1..2, made : BOOLEAN] /\ ~p.made
    BY DEF DialogTypes, ServerMakes
  <2>2. written \in 0..MaxChanges /\ c \in 1..written
    BY <2>1 DEF DialogTypes
  <2>3. c \in Change
    BY <2>2, FormDialogsAssumption DEF Change
  <2>4. q \in [change : 1..written, n : 1..2, made : BOOLEAN] /\ q.made /\ q.change = c
    BY <2>1, Makes
  <2> QED BY <2>1, <2>3, <2>4
<1>3. made' = [made EXCEPT ![c] = @ + 1] /\ sent' = (sent \ {p}) \cup {q}
  BY DEF ServerMakes
<1> HIDE DEF c, q
<1>4. made' \in [Change -> Nat] /\ Made \subseteq Made' /\ (\A d \in Made' : d \in Made \/ d = c)
      /\ made'[c] = made[c] + 1 /\ (\A d \in Change \ {c} : made'[d] = made[d])
  BY <1>2, <1>3 DEF Made, DialogTypes
<1>5. DialogTypes'
  <2>1. sent' \subseteq [change : 1..written, n : 1..2, made : BOOLEAN]
    BY <1>2, <1>3 DEF DialogTypes
  <2>2. fetching' \in {Idle, Asked} \cup [st : {"read"}, read : SUBSET Made']
    BY <1>1, <1>4 DEF DialogTypes
  <2> QED BY <1>1, <1>4, <2>1, <2>2 DEF DialogTypes
<1>6. Counted'
  <2>1. IsFiniteSet(sent')
    BY <1>3, FS_RemoveElement, FS_AddElement DEF Counted
  <2>2. \A d \in Change \ {c} : Waiting(d)' = Waiting(d) /\ Answered(d)' = Answered(d)
    BY <1>2, <1>3 DEF Waiting, Answered, c
  <2>3. Waiting(c)' = Waiting(c) \ {p} /\ Answered(c)' = Answered(c) \cup {q} /\ p \in Waiting(c)
    BY <1>2, <1>3 DEF Waiting, Answered, c
  <2>4. /\ IsFiniteSet(Waiting(c)) /\ Cardinality(Waiting(c)) \in Nat
        /\ IsFiniteSet(Answered(c)) /\ Cardinality(Answered(c)) \in Nat
        /\ made[c] \in 0..2
    BY <1>2, CountsAreSmall DEF DialogTypes
  <2>5. /\ Cardinality(Waiting(c)') = Cardinality(Waiting(c)) - 1
        /\ Cardinality(Answered(c)') \in {Cardinality(Answered(c)), Cardinality(Answered(c)) + 1}
    <3>1. Cardinality(Waiting(c) \ {p}) = Cardinality(Waiting(c)) - 1
      BY <2>3, <2>4, FS_RemoveElement
    <3>2. Cardinality(Answered(c) \cup {q}) \in {Cardinality(Answered(c)), Cardinality(Answered(c)) + 1}
      BY <2>4, FS_AddElement
    <3> QED BY <2>3, <3>1, <3>2
  <2>6. made'[c] + Cardinality(Waiting(c)') <= 2 /\ Cardinality(Answered(c)') <= made'[c]
    BY <1>2, <1>4, <2>4, <2>5 DEF Counted
  <2> QED BY <1>4, <2>1, <2>2, <2>6 DEF Counted
<1>7. ListFollows'
  <2>1. \A l : Lacks(l) => Lacks(l)'
    BY <1>2, <1>3, <1>4 DEF Lacks
  <2> QED BY <1>1, <2>1 DEF ListFollows
<1> QED BY <1>5, <1>6, <1>7

LEMMA DialogSteps == DialogInv /\ [FormsNext]_fvars => DialogInv'
<1> SUFFICES ASSUME DialogInv, [FormsNext]_fvars PROVE DialogInv'
  OBVIOUS
<1>1. CASE UNCHANGED fvars
  BY <1>1 DEF fvars, dialogVars, serverVars, listVars, DialogInv, DialogTypes, ListFollows, Made,
              Lacks, Counted, Waiting, Answered
<1>2. CASE \/ ServerReads \/ FetchEnds \/ FetchFails \/ MountPage \/ LeavePage \/ CollectList
           \/ OpenDialog \/ WriteDraft \/ CloseDialog
  BY <1>2, QueryKeeps
<1>3. CASE Submit \/ SubmitByKey
  <2>1. /\ Send(draft) /\ UNCHANGED <<dialog, mounted, draft, written, made, listVars>>
        /\ draft # 0 /\ dialogOpen' \in BOOLEAN
    BY <1>3 DEF Submit, SubmitByKey, dialogVars, DialogInv, DialogTypes
  <2>2. /\ draft \in 1..written' /\ draft' \in 0..written' /\ written' \in 0..MaxChanges
        /\ written <= written'
    BY <2>1 DEF DialogInv, DialogTypes
  <2> QED BY <2>1, <2>2, SendKeeps
<1>4. CASE PressButton
  <2>1. /\ Send(written') /\ UNCHANGED <<dialog, mounted, dialogOpen, draft, made, listVars>>
        /\ written' = written + 1 /\ written < MaxChanges
    BY <1>4 DEF PressButton
  <2>2. /\ written' \in 1..written' /\ draft' \in 0..written' /\ written' \in 0..MaxChanges
        /\ written <= written' /\ dialogOpen' \in BOOLEAN
    BY <2>1, FormDialogsAssumption DEF DialogInv, DialogTypes
  <2> QED BY <2>1, <2>2, SendKeeps
<1>5. ASSUME NEW p \in sent, ServerMakes(p) \/ RequestSucceeds(p) \/ RequestFails(p)
      PROVE  DialogInv'
  <2>1. CASE RequestSucceeds(p)
    <3>1. dialogOpen' \in BOOLEAN
      BY <2>1 DEF RequestSucceeds, DialogInv, DialogTypes
    <3> QED BY <2>1, <3>1, AnswersKeep DEF RequestSucceeds
  <2>2. CASE RequestFails(p)
    <3>1. dialogOpen' \in BOOLEAN
      BY <2>2 DEF RequestFails, dialogVars, DialogInv, DialogTypes
    <3> QED BY <2>2, <3>1, AnswersKeep DEF RequestFails, dialogVars
  <2> QED BY <1>5, <2>1, <2>2, MakeKeeps
<1> QED BY <1>1, <1>2, <1>3, <1>4, <1>5 DEF FormsNext

(* Once nothing is under way the page shows every change the server made,  *)
(* whatever dialog it is, unless a fetch was refused or left it behind.    *)
THEOREM ListsShowChanges == FormsSpec => []ListShowsChanges
<1>1. DialogInv => ListShowsChanges
  <2> SUFFICES ASSUME DialogInv, mounted, sent = {}, fetching = Idle, ~dialog.gap, ~behind
               PROVE  listData = Made
    BY DEF ListShowsChanges
  <2>1. listData # NoData /\ Lacks(listData)
    BY DEF DialogInv, ListFollows
  <2>2. listData \subseteq Made
    BY <2>1 DEF DialogInv, DialogTypes
  <2> QED BY <2>1, <2>2 DEF Lacks
<1> QED BY DialogsStart, DialogSteps, <1>1, PTL DEF FormsSpec

-----------------------------------------------------------------------------
(***************************************************************************)
(* The views together.  Each step of the tab is a step of one view that    *)
(* leaves the others alone.                                                *)
(***************************************************************************)

(* The preview's values are of their types.                                *)
LEMMA FinishTypes ==
    ASSUME PreviewTypeOK, NEW r \in Reply, r.st = "pdf" => r.src \in Source, Finish(r)
    PROVE  /\ reply' \in Reply /\ preview' \in Source \cup {NoSource} /\ again' \in BOOLEAN
           /\ request' \in Source \cup {NoSource} /\ step' \in {"idle", "init"}
           /\ (step' = "idle") = (request' = NoSource)
<1>1. src \in Source /\ NoSource \notin Source /\ preview \in Source \cup {NoSource}
  BY LatexPreviewAssumption DEF PreviewTypeOK
<1>2. CASE again
  BY <1>1, <1>2 DEF Finish
<1>3. CASE ~again
  BY <1>1, <1>3 DEF Finish
<1> QED BY <1>2, <1>3

LEMMA PreviewTypes ==
    ASSUME PreviewTypeOK, CompilerInv, [PreviewNext]_pvars
    PROVE  PreviewTypeOK'
<1> USE LatexPreviewAssumption DEF PreviewTypeOK, compilerVars, resultVars, editing
<1>0. /\ \A s \in Source : /\ Ran(s) \in Reply /\ Error(s) \in Reply /\ Error(s).st = "error"
                           /\ Ran(s).src = s
      /\ NoReply \in Reply
  BY DEF Ran, Error, Reply, NoReply
<1>1. ASSUME NEW s \in Source, Compile(s), UNCHANGED <<pending, resultVars, lastKey, lastResult>>
      PROVE  /\ again' \in BOOLEAN /\ request' \in Source \cup {NoSource}
             /\ step' \in {"idle", "init", "wait"} /\ (step' = "idle") = (request' = NoSource)
             /\ engine' \in {"none", "starting", "ok", "failed"}
  BY <1>1 DEF Compile
<1>2. CASE Open
  BY <1>1, <1>2 DEF Open, CompileIf
<1>3. ASSUME NEW s \in Source, MarkDirty(s) \/ PullMerged(s) PROVE PreviewTypeOK'
  <2>1. CASE MarkDirty(s)
    BY <2>1 DEF MarkDirty
  <2>2. CASE PullMerged(s)
    BY <1>1, <2>2 DEF PullMerged, CompileIf
  <2> QED BY <1>3, <2>1, <2>2
<1>4. CASE ToggleAuto \/ SelectPath
  BY <1>4 DEF ToggleAuto, SelectPath
<1>5. CASE TimerFires \/ CompileManually
  BY <1>1, <1>5 DEF TimerFires, CompileManually
<1>6. CASE EngineLoads
  BY <1>6 DEF EngineLoads
<1>7. CASE Dispatch
  BY <1>0, <1>7, FinishTypes DEF Dispatch, CompilerInv, CacheIsOfKey, Awaiting
<1>8. CASE RejectInit
  BY <1>0, <1>8, FinishTypes DEF RejectInit, CompilerInv, Awaiting
<1>9. CASE EngineAnswers
  BY <1>0, <1>9, FinishTypes DEF EngineAnswers, CompilerInv, Awaiting
<1>10. CASE EngineThrows
  BY <1>0, <1>10, FinishTypes DEF EngineThrows, CompilerInv, Awaiting
<1>11. CASE Unmount
  BY <1>0, <1>11 DEF Unmount
<1>12. CASE UNCHANGED pvars
  BY <1>12 DEF pvars
<1> QED BY <1>2, <1>3, <1>4, <1>5, <1>6, <1>7, <1>8, <1>9, <1>10, <1>11, <1>12 DEF PreviewNext

(* The tab behaves as each of its views on its own: what is proved of a    *)
(* view above holds of ViewsSpec, which the run checks.                    *)
THEOREM ViewsAreApart ==
  ViewsSpec => /\ PreviewInit /\ [][PreviewNext]_pvars
               /\ IssuesInit /\ [][IssuesNext]_ivars
               /\ PdfSpec /\ FormSpec /\ FormsSpec
<1>1. ViewsInit => PreviewInit /\ IssuesInit /\ PdfInit /\ FormInit /\ FormsInit
  BY DEF ViewsInit
<1>2. [ViewsNext]_viewsVars => [PreviewNext]_pvars
  BY DEF ViewsNext, viewsVars
<1>3. [ViewsNext]_viewsVars => [IssuesNext]_ivars
  BY DEF ViewsNext, viewsVars
<1>4. [ViewsNext]_viewsVars => [PdfNext]_pdfVars
  BY DEF ViewsNext, viewsVars
<1>5. [ViewsNext]_viewsVars => [FormNext]_formVars
  BY DEF ViewsNext, viewsVars
<1>6. [ViewsNext]_viewsVars => [FormsNext]_fvars
  BY DEF ViewsNext, viewsVars
<1> QED BY <1>1, <1>2, <1>3, <1>4, <1>5, <1>6, PTL DEF ViewsSpec, PdfSpec, FormSpec, FormsSpec

(* Every variable of every view keeps its type, for any constants.         *)
THEOREM ViewTypes == ViewsSpec => []ViewsTypeOK
<1>1. ViewsInit => view \in Views
  BY DEF ViewsInit
<1>2. view \in Views /\ [ViewsNext]_viewsVars => (view \in Views)'
  BY DEF ViewsNext, viewsVars
<1>3. PreviewInit => PreviewTypeOK
  <2> SUFFICES ASSUME PreviewInit PROVE PreviewTypeOK
    OBVIOUS
  <2>1. edits \in 0..MaxEdits /\ NoReply \in Reply
    BY LatexPreviewAssumption DEF PreviewInit, Reply
  <2> QED BY <2>1 DEF PreviewInit, PreviewTypeOK
<1>4. PreviewInit => CompilerInv
  BY PreviewInitially
<1>5. PreviewTypeOK /\ CompilerInv /\ [PreviewNext]_pvars => PreviewTypeOK' /\ CompilerInv'
  BY PreviewTypes, PreviewStep
<1>6. FormInit => FormInv
  BY FormInitially
<1>7. FormInv /\ [FormNext]_formVars => FormInv'
  BY FormStep
<1>8. view \in Views /\ PreviewTypeOK /\ IssueInv /\ PdfInv /\ FormInv /\ DialogInv => ViewsTypeOK
  BY DialogTyping DEF ViewsTypeOK, IssueInv, IssueTypes, PdfInv, FormInv
<1>9. ViewsSpec => [](view \in Views)
  BY <1>1, <1>2, PTL DEF ViewsSpec
<1>10. ViewsSpec => []PreviewTypeOK
  BY <1>3, <1>4, <1>5, ViewsAreApart, PTL
<1>11. ViewsSpec => []IssueInv
  BY IssuesStart, IssueSteps, ViewsAreApart, PTL
<1>12. ViewsSpec => []PdfInv
  BY PdfStarts, PdfSteps, ViewsAreApart, PTL DEF PdfSpec
<1>13. ViewsSpec => []FormInv
  BY <1>6, <1>7, ViewsAreApart, PTL DEF FormSpec
<1>14. ViewsSpec => []DialogInv
  BY DialogsStart, DialogSteps, ViewsAreApart, PTL DEF FormsSpec
<1> QED BY <1>8, <1>9, <1>10, <1>11, <1>12, <1>13, <1>14, PTL

=============================================================================
