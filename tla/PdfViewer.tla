------------------------------- MODULE PdfViewer -----------------------------
(***************************************************************************)
(* The PDF viewer (components/Common/PdfDocumentViewer.tsx): which page is *)
(* current, the field that jumps to a page, and the full-text search,      *)
(* whose results come back in any order.                                   *)
(***************************************************************************)
EXTENDS Integers, Sequences, FiniteSets

CONSTANTS
    NumPages,
    LastTop,      \* the last page that can be scrolled to the top
    SearchText,   \* what the user may search for
    NoText,       \* a blank query
    Hits,         \* the pages of a query, in order
    MaxSearches   \* bound: searches started

Page == 1..NumPages

ASSUME PdfViewerAssumption ==
    /\ NumPages \in Nat \ {0} /\ LastTop \in Page
    /\ NoText \notin SearchText /\ Hits \in [SearchText -> Seq(Page)]
    /\ MaxSearches \in Nat

VARIABLES
    paged,       \* pagedNav: the carousel of a presentation
    rendered,    \* pdf.js has made the pages
    top,         \* the page nearest the top of the scroll container
    frame,       \* an animation frame is requested for recompute
    current,     \* currentPageRef and pageNav.current
    pageInput,   \* the page field: a number, 0 for what is none
    focused,     \* the page field has the focus
    searchOpen,
    query,
    debounce,    \* the timer of the debounced search is armed
    indexed,     \* textIndexRef is built
    searchSeq,   \* searchSeqRef
    searches,    \* runSearch calls that await the index
    searching,
    matchPages,
    matchIdx,
    unread       \* history: the latest search threw

viewVars == <<paged, rendered, top, frame, current, pageInput, focused>>
boxVars == <<searchOpen, query, debounce>>
searchVars == <<indexed, searchSeq, searches, searching, matchPages, matchIdx>>
pdfVars == <<viewVars, boxVars, searchVars, unread>>

PdfTypeOK ==
    /\ {paged, rendered, frame, focused, searchOpen, debounce, indexed, searching} \subseteq BOOLEAN
    /\ top \in Page /\ current \in Page
    /\ pageInput \in 0..NumPages + 1
    /\ query \in SearchText \cup {NoText}
    /\ searchSeq \in 0..MaxSearches
    /\ searches \subseteq [seq : 1..searchSeq, q : SearchText]
    /\ matchPages \in Seq(Page)
    /\ matchIdx = 0 \/ matchIdx \in 0..Len(matchPages) - 1
    /\ unread \in BOOLEAN

PdfInit ==
    /\ paged \in BOOLEAN
    /\ rendered = FALSE /\ top = 1 /\ frame = FALSE
    /\ current = 1 /\ pageInput = 1 /\ focused = FALSE
    /\ searchOpen = FALSE /\ query = NoText /\ debounce = FALSE
    /\ indexed = FALSE /\ searchSeq = 0 /\ searches = {} /\ searching = FALSE
    /\ matchPages = <<>> /\ matchIdx = 0
    /\ unread = FALSE

Limit(n, low, high) == IF n < low THEN low ELSE IF n > high THEN high ELSE n

(* The effect that keeps the page field in step runs when current changes. *)
SetCurrent(n, input) ==
    /\ current' = n
    /\ pageInput' = IF n # current THEN n ELSE input

(* goToPage: the last pages of a document may not reach the top; a scroll  *)
(* that moves nothing raises no event.                                     *)
GoToPageWith(n, input) ==
    IF ~rendered THEN pageInput' = input /\ UNCHANGED <<top, frame, current>>
    ELSE LET page == Limit(n, 1, NumPages)
         IN /\ SetCurrent(page, input)
            /\ top' = IF paged THEN page ELSE Limit(page, 1, LastTop)
            /\ frame' = (frame \/ top' # top)

GoToPage(n) == GoToPageWith(n, pageInput)

-----------------------------------------------------------------------------

PagesRender ==
    /\ ~rendered
    /\ rendered' = TRUE
    /\ UNCHANGED <<paged, top, frame, current, pageInput, focused, boxVars, searchVars, unread>>

UserScrolls(n) ==
    /\ rendered /\ ~paged /\ n \in 1..LastTop /\ n # top
    /\ top' = n /\ frame' = TRUE
    /\ UNCHANGED <<paged, rendered, current, pageInput, focused, boxVars, searchVars, unread>>

(* In the frame that a scroll asked for, or when pages are re-rendered     *)
(* (the carousel then scrolls back to its page first).                     *)
Recompute ==
    /\ rendered /\ (frame \/ current # top)
    /\ frame' = FALSE
    /\ SetCurrent(top, pageInput)
    /\ UNCHANGED <<paged, rendered, top, focused, boxVars, searchVars, unread>>

(* The arrows of the toolbar and the carousel, and the arrow keys.         *)
GoByDelta(delta) ==
    /\ current + delta \in Page
    /\ GoToPage(current + delta)
    /\ UNCHANGED <<paged, rendered, focused, boxVars, searchVars, unread>>

EditPageInput(n) ==
    /\ ~paged /\ n # pageInput
    /\ focused' = TRUE /\ pageInput' = n
    /\ UNCHANGED <<paged, rendered, top, frame, current, boxVars, searchVars, unread>>

(* Enter, which leaves the focus where it is, or the loss of the focus.    *)
SubmitPageInput ==
    /\ focused
    /\ IF pageInput = 0 THEN pageInput' = current /\ UNCHANGED <<top, frame, current>>
       ELSE GoToPage(pageInput)
    /\ focused' \in BOOLEAN
    /\ UNCHANGED <<paged, rendered, boxVars, searchVars, unread>>

-----------------------------------------------------------------------------

ToggleSearch ==
    /\ ~paged
    /\ searchOpen' = ~searchOpen /\ debounce' = searchOpen'
    /\ query' = NoText
    /\ IF searchOpen THEN matchPages' = <<>> /\ matchIdx' = 0
       ELSE UNCHANGED <<matchPages, matchIdx>>
    /\ UNCHANGED <<viewVars, indexed, searchSeq, searches, searching, unread>>

EditQuery(q) ==
    /\ searchOpen /\ q # query
    /\ query' = q /\ debounce' = TRUE
    /\ UNCHANGED <<viewVars, searchOpen, searchVars, unread>>

ShowHits(q) ==
    /\ matchPages' = Hits[q] /\ matchIdx' = 0
    /\ IF Hits[q] # <<>> THEN GoToPage(Hits[q][1])
       ELSE UNCHANGED <<top, frame, current, pageInput>>

(* runSearch up to its first await, when the debounce ends.  A blank query *)
(* takes a number too, and returns before it resets `searching`.           *)
RunSearch ==
    /\ debounce /\ searchSeq < MaxSearches
    /\ debounce' = FALSE
    /\ searchSeq' = searchSeq + 1 /\ unread' = FALSE
    /\ IF query = NoText
       THEN /\ matchPages' = <<>> /\ matchIdx' = 0
            /\ UNCHANGED <<searches, searching, top, frame, current, pageInput>>
       ELSE IF indexed
       THEN ShowHits(query) /\ searching' = FALSE /\ UNCHANGED searches
       ELSE /\ searches' = searches \cup {[seq |-> searchSeq + 1, q |-> query]}
            /\ searching' = TRUE
            /\ UNCHANGED <<matchPages, matchIdx, top, frame, current, pageInput>>
    /\ UNCHANGED <<paged, rendered, focused, searchOpen, query, indexed>>

(* Mutant: the results of an older search are shown as well.               *)
FinishSearchUnordered(s) ==
    /\ searches' = searches \ {s}
    /\ indexed' = TRUE
    /\ ShowHits(s.q) /\ searching' = FALSE
    /\ UNCHANGED <<paged, rendered, focused, boxVars, searchSeq, unread>>

(* The index the search built is ready: the results are dropped when a     *)
(* newer search has started.                                               *)
FinishSearch(s) ==
    /\ searches' = searches \ {s}
    /\ indexed' = TRUE
    /\ IF s.seq = searchSeq THEN ShowHits(s.q) /\ searching' = FALSE
       ELSE UNCHANGED <<searching, matchPages, matchIdx, top, frame, current, pageInput>>
    /\ UNCHANGED <<paged, rendered, focused, boxVars, searchSeq, unread>>

(* A page could not be read: the finally runs, the old matches stay.       *)
FailSearch(s) ==
    /\ searches' = searches \ {s}
    /\ searching' = IF s.seq = searchSeq THEN FALSE ELSE searching
    /\ unread' = (unread \/ s.seq = searchSeq)
    /\ UNCHANGED <<viewVars, boxVars, indexed, searchSeq, matchPages, matchIdx>>

(* Mutant: the step back from the first match does not wrap around.        *)
GotoMatchUnwrapped(delta) ==
    /\ searchOpen /\ matchPages # <<>>
    /\ matchIdx' = matchIdx + delta
    /\ GoToPage(matchPages[IF delta = 1 THEN 1 ELSE Len(matchPages)])
    /\ UNCHANGED <<paged, rendered, focused, boxVars, indexed, searchSeq, searches, searching,
                   matchPages, unread>>

GotoMatch(delta) ==
    /\ searchOpen /\ matchPages # <<>>
    /\ matchIdx' = (matchIdx + delta + Len(matchPages)) % Len(matchPages)
    /\ GoToPage(matchPages[matchIdx' + 1])
    /\ UNCHANGED <<paged, rendered, focused, boxVars, indexed, searchSeq, searches, searching,
                   matchPages, unread>>

PdfNext ==
    \/ PagesRender \/ Recompute \/ SubmitPageInput \/ ToggleSearch \/ RunSearch
    \/ \E n \in Page : UserScrolls(n)
    \/ \E n \in 0..NumPages + 1 : EditPageInput(n)
    \/ \E d \in {-1, 1} : GoByDelta(d) \/ GotoMatch(d)
    \/ \E q \in SearchText \cup {NoText} : EditQuery(q)
    \/ \E s \in searches : FinishSearch(s) \/ FailSearch(s)

PdfSpec == PdfInit /\ [][PdfNext]_pdfVars

-----------------------------------------------------------------------------

(* What an open search box shows once its debounce is over belongs to the  *)
(* query in it, in whatever order searches end.  (For a blank query the    *)
(* box may show the dots of an older search for good.)                     *)
SearchShowsQuery ==
    searchOpen /\ ~debounce =>
        IF query = NoText THEN matchPages = <<>>
        ELSE /\ searching = (\E s \in searches : s.seq = searchSeq)
             /\ ~searching /\ ~unread => matchPages = Hits[query]

=============================================================================
