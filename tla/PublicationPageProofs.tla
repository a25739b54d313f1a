------------------------- MODULE PublicationPageProofs -------------------------
(***************************************************************************)
(* Proofs about the page of a publication, for any number of files, edits  *)
(* and comments: what the LaTeX editor keeps of the user's edits and of    *)
(* those of others, as long as the user waits for saves and pulls.         *)
(***************************************************************************)
EXTENDS PublicationPage, TLAPS

(* Before the project is loaded there is nothing to lose.                  *)
NothingYet == ~ready => dirty = {} /\ save = NoSave /\ pull = NoPull /\ \A f \in File : unsaved[f] = {}

OneAtATime == save.st = "idle" \/ pull.st = "idle"

(* The pane shows the buffer, but between a merge and the remount.         *)
PaneIsBuffer == pull.st # "head" => shown = buf[active]

(* What is unsaved is in neither the ancestor nor the branch.              *)
UnsavedApart ==
    \A f \in File : /\ unsaved[f] \cap base[f] = {}
                    /\ unsaved[f] \cap Remote[f] = {}

WasCommitted(f, text) == \E k \in 1..Tip : commits[k][f] = text

(* Nothing was taken out of a file since the commit of the checkout: every *)
(* put goes through it.                                                    *)
CheckoutIsThere == \A k \in checkout..Tip, f \in File : commits[k][f] \subseteq Remote[f]

(* What a pull has loaded was committed and not taken from the branch since. *)
LoadedIsThere ==
    pull.st = "merge" =>
        \A f \in pull.got : /\ pull.theirs[f] \subseteq Remote[f]
                            /\ WasCommitted(f, pull.theirs[f])

(* The files that a save has done with are at origin as they are here.     *)
SavedSoFar ==
    /\ save.st = "put" => \A f \in dirty \ save.todo : unsaved[f] = {} /\ WasCommitted(f, buf[f])
    /\ save.st = "head" => \A f \in File : unsaved[f] = {}

(* No edit of others in the ancestor is missing from the buffer.           *)
OthersKept == \A f \in File : base[f] \cap Others \subseteq buf[f]

EditorInv ==
    /\ EditorTypeOK /\ NothingYet /\ OneAtATime /\ PaneIsBuffer /\ UnsavedApart
    /\ CheckoutIsThere /\ LoadedIsThere /\ SavedSoFar /\ OthersKept
    /\ UnsavedKept /\ AncestorWasCommitted

USE DEF pane, origin, heads

-----------------------------------------------------------------------------

(* A push adds one commit after the others.                                *)
LEMMA CommitAdded ==
    ASSUME EditorTypeOK, NEW c \in Text, commits' = Append(commits, c), Tip < MaxCommits
    PROVE  /\ commits' \in Seq(Text)
           /\ Tip' = Tip + 1 /\ Tip' \in 1..MaxCommits
           /\ Remote' = c
           /\ \A k \in 1..Tip : k \in 1..Tip' /\ commits'[k] = commits[k]
BY LatexEditorAssumption DEF EditorTypeOK, Tip, Remote

(* No pull is under way, or only begun: nothing is loaded.                  *)
LEMMA NoPullIs ==
    /\ NoPull.st = "idle" /\ NoPull.got = {}
    /\ \A st \in {"idle", "load", "merge", "head"} :
         /\ [NoPull EXCEPT !.st = st].st = st
         /\ [NoPull EXCEPT !.st = st]
              \in [st : {"idle", "load", "merge", "head"}, got : SUBSET File, theirs : Text]
    /\ NoPull \in [st : {"idle", "load", "merge", "head"}, got : SUBSET File, theirs : Text]
<1>1. [f \in File |-> {}] \in Text
  BY DEF Text
<1> QED BY <1>1 DEF NoPull

LEMMA RemoteIsText == EditorTypeOK => Remote \in Text
BY DEF EditorTypeOK, Tip, Remote

(* A text that was at origin once stays in the history.                    *)
LEMMA HistoryKept ==
    ASSUME EditorTypeOK, NEW c \in Text, commits' = Append(commits, c), Tip < MaxCommits,
           NEW f \in File, NEW text, WasCommitted(f, text)
    PROVE  \E k \in 1..Tip' : commits'[k][f] = text
<1>1. PICK k \in 1..Tip : commits[k][f] = text
  BY DEF WasCommitted
<1>2. k \in 1..Tip' /\ commits'[k] = commits[k]
  BY CommitAdded
<1> QED BY <1>1, <1>2

LEMMA EditorStarts == EditorInit => EditorInv
<1> SUFFICES ASSUME EditorInit PROVE EditorInv
  OBVIOUS
<1>1. Tip = 1 /\ commits \in Seq(Text) /\ Remote = [f \in File |-> {}]
  BY DEF EditorInit, Tip, Remote, Text
<1>2. save \in [st : {"idle", "put", "head"}, todo : SUBSET File]
      /\ pull \in [st : {"idle", "load", "merge", "head"}, got : SUBSET File, theirs : Text]
  BY <1>1, NoPullIs DEF EditorInit, NoSave
<1>3. buf \in Text /\ base \in Text /\ unsaved \in [File -> SUBSET Mine] /\ active \in File
      /\ shown \subseteq Edit
  BY DEF EditorInit, Text
<1>4. ready \in BOOLEAN /\ updates \in BOOLEAN /\ modal \in BOOLEAN /\ dirty \subseteq File
  BY DEF EditorInit
<1>5. checkout \in 1..Tip /\ baseSha \in 0..Tip /\ asked \in 0..Tip /\ poll \in 0..Tip
  BY <1>1 DEF EditorInit
<1>6. Tip \in 1..MaxCommits
  BY <1>1, LatexEditorAssumption
<1>7. EditorTypeOK
  BY <1>1, <1>2, <1>3, <1>4, <1>5, <1>6 DEF EditorTypeOK
<1> QED
  BY <1>1, <1>7, NoPullIs DEF EditorInit, EditorInv, NothingYet, OneAtATime, PaneIsBuffer, UnsavedApart,
     CheckoutIsThere, LoadedIsThere, SavedSoFar, OthersKept, UnsavedKept, AncestorWasCommitted, NoSave

(* Steps that leave texts alone.                                           *)
Still == UNCHANGED <<commits, checkout, buf, base, dirty, pane, unsaved, ready>>

LEMMA StillStep ==
    ASSUME EditorInv, Still
    PROVE  /\ PaneIsBuffer' \/ pull.st = "head"
           /\ UnsavedApart' /\ OthersKept' /\ UnsavedKept' /\ AncestorWasCommitted'
           /\ CheckoutIsThere'
           /\ Tip' = Tip /\ Remote' = Remote
BY DEF EditorInv, Still, PaneIsBuffer, UnsavedApart, OthersKept, UnsavedKept,
   AncestorWasCommitted, CheckoutIsThere, Tip, Remote

(* Steps that leave the texts alone.                                       *)
LEMMA StillSteps ==
    ASSUME EditorInv, ~Overlap,
           \/ RecordHead \/ PollReads \/ PollAnswers \/ RequestSave \/ CancelSave \/ SubmitSave
           \/ SaveFails \/ StartPull \/ PullFails
           \/ \E f \in File : SkipUnchanged(f)
    PROVE  EditorInv'
<1> USE StillStep DEF EditorInv
<1>1. CASE RecordHead
  <2>1. Still /\ EditorTypeOK'
    BY <1>1 DEF RecordHead, Still, EditorTypeOK, Tip
  <2> QED
    BY <1>1, <2>1 DEF RecordHead, Still, NothingYet, OneAtATime, PaneIsBuffer, CheckoutIsThere, LoadedIsThere,
       SavedSoFar, WasCommitted
<1>2. CASE PollReads
  <2>1. Still /\ EditorTypeOK'
    BY <1>2 DEF PollReads, Still, EditorTypeOK, Tip
  <2> QED
    BY <1>2, <2>1 DEF PollReads, Still, NothingYet, OneAtATime, PaneIsBuffer, CheckoutIsThere, LoadedIsThere,
       SavedSoFar, WasCommitted
<1>3. CASE PollAnswers
  <2>1. Still /\ EditorTypeOK'
    BY <1>3 DEF PollAnswers, Still, EditorTypeOK, Tip
  <2> QED
    BY <1>3, <2>1 DEF PollAnswers, Still, NothingYet, OneAtATime, PaneIsBuffer, CheckoutIsThere, LoadedIsThere,
       SavedSoFar, WasCommitted
<1>4. CASE RequestSave
  <2>1. Still /\ EditorTypeOK'
    BY <1>4 DEF RequestSave, Still, EditorTypeOK, Tip, UserMayAct
  <2> QED
    BY <1>4, <2>1 DEF RequestSave, Still, NothingYet, OneAtATime, PaneIsBuffer, CheckoutIsThere, LoadedIsThere,
       SavedSoFar, WasCommitted
<1>5. CASE CancelSave
  <2>1. Still /\ EditorTypeOK'
    BY <1>5 DEF CancelSave, Still, EditorTypeOK, Tip, UserMayAct
  <2> QED
    BY <1>5, <2>1 DEF CancelSave, Still, NothingYet, OneAtATime, PaneIsBuffer, CheckoutIsThere, LoadedIsThere,
       SavedSoFar, WasCommitted
<1>6. CASE SubmitSave
  <2>1. Still /\ EditorTypeOK'
    BY <1>6 DEF SubmitSave, Still, EditorTypeOK, Tip
  <2>2. ready /\ Settled
    BY <1>6 DEF SubmitSave, UserMayAct
  <2> QED
    BY <1>6, <2>1, <2>2 DEF SubmitSave, Settled, Still, NothingYet, OneAtATime, PaneIsBuffer,
       CheckoutIsThere, LoadedIsThere, SavedSoFar, WasCommitted
<1>7. CASE SaveFails
  <2>1. Still /\ EditorTypeOK'
    BY <1>7 DEF SaveFails, Still, EditorTypeOK, Tip, NoSave
  <2> QED
    BY <1>7, <2>1 DEF SaveFails, NoSave, Still, NothingYet, OneAtATime, PaneIsBuffer,
       CheckoutIsThere, LoadedIsThere, SavedSoFar, WasCommitted
<1>8. CASE StartPull
  <2>1. Still /\ EditorTypeOK'
    BY <1>8, NoPullIs DEF StartPull, Still, EditorTypeOK, Tip
  <2>2. ready /\ Settled
    BY <1>8 DEF StartPull, UserMayAct
  <2> QED
    BY <1>8, <2>1, <2>2, NoPullIs DEF StartPull, Settled, Still, NothingYet, OneAtATime, PaneIsBuffer,
       CheckoutIsThere, LoadedIsThere, SavedSoFar, WasCommitted
<1>9. CASE PullFails
  <2>1. Still /\ EditorTypeOK'
    BY <1>9, NoPullIs DEF PullFails, Still, EditorTypeOK, Tip
  <2> QED
    BY <1>9, <2>1, NoPullIs DEF PullFails, Still, NothingYet, OneAtATime, PaneIsBuffer,
       CheckoutIsThere, LoadedIsThere, SavedSoFar, WasCommitted
<1>10. CASE \E f \in File : SkipUnchanged(f)
  <2> PICK f \in File : SkipUnchanged(f)
    BY <1>10
  <2>1. Still /\ EditorTypeOK'
    BY DEF SkipUnchanged, Still, EditorTypeOK, Tip
  <2>2. ready
    BY DEF SkipUnchanged, NothingYet, NoSave
  <2>3. unsaved[f] = {} /\ WasCommitted(f, buf[f])
    BY <2>2 DEF SkipUnchanged, UnsavedApart, UnsavedKept, AncestorWasCommitted, WasCommitted
  <2>4. SavedSoFar'
    BY <2>1, <2>3 DEF SkipUnchanged, SavedSoFar, WasCommitted, EditorTypeOK, Still
  <2>5. save'.st = save.st /\ ready /\ ready'
    BY <2>1, <2>2 DEF SkipUnchanged, EditorTypeOK, Still
  <2> QED
    BY <2>1, <2>4, <2>5 DEF SkipUnchanged, Still, NothingYet, OneAtATime, PaneIsBuffer, CheckoutIsThere, LoadedIsThere
<1> QED
  BY <1>1, <1>2, <1>3, <1>4, <1>5, <1>6, <1>7, <1>8, <1>9, <1>10

(* A pull reads commits from the checkout on.                              *)
LEMMA PullLoadsKeeps == EditorInv /\ PullLoads => EditorInv'
<1> SUFFICES ASSUME EditorInv, PullLoads PROVE EditorInv'
  OBVIOUS
<1> USE DEF EditorInv
<1>1. Tip' = Tip /\ Remote' = Remote /\ checkout' \in checkout..Tip /\ pull.st = "load"
      /\ UNCHANGED <<commits, ready, buf, base, baseSha, asked, dirty, updates, modal, active, shown,
                     save, poll, unsaved>>
  BY DEF PullLoads, Tip, Remote
<1>2. PICK got \in SUBSET File, at \in [File -> checkout..checkout'] :
         pull' = [st |-> "merge", got |-> got,
                  theirs |-> [f \in File |-> IF f \in got THEN commits[at[f]][f] ELSE {}]]
  BY DEF PullLoads
<1>3. \A f \in File : at[f] \in checkout..Tip /\ at[f] \in 1..Tip /\ commits[at[f]] \in Text
  <2>1. checkout \in 1..Tip /\ Tip \in Nat
    BY DEF EditorTypeOK
  <2>2. \A f \in File : at[f] \in checkout..checkout'
    BY <1>2
  <2>3. \A k \in 1..Tip : commits[k] \in Text
    BY DEF EditorTypeOK, Tip
  <2>4. \A f \in File : at[f] \in checkout..Tip /\ at[f] \in 1..Tip
    BY <1>1, <2>1, <2>2
  <2> QED BY <2>3, <2>4
<1>4. \A f \in File : pull'.theirs[f] = IF f \in got THEN commits[at[f]][f] ELSE {}
  BY <1>2
<1>5. EditorTypeOK'
  <2>1. pull'.theirs \in Text
    BY <1>2, <1>3 DEF Text
  <2>2. pull' \in [st : {"idle", "load", "merge", "head"}, got : SUBSET File, theirs : Text]
    BY <1>2, <2>1
  <2>3. checkout' \in 1..Tip
    BY <1>1 DEF EditorTypeOK
  <2> QED BY <1>1, <2>2, <2>3 DEF EditorTypeOK
<1>6. CheckoutIsThere'
  BY <1>1 DEF CheckoutIsThere, EditorTypeOK
<1>7. LoadedIsThere'
  BY <1>1, <1>2, <1>3, <1>4 DEF LoadedIsThere, CheckoutIsThere, WasCommitted
<1>8. ready /\ save.st = "idle" /\ pull'.st = "merge"
  BY <1>1, <1>2, NoPullIs DEF NothingYet, OneAtATime
<1> QED
  BY <1>1, <1>5, <1>6, <1>7, <1>8 DEF NothingYet, OneAtATime, PaneIsBuffer, UnsavedApart, SavedSoFar,
     OthersKept, UnsavedKept, AncestorWasCommitted, WasCommitted, Tip

(* Loading, and what the user writes.                                      *)

LEMMA InitializeBuffersKeeps == EditorInv /\ InitializeBuffers => EditorInv'
<1> SUFFICES ASSUME EditorInv, InitializeBuffers PROVE EditorInv'
  OBVIOUS
<1> USE DEF EditorInv
<1>1. PICK at \in [File -> 1..checkout'] :
         /\ buf' = [f \in File |-> commits[at[f]][f]]
         /\ base' = buf' /\ shown' = buf'[active]
  BY DEF InitializeBuffers
<1>2. Tip' = Tip /\ Remote' = Remote /\ checkout' \in checkout..Tip /\ checkout' \in 1..Tip
  BY DEF InitializeBuffers, Tip, Remote, EditorTypeOK
<1>3. \A f \in File : at[f] \in 1..Tip /\ commits[at[f]] \in Text
  <2>1. \A k \in 1..Tip : commits[k] \in Text
    BY DEF EditorTypeOK, Tip
  <2>2. \A f \in File : at[f] \in 1..checkout'
    BY <1>1
  <2> QED BY <1>2, <2>1, <2>2 DEF EditorTypeOK
<1>4. EditorTypeOK'
  <2>1. buf' \in Text /\ shown' \subseteq Edit
    BY <1>1, <1>3 DEF Text, EditorTypeOK
  <2> QED BY <1>1, <1>2, <2>1 DEF InitializeBuffers, EditorTypeOK
<1>5. AncestorWasCommitted'
  BY <1>1, <1>2, <1>3 DEF InitializeBuffers, AncestorWasCommitted
<1>6. (\A f \in File : unsaved'[f] = {}) /\ save'.st = "idle" /\ pull'.st = "idle" /\ ready' /\ active' = active
  BY NoPullIs DEF InitializeBuffers, NothingYet, NoSave
<1>7. CheckoutIsThere'
  BY <1>2 DEF InitializeBuffers, CheckoutIsThere, EditorTypeOK
<1> QED
  BY <1>1, <1>2, <1>4, <1>5, <1>6, <1>7 DEF NothingYet, OneAtATime, PaneIsBuffer,
     UnsavedApart, LoadedIsThere, SavedSoFar, OthersKept, UnsavedKept

(* While the user writes no save is under way, and the pane is the buffer. *)
LEMMA Writing ==
    ASSUME EditorInv, ~Overlap, UserMayWrite
    PROVE  ready /\ save.st = "idle" /\ pull.st # "head" /\ shown = buf[active]
BY DEF EditorInv, UserMayWrite, UserMayAct, Settled, PaneIsBuffer

LEMMA SelectFileKeeps ==
    ASSUME EditorInv, ~Overlap, NEW f \in File, SelectFile(f)
    PROVE  EditorInv'
<1>1. Tip' = Tip /\ Remote' = Remote /\ buf[f] \subseteq Edit
  BY DEF SelectFile, Tip, Remote, EditorInv, EditorTypeOK, Text
<1> QED
  BY <1>1, Writing DEF EditorInv, SelectFile, EditorTypeOK, NothingYet, OneAtATime, PaneIsBuffer,
     UnsavedApart, CheckoutIsThere, LoadedIsThere, WasCommitted, SavedSoFar, OthersKept, UnsavedKept,
     AncestorWasCommitted, Tip, Remote

LEMMA TypeKeeps ==
    ASSUME EditorInv, ~Overlap, NEW e \in Mine, Type(e)
    PROVE  EditorInv'
<1>1. Tip' = Tip /\ Remote' = Remote
  BY DEF Type, MarkDirty, Tip, Remote
<1>2. EditorTypeOK'
  BY <1>1 DEF EditorInv, Type, MarkDirty, EditorTypeOK, Text, Edit
<1>3. CheckoutIsThere' /\ LoadedIsThere' /\ AncestorWasCommitted'
  BY <1>1 DEF EditorInv, Type, MarkDirty, CheckoutIsThere, LoadedIsThere, WasCommitted, AncestorWasCommitted,
     Tip, Remote
<1> QED
  BY <1>1, <1>2, <1>3, Writing DEF EditorInv, Type, MarkDirty, EditorTypeOK, Text, NothingYet, OneAtATime,
     PaneIsBuffer, UnsavedApart, SavedSoFar, OthersKept, UnsavedKept

LEMMA EraseKeeps ==
    ASSUME EditorInv, ~Overlap, NEW e \in Mine \cup {Mark}, Erase(e)
    PROVE  EditorInv'
<1>1. Tip' = Tip /\ Remote' = Remote
  BY DEF Erase, MarkDirty, Tip, Remote
<1>2. EditorTypeOK'
  BY <1>1 DEF EditorInv, Erase, MarkDirty, EditorTypeOK, Text, Edit
<1>3. e \notin Others
  BY LatexEditorAssumption
<1>4. CheckoutIsThere' /\ LoadedIsThere' /\ AncestorWasCommitted'
  BY <1>1 DEF EditorInv, Erase, MarkDirty, CheckoutIsThere, LoadedIsThere, WasCommitted, AncestorWasCommitted,
     Tip, Remote
<1> QED
  BY <1>1, <1>2, <1>3, <1>4, Writing DEF EditorInv, Erase, MarkDirty, EditorTypeOK, Text, NothingYet,
     OneAtATime, PaneIsBuffer, UnsavedApart, SavedSoFar, OthersKept, UnsavedKept

(* A put of a dirty buffer: the branch has it, whole.                      *)
LEMMA PutContentsKeeps ==
    ASSUME EditorInv, ~Overlap, NEW f \in File, PutContents(f)
    PROVE  EditorInv'
<1> DEFINE c == [Remote EXCEPT ![f] = buf[f]]
<1> USE DEF EditorInv
<1>1. c \in Text /\ commits' = Append(commits, c) /\ Tip < MaxCommits
  BY RemoteIsText DEF PutContents, EditorTypeOK, Text
<1> HIDE DEF c
<1>2. /\ commits' \in Seq(Text) /\ Tip' = Tip + 1 /\ Tip' \in 1..MaxCommits /\ Remote' = c
  BY <1>1, CommitAdded
<1>3. Remote' = [Remote EXCEPT ![f] = buf[f]] /\ Remote \in Text
  BY <1>2, RemoteIsText DEF c
<1>4. save'.st \in {"idle", "put"} /\ save' \in [st : {"idle", "put", "head"}, todo : SUBSET File]
      /\ (save'.st = "put" => save'.todo = save.todo \ {f}) /\ save.st = "put"
  BY DEF PutContents, EditorTypeOK, NoSave
<1>5. pull.st = "idle" /\ ready
  BY <1>4 DEF OneAtATime, NothingYet, NoSave
<1>6. unsaved'[f] = {} /\ unsaved' \in [File -> SUBSET Mine]
      /\ \A g \in File \ {f} : unsaved'[g] = unsaved[g]
  BY DEF PutContents, EditorTypeOK, UnsavedKept
<1>7. EditorTypeOK'
  <2>1. checkout \in 1..Tip' /\ baseSha \in 0..Tip' /\ asked \in 0..Tip' /\ poll \in 0..Tip'
        /\ pull \in [st : {"idle", "load", "merge", "head"}, got : SUBSET File, theirs : Text]
    BY <1>2 DEF EditorTypeOK
  <2> QED BY <1>2, <1>4, <1>6, <2>1 DEF PutContents, EditorTypeOK
<1>8. UnsavedApart' /\ UnsavedKept'
  BY <1>3, <1>6 DEF PutContents, UnsavedApart, UnsavedKept, Text
<1>9. AncestorWasCommitted'
  <2> SUFFICES ASSUME NEW g \in File PROVE \E k \in 1..Tip' : commits'[k][g] = base[g]
    BY DEF AncestorWasCommitted, PutContents
  <2>1. WasCommitted(g, base[g])
    BY <1>5 DEF AncestorWasCommitted, WasCommitted
  <2> QED BY <1>1, <2>1, HistoryKept
<1>10. SavedSoFar'
  <2>1. CASE save'.st = "idle"
    BY <2>1 DEF SavedSoFar
  <2>2. CASE save'.st = "put"
    <3> SUFFICES ASSUME NEW g \in dirty \ save'.todo
                 PROVE  unsaved'[g] = {} /\ \E k \in 1..Tip' : commits'[k][g] = buf[g]
      BY <2>2 DEF SavedSoFar, WasCommitted, PutContents
    <3>1. g \in File
      BY DEF EditorTypeOK
    <3>2. CASE g = f
      <4>1. Tip' \in 1..Tip' /\ commits'[Tip'][g] = buf[g]
        BY <1>2, <1>3, <3>1, <3>2 DEF Remote, Text
      <4> QED BY <1>6, <3>2, <4>1
    <3>3. CASE g # f
      <4>1. unsaved[g] = {} /\ WasCommitted(g, buf[g])
        BY <1>4, <2>2, <3>3 DEF SavedSoFar
      <4> QED BY <1>1, <1>6, <3>1, <3>3, <4>1, HistoryKept
    <3> QED BY <3>2, <3>3
  <2> QED BY <1>4, <2>1, <2>2
<1>11. CheckoutIsThere'
  <2>1. checkout' = Tip' /\ Tip' \in Nat
    BY <1>2 DEF PutContents
  <2>2. \A k \in checkout'..Tip' : k = Tip'
    BY <2>1
  <2> QED BY <2>2 DEF CheckoutIsThere, Remote
<1> QED
  BY <1>4, <1>5, <1>7, <1>8, <1>9, <1>10, <1>11 DEF PutContents, NothingYet, OneAtATime, PaneIsBuffer,
     LoadedIsThere, OthersKept

(* A push of somebody else only adds to what the branch has.               *)
LEMMA OtherPushesKeeps ==
    ASSUME EditorInv, NEW f \in File, NEW e \in Others, OtherPushes(f, e)
    PROVE  EditorInv'
<1> DEFINE c == [Remote EXCEPT ![f] = @ \cup {e}]
<1> USE DEF EditorInv
<1>1. c \in Text /\ commits' = Append(commits, c) /\ Tip < MaxCommits
  BY RemoteIsText DEF OtherPushes, Text, Edit
<1> HIDE DEF c
<1>2. /\ commits' \in Seq(Text) /\ Tip' = Tip + 1 /\ Tip' \in 1..MaxCommits /\ Remote' = c
      /\ \A k \in 1..Tip : k \in 1..Tip' /\ commits'[k] = commits[k]
  BY <1>1, CommitAdded
<1>3. \A g \in File : Remote[g] \subseteq Remote'[g] /\ Remote'[g] \subseteq Remote[g] \cup {e}
  BY <1>2, RemoteIsText DEF c, Text
<1>4. EditorTypeOK'
  <2>1. checkout \in 1..Tip' /\ baseSha \in 0..Tip' /\ asked \in 0..Tip' /\ poll \in 0..Tip'
        /\ pull \in [st : {"idle", "load", "merge", "head"}, got : SUBSET File, theirs : Text]
    BY <1>2 DEF EditorTypeOK
  <2> QED BY <1>2, <2>1 DEF OtherPushes, EditorTypeOK
<1>5. UnsavedApart'
  BY <1>3, LatexEditorAssumption DEF OtherPushes, UnsavedApart, EditorTypeOK
<1>6. \A g \in File : \A text : WasCommitted(g, text) => WasCommitted(g, text)'
  BY <1>1, HistoryKept DEF WasCommitted
<1>7. AncestorWasCommitted'
  BY <1>6 DEF OtherPushes, AncestorWasCommitted, WasCommitted
<1>8. SavedSoFar'
  BY <1>6 DEF OtherPushes, SavedSoFar, EditorTypeOK
<1>9. LoadedIsThere'
  <2>1. pull' = pull /\ pull.got \subseteq File
    BY DEF OtherPushes, EditorTypeOK
  <2> SUFFICES ASSUME pull.st = "merge", NEW g \in pull.got
               PROVE  pull.theirs[g] \subseteq Remote'[g] /\ WasCommitted(g, pull.theirs[g])'
    BY <2>1 DEF LoadedIsThere, WasCommitted
  <2> QED BY <1>3, <1>6, <2>1 DEF LoadedIsThere
<1>10. CheckoutIsThere'
  <2> SUFFICES ASSUME NEW k \in checkout..Tip', NEW g \in File PROVE commits'[k][g] \subseteq Remote'[g]
    BY DEF CheckoutIsThere, OtherPushes
  <2>1. CASE k = Tip'
    BY <2>1 DEF Remote
  <2>2. CASE k # Tip'
    <3>1. k \in checkout..Tip /\ k \in 1..Tip
      BY <1>2, <2>2 DEF EditorTypeOK
    <3> QED BY <1>2, <1>3, <3>1 DEF CheckoutIsThere
  <2> QED BY <2>1, <2>2
<1> QED
  BY <1>4, <1>5, <1>7, <1>8, <1>9, <1>10 DEF OtherPushes, NothingYet, OneAtATime, PaneIsBuffer,
     OthersKept, UnsavedKept

(* A save that has put every file: the buffers become the ancestors.       *)
LEMMA AdvanceBaseKeeps == EditorInv /\ AdvanceBase => EditorInv'
<1> SUFFICES ASSUME EditorInv, AdvanceBase PROVE EditorInv'
  OBVIOUS
<1> USE DEF EditorInv
<1>1. Tip' = Tip /\ Remote' = Remote
  BY DEF AdvanceBase, Tip, Remote
<1>2. EditorTypeOK'
  BY <1>1 DEF AdvanceBase, EditorTypeOK, Text
<1>3. \A f \in File : unsaved[f] = {}
  BY DEF AdvanceBase, SavedSoFar, UnsavedKept
<1>4. AncestorWasCommitted'
  BY <1>1 DEF AdvanceBase, AncestorWasCommitted, SavedSoFar, WasCommitted
<1> QED
  BY <1>1, <1>2, <1>3, <1>4 DEF AdvanceBase, NothingYet, OneAtATime, PaneIsBuffer, UnsavedApart,
     CheckoutIsThere, LoadedIsThere, SavedSoFar, OthersKept, UnsavedKept, NoSave

LEMMA FinishSaveKeeps == EditorInv /\ FinishSave => EditorInv'
<1> SUFFICES ASSUME EditorInv, FinishSave PROVE EditorInv'
  OBVIOUS
<1> USE DEF EditorInv
<1>1. Tip' = Tip /\ Remote' = Remote
  BY DEF FinishSave, Tip, Remote
<1>2. EditorTypeOK'
  <2>1. baseSha' \in 0..Tip
    BY DEF FinishSave, EditorTypeOK, HeadOr
  <2>2. save' \in [st : {"idle", "put", "head"}, todo : SUBSET File]
    BY DEF FinishSave, NoSave
  <2> QED BY <1>1, <2>1, <2>2 DEF FinishSave, EditorTypeOK
<1>3. \A f \in File : unsaved[f] = {}
  BY DEF FinishSave, SavedSoFar
<1> QED
  BY <1>1, <1>2, <1>3 DEF FinishSave, NothingYet, OneAtATime, PaneIsBuffer, UnsavedApart,
     CheckoutIsThere, LoadedIsThere, SavedSoFar, OthersKept, UnsavedKept, AncestorWasCommitted, NoSave

LEMMA FinishPullKeeps == EditorInv /\ FinishPull => EditorInv'
<1> SUFFICES ASSUME EditorInv, FinishPull PROVE EditorInv'
  OBVIOUS
<1> USE DEF EditorInv
<1>1. Tip' = Tip /\ Remote' = Remote
  BY DEF FinishPull, Tip, Remote
<1>2. EditorTypeOK'
  <2>1. baseSha' \in 0..Tip /\ shown' \subseteq Edit
    BY DEF FinishPull, EditorTypeOK, HeadOr, Text
  <2>2. pull' \in [st : {"idle", "load", "merge", "head"}, got : SUBSET File, theirs : Text]
    BY NoPullIs DEF FinishPull
  <2> QED BY <1>1, <2>1, <2>2 DEF FinishPull, EditorTypeOK
<1> QED
  BY <1>1, <1>2, NoPullIs DEF FinishPull, NothingYet, OneAtATime, PaneIsBuffer, UnsavedApart,
     CheckoutIsThere, LoadedIsThere, SavedSoFar, WasCommitted, OthersKept, UnsavedKept, AncestorWasCommitted

(* The merge of a pull.                                                    *)
LEMMA PullMergesKeeps ==
    ASSUME EditorInv, NEW clashes \in SUBSET File, PullMerges(clashes)
    PROVE  EditorInv'
<1> DEFINE theirs == pull.theirs
           both == {f \in pull.got : base[f] \notin {buf[f], theirs[f]}}
           result(f) == IF f \in pull.got THEN Merged(buf[f], base[f], theirs[f], f \in clashes)
                                           ELSE buf[f]
<1> USE DEF EditorInv
<1>1. Tip' = Tip /\ Remote' = Remote
  BY DEF PullMerges, Tip, Remote
<1>2. /\ pull.st = "merge" /\ pull.got \subseteq File /\ theirs \in Text
      /\ \A f \in pull.got : theirs[f] \subseteq Remote[f] /\ WasCommitted(f, theirs[f])
  BY DEF PullMerges, CheckoutIsThere, LoadedIsThere, EditorTypeOK, Tip
<1>3. /\ buf' = [f \in File |-> result(f)]
      /\ base' = [f \in File |-> IF f \in both \/ (f \in pull.got /\ buf[f] = base[f])
                                 THEN theirs[f] ELSE base[f]]
      /\ dirty' = {f \in dirty \cup both : f \in both => buf'[f] # theirs[f]}
  BY DEF PullMerges
<1>4. ready /\ save.st = "idle" /\ pull'.st = "head"
      /\ pull' \in [st : {"idle", "load", "merge", "head"}, got : SUBSET File, theirs : Text]
  <2>1. pull' = [NoPull EXCEPT !.st = "head"]
    BY DEF PullMerges
  <2> QED BY <1>2, <2>1, NoPullIs DEF NothingYet, OneAtATime
<1>5. \A f \in File : (f \in pull.got => unsaved[f] \cap theirs[f] = {}) /\ unsaved[f] \cap base[f] = {}
                      /\ unsaved[f] \subseteq buf[f] /\ (unsaved[f] # {} => f \in dirty)
  BY <1>2 DEF UnsavedApart, UnsavedKept
<1> HIDE DEF theirs, both, result
<1>6. EditorTypeOK'
  <2>1. \A f \in File : result(f) \subseteq Edit
    BY <1>2 DEF result, Merged, EditorTypeOK, Text, Edit
  <2>2. buf' \in Text
    BY <1>3, <2>1 DEF Text
  <2>3. base' \in Text
    BY <1>2, <1>3 DEF Text, EditorTypeOK
  <2>4. dirty' \subseteq File
    BY <1>3 DEF both, EditorTypeOK
  <2> QED
    BY <1>1, <1>4, <2>2, <2>3, <2>4 DEF PullMerges, EditorTypeOK
<1>7. \A f \in File : unsaved[f] \subseteq buf'[f]
  <2> SUFFICES ASSUME NEW f \in File, NEW e \in unsaved[f] PROVE e \in result(f)
    BY <1>3
  <2>1. e \in buf[f] /\ e \notin base[f] /\ buf[f] # base[f]
    BY <1>5
  <2> QED BY <2>1 DEF result, Merged
<1>8. UnsavedKept'
  <2> SUFFICES ASSUME NEW f \in File, unsaved[f] # {} PROVE f \in dirty'
    BY <1>7 DEF PullMerges, UnsavedKept
  <2>1. f \in dirty /\ (f \in pull.got => buf'[f] # theirs[f])
    BY <1>5, <1>7
  <2>2. f \in both => f \in pull.got
    BY DEF both
  <2> QED BY <1>3, <2>1, <2>2
<1>9. UnsavedApart'
  BY <1>1, <1>3, <1>5 DEF PullMerges, UnsavedApart
<1>10. AncestorWasCommitted'
  <2> SUFFICES ASSUME NEW f \in File PROVE WasCommitted(f, base'[f])
    BY <1>1 DEF PullMerges, AncestorWasCommitted, WasCommitted
  <2>1. base'[f] = base[f] \/ (f \in pull.got /\ base'[f] = theirs[f])
    BY <1>3 DEF both
  <2>2. WasCommitted(f, base[f])
    BY <1>4 DEF AncestorWasCommitted, WasCommitted
  <2> QED BY <1>2, <2>1, <2>2
<1>11. OthersKept'
  <2> SUFFICES ASSUME NEW f \in File, NEW e \in base'[f] \cap Others PROVE e \in buf'[f]
    BY DEF OthersKept
  <2>1. CASE f \in both
    <3>1. f \in pull.got /\ e \in theirs[f] /\ theirs[f] # base[f] /\ (e \in base[f] => e \in buf[f])
      BY <1>3, <2>1 DEF both, OthersKept
    <3> QED BY <1>3, <3>1 DEF result, Merged
  <2>2. CASE f \notin pull.got
    <3>1. buf'[f] = buf[f] /\ base'[f] = base[f]
      BY <1>3, <2>2 DEF both, result
    <3> QED BY <3>1 DEF OthersKept
  <2>3. CASE f \in pull.got /\ f \notin both /\ buf[f] = base[f]
    BY <1>3, <2>3 DEF result, Merged
  <2>4. CASE f \in pull.got /\ f \notin both /\ buf[f] # base[f]
    <3>1. theirs[f] = base[f] /\ e \in base[f]
      BY <1>3, <2>4 DEF both
    <3> QED BY <1>3, <2>4, <3>1 DEF result, Merged, OthersKept
  <2> QED BY <2>1, <2>2, <2>3, <2>4
<1> QED
  BY <1>1, <1>4, <1>6, <1>8, <1>9, <1>10, <1>11 DEF PullMerges, NothingYet, OneAtATime,
     PaneIsBuffer, CheckoutIsThere, LoadedIsThere, SavedSoFar

LEMMA EditorSteps == ~Overlap /\ EditorInv /\ [EditorNext]_evars => EditorInv'
<1> SUFFICES ASSUME ~Overlap, EditorInv, [EditorNext]_evars PROVE EditorInv'
  OBVIOUS
<1>1. CASE UNCHANGED evars
  BY <1>1 DEF evars, EditorInv, EditorTypeOK, NothingYet, OneAtATime, PaneIsBuffer, UnsavedApart,
     CheckoutIsThere, LoadedIsThere, SavedSoFar, OthersKept, UnsavedKept, AncestorWasCommitted, WasCommitted, Remote, Tip
<1>2. CASE EditorNext
  BY <1>2, InitializeBuffersKeeps, StillSteps, SelectFileKeeps, PutContentsKeeps, TypeKeeps,
     EraseKeeps, AdvanceBaseKeeps, FinishSaveKeeps, PullLoadsKeeps, FinishPullKeeps, PullMergesKeeps,
     OtherPushesKeeps
     DEF EditorNext
<1> QED BY <1>1, <1>2

(* Without overlap the editor's invariant holds for any number of files,   *)
(* edits and commits (LatexEditor.tsx, the whole component).               *)
LEMMA EditorInvariance == ~Overlap => (EditorSpec => []EditorInv)
<1> SUFFICES ASSUME ~Overlap PROVE EditorSpec => []EditorInv
  OBVIOUS
<1>1. EditorInv /\ [EditorNext]_evars => EditorInv'
  BY EditorSteps
<1> QED BY EditorStarts, <1>1, PTL DEF EditorSpec

(* No pull, save or push takes an edit that was never saved out of the     *)
(* buffer or from under the unsaved badge (LatexEditor.tsx, pullUpdates    *)
(* and the save mutation), while the user waits for saves and pulls.       *)
THEOREM EditsAreKept == ~Overlap => (EditorSpec => []UnsavedKept)
<1> EditorInv => UnsavedKept
  BY DEF EditorInv
<1> QED BY EditorInvariance, PTL

(* The ancestor a merge uses was the file at origin once (LatexEditor.tsx, *)
(* baseBuffersRef), while the user waits for saves and pulls.              *)
THEOREM AncestorsWereCommitted == ~Overlap => (EditorSpec => []AncestorWasCommitted)
<1> EditorInv => AncestorWasCommitted
  BY DEF EditorInv
<1> QED BY EditorInvariance, PTL

(* A pull merges around the user's unsaved edits (the comment over         *)
(* pullUpdates, "preserving local edits"), while the user waits for it.    *)
THEOREM PullsKeepEdits == ~Overlap => (EditorSpec => PullKeepsEdits)
<1> SUFFICES ASSUME ~Overlap PROVE EditorSpec => PullKeepsEdits
  OBVIOUS
<1>1. ASSUME EditorInv, EditorInv', EditorNext, pull.st = "merge", pull'.st = "head", NEW f \in File
      PROVE  unsaved[f] \subseteq buf'[f]
  <2>1. pull' # pull
    BY <1>1
  <2>2. StartPull \/ PullLoads \/ PullFails \/ FinishPull \/ \E clashes \in SUBSET File : PullMerges(clashes)
    <3>1. CASE \/ InitializeBuffers \/ RecordHead \/ PollReads \/ PollAnswers \/ RequestSave \/ CancelSave
               \/ SubmitSave \/ SaveFails \/ AdvanceBase \/ FinishSave
      BY <2>1, <3>1 DEF InitializeBuffers, RecordHead, PollReads, PollAnswers, RequestSave, CancelSave,
         SubmitSave, SaveFails, AdvanceBase, FinishSave
    <3>2. ASSUME NEW g \in File, SelectFile(g) \/ SkipUnchanged(g) \/ PutContents(g) PROVE FALSE
      BY <2>1, <3>2 DEF SelectFile, SkipUnchanged, PutContents
    <3>3. ASSUME NEW e, Type(e) \/ Erase(e) PROVE FALSE
      BY <2>1, <3>3 DEF Type, Erase, MarkDirty
    <3>4. ASSUME NEW g \in File, NEW e \in Others, OtherPushes(g, e) PROVE FALSE
      BY <2>1, <3>4 DEF OtherPushes
    <3> QED BY <1>1, <3>1, <3>2, <3>3, <3>4 DEF EditorNext
  <2>3. \E clashes \in SUBSET File : PullMerges(clashes)
    BY <1>1, <2>2, NoPullIs DEF StartPull, PullLoads, PullFails, FinishPull
  <2>4. unsaved' = unsaved
    BY <2>3 DEF PullMerges
  <2> QED BY <1>1, <2>4 DEF EditorInv, UnsavedKept
<1>2. EditorInv /\ EditorInv' /\ [EditorNext]_evars =>
        [pull.st = "merge" /\ pull'.st = "head" => \A f \in File : unsaved[f] \subseteq buf'[f]]_evars
  BY <1>1
<1> QED BY EditorInvariance, <1>2, PTL DEF EditorSpec, PullKeepsEdits

LEMMA SeenPushesStep ==
    ASSUME EditorInv, EditorNext
    PROVE  \A f \in File : (Remote[f] \cap Others) \ Remote'[f] \subseteq Others \ base[f]
<1> SUFFICES ASSUME NEW f \in File, NEW e \in Remote[f] \cap Others, e \notin Remote'[f]
             PROVE  e \notin base[f]
  OBVIOUS
<1> USE DEF EditorInv
<1>1. commits' # commits
  BY DEF Remote, Tip
<1>2. CASE \E g \in File : PutContents(g)
  <2>1. PICK g \in File : PutContents(g)
    BY <1>2
  <2>2. [Remote EXCEPT ![g] = buf[g]] \in Text /\ Remote \in Text
    BY RemoteIsText DEF EditorTypeOK, Text
  <2>3. Remote' = [Remote EXCEPT ![g] = buf[g]]
    BY <2>1, <2>2, CommitAdded DEF PutContents
  <2> QED BY <2>2, <2>3 DEF OthersKept, Text
<1>3. CASE \E g \in File, o \in Others : OtherPushes(g, o)
  <2>1. PICK g \in File, o \in Others : OtherPushes(g, o)
    BY <1>3
  <2> DEFINE c == [Remote EXCEPT ![g] = @ \cup {o}]
  <2>2. c \in Text /\ commits' = Append(commits, c) /\ Tip < MaxCommits
    BY <2>1, RemoteIsText DEF OtherPushes, Text, Edit
  <2>3. Remote[f] \subseteq c[f]
    BY RemoteIsText DEF Text
  <2> HIDE DEF c
  <2> QED BY <2>2, <2>3, CommitAdded
<1> QED
  BY <1>1, <1>2, <1>3 DEF EditorNext, InitializeBuffers, RecordHead, PollReads, PollAnswers, SelectFile,
     SkipUnchanged, Type, Erase, MarkDirty, RequestSave, CancelSave, SubmitSave, SaveFails, AdvanceBase,
     FinishSave, StartPull, PullLoads, PullFails, FinishPull, PullMerges

(* A save drops only what others pushed after the text it was merged with  *)
(* (LatexEditor.tsx, the put of a whole buffer), while the user waits.     *)
THEOREM SeenPushesAreKept == ~Overlap => (EditorSpec => SeenPushesSurvive)
<1> SUFFICES ASSUME ~Overlap PROVE EditorSpec => SeenPushesSurvive
  OBVIOUS
<1>1. EditorInv /\ [EditorNext]_evars =>
        [\A f \in File : (Remote[f] \cap Others) \ Remote'[f] \subseteq Others \ base[f]]_evars
  BY SeenPushesStep
<1> QED BY EditorInvariance, <1>1, PTL DEF EditorSpec, SeenPushesSurvive

HIDE DEF pane, origin, heads

-----------------------------------------------------------------------------

(* What the handlers hold: rows, threads and ids that exist.               *)
Row == [thread : 0..MaxComments, resolved : BOOLEAN]
Entry == [id : Comment, resolved : BOOLEAN]

CommentsTypes ==
    /\ CommentsTypeOK
    /\ read \in [st : {"idle", "asked", "loaded", "checked"}, seen : Seq(Row),
                 issues : [Comment -> {"none", "open", "closed"}]]

(* One change of the panel at a time, and each names what is there.        *)
ChangesName ==
    /\ posting = NoPost \/ resolving = NoResolve
    /\ read.st = "idle" => read = NoRead
    /\ posting.st = "idle" => posting = NoPost
    /\ posting.st = "done" => Len(rows) > 0 /\ posting.id = Len(rows)
    /\ resolving.st = "idle" => resolving = NoResolve
    /\ resolving.st # "idle" => resolving.thread \in Threads
    /\ resolving.st = "committed" => resolving.thread \in adrift

(* An issue that GitHub has told of exists, and where it has been turned   *)
(* since, its thread counts as adrift.                                     *)
AnswersAge ==
    /\ \A c \in Comment : c > Len(rows) => issues[c] = "none"
    /\ read.st = "checked" =>
        \A c \in Comment : read.issues[c] # "none" =>
            issues[c] # "none" /\ (issues[c] # read.issues[c] => c \in adrift)

(* The rows that a resolution, committed but not yet answered, has turned. *)
Turning(c) ==
    /\ resolving.st \in {"committed", "done"}
    /\ c = resolving.thread \/ rows[c].thread = resolving.thread

(* The list shows the rows but the one just made and those being turned.   *)
Shown == IF posting.st = "done" THEN Len(rows) - 1 ELSE Len(rows)
Follows(list) ==
    /\ Len(list) = Shown
    /\ \A c \in 1..Shown : Turning(c) \/ list[c].resolved = rows[c].resolved

(* Unless it may differ until it is read anew, what the panel has, or is   *)
(* about to have of a read, lacks nothing but the change under way.        *)
PanelFollows ==
    ~outdated /\ read.st # "asked" =>
        /\ read.st = "idle" => Follows(panel) /\ \A k \in DOMAIN panel : panel[k].id = k
        /\ read.st # "idle" => Follows(read.seen)
        /\ posting.st = "done" => ~rows[Len(rows)].resolved
        /\ \A c \in DOMAIN rows : Turning(c) => rows[c].resolved = resolving.to

CommentsInv == CommentsTypes /\ ChangesName /\ AnswersAge /\ PanelFollows /\ ThreadInStep

LEMMA SequenceOf ==
    ASSUME NEW S, NEW n \in Nat, NEW f \in [1..n -> S]
    PROVE  f \in Seq(S) /\ Len(f) = n
OBVIOUS

(* What a sync of the rows with GitHub's answers does to them.             *)
LEMMA SyncedRows ==
    ASSUME rows \in Seq(Row), NEW seen \in Seq(Row), NEW said \in [Comment -> {"none", "open", "closed"}]
    PROVE  /\ Synced(seen, said) \in Seq(Row) /\ Len(Synced(seen, said)) = Len(rows)
           /\ \A c \in 1..Len(rows) : Synced(seen, said)[c].thread = rows[c].thread
           /\ \A c \in 1..Len(rows) : rows[c].thread = 0 =>
                 /\ c \in Turned(seen, said) => Synced(seen, said)[c].resolved = (said[c] = "closed")
                 /\ c \notin Turned(seen, said) => Synced(seen, said)[c] = rows[c]
           /\ Turned(seen, said) = {} => Synced(seen, said) = rows
<1> DEFINE turned == Turned(seen, said)
           synced == Synced(seen, said)
           above(c) == IF rows[c].thread # 0 /\ board.both THEN rows[c].thread ELSE c
<1>1. DOMAIN rows = 1..Len(rows) /\ Len(rows) \in Nat /\ \A c \in 1..Len(rows) : rows[c] \in Row
  OBVIOUS
<1>2. /\ DOMAIN synced = 1..Len(rows)
      /\ synced = [c \in 1..Len(rows) |-> synced[c]]
      /\ \A c \in 1..Len(rows) :
            synced[c] = IF above(c) \in turned
                        THEN [rows[c] EXCEPT !.resolved = (said[above(c)] = "closed")] ELSE rows[c]
  BY <1>1 DEF Synced
<1> HIDE DEF turned, synced
<1>3. ASSUME NEW c \in 1..Len(rows)
      PROVE  /\ synced[c] \in Row /\ synced[c].thread = rows[c].thread
             /\ above(c) \notin turned => synced[c] = rows[c]
             /\ above(c) \in turned => synced[c].resolved = (said[above(c)] = "closed")
  BY <1>1, <1>2 DEF Row
<1>4. \A c \in 1..Len(rows) : synced[c] \in Row
  BY <1>3
<1>5. synced \in Seq(Row) /\ Len(synced) = Len(rows)
  BY <1>1, <1>2, <1>4, SequenceOf
<1>6. turned = {} => synced = rows
  BY <1>1, <1>2, <1>3
<1>7. ASSUME NEW c \in 1..Len(rows), rows[c].thread = 0
      PROVE  /\ c \in turned => synced[c].resolved = (said[c] = "closed")
             /\ c \notin turned => synced[c] = rows[c]
  BY <1>3, <1>7
<1> QED
  BY <1>3, <1>5, <1>6, <1>7 DEF turned, synced

(* What resolving a thread does to its rows.                               *)
LEMMA CascadedRows ==
    ASSUME rows \in Seq(Row), NEW t, NEW to \in BOOLEAN
    PROVE  /\ Cascade(t, to) \in Seq(Row) /\ Len(Cascade(t, to)) = Len(rows)
           /\ \A c \in 1..Len(rows) :
                 /\ Cascade(t, to)[c].thread = rows[c].thread
                 /\ c = t \/ rows[c].thread = t => Cascade(t, to)[c].resolved = to
                 /\ ~(c = t \/ rows[c].thread = t) => Cascade(t, to)[c] = rows[c]
<1>1. DOMAIN rows = 1..Len(rows) /\ Len(rows) \in Nat /\ \A c \in 1..Len(rows) : rows[c] \in Row
  OBVIOUS
<1> DEFINE row(c) == IF c = t \/ rows[c].thread = t THEN [rows[c] EXCEPT !.resolved = to] ELSE rows[c]
<1>2. Cascade(t, to) = [c \in 1..Len(rows) |-> row(c)]
  BY <1>1 DEF Cascade
<1>3. \A c \in 1..Len(rows) :
         /\ row(c) \in Row /\ row(c).thread = rows[c].thread
         /\ c = t \/ rows[c].thread = t => row(c).resolved = to
         /\ ~(c = t \/ rows[c].thread = t) => row(c) = rows[c]
  BY <1>1 DEF Row
<1> HIDE DEF row
<1> QED
  BY <1>1, <1>2, <1>3

LEMMA CommentsStart == CommentsInit => CommentsInv
<1> SUFFICES ASSUME CommentsInit PROVE CommentsInv
  OBVIOUS
<1>1. Len(rows) = 0 /\ Threads = {} /\ Mismatched = {} /\ rows \in Seq(Row)
  BY DEF CommentsInit, Threads, Mismatched
<1>2. issues \in [Comment -> {"none", "open", "closed"}] /\ \A c \in Comment : issues[c] = "none"
  BY DEF CommentsInit, Unknown
<1>3. /\ read = [st |-> "asked", seen |-> <<>>, issues |-> Unknown]
      /\ read \in [st : {"idle", "asked", "loaded", "checked"}, seen : Seq(Row),
                   issues : [Comment -> {"none", "open", "closed"}]]
  <2>1. NoRead = [st |-> "idle", seen |-> <<>>, issues |-> Unknown] /\ <<>> \in Seq(Row)
        /\ Unknown \in [Comment -> {"none", "open", "closed"}]
    BY DEF NoRead, Unknown
  <2>2. Asking = [st |-> "asked", seen |-> <<>>, issues |-> Unknown]
    BY <2>1 DEF Asking
  <2> QED BY <2>1, <2>2 DEF CommentsInit
<1>4. posting = NoPost /\ posting \in [st : {"idle", "sent", "done"}, thread : 0..MaxComments, id : 0..MaxComments]
  BY CommentThreadsAssumption DEF CommentsInit, NoPost
<1>5. /\ resolving = NoResolve
      /\ resolving \in [st : {"idle", "sent", "committed", "done"}, thread : 0..MaxComments, to : BOOLEAN]
  BY CommentThreadsAssumption DEF CommentsInit, NoResolve
<1>6. CommentsTypes
  <2>1. board \in Boards /\ outdated \in BOOLEAN /\ adrift \subseteq Comment /\ panel = NotRead
    BY DEF CommentsInit
  <2> QED
    BY <1>1, <1>2, <1>3, <1>4, <1>5, <2>1, CommentThreadsAssumption DEF CommentsTypes, CommentsTypeOK, Row
<1> QED
  BY <1>1, <1>2, <1>3, <1>4, <1>5, <1>6 DEF CommentsInv, ChangesName, AnswersAge, PanelFollows,
     ThreadInStep, NoPost, NoResolve

LEMMA CommentFacts ==
    ASSUME CommentsTypes
    PROVE  /\ rows \in Seq(Row) /\ Len(rows) \in 0..MaxComments /\ Threads \subseteq 1..Len(rows)
           /\ DOMAIN rows = 1..Len(rows) /\ \A c \in 1..Len(rows) : rows[c] \in Row /\ c \in Comment
<1>1. rows \in Seq(Row) /\ Len(rows) <= MaxComments
  BY DEF CommentsTypes, CommentsTypeOK, Row
<1>2. Len(rows) \in Nat /\ DOMAIN rows = 1..Len(rows) /\ \A c \in 1..Len(rows) : rows[c] \in Row
  BY <1>1
<1> QED
  BY <1>1, <1>2, CommentThreadsAssumption DEF Threads, Comment

LEMMA AskingFacts ==
    /\ Asking.st = "asked" /\ Len(Asking.seen) = 0 /\ NoRead.st = "idle" /\ Len(NoRead.seen) = 0
    /\ Asking \in [st : {"idle", "asked", "loaded", "checked"}, seen : Seq(Row),
                   issues : [Comment -> {"none", "open", "closed"}]]
    /\ NoRead \in [st : {"idle", "asked", "loaded", "checked"}, seen : Seq(Row),
                   issues : [Comment -> {"none", "open", "closed"}]]
<1>1. NoRead = [st |-> "idle", seen |-> <<>>, issues |-> Unknown] /\ <<>> \in Seq(Row)
      /\ Unknown \in [Comment -> {"none", "open", "closed"}]
  BY DEF NoRead, Unknown
<1>2. Asking = [st |-> "asked", seen |-> <<>>, issues |-> Unknown]
  BY <1>1 DEF Asking
<1> QED BY <1>1, <1>2

(* Steps that leave the rows, the issues and what is adrift alone.         *)
Untouched == UNCHANGED <<board, rows, issues, adrift>>

LEMMA UntouchedStep ==
    ASSUME CommentsInv, Untouched
    PROVE  Threads' = Threads /\ ThreadInStep'
BY DEF CommentsInv, Untouched, ThreadInStep, Mismatched, Threads

LEMMA StartReadKeeps == CommentsInv /\ StartRead => CommentsInv'
<1> SUFFICES ASSUME CommentsInv, StartRead PROVE CommentsInv'
  OBVIOUS
<1>1. Untouched /\ UNCHANGED <<panel, posting, resolving>> /\ read' = Asking /\ outdated' \in BOOLEAN
  BY DEF StartRead, Untouched
<1>2. CommentsTypes'
  BY <1>1, AskingFacts, CommentFacts DEF CommentsInv, Untouched, CommentsTypes, CommentsTypeOK
<1> QED
  BY <1>1, <1>2, UntouchedStep, AskingFacts DEF CommentsInv, Untouched, ChangesName, AnswersAge, PanelFollows

LEMMA LoadCommentsKeeps == CommentsInv /\ LoadComments => CommentsInv'
<1> SUFFICES ASSUME CommentsInv, LoadComments PROVE CommentsInv'
  OBVIOUS
<1> USE DEF CommentsInv
<1>1. Untouched /\ UNCHANGED <<panel, posting, resolving>>
      /\ read' = [read EXCEPT !.st = "loaded", !.seen = rows] /\ outdated' = (outdated \/ Changing)
  BY DEF LoadComments, Untouched
<1>2. read'.st = "loaded" /\ read'.seen = rows /\ read'.issues = read.issues
  BY <1>1 DEF CommentsTypes
<1>3. CommentsTypes'
  <2>1. read' \in [st : {"idle", "asked", "loaded", "checked"}, seen : Seq(Row),
                  issues : [Comment -> {"none", "open", "closed"}]]
    BY <1>1, CommentFacts DEF CommentsTypes
  <2> QED
    BY <1>1, <1>2, <2>1, CommentFacts DEF Untouched, CommentsTypes, CommentsTypeOK
<1>4. PanelFollows'
  <2> SUFFICES ASSUME ~outdated' PROVE PanelFollows'
    BY DEF PanelFollows
  <2>1. posting = NoPost /\ resolving = NoResolve
    BY <1>1 DEF Changing
  <2>2. Shown' = Len(rows) /\ \A c \in DOMAIN rows : ~Turning(c)'
    BY <1>1, <2>1 DEF Untouched, Shown, Turning, NoPost, NoResolve
  <2> QED
    BY <1>1, <1>2, <2>1, <2>2, CommentFacts DEF Untouched, PanelFollows, Follows, NoPost
<1> QED
  BY <1>1, <1>2, <1>3, <1>4, UntouchedStep DEF Untouched, ChangesName, AnswersAge

LEMMA CheckIssuesKeeps ==
    ASSUME CommentsInv, NEW answered \in SUBSET Comment, CheckIssues(answered)
    PROVE  CommentsInv'
<1> USE DEF CommentsInv
<1>1. Untouched /\ UNCHANGED <<panel, posting, resolving, outdated>> /\ read.st = "loaded"
      /\ read' = [read EXCEPT !.st = "checked", !.issues = Said(answered)]
  BY DEF CheckIssues, Untouched
<1>2. Said(answered) \in [Comment -> {"none", "open", "closed"}]
      /\ \A c \in Comment : Said(answered)[c] \in {"none", issues[c]}
  BY DEF Said, CommentsTypes, CommentsTypeOK
<1>3. read'.st = "checked" /\ read'.seen = read.seen /\ read'.issues = Said(answered)
  BY <1>1 DEF CommentsTypes
<1>4. CommentsTypes'
  BY <1>1, <1>2 DEF Untouched, CommentsTypes, CommentsTypeOK
<1>5. AnswersAge'
  BY <1>1, <1>2, <1>3 DEF Untouched, AnswersAge
<1>6. PanelFollows'
  BY <1>1, <1>3 DEF Untouched, PanelFollows, Follows, Shown, Turning
<1> QED
  BY <1>1, <1>3, <1>4, <1>5, <1>6, UntouchedStep DEF Untouched, ChangesName

LEMMA ReadFailsKeeps == CommentsInv /\ ReadFails => CommentsInv'
<1> SUFFICES ASSUME CommentsInv, ReadFails PROVE CommentsInv'
  OBVIOUS
<1>1. Untouched /\ UNCHANGED <<panel, posting, resolving>> /\ read' = NoRead /\ outdated'
  BY DEF ReadFails, Untouched
<1>2. CommentsTypes'
  BY <1>1, AskingFacts, CommentFacts DEF CommentsInv, ReadFails, Untouched, CommentsTypes, CommentsTypeOK
<1> QED
  BY <1>1, <1>2, UntouchedStep, AskingFacts DEF CommentsInv, Untouched, ChangesName, AnswersAge, PanelFollows

LEMMA SubmitPostKeeps ==
    ASSUME CommentsInv, NEW t \in 0..MaxComments, SubmitPost(t)
    PROVE  CommentsInv'
<1> USE DEF CommentsInv
<1>1. Untouched /\ UNCHANGED <<panel, read, resolving, outdated>> /\ posting = NoPost /\ resolving = NoResolve
      /\ posting' = [st |-> "sent", thread |-> t, id |-> 0]
  BY DEF SubmitPost, Untouched, Changing
<1>2. CommentsTypes'
  BY <1>1, CommentThreadsAssumption DEF Untouched, CommentsTypes, CommentsTypeOK
<1> QED
  BY <1>1, <1>2, UntouchedStep DEF Untouched, ChangesName, AnswersAge, PanelFollows, Follows, Shown, Turning,
     NoPost, NoResolve

LEMMA SubmitResolveKeeps ==
    ASSUME CommentsInv, NEW t \in Comment, NEW to \in BOOLEAN, SubmitResolve(t, to)
    PROVE  CommentsInv'
<1> USE DEF CommentsInv
<1>1. Untouched /\ UNCHANGED <<panel, read, posting, outdated>> /\ posting = NoPost /\ resolving = NoResolve
      /\ resolving' = [st |-> "sent", thread |-> t, to |-> to] /\ t \in Threads
  BY DEF SubmitResolve, Untouched, Changing
<1>2. CommentsTypes'
  BY <1>1, CommentThreadsAssumption DEF Untouched, CommentsTypes, CommentsTypeOK, Comment
<1> QED
  BY <1>1, <1>2, UntouchedStep DEF Untouched, ChangesName, AnswersAge, PanelFollows, Follows, Shown, Turning,
     NoPost, NoResolve

LEMMA PostFailsKeeps == CommentsInv /\ PostFails => CommentsInv'
<1> SUFFICES ASSUME CommentsInv, PostFails PROVE CommentsInv'
  OBVIOUS
<1> USE DEF CommentsInv
<1>1. Untouched /\ UNCHANGED <<panel, read, resolving>> /\ posting' = NoPost
      /\ outdated' = (outdated \/ posting.st = "done")
  BY DEF PostFails, Untouched
<1>2. CommentsTypes'
  BY <1>1, CommentThreadsAssumption DEF Untouched, CommentsTypes, CommentsTypeOK, NoPost
<1> QED
  BY <1>1, <1>2, UntouchedStep DEF Untouched, ChangesName, AnswersAge, PanelFollows, Follows, Shown, Turning,
     NoPost

LEMMA ResolveFailsKeeps == CommentsInv /\ ResolveFails => CommentsInv'
<1> SUFFICES ASSUME CommentsInv, ResolveFails PROVE CommentsInv'
  OBVIOUS
<1> USE DEF CommentsInv
<1>1. Untouched /\ UNCHANGED <<panel, read, posting>> /\ resolving' = NoResolve
      /\ outdated' = (outdated \/ resolving.st # "sent") /\ resolving # NoResolve
  BY DEF ResolveFails, Untouched
<1>2. CommentsTypes'
  BY <1>1, CommentThreadsAssumption DEF Untouched, CommentsTypes, CommentsTypeOK, NoResolve
<1> QED
  BY <1>1, <1>2, UntouchedStep DEF Untouched, ChangesName, AnswersAge, PanelFollows, Follows, Shown, Turning,
     NoResolve

LEMMA MirrorFailsKeeps == CommentsInv /\ MirrorFails => CommentsInv'
<1> SUFFICES ASSUME CommentsInv, MirrorFails PROVE CommentsInv'
  OBVIOUS
<1> USE DEF CommentsInv
<1>1. Untouched /\ UNCHANGED <<panel, read, posting, outdated>> /\ resolving.st = "committed"
      /\ resolving' = [resolving EXCEPT !.st = "done"]
  BY DEF MirrorFails, Untouched
<1>2. CommentsTypes' /\ resolving'.st = "done" /\ resolving'.thread = resolving.thread /\ resolving'.to = resolving.to
  BY <1>1 DEF Untouched, CommentsTypes, CommentsTypeOK
<1> QED
  BY <1>1, <1>2, UntouchedStep DEF Untouched, ChangesName, AnswersAge, PanelFollows, Follows, Shown, Turning,
     NoResolve

(* Steps that change rows or issues.                                       *)

LEMMA IssueTurnsKeeps ==
    ASSUME CommentsInv, NEW c \in Comment, IssueTurns(c)
    PROVE  CommentsInv'
<1> USE DEF CommentsInv
<1>1. /\ UNCHANGED <<board, rows, panel, read, posting, resolving, outdated>> /\ issues[c] # "none"
      /\ issues' \in [Comment -> {"none", "open", "closed"}] /\ issues'[c] # "none"
      /\ \A d \in Comment \ {c} : issues'[d] = issues[d]
      /\ adrift' = adrift \cup {c}
  BY DEF IssueTurns, CommentsTypes, CommentsTypeOK
<1>2. CommentsTypes'
  BY <1>1 DEF CommentsTypes, CommentsTypeOK
<1>3. Threads' = Threads /\ Threads \subseteq Comment
  BY <1>1, CommentFacts DEF Threads
<1>4. ThreadInStep'
  BY <1>1, <1>3 DEF ThreadInStep, Mismatched
<1> QED
  BY <1>1, <1>2, <1>3, <1>4 DEF ChangesName, AnswersAge, PanelFollows, Follows, Shown, Turning

LEMMA MirrorResolutionKeeps == CommentsInv /\ MirrorResolution => CommentsInv'
<1> SUFFICES ASSUME CommentsInv, MirrorResolution PROVE CommentsInv'
  OBVIOUS
<1> USE DEF CommentsInv
<1> DEFINE t == resolving.thread
<1>1. t \in Threads /\ t \in Comment /\ t \in 1..Len(rows) /\ t \in adrift /\ resolving.st = "committed"
  BY CommentFacts DEF MirrorResolution, ChangesName
<1>2. /\ UNCHANGED <<board, rows, panel, read, posting, outdated>>
      /\ issues' \in [Comment -> {"none", "open", "closed"}]
      /\ issues'[t] = IF issues[t] = "none" THEN "none" ELSE IF resolving.to THEN "closed" ELSE "open"
      /\ \A d \in Comment \ {t} : issues'[d] = issues[d]
      /\ adrift' = IF Overtaken(t) THEN adrift ELSE adrift \ {t}
  BY <1>1 DEF MirrorResolution, CommentsTypes, CommentsTypeOK
<1>3. CommentsTypes' /\ resolving'.st = "done" /\ resolving'.thread = t /\ resolving'.to = resolving.to
  BY <1>1, <1>2 DEF MirrorResolution, CommentsTypes, CommentsTypeOK
<1>4. Threads' = Threads /\ Threads \subseteq Comment
  BY <1>2, CommentFacts DEF Threads
<1>5. AnswersAge'
  <2>1. read.st = "checked" => adrift' = adrift
    BY <1>2, AskingFacts DEF Overtaken
  <2> QED BY <1>1, <1>2, <2>1, CommentFacts DEF AnswersAge, Comment
<1>6. ThreadInStep'
  <2> SUFFICES ASSUME NEW c \in Threads, issues'[c] # "none", rows[c].resolved # (issues'[c] = "closed")
               PROVE  c \in adrift'
    BY <1>2, <1>4 DEF ThreadInStep, Mismatched
  <2>1. CASE c # t
    BY <1>2, <1>4, <2>1 DEF ThreadInStep, Mismatched
  <2>2. CASE c = t
    <3>1. issues'[t] = IF resolving.to THEN "closed" ELSE "open"
      BY <1>2, <2>2
    <3>2. resolving.to \in BOOLEAN
      BY DEF CommentsTypes, CommentsTypeOK
    <3>3. rows[t].resolved # resolving.to
      BY <2>2, <3>1, <3>2
    <3> QED BY <1>1, <1>2, <2>2, <3>3 DEF Overtaken
  <2> QED BY <2>1, <2>2
<1>7. PanelFollows'
  BY <1>1, <1>2, <1>3 DEF PanelFollows, Follows, Shown, Turning
<1> QED
  BY <1>1, <1>2, <1>3, <1>4, <1>5, <1>6, <1>7, AskingFacts DEF ChangesName, NoResolve

LEMMA ResolveCommitsKeeps == CommentsInv /\ ResolveCommits => CommentsInv'
<1> SUFFICES ASSUME CommentsInv, ResolveCommits PROVE CommentsInv'
  OBVIOUS
<1> USE DEF CommentsInv
<1> DEFINE t == resolving.thread
           to == resolving.to
<1>1. t \in Threads /\ t \in Comment /\ t \in 1..Len(rows) /\ to \in BOOLEAN /\ resolving.st = "sent"
  BY CommentFacts DEF ResolveCommits, ChangesName, CommentsTypes, CommentsTypeOK
<1>2. /\ UNCHANGED <<board, issues, panel, read, posting, outdated>> /\ adrift' = adrift \cup {t}
      /\ rows' = Cascade(t, to) /\ posting = NoPost
  BY <1>1 DEF ResolveCommits, ChangesName, NoResolve
<1>3. /\ rows' \in Seq(Row) /\ Len(rows') = Len(rows)
      /\ \A c \in 1..Len(rows) :
            /\ rows'[c].thread = rows[c].thread
            /\ c = t \/ rows[c].thread = t => rows'[c].resolved = to
            /\ ~(c = t \/ rows[c].thread = t) => rows'[c] = rows[c]
  <2> HIDE DEF t, to
  <2> QED BY <1>1, <1>2, CascadedRows, CommentFacts
<1>4. CommentsTypes' /\ resolving'.st = "committed" /\ resolving'.thread = t /\ resolving'.to = to
  BY <1>1, <1>2, <1>3 DEF ResolveCommits, CommentsTypes, CommentsTypeOK, Row
<1>5. Threads' = Threads /\ Threads \subseteq 1..Len(rows) /\ t # 0
  BY <1>1, <1>3, CommentFacts DEF Threads
<1>6. ThreadInStep'
  <2> SUFFICES ASSUME NEW c \in Threads, c # t, issues[c] # "none", rows'[c].resolved # (issues[c] = "closed")
               PROVE  c \in adrift
    BY <1>2, <1>5 DEF ThreadInStep, Mismatched
  <2>1. rows[c].thread = 0 /\ rows'[c] = rows[c]
    BY <1>3, <1>5 DEF Threads
  <2> QED BY <2>1 DEF ThreadInStep, Mismatched
<1>7. PanelFollows'
  <2>1. Shown' = Shown /\ Shown = Len(rows)
    BY <1>2, <1>3 DEF Shown, NoPost
  <2>2. \A c \in 1..Len(rows) : Turning(c)' \/ rows'[c] = rows[c]
    BY <1>3, <1>4 DEF Turning
  <2>3. \A c \in 1..Len(rows) : Turning(c)' => rows'[c].resolved = to
    BY <1>3, <1>4 DEF Turning
  <2>4. \A c \in 1..Len(rows) : ~Turning(c)
    BY <1>1 DEF Turning
  <2>5. DOMAIN rows' = 1..Len(rows)
    BY <1>3
  <2> QED
    BY <1>2, <1>4, <2>1, <2>2, <2>3, <2>4, <2>5 DEF PanelFollows, Follows, NoPost
<1>8. AnswersAge'
  BY <1>2, <1>3 DEF AnswersAge
<1> QED
  BY <1>1, <1>2, <1>3, <1>4, <1>5, <1>6, <1>7, <1>8 DEF ChangesName, NoPost

LEMMA MakePostKeeps ==
    ASSUME CommentsInv, NEW issue \in {"none", "open"}, MakePost(issue)
    PROVE  CommentsInv'
<1> USE DEF CommentsInv
<1> DEFINE r == [thread |-> posting.thread, resolved |-> FALSE]
           n == Len(rows) + 1
<1>1. /\ UNCHANGED <<board, panel, read, resolving, outdated, adrift>> /\ posting.st = "sent"
      /\ rows' = Append(rows, r) /\ resolving = NoResolve
      /\ r \in Row
  BY DEF MakePost, ChangesName, NoPost, CommentsTypes, CommentsTypeOK, Row
<1>2. /\ rows' \in Seq(Row) /\ Len(rows') = n /\ n \in Comment /\ rows'[n] = r
      /\ \A c \in 1..Len(rows) : rows'[c] = rows[c]
      /\ DOMAIN rows' = 1..n /\ Len(rows) \in Nat
  BY <1>1, CommentFacts, CommentThreadsAssumption DEF MakePost, Comment
<1>3. posting'.st = "done" /\ posting'.id = n /\ posting'.thread = posting.thread
      /\ posting' \in [st : {"idle", "sent", "done"}, thread : 0..MaxComments, id : 0..MaxComments]
  <2>1. posting \in [st : {"idle", "sent", "done"}, thread : 0..MaxComments, id : 0..MaxComments]
        /\ n \in 0..MaxComments
    BY <1>2, CommentThreadsAssumption DEF CommentsTypes, CommentsTypeOK, Comment
  <2>2. posting' = [posting EXCEPT !.st = "done", !.id = n]
    BY <1>2 DEF MakePost
  <2> HIDE DEF n
  <2> QED BY <2>1, <2>2
<1>4. /\ issues' \in [Comment -> {"none", "open", "closed"}]
      /\ issues'[n] \in {"none", "open"} /\ (rows'[n].thread # 0 => issues'[n] = "none")
      /\ \A c \in Comment \ {n} : issues'[c] = issues[c]
  BY <1>2 DEF MakePost, CommentsTypes, CommentsTypeOK
<1>5. CommentsTypes'
  BY <1>1, <1>2, <1>3, <1>4 DEF CommentsTypes, CommentsTypeOK, Row, Comment
<1>6. \A c \in 1..n : c \in 1..Len(rows) \/ c = n
  BY <1>2
<1>7. ThreadInStep'
  <2> SUFFICES ASSUME NEW c \in 1..n, rows'[c].thread = 0, issues'[c] # "none",
                      rows'[c].resolved # (issues'[c] = "closed")
               PROVE  c \in adrift
    BY <1>1, <1>2 DEF ThreadInStep, Mismatched, Threads
  <2>1. c # n
    <3> SUFFICES ASSUME c = n PROVE FALSE
      OBVIOUS
    <3>1. rows'[c].resolved = FALSE /\ issues'[c] = "open"
      BY <1>2, <1>4
    <3>2. (issues'[c] = "closed") = FALSE
      BY <3>1
    <3> QED BY <3>1, <3>2
  <2>2. c \in 1..Len(rows) /\ rows'[c] = rows[c] /\ issues'[c] = issues[c]
    BY <1>2, <1>4, <1>6, <2>1, CommentFacts
  <2> QED BY <2>2 DEF ThreadInStep, Mismatched, Threads
<1>8. AnswersAge'
  BY <1>1, <1>2, <1>4 DEF AnswersAge, Comment
<1>9. PanelFollows'
  <2>1. Shown' = Shown /\ Shown = Len(rows)
    BY <1>1, <1>2, <1>3 DEF Shown
  <2>2. \A c : ~Turning(c) /\ ~Turning(c)'
    BY <1>1 DEF Turning, NoResolve
  <2>3. ~rows'[n].resolved
    BY <1>2
  <2> QED
    BY <1>1, <1>2, <2>1, <2>2, <2>3 DEF PanelFollows, Follows
<1> QED
  BY <1>1, <1>2, <1>3, <1>5, <1>7, <1>8, <1>9 DEF ChangesName, NoResolve

LEMMA OtherReadsKeeps ==
    ASSUME CommentsInv, NEW answered \in SUBSET Comment, OtherReads(answered)
    PROVE  CommentsInv'
<1> USE DEF CommentsInv
<1> DEFINE said == Said(answered)
<1>1. said \in [Comment -> {"none", "open", "closed"}] /\ \A c \in Comment : said[c] \in {"none", issues[c]}
  BY DEF Said, CommentsTypes, CommentsTypeOK
<1>2. /\ UNCHANGED <<board, issues, panel, read, posting, resolving>> /\ rows' = Synced(rows, said)
      /\ outdated' = (outdated \/ rows' # rows)
      /\ adrift' = IF read # NoRead \/ resolving # NoResolve THEN adrift ELSE adrift \cap Mismatched'
  BY DEF OtherReads
<1> HIDE DEF said
<1>3. /\ rows' \in Seq(Row) /\ Len(rows') = Len(rows)
      /\ \A c \in 1..Len(rows) : rows'[c].thread = rows[c].thread
      /\ \A c \in 1..Len(rows) : rows[c].thread = 0 =>
            /\ c \in Turned(rows, said) => rows'[c].resolved = (said[c] = "closed")
            /\ c \notin Turned(rows, said) => rows'[c] = rows[c]
  BY <1>1, <1>2, SyncedRows, CommentFacts
<1>4. CommentsTypes'
  BY <1>2, <1>3 DEF CommentsTypes, CommentsTypeOK, Row
<1>5. Threads' = Threads
  BY <1>3, CommentFacts DEF Threads
<1>6. Mismatched' \subseteq adrift
  <2> SUFFICES ASSUME NEW c \in Threads, issues[c] # "none", rows'[c].resolved # (issues[c] = "closed")
               PROVE  c \in adrift
    BY <1>2, <1>5 DEF Mismatched
  <2>1. c \in 1..Len(rows) /\ c \in Comment /\ rows[c].thread = 0
    BY CommentFacts DEF Threads
  <2>2. c \notin Turned(rows, said)
    <3> SUFFICES ASSUME c \in Turned(rows, said) PROVE FALSE
      OBVIOUS
    <3>1. said[c] = issues[c]
      BY <1>1, <2>1 DEF Turned
    <3> QED BY <1>3, <2>1, <3>1
  <2> QED BY <1>3, <2>1, <2>2 DEF ThreadInStep, Mismatched
<1>7. ThreadInStep'
  BY <1>2, <1>6 DEF ThreadInStep
<1>8. AnswersAge'
  <2>1. read.st = "checked" => adrift' = adrift
    BY <1>2, AskingFacts
  <2> QED BY <1>2, <1>3, <2>1 DEF AnswersAge
<1>9. PanelFollows'
  <2> SUFFICES ASSUME ~outdated' PROVE PanelFollows'
    BY DEF PanelFollows
  <2>1. rows' = rows /\ ~outdated
    BY <1>2
  <2> QED BY <1>2, <2>1 DEF PanelFollows, Follows, Shown, Turning
<1>10. ChangesName'
  BY <1>2, <1>3, <1>5 DEF ChangesName, NoResolve
<1> QED
  BY <1>4, <1>7, <1>8, <1>9, <1>10

LEMMA FinishReadKeeps == CommentsInv /\ FinishRead => CommentsInv'
<1> SUFFICES ASSUME CommentsInv, FinishRead PROVE CommentsInv'
  OBVIOUS
<1> USE DEF CommentsInv
<1> DEFINE seen == read.seen
           said == read.issues
           turned == Turned(seen, said)
<1>1. /\ seen \in Seq(Row) /\ said \in [Comment -> {"none", "open", "closed"}] /\ read.st = "checked"
      /\ Len(seen) <= Len(rows) /\ Len(seen) \in Nat /\ DOMAIN seen = 1..Len(seen)
  BY DEF FinishRead, CommentsTypes, CommentsTypeOK
<1>2. /\ UNCHANGED <<board, issues, posting, resolving>> /\ rows' = Synced(seen, said) /\ read' = NoRead
      /\ panel' = [c \in DOMAIN seen |-> [id |-> c, resolved |-> (IF turned = {} THEN seen ELSE rows')[c].resolved]]
      /\ outdated' = (outdated \/ (rows' # rows /\ Changing))
      /\ adrift' = IF resolving # NoResolve THEN adrift ELSE adrift \cap Mismatched'
  BY DEF FinishRead
<1>3. /\ rows' \in Seq(Row) /\ Len(rows') = Len(rows)
      /\ \A c \in 1..Len(rows) : rows'[c].thread = rows[c].thread
      /\ \A c \in 1..Len(rows) : rows[c].thread = 0 =>
            /\ c \in turned => rows'[c].resolved = (said[c] = "closed")
            /\ c \notin turned => rows'[c] = rows[c]
      /\ turned = {} => rows' = rows
  <2> HIDE DEF seen, said
  <2> QED BY <1>1, <1>2, SyncedRows, CommentFacts
<1>4. \A c \in turned : said[c] # "none"
  BY DEF Turned
<1> HIDE DEF seen, said, turned
<1>5. /\ DOMAIN panel' = 1..Len(seen)
      /\ \A c \in 1..Len(seen) :
            /\ panel'[c].id = c
            /\ panel'[c].resolved = (IF turned = {} THEN seen ELSE rows')[c].resolved
            /\ panel'[c] \in Entry
  <2>1. ASSUME NEW c \in 1..Len(seen)
        PROVE  panel'[c] = [id |-> c, resolved |-> (IF turned = {} THEN seen ELSE rows')[c].resolved]
    BY <1>1, <1>2
  <2>2. ASSUME NEW c \in 1..Len(seen)
        PROVE  c \in Comment /\ (IF turned = {} THEN seen ELSE rows')[c].resolved \in BOOLEAN
    <3>1. c \in 1..Len(rows) /\ c \in Comment
      BY <1>1, CommentFacts
    <3>2. seen[c] \in Row /\ rows'[c] \in Row
      BY <1>1, <1>3, <3>1
    <3> QED BY <3>1, <3>2 DEF Row
  <2>3. DOMAIN panel' = 1..Len(seen)
    BY <1>1, <1>2
  <2> QED BY <2>1, <2>2, <2>3 DEF Entry
<1>6. panel' \in Seq(Entry) /\ Len(panel') = Len(seen)
  <2>1. panel' = [c \in 1..Len(seen) |-> panel'[c]]
    BY <1>1, <1>2
  <2>2. panel' \in [1..Len(seen) -> Entry]
    BY <1>5, <2>1
  <2> QED BY <1>1, <2>2, SequenceOf
<1>7. CommentsTypes'
  BY <1>2, <1>3, <1>6, AskingFacts, CommentFacts DEF CommentsTypes, CommentsTypeOK, Row, Entry
<1>8. Threads' = Threads
  BY <1>3, CommentFacts DEF Threads
<1>9. Mismatched' \subseteq adrift
  <2> SUFFICES ASSUME NEW c \in Threads, issues[c] # "none", rows'[c].resolved # (issues[c] = "closed")
               PROVE  c \in adrift
    BY <1>2, <1>8 DEF Mismatched
  <2>1. c \in 1..Len(rows) /\ c \in Comment /\ rows[c].thread = 0
    BY CommentFacts DEF Threads
  <2>2. CASE c \in turned
    <3>1. said[c] # "none" /\ said[c] # issues[c]
      BY <1>3, <1>4, <2>1, <2>2
    <3> QED BY <1>1, <2>1, <3>1 DEF AnswersAge, said
  <2>3. CASE c \notin turned
    BY <1>3, <2>1, <2>3 DEF ThreadInStep, Mismatched
  <2> QED BY <2>2, <2>3
<1>10. ThreadInStep'
  BY <1>2, <1>9 DEF ThreadInStep
<1>11. AnswersAge'
  BY <1>2, <1>3, AskingFacts DEF AnswersAge
<1>12. PanelFollows'
  <2> SUFFICES ASSUME ~outdated' PROVE PanelFollows'
    BY DEF PanelFollows
  <2>1. ~outdated /\ (rows' = rows \/ ~Changing) /\ read'.st = "idle"
    BY <1>2, AskingFacts
  <2>2. Follows(seen) /\ (posting.st = "done" => ~rows[Len(rows)].resolved)
        /\ \A c \in DOMAIN rows : Turning(c) => rows[c].resolved = resolving.to
    BY <1>1, <2>1 DEF PanelFollows, seen
  <2>3. (posting.st = "done" => rows' = rows) /\ (resolving.st # "idle" => rows' = rows)
    BY <2>1 DEF Changing, NoPost, NoResolve
  <2>4. Shown' = Shown /\ Shown = Len(seen)
    BY <1>2, <1>3, <2>2 DEF Shown, Follows
  <2>5. \A c \in DOMAIN rows : Turning(c)' = Turning(c)
    BY <1>2, <1>3, CommentFacts DEF Turning
  <2>6. Follows(panel)'
    <3> SUFFICES ASSUME NEW c \in 1..Len(seen) PROVE Turning(c)' \/ panel'[c].resolved = rows'[c].resolved
      BY <1>6, <2>4 DEF Follows
    <3>1. CASE turned = {}
      BY <1>1, <1>3, <1>5, <2>2, <2>4, <2>5, <3>1, CommentFacts DEF Follows
    <3>2. CASE turned # {}
      BY <1>5, <3>2
    <3> QED BY <3>1, <3>2
  <2>7. posting.st = "done" => ~rows'[Len(rows')].resolved
    BY <2>2, <2>3
  <2>8. \A c \in DOMAIN rows' : Turning(c)' => rows'[c].resolved = resolving.to
    BY <1>2, <2>2, <2>3 DEF Turning
  <2> QED
    BY <1>2, <1>5, <2>1, <2>6, <2>7, <2>8 DEF PanelFollows
<1>13. ChangesName'
  BY <1>2, <1>3, <1>8, AskingFacts DEF ChangesName, NoResolve
<1> QED
  BY <1>7, <1>10, <1>11, <1>12, <1>13

LEMMA RefetchFacts ==
    ASSUME CommentsInv, Refetch
    PROVE  /\ read' \in [st : {"idle", "asked", "loaded", "checked"}, seen : Seq(Row),
                        issues : [Comment -> {"none", "open", "closed"}]]
           /\ Len(read'.seen) <= Len(rows)
           /\ outdated' \in BOOLEAN /\ (~outdated' => read'.st = "asked")
           /\ read'.st = "idle" => read' = NoRead
           /\ read'.st = "checked" => read.st = "checked" /\ read' = read
<1>1. CASE read.st # "idle" /\ panel = NotRead
  <2>1. read' = read /\ outdated' = TRUE
    BY <1>1 DEF Refetch
  <2>2. Len(read.seen) <= Len(rows)
    BY DEF CommentsInv, CommentsTypes, CommentsTypeOK
  <2> QED BY <1>1, <2>1, <2>2 DEF CommentsInv, CommentsTypes
<1>2. CASE ~(read.st # "idle" /\ panel = NotRead)
  <2>1. read' = Asking /\ outdated' = FALSE
    BY <1>2 DEF Refetch
  <2>2. Len(rows) \in Nat
    BY CommentFacts, CommentThreadsAssumption DEF CommentsInv
  <2>3. read'.st = "asked" /\ Len(read'.seen) = 0
    BY <2>1, AskingFacts
  <2>4. read' \in [st : {"idle", "asked", "loaded", "checked"}, seen : Seq(Row),
                  issues : [Comment -> {"none", "open", "closed"}]]
    BY <2>1, AskingFacts
  <2>5. outdated' \in BOOLEAN
    BY <2>1
  <2>6. Len(read'.seen) <= Len(rows)
    BY <2>2, <2>3
  <2> QED BY <2>3, <2>4, <2>5, <2>6
<1> QED BY <1>1, <1>2

LEMMA PostSucceedsKeeps == CommentsInv /\ PostSucceeds => CommentsInv'
<1> SUFFICES ASSUME CommentsInv, PostSucceeds PROVE CommentsInv'
  OBVIOUS
<1> USE DEF CommentsInv
<1>1. /\ Untouched /\ UNCHANGED resolving /\ posting.st = "done" /\ posting' = NoPost
      /\ Len(rows) > 0 /\ posting.id = Len(rows) /\ resolving = NoResolve
  BY DEF PostSucceeds, Untouched, ChangesName, NoPost
<1>2. posting' \in [st : {"idle", "sent", "done"}, thread : 0..MaxComments, id : 0..MaxComments]
  BY <1>1, CommentThreadsAssumption DEF NoPost
<1>3. CASE ~board.appends
  <2>1. Refetch /\ UNCHANGED panel
    BY <1>3 DEF PostSucceeds
  <2>2. CommentsTypes'
    BY <1>1, <1>2, <2>1, RefetchFacts DEF Untouched, CommentsTypes, CommentsTypeOK
  <2> QED
    BY <1>1, <2>1, <2>2, RefetchFacts, UntouchedStep DEF Untouched, ChangesName, AnswersAge, PanelFollows,
       NoPost
<1>4. CASE board.appends
  <2>1. /\ panel' = Append(Cached(panel), [id |-> posting.id, resolved |-> FALSE])
        /\ outdated' = (outdated \/ read # NoRead) /\ UNCHANGED read
    BY <1>4 DEF PostSucceeds
  <2>2. Cached(panel) \in Seq(Entry) /\ [id |-> posting.id, resolved |-> FALSE] \in Entry
    BY <1>1, CommentFacts DEF Cached, CommentsTypes, CommentsTypeOK, Entry
  <2>3. /\ panel' \in Seq(Entry) /\ Len(panel') = Len(Cached(panel)) + 1
        /\ \A k \in 1..Len(Cached(panel)) : panel'[k] = Cached(panel)[k]
        /\ panel'[Len(Cached(panel)) + 1] = [id |-> posting.id, resolved |-> FALSE]
        /\ Len(Cached(panel)) \in Nat
    BY <2>1, <2>2
  <2>4. CommentsTypes'
    BY <1>1, <1>2, <2>1, <2>3 DEF Untouched, CommentsTypes, CommentsTypeOK, Entry
  <2>5. PanelFollows'
    <3> SUFFICES ASSUME ~outdated' PROVE PanelFollows'
      BY DEF PanelFollows
    <3>1. ~outdated /\ read = NoRead /\ read.st = "idle"
      BY <2>1, AskingFacts
    <3>2. Follows(panel) /\ (\A k \in DOMAIN panel : panel[k].id = k) /\ ~rows[Len(rows)].resolved
      BY <1>1, <3>1 DEF PanelFollows
    <3>3. panel # NotRead
      <4> SUFFICES ASSUME panel = NotRead PROVE FALSE
        OBVIOUS
      <4>1. 1 \in DOMAIN panel /\ panel[1].id = 0
        BY DEF NotRead
      <4> QED BY <3>2, <4>1
    <3>4. Cached(panel) = panel /\ Len(panel) = Len(rows) - 1
      BY <1>1, <3>2, <3>3 DEF Cached, Follows, Shown
    <3>5. \A c : ~Turning(c) /\ ~Turning(c)'
      BY <1>1 DEF Turning, NoResolve
    <3>6. /\ Len(panel') = Len(rows) /\ DOMAIN panel' = 1..Len(rows) /\ Len(rows) \in Nat
          /\ panel'[Len(rows)].id = Len(rows) /\ panel'[Len(rows)].resolved = FALSE
          /\ \A k \in 1..(Len(rows) - 1) : panel'[k] = panel[k]
      BY <1>1, <2>3, <3>4, CommentFacts
    <3>7. \A k \in 1..(Len(rows) - 1) : panel[k].id = k /\ panel[k].resolved = rows[k].resolved
      BY <1>1, <3>2, <3>4, <3>5, CommentFacts DEF Follows, Shown, CommentsTypes, CommentsTypeOK
    <3>8. rows[Len(rows)].resolved = FALSE
      BY <1>1, <3>2, CommentFacts DEF Row
    <3>9. ASSUME NEW k \in 1..Len(rows)
          PROVE  panel'[k].id = k /\ panel'[k].resolved = rows[k].resolved
      <4>1. CASE k = Len(rows)
        BY <3>6, <3>8, <4>1
      <4>2. CASE k # Len(rows)
        <5>1. Len(rows) \in Nat
          BY <3>6
        <5>2. k \in 1..(Len(rows) - 1)
          BY <4>2, <5>1
        <5> QED BY <3>6, <3>7, <5>2
      <4> QED BY <4>1, <4>2
    <3>10. Shown' = Len(rows) /\ posting'.st = "idle"
      BY <1>1 DEF Untouched, Shown, NoPost
    <3> QED
      BY <1>1, <2>1, <3>1, <3>5, <3>6, <3>9, <3>10 DEF Untouched, PanelFollows, Follows
  <2> QED
    BY <1>1, <2>1, <2>4, <2>5, UntouchedStep DEF Untouched, ChangesName, AnswersAge, NoPost
<1> QED BY <1>3, <1>4

LEMMA ResolveSucceedsKeeps == CommentsInv /\ ResolveSucceeds => CommentsInv'
<1> SUFFICES ASSUME CommentsInv, ResolveSucceeds PROVE CommentsInv'
  OBVIOUS
<1> USE DEF CommentsInv
<1> DEFINE t == resolving.thread
           ofThread(c) == c = t \/ (c \in DOMAIN rows /\ rows[c].thread = t)
<1>1. /\ Untouched /\ UNCHANGED posting /\ resolving.st = "done" /\ resolving' = NoResolve
      /\ posting = NoPost /\ t \in Threads /\ resolving.to \in BOOLEAN
  BY DEF ResolveSucceeds, Untouched, ChangesName, NoResolve, CommentsTypes, CommentsTypeOK
<1>2. resolving' \in [st : {"idle", "sent", "committed", "done"}, thread : 0..MaxComments, to : BOOLEAN]
  BY <1>1, CommentThreadsAssumption DEF NoResolve
<1>3. CASE ~board.appends
  <2>1. Refetch /\ UNCHANGED panel
    BY <1>3 DEF ResolveSucceeds
  <2>2. CommentsTypes'
    BY <1>1, <1>2, <2>1, RefetchFacts DEF Untouched, CommentsTypes, CommentsTypeOK
  <2> QED
    BY <1>1, <2>1, <2>2, RefetchFacts, UntouchedStep DEF Untouched, ChangesName, AnswersAge, PanelFollows,
       NoResolve
<1>4. CASE board.appends
  <2>1. /\ panel' = [k \in DOMAIN Cached(panel) |->
                        IF ofThread(panel[k].id) THEN [panel[k] EXCEPT !.resolved = resolving.to] ELSE panel[k]]
        /\ outdated' = (outdated \/ read # NoRead) /\ UNCHANGED read
    BY <1>4 DEF ResolveSucceeds
  <2>2. Cached(panel) \in Seq(Entry) /\ (Cached(panel) = panel \/ Cached(panel) = <<>>)
    BY DEF Cached, CommentsTypes, CommentsTypeOK, Entry
  <2> HIDE DEF t
  <2>3. /\ DOMAIN panel' = 1..Len(Cached(panel)) /\ Len(Cached(panel)) \in Nat
        /\ \A k \in 1..Len(Cached(panel)) :
              /\ panel'[k] \in Entry /\ panel'[k].id = panel[k].id
              /\ ofThread(panel[k].id) => panel'[k].resolved = resolving.to
              /\ ~ofThread(panel[k].id) => panel'[k] = panel[k]
    <3>1. DOMAIN Cached(panel) = 1..Len(Cached(panel)) /\ Len(Cached(panel)) \in Nat
          /\ \A k \in 1..Len(Cached(panel)) : panel[k] \in Entry
      BY <2>2
    <3> HIDE DEF ofThread
    <3> QED BY <1>1, <2>1, <3>1 DEF Entry
  <2>4. panel' \in Seq(Entry) /\ Len(panel') = Len(Cached(panel))
    <3>1. panel' = [k \in 1..Len(Cached(panel)) |-> panel'[k]]
      BY <2>1, <2>3
    <3>2. panel' \in [1..Len(Cached(panel)) -> Entry]
      BY <2>3, <3>1
    <3> QED BY <2>3, <3>2, SequenceOf
  <2>5. CommentsTypes'
    BY <1>1, <1>2, <2>1, <2>4 DEF Untouched, CommentsTypes, CommentsTypeOK, Entry
  <2>6. PanelFollows'
    <3> SUFFICES ASSUME ~outdated' PROVE PanelFollows'
      BY DEF PanelFollows
    <3>1. ~outdated /\ read = NoRead /\ read.st = "idle"
      BY <2>1, AskingFacts
    <3>2. /\ Follows(panel) /\ (\A k \in DOMAIN panel : panel[k].id = k)
          /\ \A c \in DOMAIN rows : Turning(c) => rows[c].resolved = resolving.to
      BY <3>1 DEF PanelFollows
    <3>3. Len(panel) = Len(rows) /\ Len(rows) \in Nat /\ DOMAIN rows = 1..Len(rows)
      BY <1>1, <3>2, CommentFacts DEF Follows, Shown, NoPost
    <3>4. panel # NotRead
      <4> SUFFICES ASSUME panel = NotRead PROVE FALSE
        OBVIOUS
      <4>1. 1 \in DOMAIN panel /\ panel[1].id = 0
        BY DEF NotRead
      <4> QED BY <3>2, <4>1
    <3>5. Cached(panel) = panel
      BY <3>4 DEF Cached
    <3>6. ASSUME NEW k \in 1..Len(rows)
          PROVE  panel'[k].id = k /\ panel'[k].resolved = rows[k].resolved
      <4>1. panel[k].id = k /\ panel'[k].id = k
        BY <2>2, <2>3, <3>2, <3>3, <3>5
      <4>2. CASE ofThread(k)
        <5>1. Turning(k)
          BY <1>1, <3>3, <4>2 DEF Turning, t
        <5> QED BY <2>3, <3>2, <3>3, <3>5, <4>1, <4>2, <5>1
      <4>3. CASE ~ofThread(k)
        <5>1. ~Turning(k)
          BY <1>1, <3>3, <4>3 DEF Turning, t
        <5>2. panel[k].resolved = rows[k].resolved
          BY <1>1, <3>2, <3>3, <5>1 DEF Follows, Shown, NoPost
        <5> QED BY <2>3, <3>3, <3>5, <4>1, <4>3, <5>2
      <4> QED BY <4>2, <4>3
    <3>7. Shown' = Len(rows) /\ DOMAIN panel' = 1..Len(rows) /\ Len(panel') = Len(rows)
      BY <1>1, <2>3, <2>4, <3>3, <3>5 DEF Untouched, Shown, NoPost
    <3>8. \A c : ~Turning(c)'
      BY <1>1 DEF Turning, NoResolve
    <3> QED
      BY <1>1, <2>1, <3>1, <3>3, <3>6, <3>7, <3>8 DEF Untouched, PanelFollows, Follows, NoPost
  <2> QED
    BY <1>1, <2>1, <2>5, <2>6, UntouchedStep DEF Untouched, ChangesName, AnswersAge, NoResolve
<1> QED BY <1>3, <1>4

LEMMA CommentsSteps == CommentsInv /\ [CommentsNext]_cvars => CommentsInv'
<1> SUFFICES ASSUME CommentsInv, [CommentsNext]_cvars PROVE CommentsInv'
  OBVIOUS
<1>1. CASE UNCHANGED cvars
  <2>1. Untouched /\ UNCHANGED <<panel, read, posting, resolving, outdated>>
    BY <1>1 DEF cvars, Untouched
  <2> QED
    BY <2>1, UntouchedStep DEF Untouched, CommentsInv, CommentsTypes, CommentsTypeOK, ChangesName,
       AnswersAge, PanelFollows, Follows, Shown, Turning
<1>2. CASE CommentsNext
  BY <1>2, StartReadKeeps, LoadCommentsKeeps, CheckIssuesKeeps, FinishReadKeeps, ReadFailsKeeps,
     OtherReadsKeeps, SubmitPostKeeps, MakePostKeeps, PostSucceedsKeeps, PostFailsKeeps, SubmitResolveKeeps,
     ResolveCommitsKeeps, MirrorResolutionKeeps, MirrorFailsKeeps, ResolveSucceedsKeeps, ResolveFailsKeeps,
     IssueTurnsKeeps
     DEF CommentsNext
<1> QED BY <1>1, <1>2

LEMMA FollowingShows == CommentsInv => PanelShowsComments
<1> SUFFICES ASSUME CommentsInv, read = NoRead, posting = NoPost, resolving = NoResolve, ~outdated
             PROVE  Len(panel) = Len(rows) /\ \A c \in DOMAIN rows : OnPanel(c, rows[c].resolved)
  BY DEF PanelShowsComments
<1>1. Follows(panel) /\ \A k \in DOMAIN panel : panel[k].id = k
  BY AskingFacts DEF CommentsInv, PanelFollows
<1>2. Shown = Len(rows) /\ \A c : ~Turning(c)
  BY DEF Shown, Turning, NoPost, NoResolve
<1>3. Len(panel) = Len(rows) /\ Len(rows) \in Nat /\ DOMAIN rows = 1..Len(rows)
  BY <1>1, <1>2, CommentFacts DEF Follows, CommentsInv
<1>4. DOMAIN panel = 1..Len(rows)
      /\ \A k \in 1..Len(rows) : panel[k] = [id |-> panel[k].id, resolved |-> panel[k].resolved]
  <2>1. CASE panel = NotRead
    BY <1>3, <2>1 DEF NotRead
  <2>2. CASE panel # NotRead
    <3>1. panel \in Seq(Entry)
      BY <2>2 DEF CommentsInv, CommentsTypes, CommentsTypeOK, Entry
    <3>2. DOMAIN panel = 1..Len(rows) /\ \A k \in 1..Len(rows) : panel[k] \in Entry
      BY <1>3, <3>1
    <3> QED BY <3>2 DEF Entry
  <2> QED BY <2>1, <2>2
<1>5. \A c \in 1..Len(rows) : panel[c] = [id |-> c, resolved |-> rows[c].resolved]
  BY <1>1, <1>2, <1>3, <1>4 DEF Follows
<1> QED BY <1>3, <1>4, <1>5 DEF OnPanel

(* The panel and the sync of threads with their issues, for any number of  *)
(* comments (CommentsPanel.tsx and the comment routes of the server).      *)
LEMMA CommentsInvariance == CommentsSpec => []CommentsInv
BY CommentsStart, CommentsSteps, PTL DEF CommentsSpec

(* Once nothing is under way, the panel shows every comment of the table   *)
(* once, resolved or not as it is there (CommentsPanel.tsx, postMutation,  *)
(* resolveMutation), but for the failures and overlaps that it names.      *)
THEOREM PanelIsTrue == CommentsSpec => []PanelShowsComments
BY CommentsInvariance, FollowingShows, PTL

(* A thread and its issue on GitHub are in step, but where the issue was   *)
(* turned there or a read overlapped the handler (core.py and releases.py, *)
(* _sync_release_comment_resolutions, _sync_github_issue_resolutions).     *)
THEOREM ThreadsAreInStep == CommentsSpec => []ThreadInStep
<1> CommentsInv => ThreadInStep
  BY DEF CommentsInv
<1> QED BY CommentsInvariance, PTL

-----------------------------------------------------------------------------

(* The page runs the editor or the comments: every step of it is a step of *)
(* each, or none of its.                                                   *)
LEMMA PageSteps == [PageNext]_pageVars => [EditorNext]_evars /\ [CommentsNext]_cvars
BY DEF PageNext, pageVars

(* The page is both of its parts: what is proved of each holds of it       *)
(* (PublicationView.tsx and the pages like it).                            *)
THEOREM PageHasBothParts == PageSpec => EditorSpec /\ CommentsSpec
<1>1. PageInit => EditorInit /\ CommentsInit
  BY DEF PageInit
<1> QED BY <1>1, PageSteps, PTL DEF PageSpec, EditorSpec, CommentsSpec

LEMMA PartStays == PageSpec => [](part \in Parts)
<1>1. PageInit => part \in Parts
  BY DEF PageInit
<1>2. part \in Parts /\ [PageNext]_pageVars => (part \in Parts)'
  BY DEF PageNext, pageVars
<1> QED BY <1>1, <1>2, PTL DEF PageSpec

(* Every variable of the page keeps its type.                              *)
THEOREM PageTypes == ~Overlap => (PageSpec => []PageTypeOK)
<1> SUFFICES ASSUME ~Overlap PROVE PageSpec => []PageTypeOK
  OBVIOUS
<1>1. EditorInv /\ CommentsInv /\ part \in Parts => PageTypeOK
  BY DEF EditorInv, CommentsInv, CommentsTypes, PageTypeOK
<1> QED BY <1>1, PageHasBothParts, PartStays, EditorInvariance, CommentsInvariance, PTL

=============================================================================
