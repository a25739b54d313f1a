--------------------------- MODULE PublicationPage ---------------------------
(***************************************************************************)
(* The page of a publication (or another artifact, or a release of one):   *)
(* its LaTeX editor and its comments.  They share no state; this module    *)
(* lets one run explore each of them.                                      *)
(***************************************************************************)
EXTENDS LatexEditor, CommentThreads

VARIABLE part

Parts == {"editor", "comments"}

pageVars == <<part, evars, cvars>>

PageInit ==
    /\ part \in Parts
    /\ EditorInit
    /\ CommentsInit /\ (part = "comments" \/ board = ReleaseComments)

PageNext ==
    \/ part = "editor" /\ EditorNext /\ UNCHANGED <<part, cvars>>
    \/ part = "comments" /\ CommentsNext /\ UNCHANGED <<part, evars>>

PageSpec == PageInit /\ [][PageNext]_pageVars

-----------------------------------------------------------------------------

PageTypeOK == part \in Parts /\ EditorTypeOK /\ CommentsTypeOK

=============================================================================
