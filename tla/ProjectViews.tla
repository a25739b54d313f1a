---------------------------- MODULE ProjectViews -----------------------------
(***************************************************************************)
(* The views of a project of which a browser tab shows one at a time: the  *)
(* preview of the LaTeX editor, the to-do list, the PDF viewer, the release*)
(* dialog, and the dialogs and buttons over the query cache.  They share   *)
(* no state; this module lets one run explore each of them.                *)
(***************************************************************************)
EXTENDS LatexPreview, IssueList, PdfViewer, ReleaseForm, FormDialogs

VARIABLE view

Views == {"preview", "issues", "pdf", "release", "dialogs"}

viewsVars == <<view, pvars, ivars, pdfVars, formVars, fvars>>

ViewsInit ==
    /\ view \in Views
    /\ PreviewInit /\ (view = "preview" \/ src = CHOOSE s \in Source : TRUE)
    /\ IssuesInit
    /\ PdfInit /\ (view = "pdf" \/ ~paged)
    /\ FormInit
    /\ FormsInit /\ (view = "dialogs" \/ dialog = Behaviour(AddCollaborator))

ViewsNext ==
    \/ /\ view = "preview" /\ PreviewNext
       /\ UNCHANGED <<view, ivars, pdfVars, formVars, fvars>>
    \/ /\ view = "issues" /\ IssuesNext
       /\ UNCHANGED <<view, pvars, pdfVars, formVars, fvars>>
    \/ /\ view = "pdf" /\ PdfNext
       /\ UNCHANGED <<view, pvars, ivars, formVars, fvars>>
    \/ /\ view = "release" /\ FormNext
       /\ UNCHANGED <<view, pvars, ivars, pdfVars, fvars>>
    \/ /\ view = "dialogs" /\ FormsNext
       /\ UNCHANGED <<view, pvars, ivars, pdfVars, formVars>>

(* In the other views no action of the preview is enabled.                 *)
ViewsFairness == PreviewFairness /\ (view = "issues" => IssuesFairness)

ViewsSpec == ViewsInit /\ [][ViewsNext]_viewsVars /\ ViewsFairness

-----------------------------------------------------------------------------

ViewsTypeOK ==
    view \in Views /\ PreviewTypeOK /\ IssuesTypeOK /\ PdfTypeOK /\ FormTypeOK /\ FormsTypeOK

(* ListSettles, where the list is shown.                                   *)
ShownListSettles == view = "issues" => ListSettles

=============================================================================
