----------------------------- MODULE IssueList -------------------------------
(***************************************************************************)
(* The to-do list of a project page: useProjectIssues (hooks/useProject.ts)*)
(* and CreateIssue.  GitHub's list of issues lags behind its writes, so    *)
(* the page keeps the changes it expects, lays them over every list it     *)
(* reads, and reads again until the server agrees or a cap is reached.     *)
(***************************************************************************)
EXTENDS Naturals, Sequences, FiniteSets

CONSTANTS
    Issue,
    NewIssue,       \* issues that do not exist yet
    MaxReconcile,   \* ISSUES_RECONCILE_MAX_ATTEMPTS
    MaxIssueChanges \* bound: changes the user makes

ASSUME IssueListAssumption ==
    NewIssue \subseteq Issue /\ {MaxReconcile, MaxIssueChanges} \subseteq Nat

VARIABLES
    lagging,   \* GitHub: the states of each issue from the listed to the true one
    listing,   \* the query's cache
    initial,   \* the query's first fetch: the list it read
    expected,  \* pendingStates
    created,   \* pendingCreates
    patching,  \* issueStateMutation: what each issue is changed to and from
    reconcile, \* reconcileTimer is armed
    attempts,  \* reconcileAttempts
    answers,   \* lists read by reconciles that have not been handled
    changes,   \* bound: changes made
    forgot     \* history: why the page may stop with a list GitHub does not have

ivars == <<lagging, listing, initial, expected, created, patching, reconcile, attempts,
           answers, changes, forgot>>

State == {"absent", "open", "closed"}
NoList == [i \in Issue |-> "unknown"]
NoPatch == [to |-> "none", from |-> "none", done |-> FALSE]
Truth == [i \in Issue |-> lagging[i][Len(lagging[i])]]
Listed == [i \in Issue |-> lagging[i][1]]

IssuesTypeOK ==
    /\ \A i \in Issue : lagging[i] \in Seq(State) /\ lagging[i] # <<>>
    /\ listing \in [Issue -> State] \cup {NoList}
    /\ initial \in [Issue -> State] \cup {NoList}
    /\ expected \in [Issue -> {"none", "open", "closed"}]
    /\ created \subseteq NewIssue
    /\ patching \in [Issue -> [to : {"none", "open", "closed"},
                               from : State \cup {"none"}, done : BOOLEAN]]
    /\ reconcile \in BOOLEAN
    /\ attempts \in 0..MaxReconcile
    /\ answers \in Seq([Issue -> State])
    /\ changes \in 0..MaxIssueChanges
    /\ forgot \subseteq {"failed read", "cap", "failed change", "overtaken", "late fetch", "again"}

IssuesInit ==
    /\ lagging = [i \in Issue |-> <<IF i \in NewIssue THEN "absent" ELSE "open">>]
    /\ listing = NoList /\ initial = NoList
    /\ expected = [i \in Issue |-> "none"]
    /\ created = {}
    /\ patching = [i \in Issue |-> NoPatch]
    /\ reconcile = FALSE /\ attempts = 0 /\ answers = <<>>
    /\ changes = 0 /\ forgot = {}

HasPending(e, c) == c # {} \/ \E i \in Issue : e[i] # "none"

ApplyPending(list, e, c) ==
    [i \in Issue |-> IF list[i] = "absent" THEN IF i \in c THEN "open" ELSE "absent"
                     ELSE IF e[i] # "none" THEN e[i] ELSE list[i]]

ScheduleFresh == reconcile' = TRUE /\ attempts' = 0

-----------------------------------------------------------------------------

FetchIssues ==
    /\ listing = NoList /\ initial = NoList
    /\ initial' = Listed
    /\ UNCHANGED <<lagging, listing, expected, created, patching, reconcile, attempts, answers, changes, forgot>>

ShowIssues ==
    /\ initial # NoList
    /\ listing' = initial /\ initial' = NoList
    /\ forgot' = forgot \cup (IF listing # NoList THEN {"late fetch"} ELSE {})
    /\ UNCHANGED <<lagging, expected, created, patching, reconcile, attempts, answers, changes>>

(* onMutate: a fetch under way is cancelled, the expectation kept, and the *)
(* cached issue flipped.  The checkbox stays enabled; here a second click  *)
(* on an issue waits for the answer to the first.                          *)
ToggleIssue(i) ==
    /\ listing # NoList /\ listing[i] \in {"open", "closed"}
    /\ patching[i] = NoPatch /\ changes < MaxIssueChanges
    /\ LET to == IF listing[i] = "open" THEN "closed" ELSE "open"
       IN /\ patching' = [patching EXCEPT ![i] = [to |-> to, from |-> listing[i], done |-> FALSE]]
          /\ expected' = [expected EXCEPT ![i] = to]
          /\ listing' = [listing EXCEPT ![i] = to]
    /\ initial' = NoList
    /\ changes' = changes + 1
    /\ forgot' = forgot \cup (IF expected[i] # "none" \/ i \in created THEN {"again"} ELSE {})
    /\ UNCHANGED <<lagging, created, reconcile, attempts, answers>>

PatchIssue(i) ==
    /\ patching[i] # NoPatch /\ ~patching[i].done
    /\ lagging' = [lagging EXCEPT ![i] = Append(@, patching[i].to)]
    /\ patching' = [patching EXCEPT ![i].done = TRUE]
    /\ UNCHANGED <<listing, initial, expected, created, reconcile, attempts, answers, changes, forgot>>

PatchSettles(i) ==
    /\ patching[i].done
    /\ patching' = [patching EXCEPT ![i] = NoPatch]
    /\ ScheduleFresh
    /\ UNCHANGED <<lagging, listing, initial, expected, created, answers, changes, forgot>>

(* onError rolls this issue back only, whether or not GitHub has changed it.*)
PatchFails(i) ==
    /\ patching[i] # NoPatch
    /\ expected' = [expected EXCEPT ![i] = "none"]
    /\ listing' = IF listing[i] = "absent" THEN listing
                  ELSE [listing EXCEPT ![i] = patching[i].from]
    /\ patching' = [patching EXCEPT ![i] = NoPatch]
    /\ forgot' = forgot \cup {"failed change"}
    /\ ScheduleFresh
    /\ UNCHANGED <<lagging, initial, created, answers, changes>>

(* CreateIssue: GitHub has the issue when the answer comes; no fetch is    *)
(* cancelled.                                                              *)
RegisterCreatedIssue(i) ==
    /\ i \in NewIssue /\ Truth[i] = "absent" /\ changes < MaxIssueChanges
    /\ lagging' = [lagging EXCEPT ![i] = Append(@, "open")]
    /\ created' = created \cup {i}
    /\ listing' = IF listing = NoList
                  THEN [j \in Issue |-> IF j = i THEN "open" ELSE "absent"]
                  ELSE [listing EXCEPT ![i] = "open"]
    /\ changes' = changes + 1
    /\ ScheduleFresh
    /\ UNCHANGED <<initial, expected, patching, answers, forgot>>

-----------------------------------------------------------------------------

(* The timer fires and the list is read.                                   *)
ReconcileReads ==
    /\ reconcile
    /\ reconcile' = FALSE
    /\ answers' = Append(answers, Listed)
    /\ UNCHANGED <<lagging, listing, initial, expected, created, patching, attempts, changes, forgot>>

(* The read numbered k among those under way ends, perhaps before an older.*)
Ends(k) == answers' = SubSeq(answers, 1, k - 1) \o SubSeq(answers, k + 1, Len(answers))
Overtakes(k) == IF k > 1 THEN {"overtaken"} ELSE {}

(* The catch returns without arming the timer again.                       *)
ReconcileFails(k) ==
    /\ Ends(k)
    /\ forgot' = forgot \cup {"failed read"}
    /\ UNCHANGED <<lagging, listing, initial, expected, created, patching, reconcile, attempts, changes>>

(* Mutant: the list read replaces what the page shows.                     *)
ReconcileClobbers(k) ==
    LET list == answers[k]
        e == [i \in Issue |-> IF list[i] = expected[i] THEN "none" ELSE expected[i]]
        c == {i \in created : list[i] = "absent"}
    IN /\ Ends(k)
       /\ listing' = list
       /\ IF HasPending(e, c) /\ attempts < MaxReconcile
          THEN /\ attempts' = attempts + 1 /\ reconcile' = TRUE
               /\ expected' = e /\ created' = c
               /\ forgot' = forgot \cup Overtakes(k)
          ELSE /\ expected' = [i \in Issue |-> "none"] /\ created' = {}
               /\ forgot' = forgot \cup Overtakes(k) \cup (IF HasPending(e, c) THEN {"cap"} ELSE {})
               /\ UNCHANGED <<attempts, reconcile>>
       /\ UNCHANGED <<lagging, initial, patching, changes>>

(* Mutant: the expectations are dropped after the first read.              *)
ReconcileForgets(k) ==
    LET list == answers[k]
        e == [i \in Issue |-> IF list[i] = expected[i] THEN "none" ELSE expected[i]]
        c == {i \in created : list[i] = "absent"}
    IN /\ Ends(k)
       /\ listing' = ApplyPending(list, e, c)
       /\ expected' = [i \in Issue |-> "none"] /\ created' = {}
       /\ forgot' = forgot \cup Overtakes(k)
       /\ UNCHANGED <<lagging, initial, patching, changes, attempts, reconcile>>

(* A list comes back: expectations it meets are dropped, the others laid   *)
(* over it, and it is read again while any are left, up to the cap.        *)
ReconcileAnswers(k) ==
    LET list == answers[k]
        e == [i \in Issue |-> IF list[i] = expected[i] THEN "none" ELSE expected[i]]
        c == {i \in created : list[i] = "absent"}
    IN /\ Ends(k)
       /\ listing' = ApplyPending(list, e, c)
       /\ IF HasPending(e, c) /\ attempts < MaxReconcile
          THEN /\ attempts' = attempts + 1 /\ reconcile' = TRUE
               /\ expected' = e /\ created' = c
               /\ forgot' = forgot \cup Overtakes(k)
          ELSE /\ expected' = [i \in Issue |-> "none"] /\ created' = {}
               /\ forgot' = forgot \cup Overtakes(k) \cup (IF HasPending(e, c) THEN {"cap"} ELSE {})
               /\ UNCHANGED <<attempts, reconcile>>
       /\ UNCHANGED <<lagging, initial, patching, changes>>

ListCatchesUp(i) ==
    /\ Len(lagging[i]) > 1
    /\ lagging' = [lagging EXCEPT ![i] = Tail(@)]
    /\ UNCHANGED <<listing, initial, expected, created, patching, reconcile, attempts, answers, changes, forgot>>

IssuesNext ==
    \/ FetchIssues \/ ShowIssues \/ ReconcileReads
    \/ \E i \in Issue : \/ ToggleIssue(i) \/ PatchIssue(i) \/ PatchSettles(i) \/ PatchFails(i)
                        \/ RegisterCreatedIssue(i) \/ ListCatchesUp(i)
    \/ \E k \in 1..Len(answers) : ReconcileAnswers(k) \/ ReconcileFails(k)

IssuesFairness ==
    /\ WF_ivars(FetchIssues) /\ WF_ivars(ShowIssues) /\ WF_ivars(ReconcileReads)
    /\ WF_ivars(\E i \in Issue : PatchIssue(i))
    /\ WF_ivars(\E i \in Issue : PatchSettles(i) \/ PatchFails(i))
    /\ WF_ivars(\E k \in 1..Len(answers) : ReconcileAnswers(k) \/ ReconcileFails(k))
    /\ WF_ivars(\E i \in Issue : ListCatchesUp(i))

IssuesSpec == IssuesInit /\ [][IssuesNext]_ivars /\ IssuesFairness

-----------------------------------------------------------------------------

(* A created issue that is also toggled before the list has it is shown as *)
(* it was created: applyPending puts it back unchanged.                    *)
Shown(i) ==
    IF i \in created THEN listing[i] # "absent"
    ELSE expected[i] # "none" => listing[i] = expected[i]

(* A list that does not show a change yet never takes it off the page      *)
(* while the page expects it and has not given up on a change.             *)
ReconcileKeepsExpected ==
    [][answers' # answers /\ forgot = {} => \A i \in Issue : Shown(i) => Shown(i)']_ivars

(* The list ends up as GitHub's issues are, unless a read failed or came   *)
(* late, the cap was reached, a change was refused, or an issue was changed*)
(* again before the list had shown the change before (an old list then     *)
(* passes for the confirmation).                                           *)
ListSettles == []<>(listing = Truth \/ forgot # {})

=============================================================================
