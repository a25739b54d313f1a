--------------------------- MODULE CompileService ----------------------------
(***************************************************************************)
(* What the LaTeX preview promises: one compilation at a time, each        *)
(* answered once, with the outcome of the very sources it was asked for,   *)
(* and none left unanswered unless the editor goes away.                   *)
(***************************************************************************)
CONSTANTS Source, Broken, NoSource

VARIABLES request, reply

svars == <<request, reply>>

NoReply == [src |-> NoSource, st |-> "none"]

Outcomes(s) ==
    {[src |-> s, st |-> IF s \in Broken THEN "failed" ELSE "pdf"], [src |-> s, st |-> "error"]}

ServiceInit == request = NoSource /\ reply = NoReply

Ask(s) == request = NoSource /\ request' = s /\ UNCHANGED reply

(* The next request may follow in the same step.                           *)
Answer ==
    /\ request # NoSource
    /\ reply' \in Outcomes(request)
    /\ request' \in Source \cup {NoSource}

Abandon == request' = NoSource /\ reply' = NoReply

ServiceNext == (\E s \in Source : Ask(s)) \/ Answer \/ Abandon

ServiceSpec == ServiceInit /\ [][ServiceNext]_svars /\ WF_svars(Answer)

=============================================================================
