---------------------------- MODULE MCSessionParts ---------------------------
EXTENDS SessionParts, TLC

(* Of the tokens alone: every further set would double the work for all    *)
(* the states in which it plays no part.                                   *)
Symmetry == Permutations(Req) \cup Permutations(Pair)

=============================================================================
