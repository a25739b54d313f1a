--------------------------- MODULE MCProjectViews ----------------------------
EXTENDS ProjectViews

(* One text is found on two pages, the other on one.                       *)
MCHits == [q \in SearchText |-> IF q = "twice" THEN <<1, 3>> ELSE <<2>>]

=============================================================================
