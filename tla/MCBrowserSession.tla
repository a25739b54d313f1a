--------------------------- MODULE MCBrowserSession --------------------------
EXTENDS BrowserSession, TLC
Symmetry == Permutations(Req) \cup Permutations(Tab) \cup Permutations(Pair)
=============================================================================
