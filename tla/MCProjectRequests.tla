-------------------------- MODULE MCProjectRequests --------------------------
EXTENDS ProjectRequests, TLC
Symmetry ==
    Permutations(Call) \cup Permutations(Invitation)
    \cup Permutations(Path) \cup Permutations(Writer) \cup Permutations(Put)
=============================================================================
