----------------------------- MODULE MCReleases ------------------------------
EXTENDS Releases, TLC
Symmetry == Permutations(User) \cup Permutations(Call) \cup Permutations(Name)
            \cup Permutations(Art)
=============================================================================
