------------------------- MODULE MCPublicationPage ---------------------------
EXTENDS PublicationPage, TLC
Symmetry == Permutations(File) \cup Permutations(Mine) \cup Permutations(Others)
=============================================================================
