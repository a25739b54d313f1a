---------------------------- MODULE MCCredentials ----------------------------
EXTENDS Credentials, TLC
Symmetry == Permutations(Call) \cup Permutations(Token \ {LegacyTok})
=============================================================================
