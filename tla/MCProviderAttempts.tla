------------------------- MODULE MCProviderAttempts -------------------------
EXTENDS ProviderAttempts, TLC
Symmetry == Permutations(Sweepers)
=============================================================================
