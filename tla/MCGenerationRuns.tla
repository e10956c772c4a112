-------------------------- MODULE MCGenerationRuns --------------------------
EXTENDS GenerationRuns, TLC
Symmetry == Permutations(Run) \cup Permutations(Worker)
=============================================================================
