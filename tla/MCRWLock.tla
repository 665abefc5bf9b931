------------------------------ MODULE MCRWLock ------------------------------
EXTENDS RWLock, TLC

Symmetry == Permutations(Readers) \cup Permutations(Writers)
=============================================================================
