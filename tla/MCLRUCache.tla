----------------------------- MODULE MCLRUCache -----------------------------
EXTENDS LRUCache, TLC

Symmetry == Permutations(Nodes) \cup Permutations(Keys)
=============================================================================
