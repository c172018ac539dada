------------------------------ MODULE MCBlobLinks ------------------------------
EXTENDS BlobLinks, TLC

Symmetry == Permutations(Conns) \cup Permutations(Requests)
=============================================================================
