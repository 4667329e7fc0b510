---------------------------- MODULE MCReadStore ----------------------------
\* Small instances of ReadStore for TLC.
EXTENDS ReadStore, TLC

Symmetry == Permutations(Files) \cup Permutations(Requests)
=============================================================================
