--------------------------- MODULE MCReviewStore ---------------------------
(* ReviewStore on small sets.  No property tells reads, plates or requests *)
(* apart, so all of them may be permuted.                                  *)
EXTENDS ReviewStore, TLC

Symmetry == Permutations(Reads) \cup Permutations(Plates) \cup Permutations(Requests)
=============================================================================
