------------------------- MODULE MCIdempotentIssue -------------------------
(* Small instances of IdempotentIssue. *)
EXTENDS IdempotentIssue, TLC

\* Requests in flight are interchangeable, and so are request bodies.
Symmetry == Permutations(Request)
=============================================================================
