--------------------------- MODULE MCReviewTriage ---------------------------
(* Two requests race over a finding; a second review may take it off the
   report and use its id again. *)
EXTENDS ReviewTriage, TLC

RequestSymmetry == Permutations(Requests)
=============================================================================
