---------------------------- MODULE MCWikiReview ----------------------------
(* Two requests, so that a review, an approval or a lint overlaps with another
   one and with the consumer; the page an ingest writes is the one a
   regeneration writes. *)
EXTENDS WikiReview
=============================================================================
