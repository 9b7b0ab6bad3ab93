------------------------------ MODULE MCQaLoop ------------------------------
(* Two requests: two starts, a start and a restart, answers sent twice, a
   document that is late for a restart. *)
EXTENDS QaLoop
=============================================================================
