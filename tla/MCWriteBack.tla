---------------------------- MODULE MCWriteBack ----------------------------
(* Two sessions, so that a pass of the poller has a row after the first one,
   and one request beside the poller.  The cfg files choose the environments. *)
EXTENDS WriteBack
============================================================================
