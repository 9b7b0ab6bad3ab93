-------------------------- MODULE MCRunSupervisor --------------------------
(* One run: runs meet only in a restart of the server, and the safety
   properties are proved for any number of them. *)
EXTENDS RunSupervisor
============================================================================
