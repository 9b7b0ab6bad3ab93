----------------------------- MODULE MCWorktree -----------------------------
(* One operation that is held to FR-16 and one that is not, outputs that hold a
   line too long, an empty one and a fragment. *)
EXTENDS Worktree
=============================================================================
