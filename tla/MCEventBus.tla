----------------------------- MODULE MCEventBus -----------------------------
(* Two clients of one run: one may be slow, or late, while the other keeps up.
   The run has more events than the replay buffer, and than a queue, holds. *)
EXTENDS EventBus
=============================================================================
