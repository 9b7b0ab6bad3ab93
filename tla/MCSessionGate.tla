--------------------------- MODULE MCSessionGate ---------------------------
(* Two requests in flight at once over one session. *)
EXTENDS SessionGate, TLC

RequestSymmetry == Permutations(Requests)
============================================================================
