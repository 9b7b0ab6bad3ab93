------------------------------ MODULE PhaseGate ------------------------------
(***************************************************************************)
(* What phases.py promises of one session, with nothing of how it is       *)
(* served: "No phase may be entered without a recorded approval of the     *)
(* preceding phase's artifact, except qa which is the entry point".        *)
(* A session is a phase and the set of phases approved so far.  The one    *)
(* way past a gate is a merged pull request, which completes the session;  *)
(* a pull request exists only once everything before the merge phase has   *)
(* been approved.                                                          *)
(***************************************************************************)
EXTENDS Naturals, Sequences

VARIABLES current_phase, approvals

gateVars == <<current_phase, approvals>>

(***************************************************************************)
(* The order of the phases (FR-5) and the pure functions of phases.py.     *)
(***************************************************************************)

Phase == {"qa", "srs", "plan", "implement", "review", "merge", "completed"}

PHASE_ORDER == <<"qa", "srs", "plan", "implement", "review", "merge", "completed">>

Index == [qa |-> 1, srs |-> 2, plan |-> 3, implement |-> 4, review |-> 5,
          merge |-> 6, completed |-> 7]

next_phase(p) ==
  IF Index[p] = Len(PHASE_ORDER) THEN "completed" ELSE PHASE_ORDER[Index[p] + 1]

previous_phase(p) == IF Index[p] = 1 THEN "qa" ELSE PHASE_ORDER[Index[p] - 1]

GATED_PHASES == Phase \ {"qa"}

prerequisites_for(target) == {p \in GATED_PHASES : Index[p] < Index[target]}

check_can_enter(target, approved) == prerequisites_for(target) \subseteq approved

check_can_approve(current, requested, approved) ==
  /\ requested # "completed"
  /\ check_can_enter(requested, approved)
  /\ requested = current

(***************************************************************************)
(* The promise.                                                            *)
(***************************************************************************)

\* Everything before p is approved; "completed" is also reached by a merge.
Earned(p, approved) ==
  \/ check_can_enter(p, approved)
  \/ p = "completed" /\ check_can_enter("merge", approved)

Init ==
  /\ current_phase = "qa"
  /\ approvals = {}

\* An approval is recorded only behind the approvals before it.
RecordApproval(p) ==
  /\ p \in Phase \ {"completed"}
  /\ check_can_enter(p, approvals)
  /\ approvals' = approvals \cup {p}
  /\ current_phase' = next_phase(p)

\* Any other move ends in a phase whose prerequisites are on record.
EnterEarned(p) ==
  /\ p \in Phase
  /\ Earned(p, approvals)
  /\ current_phase' = p
  /\ UNCHANGED approvals

Next == \E p \in Phase : RecordApproval(p) \/ EnterEarned(p)

Spec == Init /\ [][Next]_gateVars
==============================================================================
