------------------------- MODULE SessionGate_proofs -------------------------
(***************************************************************************)
(* Theorems of SessionGate, for any number of concurrent requests and any  *)
(* choice of counted rows.  The argument is one inductive invariant: the   *)
(* approvals only grow, so whatever prerequisites a request found met when *)
(* it loaded the session are still met when it commits, however stale the  *)
(* rest of its snapshot is.  RequestsAreJustified records those facts per request.  *)
(***************************************************************************)
EXTENDS SessionGate, TLAPS

(***************************************************************************)
(* Lemmas about the phase order.                                           *)
(***************************************************************************)

\* The next phase is earned by the approval of this one.
LEMMA NextIsEarned ==
  ASSUME NEW p \in Phase \ {"completed"}, NEW A, check_can_enter(p, A)
  PROVE  /\ next_phase(p) \in Phase
         /\ check_can_enter(next_phase(p), A \cup {p})
<1>1. /\ Index[p] \in 1..6
      /\ next_phase(p) \in Phase
      /\ Index[next_phase(p)] = Index[p] + 1
  BY DEF Phase, Index, next_phase, PHASE_ORDER
<1>2. \A q \in Phase : Index[q] < Index[p] + 1 => q = p \/ Index[q] < Index[p]
  BY DEF Phase, Index
<1>3. QED
  BY <1>1, <1>2 DEF check_can_enter, prerequisites_for, GATED_PHASES

\* A rejection returns to a phase that was earned on the way.
LEMMA PreviousIsEarned ==
  ASSUME NEW p \in Phase, NEW A, Earned(p, A)
  PROVE  /\ previous_phase(p) \in Phase
         /\ Earned(previous_phase(p), A)
<1>1. /\ previous_phase(p) \in Phase
      /\ Index[previous_phase(p)] <= Index[p]
      /\ p = "completed" => previous_phase(p) = "merge"
  BY DEF Phase, Index, previous_phase, PHASE_ORDER
<1>2. \A q \in Phase : Index[q] \in Nat
  BY DEF Phase, Index
<1>3. CASE check_can_enter(p, A)
  BY <1>1, <1>2, <1>3 DEF Earned, check_can_enter, prerequisites_for, GATED_PHASES
<1>4. CASE p = "completed" /\ check_can_enter("merge", A)
  BY <1>1, <1>4 DEF Earned
<1>5. QED
  BY <1>3, <1>4 DEF Earned

\* Approvals only help.
LEMMA EarnedIsMonotone ==
  ASSUME NEW p, NEW A, NEW B, A \subseteq B
  PROVE  /\ check_can_enter(p, A) => check_can_enter(p, B)
         /\ Earned(p, A) => Earned(p, B)
BY DEF Earned, check_can_enter

\* The first phase, where create_session starts, asks for no approval.
LEMMA SrsIsUngated ==
  ASSUME NEW A
  PROVE  check_can_enter("qa", A) /\ check_can_enter("srs", A)
BY DEF check_can_enter, prerequisites_for, GATED_PHASES, Phase, Index

(***************************************************************************)
(* Type correctness.                                                       *)
(***************************************************************************)

\* Moving forward or back from a phase gives a phase.
LEMMA PhaseFunctions ==
  ASSUME NEW p \in Phase
  PROVE  next_phase(p) \in Phase /\ previous_phase(p) \in Phase
BY DEF Phase, next_phase, previous_phase, PHASE_ORDER, Index

\* Every file PHASE_ARTIFACT names is one the worktree may hold.
LEMMA ArtifactFiles ==
  /\ DOMAIN artifact_for = Phase \ {"completed"}
  /\ \A p \in DOMAIN artifact_for : artifact_for[p] \in Files
BY DEF artifact_for, Phase, Files

\* record_artifact keeps the row table within its capped counts.
LEMMA RowTable ==
  ASSUME NEW t \in [RowPhases -> 0..MaxRows], NEW p, NEW found
  PROVE  with_row(t, p, found) \in [RowPhases -> 0..MaxRows]
BY DEF with_row, MaxRows

\* Reading the snapshot a request works from keeps the types.
LEMMA LoadType ==
  ASSUME TypeOK, NEW r \in Requests, NEW op \in Operations,
         NEW at \in {"load", "agent", "lookup", "commit"},
         NEW p \in Phase, NEW found \in BOOLEAN, Load(r, op, at, p, found)
  PROVE  TypeOK'
BY DEF Load, TypeOK, Request, db, history

\* The request that has answered is a request.
LEMMA IdleType == Idle \in Request
BY DEF Idle, Request, Operations, Phase

\* What the handlers change of a request leaves it a request.
LEMMA RequestUpdates ==
  ASSUME TypeOK, NEW r \in Requests
  PROVE  /\ Finish(r) => req' \in [Requests -> Request]
         /\ \A at \in {"load", "agent", "lookup", "commit"} :
              GoTo(r, at) => req' \in [Requests -> Request]
<1>1. Finish(r) => req' \in [Requests -> Request]
  BY IdleType DEF TypeOK, Finish
<1>2. ASSUME NEW at \in {"load", "agent", "lookup", "commit"}, GoTo(r, at)
      PROVE  req' \in [Requests -> Request]
  BY <1>2 DEF TypeOK, GoTo, Request
<1>3. QED
  BY <1>1, <1>2

(***************************************************************************)
(* The inductive invariant and what every step leaves alone.               *)
(***************************************************************************)

\* A pull request that is merged now was merged.
MergeIsRemembered == pr = "merged" => wasMerged

IInv ==
  /\ TypeOK
  /\ PhaseIsEarned
  /\ PullRequestIsEarned
  /\ ApprovalHasArtifact
  /\ RequestsAreJustified
  /\ MergeIsRemembered

\* Nothing on record is ever withdrawn: approvals, files, rows, a pull request.
Grows ==
  /\ approvals \subseteq approvals'
  /\ files \subseteq files'
  /\ wasMerged => wasMerged'
  /\ \A p \in Phase : RowCount(p) >= 1 => RowCount(p)' >= 1

\* Registering one artifact loses no row of any phase.
LEMMA RowsGrow ==
  ASSUME TypeOK, NEW p, NEW found, rows' = with_row(rows, p, found)
  PROVE  \A q \in Phase : RowCount(q) >= 1 => RowCount(q)' >= 1
BY DEF TypeOK, with_row, RowCount, MaxRows

\* finalize registers two artifacts; neither loses a row.
LEMMA RowsGrowTwice ==
  ASSUME TypeOK, NEW p, NEW q, NEW a, NEW b,
         rows' = with_row(with_row(rows, p, a), q, b)
  PROVE  \A x \in Phase : RowCount(x) >= 1 => RowCount(x)' >= 1
BY DEF TypeOK, with_row, RowCount, MaxRows

\* A registered phase has a row.
LEMMA RowIsThere ==
  ASSUME TypeOK, NEW p \in Phase, NEW found \in BOOLEAN,
         found => RowCount(p) >= 1, rows' = with_row(rows, p, found)
  PROVE  RowCount(p)' >= 1
BY DEF TypeOK, with_row, RowCount, MaxRows

(***************************************************************************)
(* Type correctness of a step.                                             *)
(***************************************************************************)

\* Every handler starts by reading the session and changes nothing.
Loading(r) ==
  \/ LoadObserve(r)
  \/ \E p \in Phase : LoadApproveFromQa(r, p) \/ LoadApprove(r, p)
  \/ LoadReject(r) \/ LoadPlan(r) \/ LoadReview(r) \/ LoadDiff(r)
  \/ LoadFinalize(r) \/ LoadImplement(r) \/ LoadOpenPr(r) \/ LoadStatus(r)

\* Every early-return path of a handler is a read of the snapshot.
LEMMA LoadingIsALoad ==
  ASSUME TypeOK, NEW r \in Requests, Loading(r)
  PROVE  \E op \in Operations, at \in {"load", "agent", "lookup", "commit"},
            p \in Phase, found \in BOOLEAN : Load(r, op, at, p, found)
<1>1. /\ "qa" \in Phase /\ "plan" \in Phase /\ "review" \in Phase
      /\ "implement" \in Phase /\ "merge" \in Phase /\ current_phase \in Phase
  BY DEF TypeOK, Phase
<1>2. CASE \E p \in Phase : LoadApproveFromQa(r, p) \/ LoadApprove(r, p)
  BY <1>1, <1>2 DEF LoadApproveFromQa, LoadApprove, Operations
<1>3. CASE LoadObserve(r) \/ LoadReject(r) \/ LoadPlan(r) \/ LoadReview(r)
  BY <1>1, <1>3 DEF LoadObserve, LoadReject, LoadPlan, LoadReview, Operations
<1>4. CASE LoadDiff(r) \/ LoadFinalize(r) \/ LoadImplement(r) \/ LoadOpenPr(r)
  BY <1>1, <1>4 DEF LoadDiff, LoadFinalize, LoadImplement, LoadOpenPr, Operations
<1>5. CASE LoadStatus(r)
  BY <1>1, <1>5 DEF LoadStatus, Operations
<1>6. QED
  BY <1>2, <1>3, <1>4, <1>5 DEF Loading

\* Each handler's every step keeps the types.
LEMMA StepType ==
  ASSUME IInv, NEW r \in Requests, RequestStep(r)
  PROVE  TypeOK'
<1>0. TypeOK /\ Justified(req[r]) /\ req[r] \in Request
  BY DEF IInv, RequestsAreJustified, TypeOK
<1>1. CASE Loading(r)
  BY <1>0, <1>1, LoadingIsALoad, LoadType
<1>2. CASE Fail(r)
  BY <1>0, <1>2, RequestUpdates DEF Fail, TypeOK, db, history
<1>3. CASE Lookup(r)
  BY <1>0, <1>3, RequestUpdates DEF Lookup, TypeOK, Request, db, history
<1>16. CASE ViewPr(r)
  BY <1>0, <1>16 DEF ViewPr, TypeOK, Request, db, history
<1>4. CASE CommitObserve(r) \/ CommitFinalize(r)
  <2>1. rows' \in [RowPhases -> 0..MaxRows]
    BY <1>0, <1>4, RowTable DEF CommitObserve, CommitFinalize, TypeOK
  <2>2. QED
    BY <1>0, <1>4, <2>1, RequestUpdates
    DEF CommitObserve, CommitFinalize, advance_qa, TypeOK, Phase, history
<1>5. CASE CommitApproveFromQa(r)
  <2>1. rows' \in [RowPhases -> 0..MaxRows]
    BY <1>0, <1>5, RowTable DEF CommitApproveFromQa, TypeOK
  <2>2. "srs" \in Phase /\ next_phase("srs") \in Phase
    BY PhaseFunctions DEF Phase
  <2>3. QED
    BY <1>0, <1>5, <2>1, <2>2, RequestUpdates
    DEF CommitApproveFromQa, append_approval, TypeOK, history
<1>6. CASE CommitApprove(r)
  <2>1. rows' \in [RowPhases -> 0..MaxRows]
    BY <1>0, <1>6, RowTable DEF CommitApprove, TypeOK
  <2>2. req[r].phase \in Phase /\ next_phase(req[r].phase) \in Phase
    BY <1>0, PhaseFunctions DEF Request
  <2>3. QED
    BY <1>0, <1>6, <2>1, <2>2, RequestUpdates
    DEF CommitApprove, append_approval, TypeOK
<1>7. CASE CommitReject(r)
  <2>1. previous_phase(req[r].phase) \in Phase
    BY <1>0, PhaseFunctions DEF Request
  <2>2. QED
    BY <1>0, <1>7, <2>1, RequestUpdates DEF CommitReject, TypeOK, history
<1>8. CASE WriteArtifact(r)
  <2>1. artifact_for[req[r].phase] \in Files
    BY <1>0, <1>8 DEF WriteArtifact, At, Justified, artifact_for, Files
  <2>2. QED
    BY <1>0, <1>8, <2>1, RequestUpdates DEF WriteArtifact, TypeOK, db
<1>9. CASE CommitArtifact(r)
  BY <1>0, <1>9, RequestUpdates, RowTable DEF CommitArtifact, TypeOK, history
<1>10. CASE WriteSrs(r)
  BY <1>0, <1>10, RequestUpdates DEF WriteSrs, TypeOK, Files, db, history
<1>11. CASE LaunchImplement(r)
  BY <1>0, <1>11, RequestUpdates DEF LaunchImplement, TypeOK, db
<1>12. CASE CreatePr(r)
  BY <1>0, <1>12, RequestUpdates DEF CreatePr, TypeOK, db, history
<1>13. CASE CommitPr(r)
  <2>1. rows' \in [RowPhases -> 0..MaxRows]
    BY <1>0, <1>13, RowTable DEF CommitPr, TypeOK
  <2>2. pr_url' \in BOOLEAN /\ files' \subseteq Files
    BY <1>0, <1>13 DEF CommitPr, TypeOK, Files
  <2>3. req' \in [Requests -> Request]
    BY <1>0, <1>13, RequestUpdates DEF CommitPr
  <2>4. QED
    BY <1>0, <1>13, <2>1, <2>2, <2>3 DEF CommitPr, TypeOK, history
<1>14. CASE CommitStatus(r)
  BY <1>0, <1>14, RequestUpdates DEF CommitStatus, TypeOK, Phase, history
<1>15. QED
  BY <1>1, <1>2, <1>3, <1>4, <1>5, <1>6, <1>7, <1>8, <1>9, <1>10, <1>11, <1>12,
     <1>13, <1>14, <1>16
  DEF RequestStep, Loading

\* A step of one request withdraws nothing and touches no other request.
LEMMA StepGrows ==
  ASSUME IInv, NEW r \in Requests, RequestStep(r)
  PROVE  /\ Grows
         /\ \A s \in Requests \ {r} : req'[s] = req[s]
<1>0. TypeOK
  BY DEF IInv
<1>1. ASSUME UNCHANGED <<db, files, wasMerged>>
      PROVE  Grows
  BY <1>1 DEF Grows, db, RowCount
<1>2. CASE Loading(r)
  <2>1. PICK op \in Operations, at \in {"load", "agent", "lookup", "commit"},
             p \in Phase, found \in BOOLEAN : Load(r, op, at, p, found)
    BY <1>0, <1>2, LoadingIsALoad
  <2>2. QED
    BY <1>0, <1>1, <2>1 DEF Load, TypeOK, history
<1>3. CASE Fail(r) \/ Lookup(r) \/ ViewPr(r) \/ LaunchImplement(r) \/ CreatePr(r)
  BY <1>0, <1>1, <1>3
  DEF Fail, Lookup, ViewPr, LaunchImplement, CreatePr, Finish, GoTo, TypeOK, history
<1>4. CASE CommitObserve(r) \/ CommitFinalize(r)
  BY <1>0, <1>4, RowsGrow
  DEF CommitObserve, CommitFinalize, advance_qa, Finish, TypeOK, Grows, history
<1>5. CASE CommitApproveFromQa(r)
  BY <1>0, <1>5, RowsGrowTwice
  DEF CommitApproveFromQa, append_approval, Finish, TypeOK, Grows, history
<1>6. CASE CommitApprove(r)
  BY <1>0, <1>6, RowsGrow DEF CommitApprove, append_approval, Finish, TypeOK, Grows, history
<1>7. CASE CommitReject(r)
  BY <1>0, <1>7 DEF CommitReject, Finish, TypeOK, Grows, RowCount, history
<1>8. CASE WriteArtifact(r) \/ WriteSrs(r)
  BY <1>0, <1>8 DEF WriteArtifact, WriteSrs, GoTo, TypeOK, Grows, RowCount, db, history
<1>9. CASE CommitArtifact(r)
  BY <1>0, <1>9, RowsGrow DEF CommitArtifact, Finish, TypeOK, Grows, history
<1>10. CASE CommitPr(r)
  <2>1. \A q \in Phase : RowCount(q) >= 1 => RowCount(q)' >= 1
    BY <1>0, <1>10, RowsGrow DEF CommitPr, RowCount
  <2>2. QED
    BY <1>0, <1>10, <2>1 DEF CommitPr, Finish, TypeOK, Grows, history
<1>11. CASE CommitStatus(r)
  BY <1>0, <1>11 DEF CommitStatus, Finish, TypeOK, Grows, RowCount, history
<1>12. QED
  BY <1>2, <1>3, <1>4, <1>5, <1>6, <1>7, <1>8, <1>9, <1>10, <1>11
  DEF RequestStep, Loading

(***************************************************************************)
(* The three invariants and the requests' own facts, across a step.        *)
(***************************************************************************)

\* Steps that only read, or only launch, keep what depends on the record.
LEMMA QuietStep ==
  ASSUME IInv, UNCHANGED <<db, files, pr>>
  PROVE  PhaseIsEarned' /\ PullRequestIsEarned' /\ ApprovalHasArtifact'
BY DEF IInv, db, PhaseIsEarned, PullRequestIsEarned, ApprovalHasArtifact, Earned,
       check_can_enter, Has, RowCount

\* The actions that change nothing but what a request holds or an agent runs.
LEMMA QuietActions ==
  ASSUME IInv, NEW r \in Requests,
         Loading(r) \/ Fail(r) \/ Lookup(r) \/ ViewPr(r) \/ LaunchImplement(r)
  PROVE  UNCHANGED <<db, files, pr>>
<1>1. TypeOK
  BY DEF IInv
<1>2. CASE Loading(r)
  BY <1>1, <1>2, LoadingIsALoad DEF Load
<1>3. QED
  BY <1>2 DEF Fail, Lookup, ViewPr, LaunchImplement

\* No commit enters a phase ahead of its approvals.
LEMMA StepEarned ==
  ASSUME IInv, NEW r \in Requests, RequestStep(r)
  PROVE  PhaseIsEarned'
<1>0. /\ TypeOK /\ PhaseIsEarned /\ PullRequestIsEarned
      /\ Justified(req[r]) /\ req[r].phase \in Phase
  BY DEF IInv, RequestsAreJustified, TypeOK, Request
<1>1. approvals \subseteq approvals'
  BY StepGrows DEF Grows
<1>2. CASE UNCHANGED current_phase
  BY <1>0, <1>1, <1>2, EarnedIsMonotone DEF PhaseIsEarned
<1>3. CASE Loading(r) \/ Fail(r) \/ Lookup(r) \/ ViewPr(r) \/ LaunchImplement(r)
  BY <1>3, QuietActions, QuietStep
<1>4. CASE CommitObserve(r) \/ CommitFinalize(r)
  BY <1>4, SrsIsUngated
  DEF CommitObserve, CommitFinalize, advance_qa, PhaseIsEarned, Earned
<1>5. CASE CommitApproveFromQa(r)
  BY <1>5, NextIsEarned, SrsIsUngated
  DEF CommitApproveFromQa, append_approval, PhaseIsEarned, Earned, Phase
<1>6. CASE CommitApprove(r)
  BY <1>0, <1>6, NextIsEarned
  DEF CommitApprove, At, append_approval, Justified, PhaseIsEarned, Earned
<1>7. CASE CommitReject(r)
  BY <1>0, <1>7, PreviousIsEarned DEF CommitReject, At, Justified, PhaseIsEarned
<1>8. CASE CommitStatus(r)
  <2>1. check_can_enter("merge", approvals)
    BY <1>0, <1>8 DEF CommitStatus, At, Justified
  <2>2. CASE current_phase' = "completed"
    BY <1>1, <2>1, <2>2, EarnedIsMonotone DEF PhaseIsEarned, Earned
  <2>3. QED
    BY <1>2, <1>8, <2>2 DEF CommitStatus
<1>9. CASE \/ WriteArtifact(r) \/ CommitArtifact(r) \/ WriteSrs(r)
           \/ CreatePr(r) \/ CommitPr(r)
  BY <1>2, <1>9 DEF WriteArtifact, CommitArtifact, WriteSrs, CreatePr, CommitPr, db
<1>10. QED
  BY <1>3, <1>4, <1>5, <1>6, <1>7, <1>8, <1>9 DEF RequestStep, Loading

\* Only GitHub merges, and no request forgets that it did.
LEMMA StepMerge ==
  ASSUME IInv, NEW r \in Requests, RequestStep(r)
  PROVE  MergeIsRemembered'
<1>1. TypeOK /\ MergeIsRemembered
  BY DEF IInv
<1>2. CASE Loading(r)
  BY <1>1, <1>2, LoadingIsALoad DEF Load, MergeIsRemembered, history
<1>3. QED
  BY <1>1, <1>2
  DEF RequestStep, Loading, MergeIsRemembered, history, Fail, Lookup, CommitObserve,
      CommitApproveFromQa, CommitApprove, CommitReject, WriteArtifact, CommitArtifact,
      WriteSrs, CommitFinalize, LaunchImplement, CreatePr, CommitPr, ViewPr, CommitStatus

\* Only open-pr and merge/status, each behind its gate, touch the pull request.
LEMMA StepPullRequest ==
  ASSUME IInv, NEW r \in Requests, RequestStep(r)
  PROVE  PullRequestIsEarned'
<1>0. /\ TypeOK /\ PullRequestIsEarned
      /\ Justified(req[r]) /\ req[r].phase \in Phase
  BY DEF IInv, RequestsAreJustified, TypeOK, Request
<1>1. check_can_enter("merge", approvals) => check_can_enter("merge", approvals')
  BY StepGrows, EarnedIsMonotone DEF Grows
<1>2. SUFFICES ASSUME pr' # "none" \/ pr_url' \/ "pr.json" \in files',
                      ~ check_can_enter("merge", approvals)
               PROVE  FALSE
  BY <1>1 DEF PullRequestIsEarned, Has
<1>3. pr = "none" /\ ~pr_url /\ "pr.json" \notin files
  BY <1>0, <1>2 DEF PullRequestIsEarned, Has
<1>4. CASE Loading(r) \/ Fail(r) \/ Lookup(r) \/ ViewPr(r) \/ LaunchImplement(r)
  BY <1>2, <1>3, <1>4, QuietActions DEF db
<1>5. CASE \/ CommitObserve(r) \/ CommitFinalize(r) \/ CommitApproveFromQa(r)
           \/ CommitApprove(r) \/ CommitReject(r) \/ CommitArtifact(r)
  BY <1>2, <1>3, <1>5
  DEF CommitObserve, CommitFinalize, CommitApproveFromQa, CommitApprove,
      CommitReject, CommitArtifact, advance_qa, append_approval
<1>6. CASE WriteArtifact(r)
  <2>1. artifact_for[req[r].phase] # "pr.json"
    BY <1>0, <1>6 DEF WriteArtifact, At, Justified, artifact_for
  <2>2. QED
    BY <1>2, <1>3, <1>6, <2>1 DEF WriteArtifact, db
<1>7. CASE WriteSrs(r)
  BY <1>2, <1>3, <1>7 DEF WriteSrs, db
<1>8. CASE CreatePr(r) \/ CommitPr(r) \/ CommitStatus(r)
  BY <1>0, <1>2, <1>8 DEF CreatePr, CommitPr, CommitStatus, At, Justified
<1>9. QED
  BY <1>4, <1>5, <1>6, <1>7, <1>8 DEF RequestStep, Loading

\* An approval is committed with the row, and after the file, it refers to.
LEMMA StepArtifact ==
  ASSUME IInv, NEW r \in Requests, RequestStep(r)
  PROVE  ApprovalHasArtifact'
<1>0. /\ TypeOK /\ ApprovalHasArtifact
      /\ Justified(req[r]) /\ req[r] \in Request
  BY DEF IInv, RequestsAreJustified, TypeOK
<1>1. Grows
  BY StepGrows
<1>2. ASSUME NEW p \in approvals
      PROVE  Has(artifact_for[p])' /\ RowCount(p)' >= 1
  BY <1>0, <1>1, <1>2 DEF ApprovalHasArtifact, Grows, Has, TypeOK
<1>3. CASE CommitApprove(r)
  <2>1. PICK p \in Phase, found \in BOOLEAN :
             /\ found => RowCount(p) >= 1
             /\ Has(artifact_for[p])
             /\ rows' = with_row(rows, p, found)
             /\ approvals' = approvals \cup {p}
             /\ files' = files
    BY <1>0, <1>3 DEF CommitApprove, append_approval, At, Justified, Request
  <2>2. RowCount(p)' >= 1
    BY <1>0, <2>1, RowIsThere
  <2>3. Has(artifact_for[p])'
    BY <2>1 DEF Has
  <2>4. QED
    BY <1>2, <2>1, <2>2, <2>3 DEF ApprovalHasArtifact
<1>4. CASE CommitApproveFromQa(r)
  <2>1. /\ rows' = with_row(with_row(rows, "qa", req[r].found), "srs", RowCount("srs") = 1)
        /\ RowCount("srs") <= 1
        /\ approvals' = approvals \cup {"srs"}
        /\ files' = files
        /\ Has("srs.md")
    BY <1>0, <1>4 DEF CommitApproveFromQa, append_approval, At, Justified
  <2>2. (RowCount("srs"))' >= 1
    BY <1>0, <2>1 DEF TypeOK, with_row, RowCount, MaxRows
  <2>3. Has(artifact_for["srs"])'
    BY <2>1 DEF Has, artifact_for
  <2>4. QED
    BY <1>2, <2>1, <2>2, <2>3 DEF ApprovalHasArtifact
<1>5. CASE UNCHANGED approvals
  BY <1>2, <1>5 DEF ApprovalHasArtifact
<1>6. CASE Loading(r) \/ Fail(r) \/ Lookup(r) \/ ViewPr(r) \/ LaunchImplement(r)
  BY <1>6, QuietActions, QuietStep
<1>7. QED
  BY <1>3, <1>4, <1>5, <1>6
  DEF RequestStep, Loading, CommitObserve, CommitFinalize, advance_qa, CommitReject,
      CommitArtifact, WriteArtifact, WriteSrs, CreatePr, CommitPr, CommitStatus, db

\* A request that did not move still relies on nothing that was withdrawn.
LEMMA JustifiedIsStable ==
  ASSUME TypeOK, NEW s \in Requests, Justified(req[s]), Grows, req'[s] = req[s]
  PROVE  Justified(req[s])'
<1>1. /\ \A p : check_can_enter(p, approvals) => check_can_enter(p, approvals')
      /\ \A p : Earned(p, approvals) => Earned(p, approvals')
  BY EarnedIsMonotone DEF Grows
<1>2. \A name : Has(name) => Has(name)'
  BY DEF Grows, Has
<1>3. RowCount(req[s].phase) >= 1 => RowCount(req[s].phase)' >= 1
  BY DEF TypeOK, Request, Grows
<1>4. wasMerged => wasMerged'
  BY DEF Grows
<1>5. QED
  BY <1>1, <1>2, <1>3, <1>4 DEF Justified

\* A request that has answered relies on nothing.
LEMMA IdleIsJustified ==
  ASSUME NEW r \in Requests, TypeOK, Finish(r)
  PROVE  Justified(req[r])'
BY DEF TypeOK, Finish, Justified, Idle

\* A handler's early returns establish what its commit relies on.
LEMMA LoadingIsJustified ==
  ASSUME IInv, NEW r \in Requests, Loading(r)
  PROVE  Justified(req[r])'
<1>0. TypeOK /\ PhaseIsEarned /\ PullRequestIsEarned
  BY DEF IInv
<1>1. UNCHANGED <<approvals, files, rows>>
  BY <1>0, LoadingIsALoad DEF Load, db
<1>2. CASE LoadObserve(r)
  BY <1>0, <1>2 DEF LoadObserve, Load, Justified, TypeOK
<1>3. ASSUME NEW p \in Phase, LoadApproveFromQa(r, p)
      PROVE  Justified(req[r])'
  <2>1. req'[r].op \in {"advance", "observe"} /\ ~req'[r].found /\ Has("srs.md")
    BY <1>0, <1>3 DEF LoadApproveFromQa, qa_ready, Load, TypeOK
  <2>2. QED
    BY <1>1, <2>1 DEF Justified, Has
<1>4. ASSUME NEW p \in Phase, LoadApprove(r, p)
      PROVE  Justified(req[r])'
  BY <1>0, <1>1, <1>4
  DEF LoadApprove, check_can_approve, check_can_enter, Has, Load, Justified, TypeOK
<1>5. CASE LoadReject(r)
  BY <1>0, <1>1, <1>5
  DEF LoadReject, PhaseIsEarned, Earned, check_can_enter, Load, Justified, TypeOK
<1>6. CASE LoadPlan(r) \/ LoadReview(r) \/ LoadDiff(r)
  BY <1>0, <1>6 DEF LoadPlan, LoadReview, LoadDiff, Load, Justified, TypeOK
<1>7. CASE LoadFinalize(r) \/ LoadImplement(r)
  BY <1>0, <1>7 DEF LoadFinalize, LoadImplement, Load, Justified, TypeOK
<1>8. CASE LoadOpenPr(r)
  BY <1>0, <1>1, <1>8 DEF LoadOpenPr, check_can_enter, Load, Justified, TypeOK
<1>9. CASE LoadStatus(r)
  <2>1. check_can_enter("merge", approvals')
    BY <1>0, <1>1, <1>9 DEF LoadStatus, PullRequestIsEarned
  <2>2. req'[r].op = "status" /\ req'[r].at = "agent"
    BY <1>0, <1>9 DEF LoadStatus, Load, TypeOK
  <2>3. QED
    BY <2>1, <2>2 DEF Justified
<1>10. QED
  BY <1>2, <1>3, <1>4, <1>5, <1>6, <1>7, <1>8, <1>9 DEF Loading

\* The requester's own step leaves it relying on what still holds.
LEMMA StepJustified ==
  ASSUME IInv, NEW r \in Requests, RequestStep(r)
  PROVE  RequestsAreJustified'
<1>0. /\ TypeOK /\ \A s \in Requests : Justified(req[s]) /\ req[s] \in Request
  BY DEF IInv, RequestsAreJustified, TypeOK
<1>1. Grows
  BY StepGrows
<1>2. ASSUME NEW s \in Requests, s # r
      PROVE  Justified(req[s])'
  BY <1>0, <1>1, <1>2, StepGrows, JustifiedIsStable
<1>3. Justified(req[r])'
  <2>1. CASE Loading(r)
    BY <2>1, LoadingIsJustified
  <2>2. CASE Finish(r)
    BY <1>0, <2>2, IdleIsJustified
  <2>3. CASE Lookup(r)
    BY <1>0, <2>2, <2>3
    DEF Lookup, TypeOK, Request, Justified, db, Has, RowCount, Earned, check_can_enter,
        history
  <2>7. CASE ViewPr(r)
    <3>1. /\ req'[r] = [req[r] EXCEPT !.at = "commit", !.found = @ \/ ~is_merged(pr)]
          /\ UNCHANGED <<db, wasMerged>>
      BY <1>0, <2>7 DEF ViewPr, TypeOK, history
    <3>2. ~req'[r].found => wasMerged'
      BY <1>0, <3>1 DEF IInv, MergeIsRemembered, is_merged, Request
    <3>3. req'[r].op = "status" /\ check_can_enter("merge", approvals')
      <4>1. req[r].op = "status" /\ check_can_enter("merge", approvals)
        BY <1>0, <2>7 DEF ViewPr, At, Justified
      <4>2. req'[r].op = req[r].op /\ approvals' = approvals
        BY <1>0, <3>1 DEF Request, db
      <4>3. QED
        BY <4>1, <4>2 DEF check_can_enter
    <3>4. req'[r].at # "lookup"
      BY <1>0, <3>1 DEF Request
    <3>5. QED
      BY <3>2, <3>3, <3>4 DEF Justified
  <2>4. ASSUME WriteArtifact(r) \/ WriteSrs(r) \/ CreatePr(r)
        PROVE  /\ req'[r].op = req[r].op /\ req'[r].phase = req[r].phase
               /\ req'[r].found = req[r].found
    BY <1>0, <2>4 DEF WriteArtifact, WriteSrs, CreatePr, GoTo, TypeOK, Request
  <2>5. CASE WriteArtifact(r) \/ WriteSrs(r) \/ CreatePr(r)
    BY <1>0, <2>4, <2>5
    DEF Justified, At, WriteArtifact, WriteSrs, CreatePr, db, RowCount, check_can_enter
  <2>6. QED
    BY <2>1, <2>2, <2>3, <2>5, <2>7
    DEF RequestStep, Loading, Fail, CommitObserve, CommitApproveFromQa, CommitApprove,
        CommitReject, CommitArtifact, CommitFinalize, LaunchImplement, CommitPr,
        CommitStatus
<1>4. QED
  BY <1>2, <1>3 DEF RequestsAreJustified

(***************************************************************************)
(* The theorems.                                                           *)
(***************************************************************************)

\* create_session establishes the invariant.
LEMMA InitIInv == ASSUME SessionInit PROVE IInv
<1>1. TypeOK
  <2>1. req \in [Requests -> Request]
    BY IdleType DEF SessionInit
  <2>2. rows \in [RowPhases -> 0..MaxRows]
    BY DEF SessionInit, MaxRows
  <2>3. QED
    BY <2>1, <2>2 DEF SessionInit, Init, TypeOK, Phase
<1>2. PhaseIsEarned /\ PullRequestIsEarned /\ ApprovalHasArtifact /\ MergeIsRemembered
  BY SrsIsUngated
  DEF SessionInit, MergeIsRemembered, Init, PhaseIsEarned, Earned, PullRequestIsEarned, Has,
      ApprovalHasArtifact
<1>3. RequestsAreJustified
  BY DEF SessionInit, RequestsAreJustified, Justified, Idle
<1>4. QED
  BY <1>1, <1>2, <1>3 DEF IInv

\* A merge or a close on GitHub, outside this program, keeps the invariant.
LEMMA GitHubStep == ASSUME IInv, GitHub PROVE IInv'
<1>1. TypeOK' /\ MergeIsRemembered'
  BY DEF IInv, GitHub, TypeOK, MergeIsRemembered, db
<1>2. PhaseIsEarned' /\ PullRequestIsEarned' /\ ApprovalHasArtifact'
  BY DEF IInv, GitHub, db, PhaseIsEarned, PullRequestIsEarned, ApprovalHasArtifact,
         Earned, check_can_enter, Has, RowCount
<1>3. RequestsAreJustified'
  BY DEF IInv, GitHub, db, RequestsAreJustified, Justified, Earned, check_can_enter,
         Has, RowCount
<1>4. QED
  BY <1>1, <1>2, <1>3 DEF IInv

\* Doing nothing keeps the invariant.
LEMMA StutterStep == ASSUME IInv, UNCHANGED vars PROVE IInv'
BY DEF IInv, vars, db, history, TypeOK, PhaseIsEarned, PullRequestIsEarned,
       ApprovalHasArtifact, RequestsAreJustified, Justified, Earned, check_can_enter,
       Has, RowCount, MergeIsRemembered

\* The invariant is inductive: kept by every request's every step, by GitHub
\* and by doing nothing.
THEOREM Inductive == SessionSpec => []IInv
<1>1. SessionInit => IInv
  BY InitIInv
<1>2. IInv /\ [SessionNext]_vars => IInv'
  <2>1. ASSUME IInv, NEW r \in Requests, RequestStep(r)
        PROVE  IInv'
    BY <2>1, StepType, StepEarned, StepPullRequest, StepArtifact, StepJustified,
       StepMerge
    DEF IInv
  <2>2. QED
    BY <2>1, GitHubStep, StutterStep DEF SessionNext
<1>3. QED
  BY <1>1, <1>2, PTL DEF SessionSpec

\* The state of a session and of every request stays within its types.
THEOREM TypeCorrect == SessionSpec => []TypeOK
BY Inductive, PTL DEF IInv

\* phases.py's gate, for any number of concurrent requests: the session is
\* never in a phase whose earlier phases were not all approved.
THEOREM GateHolds == SessionSpec => []PhaseIsEarned
BY Inductive, PTL DEF IInv

\* No pull request precedes the approval of the review.
THEOREM PullRequestGateHolds == SessionSpec => []PullRequestIsEarned
BY Inductive, PTL DEF IInv

\* record_approval never refers to an artifact that is not there.
THEOREM ApprovalsHaveArtifacts == SessionSpec => []ApprovalHasArtifact
BY Inductive, PTL DEF IInv

\* Every prerequisite a handler checked still holds when it commits.
THEOREM ChecksOutliveTheirSnapshot == SessionSpec => []RequestsAreJustified
BY Inductive, PTL DEF IInv

\* A session is completed by the approval of its merge phase or by a merge that
\* did happen, however old gh's answer is, and is stamped in the same commit.
THEOREM CompletionHolds == SessionSpec => CompletionIsJustified
<1> DEFINE Completes == current_phase' = "completed" /\ current_phase # "completed"
<1> DEFINE Reason == ("merge" \in approvals' \/ wasMerged) /\ completed_at'
<1>1. ASSUME IInv, NEW r \in Requests, RequestStep(r), Completes
      PROVE  Reason
  <2>0. TypeOK /\ req[r] \in Request /\ Justified(req[r])
    BY <1>1 DEF IInv, TypeOK, RequestsAreJustified
  <2>1. CASE Loading(r) \/ Fail(r) \/ Lookup(r) \/ ViewPr(r) \/ LaunchImplement(r)
    BY <1>1, <2>1, QuietActions DEF db
  <2>2. CASE CommitObserve(r) \/ CommitFinalize(r)
    BY <1>1, <2>2 DEF CommitObserve, CommitFinalize, advance_qa
  <2>3. CASE CommitApproveFromQa(r)
    BY <1>1, <2>3
    DEF CommitApproveFromQa, append_approval, next_phase, Index, PHASE_ORDER
  <2>4. CASE CommitApprove(r)
    <3>1. PICK p \in Phase \ {"completed"} :
               /\ current_phase' = next_phase(p)
               /\ approvals' = approvals \cup {p}
               /\ completed_at' = (completed_at \/ next_phase(p) = "completed")
      BY <2>0, <2>4 DEF CommitApprove, append_approval, At, Justified, Request
    <3>2. p = "merge"
      BY <1>1, <3>1 DEF next_phase, Index, PHASE_ORDER, Phase
    <3>3. QED
      BY <1>1, <3>1, <3>2
  <2>5. CASE CommitReject(r)
    <3>1. previous_phase(req[r].phase) # "completed"
      BY <2>0 DEF Request, Phase, previous_phase, Index, PHASE_ORDER
    <3>2. QED
      BY <1>1, <2>5, <3>1 DEF CommitReject
  <2>6. CASE \/ WriteArtifact(r) \/ CommitArtifact(r) \/ WriteSrs(r)
             \/ CreatePr(r) \/ CommitPr(r)
    BY <1>1, <2>6 DEF WriteArtifact, CommitArtifact, WriteSrs, CreatePr, CommitPr, db
  <2>7. CASE CommitStatus(r)
    BY <1>1, <2>0, <2>7 DEF CommitStatus, At, Justified
  <2>8. QED
    BY <1>1, <2>1, <2>2, <2>3, <2>4, <2>5, <2>6, <2>7 DEF RequestStep, Loading
<1>2. IInv /\ [SessionNext]_vars => [Completes => Reason]_vars
  BY <1>1 DEF SessionNext, GitHub, db
<1>3. QED
  BY <1>2, Inductive, PTL DEF SessionSpec, CompletionIsJustified

\* The served session implements the promise of module PhaseGate: whatever
\* stale rows its requests act on, its phase and approvals move as if each
\* had been served alone.
THEOREM ImplementsGate == SessionSpec => GatePromise
<1>1. SessionInit => Init
  BY DEF SessionInit
<1>2. ASSUME IInv, NEW r \in Requests, RequestStep(r)
      PROVE  [Next]_gateVars
  <2>0. TypeOK /\ req[r] \in Request /\ Justified(req[r])
    BY <1>2 DEF IInv, TypeOK, RequestsAreJustified
  <2>1. CASE CommitApprove(r)
    <3>1. PICK p \in Phase \ {"completed"} : RecordApproval(p)
      BY <2>0, <2>1
      DEF CommitApprove, append_approval, At, Justified, Request, RecordApproval
    <3>2. QED
      BY <3>1 DEF Next
  <2>2. CASE CommitApproveFromQa(r)
    <3>1. RecordApproval("srs") /\ "srs" \in Phase
      BY <2>2, SrsIsUngated
      DEF CommitApproveFromQa, append_approval, RecordApproval, Phase
    <3>2. QED
      BY <3>1 DEF Next
  <2>3. CASE UNCHANGED approvals
    <3>1. Earned(current_phase', approvals) /\ current_phase' \in Phase
      BY <1>2, <2>3, StepEarned, StepType DEF PhaseIsEarned, TypeOK
    <3>2. EnterEarned(current_phase')
      BY <2>3, <3>1 DEF EnterEarned
    <3>3. QED
      BY <3>1, <3>2 DEF Next
  <2>4. CASE Loading(r) \/ Fail(r) \/ Lookup(r) \/ ViewPr(r) \/ LaunchImplement(r)
    BY <1>2, <2>4, <2>3, QuietActions DEF db
  <2>5. QED
    BY <1>2, <2>1, <2>2, <2>3, <2>4
    DEF RequestStep, Loading, CommitObserve, CommitFinalize, advance_qa, CommitReject,
        CommitArtifact, WriteArtifact, WriteSrs, CreatePr, CommitPr, CommitStatus, db
<1>3. IInv /\ [SessionNext]_vars => [Next]_gateVars
  BY <1>2 DEF SessionNext, GitHub, vars, db, gateVars
<1>4. QED
  BY <1>1, <1>3, Inductive, PTL DEF SessionSpec, Spec, GatePromise
=============================================================================
