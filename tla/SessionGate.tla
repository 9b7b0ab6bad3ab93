----------------------------- MODULE SessionGate -----------------------------
(***************************************************************************)
(* One development session served by concurrent HTTP requests: the phase   *)
(* machine, the approvals, the artifact files and rows behind them, the    *)
(* pull request.  Sources: phases.py, services/workflow.py and the         *)
(* handlers in api/.                                                       *)
(*                                                                         *)
(* Every request works on its own AsyncSession.  It reads the session row  *)
(* (approvals included) once, at its start, in autocommit mode; it awaits  *)
(* git, a harness or gh; and it takes SQLite's single write lock with its  *)
(* first flush, holding it until the commit.  So a request is: one Load,   *)
(* the reads and file writes it does without the lock, and one atomic      *)
(* commit of the columns it assigned, whatever the row says by then.       *)
(***************************************************************************)
EXTENDS FiniteSets, PhaseGate

CONSTANTS Requests,   \* concurrent requests
          RowPhases   \* the phases whose artifact rows are counted

ASSUME RowPhasesAssumption == RowPhases \subseteq Phase \ {"completed"}

VARIABLES
  completed_at,       \* the column is set
  pr_url,             \* the column is set
  rows,               \* artifact rows per phase, capped at MaxRows
  files,              \* artifact files in the worktree's .workflow directory
  pr,                 \* the branch's pull request, as GitHub has it
  req,                \* what each request has read so far
  planApproved,       \* history: the plan.md on disk is the text last approved
  ranUnapproved,      \* history: an implement run started on another text
  wasMerged           \* history: a pull request of the branch was merged

db == <<current_phase, approvals, completed_at, pr_url, rows>>
history == <<planApproved, ranUnapproved, wasMerged>>
vars == <<db, files, pr, req, history>>

(***************************************************************************)
(* Data.                                                                   *)
(***************************************************************************)

\* Two rows are already one too many (scalar_one_or_none raises): count no further.
MaxRows == 2

\* A review harness that names its file otherwise.
artifact_for_misnamed == [qa |-> "srs.md", srs |-> "srs.md", plan |-> "plan.md",
                          implement |-> "diff.patch", review |-> "findings.md",
                          merge |-> "pr.json"]

artifact_for == [qa |-> "srs.md", srs |-> "srs.md", plan |-> "plan.md",
                 implement |-> "diff.patch", review |-> "review.md",
                 merge |-> "pr.json"]

Files == {"srs.md", "plan.md", "diff.patch", "review.md", "pr.json"}

Operations == {"none", "observe", "advance", "approve", "reject", "plan", "review",
               "diff", "implement", "open-pr", "status", "finalize"}

\* op: the handler; at: its next step; phase: the phase it read or was given;
\* found: an artifact row was there; for status, nothing is left to complete.
Request == [op : Operations, at : {"load", "agent", "lookup", "commit"},
            phase : Phase, found : BOOLEAN]

Idle == [op |-> "none", at |-> "load", phase |-> "qa", found |-> FALSE]

Has(name) == name \in files

(***************************************************************************)
(* record_artifact: SELECT the row, INSERT one if there was none.          *)
(***************************************************************************)

RowCount(p) == IF p \in RowPhases THEN rows[p] ELSE 1

\* A registration that forgets its row.
with_row_forgotten(table, p, found) == table

with_row(table, p, found) ==
  IF p \in RowPhases /\ ~found /\ table[p] < MaxRows
  THEN [table EXCEPT ![p] = @ + 1]
  ELSE table

(***************************************************************************)
(* Requests.                                                               *)
(***************************************************************************)

Load(r, op, at, p, found) ==
  /\ req[r] = Idle
  /\ req' = [req EXCEPT ![r] = [op |-> op, at |-> at, phase |-> p, found |-> found]]
  /\ UNCHANGED <<db, files, pr, history>>

At(r, op, at) == req[r].op = op /\ req[r].at = at

GoTo(r, at) == req' = [req EXCEPT ![r].at = at]

Finish(r) == req' = [req EXCEPT ![r] = Idle]

\* An exception, a timeout on the write lock, a client that went away, or the
\* death of the server: the transaction is rolled back, files stay.
Fail(r) ==
  /\ req[r] # Idle
  /\ Finish(r)
  /\ UNCHANGED <<db, files, pr, history>>

\* SELECT of the artifact row outside the write lock.
Lookup(r) ==
  LET p == req[r].phase IN
  /\ req[r].at = "lookup"
  /\ IF RowCount(p) > 1
     THEN Finish(r)    \* MultipleResultsFound, now and ever after
     ELSE req' = [req EXCEPT ![r].at = "commit", ![r].found = (RowCount(p) = 1)]
  /\ UNCHANGED <<db, files, pr, history>>

(***************************************************************************)
(* GET /sessions/{id} and the session page: advance_qa_if_srs_ready.       *)
(***************************************************************************)

qa_ready == current_phase = "qa" /\ Has("srs.md")

LoadObserve(r) == qa_ready /\ Load(r, "observe", "lookup", "qa", FALSE)

advance_qa ==
  /\ current_phase' = "srs"
  /\ UNCHANGED <<approvals, completed_at, pr_url>>

CommitObserve(r) ==
  /\ At(r, "observe", "commit")
  /\ advance_qa
  /\ rows' = with_row(rows, "qa", req[r].found)
  /\ Finish(r)
  /\ UNCHANGED <<files, pr, history>>

(***************************************************************************)
(* POST /sessions/{id}/approve: record_approval.                           *)
(***************************************************************************)

\* The row read says qa and srs.md exists: the request advances the session
\* first.  An approval of srs goes on; any other phase is refused, and the
\* refusal is a response, so the advance commits (the same as an observation).
LoadApproveFromQa(r, p) ==
  /\ qa_ready
  /\ Load(r, IF p = "srs" THEN "advance" ELSE "observe", "lookup", "qa", FALSE)

\* An approval that trusts the caller.
LoadApprove_unchecked(r, p) ==
  /\ ~qa_ready
  /\ p \in DOMAIN artifact_for
  /\ Has(artifact_for[p])
  /\ Load(r, "approve", "lookup", p, FALSE)

LoadApprove(r, p) ==
  /\ ~qa_ready
  /\ check_can_approve(current_phase, p, approvals)
  /\ p \in DOMAIN artifact_for
  /\ Has(artifact_for[p])
  /\ Load(r, "approve", "lookup", p, FALSE)

\* An approval that leaves the session where it is.
append_approval_in_place(p) ==
  /\ approvals' = approvals \cup {p}
  /\ current_phase' = p
  /\ completed_at' = (completed_at \/ next_phase(p) = "completed")
  /\ UNCHANGED <<pr_url>>

append_approval(p) ==
  /\ approvals' = approvals \cup {p}
  /\ current_phase' = next_phase(p)
  /\ completed_at' = (completed_at \/ next_phase(p) = "completed")
  /\ UNCHANGED <<pr_url>>

\* The advance's flush took the lock, so the srs row is looked up under it.
CommitApproveFromQa(r) ==
  /\ At(r, "advance", "commit")
  /\ RowCount("srs") <= 1
  /\ append_approval("srs")
  /\ rows' = with_row(with_row(rows, "qa", req[r].found), "srs", RowCount("srs") = 1)
  /\ Finish(r)
  /\ UNCHANGED <<files, pr, history>>

CommitApprove(r) ==
  LET p == req[r].phase IN
  /\ At(r, "approve", "commit")
  /\ append_approval(p)
  /\ rows' = with_row(rows, p, req[r].found)
  /\ planApproved' = (planApproved \/ p = "plan")
  /\ Finish(r)
  /\ UNCHANGED <<files, pr, ranUnapproved, wasMerged>>

(***************************************************************************)
(* POST /sessions/{id}/reject: reject_current.                             *)
(***************************************************************************)

\* Rejecting in qa assigns the value it read: no UPDATE is issued.
LoadReject(r) ==
  /\ current_phase # "qa"
  /\ Load(r, "reject", "commit", current_phase, FALSE)

\* A rejection that also withdraws the approval it sends the session back to.
CommitReject_withdraws(r) ==
  LET previous == previous_phase(req[r].phase) IN
  /\ At(r, "reject", "commit")
  /\ current_phase' = previous
  /\ approvals' = approvals \ {previous}
  /\ Finish(r)
  /\ UNCHANGED <<completed_at, pr_url, rows, files, pr, history>>

CommitReject(r) ==
  /\ At(r, "reject", "commit")
  /\ current_phase' = previous_phase(req[r].phase)
  /\ Finish(r)
  /\ UNCHANGED <<approvals, completed_at, pr_url, rows,
                 files, pr, history>>

(***************************************************************************)
(* plan/run, review/run and GET diff: a file written after an await, then  *)
(* its row.                                                                *)
(***************************************************************************)

LoadPlan(r) ==
  /\ check_can_enter("plan", approvals)
  /\ Has("srs.md")
  /\ Load(r, "plan", "agent", "plan", FALSE)

LoadReview(r) ==
  /\ check_can_enter("review", approvals)
  /\ Has("srs.md") /\ Has("plan.md")
  /\ Load(r, "review", "agent", "review", FALSE)

\* No gate: the diff can be asked for in any phase.
LoadDiff(r) == Load(r, "diff", "agent", "implement", FALSE)

WriteArtifact(r) ==
  /\ \E op \in {"plan", "review", "diff"} : At(r, op, "agent")
  /\ files' = files \cup {artifact_for[req[r].phase]}
  /\ planApproved' = (planApproved /\ req[r].op # "plan")
  /\ GoTo(r, "lookup")
  /\ UNCHANGED <<db, pr, ranUnapproved, wasMerged>>

CommitArtifact(r) ==
  /\ \E op \in {"plan", "review", "diff"} : At(r, op, "commit")
  /\ rows' = with_row(rows, req[r].phase, req[r].found)
  /\ Finish(r)
  /\ UNCHANGED <<current_phase, approvals, completed_at, pr_url,
                 files, pr, history>>

(***************************************************************************)
(* The QA loop's end: srs.md is written, then the row and the phase under  *)
(* the lock its transcript turn took.                                      *)
(***************************************************************************)

LoadFinalize(r) ==
  /\ current_phase = "qa"
  /\ Load(r, "finalize", "agent", "qa", FALSE)

WriteSrs(r) ==
  /\ At(r, "finalize", "agent")
  /\ files' = files \cup {"srs.md"}
  /\ GoTo(r, "commit")
  /\ UNCHANGED <<db, pr, history>>

CommitFinalize(r) ==
  /\ At(r, "finalize", "commit")
  /\ RowCount("qa") <= 1
  /\ advance_qa
  /\ rows' = with_row(rows, "qa", RowCount("qa") = 1)
  /\ Finish(r)
  /\ UNCHANGED <<files, pr, history>>

(***************************************************************************)
(* POST implement/run.  The branch is created and its name committed; then *)
(* the supervisor starts an agent on whatever plan.md is there.            *)
(***************************************************************************)

LoadImplement(r) ==
  /\ check_can_enter("implement", approvals)
  /\ Has("plan.md")
  /\ Load(r, "implement", "agent", "implement", FALSE)

LaunchImplement(r) ==
  /\ At(r, "implement", "agent")
  /\ ranUnapproved' = (ranUnapproved \/ ~planApproved)
  /\ Finish(r)
  /\ UNCHANGED <<db, files, pr, planApproved, wasMerged>>

(***************************************************************************)
(* POST merge/open-pr, and the pull request on GitHub.                     *)
(***************************************************************************)

\* An open-pr without its gate.
LoadOpenPr_ungated(r) == Load(r, "open-pr", "agent", "merge", FALSE)

LoadOpenPr(r) ==
  /\ check_can_enter("merge", approvals)
  /\ Load(r, "open-pr", "agent", "merge", FALSE)

\* push, then gh pr create; it fails while the branch has an open request.
CreatePr(r) ==
  /\ At(r, "open-pr", "agent")
  /\ pr # "open"
  /\ pr' = "open"
  /\ GoTo(r, "commit")
  /\ UNCHANGED <<db, files, history>>

\* The flush of pr_url takes the lock before pr.json and its row.  What fails
\* after the file was written (MultipleResultsFound if there are two rows, the
\* commit, the server) rolls the columns and the row back and leaves the file.
CommitPr(r) ==
  /\ At(r, "open-pr", "commit")
  /\ files' = files \cup {"pr.json"}
  /\ \/ UNCHANGED <<pr_url, rows>>
     \/ /\ RowCount("merge") <= 1
        /\ pr_url' = TRUE
        /\ rows' = with_row(rows, "merge", RowCount("merge") = 1)
  /\ Finish(r)
  /\ UNCHANGED <<current_phase, approvals, completed_at, pr, history>>

\* External: a maintainer merges, closes or reopens the request.
GitHub ==
  /\ \/ pr = "open" /\ pr' \in {"merged", "closed"}
     \/ pr = "closed" /\ pr' = "open"
  /\ wasMerged' = (wasMerged \/ pr' = "merged")
  /\ UNCHANGED <<db, files, req, planApproved, ranUnapproved>>

(***************************************************************************)
(* GET merge/status and the poller's visit to one session: _on_merged.     *)
(***************************************************************************)

\* found: the row read is completed, or claimed by the write-back (module
\* WriteBack owns that column; either value may be read here).
LoadStatus(r) ==
  /\ pr # "none"
  /\ \E claimed \in BOOLEAN :
       Load(r, "status", "agent", "merge", claimed \/ current_phase = "completed")

\* A poller that takes any answer of gh for a merge.
is_merged_any_state(state) == state # "none"

is_merged(state) == state = "merged"

\* gh answers outside the lock; by the commit its answer may be out of date.
ViewPr(r) ==
  /\ At(r, "status", "agent")
  /\ req' = [req EXCEPT ![r].at = "commit", ![r].found = @ \/ ~is_merged(pr)]
  /\ UNCHANGED <<db, files, pr, history>>

CommitStatus(r) ==
  /\ At(r, "status", "commit")
  /\ pr_url' = TRUE
  /\ IF req[r].found
     THEN UNCHANGED <<current_phase, completed_at>>
     ELSE current_phase' = "completed" /\ completed_at' = TRUE
  /\ Finish(r)
  /\ UNCHANGED <<approvals, rows, files, pr, history>>

(***************************************************************************)
(* Specification.                                                          *)
(***************************************************************************)

SessionInit ==
  /\ Init
  /\ completed_at = FALSE
  /\ pr_url = FALSE
  /\ rows = [p \in RowPhases |-> 0]
  /\ files = {}
  /\ pr = "none"
  /\ req = [r \in Requests |-> Idle]
  /\ planApproved = FALSE
  /\ ranUnapproved = FALSE
  /\ wasMerged = FALSE

RequestStep(r) ==
  \/ Fail(r) \/ Lookup(r)
  \/ LoadObserve(r) \/ CommitObserve(r)
  \/ \E p \in Phase : LoadApproveFromQa(r, p) \/ LoadApprove(r, p)
  \/ CommitApproveFromQa(r) \/ CommitApprove(r)
  \/ LoadReject(r) \/ CommitReject(r)
  \/ LoadPlan(r) \/ LoadReview(r) \/ LoadDiff(r) \/ WriteArtifact(r) \/ CommitArtifact(r)
  \/ LoadFinalize(r) \/ WriteSrs(r) \/ CommitFinalize(r)
  \/ LoadImplement(r) \/ LaunchImplement(r)
  \/ LoadOpenPr(r) \/ CreatePr(r) \/ CommitPr(r)
  \/ LoadStatus(r) \/ ViewPr(r) \/ CommitStatus(r)

SessionNext ==
  \/ \E r \in Requests : RequestStep(r)
  \/ GitHub

SessionSpec == SessionInit /\ [][SessionNext]_vars

(***************************************************************************)
(* Properties.                                                             *)
(***************************************************************************)

TypeOK ==
  /\ current_phase \in Phase
  /\ approvals \subseteq Phase
  /\ completed_at \in BOOLEAN
  /\ pr_url \in BOOLEAN
  /\ rows \in [RowPhases -> 0..MaxRows]
  /\ files \subseteq Files
  /\ pr \in {"none", "open", "closed", "merged"}
  /\ req \in [Requests -> Request]
  /\ planApproved \in BOOLEAN
  /\ ranUnapproved \in BOOLEAN
  /\ wasMerged \in BOOLEAN

\* "No phase may be entered without a recorded approval of the preceding
\* phase's artifact" (phases.py), whatever the interleaving of stale requests:
\* the approvals of every earlier phase are on record, except that a merged
\* pull request completes a session nobody approved the merge phase of.
PhaseIsEarned == Earned(current_phase, approvals)

\* A pull request, and everything the session keeps of one, exists only after
\* the review was approved: no order of requests opens one earlier.
PullRequestIsEarned ==
  pr # "none" \/ pr_url \/ Has("pr.json") => check_can_enter("merge", approvals)

\* An approval refers to an artifact that exists, as a file and as a row
\* (record_approval needs its id), although file, row and approval are written
\* by different requests at different times.
ApprovalHasArtifact ==
  \A p \in approvals : Has(artifact_for[p]) /\ RowCount(p) >= 1

\* What a request found met when it loaded the session, and still relies on
\* when it commits: a strengthening of the three invariants above.
Justified(q) ==
  /\ q.op = "approve" =>
       /\ q.phase # "completed"
       /\ check_can_enter(q.phase, approvals)
       /\ Has(artifact_for[q.phase])
  /\ q.op = "advance" => Has("srs.md")
  /\ q.op = "reject" => Earned(q.phase, approvals)
  /\ q.op \in {"open-pr", "status"} => check_can_enter("merge", approvals)
  /\ q.op \in {"plan", "review", "diff"} => q.phase \in {"plan", "review", "implement"}
  /\ q.op = "status" => q.at # "lookup" /\ (q.at = "commit" /\ ~q.found => wasMerged)
  /\ q.op # "status" /\ q.found => RowCount(q.phase) >= 1

RequestsAreJustified == \A r \in Requests : Justified(req[r])

\* A step that completes the session records the approval of the merge phase, or
\* commits what gh answered some time ago of a pull request that really was
\* merged (a second one may be open by now); a completed session is stamped.
CompletionIsJustified ==
  [][current_phase' = "completed" /\ current_phase # "completed" =>
       /\ "merge" \in approvals' \/ wasMerged
       /\ completed_at']_vars

\* SessionSpec implements the promise of PhaseGate: each request's commit is
\* one approval recorded in turn, or a move to an earned phase.
GatePromise == Spec

\* "FR-18 - invoke the implementing harness against the approved plan"
\* (api/runs.py): each run starts on a plan.md whose text was approved.
ImplementsApprovedPlan == ~ranUnapproved
==============================================================================
