------------------------------- MODULE Worktree -------------------------------
(***************************************************************************)
(* One session's worktree with everything that works on it: the agent of a *)
(* run that edits, an operation that must not, and the request that makes  *)
(* a pull request of what it finds.  They share the working tree and the   *)
(* index, and nothing but git's own lock keeps them apart.                 *)
(***************************************************************************)
EXTENDS HarnessOperation, PullRequest

vars == <<tree, operation, merge>>

Init ==
  /\ environment \in Environments
  /\ created = FALSE /\ excluded = FALSE
  /\ dirty = {} /\ staged = {} /\ committed = {} /\ pushed = {}
  /\ HarnessInit /\ MergeInit

\* An agent of a run works on the tree, whatever operation or request is there.
RunWorks ==
  /\ RunStages \/ \E agent \in Editors : RunEdits(agent)
  /\ op' = foreign_edit(op)
  /\ UNCHANGED <<scratch, orphans, merge>>

Next ==
  \/ (create_worktree \/ RuleLost) /\ UNCHANGED <<operation, merge>>
  \/ RunWorks
  \/ HarnessNext /\ UNCHANGED merge
  \/ MergeNext /\ UNCHANGED operation

Spec == Init /\ [][Next]_vars

(***************************************************************************)
(* Properties.                                                             *)
(***************************************************************************)

\* Who changed the tree, where an operation is, what it left behind; it is accepted
\* with a document, and only then.
TypeOK ==
  /\ environment \in Environments
  /\ created \in BOOLEAN /\ excluded \in BOOLEAN
  /\ dirty \subseteq Agents
  /\ staged \subseteq Content /\ committed \subseteq Content /\ pushed \subseteq Content
  /\ op \in Operation /\ (op.at = "accepted" <=> op.text # "none")
  /\ scratch \in [Kinds -> {"none", "own", "stale", "blank"}]
  /\ orphans \subseteq Kinds
  /\ branch \in BOOLEAN /\ pr \in BOOLEAN /\ pr_url \in BOOLEAN
  /\ request \in Request

\* "Lines are reassembled" (runner.py): however the pipe cuts the output, the
\* operation has every complete line of what it read that is not too long, in
\* order and nothing else, and at the end the last one too.
LinesAreWhole ==
  /\ op.at = "reading" => op.lines = CompleteLines(SubSeq(op.output, 1, op.read))
  /\ op.at \in {"checking", "writing"} => op.lines = AllLines(op.output)

\* A refused operation saw an edit: its agent's, or one of another agent.
RefusalIsEarned == op.at = "refused" => "reader" \in op.edited \/ op.foreign

\* An edit of an accepted operation's agent was missed by the assertion in three
\* ways only: git status failed, open-pr committed it before the agent was done,
\* or all it did was to stage a rename into .workflow/, of which
\* changed_outside_workflow looks at the destination alone.
AcceptanceIsClean ==
  op.at = "accepted" /\ op.edited # {} /\ op.kind \in Asserted =>
    ~Without({"status"}) \/ "reader" \in committed \/ op.edited = {Moved}

\* An accepted document is the operation's own.  A last message left behind by an
\* operation of its kind passes for one only if that operation's agent was alive
\* when this one began, or if Codex may exit well without writing its own.
DocumentIsOwn ==
  op.text = "stale" => op.haunted \/ ~Without({"silent"})

\* The verdict of a read-only operation, as far as it can be right while others
\* use its worktree (FR-16).
VerdictIsRight == RefusalIsEarned /\ AcceptanceIsClean /\ DocumentIsOwn

\* "an ignore file that is missing, overridden, or checked out from an older
\* commit must not be able to leak the SRS, plan, review and run logs into a
\* pull request" (commit_all): not alone; with an agent that stages, it is.
ScratchStaysLocal == Without({"exclude"}) \/ Without({"stage"}) => Scratch \notin committed

\* An open-pr that is about to answer has pushed the work it found, through
\* requests that failed half way and agents that edited meanwhile, unless git
\* add failed.
WorkIsShipped ==
  /\ pr_url => pr
  /\ pr /\ At("record") /\ Without({"lock"}) => request.work \subseteq pushed
==============================================================================
