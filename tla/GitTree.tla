------------------------------- MODULE GitTree -------------------------------
(***************************************************************************)
(* A session's worktree as git sees it, and what may change it without     *)
(* being asked: the agent of a run, which edits and may stage, and the     *)
(* rule that keeps .workflow/ out of git.  Edits are told apart by the     *)
(* agent they come from.  Source: services/git.py; agents are external.    *)
(***************************************************************************)
EXTENDS Naturals, Sequences

CONSTANTS
  Environments  \* bound: what happens in a behavior, sets of Circumstances

Circumstances == {
  "implement",  \* the agent of an implement run edits
  "fix",        \* the agent of a fix run edits
  "operation",  \* operations are started
  "request",    \* open-pr is asked for
  "chatty",     \* the first agent writes more than one byte
  "exclude",    \* the rule in .git/info/exclude cannot be written, or is lost
  "stage",      \* the agent of a run stages its changes
  "lock",       \* git add fails, with the index locked by another git
  "tamper",     \* the agent of a read-only operation edits source
  "rename",     \* it stages a rename of source into .workflow/
  "status",     \* git status fails
  "silent" }    \* Codex exits well without writing its last message

ASSUME TreeAssumption == Environments \subseteq SUBSET Circumstances

VARIABLES
  environment,  \* the circumstances of this behavior, of Environments
  created,      \* the worktree exists
  excluded,     \* .git/info/exclude has the rule for .workflow/
  dirty,        \* the agents with changes in the working tree
  staged,       \* what is in the index and not committed
  committed,    \* what the session's branch has beyond its base
  pushed        \* what origin has of it

git == <<dirty, staged, committed, pushed>>
tree == <<environment, created, excluded, git>>

Editors == {"implement", "fix"}

\* Those that may edit, and the agent of a read-only operation.
Agents == Editors \cup {"reader"}

\* .workflow/: always there, always untracked.
Scratch == "scratch"

\* A source file that git has as renamed into .workflow/.
Moved == "moved"

Content == Agents \cup {Scratch, Moved}

Without(mishaps) == environment \cap mishaps = {}

\* ensure_scratch_excluded, then git worktree add.
create_worktree ==
  /\ ~created
  /\ created' = TRUE
  /\ excluded' \in IF "exclude" \in environment THEN BOOLEAN ELSE {TRUE}
  /\ UNCHANGED <<environment, git>>

\* An owner, or an agent, edits .git/info/exclude.
RuleLost ==
  /\ "exclude" \in environment
  /\ excluded /\ excluded' = FALSE
  /\ UNCHANGED <<environment, created, git>>

RunEdits(agent) ==
  /\ agent \in environment
  /\ created
  /\ dirty' = dirty \cup {agent}
  /\ UNCHANGED <<environment, created, excluded, staged, committed, pushed>>

\* git add -A, which ignores what the rule names.
RunStages ==
  /\ "stage" \in environment
  /\ created
  /\ staged' = staged \cup dirty \cup IF excluded THEN {} ELSE {Scratch}
  /\ dirty' = {}
  /\ UNCHANGED <<environment, created, excluded, committed, pushed>>

\* The lines of git status.
status == dirty \cup staged \cup IF excluded THEN {} ELSE {Scratch}

\* Every line, as if nothing under .workflow/ were allowed.
changed_outside_workflow_all == status

\* The paths of git status outside .workflow/; of a rename, where it ends.
changed_outside_workflow == status \ {Scratch, Moved}
==============================================================================
