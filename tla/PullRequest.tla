----------------------------- MODULE PullRequest -----------------------------
(***************************************************************************)
(* open-pr, step by step over the worktree: the branch, what is staged and *)
(* committed and pushed, the pull request on GitHub and what the row knows *)
(* of it.  Any step may fail, what it did before stays, and the request is *)
(* made again.  Who may ask for it is in SessionGate.  Sources:            *)
(* api/merge.py, services/git.py.                                          *)
(***************************************************************************)
EXTENDS GitTree

VARIABLES
  branch,       \* the session's branch is checked out
  request,      \* where open-pr is; the work it found when it staged
  pr,           \* GitHub has a pull request of the branch
  pr_url        \* the row has its URL

merge == <<branch, request, pr, pr_url>>

Request == [at : {"none", "add", "commit", "push", "create", "record"},
            work : SUBSET Agents]

NoRequest == [at |-> "none", work |-> {}]

At(step) == request.at = step

GoTo(step) == request' = [request EXCEPT !.at = step]

\* create_branch: HEAD, detached so far or not, with all it has.
CreateBranch ==
  /\ "request" \in environment
  /\ created /\ At("none")
  /\ branch' = TRUE
  /\ GoTo("add")
  /\ UNCHANGED <<tree, pr, pr_url>>

\* Staging that trusts the rule in .git/info/exclude.
AddAll_trusting ==
  /\ At("add")
  /\ staged' = staged \cup dirty \cup IF excluded THEN {} ELSE {Scratch}
  /\ dirty' = {}
  /\ request' = [at |-> "commit", work |-> dirty \cup (staged \cap Agents)]
  /\ UNCHANGED <<environment, created, excluded, committed, pushed, branch, pr, pr_url>>

\* commit_all: git add -A with .workflow/ excluded by pathspec.
AddAll ==
  /\ At("add")
  /\ staged' = staged \cup dirty
  /\ dirty' = {}
  /\ request' = [at |-> "commit", work |-> dirty \cup (staged \cap Agents)]
  /\ UNCHANGED <<environment, created, excluded, committed, pushed, branch, pr, pr_url>>

\* The result of git add is not looked at.
AddFails ==
  /\ "lock" \in environment
  /\ At("add")
  /\ request' = [at |-> "commit", work |-> dirty \cup (staged \cap Agents)]
  /\ UNCHANGED <<tree, branch, pr, pr_url>>

\* A commit whose failure is taken for nothing to commit.
CommitAll_lenient ==
  /\ At("commit")
  /\ \/ committed' = committed \cup staged /\ staged' = {}
     \/ UNCHANGED <<committed, staged>>
  /\ GoTo("push")
  /\ UNCHANGED <<environment, created, excluded, dirty, pushed, branch, pr, pr_url>>

\* Whatever is in the index by now, or nothing; then has_remote.
CommitAll ==
  /\ At("commit")
  /\ committed' = committed \cup staged
  /\ staged' = {}
  /\ GoTo("push")
  /\ UNCHANGED <<environment, created, excluded, dirty, pushed, branch, pr, pr_url>>

PushBranch ==
  /\ At("push")
  /\ pushed' = committed
  /\ GoTo("create")
  /\ UNCHANGED <<environment, created, excluded, dirty, staged, committed, branch, pr, pr_url>>

\* gh refuses a second pull request of a branch, and one without a commit.
CreatePullRequest ==
  /\ At("create")
  /\ ~pr /\ pushed # {}
  /\ pr' = TRUE
  /\ \/ GoTo("record")
     \/ request' = NoRequest    \* timeout: the answer of gh is lost
  /\ UNCHANGED <<tree, branch, pr_url>>

Record ==
  /\ At("record")
  /\ pr_url' = TRUE
  /\ request' = NoRequest
  /\ UNCHANGED <<tree, branch, pr>>

\* Any command fails, there is no remote, or the row cannot be written.
RequestFails ==
  /\ ~At("none")
  /\ request' = NoRequest
  /\ UNCHANGED <<tree, branch, pr, pr_url>>

\* merge/status asks gh for the pull request of the checked-out branch.
MergeStatus ==
  /\ created /\ branch /\ pr
  /\ pr_url' = TRUE
  /\ UNCHANGED <<tree, branch, request, pr>>

MergeInit == branch = FALSE /\ request = NoRequest /\ pr = FALSE /\ pr_url = FALSE

MergeNext ==
  \/ CreateBranch \/ AddAll \/ AddFails \/ CommitAll \/ PushBranch
  \/ CreatePullRequest \/ Record \/ RequestFails \/ MergeStatus
==============================================================================
