# Verification of workflow_orchestrator

TLA+ models of the server in `src/src/workflow_orchestrator`, the TLC configurations that
check them on small instances, and theorems about them that TLAPS proves for every value of
their constants. Paths below are relative to `src/src/workflow_orchestrator` unless they start
with `src/`. (The repository is named srsly; the program in it is the workflow orchestrator.)

`PROJECT.json` holds the machine-readable index: components, runs, mutants, the source lines each
definition stands for, findings, hazards and theorems.

Contents: 1 the system, 2 the semantics every model shares, 3 the modules, 4 the runs and their
bounds, 5 fairness, 6 findings, 7 the proofs, 8 what is not modelled, 9 the plan.

## 1. The system

One FastAPI process with one event loop, a SQLite database, git worktrees, a wiki repository, and
agent processes it starts and outlives; beside it, commands (`cli.py`) in processes of their own, which
share the database and the files with it, and not its memory. A *session* is one feature request. It goes through the
phases qa, srs, plan, implement, review, merge, completed (`phases.py`). An artifact in the
session's worktree belongs to each phase (`srs.md`, `plan.md`, `diff.patch`, `review.md`,
`pr.json`), and the user approves or rejects each of them.

| Part | State it keeps | Operations | Correct when |
|---|---|---|---|
| Phase machine (`phases.py`, `services/workflow.py`, `api/sessions.py`) | `sessions.current_phase`, `completed_at`, `phase_artifacts`, `approvals` | create, observe, approve, reject, record an artifact | no phase is entered, and nothing gated happens, ahead of the approvals before it |
| Artifact handlers (`api/plan.py`, `api/review.py`, `api/runs.py`) | files in `.workflow/`, artifact rows | plan/run, review/run, GET diff | an approval refers to a file and a row that exist |
| Harness operations (`harness/runner.py`, `harness/lines.py`, `harness/codex.py`, `harness/claude_code.py`) | a reading of the agent's output, a last message in the scratch | launch, read chunk by chunk, check for edits (FR-16), write the document | every line is read whole, a verdict and a document are those of the operation's own agent |
| Worktree (`services/git.py`) | working tree, index, branch, the ignore rule | create, status, branch, add, commit, push, `gh pr create` | scratch stays out of commits, the work found is in the pull request |
| Requirements loop (`services/requirements.py`, `api/qa.py`) | `qa_turns`, `srs.md` | start, restart, answer, finalize | the cap on rounds holds, no round is issued twice, a restart that fails loses nothing, the loop ends |
| Pull request and merge (`api/merge.py`) | `pr_url`, `pr_number`, `completed_at`; GitHub's state | open-pr, merge/status, the poller, reconciliation after a manual approval | a pull request is opened behind its gate; a merge is noticed and completes the session once |
| Post-merge write-back (`librarian/writeback.py`; `wiki writeback` in `cli.py`) | `wiki_writeback_at` (a durable claim), `_IN_FLIGHT` (a mark in memory, of each process) | enqueue, claim, as-built record, ingest, release | each merged session is ingested in the end; no guard is left behind |
| Wiki write queue (`librarian/queue.py`) | the queue, its consumer, the futures | start, submit, consume, stop | one task at a time, in order; whoever waits is answered |
| Wiki review (`api/wiki.py`, `librarian/super_summary.py`, `librarian/reconcile.py`) | pages and their `needs_review` flag, `wiki_writes`, `super_summary_proposals` | page approve and reject, lint, proposal approve and reject, `wiki reconcile` from the command line | only a review that loaded a row settles it; what is listed can be disposed of; an approval stands for a run |
| Run supervisor (`runs/supervisor.py`, `runs/meters.py`) | `runs`, one task per run, meters; agents and their logs | start_run, _supervise, cancel, shutdown, reattach_all | one watcher per run, one final outcome, which the log and the exit justify |
| Backends (`runs/host_runner.py`, `runs/docker_runner.py`) | processes, PID and exit files, containers | launch, poll, terminate | what they answer is what happened |
| Event bus (`runs/bus.py`, `api/runs.py`) | per topic a replay buffer and the subscribers' queues | publish, close, reset, subscribe, the stream | no event is missed or given twice; streams end |
| Review triage (`services/review.py`, `api/review.py`) | `review-triage.json`, follow-up runs | list with reconciliation, dismiss, reopen, fix | what the file says of a finding is backed by a run of its own |
| Lifespan (`app.py`) | supervisor, poller, queue | start, stop, crash | restart picks up what was running |

How they interact. Requests, the poller, the queue's consumer and the runs' tasks are coroutines of
one loop: they interleave at every `await` and nowhere else. They share the database through
transactions of their own, the worktree and the wiki as plain files, and three tables in memory
(`_IN_FLIGHT`, the supervisor's tasks, the bus's topics). The merge detectors call
`enqueue_post_merge`, whose task the queue runs; the ingest it performs leaves rows and a proposal for
the wiki review; commands run the same write-backs and repair the same labels; an agent's edits, a read-only
operation's check of them and open-pr's `git add` meet in one worktree; the supervisor publishes to the bus what the stream endpoint reads; triage starts runs
and reads their rows.

What makes it hard:

- Each request checks its gate on a snapshot, awaits git, `gh`, an agent or the model for up to half
  an hour, and commits afterwards. Two requests of one session, or a request and the poller, commit
  in either order.
- The database lock is held across awaits by those that flushed before them, and others time out on it.
- Files, rows and processes are not changed in one transaction, so each step can fail alone.
- The server dies and is restarted while agents go on.
- A command of the CLI works on the same rows and files with guards the server does not see.
- Guards against repetition are in memory, in the database, or both, and are released on some paths only.

`PROJECT.json` lists 40 such hazards at their lines, with the properties that cover them, or with the
reason why none does.

## 2. Semantics the modules share

- **Requests.** `get_session_or_404` loads the session; with `expire_on_commit=False`, and no refresh in
  the handlers, a handler works on that snapshot until its end. A model splits a handler at its awaits:
  load and check, each awaited effect, commit.
- **Transactions** (`db.py`). SQLite reads what is committed. The first flush takes the single write lock
  and keeps it until commit or rollback; others wait for it up to the busy timeout, then fail. Where a
  handler writes only at its end the commit is one atomic action; where it writes earlier (the poller, the
  question loop) the lock is a variable.
- **Columns.** The ORM writes the columns that a handler assigned, so two commits overwrite each other
  column by column. `approvals` are rows of their own and only grow.
- **Failure.** An exception rolls the transaction back; files and processes keep what was done to them.
- **Files** are identified by name. Their content matters only where a property asks for it (the text
  of `plan.md` that was approved, the review flag of a wiki page).
- **External parties** (GitHub and `gh`, git, the agent CLIs, the model, docker, the user) do anything
  their answers allow. Definitions for them are marked external in the map.

## 3. The modules

Each module's variables are commented where they are declared, and the map gives the lines of each definition.

**PhaseGate** is the abstract promise of the phase machine: the order of the phases, the prerequisites
(`check_can_enter`, `check_can_approve`), and two steps: an approval is recorded behind the approvals
before it, or the session moves to a phase that is *earned*. `completed` is also earned by a merge,
which needs the approvals up to review.

**SessionGate** is what the handlers do to one session, with any number of requests in flight: observe,
approve (also out of qa, which records the SRS first), reject, plan/run, review/run, diff, finalize,
implement, open-pr, merge/status. `req[r]` is a request's snapshot and what is left for it to do. Each
handler is `Load...` (row read and gate checked), the awaited effect (`WriteArtifact`, `WriteSrs`,
`CreatePr`, `LaunchImplement`), `Lookup` (the SELECT of the artifact row before the lock) and
`Commit...`. `GitHub` merges and closes the pull request. It refines PhaseGate under the identity
mapping (`GatePromise`). merge/status is three steps, `LoadStatus`, `ViewPr` (gh's answer) and
`CommitStatus`: by the commit the answer may be out of date, so what justifies a completion is that the branch had
a merged pull request (`wasMerged`), not that it has one now. What fails after open-pr wrote `pr.json` leaves the
file (`CommitPr`).

**WriteBack** is the path from a merged pull request to the wiki: `PollSelect`, `PollSees`/`PollSkips` per
row, `PollCommit`; `LoadRow`, `SeesMerge`, `SeesNoMerge` for merge/status and manual approvals;
`Trigger`, `ForceTrigger` on demand, `Command` for `wiki writeback`; the consumer's `Claim`, `NoWiki`,
`GenerateAsBuilt` or `AsBuiltRaises`, `Ingest`, `IngestUnavailable`, `IngestRaises`, `ReleaseClaim`; and the
lifespan's `StopPoller`, `StopQueue`, `Crash`, `Start`. There are two processes, `"server"` and
`"command"`, each with its queue and its `_IN_FLIGHT`; the claim is shared. `environment` is the set of
mishaps of a behavior, one of `Environments`. `holding` are the rows the poller changed and has not
committed: while it is not empty the poller has the write lock, and a manual approval has it while it awaits gh.
`Rejects` takes a completed session back to the merge phase, as `reject_current` does whenever it is asked; the
session keeps `completed_at` (`stamped`), and once it is claimed no detector completes it again.

**RunSupervisor** is a run from its row to its outcome: `InsertRun`, `Launch`, `PersistHandle`, then the
task's loop `Drain` (lines, meters, limits), `Poll`, `Recheck`, `Terminate`, `Finish`; `Stop`, `Start`,
`ReattachAlive`, `Reconcile`, `Serve` for restarts. The log of an agent is its number of cost
lines, whether one reports an error, and whether the last line is unterminated (`tail`). An agent that was told
to stop may be `unstopped` (a container that answers no signal, or one whose `docker run` timed out after it had
started), and a killed wrapper may leave its harness `orphaned`: it goes on writing to the log and nothing the
supervisor polls shows it. A launch may raise (`LaunchFails`), with or without an agent.

**EventFeed** is the abstract promise of a live output, without queues, buffers or tasks: a client that
subscribes is given the events one by one, in order and without a hole, from as far back as the feed
retains, and its stream ends only after a close and with everything given.

**EventBus** is one run's topic: the supervisor publishes through the replay buffer into bounded queues, and
closes it. `task` begins at the launch, and is "none" for a run that this server has no part in: its launch failed,
or `reattach_all` passed it over or raised. Each client's stream is the
snapshot (`subscribe`), its backlog, the check for an end (`GoLive`), the live queue, and its end. A restart passes
the run over, reattaches to it or replays it into a new topic. It refines EventFeed (`FeedPromise`): the first
event on its way to a client gives the feed's `start`.

**ReviewTriage** is the triage file, which each handler reads and writes whole; a listing reconciles the
findings at `fixing` one by one, awaiting each one's run (`reconcile_fixing`); a fix starts a run, and
then marks its findings. The file is rewritten in place: a write that is cut short leaves it `torn`
(`SaveIsCut`), and `load_triage` reads a torn file as one without entries until the next save.

**QaLoop** is the question loop of one session. A request reads `turns` without a lock (`view`); its first
`Write` takes the lock (`writer`) and keeps its rows in `draft` until `Commit` or `Rollback`, across
the calls of the model. `ask_round` computes the cap under that lock.

**WikiReview** is what an ingest leaves and what users do with it: the consumer runs ingests (one agent per
artifact, which writes pages and lists some; then flags, rows, proposal), regenerations and lints; page
reviews proceed through git, file and rows step by step beside it; approvals and lints hold the future
of their task. A page is in the working tree (`page`), in git's index (`index`) and committed (`head`):
`git_checkout` restores from the index, and any failure of it, of which a missing index entry is one, falls
through to the unlink. A review may be refused because the page is in none of several vaults (`nowhere`). An
agent survives a crash of the server (`orphans`) and writes on. `wiki reconcile --apply` is a process beside it
all: it reads the rows (`SurveyRows`), the files (`SurveyFiles`) and git's status (`CheckStatus`), and then clears
stale labels and adopts unknown pages one by one (`apply_stale_label`, `adopt_unknown`). `cast` says who acts in a
behavior: requests, an owner of the repository who edits, deletes and commits pages, one who also stages them,
ingests that propose summaries, a reconcile; and whether there are several vaults, and a twin of the page in one
that is looked at first.

**Worktree** composes what meets in one worktree; each part has a module of its own, over variables of
its own and those of GitTree:

- **GitTree**: working tree, index, commits, origin and the rule in `.git/info/exclude`, with the agents of
  runs that edit and stage whenever they like. Content is told apart by the agent it comes from; `Moved` is a
  source file renamed into `.workflow/` and staged, of which git status names the destination last and
  `changed_outside_workflow` looks at that alone.
- **LineBuffer** (`feed`, `flush`) reassembles lines from chunks, drops a line that is too long, and resumes
  after it; **Adapters** is what the two CLIs' `parse_line` and `final_text` make of the lines.
- **HarnessOperation** is one read-only operation at a time: `Launch`, `ReadChunk`, `EndOfOutput` or
  `StreamFails` or `Cancelled` (which leaves its agent alive, an orphan that still edits and exits), `Check`
  (the assertion of FR-16), `WriteArtifact` or `GivesUp`. The document is the last message in the scratch, or
  what the events say if that is missing or blank.
- **PullRequest** is open-pr: `CreateBranch`, `AddAll`, `CommitAll`, `PushBranch`, `CreatePullRequest`,
  `Record`, a failure after each of them and the retry, and merge/status, which recovers a lost answer.

The modules overlap at interfaces that each states in its own terms: `advance_qa_if_srs_ready` and
rejection appear in SessionGate (in full) and in QaLoop (as `Observe`, `Reject`); merge/status is in
SessionGate (what it does to the session) and in WriteBack (what it does to the claim); EnqueueIngest of
WikiReview is what WriteBack's detectors do; EventBus's `Finish` is RunSupervisor's;
plan/run and open-pr are one awaited effect in SessionGate (`WriteArtifact`, `CreatePr`) and a sequence of
steps in Worktree.

Beside an operation stands here and there a second one (`..._unchecked`, `..._stale`, `..._late`, `..._again`):
the operation as a plausible bug would have it. No specification uses them. They are the mutants of
`PROJECT.json`: with one of them in the operation's place the named property fails, which shows that the
property depends on what the code does there.

## 4. Runs

Runs that pass:

| Run | Instance | Shows |
|---|---|---|
| `session_gate` | 2 requests of any kind, rows of one phase counted | TypeOK, PhaseIsEarned, PullRequestIsEarned, ApprovalHasArtifact, RequestsAreJustified, CompletionIsJustified, and the refinement GatePromise |
| `writeback` | 2 sessions, server and command, in 5 environments: requests, rejections, or commands where all goes well but the wiki may be missing; commands and crashes; everything else that may go wrong at once | TypeOK, OneTaskPerSession, MarkIsScheduled, ClaimIsHonest, ClaimFollowsCompletion, and MergeIsIngested (liveness); each property names the hazards under which it is not promised |
| `run_supervisor` | 1 run, 2 log lines, cost ceiling 2, 2 restarts; kills, vanished processes, raising polls, lost locks, agents that survive a launch that failed, a kill or a terminate | TypeOK, OneWatcher, CompletedIsRead, LimitIsEnforced, OutcomeIsFinal, RunEnds (liveness) |
| `event_bus` | 2 clients, buffer and queues of 2, 4 events, 1 restart | TypeOK, the refinement FeedPromise, StreamEnds (liveness) |
| `review_triage` | 2 findings, 2 requests, 2 runs, any number of reviews and of torn files | TypeOK, TriageMatchesRuns, ReopenIsJustified, FindingIsSettled (liveness) |
| `qa_loop` | 2 requests, cap of 2 rounds, 1 restart, 1 rejection, 1 failure | TypeOK, RoundsIssuedOnce, TranscriptIsKept, LoopEnds (liveness) |
| `wiki_review` | 2 requests, or 1 and a reconcile or an owner, 1 ingest of 2 artifacts, 1 page, 1 failure or crash, 6 casts | TypeOK, ApprovedWasRun, SettledWasSeen, PendingIsReviewable, AwaitIsAnswered (the last two liveness) |
| `worktree` | plan and review operations, outputs of up to 5 bytes, an implement and a fix run, open-pr, 9 environments | TypeOK, LinesAreWhole, VerdictIsRight, ScratchStaysLocal, WorkIsShipped |

Why the bounds are enough to be interesting:

- *Two requests.* The races in this code are between two snapshots of one row, or a snapshot and a
  background task. The inductive invariants are proved for any number.
- *MaxRows* (SessionGate): a second artifact row already shows the duplicate; two are counted.
- *Environments, MaxTasks* (WriteBack): hazards combine in one environment, since what a property promises
  depends on which of them are absent; the others keep the conditional properties from being vacuous: in
  `{"request"}` and `{"command"}` all of them bind, and `{"reject"}` is there for
  ClaimFollowsCompletion (with requests as well TLC takes too long for a run; the theorem covers both together). Forced requests could fill a queue without limit.
- *One run* (RunSupervisor): runs share nothing but the lifespan; the proofs take any set of runs. Two
  lines and a ceiling of two let a run pass its ceiling before, at and after its exit. *Environment* is every
  hazard the properties outlive; an unreachable docker is the one they do not.
- *Reports* (ReviewTriage): of two findings one is in every review and one comes and goes.
- *ReplayLimit, QueueMaxsize* = 2 (2000 and 1000 in the code): both overflow with four events.
- *MaxRounds* = 2 (QaLoop; 5 in the code): the opening round, a last one and the cap are all met.
  *MaxRestarts*, *MaxRejections*, *MaxFailures* bound the calls that would otherwise repeat for ever.
- *One ingest, one page* (WikiReview): a review begun before the ingest records its rows, and a page
  removed in between, need no second ingest. With one page a mix-up of two pages could not show; the
  page of each row is compared in `SettledWasSeen` for larger instances, which TLC has no time for.
  *Casts* keeps apart those who only meet through the pages: two requests with proposals, two with an owner,
  one with both, an owner with a reconcile, an owner who stages where there are several vaults, and a twin
  beside a reconcile. *Options* are none and both.
- *MaxLineBytes* = 1, *MaxOutput* = 5 over four kinds of bytes (Worktree; 32 MiB in the code): a line at the limit, one
  past it, an empty one, two in a row and a fragment at the end, in every cut into chunks.
  *Environments* takes one safeguard away at a time, adds the rename to an operation whose agent edits, and lets
  only the first operation's agent be chatty:
  what came before an operation is only a last message and an orphan.

Deadlock is checked except in `run_supervisor` (all runs over) and `qa_loop` (the session is past
its phase), where the system may stop; each cfg says so.

## 5. Fairness

Only what the event loop and the outside guarantee:

- *RunSupervisor*: a run's task goes on (WF of its steps), its clock runs out (wall clock), a server that
  is down is started again. Agents need not do anything: a silent one is ended by its timeout.
- *EventBus*: a client that follows a stream is served (WF of its iterator). Nothing is assumed of
  publishers or of clients that leave.
- *WriteBack*: the poller's loop goes on and wins the write lock if it is free again and again (SF: a
  pass that times out is followed by another), `gh` answers for each session infinitely often if it is asked
  infinitely often (SF), a request that holds the lock is answered (WF: gh has a timeout), the lock is won in the
  end by a task that keeps asking (SF of `Claim` and `ReleaseClaim`: the busy timeout retries), the ingest ends
  (it has a timeout), and somebody runs `wiki init`. MergeIsIngested claims nothing where gh, ingests, locks or
  the server fail.
- *ReviewTriage*: requests go on; the triage list is opened again and again (SF), which is the only thing
  that reconciles.
- *QaLoop*: each request goes on (the model has a timeout), the user answers again and again and
  looks at the session. Failures are finite (`MaxFailures`): a model that always fails ends no loop.
- *WikiReview*: the consumer, the requests and a command go on, agents have timeouts, and the user rejects
  again and again what is listed (SF, of pages in the queue only), and runs `wiki reconcile --apply` with both
  options again and again (SF): FlagsAreQueued is what it is for.
- *Worktree*: none; all its properties are invariants.

## 6. Findings

Four runs are expected to end in a violation; each checks what a doc or comment says.

- `plan_approval`, ImplementsApprovedPlan: a run can start on a `plan.md` rewritten after its approval
  (`api/runs.py:77`).
- `as_built_fails`, SpecificationIsIngested: a `gh` that is missing or hangs raises out of `generate_as_built`,
  and every retry of the write-back fails the same way before any ingest (`librarian/writeback.py:425`).
- `writeback_silent_skip`, NoSilentSkip: a shutdown or crash between claim and ingest leaves a claim
  nobody works on (`librarian/writeback.py:567`).
- `run_killed`, CompletedMeansSuccess: an agent killed with its wrapper leaves no exit code, which is taken
  for success (`runs/supervisor.py:256`).

Met while modelling and kept as notes of hazards, or as the conditions of a property:

- A write-back asked for before the merge is detected keeps the session in its merge phase
  (`api/merge.py:177`); a stale `wiki_writeback_at` lets a session be ingested a second time
  (`api/merge.py:228`); so does a command beside the server, each giving back what the other claimed. A session
  rejected out of `completed` after its claim is completed again by no detector, only by hand
  (`services/workflow.py:286`).
- Two registrations of one artifact may insert two rows, after which a lookup of one row raises
  (`services/workflow.py:188`).
- Pages that a failed ingest agent left unflagged are found by nothing; flagged ones reach the queue by
  `wiki reconcile --adopt` (`librarian/writeback.py:307`). An approval of a proposal overrides a rejection
  made while it waited (`api/wiki.py:342`).
- A row that an ingest records between a review's file step and its read of the rows is settled by that review,
  which never saw the text (`api/wiki.py:278`). A page in none of several vaults cannot be rejected and its rows
  stay in the queue (`api/wiki.py:112`). A checkout that fails for any reason, a locked index or a timeout, ends in
  the removal of a page that git has (`api/wiki.py:274`).
- A triage file that a crash cut short is read as an empty one: every finding is open again, and the next decision
  writes that down (`services/review.py:150`).
- The check of FR-16 compares two `git status` of a shared worktree: it blames an operation for the edits of a
  run, misses its agent's edits once open-pr committed them, and finds nothing when git status fails or when all the
  agent did was to stage a rename into `.workflow/` (`harness/runner.py:147`, `services/git.py:229`). A last
  message left by an agent that outlived an earlier operation passes for the document (`harness/runner.py:174`).
- A limit is recorded once the agent was told to stop, whether it did or not: the harness may outlive its wrapper
  (`runs/host_runner.py:156`), a container its `docker stop` or a `docker run` that timed out
  (`runs/docker_runner.py:99`).
- Scratch gets into a commit only if the ignore rule is missing *and* an agent stages
  (`services/git.py:262`); the result of `git add` is not looked at. A pull request whose answer was lost is
  found again only by merge/status.
- A stream opened on a run that this server has no part in gets heartbeats for ever (`api/runs.py:147`): one whose
  launch failed, which is recorded without a `bus.close` (`runs/supervisor.py:149`), or one that was over before a
  restart. StreamEnds claims nothing of them (`task` is "none").

## 7. The proofs

Each `..._proofs` module extends its component and proves its invariants for every value of the
constants: any number of requests, runs, findings, rounds. TLC checked every formula before.

- **SessionGate_proofs.** The invariants of `session_gate` are not inductive one by one: a commit relies
  on what its request found when it loaded the session. The strengthening is `RequestsAreJustified`: since
  approvals only grow, a prerequisite that was met stays met, however stale the rest of the snapshot
  is; and what gh said was merged was merged, whatever the branch's pull request is by the commit
  (`MergeIsRemembered`). `IInv` is the conjunction of TypeOK, PhaseIsEarned, PullRequestIsEarned, ApprovalHasArtifact,
  RequestsAreJustified and MergeIsRemembered. From it follow the five invariants, CompletionIsJustified, and `ImplementsGate`:
  each step is a PhaseGate step or a stutter. Assumption: RowPhasesAssumption.
- **RunSupervisor_proofs.** `PlacedInv` says, for each run, which row and outcome go with the place its task is
  at, and who may be watching: type correctness, OneWatcher and OutcomeIsFinal follow. `DecidedInv` adds that an
  outcome that vouches for the log was decided on an agent that is gone, or orphaned, and on a log that no longer
  grows: CompletedIsRead follows under `Reliable` (docker answers for a live container), without which it does not
  hold; the theorem says so in its ASSUME. LimitIsEnforced follows from `PlacedInv` alone, in every environment,
  because it claims only what the code ensures: that terminate was called before the outcome was recorded.
  RunAssumptions are used.
- **ReviewTriage_proofs.** What requests remember of a finding (an entry, a run they started, a run's row) is still
  true of the runs when they write it, although it may no longer be what the file says, since runs are never
  reopened and ids never reused (`NewRunsAreNew`). A torn file names no run, so it breaks neither. TriageMatchesRuns
  and ReopenIsJustified follow; the second names the torn write as the third way to an open finding.
- **QaLoop_proofs.** Who issues a round holds the lock (`Locked`), and what it will commit extends the
  committed transcript or is one begun anew with its first round (`DraftIsSound`); RoundsUsed shows
  that the next round's number is unused. RoundsIssuedOnce and TranscriptIsKept follow. LoopAssumptions
  (a cap of at least 1 is what excludes a restart that writes the SRS without a round) and
  NoneAssumption are used.

- **WriteBack_proofs.** A mark is cleared only by its task, so the invariant has to know where each task is:
  `IInv` is TypeOK, the four properties of the run, and three facts they lean on: a server that is not up was
  stopped by a hazard of the environment (`StopsAreKnown`), whoever was seen completed is stamped, and a rejection
  leaves the stamp (`StampsStay`), and where only detectors ask for write-backs a queued
  session is stamped or held by the detector whose transaction completes it (`QueuedIsDetected`; ClaimFollowsCompletion is
  not inductive without it, as a claim is made by a task that remembers nothing of its detector). Each
  property keeps the hazards under which it is promised in its hypothesis. WriteBackAssumptions: there is a
  session, and environments are made of the named hazards.
- **EventBus_proofs.** The bus implements EventFeed (`ImplementsFeed`). The abstract feed hands out event after
  event; the bus copies a snapshot and then queues what is published, drops a subscriber whose queue is
  full, and is closed while clients still read. `IInv` says that what a client was given, its backlog and its
  queue are one stretch of the run's events (`IsStretch`), that a subscriber's stretch reaches to the last
  event published, that a sentinel is last in its queue (`StreamIsSound`), that the history is the
  latest events (`ReplayIsRecent`), and that a topic is closed only by a task that is done with it (`ClosedIsLast`). With it
  each step is one of the feed's (publish, close, subscribe, deliver, end, leave, restart) or leaves the
  feed alone.
- **WikiReview_proofs.** `IInv` relates the consumer's place, the queue of tasks and the futures the requests wait
  for (a request holds the future of its own task; an answered one was run), what a review loaded (`seen`: rows
  of its own page only), and counts: every row and every proposal was paid for by an ingest, which
  is what keeps them within MaxRows. The counting needs lemmas about the number of tasks of one kind in a
  queue. ApprovedWasRun is a conjunct; SettledWasSeen follows step by step, and says that
  only what a review of the page had loaded is settled, not that the review saw its text. WikiAssumptions: pages are finite
  in number, and no request is called "none".
- **Worktree_proofs.** Two parts.
  *Lines.* `split` and `fitting` are recursive functions over a stream, and the provers have no induction
  over data. The proof gets it from sets: a set of numbers with 0 and all successors is Nat (`AllNumbers`, by
  well-foundedness of <), so a statement about every length is the set of lengths for which it holds.
  From that: the recursive functions exist and are unique, what one byte more does to them (`LinesGoOn`),
  what a cut does (`SplitInTwo`), and what a dropped fragment in front does (`FragmentInFront`). `Reassembling`
  relates a buffer to the stream read so far: it holds the rest of it, or, discarding, what came of a line after
  more than MaxLineBytes of it was dropped. `FeedIsWhole` shows that a chunk keeps it and completes just the
  lines it should, for any cap and any cut; LinesAreWhole follows for every operation.
  *Tree.* VerdictIsRight needs that an operation under way knows of whatever is changed, that its agent's
  edit is somewhere (`EditsAreKnown`; a staged rename into the scratch need not be), and that an agent that survived
  an operation of its kind was there before it, which is the only excuse for a document that is not its own
  (`MessageIsKnown`); ScratchStaysLocal, that the index is as clean as the commits (`ScratchIsOut`);
  WorkIsShipped, how far the work has come at each step of open-pr (`WorkIsUnderWay`). OperationAssumptions,
  LineAssumptions and TreeAssumption are used.

Every invariant and every action property that a passing run checks, and both refinements, are theorems; so
is the inductive invariant of each component, which TLC checked on the instance of its run first.

Only model-checked: the liveness properties (MergeIsIngested, RunEnds, StreamEnds, FindingIsSettled, LoopEnds,
PendingIsReviewable, AwaitIsAnswered), which need fairness and ENABLED, for which there is no prover here;
and the four violations of section 6, which are counterexamples.

## 8. What is not modelled

- Of the command line, `run reattach` as a second process: it is the server's own `reattach_all`, and two of
  them would watch one run each in its own table; `serve`, `db` and `wiki init`, which run before the
  server or without it, and dry runs, which only read.
- Paths that leave the vault, which `api/wiki.py` answers with 400 before it does anything. An agent of an ingest
  that ran into its timeout is taken to be dead.
- What `str.splitlines` cuts and the watching loop does not (U+2028 and its like), and lines longer than the cap, in
  the replay of a log: RunSupervisor reads the same lines twice, but for an unterminated last one.
- In a worktree: agents that commit, push or switch the branch themselves, two open-pr requests at once,
  and a worktree that is removed. Nor an agent that forces the scratch into the index (`git add -f`), a base that
  already tracks `.workflow/`, and a move without git that becomes a rename when somebody else stages both
  halves. Two operations at once would share the last message only if they were of a kind.
- Argument lists, prompts and pricing of the agent CLIs, the clarification and as-built
  parsers, the Bedrock client, wiki layout, query, scaffold: sequential conversions of data or one call
  outside. Their results are choices.
- Process identity in HostRunner (start times against reused PIDs), docker command lines, the shell wrapper:
  RunSupervisor takes the answers they can give.
- The projects API, templates, configuration, logging, schemas, migrations: rows and constants that
  nothing else changes, or rendering.
- Time: timeouts fire at any moment. Order by `created_at` or `written_at` is left out, as it decides
  only presentation and the wording of prompts.
- What two runs in one worktree do to each other's work: the code promises no exclusion. What they do to
  an operation and to a pull request is in Worktree.

## 9. Plan

Order of work, the most important behaviour first; what is done is marked.

1. PhaseGate, SessionGate with the refinement and its proofs. Done.
2. WriteBack with the poller, queue and lifespan, and its proofs. Done.
3. RunSupervisor with restarts, and its proofs. Done.
4. EventBus over one topic. Done.
5. ReviewTriage and its proofs. Done.
6. QaLoop and its proofs. Done.
7. WikiReview over queue, files and rows, and its proofs. Done.
8. WriteBack beside a second process, with the as-built record; `wiki reconcile` beside WikiReview's
   reviews. Done.
9. EventFeed, the abstract specification of the event stream, and EventBus as its implementation, with
   the proof. Done.
10. Worktree: lines, adapters, read-only operations, git and open-pr, composed, and its proofs. Done.
11. An abstract specification of the write-back (each merged session: not yet, under way, done, given back) that
   WriteBack implements by a refinement mapping, per environment.
12. HostRunner and DockerRunner as implementations of what RunSupervisor assumes of a backend; `run reattach`
   as a second supervisor over the same rows.
13. The location of a page in nested vaults (`librarian/layout.py`), and the ordering and de-duplication of
   the review queue, against reference definitions over bounded inputs.

Theorems worth proving next: the safety parts that the liveness properties rest on (a request that waits holds
the future of a task that is queued or running; a run that is not over has a watcher, or a server that is
down); that the triage reconciliation of one listing settles what was over when it began; and the refinement
of the write-back by item 11.

Bounds for the models to come: two processes with two runs; vaults nested two deep; queues of three rows.
