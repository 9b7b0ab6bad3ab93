------------------------------ MODULE WriteBack ------------------------------
(***************************************************************************)
(* How the wiki learns of a merged pull request: the poller, merge/status  *)
(* and a manual approval detect the merge, an on-demand request may ask    *)
(* for it, and one queue serves the write-backs in order.  Two guards keep *)
(* a session from being written back twice: wiki_writeback_at, a durable   *)
(* claim, and _IN_FLIGHT, a mark in a process's memory.  A command of the  *)
(* CLI is a process of its own: it has another queue and other marks, and  *)
(* shares the claim.  Sources: api/merge.py, librarian/writeback.py,       *)
(* librarian/queue.py, app.py, cli.py.                                     *)
(*                                                                         *)
(* The claim is written by the task in a transaction of its own, the       *)
(* completion by the detector in its transaction.  The poller reads the    *)
(* candidate rows once per pass, awaits gh for each, and holds SQLite's    *)
(* write lock from its first change to the commit at the end of the pass;  *)
(* a manual approval holds it while gh is awaited.  A rejection takes a    *)
(* completed session back to its merge phase and keeps its completed_at.   *)
(***************************************************************************)
EXTENDS Naturals, Sequences, SequencesExt

CONSTANTS
  Sessions,     \* sessions with an open pull request, each with srs.md
  Requests,     \* concurrent requests to the merge endpoints
  Environments  \* what may go wrong or be asked for: sets of Hazards

Hazards == {
  "request",    \* requests to the merge endpoints, beside the poller
  "reject",     \* a completed session is rejected
  "command",    \* wiki writeback is run from the command line
  "gh",         \* gh is missing or hangs when the merged diff is asked for
  "ingest",     \* the ingest agent is missing, fails or raises
  "locked",     \* the write lock is held past busy_timeout
  "demand",     \* a write-back is asked for before its session is completed
  "force",      \* a write-back is asked for again with force=true
  "shutdown",   \* the server stops in good order and starts again
  "crash" }     \* the server dies and starts again

ASSUME WriteBackAssumptions ==
  Sessions # {} /\ Environments \subseteq SUBSET Hazards

VARIABLES
  environment,  \* the hazards of this behavior, of Environments
  merged,       \* GitHub: the sessions whose pull request is merged
  completed,    \* the rows in phase completed
  stamped,      \* the rows with completed_at set
  claim,        \* the rows with wiki_writeback_at set
  queue,        \* each process's write-back tasks, the running one at the head
  step,         \* where its consumer is in the task at the head
  inFlight,     \* its _IN_FLIGHT
  poll,         \* the rows of the poller's pass it has yet to visit
  settled,      \* those it read as completed, and has yet to visit or commit
  holding,      \* the rows the pass has changed and not yet committed
  polling,      \* a pass is under way
  request,      \* what each request has read
  server,       \* "up", "stopping", "down"
  initialised,  \* the project's wiki is scaffolded
  ingested      \* the sessions an ingest was finished for

outside == <<environment, merged>>
wiki == <<initialised, ingested>>
poller == <<polling, poll, settled, holding>>
tasks == <<queue, step, inFlight>>
sessions == <<completed, stamped>>
vars == <<outside, sessions, claim, tasks, poller, request, server, wiki>>

\* Bound: forced requests may pile up tasks without limit in the code.
MaxTasks == 2

Request == [op : {"none", "status", "approve"}, session : Sessions,
            claimed : BOOLEAN, completed : BOOLEAN]

NoRequest == [op |-> "none", session |-> CHOOSE s \in Sessions : TRUE,
              claimed |-> FALSE, completed |-> FALSE]

Free(d) == request[d] = NoRequest

Release(d) == request' = [request EXCEPT ![d] = NoRequest]

\* SQLite's write lock can be had: the poller's pass has changed nothing yet,
\* and no approval is waiting for gh.
Unlocked == holding = {} /\ \A d \in Requests : request[d].op # "approve"

Processes == {"server", "command"}

Without(hazards) == environment \cap hazards = {}

(***************************************************************************)
(* enqueue_post_merge.                                                     *)
(***************************************************************************)

add_task(p, s) ==
  /\ queue' = [queue EXCEPT ![p] = Append(@, s)]
  /\ inFlight' = [inFlight EXCEPT ![p] = @ \cup {s}]

\* Without the mark, the claim alone guards the queue.
enqueue_unmarked(p, s) == Len(queue[p]) < MaxTasks /\ add_task(p, s)

enqueue_post_merge(p, s) ==
  IF s \in inFlight[p] THEN UNCHANGED <<queue, inFlight>> ELSE add_task(p, s)

(***************************************************************************)
(* poll_open_pull_requests.                                                *)
(***************************************************************************)

\* A poller that takes completed sessions for finished (the lockout the code
\* comments describe).
PollSelect_uncompleted ==
  /\ server = "up" /\ ~polling
  /\ polling' = TRUE
  /\ poll' = Sessions \ (claim \cup completed)
  /\ UNCHANGED <<outside, sessions, claim, tasks, settled, holding, request, server, wiki>>

PollSelect ==
  /\ server = "up" /\ ~polling
  /\ polling' = TRUE
  /\ poll' = Sessions \ claim
  /\ settled' = completed \ claim
  /\ UNCHANGED <<outside, sessions, claim, tasks, holding, request, server, wiki>>

\* The pass holds the lock, or can have it.
PollWrites == holding # {} \/ Unlocked

\* gh has no answer, or the pull request is open.  A pass that meets an approval
\* waits for its lock, unless that takes longer than busy_timeout.
PollSkips(s) ==
  /\ s \in poll
  /\ PollWrites \/ "locked" \in environment
  /\ poll' = poll \ {s} /\ settled' = settled \ {s}
  /\ UNCHANGED <<outside, sessions, claim, tasks, polling, holding, request, server, wiki>>

\* gh reports the merge: _on_merged with the claim and the phase the pass read.
\* Of a row that was completed there may be nothing to change.
PollSees(s) ==
  /\ s \in poll /\ s \in merged
  /\ poll' = poll \ {s}
  /\ \/ PollWrites /\ holding' = holding \cup {s} /\ UNCHANGED settled
     \/ s \in settled /\ settled' = settled \ {s} /\ UNCHANGED holding
  /\ enqueue_post_merge("server", s)
  /\ UNCHANGED <<outside, sessions, claim, step, polling, request, server, wiki>>

PollCommit ==
  /\ polling /\ poll = {}
  /\ polling' = FALSE
  /\ completed' = completed \cup (holding \ settled)
  /\ stamped' = stamped \cup (holding \ settled)
  /\ holding' = {} /\ settled' = {}
  /\ UNCHANGED <<outside, claim, tasks, poll, request, server, wiki>>

(***************************************************************************)
(* The requests.  The row is read first; gh is awaited; what was read then *)
(* decides.  An approval flushes its own change before it asks gh.         *)
(***************************************************************************)

LoadRow(d, s, op) ==
  /\ "request" \in environment
  /\ server = "up" /\ Free(d)
  /\ op = "approve" => s \notin completed /\ Unlocked
  /\ request' = [request EXCEPT ![d] = [op |-> op, session |-> s,
                   claimed |-> s \in claim, completed |-> s \in completed]]
  /\ UNCHANGED <<outside, sessions, claim, tasks, poller, server, wiki>>

\* What the request writes of the completion: a status that read the session as
\* claimed or completed writes nothing, an approval always does.
Writes(q) == q.op = "approve" \/ (~q.claimed /\ ~q.completed)

complete(s) == completed' = completed \cup {s} /\ stamped' = stamped \cup {s}

\* merge_status, reconcile_after_manual_approval, when gh reports the merge.
SeesMerge(d) ==
  LET q == request[d] IN
  /\ q.op \in {"status", "approve"} /\ q.session \in merged
  /\ IF q.claimed THEN UNCHANGED <<queue, inFlight>> ELSE enqueue_post_merge("server", q.session)
  /\ IF Writes(q)
     THEN (q.op = "approve" \/ Unlocked) /\ complete(q.session)
     ELSE UNCHANGED sessions
  /\ Release(d)
  /\ UNCHANGED <<outside, claim, step, poller, server, wiki>>

\* gh does not: the approval completes the session all the same.
SeesNoMerge(d) ==
  LET q == request[d] IN
  /\ q.op \in {"status", "approve"}
  /\ IF q.op = "approve" THEN complete(q.session) ELSE UNCHANGED sessions
  /\ Release(d)
  /\ UNCHANGED <<outside, claim, tasks, poller, server, wiki>>

\* The request is rolled back.
Fails(d) ==
  /\ ~Free(d)
  /\ Release(d)
  /\ UNCHANGED <<outside, sessions, claim, tasks, poller, server, wiki>>

\* reject_current: the phase it assigns is never the completed one, whatever phase
\* it read.
Rejects(s) ==
  /\ "reject" \in environment
  /\ server = "up" /\ Unlocked
  /\ s \in completed
  /\ completed' = completed \ {s}
  /\ UNCHANGED <<outside, stamped, claim, tasks, poller, request, server, wiki>>

\* POST wiki-writeback: the pull request's state is not looked at.
Trigger(s) ==
  /\ server = "up"
  /\ "demand" \in environment \/ s \in completed
  /\ s \notin claim
  /\ enqueue_post_merge("server", s)
  /\ UNCHANGED <<outside, sessions, claim, step, poller, request, server, wiki>>

\* force=true: the claim and the mark are dropped first.
ForceTrigger(s) ==
  /\ server = "up"
  /\ "force" \in environment
  /\ Unlocked /\ Len(queue["server"]) < MaxTasks
  /\ claim' = claim \ {s}
  /\ add_task("server", s)
  /\ UNCHANGED <<outside, sessions, step, poller, request, server, wiki>>

\* wiki_writeback of the CLI: the claim it read is checked, or forced away, and
\* its own queue has this one task.  Bound: one command at a time.
Command(s) ==
  /\ "command" \in environment
  /\ queue["command"] = <<>>
  /\ s \in claim => "force" \in environment /\ Unlocked
  /\ claim' = claim \ {s}
  /\ enqueue_post_merge("command", s)
  /\ UNCHANGED <<outside, sessions, step, poller, request, server, wiki>>

(***************************************************************************)
(* The consumer of a process: _task, run_post_merge.                       *)
(***************************************************************************)

running(p) == queue[p][1]

Consuming(p, at) ==
  /\ p = "server" => server # "down"
  /\ queue[p] # <<>> /\ step[p] = at

goes(p, at) == step' = [step EXCEPT ![p] = at]

Proceed(p, at) ==
  /\ goes(p, at)
  /\ UNCHANGED <<outside, sessions, claim, queue, inFlight, poller, request, server, wiki>>

\* A task that forgets its finally clause.
task_done_marked(p) ==
  queue' = [queue EXCEPT ![p] = Tail(@)] /\ goes(p, "idle") /\ UNCHANGED inFlight

task_done(p) ==
  /\ queue' = [queue EXCEPT ![p] = Tail(@)]
  /\ goes(p, "idle")
  /\ inFlight' = [inFlight EXCEPT ![p] = @ \ {running(p)}]

\* A claim that does not wait for the detector's transaction.
Claim_unlocked(p) ==
  /\ Consuming(p, "idle")
  /\ claim' = claim \cup {running(p)}
  /\ goes(p, "claimed")
  /\ UNCHANGED <<outside, sessions, queue, inFlight, poller, request, server, wiki>>

Claim(p) ==
  /\ Consuming(p, "idle")
  /\ Unlocked
  /\ claim' = claim \cup {running(p)}
  /\ goes(p, "claimed")
  /\ UNCHANGED <<outside, sessions, queue, inFlight, poller, request, server, wiki>>

\* "database is locked" is an Exception: the task goes on to release its claim.
ClaimTimesOut(p) ==
  /\ "locked" \in environment
  /\ Consuming(p, "idle")
  /\ Proceed(p, "failed")

NoWiki(p) ==
  /\ Consuming(p, "claimed") /\ ~initialised
  /\ Proceed(p, "failed")

\* generate_as_built: the record is written, or its harness fails and there is
\* none; what follows is the same.
GenerateAsBuilt(p) ==
  /\ Consuming(p, "claimed") /\ initialised
  /\ Proceed(p, "generated")

\* pull_request_diff raises: run_command lets a missing gh and a timeout through,
\* and the try of generate_as_built begins after the call.
AsBuiltRaises(p) ==
  /\ "gh" \in environment
  /\ Consuming(p, "claimed") /\ initialised
  /\ Proceed(p, "failed")

\* One ingest per artifact, enforce_needs_review and the wiki_writes rows; srs.md
\* is always there to ingest.
Ingest(p) ==
  /\ Consuming(p, "generated")
  /\ ingested' = ingested \cup {running(p)}
  /\ task_done(p)
  /\ UNCHANGED <<outside, sessions, claim, poller, request, server, initialised>>

\* No agent, a timeout or a non-zero exit: _ingest_one returns no pages and the
\* task succeeds.
IngestUnavailable(p) ==
  /\ "ingest" \in environment
  /\ Consuming(p, "generated")
  /\ task_done(p)
  /\ UNCHANGED <<outside, sessions, claim, poller, request, server, wiki>>

IngestRaises(p) ==
  /\ "ingest" \in environment
  /\ Consuming(p, "generated")
  /\ Proceed(p, "failed")

\* A failure handler that keeps the claim.
ReleaseClaim_kept(p) ==
  /\ Consuming(p, "failed")
  /\ Unlocked
  /\ task_done(p)
  /\ UNCHANGED <<outside, sessions, claim, poller, request, server, wiki>>

\* _claim(session_id, None), whoever holds the claim by now.
ReleaseClaim(p) ==
  /\ Consuming(p, "failed")
  /\ Unlocked
  /\ claim' = claim \ {running(p)}
  /\ task_done(p)
  /\ UNCHANGED <<outside, sessions, poller, request, server, wiki>>

\* A consumer that does not survive an exception of the handler itself.
ReleaseTimesOut_fatal(p) ==
  /\ "locked" \in environment
  /\ Consuming(p, "failed")
  /\ Proceed(p, "stopped")

ReleaseTimesOut(p) ==
  /\ "locked" \in environment
  /\ Consuming(p, "failed")
  /\ task_done(p)
  /\ UNCHANGED <<outside, sessions, claim, poller, request, server, wiki>>

(***************************************************************************)
(* lifespan: the poller is cancelled, then the queue is given 30 seconds   *)
(* to drain and its consumer cancelled; memory is lost.                    *)
(***************************************************************************)

StopPoller ==
  /\ "shutdown" \in environment
  /\ server = "up" /\ \A d \in Requests : Free(d)
  /\ server' = "stopping"
  /\ polling' = FALSE /\ poll' = {} /\ settled' = {} /\ holding' = {}
  /\ UNCHANGED <<outside, sessions, claim, tasks, request, wiki>>

\* What a process that ends has in memory.
forget(p) ==
  /\ queue' = [queue EXCEPT ![p] = <<>>]
  /\ goes(p, "idle")
  /\ inFlight' = [inFlight EXCEPT ![p] = {}]

StopQueue ==
  /\ server = "stopping"
  /\ server' = "down"
  /\ forget("server")
  /\ UNCHANGED <<outside, sessions, claim, poller, request, wiki>>

Crash ==
  /\ "crash" \in environment
  /\ server # "down"
  /\ server' = "down"
  /\ polling' = FALSE /\ poll' = {} /\ settled' = {} /\ holding' = {}
  /\ forget("server")
  /\ request' = [d \in Requests |-> NoRequest]
  /\ UNCHANGED <<outside, sessions, claim, wiki>>

\* The command is interrupted.
CommandKilled ==
  /\ "crash" \in environment
  /\ queue["command"] # <<>>
  /\ forget("command")
  /\ UNCHANGED <<outside, sessions, claim, poller, request, server, wiki>>

Start ==
  /\ server = "down"
  /\ server' = "up"
  /\ UNCHANGED <<outside, sessions, claim, tasks, poller, request, wiki>>

(***************************************************************************)
(* External: a maintainer merges, a user runs wiki init.                   *)
(***************************************************************************)

Merge(s) ==
  /\ s \notin merged
  /\ merged' = merged \cup {s}
  /\ UNCHANGED <<environment, sessions, claim, tasks, poller, request, server, wiki>>

WikiInit ==
  /\ ~initialised
  /\ initialised' = TRUE
  /\ UNCHANGED <<outside, sessions, claim, tasks, poller, request, server,
                 ingested>>

(***************************************************************************)
(* Specification.                                                          *)
(***************************************************************************)

Init ==
  /\ environment \in Environments
  /\ merged = {} /\ completed = {} /\ stamped = {} /\ claim = {}
  /\ queue = [p \in Processes |-> <<>>]
  /\ step = [p \in Processes |-> "idle"]
  /\ inFlight = [p \in Processes |-> {}]
  /\ polling = FALSE /\ poll = {} /\ settled = {} /\ holding = {}
  /\ request = [d \in Requests |-> NoRequest]
  /\ server = "up"
  /\ initialised \in BOOLEAN
  /\ ingested = {}

Poller ==
  \/ PollSelect \/ PollCommit
  \/ \E s \in Sessions : PollSkips(s) \/ PollSees(s)

\* The steps of a task that wait for no lock.
WorkOn(p) ==
  \/ NoWiki(p) \/ GenerateAsBuilt(p) \/ AsBuiltRaises(p)
  \/ Ingest(p) \/ IngestUnavailable(p) \/ IngestRaises(p)

Consumer(p) ==
  \/ Claim(p) \/ ClaimTimesOut(p)
  \/ WorkOn(p)
  \/ ReleaseClaim(p) \/ ReleaseTimesOut(p)

Answer(d) == SeesMerge(d) \/ SeesNoMerge(d) \/ Fails(d)

Handler(d) ==
  \/ \E s \in Sessions, op \in {"status", "approve"} : LoadRow(d, s, op)
  \/ Answer(d)

Next ==
  \/ Poller
  \/ \E p \in Processes : Consumer(p)
  \/ \E d \in Requests : Handler(d)
  \/ \E s \in Sessions : Trigger(s) \/ ForceTrigger(s) \/ Command(s) \/ Merge(s) \/ Rejects(s)
  \/ StopPoller \/ StopQueue \/ Crash \/ Start \/ CommandKilled
  \/ WikiInit

\* The poller ticks for ever and gh answers it again and again; a request waits
\* for gh no longer than its timeout; a consumer is never blocked for good, and
\* SQLite lets poller and consumer have the lock some time; the wiki is
\* scaffolded some day.
Fairness ==
  /\ SF_vars(Poller)
  /\ \A s \in Sessions : SF_vars(PollSees(s))
  /\ \A d \in Requests : WF_vars(Answer(d))
  /\ \A p \in Processes : WF_vars(WorkOn(p)) /\ SF_vars(Claim(p) \/ ReleaseClaim(p))
  /\ WF_vars(WikiInit)

Spec == Init /\ [][Next]_vars

FairSpec == Spec /\ Fairness

(***************************************************************************)
(* Properties.                                                             *)
(***************************************************************************)

TypeOK ==
  /\ environment \in Environments
  /\ merged \subseteq Sessions /\ completed \subseteq Sessions /\ stamped \subseteq Sessions
  /\ claim \subseteq Sessions
  /\ queue \in [Processes -> Seq(Sessions)]
  /\ step \in [Processes -> {"idle", "claimed", "generated", "failed"}]
  /\ inFlight \in [Processes -> SUBSET Sessions]
  /\ polling \in BOOLEAN /\ poll \subseteq Sessions
  /\ settled \subseteq Sessions /\ holding \subseteq Sessions
  /\ request \in [Requests -> Request]
  /\ server \in {"up", "stopping", "down"}
  /\ initialised \in BOOLEAN
  /\ ingested \subseteq Sessions

\* A session marked in _IN_FLIGHT has a task that will unmark it: a mark left
\* behind would turn every later detection of the merge away for good.
MarkIsScheduled == \A p \in Processes : \A s \in inFlight[p] : Contains(queue[p], s)

\* Unless it is forced, a process has one task per session at a time, and every
\* task marked, however many detectors see the merge at once.
OneTaskPerSession ==
  Without({"force"}) =>
    \A p \in Processes : IsInjective(queue[p]) /\ ToSet(queue[p]) \subseteq inFlight[p]

AtWork(p, s) == queue[p] # <<>> /\ running(p) = s /\ step[p] # "idle"

\* As long as ingests succeed, locks are had and processes end by themselves, a
\* claim stands for an ingest that is finished or under way, also when it was
\* forced, when gh failed the task, or when the server and a command work on
\* one session and each gives back what the other claimed.
ClaimIsHonest ==
  Without({"ingest", "locked", "shutdown", "crash"}) =>
    \A s \in claim : s \in ingested \/ \E p \in Processes : AtWork(p, s)

\* The task's claim waits for the detector's transaction: a session the poller
\* will skip from now on was completed, as its completed_at shows, unless its
\* write-back was asked for or the detector's transaction was rolled back.  It
\* need not be in the completed phase any more: a rejection may follow the
\* claim, and no detector completes the session again.
ClaimFollowsCompletion ==
  Without({"demand", "force", "command", "shutdown", "crash"}) => claim \subseteq stamped

\* "a failure that retries every poll tick is loud and heals itself when the
\* environment does" (enqueue_post_merge): where only the wiki is missing, a
\* merged session is ingested in the end, however many tasks of two processes
\* claim and release it, and completed, unless it was claimed before or may be
\* rejected after.  (A merge and an ingest are for ever.)
MergeIsIngested ==
  \A s \in Sessions :
    []<>(s \in merged /\ Without({"gh", "ingest", "locked", "shutdown", "crash"}) =>
           /\ s \in ingested
           /\ s \in completed \/ ~Without({"demand", "force", "command", "reject"}))

\* "The write-back must still ingest the specification if this cannot run"
\* (generate_as_built): without gh, too.
SpecificationIsIngested == \A s \in Sessions : s \in merged ~> s \in ingested

\* "a permanent silent skip never does" heal (enqueue_post_merge): a claim
\* nobody is working on stands for a finished ingest.
NoSilentSkip ==
  \A s \in claim : s \in ingested \/ \E p \in Processes : Contains(queue[p], s)
==============================================================================
