------------------------------ MODULE WikiReview ------------------------------
(***************************************************************************)
(* What automation writes into the wiki, and how a human disposes of it.   *)
(* One consumer runs the queue's tasks: an ingest, in which agents write   *)
(* pages and the server flags and records what they list, a regeneration   *)
(* of the super summary, a lint.  Beside the queue, page reviews change    *)
(* files and rows, and proposals are approved or rejected; an approval and *)
(* a lint await their task's future.  A command in a process of its own    *)
(* compares files and rows and repairs what disagrees.  One wiki           *)
(* repository, whose owner deletes, stages and commits pages at will, alone *)
(* or beside the vaults of other projects.  Sources: api/wiki.py,          *)
(* librarian/queue.py, librarian/writeback.py, librarian/super_summary.py, *)
(* librarian/reconcile.py, cli.py.                                         *)
(***************************************************************************)
EXTENDS Naturals, SequencesExt, FiniteSetsExt

CONSTANTS
  Pages,
  SummaryPage,   \* the page a regeneration writes
  Artifacts,     \* the files of a session that are ingested, one agent each
  Requests,      \* concurrent requests
  Casts,         \* bound: who acts in a behavior, sets of Requests,
                 \* "reconcile", "proposals" and the "owner", who may be a
                 \* "stager"; and what other vaults there are: "vaults", without
                 \* its pages, or "twin", with a file of every path, looked into
                 \* first
  Options,       \* bound: the sets of options wiki reconcile --apply is called with
  MaxIngests,    \* bound: the write-backs enqueued
  MaxFailures    \* bound: requests and tasks that fail, and crashes

ASSUME WikiAssumptions ==
  /\ Options \subseteq SUBSET {"adopt", "allow_dirty"}
  /\ Casts \subseteq SUBSET (Requests \cup {"reconcile", "owner", "proposals", "stager", "vaults", "twin"})
  /\ IsFiniteSet(Pages) /\ SummaryPage \in Pages /\ Artifacts \in Nat \ {0}
  /\ MaxIngests \in Nat /\ MaxFailures \in Nat
  /\ "none" \notin Requests

VARIABLES
  cast,       \* who acts, of Casts
  page,       \* each file, by its needs_review flag
  index,      \* the same in git's index
  head,       \* the same in git's HEAD
  rows,       \* wiki_writes
  proposals,  \* the status of each row of super_summary_proposals
  queue,      \* the tasks, the running one at the head
  step,       \* where the consumer is in it
  agents,     \* the agents of the running task that have ended
  listed,     \* the pages they said they wrote
  completed,  \* the proposals a regeneration was run to its end for
  request,    \* what each request does
  command,    \* what wiki reconcile does
  orphans,    \* the tasks of a server that died whose agents did not
  ingests, failures

files == <<page, index, head>>
tables == <<rows, proposals>>
consumer == <<queue, step, agents, listed, completed>>
beside == <<cast, command, orphans>>

vars == <<cast, files, tables, consumer, request, command, orphans, ingests, failures>>

NoOne == "none"

NoProposal == 0

\* An agent lists a page once; the next artifact's agent may list it again.  A
\* page without a row is adopted once.
MaxRows == (MaxIngests * Artifacts + 1) * Cardinality(Pages)

File == {"absent", "flagged", "clear"}

Row == [page : Pages, needs_review : BOOLEAN]

Proposal == 1..MaxIngests

\* for: the request that holds the task's future, if any.
Task == [kind : {"ingest", "summary", "lint"}, for : Requests \cup {NoOne},
         proposal : Proposal \cup {NoProposal}]

task(kind, d, i) == [kind |-> kind, for |-> d, proposal |-> i]

\* seen: the rows a review has loaded.
Request == [at : {"idle", "checkout", "restored", "unlink", "select", "commit",
                  "await", "answered"},
            page : Pages, seen : SUBSET (1..MaxRows),
            proposal : Proposal \cup {NoProposal}]

Idle == [at |-> "idle", page |-> SummaryPage, seen |-> {}, proposal |-> NoProposal]

\* options: of the call, while they matter.  labels, unknown: the pages of its report, or what the rows
\* leave of them until the files are read.
Command == [at : {"none", "scan", "status", "write"},
            options : SUBSET UNION Options,
            labels : SUBSET Pages, unknown : SUBSET Pages]

NoCommand == [at |-> "none", options |-> {}, labels |-> {}, unknown |-> {}]

\* The rows it lists, before those of one page are collapsed.
review_queue == {i \in DOMAIN rows : rows[i].needs_review}

At(d, at) == request[d].at = at

Free(d) == d \in cast /\ At(d, "idle")

Go(d, at) == request' = [request EXCEPT ![d].at = at]

submit(t) == queue' = Append(queue, t)

(***************************************************************************)
(* The consumer.                                                           *)
(***************************************************************************)

running == Head(queue)

StartTask ==
  /\ step = "idle" /\ queue # <<>>
  /\ step' = "agent"
  /\ UNCHANGED <<files, tables, queue, agents, listed, completed, request, ingests, failures, beside>>

\* Those whose agents are at work.
writing == orphans \cup (IF step = "agent" THEN {running.kind} ELSE {})

\* Read-only for a lint; the agent of a regeneration keeps to its page.  An
\* agent may flag a page itself, and may leave it unflagged.
AgentWrites(p) ==
  /\ \/ "ingest" \in writing
     \/ "summary" \in writing /\ p = SummaryPage
  /\ \E f \in {"flagged", "clear"} : page' = [page EXCEPT ![p] = f]
  /\ UNCHANGED <<index, head, tables, consumer, request, ingests, failures, beside>>

\* A future set while its holder may still be waiting.
TaskDone_unanswered(outcome) ==
  /\ queue' = Tail(queue)
  /\ step' = "idle" /\ agents' = 0 /\ listed' = <<>>
  /\ completed' = completed \cup ({running.proposal} \ {NoProposal})
  /\ request' = IF running.for = NoOne \/ outcome = "raised" THEN request
                ELSE [request EXCEPT ![running.for].at = "answered"]

\* The future is given a result, or the exception that ends its holder.
TaskDone(outcome) ==
  /\ queue' = Tail(queue)
  /\ step' = "idle" /\ agents' = 0 /\ listed' = <<>>
  /\ completed' = IF outcome = "raised" THEN completed
                  ELSE completed \cup ({running.proposal} \ {NoProposal})
  /\ request' = IF running.for = NoOne THEN request
                ELSE [request EXCEPT ![running.for] =
                        IF outcome = "raised" THEN Idle ELSE [@ EXCEPT !.at = "answered"]]

enforce_needs_review(pages) ==
  page' = [p \in Pages |-> IF p \in pages /\ page[p] # "absent" THEN "flagged" ELSE page[p]]

\* Whatever it wrote: an agent that fails, or is timed out, lists nothing.
IngestAgentEnds ==
  /\ step = "agent" /\ running.kind = "ingest" /\ agents < Artifacts
  /\ \E pages \in SUBSET Pages : listed' = listed \o SetToSeq(pages)
  /\ agents' = agents + 1
  /\ UNCHANGED <<files, tables, queue, step, completed, request, ingests, failures, beside>>

\* A page no agent listed is neither flagged nor recorded.
IngestEnds ==
  /\ step = "agent" /\ running.kind = "ingest" /\ agents = Artifacts
  /\ enforce_needs_review(ToSet(listed))
  /\ IF listed = <<>>
     THEN TaskDone("result")
     ELSE step' = "record" /\ UNCHANGED <<queue, agents, listed, completed, request>>
  /\ UNCHANGED <<index, head, tables, ingests, failures, beside>>

\* Flagged, and not recorded.
RegenerationEnds ==
  /\ step = "agent" /\ running.kind = "summary"
  /\ \E pages \in SUBSET {SummaryPage} : enforce_needs_review(pages)
  /\ TaskDone("result")
  /\ UNCHANGED <<index, head, tables, ingests, failures, beside>>

LintEnds ==
  /\ step = "agent" /\ running.kind = "lint"
  /\ TaskDone("result")
  /\ UNCHANGED <<files, tables, ingests, failures, beside>>

recorded == [i \in DOMAIN listed |-> [page |-> listed[i], needs_review |-> TRUE]]

\* A transaction that is tried again after it was committed.
record_writes_again ==
  /\ step = "record"
  /\ rows' = rows \o recorded
  /\ step' \in {"record", "propose"}
  /\ UNCHANGED <<files, proposals, queue, agents, listed, completed, request, ingests, failures, beside>>

record_writes ==
  /\ step = "record"
  /\ rows' = rows \o recorded
  /\ step' = "propose"
  /\ UNCHANGED <<files, proposals, queue, agents, listed, completed, request, ingests, failures, beside>>

\* Then a lint, which changes nothing.
propose_super_summary ==
  /\ step = "propose"
  /\ proposals' = Append(proposals, "pending")
  /\ TaskDone("result")
  /\ UNCHANGED <<files, rows, ingests, failures, beside>>

\* A locked database, or any exception of the task's.
TaskRaises ==
  /\ step # "idle" /\ failures < MaxFailures
  /\ failures' = failures + 1
  /\ TaskDone("raised")
  /\ UNCHANGED <<files, tables, ingests, beside>>

(***************************************************************************)
(* Page reviews.                                                           *)
(***************************************************************************)

clear_needs_review(p) ==
  page' = [page EXCEPT ![p] = IF @ = "flagged" THEN "clear" ELSE @]

\* The first vault that has a file of the path is the one it acts on.
approve_page(d, p) ==
  /\ Free(d)
  /\ IF "twin" \in cast THEN UNCHANGED page
     ELSE page[p] # "absent" /\ clear_needs_review(p)
  /\ request' = [request EXCEPT ![d].at = "select", ![d].page = p]
  /\ UNCHANGED <<index, head, tables, consumer, ingests, failures, beside>>

\* Of several vaults none has the file, and none has it in its HEAD.
nowhere(p) == "vaults" \in cast /\ page[p] = "absent" /\ head[p] = "absent"

\* _locate_for_reject tolerates a page that is gone from the only vault.
reject_page(d, p) ==
  /\ Free(d) /\ ~nowhere(p)
  /\ request' = [request EXCEPT ![d].at = IF "twin" \in cast THEN "select" ELSE "checkout",
                                ![d].page = p]
  /\ UNCHANGED <<files, tables, consumer, ingests, failures, beside>>

\* From the index.  It fails without the page there, or when git is at work.
git_checkout(d) ==
  LET p == request[d].page IN
  /\ At(d, "checkout")
  /\ \/ index[p] # "absent" /\ page' = [page EXCEPT ![p] = index[p]] /\ Go(d, "restored")
     \/ UNCHANGED page /\ Go(d, "unlink")
  /\ UNCHANGED <<index, head, tables, consumer, ingests, failures, beside>>

\* A page committed with its flag comes back with it.
ClearRestored(d) ==
  /\ At(d, "restored")
  /\ clear_needs_review(request[d].page)
  /\ Go(d, "select")
  /\ UNCHANGED <<index, head, tables, consumer, ingests, failures, beside>>

Unlink(d) ==
  /\ At(d, "unlink")
  /\ page' = [page EXCEPT ![request[d].page] = "absent"]
  /\ Go(d, "select")
  /\ UNCHANGED <<index, head, tables, consumer, ingests, failures, beside>>

SelectRows(d) ==
  /\ At(d, "select")
  /\ request' = [request EXCEPT ![d].at = "commit",
       ![d].seen = {i \in DOMAIN rows : rows[i].page = request[d].page}]
  /\ UNCHANGED <<files, tables, consumer, ingests, failures, beside>>

settled(ids) ==
  [i \in DOMAIN rows |-> IF i \in ids THEN [rows[i] EXCEPT !.needs_review = FALSE] ELSE rows[i]]

\* An UPDATE of every row of the page, whenever it was written.
CommitReview_all(d) ==
  /\ At(d, "commit")
  /\ rows' = settled({i \in DOMAIN rows : rows[i].page = request[d].page})
  /\ request' = [request EXCEPT ![d] = Idle]
  /\ UNCHANGED <<files, proposals, consumer, ingests, failures, beside>>

\* The rows loaded are written back, no others.
CommitReview(d) ==
  /\ At(d, "commit")
  /\ rows' = settled(request[d].seen)
  /\ request' = [request EXCEPT ![d] = Idle]
  /\ UNCHANGED <<files, proposals, consumer, ingests, failures, beside>>

(***************************************************************************)
(* Proposals and lints.                                                    *)
(***************************************************************************)

approve_super_summary(d, i) ==
  /\ "proposals" \in cast
  /\ Free(d) /\ proposals[i] = "pending"
  /\ submit(task("summary", d, i))
  /\ request' = [request EXCEPT ![d].at = "await", ![d].proposal = i]
  /\ UNCHANGED <<files, tables, step, agents, listed, completed, ingests, failures, beside>>

trigger_lint(d) ==
  /\ "proposals" \in cast
  /\ Free(d)
  /\ submit(task("lint", d, NoProposal))
  /\ Go(d, "await")
  /\ UNCHANGED <<files, tables, step, agents, listed, completed, ingests, failures, beside>>

\* An approval recorded before its task was run.
Answer_early(d) ==
  LET i == request[d].proposal IN
  /\ request[d].at \in {"await", "answered"}
  /\ proposals' = IF i = NoProposal THEN proposals
                  ELSE [proposals EXCEPT ![i] = "approved"]
  /\ request' = [request EXCEPT ![d] = Idle]
  /\ UNCHANGED <<files, rows, consumer, ingests, failures, beside>>

\* The status is not looked at again.
Answer(d) ==
  LET i == request[d].proposal IN
  /\ At(d, "answered")
  /\ proposals' = IF i = NoProposal THEN proposals
                  ELSE [proposals EXCEPT ![i] = "approved"]
  /\ request' = [request EXCEPT ![d] = Idle]
  /\ UNCHANGED <<files, rows, consumer, ingests, failures, beside>>

\* Whatever the status.
reject_super_summary(i) ==
  /\ "proposals" \in cast
  /\ proposals' = [proposals EXCEPT ![i] = "rejected"]
  /\ UNCHANGED <<files, rows, consumer, request, ingests, failures, beside>>

\* A locked database, a git that does not answer, a client that goes: the
\* future of a request that waits is cancelled, its task stays.
RequestFails(d) ==
  /\ ~At(d, "idle") /\ failures < MaxFailures
  /\ failures' = failures + 1
  /\ request' = [request EXCEPT ![d] = Idle]
  /\ queue' = [n \in DOMAIN queue |->
                 IF queue[n].for = d THEN [queue[n] EXCEPT !.for = NoOne] ELSE queue[n]]
  /\ UNCHANGED <<files, tables, step, agents, listed, completed, ingests, beside>>

(***************************************************************************)
(* wiki reconcile --apply, in a process of its own.                        *)
(***************************************************************************)

flagged == {p \in Pages : page[p] = "flagged"}

known == {rows[i].page : i \in DOMAIN rows}

pending == {rows[i].page : i \in review_queue}

\* survey: the rows first, then the files.
SurveyRows(options) ==
  /\ "reconcile" \in cast /\ command.at = "none"
  /\ command' = [at |-> "scan", options |-> options,
                 labels |-> known \ pending, unknown |-> Pages \ known]
  /\ UNCHANGED <<cast, orphans, files, tables, consumer, request, ingests, failures>>

\* A survey of the rows of any disposition.
SurveyFiles_settled ==
  /\ command.at = "scan"
  /\ command' = [command EXCEPT !.at = "status",
                 !.labels = flagged \ @, !.unknown = {}]
  /\ UNCHANGED <<cast, orphans, files, tables, consumer, request, ingests, failures>>

\* A report with nothing to change ends here, whatever else it lists.
SurveyFiles ==
  LET labels == command.labels \cap flagged
      unknown == command.unknown \cap flagged
  IN
  /\ command.at = "scan"
  /\ command' = IF labels \cup unknown = {} THEN NoCommand
                ELSE [command EXCEPT !.at = "status", !.labels = labels, !.unknown = unknown]
  /\ UNCHANGED <<cast, orphans, files, tables, consumer, request, ingests, failures>>

\* "so this is reversible"; a git status that fails refuses nothing.
CheckStatus ==
  /\ command.at = "status"
  /\ \/ (page # index \/ index # head) /\ "allow_dirty" \notin command.options /\ command' = NoCommand
     \/ command' = [command EXCEPT !.at = "write", !.options = @ \ {"allow_dirty"}]
  /\ UNCHANGED <<cast, orphans, files, tables, consumer, request, ingests, failures>>

\* The file is read again, its rows are not; a file that is gone raises.
apply_stale_label(p) ==
  /\ command.at = "write" /\ p \in command.labels
  /\ clear_needs_review(p)
  /\ command' = IF page[p] = "absent" THEN NoCommand
                ELSE [command EXCEPT !.labels = @ \ {p}]
  /\ UNCHANGED <<cast, orphans, index, head, tables, consumer, request, ingests, failures>>

adopt_unknown ==
  /\ command.at = "write" /\ command.labels = {}
  /\ rows' = IF "adopt" \notin command.options THEN rows
             ELSE rows \o [i \in 1..Cardinality(command.unknown) |->
                             [page |-> SetToSeq(command.unknown)[i], needs_review |-> TRUE]]
  /\ command' = NoCommand
  /\ UNCHANGED <<cast, orphans, files, proposals, consumer, request, ingests, failures>>

\* A locked database, or the user stops it: labels that are written stay written.
CommandFails ==
  /\ command.at # "none" /\ failures < MaxFailures
  /\ failures' = failures + 1
  /\ command' = NoCommand
  /\ UNCHANGED <<cast, orphans, files, tables, consumer, request, ingests>>

(***************************************************************************)
(* Around them.                                                            *)
(***************************************************************************)

\* enqueue_post_merge (module WriteBack).
EnqueueIngest ==
  /\ ingests < MaxIngests
  /\ ingests' = ingests + 1
  /\ submit(task("ingest", NoOne, NoProposal))
  /\ UNCHANGED <<files, tables, step, agents, listed, completed, request, failures, beside>>

OwnerDeletes(p) ==
  /\ "owner" \in cast
  /\ page' = [page EXCEPT ![p] = "absent"]
  /\ UNCHANGED <<index, head, tables, consumer, request, ingests, failures, beside>>

OwnerStages(p) ==
  /\ "stager" \in cast
  /\ index' = [index EXCEPT ![p] = page[p]]
  /\ UNCHANGED <<page, head, tables, consumer, request, ingests, failures, beside>>

OwnerCommits(p) ==
  /\ "owner" \in cast
  /\ index' = [index EXCEPT ![p] = page[p]]
  /\ head' = [head EXCEPT ![p] = page[p]]
  /\ UNCHANGED <<page, tables, consumer, request, ingests, failures, beside>>

\* The server dies, its queue and its requests with it, and is started again.  An
\* agent, a process of its own, may go on.
Crash ==
  /\ failures < MaxFailures
  /\ failures' = failures + 1
  /\ orphans' \in {orphans, writing \ {"lint"}}
  /\ queue' = <<>> /\ step' = "idle" /\ agents' = 0 /\ listed' = <<>>
  /\ request' = [d \in Requests |-> Idle]
  /\ UNCHANGED <<cast, command, files, tables, completed, ingests>>

OrphanEnds ==
  \E kind \in orphans :
    /\ orphans' = orphans \ {kind}
    /\ UNCHANGED <<cast, command, files, tables, consumer, request, ingests, failures>>

(***************************************************************************)
(* Specification.                                                          *)
(***************************************************************************)

Init ==
  /\ cast \in Casts
  /\ page = [p \in Pages |-> "absent"]
  /\ index = page /\ head = page
  /\ rows = <<>> /\ proposals = <<>>
  /\ queue = <<>> /\ step = "idle" /\ agents = 0 /\ listed = <<>> /\ completed = {}
  /\ request = [d \in Requests |-> Idle] /\ command = NoCommand
  /\ orphans = {}
  /\ ingests = 0 /\ failures = 0

Consume ==
  \/ StartTask
  \/ IngestAgentEnds \/ IngestEnds \/ RegenerationEnds \/ LintEnds
  \/ record_writes \/ propose_super_summary

Review(d) ==
  \/ git_checkout(d) \/ ClearRestored(d) \/ Unlink(d)
  \/ SelectRows(d) \/ CommitReview(d) \/ Answer(d)

Repair ==
  \/ SurveyFiles \/ CheckStatus
  \/ \E p \in Pages : apply_stale_label(p)
  \/ adopt_unknown

Next ==
  \/ Consume \/ TaskRaises
  \/ \E p \in Pages : AgentWrites(p) \/ OwnerDeletes(p) \/ OwnerStages(p) \/ OwnerCommits(p)
  \/ \E d \in Requests :
       \/ \E p \in Pages : approve_page(d, p) \/ reject_page(d, p)
       \/ \E i \in DOMAIN proposals : approve_super_summary(d, i)
       \/ trigger_lint(d)
       \/ Review(d) \/ RequestFails(d)
  \/ \E i \in DOMAIN proposals : reject_super_summary(i)
  \/ \E options \in Options : SurveyRows(options)
  \/ Repair \/ CommandFails
  \/ EnqueueIngest \/ Crash \/ OrphanEnds

\* The consumer, every request and a command go on, each agent ends or is timed
\* out, and the user rejects, again and again, what is in the review queue, and
\* has the labels reconciled with both options.
Fairness ==
  /\ WF_vars(Consume)
  /\ \A d \in Requests : WF_vars(Review(d))
  /\ \A p \in Pages : SF_vars(p \in pending /\ \E d \in Requests : reject_page(d, p))
  /\ WF_vars(Repair)
  /\ SF_vars(SurveyRows({"adopt", "allow_dirty"}))

Spec == Init /\ [][Next]_vars

FairSpec == Spec /\ Fairness

(***************************************************************************)
(* Properties.                                                             *)
(***************************************************************************)

TypeOK ==
  /\ cast \in Casts /\ command \in Command
  /\ page \in [Pages -> File] /\ index \in [Pages -> File] /\ head \in [Pages -> File]
  /\ orphans \subseteq {"ingest", "summary"}
  /\ rows \in Seq(Row) /\ Len(rows) <= MaxRows
  /\ proposals \in Seq({"pending", "approved", "rejected"})
  /\ queue \in Seq(Task)
  /\ step \in {"idle", "agent", "record", "propose"}
  /\ agents \in 0..Artifacts /\ listed \in Seq(Pages)
  /\ completed \subseteq Proposal
  /\ request \in [Requests -> Request]
  /\ ingests \in 0..MaxIngests /\ failures \in 0..MaxFailures

\* A write leaves the review queue only when a review of its page is committed
\* that had loaded it (approve_page, reject_page): what is recorded after the load
\* stays in the queue.  What is recorded before it is settled, even if the ingest
\* rewrote the page after this review had read, restored or removed the file.
SettledWasSeen ==
  [][\A i \in 1..MaxRows :
       i \in review_queue /\ i \notin review_queue' =>
         \E d \in Requests :
           request[d].page = rows[i].page /\ i \in request[d].seen /\ request'[d] = Idle]_vars

\* "must still clear the queue entry" (_locate_for_reject): nothing stays in the
\* review queue that a user cannot dispose of, whether its page was removed,
\* staged, committed or written again, and whether or not git answers; but for a
\* page that is in none of several vaults, whose rejection is refused while it is.
\* (An entry that is out of the queue again and again is one that always leaves it.)
RowsAreDisposedOf ==
  \A i \in 1..MaxRows :
    []<>(i \notin review_queue) \/ <>[](i \in review_queue /\ nowhere(rows[i].page))

\* "puts it in front of a human" (adopt_unknown): a page that is flagged without a
\* row to review, by an agent that failed or was not believed, or after a review
\* that raced with an agent, is put in the queue or loses its label, once wiki
\* reconcile is run to its end, however it overlaps with the server.
FlagsAreQueued ==
  \A p \in Pages : []<>("reconcile" \in cast /\ p \in flagged => p \in pending)

\* Files and rows agree in the end on what there is to review, and it is reviewed.
PendingIsReviewable == RowsAreDisposedOf /\ FlagsAreQueued

\* A proposal reads approved only when its regeneration was run by the queue,
\* and did not raise (approve_super_summary), however its approvals and
\* rejections race and whatever stops them or the server on the way.
ApprovedWasRun ==
  \A i \in DOMAIN proposals : proposals[i] = "approved" => i \in completed

\* A request that waits for the queue waits for a task that is in it, and gets
\* its answer: whatever becomes of the tasks before it, none waits for ever.
AwaitIsAnswered == \A d \in Requests : []<>~At(d, "await")
==============================================================================
