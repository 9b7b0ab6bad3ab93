---------------------------- MODULE ReviewTriage ----------------------------
(***************************************************************************)
(* The findings of a session's review and what was decided of each: the    *)
(* triage file beside review.md, the follow-up runs that fix findings, and *)
(* the listing that closes the loop once a run has ended.  The file is     *)
(* read and written in one step of the event loop, but a listing awaits    *)
(* the database between its read and its writes, and a fix awaits the      *)
(* launch of its run; and a write that is cut short leaves a file nobody   *)
(* can parse.  Sources: services/review.py, api/review.py.                 *)
(***************************************************************************)
EXTENDS Naturals

CONSTANTS
  Findings,    \* finding ids; a new review uses them again
  Requests,    \* concurrent requests
  Reports,     \* bound: the sets of findings a review may report
  MaxRuns      \* bound: the follow-up runs

ASSUME TriageAssumptions ==
  Findings # {} /\ Reports \subseteq SUBSET Findings /\ MaxRuns \in Nat

VARIABLES
  report,      \* the ids in review.md, none before the first review
  triage,      \* what load_triage makes of review-triage.json
  torn,        \* whether the last write was cut short, so that it does not parse
  runs,        \* how many follow-up runs were started
  status,      \* runs.status of each
  fixes,       \* the finding each was started for
  request      \* what each request has read

followUps == <<runs, status, fixes>>
file == <<triage, torn>>
vars == <<report, file, followUps, request>>

Run == 1..MaxRuns

NoRun == 0

\* A finding without an entry, or without a status in it, reads as open.
Entry == [status : {"open", "fixing", "fixed", "dismissed"},
          run : Run \cup {NoRun}]

\* todo: the findings a listing read as fixing, with their runs; finding, run:
\* those of a fix.
Request == [op : {"none", "list", "fix", "mark"}, todo : SUBSET (Findings \X Run),
            finding : Findings, run : Run \cup {NoRun}]

Idle == [op |-> "none", todo |-> {}, finding |-> CHOOSE f \in Findings : TRUE,
         run |-> NoRun]

Free(d) == request[d] = Idle

Finish(d) == request' = [request EXCEPT ![d] = Idle]

Ended(r) == status[r] \in {"completed", "failed"}

NoEntry == [status |-> "open", run |-> NoRun]

(***************************************************************************)
(* set_finding_status: the entry keeps its run unless it is given one; the *)
(* whole file is written anew.                                             *)
(***************************************************************************)

\* A write that leaves the entry's run alone.
set_finding_status_only(f, s, r) ==
  triage' = [triage EXCEPT ![f].status = s] /\ torn' = FALSE

set_finding_status(f, s, r) ==
  /\ triage' = [triage EXCEPT ![f] =
       [status |-> s, run |-> IF r = NoRun THEN @.run ELSE r]]
  /\ torn' = FALSE

(***************************************************************************)
(* review/run: review.md is replaced; the triage file stays as it is.      *)
(***************************************************************************)

Review ==
  /\ report' \in Reports
  /\ UNCHANGED <<file, followUps, request>>

(***************************************************************************)
(* GET findings: findings_with_triage, then reconcile_fixing.              *)
(***************************************************************************)

findings_with_triage ==
  {<<f, triage[f].run>> : f \in {g \in report :
     triage[g].status = "fixing" /\ triage[g].run # NoRun}}

ListFindings(d) ==
  /\ Free(d) /\ findings_with_triage # {}
  /\ request' = [request EXCEPT ![d].op = "list", ![d].todo = findings_with_triage]
  /\ UNCHANGED <<report, file, followUps>>

\* A reconciliation that takes a run it need not wait for as one that failed.
delivered_hasty(r) == IF status[r] = "completed" THEN "fixed" ELSE "open"

\* A reconciliation that copies the run's status.
delivered_copied(r) == IF Ended(r) THEN status[r] ELSE "fixing"

\* A reconciliation that forgets the failed runs.
delivered_only(r) == IF status[r] = "completed" THEN "fixed" ELSE "fixing"

\* What the end of a run says of its finding.
delivered(r) ==
  IF status[r] = "completed" THEN "fixed"
  ELSE IF status[r] = "failed" THEN "open"
  ELSE "fixing"

\* One run looked up, and what was read of the finding before is written back.
reconcile_fixing(d, f) ==
  /\ request[d].op = "list"
  /\ \E r \in Run :
       /\ <<f, r>> \in request[d].todo
       /\ IF delivered(r) = "fixing"
          THEN UNCHANGED file
          ELSE set_finding_status(f, delivered(r), r)
       /\ IF request[d].todo = {<<f, r>>}
          THEN Finish(d)
          ELSE request' = [request EXCEPT ![d].todo = @ \ {<<f, r>>}]
  /\ UNCHANGED <<report, followUps>>

(***************************************************************************)
(* dismiss, reopen: the id is not looked up in the report.                 *)
(***************************************************************************)

dismiss_finding(f) ==
  /\ set_finding_status(f, "dismissed", NoRun)
  /\ UNCHANGED <<report, followUps, request>>

reopen_finding(f) ==
  /\ set_finding_status(f, "open", NoRun)
  /\ UNCHANGED <<report, followUps, request>>

(***************************************************************************)
(* fix: whatever the finding's status.                                     *)
(***************************************************************************)

LoadFix(d, f) ==
  /\ Free(d) /\ f \in report
  /\ request' = [request EXCEPT ![d].op = "fix", ![d].finding = f]
  /\ UNCHANGED <<report, file, followUps>>

StartRun(d) ==
  /\ request[d].op = "fix" /\ runs < MaxRuns
  /\ runs' = runs + 1
  /\ status' = [status EXCEPT ![runs + 1] = "running"]
  /\ fixes' = [fixes EXCEPT ![runs + 1] = {request[d].finding}]
  /\ request' = [request EXCEPT ![d].op = "mark", ![d].run = runs + 1]
  /\ UNCHANGED <<report, file>>

MarkFixing(d) ==
  /\ request[d].op = "mark"
  /\ set_finding_status(request[d].finding, "fixing", request[d].run)
  /\ Finish(d)
  /\ UNCHANGED <<report, followUps>>

\* No runner, a launch that fails, a lookup that finds the database locked, or
\* the end of the server.
Fails(d) ==
  /\ ~Free(d)
  /\ Finish(d)
  /\ UNCHANGED <<report, file, followUps>>

(***************************************************************************)
(* save_triage writes in place.  It may be cut short once it has emptied   *)
(* the file: by the end of the server, which takes every request with it,  *)
(* or by a full disk, which fails the request that was writing: a listing, *)
(* a fix, or a decision.  load_triage then makes no entry of what is left. *)
(***************************************************************************)

Saving(d) ==
  \/ request[d].op = "mark"
  \/ request[d].op = "list" /\ \E e \in request[d].todo : delivered(e[2]) # "fixing"

SaveIsCut ==
  /\ torn' = TRUE
  /\ triage' = [f \in Findings |-> NoEntry]
  /\ \/ request' = [d \in Requests |-> Idle]
     \/ \E d \in Requests : Saving(d) /\ Finish(d)
     \/ UNCHANGED request
  /\ UNCHANGED <<report, followUps>>

(***************************************************************************)
(* The runs end by themselves (module RunSupervisor).                      *)
(***************************************************************************)

RunEnds(r) ==
  /\ status[r] = "running"
  /\ \E s \in {"completed", "failed"} : status' = [status EXCEPT ![r] = s]
  /\ UNCHANGED <<report, file, runs, fixes, request>>

(***************************************************************************)
(* Specification.                                                          *)
(***************************************************************************)

Init ==
  /\ report = {}
  /\ triage = [f \in Findings |-> NoEntry]
  /\ torn = FALSE
  /\ runs = 0
  /\ status = [r \in Run |-> "none"]
  /\ fixes = [r \in Run |-> {}]
  /\ request = [d \in Requests |-> Idle]

Handler(d) ==
  \/ ListFindings(d)
  \/ \E f \in Findings : reconcile_fixing(d, f) \/ LoadFix(d, f)
  \/ StartRun(d) \/ MarkFixing(d) \/ Fails(d)

Triage(f) == dismiss_finding(f) \/ reopen_finding(f)

Next ==
  \/ Review
  \/ \E d \in Requests : Handler(d)
  \/ \E f \in Findings : Triage(f)
  \/ \E r \in Run : RunEnds(r)
  \/ SaveIsCut

\* Every request is answered; the findings are looked at again and again, and
\* now and then a listing gets as far as each of them.
Fairness ==
  \A d \in Requests :
    /\ WF_vars(StartRun(d) \/ MarkFixing(d) \/ Fails(d))
    /\ SF_vars(ListFindings(d))
    /\ \A f \in Findings : SF_vars(reconcile_fixing(d, f))

Spec == Init /\ [][Next]_vars

FairSpec == Spec /\ Fairness

(***************************************************************************)
(* Properties.                                                             *)
(***************************************************************************)

TypeOK ==
  /\ report \subseteq Findings
  /\ triage \in [Findings -> Entry]
  /\ torn \in BOOLEAN
  /\ runs \in 0..MaxRuns
  /\ status \in [Run -> {"none", "running", "completed", "failed"}]
  /\ fixes \in [Run -> SUBSET Findings]
  /\ request \in [Requests -> Request]

\* A finding says fixed only on the word of a run that was started for it and
\* completed, and fixing only of a run started for it, whatever stale listings,
\* second fixes, new reviews and torn writes have come in between.
TriageMatchesRuns ==
  \A f \in Findings :
    /\ triage[f].status \in {"fixing", "fixed"} =>
         triage[f].run # NoRun /\ f \in fixes[triage[f].run]
    /\ triage[f].status = "fixed" => status[triage[f].run] = "completed"

\* "A failed, timed-out or cost-exceeded run reopens the finding"
\* (reconcile_fixing).  Nothing else does but the user, and a write of the file
\* that is cut short: load_triage then reads every finding as open.
ReopenIsJustified ==
  [][\A f \in Findings :
       triage[f].status # "open" /\ triage'[f].status = "open" =>
         \/ reopen_finding(f)
         \/ triage'[f].run # NoRun /\ status[triage'[f].run] = "failed"
         \/ torn']_vars

\* A finding whose run has ended, without a second one, does not stay at fixing
\* for ever (reconcile_fixing): a listing settles it as long as it is listed.
FindingIsSettled ==
  \A f \in Findings :
    (f \in report /\ triage[f].status = "fixing" /\ Ended(triage[f].run))
      ~> (\/ f \notin report \/ triage[f].status # "fixing"
          \/ ~Ended(triage[f].run))
==============================================================================
