------------------------- MODULE ReviewTriage_proofs -------------------------
(***************************************************************************)
(* Theorems of ReviewTriage, for any number of findings, requests and      *)
(* follow-up runs.  A request that was overtaken still writes what it read *)
(* of the past; the invariant says that whatever it writes names a run     *)
(* started for that very finding, and a run's end is never taken back.     *)
(***************************************************************************)
EXTENDS ReviewTriage, TLAPS

(***************************************************************************)
(* The inductive invariant.                                                *)
(***************************************************************************)

\* Runs are numbered in the order they are started.
NewRunsAreNew == \A r \in Run : r > runs => fixes[r] = {}

\* What a request has read, and what it is about to write.
ReadsMatchRuns(q) ==
  /\ \A f \in Findings, r \in Run : <<f, r>> \in q.todo => f \in fixes[r]
  /\ q.op = "mark" => q.run # NoRun /\ q.finding \in fixes[q.run]

IInv ==
  /\ TypeOK
  /\ TriageMatchesRuns
  /\ NewRunsAreNew
  /\ \A d \in Requests : ReadsMatchRuns(request[d])

(***************************************************************************)
(* Lemmas.                                                                 *)
(***************************************************************************)

\* The answered request is a request, and relies on nothing.
LEMMA IdleIsEmpty == Idle \in Request /\ ReadsMatchRuns(Idle)
BY TriageAssumptions DEF Idle, Request, ReadsMatchRuns

\* What the handlers change of a request leaves it a request.
LEMMA RequestUpdates ==
  ASSUME NEW q \in Request
  PROVE  /\ \A t \in SUBSET (Findings \X Run) :
              /\ [q EXCEPT !.op = "list", !.todo = t] \in Request
              /\ [q EXCEPT !.todo = t] \in Request
         /\ \A f \in Findings : [q EXCEPT !.op = "fix", !.finding = f] \in Request
         /\ \A r \in Run : [q EXCEPT !.op = "mark", !.run = r] \in Request
BY DEF Request

\* A run ends well, badly or not at all.
LEMMA Deliveries ==
  ASSUME NEW r
  PROVE  /\ delivered(r) \in {"fixed", "open", "fixing"}
         /\ delivered(r) = "fixed" => status[r] = "completed"
         /\ delivered(r) = "open" => status[r] = "failed"
BY DEF delivered

\* A status is written with the run it was earned by, or over the entry's own.
LEMMA SetStatus ==
  ASSUME TypeOK, NEW f \in Findings, NEW r \in Run \cup {NoRun},
         NEW s \in {"open", "fixing", "fixed", "dismissed"},
         set_finding_status(f, s, r)
  PROVE  /\ triage' \in [Findings -> Entry]
         /\ torn' \in BOOLEAN
         /\ triage'[f].status = s
         /\ r # NoRun => triage'[f].run = r
         /\ \A g \in Findings \ {f} : triage'[g] = triage[g]
BY DEF set_finding_status, TypeOK, Entry

\* What holds of the entries is kept while they, and the runs, stay.
LEMMA EntriesStay ==
  ASSUME TriageMatchesRuns, UNCHANGED <<file, followUps>>
  PROVE  TriageMatchesRuns'
BY DEF TriageMatchesRuns, file, followUps

\* So it is of the requests.
LEMMA ReadsStay ==
  ASSUME NEW q, ReadsMatchRuns(q), UNCHANGED followUps
  PROVE  ReadsMatchRuns(q)'
BY DEF ReadsMatchRuns, file, followUps

(***************************************************************************)
(* One lemma per group of actions.                                         *)
(***************************************************************************)

\* A listing reads runs the entries are allowed to name.
LEMMA ListingKeeps ==
  ASSUME IInv, NEW d \in Requests, ListFindings(d)
  PROVE  IInv'
<1>1. findings_with_triage \in SUBSET (Findings \X Run)
  BY DEF IInv, TypeOK, Entry, findings_with_triage
<1>2. request' \in [Requests -> Request]
  <2>1. request' = [request EXCEPT ![d] =
          [request[d] EXCEPT !.op = "list", !.todo = findings_with_triage]]
    BY DEF ListFindings
  <2>2. request \in [Requests -> Request]
    BY DEF IInv, TypeOK
  <2>3. QED
    BY <1>1, <2>1, <2>2, RequestUpdates
<1>3. \A f \in Findings, r \in Run : <<f, r>> \in findings_with_triage => f \in fixes[r]
  BY DEF findings_with_triage, IInv, TriageMatchesRuns
<1>4. ReadsMatchRuns(request'[d])
  BY <1>3 DEF ListFindings, Free, Idle, IInv, TypeOK, ReadsMatchRuns
<1>5. \A e \in Requests \ {d} : request'[e] = request[e]
  BY DEF ListFindings, IInv, TypeOK
<1>6. QED
  BY <1>2, <1>4, <1>5, EntriesStay, ReadsStay
  DEF ListFindings, IInv, TypeOK, NewRunsAreNew, ReadsMatchRuns, file, followUps

\* An end of a request leaves the others as they were.
LEMMA FinishKeeps ==
  ASSUME IInv, NEW d \in Requests, Finish(d), UNCHANGED followUps
  PROVE  /\ request' \in [Requests -> Request]
         /\ \A e \in Requests : ReadsMatchRuns(request[e])'
<1>1. request' = [request EXCEPT ![d] = Idle] /\ request \in [Requests -> Request]
  BY DEF Finish, IInv, TypeOK
<1>2. request'[d] = Idle /\ \A e \in Requests \ {d} : request'[e] = request[e]
  BY <1>1
<1>3. request' \in [Requests -> Request]
  BY <1>1, IdleIsEmpty
<1>4. QED
  BY <1>2, <1>3, IdleIsEmpty, ReadsStay DEF IInv

\* An overtaken listing writes only what a run of the finding has earned.
LEMMA ReconcileKeeps ==
  ASSUME IInv, NEW d \in Requests, NEW f \in Findings, reconcile_fixing(d, f)
  PROVE  IInv'
<1>1. PICK r \in Run :
        /\ <<f, r>> \in request[d].todo
        /\ IF delivered(r) = "fixing"
           THEN UNCHANGED file
           ELSE set_finding_status(f, delivered(r), r)
        /\ IF request[d].todo = {<<f, r>>}
           THEN Finish(d)
           ELSE request' = [request EXCEPT ![d].todo = @ \ {<<f, r>>}]
  BY DEF reconcile_fixing
<1>2. UNCHANGED <<report, followUps>>
  BY DEF reconcile_fixing
<1>3. f \in fixes[r]
  BY <1>1 DEF IInv, ReadsMatchRuns
<1>4. triage' \in [Findings -> Entry] /\ torn' \in BOOLEAN /\ TriageMatchesRuns'
  <2>1. CASE delivered(r) = "fixing"
    BY <1>1, <1>2, <2>1, EntriesStay DEF IInv, TypeOK, file
  <2>2. CASE delivered(r) # "fixing"
    <3>1. set_finding_status(f, delivered(r), r)
      BY <1>1, <2>2
    <3>2. r # NoRun
      BY DEF Run, NoRun
    <3>3. /\ triage' \in [Findings -> Entry] /\ torn' \in BOOLEAN
          /\ triage'[f].status = delivered(r) /\ triage'[f].run = r
          /\ \A g \in Findings \ {f} : triage'[g] = triage[g]
      BY <3>1, <3>2, Deliveries, SetStatus DEF IInv
    <3>4. QED
      BY <1>2, <1>3, <2>2, <3>2, <3>3, Deliveries
      DEF IInv, TriageMatchesRuns, followUps
  <2>3. QED
    BY <2>1, <2>2
<1>5. /\ request' \in [Requests -> Request]
      /\ \A e \in Requests : ReadsMatchRuns(request[e])'
  <2>1. CASE Finish(d)
    BY <1>2, <2>1, FinishKeeps
  <2>2. CASE request' = [request EXCEPT ![d].todo = @ \ {<<f, r>>}]
    <3>1. request \in [Requests -> Request]
      BY DEF IInv, TypeOK
    <3>2. request' \in [Requests -> Request]
      <4>1. request[d].todo \ {<<f, r>>} \in SUBSET (Findings \X Run)
        BY <3>1 DEF Request
      <4>2. request' = [request EXCEPT ![d] =
              [request[d] EXCEPT !.todo = request[d].todo \ {<<f, r>>}]]
        BY <2>2
      <4>3. QED
        BY <3>1, <4>1, <4>2, RequestUpdates
    <3>3. ReadsMatchRuns(request'[d])
      BY <2>2, <3>1 DEF IInv, ReadsMatchRuns, Request
    <3>4. \A e \in Requests \ {d} : request'[e] = request[e]
      BY <2>2, <3>1
    <3>5. QED
      BY <1>2, <3>2, <3>3, <3>4, ReadsStay DEF IInv
  <2>3. QED
    BY <1>1, <2>1, <2>2
<1>6. QED
  BY <1>2, <1>4, <1>5 DEF IInv, TypeOK, NewRunsAreNew, ReadsMatchRuns, file, followUps

\* The user's decisions claim nothing of a run.
LEMMA TriageKeeps ==
  ASSUME IInv, NEW f \in Findings, Triage(f)
  PROVE  IInv'
<1>1. PICK s \in {"dismissed", "open"} : set_finding_status(f, s, NoRun)
  BY DEF Triage, dismiss_finding, reopen_finding
<1>2. UNCHANGED <<report, followUps, request>>
  BY DEF Triage, dismiss_finding, reopen_finding
<1>3. /\ triage' \in [Findings -> Entry] /\ torn' \in BOOLEAN
      /\ triage'[f].status = s
      /\ \A g \in Findings \ {f} : triage'[g] = triage[g]
  BY <1>1, SetStatus DEF IInv
<1>4. TriageMatchesRuns'
  BY <1>2, <1>3 DEF IInv, TriageMatchesRuns, followUps
<1>5. QED
  BY <1>2, <1>3, <1>4 DEF IInv, TypeOK, NewRunsAreNew, ReadsMatchRuns, file, followUps

\* A new run is nobody's before it is started; no entry names it.
LEMMA StartKeeps ==
  ASSUME IInv, NEW d \in Requests, StartRun(d)
  PROVE  IInv'
<1> DEFINE n == runs + 1
<1>1. n \in Run /\ n > runs /\ n # NoRun /\ fixes[n] = {}
  BY TriageAssumptions DEF StartRun, IInv, TypeOK, NewRunsAreNew, Run, NoRun
<1>2. /\ fixes'[n] = {request[d].finding}
      /\ \A r \in Run \ {n} : fixes'[r] = fixes[r] /\ status'[r] = status[r]
  BY <1>1 DEF StartRun, IInv, TypeOK
<1>3. request[d].finding \in Findings
  BY DEF IInv, TypeOK, Request
<1>4. /\ runs' \in 0..MaxRuns
      /\ status' \in [Run -> {"none", "running", "completed", "failed"}]
      /\ fixes' \in [Run -> SUBSET Findings]
  BY <1>1, <1>3, TriageAssumptions DEF StartRun, IInv, TypeOK
<1>5. request' \in [Requests -> Request]
  <2>1. request' = [request EXCEPT ![d] = [request[d] EXCEPT !.op = "mark", !.run = n]]
    BY DEF StartRun
  <2>2. request \in [Requests -> Request]
    BY DEF IInv, TypeOK
  <2>3. QED
    BY <1>1, <2>1, <2>2, RequestUpdates
<1>6. TypeOK'
  BY <1>4, <1>5 DEF StartRun, IInv, TypeOK, file
<1>7. TriageMatchesRuns'
  <2>1. ASSUME NEW f \in Findings, triage[f].status \in {"fixing", "fixed"}
        PROVE  triage[f].run \in Run \ {n}
    BY <1>1, <2>1 DEF IInv, TypeOK, Entry, TriageMatchesRuns
  <2>2. QED
    BY <1>2, <2>1 DEF StartRun, IInv, TriageMatchesRuns, file
<1>8. NewRunsAreNew'
  <2>1. ASSUME NEW r \in Run, r > runs + 1
        PROVE  fixes'[r] = {}
    <3>1. r > runs /\ r # n
      BY <2>1, TriageAssumptions DEF IInv, TypeOK, Run
    <3>2. QED
      BY <1>2, <3>1 DEF IInv, NewRunsAreNew
  <2>2. QED
    BY <2>1 DEF StartRun, NewRunsAreNew
<1>9. \A r \in Run : fixes[r] \subseteq fixes'[r]
  BY <1>1, <1>2
<1>10. \A e \in Requests \ {d} : request'[e] = request[e]
  BY DEF StartRun, IInv, TypeOK
<1>11. /\ request'[d].op = "mark" /\ request'[d].run = n
       /\ request'[d].finding = request[d].finding
       /\ request'[d].todo = request[d].todo
  BY DEF StartRun, IInv, TypeOK, Request
<1>12. ASSUME NEW e \in Requests
       PROVE  ReadsMatchRuns(request[e])'
  <2>1. ReadsMatchRuns(request[e])
    BY DEF IInv
  <2>2. request[e].op = "mark" => request[e].run \in Run
    BY <2>1 DEF IInv, TypeOK, Request, ReadsMatchRuns
  <2>3. CASE e = d
    BY <1>1, <1>2, <1>9, <1>11, <2>1, <2>3 DEF ReadsMatchRuns
  <2>4. CASE e # d
    BY <1>9, <1>10, <2>1, <2>2, <2>4 DEF ReadsMatchRuns
  <2>5. QED
    BY <2>3, <2>4
<1>13. QED
  BY <1>6, <1>7, <1>8, <1>12 DEF IInv

\* A finding is marked with the run its own request started.
LEMMA MarkKeeps ==
  ASSUME IInv, NEW d \in Requests, MarkFixing(d)
  PROVE  IInv'
<1>1. UNCHANGED <<report, followUps>> /\ Finish(d)
  BY DEF MarkFixing
<1>2. /\ request[d].finding \in Findings
      /\ request[d].run \in Run /\ request[d].run # NoRun
      /\ request[d].finding \in fixes[request[d].run]
  BY DEF MarkFixing, IInv, TypeOK, Request, ReadsMatchRuns
<1>3. /\ triage' \in [Findings -> Entry] /\ torn' \in BOOLEAN
      /\ triage'[request[d].finding].status = "fixing"
      /\ triage'[request[d].finding].run = request[d].run
      /\ \A g \in Findings \ {request[d].finding} : triage'[g] = triage[g]
  BY <1>2, SetStatus DEF MarkFixing, IInv
<1>4. TriageMatchesRuns'
  BY <1>1, <1>2, <1>3 DEF IInv, TriageMatchesRuns, followUps
<1>5. QED
  BY <1>1, <1>3, <1>4, FinishKeeps
  DEF IInv, TypeOK, NewRunsAreNew, ReadsMatchRuns, file, followUps

\* A file that does not parse says nothing of any run, and what the surviving
\* requests know is still true.
LEMMA CutKeeps ==
  ASSUME IInv, SaveIsCut
  PROVE  IInv'
<1>1. /\ UNCHANGED <<report, followUps>>
      /\ triage' = [f \in Findings |-> NoEntry] /\ torn' = TRUE
  BY DEF SaveIsCut
<1>2. NoEntry \in Entry /\ NoEntry.status = "open"
  BY DEF NoEntry, Entry
<1>3. triage' \in [Findings -> Entry] /\ torn' \in BOOLEAN /\ TriageMatchesRuns'
  BY <1>1, <1>2 DEF TriageMatchesRuns
<1>4. /\ request' \in [Requests -> Request]
      /\ \A d \in Requests : ReadsMatchRuns(request[d])'
  <2>1. CASE request' = [d \in Requests |-> Idle]
    BY <2>1, <1>1, IdleIsEmpty, ReadsStay
  <2>2. ASSUME NEW d \in Requests, Finish(d)
        PROVE  /\ request' \in [Requests -> Request]
               /\ \A e \in Requests : ReadsMatchRuns(request[e])'
    BY <1>1, <2>2, FinishKeeps
  <2>3. CASE UNCHANGED request
    BY <1>1, <2>3, ReadsStay DEF IInv, TypeOK
  <2>4. QED
    BY <2>1, <2>2, <2>3 DEF SaveIsCut
<1>5. QED
  BY <1>1, <1>3, <1>4 DEF IInv, TypeOK, NewRunsAreNew, followUps

\* The remaining actions touch neither entries nor the runs they name.
LEMMA RestKeeps ==
  ASSUME IInv,
         \/ Review
         \/ \E d \in Requests : Fails(d) \/ \E f \in Findings : LoadFix(d, f)
         \/ \E r \in Run : RunEnds(r)
         \/ UNCHANGED vars
  PROVE  IInv'
<1>1. CASE Review
  BY <1>1, TriageAssumptions, EntriesStay, ReadsStay
  DEF Review, IInv, TypeOK, NewRunsAreNew, ReadsMatchRuns, file, followUps
<1>2. ASSUME NEW d \in Requests, Fails(d)
      PROVE  IInv'
  <2>1. UNCHANGED <<report, file, followUps>> /\ Finish(d)
    BY <1>2 DEF Fails
  <2>2. QED
    BY <2>1, FinishKeeps, EntriesStay
    DEF IInv, TypeOK, NewRunsAreNew, ReadsMatchRuns, file, followUps
<1>3. ASSUME NEW d \in Requests, NEW f \in Findings, LoadFix(d, f)
      PROVE  IInv'
  <2>0. request \in [Requests -> Request]
    BY DEF IInv, TypeOK
  <2>1. request' \in [Requests -> Request]
    <3>1. request' = [request EXCEPT ![d] = [request[d] EXCEPT !.op = "fix", !.finding = f]]
      BY <1>3 DEF LoadFix
    <3>2. QED
      BY <2>0, <3>1, RequestUpdates
  <2>2. \A e \in Requests : ReadsMatchRuns(request'[e])
    BY <1>3, <2>0 DEF LoadFix, IInv, Request, ReadsMatchRuns
  <2>3. QED
    BY <1>3, <2>1, <2>2, EntriesStay, ReadsStay
    DEF LoadFix, IInv, TypeOK, NewRunsAreNew, ReadsMatchRuns, file, followUps
<1>4. ASSUME NEW r \in Run, RunEnds(r)
      PROVE  IInv'
  <2>1. /\ status' \in [Run -> {"none", "running", "completed", "failed"}]
        /\ \A x \in Run : status[x] = "completed" => status'[x] = "completed"
    BY <1>4 DEF RunEnds, IInv, TypeOK
  <2>2. TriageMatchesRuns'
    BY <1>4, <2>1 DEF RunEnds, IInv, TypeOK, Entry, TriageMatchesRuns, file
  <2>3. QED
    BY <1>4, <2>1, <2>2 DEF RunEnds, IInv, TypeOK, NewRunsAreNew, ReadsMatchRuns, file
<1>5. CASE UNCHANGED vars
  BY <1>5, EntriesStay, ReadsStay
  DEF vars, IInv, TypeOK, NewRunsAreNew, ReadsMatchRuns, file, followUps
<1>6. QED
  BY <1>1, <1>2, <1>3, <1>4, <1>5

(***************************************************************************)
(* Theorems.                                                               *)
(***************************************************************************)

\* The invariant holds before the first review.
LEMMA InitIInv == Init => IInv
<1> SUFFICES ASSUME Init
             PROVE  IInv
  OBVIOUS
<1>0. NoEntry \in Entry /\ torn \in BOOLEAN
  BY DEF Init, Entry, NoEntry
<1>1. TypeOK
  BY <1>0, IdleIsEmpty, TriageAssumptions DEF Init, TypeOK
<1>2. \A d \in Requests : request[d] = Idle
  BY DEF Init
<1>3. QED
  BY <1>1, <1>2, IdleIsEmpty DEF Init, IInv, TriageMatchesRuns, NewRunsAreNew, NoEntry

\* Every step of every handler keeps it.
LEMMA StepIInv == IInv /\ [Next]_vars => IInv'
BY ListingKeeps, ReconcileKeeps, TriageKeeps, StartKeeps, MarkKeeps, CutKeeps,
   RestKeeps
DEF Next, Handler

\* The triage file, the follow-up runs and the requests in flight agree.
THEOREM Inductive == Spec => []IInv
BY InitIInv, StepIInv, PTL DEF Spec

\* The type invariant of the triage file, the runs and the requests.
THEOREM TypeCorrect == Spec => []TypeOK
<1>1. IInv => TypeOK
  BY DEF IInv
<1>2. QED
  BY <1>1, Inductive, PTL

\* For any number of stale listings, second fixes and new reviews, a finding is
\* fixed only on the word of a completed run of its own.
THEOREM TriageIsEarned == Spec => []TriageMatchesRuns
<1>1. IInv => TriageMatchesRuns
  BY DEF IInv
<1>2. QED
  BY <1>1, Inductive, PTL

\* Only the user, a failed run, or a write of the file that was cut short reopens
\* a finding.
THEOREM ReopeningIsJustified == Spec => ReopenIsJustified
<1> DEFINE Reopened(f) == triage[f].status # "open" /\ triage'[f].status = "open"
           Justified(f) ==
             \/ reopen_finding(f)
             \/ triage'[f].run # NoRun /\ status[triage'[f].run] = "failed"
             \/ torn'
<1>1. ASSUME IInv, NEW d \in Requests, NEW f \in Findings, reconcile_fixing(d, f),
             NEW g \in Findings, Reopened(g)
      PROVE  Justified(g)
  <2>1. PICK r \in Run :
          IF delivered(r) = "fixing"
          THEN UNCHANGED file
          ELSE set_finding_status(f, delivered(r), r)
    BY <1>1 DEF reconcile_fixing
  <2>2. delivered(r) # "fixing" /\ set_finding_status(f, delivered(r), r)
    BY <1>1, <2>1 DEF file
  <2>3. r # NoRun
    BY DEF Run, NoRun
  <2>4. /\ triage'[f].status = delivered(r) /\ triage'[f].run = r
        /\ \A h \in Findings \ {f} : triage'[h] = triage[h]
    BY <1>1, <2>2, <2>3, Deliveries, SetStatus DEF IInv
  <2>5. g = f /\ status[r] = "failed"
    BY <1>1, <2>4, Deliveries
  <2>6. QED
    BY <2>3, <2>4, <2>5
<1>2. ASSUME IInv, NEW f \in Findings, Triage(f), NEW g \in Findings, Reopened(g)
      PROVE  Justified(g)
  <2>1. CASE dismiss_finding(f)
    BY <1>2, <2>1, SetStatus DEF dismiss_finding, IInv
  <2>2. CASE reopen_finding(f)
    <3>1. \A h \in Findings \ {f} : triage'[h] = triage[h]
      BY <1>2, <2>2, SetStatus DEF reopen_finding, IInv
    <3>2. g = f
      BY <1>2, <3>1
    <3>3. QED
      BY <2>2, <3>2
  <2>3. QED
    BY <1>2, <2>1, <2>2 DEF Triage
<1>3. ASSUME IInv, NEW d \in Requests, MarkFixing(d), NEW g \in Findings, Reopened(g)
      PROVE  Justified(g)
  <2>1. request[d].finding \in Findings /\ request[d].run \in Run \cup {NoRun}
    BY <1>3 DEF IInv, TypeOK, Request
  <2>2. QED
    BY <1>3, <2>1, SetStatus DEF MarkFixing, IInv
<1>4. ASSUME Review \/ (\E d \in Requests : \/ ListFindings(d) \/ StartRun(d) \/ Fails(d)
                                            \/ \E f \in Findings : LoadFix(d, f))
               \/ \E r \in Run : RunEnds(r)
      PROVE  triage' = triage
  BY <1>4 DEF Review, ListFindings, StartRun, Fails, LoadFix, RunEnds, file
<1>5. ASSUME SaveIsCut
      PROVE  torn'
  BY <1>5 DEF SaveIsCut
<1>6. IInv /\ [Next]_vars => [\A f \in Findings : Reopened(f) => Justified(f)]_vars
  BY <1>1, <1>2, <1>3, <1>4, <1>5 DEF Next, Handler
<1>7. QED
  BY <1>6, Inductive, PTL DEF Spec, ReopenIsJustified
=============================================================================
