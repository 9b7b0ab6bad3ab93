-------------------------------- MODULE QaLoop --------------------------------
(***************************************************************************)
(* The requirements loop of one session: rounds of questions by the model, *)
(* answers by the user, and srs.md in the end.  Requests overlap: each     *)
(* reads the transcript without a lock, and from its first write on holds  *)
(* the database's write lock, across its calls of the model, until it      *)
(* commits or fails.  A restart of the loop deletes the transcript inside  *)
(* its own transaction.  Sources: services/requirements.py, api/qa.py.     *)
(***************************************************************************)
EXTENDS Naturals, SequencesExt

CONSTANTS
  Requests,
  MaxRounds,      \* MAX_ROUNDS
  MaxRestarts,    \* bound: calls of qa/restart
  MaxRejections,  \* bound: returns of the session to the qa phase
  MaxFailures     \* bound: requests that fail

ASSUME LoopAssumptions ==
  /\ MaxRounds \in Nat \ {0}
  /\ MaxRestarts \in Nat /\ MaxRejections \in Nat /\ MaxFailures \in Nat

VARIABLES
  phase,     \* sessions.current_phase: "qa", or "srs" for every later one
  srs,       \* srs.md exists
  turns,     \* the rows of qa_turns, as committed
  writer,    \* the request that holds the write lock
  draft,     \* the rows as its transaction sees them
  request,   \* what each request does
  restarts, rejections, failures

db == <<turns, writer, draft>>
bounds == <<restarts, rejections, failures>>
vars == <<phase, srs, db, request, bounds>>

None == "none"

ASSUME NoneAssumption == None \notin Requests

\* A reply with questions goes on, a closing one has none or says ready; the
\* document is the SRS.  Their order by created_at only chooses the questions an
\* answer is rendered for, and is not kept.
Turn == [role : {"user", "questions", "closing", "document"}, round : 0..MaxRounds]

turn(role, round) == [role |-> role, round |-> round]

Issued(t) == t.role \in {"questions", "closing"}

Request == [op : {None, "start", "restart", "answer", "finalize"},
            at : {"idle", "loaded", "open", "append", "ask", "finalize", "document",
                  "record", "advance"},
            round : 0..MaxRounds]

Idle == [op |-> None, at |-> "idle", round |-> 0]

At(r, op, at) == request[r].op = op /\ request[r].at = at

Go(r, at) == request' = [request EXCEPT ![r].at = at]

(***************************************************************************)
(* Transactions.                                                           *)
(***************************************************************************)

\* What a query of r returns.
view(r) == IF writer = r THEN draft ELSE turns

\* The first write waits for the lock, and keeps it.
Write(r, rows) ==
  /\ writer \in {r, None}
  /\ writer' = r
  /\ draft' = rows
  /\ UNCHANGED turns

Release(r) ==
  /\ writer' = (IF writer = r THEN None ELSE writer)
  /\ draft' = (IF writer = r THEN <<>> ELSE draft)
  /\ request' = [request EXCEPT ![r] = Idle]

Rollback(r) == Release(r) /\ UNCHANGED <<phase, srs, turns>>

\* The answers of a round carry its number and do not count.
rounds_used(rows) ==
  Max({0} \cup {rows[i].round : i \in {j \in DOMAIN rows : rows[j].role # "user"}})

(***************************************************************************)
(* The beginning of each request: the row is read, then _require_qa_phase. *)
(***************************************************************************)

Load(r, op) ==
  /\ request[r] = Idle /\ phase = "qa"
  /\ request' = [request EXCEPT ![r].op = op, ![r].at = "loaded"]
  /\ op = "restart" => restarts < MaxRestarts
  /\ restarts' = IF op = "restart" THEN restarts + 1 ELSE restarts
  /\ UNCHANGED <<phase, srs, db, rejections, failures>>

\* No wiki contributes: nothing was written before the turns are read.
StartWithoutContext(r) ==
  /\ At(r, "start", "loaded")
  /\ Go(r, IF turns = <<>> THEN "open" ELSE "advance")
  /\ UNCHANGED <<phase, srs, db, bounds>>

\* wiki_pages_injected was flushed.
StartWithContext(r) ==
  /\ At(r, "start", "loaded")
  /\ Write(r, turns)
  /\ Go(r, IF turns = <<>> THEN "open" ELSE "advance")
  /\ UNCHANGED <<phase, srs, bounds>>

\* A deletion in a transaction of its own.
ClearTranscript_committed(r) ==
  /\ At(r, "restart", "loaded")
  /\ writer = None
  /\ turns' = <<>> /\ draft' = <<>> /\ writer' = r
  /\ Go(r, "open")
  /\ UNCHANGED <<phase, srs, bounds>>

ClearTranscript(r) ==
  /\ At(r, "restart", "loaded")
  /\ Write(r, <<>>)
  /\ Go(r, "open")
  /\ UNCHANGED <<phase, srs, bounds>>

AppendOpening(r) ==
  /\ request[r].at = "open"
  /\ Write(r, Append(view(r), turn("user", 0)))
  /\ Go(r, "ask")
  /\ UNCHANGED <<phase, srs, bounds>>

ReadForAnswers(r) ==
  /\ At(r, "answer", "loaded") /\ turns # <<>>
  /\ request' = [request EXCEPT ![r].at = "append", ![r].round = rounds_used(turns)]
  /\ UNCHANGED <<phase, srs, db, bounds>>

\* "question loop has not started yet"
NotStarted(r) ==
  /\ At(r, "answer", "loaded") /\ turns = <<>>
  /\ request' = [request EXCEPT ![r] = Idle]
  /\ UNCHANGED <<phase, srs, db, bounds>>

\* end_early: the user ends the loop with these answers.
AppendAnswers(r) ==
  /\ request[r].at = "append"
  /\ Write(r, Append(turns, turn("user", request[r].round)))
  /\ \E end_early \in BOOLEAN : Go(r, IF end_early THEN "finalize" ELSE "ask")
  /\ UNCHANGED <<phase, srs, bounds>>

(***************************************************************************)
(* _ask_round, under the lock its caller holds.                            *)
(***************************************************************************)

AskModel(r, used) ==
  /\ request[r].at = "ask"
  /\ \E role \in {"questions", "closing"} :
       /\ Write(r, Append(draft, turn(role, used + 1)))
       /\ Go(r, IF role = "closing" THEN "finalize" ELSE "advance")
  /\ UNCHANGED <<phase, srs, bounds>>

EndLoop(r) ==
  /\ request[r].at = "ask"
  /\ Go(r, "finalize")
  /\ UNCHANGED <<phase, srs, db, bounds>>

\* A cap that is one round late.
ask_round_late(r) ==
  LET used == rounds_used(draft) IN
  IF used > MaxRounds THEN EndLoop(r) ELSE AskModel(r, used)

\* A round numbered after the transcript the request was loaded with.
ask_round_stale(r) ==
  LET used == request[r].round IN
  IF used >= MaxRounds THEN EndLoop(r) ELSE AskModel(r, used)

\* A cap that refuses the answers.
ask_round_refused(r) ==
  LET used == rounds_used(draft) IN
  IF used >= MaxRounds
  THEN request[r].at = "ask" /\ Rollback(r) /\ UNCHANGED bounds
  ELSE AskModel(r, used)

ask_round(r) ==
  LET used == rounds_used(draft) IN
  IF used >= MaxRounds THEN EndLoop(r) ELSE AskModel(r, used)

(***************************************************************************)
(* finalize, by qa/finalize or by the end of a round.                      *)
(***************************************************************************)

ReadForDocument(r) ==
  /\ request[r].at = "finalize" \/ At(r, "finalize", "loaded")
  /\ request' = [request EXCEPT ![r].at = "document", ![r].round = rounds_used(view(r))]
  /\ UNCHANGED <<phase, srs, db, bounds>>

\* The model has answered.
WriteSrs(r) ==
  /\ request[r].at = "document"
  /\ srs' = TRUE
  /\ Go(r, "record")
  /\ UNCHANGED <<phase, db, bounds>>

AppendDocument(r) ==
  /\ request[r].at = "record"
  /\ Write(r, Append(view(r), turn("document", request[r].round)))
  /\ Go(r, "advance")
  /\ UNCHANGED <<phase, srs, bounds>>

(***************************************************************************)
(* The end of each request: advance_qa_if_srs_ready, then the commit.      *)
(***************************************************************************)

Commit(r) ==
  /\ request[r].at = "advance"
  /\ srs => writer \in {r, None}
  /\ phase' = IF srs THEN "srs" ELSE phase
  /\ turns' = view(r)
  /\ Release(r)
  /\ UNCHANGED <<srs, bounds>>

\* The model fails or writes nothing, the lock is not given within the busy
\* timeout, the client or the server goes: the transaction is rolled back.
Fails(r) ==
  /\ request[r] # Idle /\ failures < MaxFailures
  /\ failures' = failures + 1
  /\ Rollback(r)
  /\ UNCHANGED <<restarts, rejections>>

(***************************************************************************)
(* The session's other requests (module SessionGate).                      *)
(***************************************************************************)

Observe ==
  /\ phase = "qa" /\ srs /\ writer = None
  /\ phase' = "srs"
  /\ UNCHANGED <<srs, db, request, bounds>>

Reject ==
  /\ phase = "srs" /\ writer = None /\ rejections < MaxRejections
  /\ phase' = "qa"
  /\ rejections' = rejections + 1
  /\ UNCHANGED <<srs, db, request, restarts, failures>>

(***************************************************************************)
(* Specification.                                                          *)
(***************************************************************************)

Init ==
  /\ phase = "qa" /\ srs = FALSE
  /\ turns = <<>> /\ writer = None /\ draft = <<>>
  /\ request = [r \in Requests |-> Idle]
  /\ restarts = 0 /\ rejections = 0 /\ failures = 0

Step(r) ==
  \/ StartWithoutContext(r) \/ StartWithContext(r) \/ ClearTranscript(r)
  \/ AppendOpening(r)
  \/ ReadForAnswers(r) \/ NotStarted(r) \/ AppendAnswers(r)
  \/ ask_round(r)
  \/ ReadForDocument(r) \/ WriteSrs(r) \/ AppendDocument(r)
  \/ Commit(r)

Next ==
  \/ \E r \in Requests, op \in {"start", "restart", "answer", "finalize"} : Load(r, op)
  \/ \E r \in Requests : Step(r) \/ Fails(r)
  \/ Observe \/ Reject

\* The server goes on with each request; the user answers again and again, and
\* the session is looked at.
Fairness ==
  /\ \A r \in Requests : WF_vars(Step(r))
  /\ SF_vars(\E r \in Requests : Load(r, "answer"))
  /\ WF_vars(Observe)

Spec == Init /\ [][Next]_vars

FairSpec == Spec /\ Fairness

(***************************************************************************)
(* Properties.                                                             *)
(***************************************************************************)

TypeOK ==
  /\ phase \in {"qa", "srs"} /\ srs \in BOOLEAN
  /\ turns \in Seq(Turn) /\ draft \in Seq(Turn)
  /\ writer \in Requests \cup {None}
  /\ request \in [Requests -> Request]
  /\ restarts \in 0..MaxRestarts /\ rejections \in 0..MaxRejections
  /\ failures \in 0..MaxFailures

\* "hard cap at MAX_ROUNDS" (_ask_round): between two restarts no round is
\* issued past the cap and none twice, whichever requests ask at once and
\* whatever they had read before.
RoundsIssuedOnce ==
  \A i, j \in DOMAIN turns :
    Issued(turns[i]) /\ Issued(turns[j]) =>
      /\ turns[i].round \in 1..MaxRounds
      /\ i # j => turns[i].round # turns[j].round

\* A committed turn goes only by a restart that got as far as its first round
\* (restart_qa): one that fails, at any of its steps, leaves the old transcript.
TranscriptIsKept ==
  [][turns' # turns =>
       \/ IsPrefix(turns, turns')
       \/ Len(turns') >= 2 /\ turns'[1] = turn("user", 0) /\ Issued(turns'[2])]_vars

\* "Reaching it ends the loop and writes the SRS rather than silently continuing
\* to question the user" (_ask_round): a loop that was begun is over in the end,
\* and the session leaves the phase.
LoopEnds == turns # <<>> ~> phase = "srs"
==============================================================================
