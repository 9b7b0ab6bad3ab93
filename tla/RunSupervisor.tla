---------------------------- MODULE RunSupervisor ----------------------------
(***************************************************************************)
(* Detached harness runs and the supervisor that watches them across       *)
(* restarts of the server.  A run is a row, an agent process that outlives *)
(* the server, and a log file; the supervisor tails the log, charges what  *)
(* it reads to a meter, polls the process, enforces the limits and records *)
(* the outcome once.  After a restart it reattaches to the rows still      *)
(* running and reads their logs again from the start.  Sources:            *)
(* runs/supervisor.py, runs/meters.py, runs/host_runner.py,                *)
(* runs/docker_runner.py, runs/base.py.                                    *)
(***************************************************************************)
EXTENDS Naturals

CONSTANTS
  Runs,
  Ceiling,      \* WORKFLOW_RUN_COST_CEILING_USD, in events' costs; 0 is none
  MaxLog,       \* bound: the cost events an agent writes
  MaxRestarts,  \* bound: the times the server dies or is stopped
  Environment   \* what may go wrong, from Hazards

Hazards == {
  "kill",        \* a run is cancelled, or its agent is killed from outside
  "gone",        \* a container is pruned, a PID reused
  "raise",       \* a poll or a read of the log raises
  "locked",      \* a write finds the database locked past busy_timeout
  "survives",    \* a harness outlives the wrapper the signal killed
  "stubborn",    \* terminate gives up with the agent still running
  "slow",        \* docker run times out after it started the container
  "unreachable"} \* docker inspect fails for a live container

ASSUME RunAssumptions ==
  /\ Ceiling \in Nat /\ MaxLog \in Nat /\ MaxRestarts \in Nat
  /\ Environment \subseteq Hazards

VARIABLES
  row,        \* runs.status, "none" before the insert
  recorded,   \* runs.cost_usd
  agent,      \* the process
  log,        \* what the log file holds
  task,       \* where start_run, then _supervise, is for the run
  seen,       \* what the task has read of the log
  late,       \* the meter's clock has passed the timeout
  outcome,    \* final_status
  server,     \* "up", "down", or "starting" while reattach_all runs
  candidates, \* the rows reattach_all has yet to visit
  restarts

rows == <<row, recorded>>
work == <<task, seen, late, outcome>>
life == <<server, candidates, restarts>>
vars == <<rows, agent, log, work, life>>

Terminal == {"completed", "failed", "timed_out", "cost_exceeded"}

RunStatus == {"none", "pending", "running"} \cup Terminal

\* "unstopped": still running after a terminate that gave up.  "orphaned": the
\* host runner's wrapper is dead, the harness under it may not be.  "killed":
\* both died and left no exit file.  "gone": the handle names nothing, or
\* another process.
Agent == {"none", "alive", "unstopped", "orphaned", "exit_ok", "exit_error",
          "killed", "gone"}

\* The handle's process runs.
Running(r) == agent[r] \in {"alive", "unstopped"}

Line == {"none", "plain", "cost", "error"}

\* The complete lines that bill, whether there are others, whether one reports
\* an error, and the unterminated line a log may end with.  No line is longer
\* than the buffer's cap or holds a separator only splitlines knows: the two
\* readings would cut such a line differently.
Log == [cost : 0..MaxLog, plain : BOOLEAN, error : BOOLEAN, torn : Line]

NoLog == [cost |-> 0, plain |-> FALSE, error |-> FALSE, torn |-> "none"]

\* The places of _supervise's loop: before the log is read, before the poll,
\* after a poll that found no live agent.
Watching == {"loop", "poll", "exited"}

Put(f, r, x) == [f EXCEPT ![r] = x]

May(hazard) == hazard \in Environment

(***************************************************************************)
(* start_run.                                                              *)
(***************************************************************************)

InsertRun(r) ==
  /\ server = "up" /\ row[r] = "none"
  /\ row' = Put(row, r, "pending")
  /\ task' = Put(task, r, "launch")
  /\ UNCHANGED <<recorded, agent, log, seen, late, outcome, life>>

Launch(r) ==
  /\ task[r] = "launch"
  /\ agent' = Put(agent, r, "alive")
  /\ task' = Put(task, r, "persist")
  /\ UNCHANGED <<rows, log, seen, late, outcome, life>>

\* A container started too late for the caller stays, and nobody has its id.
LaunchFails(r) ==
  /\ task[r] = "launch"
  /\ row' = Put(row, r, "failed")
  /\ task' = Put(task, r, "none")
  /\ \/ UNCHANGED agent
     \/ May("slow") /\ agent' = Put(agent, r, "alive")
  /\ UNCHANGED <<recorded, log, seen, late, outcome, life>>

\* The handle, the log's path and the status, in one transaction.
PersistHandle(r) ==
  /\ task[r] = "persist"
  /\ row' = Put(row, r, "running")
  /\ task' = Put(task, r, "loop")
  /\ UNCHANGED <<recorded, agent, log, seen, late, outcome, life>>

\* start_run raises; the row stays pending and nobody knows the agent.
PersistFails(r) ==
  /\ May("locked")
  /\ task[r] = "persist"
  /\ task' = Put(task, r, "none")
  /\ UNCHANGED <<rows, agent, log, seen, late, outcome, life>>

(***************************************************************************)
(* The meter.  Only complete lines are charged while the run is watched.   *)
(***************************************************************************)

ClockRunsOut(r) ==
  /\ task[r] \in Watching /\ ~late[r]
  /\ late' = Put(late, r, TRUE)
  /\ UNCHANGED <<rows, agent, log, task, seen, outcome, life>>

\* What the row says was spent is a floor: reading the log again must not add
\* to it.
charged(r, cost) == IF recorded[r] > cost THEN recorded[r] ELSE cost

\* A meter without a clock.
check_untimed(r, cost) ==
  IF Ceiling > 0 /\ cost >= Ceiling THEN "cost_exceeded" ELSE "none"

\* The timeout is looked at before the ceiling.
check(r, cost) ==
  IF late[r] THEN "timed_out"
  ELSE IF Ceiling > 0 /\ cost >= Ceiling THEN "cost_exceeded" ELSE "none"

(***************************************************************************)
(* _supervise.                                                             *)
(***************************************************************************)

\* Read the new lines, charge them, look at the limits.
Drain(r) ==
  /\ task[r] = "loop"
  /\ seen' = Put(seen, r, log[r])
  /\ LET breach == check(r, charged(r, log[r].cost)) IN
       IF breach = "none"
       THEN task' = Put(task, r, "poll") /\ UNCHANGED outcome
       ELSE task' = Put(task, r, "terminate") /\ outcome' = Put(outcome, r, breach)
  /\ UNCHANGED <<rows, agent, log, late, life>>

\* What backend.poll may answer.  Only the wrapper is asked after, and its PID
\* may have been given away.
poll(r) ==
  CASE Running(r) -> {"alive"} \cup (IF May("unreachable") THEN {"gone"} ELSE {})
    [] agent[r] = "orphaned" -> {"killed"} \cup (IF May("gone") THEN {"gone"} ELSE {})
    [] OTHER -> {agent[r]}

\* The state of the process, taken for the status of the run.
outcome_of_state(answer) == answer

\* A missing exit code is no failure.
outcome_of(answer) ==
  IF answer \in {"gone", "exit_error"} THEN "failed" ELSE "completed"

\* A poll that is not due yet is one that finds the agent alive.
Poll(r) ==
  /\ task[r] = "poll"
  /\ \E answer \in poll(r) :
       IF answer = "alive"
       THEN task' = Put(task, r, "loop") /\ UNCHANGED outcome
       ELSE /\ outcome' = Put(outcome, r, outcome_of(answer))
            /\ task' = Put(task, r, "exited")
  /\ UNCHANGED <<rows, agent, log, seen, late, life>>

\* The outcome of the poll, without a second look at the log.
Recheck_once(r) ==
  /\ task[r] = "exited"
  /\ task' = Put(task, r, "finish")
  /\ UNCHANGED <<rows, agent, log, seen, late, outcome, life>>

\* Whatever was written while the agent exited is read first.
Recheck(r) ==
  /\ task[r] = "exited"
  /\ task' = Put(task, r, IF seen[r] # log[r] THEN "loop" ELSE "finish")
  /\ UNCHANGED <<rows, agent, log, seen, late, outcome, life>>

LoopRaises(r) ==
  /\ May("raise")
  /\ task[r] \in Watching \cup {"terminate"}
  /\ outcome' = Put(outcome, r, "failed")
  /\ task' = Put(task, r, "finish")
  /\ UNCHANGED <<rows, agent, log, seen, late, life>>

\* docker stop leaves an exit code, whatever it is, the host runner's killpg
\* none: it stops at the wrapper's death and sends no SIGKILL after it.
StopStates ==
  {"killed", "exit_ok", "exit_error"} \cup (IF May("survives") THEN {"orphaned"} ELSE {})

Stopped(r) ==
  IF Running(r)
  THEN StopStates \cup (IF May("stubborn") THEN {"unstopped"} ELSE {})
  ELSE {agent[r]}

\* A limit that is recorded and not enforced.
Terminate_recorded(r) ==
  /\ task[r] = "terminate"
  /\ task' = Put(task, r, "finish")
  /\ UNCHANGED <<rows, agent, log, seen, late, outcome, life>>

Terminate(r) ==
  /\ task[r] = "terminate"
  /\ \E state \in Stopped(r) : agent' = Put(agent, r, state)
  /\ task' = Put(task, r, "finish")
  /\ UNCHANGED <<rows, log, seen, late, outcome, life>>

\* A harness that reported an error did not complete.
with_errors_ignored(status, error) == status

with_errors(status, error) == IF error /\ status = "completed" THEN "failed" ELSE status

\* _finish, bus.close, _active.pop.
Finish(r) ==
  /\ task[r] = "finish"
  /\ row' = Put(row, r, with_errors(outcome[r], seen[r].error))
  /\ recorded' = Put(recorded, r, charged(r, seen[r].cost))
  /\ task' = Put(task, r, "none") /\ seen' = Put(seen, r, NoLog)
  /\ late' = Put(late, r, FALSE) /\ outcome' = Put(outcome, r, "none")
  /\ UNCHANGED <<agent, log, life>>

\* The exception leaves _supervise: the task is dead, the run still active.
FinishFails(r) ==
  /\ May("locked")
  /\ task[r] = "finish"
  /\ task' = Put(task, r, "dead")
  /\ UNCHANGED <<rows, agent, log, seen, late, outcome, life>>

(***************************************************************************)
(* The agent, which no restart of the server disturbs.                     *)
(***************************************************************************)

WriteLog(r) ==
  /\ Running(r) \/ agent[r] = "orphaned"
  /\ log[r].torn = "none"
  /\ \/ log[r].cost < MaxLog /\ log' = [log EXCEPT ![r].cost = @ + 1]
     \/ ~log[r].error /\ log' = [log EXCEPT ![r].error = TRUE]
     \/ ~log[r].plain /\ log' = [log EXCEPT ![r].plain = TRUE]
  /\ UNCHANGED <<rows, agent, work, life>>

Exit(r) ==
  /\ Running(r)
  /\ \E state \in {"exit_ok", "exit_error"} : agent' = Put(agent, r, state)
  /\ \E last \in Line : log' = [log EXCEPT ![r].torn = last]
  /\ UNCHANGED <<rows, work, life>>

\* supervisor.cancel terminates the agent and touches nothing else.
Kill(r) ==
  /\ May("kill")
  /\ Running(r)
  /\ \E state \in StopStates :
       /\ agent' = Put(agent, r, state)
       /\ IF state = "orphaned"
          THEN UNCHANGED log
          ELSE \E last \in Line : log' = [log EXCEPT ![r].torn = last]
  /\ UNCHANGED <<rows, work, life>>

\* An orphan that ends is seen by nobody; its last line may be cut.
OrphanEnds(r) ==
  /\ agent[r] = "orphaned" /\ log[r].torn = "none"
  /\ \E last \in Line \ {"none"} : log' = [log EXCEPT ![r].torn = last]
  /\ UNCHANGED <<rows, agent, work, life>>

Vanish(r) ==
  /\ May("gone")
  /\ agent[r] \in {"exit_ok", "exit_error", "killed"}
  /\ agent' = Put(agent, r, "gone")
  /\ UNCHANGED <<rows, log, work, life>>

(***************************************************************************)
(* Stopping, dying, starting: reattach_all before the first request.       *)
(***************************************************************************)

\* shutdown cancels the tasks; a crash has the same effect on them.
Stop ==
  /\ server # "down" /\ restarts < MaxRestarts
  /\ server' = "down" /\ candidates' = {} /\ restarts' = restarts + 1
  /\ task' = [r \in Runs |-> "none"]
  /\ seen' = [r \in Runs |-> NoLog]
  /\ late' = [r \in Runs |-> FALSE]
  /\ outcome' = [r \in Runs |-> "none"]
  /\ UNCHANGED <<rows, agent, log>>

\* A restart that looks at every run it has a row for.
Start_all ==
  /\ server = "down"
  /\ server' = "starting"
  /\ candidates' = {r \in Runs : row[r] # "none"}
  /\ UNCHANGED <<rows, agent, log, work, restarts>>

Start ==
  /\ server = "down"
  /\ server' = "starting"
  /\ candidates' = {r \in Runs : row[r] = "running"}
  /\ UNCHANGED <<rows, agent, log, work, restarts>>

\* A run left on the list it was taken from.
ReattachAlive_again(r) ==
  /\ r \in candidates
  /\ "alive" \in poll(r)
  /\ task' = Put(task, r, "loop")
  /\ UNCHANGED <<rows, agent, log, seen, late, outcome, life>>

\* A live agent gets a new meter, clock included, and a task that reads the
\* log from its first byte.
ReattachAlive(r) ==
  /\ r \in candidates
  /\ "alive" \in poll(r)
  /\ candidates' = candidates \ {r}
  /\ task' = Put(task, r, "loop")
  /\ UNCHANGED <<rows, agent, log, seen, late, outcome, server, restarts>>

\* _replay splits the whole file: the unterminated line counts here.
replayed_cost(l) == l.cost + (IF l.torn = "cost" THEN 1 ELSE 0)

replayed_error(l) == l.error \/ l.torn = "error"

\* Exited while nobody watched.  No limit is looked at, and a handle that is
\* gone is no failure once the log has an event.
reconciled(answer, l) ==
  LET events == replayed_cost(l) > 0 \/ replayed_error(l) \/ l.plain \/ l.torn = "plain"
      status == IF answer = "gone" /\ events THEN "completed" ELSE outcome_of(answer)
  IN  with_errors(status, replayed_error(l))

Reconcile(r) ==
  /\ r \in candidates
  /\ \E answer \in poll(r) \ {"alive"} : row' = Put(row, r, reconciled(answer, log[r]))
  /\ recorded' = Put(recorded, r, charged(r, replayed_cost(log[r])))
  /\ candidates' = candidates \ {r}
  /\ UNCHANGED <<agent, log, work, server, restarts>>

\* lifespan logs the exception and boots: the candidates left are skipped.
ReattachRaises ==
  /\ May("raise")
  /\ server = "starting" /\ candidates # {}
  /\ candidates' = {}
  /\ UNCHANGED <<rows, agent, log, work, server, restarts>>

Serve ==
  /\ server = "starting" /\ candidates = {}
  /\ server' = "up"
  /\ UNCHANGED <<rows, agent, log, work, candidates, restarts>>

(***************************************************************************)
(* Specification.                                                          *)
(***************************************************************************)

Init ==
  /\ row = [r \in Runs |-> "none"]
  /\ recorded = [r \in Runs |-> 0]
  /\ agent = [r \in Runs |-> "none"]
  /\ log = [r \in Runs |-> NoLog]
  /\ task = [r \in Runs |-> "none"]
  /\ seen = [r \in Runs |-> NoLog]
  /\ late = [r \in Runs |-> FALSE]
  /\ outcome = [r \in Runs |-> "none"]
  /\ server = "up" /\ candidates = {} /\ restarts = 0

StartRun(r) ==
  InsertRun(r) \/ Launch(r) \/ LaunchFails(r) \/ PersistHandle(r) \/ PersistFails(r)

Supervise(r) ==
  \/ Drain(r) \/ Poll(r) \/ Recheck(r) \/ LoopRaises(r) \/ Terminate(r)
  \/ Finish(r) \/ FinishFails(r)

AgentStep(r) == WriteLog(r) \/ Exit(r) \/ Kill(r) \/ OrphanEnds(r) \/ Vanish(r)

Restart ==
  \/ Start \/ Serve \/ ReattachRaises
  \/ \E r \in Runs : ReattachAlive(r) \/ Reconcile(r)

Next ==
  \/ \E r \in Runs : StartRun(r) \/ Supervise(r) \/ AgentStep(r) \/ ClockRunsOut(r)
  \/ Stop \/ Restart

\* Tasks and the clock run on; a server that stopped is started again.  No
\* agent is assumed ever to write or to exit.
Fairness ==
  /\ \A r \in Runs : WF_vars(Supervise(r)) /\ WF_vars(ClockRunsOut(r))
  /\ WF_vars(Restart)

Spec == Init /\ [][Next]_vars

FairSpec == Spec /\ Fairness

(***************************************************************************)
(* Properties.                                                             *)
(***************************************************************************)

TypeOK ==
  /\ row \in [Runs -> RunStatus]
  /\ recorded \in [Runs -> 0..(MaxLog + 1)]
  /\ agent \in [Runs -> Agent]
  /\ log \in [Runs -> Log]
  /\ task \in [Runs -> {"none", "launch", "persist", "terminate", "finish", "dead"}
                        \cup Watching]
  /\ seen \in [Runs -> Log]
  /\ late \in [Runs -> BOOLEAN]
  /\ outcome \in [Runs -> {"none"} \cup Terminal]
  /\ server \in {"up", "down", "starting"}
  /\ candidates \subseteq Runs
  /\ restarts \in 0..MaxRestarts

\* A run's outcome is recorded once: no late task, restart or replay rewrites
\* it, and no run skips the step that makes it recoverable.
OutcomeIsFinal ==
  [][\A r \in Runs : row'[r] # row[r] =>
       \/ row[r] = "none" /\ row'[r] = "pending"
       \/ row[r] = "pending" /\ row'[r] \in {"running", "failed"}
       \/ row[r] = "running" /\ row'[r] \in Terminal]_vars

\* Each run has one outcome to come: a task at work on it, or a place in
\* reattach_all, never both, and neither once it is recorded.
OneWatcher ==
  \A r \in Runs :
    /\ r \in candidates => row[r] = "running" /\ task[r] = "none"
    /\ task[r] \in Watching \cup {"terminate", "finish", "dead"} => row[r] = "running"

\* A completed run was read to its end: every complete line is charged, once,
\* though the log was read twice, and none of them reports an error.  The log
\* of an orphaned harness has no end to read to: it may grow after the run.
CompletedIsRead ==
  \A r \in Runs : row[r] = "completed" =>
    \/ agent[r] = "orphaned"
    \/ /\ ~log[r].error
       /\ recorded[r] \in {log[r].cost, replayed_cost(log[r])}

\* A limit is recorded of an agent that was told to stop, through restarts and
\* failing writes, and a ceiling of a run that spent as much.  The agent need
\* not be dead: terminate may leave it unstopped or orphaned, and the row says
\* the same of both.
LimitIsEnforced ==
  \A r \in Runs :
    /\ row[r] \in {"timed_out", "cost_exceeded"} => agent[r] # "alive"
    /\ row[r] = "cost_exceeded" => Ceiling > 0 /\ recorded[r] >= Ceiling

\* A running row nobody will finish before the next restart: reattach_all gave
\* up before it, or its task died writing the outcome.
Unwatched(r) ==
  row[r] = "running" /\ (task[r] = "dead" \/ (server = "up" /\ task[r] = "none"))

\* Every running run ends, whatever its agent does and however often the
\* server is restarted, or is left unwatched by a failure.
RunEnds ==
  \A r \in Runs : row[r] = "running" ~> (row[r] \in Terminal \/ Unwatched(r))

\* "Without this a harness that exits non-zero would be reported as a
\* successful run" (runs/host_runner.py): a completed run exited with zero.
CompletedMeansSuccess ==
  \A r \in Runs : row[r] = "completed" => agent[r] = "exit_ok"
==============================================================================
