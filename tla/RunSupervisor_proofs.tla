------------------------ MODULE RunSupervisor_proofs ------------------------
(***************************************************************************)
(* Theorems of RunSupervisor, for any number of runs, any ceiling and any  *)
(* number of restarts.  The argument is one invariant per run: where its   *)
(* task is says what its row and its outcome are, and an outcome that is   *)
(* "completed" was decided of a process that no longer runs, so its log no *)
(* longer grows under the reader unless its harness was orphaned; one that *)
(* is a limit was followed by a terminate.                                 *)
(***************************************************************************)
EXTENDS RunSupervisor, TLAPS

Limits == {"timed_out", "cost_exceeded"}

\* docker answers for a live container.
Reliable == ~May("unreachable")

(***************************************************************************)
(* The inductive invariant.                                                *)
(***************************************************************************)

\* A ceiling is the outcome of what was read up to it.
Spent(r) ==
  /\ task[r] \in {"terminate", "finish", "dead"} /\ outcome[r] = "cost_exceeded" =>
       Ceiling > 0 /\ seen[r].cost >= Ceiling
  /\ row[r] = "cost_exceeded" => Ceiling > 0 /\ recorded[r] >= Ceiling

\* A limit is the outcome of an agent that was told to stop.
Told(r) ==
  /\ task[r] \in {"finish", "dead"} /\ outcome[r] \in Limits => agent[r] # "alive"
  /\ row[r] \in Limits => agent[r] # "alive"

\* Where the task is, and the row and outcome that go with it.
Placed(r) ==
  /\ r \in candidates => server = "starting" /\ row[r] = "running" /\ task[r] = "none"
  /\ task[r] \in {"launch", "persist"} => row[r] = "pending"
  /\ task[r] \in Watching \cup {"terminate", "finish", "dead"} => row[r] = "running"
  /\ row[r] \notin Terminal => recorded[r] = 0
  /\ server = "down" => task[r] = "none"
  /\ task[r] = "exited" => outcome[r] \in {"completed", "failed"}
  /\ task[r] = "terminate" => outcome[r] \in Limits
  /\ task[r] \in {"finish", "dead"} => outcome[r] \in Terminal
  /\ Spent(r)
  /\ Told(r)

\* Nothing will write to the log any more.
Quiet(r) == ~Running(r) /\ agent[r] # "orphaned"

\* An outcome that vouches for the agent was decided of one that is not running.
Decided(r) ==
  /\ task[r] = "exited" /\ outcome[r] = "completed" => ~Running(r)
  /\ task[r] = "finish" /\ outcome[r] = "completed" =>
       ~Running(r) /\ (Quiet(r) => seen[r] = log[r])
  /\ row[r] = "completed" =>
       /\ ~Running(r)
       /\ Quiet(r) => /\ ~log[r].error
                      /\ recorded[r] \in {log[r].cost, replayed_cost(log[r])}

PlacedInv == TypeOK /\ \A r \in Runs : Placed(r)

DecidedInv == \A r \in Runs : Decided(r)

\* What a step of one run leaves to the others.
Same(s) ==
  /\ row'[s] = row[s] /\ recorded'[s] = recorded[s]
  /\ agent'[s] = agent[s] /\ log'[s] = log[s]
  /\ task'[s] = task[s] /\ seen'[s] = seen[s] /\ outcome'[s] = outcome[s]
  /\ s \in candidates' => s \in candidates

RunStep(r) ==
  \/ StartRun(r) \/ Supervise(r) \/ AgentStep(r) \/ ClockRunsOut(r)
  \/ ReattachAlive(r) \/ Reconcile(r)

(***************************************************************************)
(* Lemmas about data.                                                      *)
(***************************************************************************)

\* The meter and the classifications stay within their types.
LEMMA Outcomes ==
  /\ \A r, cost : check(r, cost) \in Limits \cup {"none"}
  /\ \A answer : outcome_of(answer) \in {"completed", "failed"}
  /\ \A status \in Terminal, error \in BOOLEAN : with_errors(status, error) \in Terminal
  /\ \A answer : \A l \in Log : reconciled(answer, l) \in {"completed", "failed"}
BY DEF check, outcome_of, with_errors, reconciled, Terminal, Limits, Log, replayed_error

\* A replay charges the log's lines and at most one more.
LEMMA ReplayedCost ==
  ASSUME NEW l \in Log
  PROVE  /\ replayed_cost(l) \in 0..(MaxLog + 1) /\ l.cost \in 0..(MaxLog + 1)
         /\ replayed_cost(l) \in Nat /\ l.cost \in Nat
BY RunAssumptions DEF Log, replayed_cost

\* A state of the system and the types of one run's entries.
LEMMA Entries ==
  ASSUME TypeOK, NEW r \in Runs
  PROVE  /\ row[r] \in RunStatus /\ recorded[r] \in 0..(MaxLog + 1)
         /\ agent[r] \in Agent /\ log[r] \in Log /\ seen[r] \in Log
         /\ outcome[r] \in {"none"} \cup Terminal
BY DEF TypeOK

\* Nothing was spent according to the row of a run still going: what is read
\* again after a restart is charged from zero.
LEMMA ChargedOnce ==
  ASSUME TypeOK, NEW r \in Runs, Placed(r), row[r] = "running", NEW cost \in Nat
  PROVE  charged(r, cost) = cost
BY DEF charged, Placed, Terminal

\* An agent that ends is in one of its final states, with its last line written.
LEMMA AgentTypes ==
  ASSUME NEW f \in [Runs -> Agent], NEW r \in Runs
  PROVE  /\ \A x \in {"alive", "gone"} \cup StopStates : Put(f, r, x) \in [Runs -> Agent]
         /\ \A x \in Stopped(r) : agent[r] \in Agent => x \in Agent
BY DEF Put, Agent, StopStates, Stopped

\* What an agent does to its log leaves a log.
LEMMA LogUpdates ==
  ASSUME log \in [Runs -> Log], NEW r \in Runs
  PROVE  /\ log[r].cost < MaxLog => [log EXCEPT ![r].cost = @ + 1] \in [Runs -> Log]
         /\ [log EXCEPT ![r].error = TRUE] \in [Runs -> Log]
         /\ [log EXCEPT ![r].plain = TRUE] \in [Runs -> Log]
         /\ \A last \in Line : [log EXCEPT ![r].torn = last] \in [Runs -> Log]
<1>1. log[r].cost < MaxLog => [log EXCEPT ![r].cost = @ + 1] \in [Runs -> Log]
  BY RunAssumptions DEF Log
<1>2. [log EXCEPT ![r].error = TRUE] \in [Runs -> Log]
  BY DEF Log
<1>3. [log EXCEPT ![r].plain = TRUE] \in [Runs -> Log]
  BY DEF Log
<1>4. ASSUME NEW last \in Line
      PROVE  [log EXCEPT ![r].torn = last] \in [Runs -> Log]
  BY <1>4 DEF Log
<1>5. QED
  BY <1>1, <1>2, <1>3, <1>4

(***************************************************************************)
(* A step of one run.                                                      *)
(***************************************************************************)

\* Types survive the launch, the agent's own steps and the clock.
LEMMA LaunchTypes ==
  ASSUME PlacedInv, NEW r \in Runs, StartRun(r) \/ AgentStep(r) \/ ClockRunsOut(r)
  PROVE  TypeOK'
<1>0. TypeOK /\ log \in [Runs -> Log]
  BY DEF PlacedInv, TypeOK
<1>1. CASE StartRun(r)
  BY <1>0, <1>1
  DEF StartRun, InsertRun, Launch, LaunchFails, PersistHandle, PersistFails, Put,
      TypeOK, RunStatus, Terminal, Agent, Watching, rows, life
<1>2. CASE WriteLog(r)
  <2>1. log' \in [Runs -> Log]
    BY <1>0, <1>2, LogUpdates DEF WriteLog
  <2>2. QED
    BY <1>0, <1>2, <2>1 DEF WriteLog, TypeOK, rows, work, life
<1>3. CASE Exit(r) \/ Kill(r) \/ OrphanEnds(r) \/ Vanish(r)
  <2>1. log' = log \/ \E last \in Line : log' = [log EXCEPT ![r].torn = last]
    BY <1>3 DEF Exit, Kill, OrphanEnds, Vanish
  <2>2. log' \in [Runs -> Log]
    <3>1. ASSUME NEW last \in Line, log' = [log EXCEPT ![r].torn = last]
          PROVE  log' \in [Runs -> Log]
      BY <1>0, <3>1, LogUpdates
    <3>2. QED
      BY <1>0, <2>1, <3>1
  <2>3. agent' \in [Runs -> Agent]
    BY <1>0, <1>3 DEF Exit, Kill, OrphanEnds, Vanish, Put, TypeOK, Agent, StopStates
  <2>4. QED
    BY <1>0, <1>3, <2>2, <2>3
    DEF Exit, Kill, OrphanEnds, Vanish, TypeOK, rows, work, life
<1>4. CASE ClockRunsOut(r)
  BY <1>0, <1>4 DEF ClockRunsOut, Put, TypeOK, rows, life
<1>5. QED
  BY <1>1, <1>2, <1>3, <1>4 DEF AgentStep

\* Types survive the supervision loop and the reattachment.
LEMMA SuperviseTypes ==
  ASSUME PlacedInv, NEW r \in Runs, Supervise(r) \/ ReattachAlive(r) \/ Reconcile(r)
  PROVE  TypeOK'
<1>0. TypeOK /\ Placed(r)
  BY DEF PlacedInv
<1>01. row[r] = "running" =>
         /\ charged(r, seen[r].cost) = seen[r].cost
         /\ charged(r, replayed_cost(log[r])) = replayed_cost(log[r])
  BY <1>0, Entries, ReplayedCost, ChargedOnce
<1>1. CASE Drain(r)
  <2>1. check(r, charged(r, log[r].cost)) \in Limits \cup {"none"}
    BY Outcomes
  <2>2. outcome' \in [Runs -> {"none"} \cup Terminal]
    BY <1>0, <1>1, <2>1 DEF Drain, Put, TypeOK, Limits, Terminal
  <2>3. QED
    BY <1>0, <1>1, <2>2 DEF Drain, Put, TypeOK, Watching, rows, life
<1>2. CASE Poll(r)
  <2>1. outcome' \in [Runs -> {"none"} \cup Terminal]
    BY <1>0, <1>2, Outcomes DEF Poll, Put, TypeOK, Terminal
  <2>2. task' \in [Runs -> {"none", "launch", "persist", "terminate", "finish",
                            "dead"} \cup Watching]
    BY <1>0, <1>2 DEF Poll, Put, TypeOK, Watching
  <2>3. QED
    BY <1>0, <1>2, <2>1, <2>2 DEF Poll, TypeOK, rows, life
<1>3. CASE Recheck(r) \/ LoopRaises(r) \/ FinishFails(r)
  BY <1>0, <1>3
  DEF Recheck, LoopRaises, FinishFails, Put, TypeOK, Terminal, Watching, rows, life
<1>4. CASE Terminate(r)
  <2>1. agent' \in [Runs -> Agent]
    BY <1>0, <1>4, Entries, AgentTypes DEF Terminate, Put, TypeOK
  <2>2. QED
    BY <1>0, <1>4, <2>1 DEF Terminate, Put, TypeOK, rows, life
<1>5. CASE Finish(r)
  <2>1. outcome[r] \in Terminal /\ seen[r].error \in BOOLEAN
    BY <1>0, <1>5 DEF Finish, Placed, TypeOK, Log
  <2>2. row' \in [Runs -> RunStatus]
    BY <1>0, <1>5, <2>1, Outcomes DEF Finish, Put, TypeOK, RunStatus
  <2>3. recorded' \in [Runs -> 0..(MaxLog + 1)]
    BY <1>0, <1>01, <1>5, Entries, ReplayedCost DEF Finish, Put, TypeOK, Placed
  <2>4. NoLog \in Log
    BY RunAssumptions DEF NoLog, Log, Line
  <2>5. QED
    BY <1>0, <1>5, <2>2, <2>3, <2>4 DEF Finish, Put, TypeOK, life
<1>6. CASE ReattachAlive(r)
  BY <1>0, <1>6 DEF ReattachAlive, Put, TypeOK, Watching, rows
<1>7. CASE Reconcile(r)
  <2>1. row' \in [Runs -> RunStatus]
    BY <1>0, <1>7, Outcomes DEF Reconcile, Put, TypeOK, RunStatus, Terminal
  <2>2. recorded' \in [Runs -> 0..(MaxLog + 1)]
    BY <1>0, <1>01, <1>7, Entries, ReplayedCost DEF Reconcile, Put, TypeOK, Placed
  <2>3. QED
    BY <1>0, <1>7, <2>1, <2>2 DEF Reconcile, TypeOK, work
<1>8. QED
  BY <1>1, <1>2, <1>3, <1>4, <1>5, <1>6, <1>7 DEF Supervise

\* The other runs keep their entries, the server its state.
LEMMA OthersAreLeftAlone ==
  ASSUME TypeOK, NEW r \in Runs, RunStep(r)
  PROVE  /\ \A s \in Runs \ {r} : Same(s)
         /\ server' = server
<1>1. CASE StartRun(r)
  BY <1>1
  DEF StartRun, InsertRun, Launch, LaunchFails, PersistHandle, PersistFails, Put,
      TypeOK, Same, rows, life
<1>2. CASE AgentStep(r) \/ ClockRunsOut(r)
  BY <1>2
  DEF AgentStep, WriteLog, Exit, Kill, OrphanEnds, Vanish, ClockRunsOut, Put, TypeOK, Same,
      rows, work, life
<1>3. CASE Drain(r) \/ Poll(r)
  BY <1>3 DEF Drain, Poll, Put, TypeOK, Same, rows, life
<1>4. CASE Recheck(r) \/ LoopRaises(r) \/ Terminate(r)
  BY <1>4 DEF Recheck, LoopRaises, Terminate, Put, TypeOK, Same, rows, life
<1>5. CASE Finish(r) \/ FinishFails(r)
  BY <1>5 DEF Finish, FinishFails, Put, TypeOK, Same, rows, life
<1>6. CASE ReattachAlive(r) \/ Reconcile(r)
  BY <1>6 DEF ReattachAlive, Reconcile, Put, TypeOK, Same, rows, work
<1>7. QED
  BY <1>1, <1>2, <1>3, <1>4, <1>5, <1>6 DEF RunStep, Supervise

\* Wherever a step takes a run, its row and outcome follow.
LEMMA StepPlaces ==
  ASSUME PlacedInv, NEW r \in Runs, RunStep(r)
  PROVE  Placed(r)'
<1>0. TypeOK /\ Placed(r)
  BY DEF PlacedInv
<1>1. CASE StartRun(r)
  BY <1>0, <1>1
  DEF StartRun, InsertRun, Launch, LaunchFails, PersistHandle, PersistFails, Put,
      TypeOK, Placed, Spent, Told, Watching, Limits, Terminal, rows, life
<1>2. CASE AgentStep(r) \/ ClockRunsOut(r)
  BY <1>0, <1>2
  DEF AgentStep, WriteLog, Exit, Kill, OrphanEnds, Vanish, ClockRunsOut, Placed, Spent, Told,
      Running, Limits, StopStates, Put, TypeOK, rows, work, life
<1>3. CASE Drain(r)
  <2>1. check(r, charged(r, log[r].cost)) # "none" => check(r, charged(r, log[r].cost)) \in Limits
    BY Outcomes
  <2>2. charged(r, log[r].cost) = log[r].cost
    BY <1>0, <1>3, Entries, ReplayedCost, ChargedOnce DEF Drain, Placed, Watching
  <2>3. check(r, log[r].cost) = "cost_exceeded" => Ceiling > 0 /\ log[r].cost >= Ceiling
    BY DEF check
  <2>4. QED
    BY <1>0, <1>3, <2>1, <2>2, <2>3
    DEF Drain, Put, TypeOK, Placed, Spent, Told, Watching, rows, life
<1>4. CASE Poll(r)
  BY <1>0, <1>4, Outcomes 
  DEF Poll, Put, TypeOK, Placed, Spent, Told, Watching, Limits, rows, life
<1>5. CASE Recheck(r)
  BY <1>0, <1>5
  DEF Recheck, Put, TypeOK, Placed, Spent, Told, Watching, Limits, Terminal, rows, life
<1>6. CASE LoopRaises(r) \/ Terminate(r)
  <2>1. Terminate(r) => agent'[r] # "alive"
    BY <1>0 DEF Terminate, Stopped, StopStates, Running, Put, TypeOK
  <2>2. QED
    BY <1>0, <1>6, <2>1
    DEF LoopRaises, Terminate, Put, TypeOK, Placed, Spent, Told, Watching, Limits, Terminal,
        rows, life
<1>7. CASE Finish(r) \/ FinishFails(r)
  <2>1. outcome[r] \in Terminal /\ seen[r].error \in BOOLEAN
    BY <1>0, <1>7 DEF Finish, FinishFails, Placed, TypeOK, Log
  <2>2. with_errors(outcome[r], seen[r].error) \in Terminal
    BY <2>1, Outcomes
  <2>3. with_errors(outcome[r], seen[r].error) \in Limits =>
          with_errors(outcome[r], seen[r].error) = outcome[r]
    BY DEF with_errors, Limits
  <2>4. charged(r, seen[r].cost) = seen[r].cost
    BY <1>0, <1>7, Entries, ReplayedCost, ChargedOnce DEF Finish, FinishFails, Placed
  <2>5. CASE Finish(r)
    BY <1>0, <2>2, <2>3, <2>4, <2>5
    DEF Finish, Put, TypeOK, Placed, Spent, Told, Watching, Limits, life
  <2>6. CASE FinishFails(r)
    BY <1>0, <2>6
    DEF FinishFails, Put, TypeOK, Placed, Spent, Told, Watching, rows, life
  <2>7. QED
    BY <1>7, <2>5, <2>6
<1>8. CASE ReattachAlive(r) \/ Reconcile(r)
  <2>1. \A answer : reconciled(answer, log[r]) \in Terminal \ Limits
    BY <1>0, Entries, Outcomes DEF Terminal, Limits
  <2>2. QED
    BY <1>0, <1>8, <2>1
    DEF ReattachAlive, Reconcile, Put, TypeOK, Placed, Spent, Told, Watching, Limits, rows, work
<1>9. QED
  BY <1>1, <1>2, <1>3, <1>4, <1>5, <1>6, <1>7, <1>8 DEF RunStep, Supervise

\* An agent is vouched for only once it is dead, and its log read to the end.
LEMMA StepDecides ==
  ASSUME PlacedInv, Reliable, NEW r \in Runs, Decided(r), RunStep(r)
  PROVE  Decided(r)'
<1>0. TypeOK /\ Placed(r) /\ Decided(r)
  BY DEF PlacedInv
<1>1. CASE StartRun(r)
  BY <1>0, <1>1
  DEF StartRun, InsertRun, Launch, LaunchFails, PersistHandle, PersistFails, Put,
      TypeOK, Placed, Decided, Quiet, Running, Watching, Limits, replayed_cost, rows, life
<1>2. CASE AgentStep(r) \/ ClockRunsOut(r)
  BY <1>0, <1>2
  DEF AgentStep, WriteLog, Exit, Kill, OrphanEnds, Vanish, ClockRunsOut, Put, TypeOK,
      Decided, Quiet, Running,
      StopStates, replayed_cost, rows, work, life
<1>3. CASE Drain(r)
  BY <1>0, <1>3
  DEF Drain, Put, TypeOK, Placed, Decided, Quiet, Running, Watching, Limits, replayed_cost,
      rows, life
<1>4. CASE Poll(r)
  BY <1>0, <1>4
  DEF Poll, poll, Reliable, Put, TypeOK, Placed, Decided, Quiet, Running, Watching, Limits,
      replayed_cost, rows, life
<1>5. CASE Recheck(r)
  BY <1>0, <1>5
  DEF Recheck, Put, TypeOK, Placed, Decided, Quiet, Running, Watching, Limits, replayed_cost,
      rows, life
<1>6. CASE LoopRaises(r)
  BY <1>0, <1>6
  DEF LoopRaises, Put, TypeOK, Placed, Decided, Quiet, Running, Watching, Limits, replayed_cost,
      rows, life
<1>7. CASE Terminate(r)
  BY <1>0, <1>7
  DEF Terminate, Stopped, StopStates, Reliable, Put, TypeOK, Placed, Decided, Quiet, Running,
      Watching,
      Limits, replayed_cost, rows, life
<1>8. CASE Finish(r)
  <2>1. charged(r, seen[r].cost) = seen[r].cost
    BY <1>0, <1>8, Entries, ReplayedCost, ChargedOnce DEF Finish, Placed
  <2>2. QED
    BY <1>0, <1>8, <2>1
    DEF Finish, with_errors, Put, TypeOK, Placed, Decided, Quiet, Running, Watching, Limits,
        Terminal, replayed_cost, life
<1>9. CASE FinishFails(r)
  BY <1>0, <1>9
  DEF FinishFails, Put, TypeOK, Placed, Decided, Quiet, Running, Watching, Limits,
      replayed_cost,
      rows, life
<1>10. CASE ReattachAlive(r)
  BY <1>0, <1>10
  DEF ReattachAlive, Put, TypeOK, Placed, Decided, Quiet, Running, Watching, Limits,
      replayed_cost, rows
<1>11. CASE Reconcile(r)
  <2>1. PICK answer \in poll(r) \ {"alive"} : row' = Put(row, r, reconciled(answer, log[r]))
    BY <1>11 DEF Reconcile
  <2>2. ~Running(r)
    BY <2>1 DEF poll, Reliable, Running
  <2>3. /\ reconciled(answer, log[r]) \in {"completed", "failed"}
        /\ reconciled(answer, log[r]) = "completed" => ~log[r].error
    BY <1>0, <2>1, Entries DEF reconciled, with_errors, replayed_error, outcome_of, Log
  <2>4. charged(r, replayed_cost(log[r])) = replayed_cost(log[r])
    BY <1>0, <1>11, Entries, ReplayedCost, ChargedOnce DEF Reconcile, Placed
  <2>5. QED
    BY <1>0, <1>11, <2>1, <2>2, <2>3, <2>4
    DEF Reconcile, Put, TypeOK, Placed, Decided, Quiet, Running, Watching, Limits,
        replayed_cost, work
<1>12. QED
  BY <1>1, <1>2, <1>3, <1>4, <1>5, <1>6, <1>7, <1>8, <1>9, <1>10, <1>11
  DEF RunStep, Supervise

(***************************************************************************)
(* A step of the server.                                                   *)
(***************************************************************************)

ServerStep == Stop \/ Start \/ Serve \/ ReattachRaises

\* Types survive a stop and a start.
LEMMA ServerTypes ==
  ASSUME TypeOK, ServerStep
  PROVE  TypeOK'
<1>1. CASE Stop
  <2>1. NoLog \in Log /\ restarts' \in 0..MaxRestarts
    BY <1>1, RunAssumptions DEF Stop, NoLog, Log, Line, TypeOK
  <2>2. QED
    BY <1>1, <2>1 DEF Stop, TypeOK, rows
<1>2. CASE Start \/ Serve \/ ReattachRaises
  BY <1>2 DEF Start, Serve, ReattachRaises, TypeOK, rows, work
<1>3. QED
  BY <1>1, <1>2 DEF ServerStep

\* A stop forgets every task; a start takes the rows still running.
LEMMA ServerKeeps ==
  ASSUME PlacedInv, NEW r \in Runs, ServerStep
  PROVE  /\ Placed(r)'
         /\ Decided(r) => Decided(r)'
<1>0. TypeOK /\ Placed(r)
  BY DEF PlacedInv
<1>1. CASE Stop
  BY <1>0, <1>1
  DEF Stop, Placed, Spent, Told, Decided, Quiet, Running, Watching, replayed_cost, TypeOK, rows
<1>2. CASE Start
  BY <1>0, <1>2
  DEF Start, Placed, Spent, Told, Decided, Quiet, Running, Watching, replayed_cost, TypeOK,
      rows, work
<1>3. CASE Serve \/ ReattachRaises
  BY <1>0, <1>3
  DEF Serve, ReattachRaises, Placed, Spent, Told, Decided, Quiet, Running, Watching,
      replayed_cost, TypeOK, rows, work
<1>4. QED
  BY <1>1, <1>2, <1>3 DEF ServerStep

(***************************************************************************)
(* The inductive step.                                                     *)
(***************************************************************************)

\* Next is a step of one run or of the server.
LEMMA NextCases ==
  Next => ServerStep \/ \E r \in Runs : RunStep(r)
BY DEF Next, Restart, ServerStep, RunStep

\* A run that is left alone stays where it is.
LEMMA SameKeeps ==
  ASSUME NEW s, Same(s), server' = server
  PROVE  /\ Placed(s) => Placed(s)'
         /\ Decided(s) => Decided(s)'
BY DEF Same, Placed, Spent, Told, Decided, Quiet, Running, Watching, replayed_cost

\* Stuttering keeps everything.
LEMMA Stuttering ==
  ASSUME UNCHANGED vars
  PROVE  /\ TypeOK => TypeOK'
         /\ \A r \in Runs : Same(r)
         /\ server' = server
BY DEF vars, rows, work, life, TypeOK, Same

\* Every step keeps types and places.
LEMMA PlacedIsInductive == PlacedInv /\ [Next]_vars => PlacedInv'
<1> SUFFICES ASSUME PlacedInv, [Next]_vars
             PROVE  PlacedInv'
  OBVIOUS
<1>1. ASSUME NEW r \in Runs, RunStep(r)
      PROVE  PlacedInv'
  <2>1. TypeOK'
    BY <1>1, LaunchTypes, SuperviseTypes DEF RunStep
  <2>2. \A s \in Runs : Placed(s)'
    BY <1>1, StepPlaces, OthersAreLeftAlone, SameKeeps DEF PlacedInv
  <2>3. QED
    BY <2>1, <2>2 DEF PlacedInv
<1>2. CASE ServerStep
  BY <1>2, ServerTypes, ServerKeeps DEF PlacedInv
<1>3. CASE UNCHANGED vars
  BY <1>3, Stuttering, SameKeeps DEF PlacedInv
<1>4. QED
  BY <1>1, <1>2, <1>3, NextCases

\* Every step keeps the decisions, as long as the environment is reliable.
LEMMA DecidedIsInductive ==
  Reliable /\ PlacedInv /\ DecidedInv /\ [Next]_vars => DecidedInv'
<1> SUFFICES ASSUME Reliable, PlacedInv, DecidedInv, [Next]_vars
             PROVE  DecidedInv'
  OBVIOUS
<1>1. ASSUME NEW r \in Runs, RunStep(r)
      PROVE  DecidedInv'
  <2>1. TypeOK
    BY DEF PlacedInv
  <2>2. QED
    BY <1>1, <2>1, StepDecides, OthersAreLeftAlone, SameKeeps DEF DecidedInv
<1>2. CASE ServerStep
  BY <1>2, ServerKeeps DEF DecidedInv
<1>3. CASE UNCHANGED vars
  BY <1>3, Stuttering, SameKeeps DEF DecidedInv
<1>4. QED
  BY <1>1, <1>2, <1>3, NextCases

\* Both hold before the first run.
LEMMA InitInv == Init => PlacedInv /\ DecidedInv
<1> SUFFICES ASSUME Init
             PROVE  PlacedInv /\ DecidedInv
  OBVIOUS
<1>1. NoLog \in Log
  BY RunAssumptions DEF NoLog, Log, Line
<1>2. TypeOK
  BY <1>1, RunAssumptions DEF Init, TypeOK, RunStatus, Agent, Terminal
<1>3. QED
  BY <1>2
  DEF Init, PlacedInv, DecidedInv, Placed, Spent, Told, Decided, Quiet, Running, Watching,
      Limits

(***************************************************************************)
(* Theorems.                                                               *)
(***************************************************************************)

\* Every reachable state is well typed and every run in its place.
THEOREM Inductive == Spec => []PlacedInv
BY InitInv, PlacedIsInductive, PTL DEF Spec

\* The type invariant of the supervisor and its runs.
THEOREM TypeCorrect == Spec => []TypeOK
<1>1. PlacedInv => TypeOK
  BY DEF PlacedInv
<1>2. QED
  BY <1>1, Inductive, PTL

\* No run is ever watched by two, or after its outcome: reattach_all and
\* start_run never supervise the same row.
THEOREM OneWatcherHolds == Spec => []OneWatcher
<1>1. PlacedInv => OneWatcher
  BY DEF PlacedInv, Placed, OneWatcher
<1>2. QED
  BY <1>1, Inductive, PTL

\* An outcome is written once, over a running row, however many restarts,
\* replays and late tasks there are.
THEOREM OutcomeIsFinalHolds == Spec => OutcomeIsFinal
<1> DEFINE Written(r) ==
      row'[r] # row[r] =>
        \/ row[r] = "none" /\ row'[r] = "pending"
        \/ row[r] = "pending" /\ row'[r] \in {"running", "failed"}
        \/ row[r] = "running" /\ row'[r] \in Terminal
<1>1. ASSUME PlacedInv, NEW r \in Runs, RunStep(r)
      PROVE  Written(r)
  <2>0. TypeOK /\ Placed(r)
    BY <1>1 DEF PlacedInv
  <2>1. CASE StartRun(r)
    BY <2>0, <2>1
    DEF StartRun, InsertRun, Launch, LaunchFails, PersistHandle, PersistFails, Put,
        TypeOK, Placed, rows
  <2>2. CASE AgentStep(r) \/ ClockRunsOut(r)
    BY <2>2 DEF AgentStep, WriteLog, Exit, Kill, OrphanEnds, Vanish, ClockRunsOut, rows
  <2>3. CASE Supervise(r) /\ ~Finish(r)
    BY <2>3
    DEF Supervise, Drain, Poll, Recheck, LoopRaises, Terminate, FinishFails, rows
  <2>4. CASE Finish(r)
    <3>1. outcome[r] \in Terminal /\ seen[r].error \in BOOLEAN
      BY <2>0, <2>4 DEF Finish, Placed, TypeOK, Log
    <3>2. QED
      BY <2>0, <2>4, <3>1, Outcomes DEF Finish, Put, TypeOK, Placed
  <2>5. CASE ReattachAlive(r)
    BY <2>5 DEF ReattachAlive, rows
  <2>6. CASE Reconcile(r)
    BY <2>0, <2>6, Entries, Outcomes DEF Reconcile, Put, TypeOK, Placed, Terminal
  <2>7. QED
    BY <1>1, <2>1, <2>2, <2>3, <2>4, <2>5, <2>6 DEF RunStep
<1>2. ASSUME PlacedInv, NEW r \in Runs, RunStep(r), NEW s \in Runs \ {r}
      PROVE  Written(s)
  BY <1>2, OthersAreLeftAlone DEF PlacedInv, Same
<1>3. ASSUME ServerStep, NEW r \in Runs
      PROVE  Written(r)
  BY <1>3 DEF ServerStep, Stop, Start, Serve, ReattachRaises, rows
<1>4. PlacedInv /\ [Next]_vars => [\A r \in Runs : Written(r)]_vars
  BY <1>1, <1>2, <1>3, NextCases
<1>5. QED
  BY <1>4, Inductive, PTL DEF Spec, OutcomeIsFinal

\* With an environment that answers, a run recorded as completed was read to
\* its end and reported no error.
THEOREM CompletedIsReadHolds ==
  ASSUME Reliable
  PROVE  Spec => []CompletedIsRead
<1>1. DecidedInv => CompletedIsRead
  BY DEF DecidedInv, Decided, Quiet, CompletedIsRead
<1>2. PlacedInv /\ DecidedInv /\ [Next]_vars => DecidedInv'
  BY DecidedIsInductive
<1>3. QED
  BY <1>1, <1>2, InitInv, PlacedIsInductive, PTL DEF Spec

\* Whatever the environment does, every limit is recorded of an agent that was
\* told to stop, and a ceiling of a run that spent as much.
THEOREM LimitIsEnforcedHolds == Spec => []LimitIsEnforced
<1>1. PlacedInv => LimitIsEnforced
  BY DEF PlacedInv, Placed, Spent, Told, LimitIsEnforced, Limits
<1>2. QED
  BY <1>1, Inductive, PTL

=============================================================================
