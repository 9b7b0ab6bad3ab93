--------------------------- MODULE WriteBack_proofs ---------------------------
(***************************************************************************)
(* Theorems of WriteBack, for any sessions, requests and environments.     *)
(* The two guards are about different things: the mark goes with the tasks *)
(* of one process, the claim with the work of both and with what became of *)
(* it.  So the proof goes in three parts: what a step does to a queue and  *)
(* its marks, what it does to the claims, and where a detected session is. *)
(***************************************************************************)
EXTENDS WriteBack, TLAPS

(***************************************************************************)
(* Sequences of sessions.                                                  *)
(***************************************************************************)

\* What an added task does to the contents of a queue.
LEMMA AppendContents ==
  ASSUME NEW S, NEW q \in Seq(S), NEW s \in S
  PROVE  /\ Append(q, s) \in Seq(S) /\ Append(q, s) # <<>>
         /\ q # <<>> => Append(q, s)[1] = q[1]
         /\ ToSet(Append(q, s)) = ToSet(q) \cup {s}
         /\ IsInjective(q) /\ s \notin ToSet(q) => IsInjective(Append(q, s))
<1>1. /\ Append(q, s) \in Seq(S)
      /\ Len(Append(q, s)) = Len(q) + 1 /\ Len(q) \in Nat
      /\ DOMAIN Append(q, s) = 1..(Len(q) + 1) /\ DOMAIN q = 1..Len(q)
      /\ \A i \in 1..Len(q) : Append(q, s)[i] = q[i]
      /\ Append(q, s)[Len(q) + 1] = s
  OBVIOUS
<1>2. ToSet(Append(q, s)) = ToSet(q) \cup {s}
  BY <1>1 DEF ToSet
<1>3. IsInjective(q) /\ s \notin ToSet(q) => IsInjective(Append(q, s))
  BY <1>1 DEF ToSet, IsInjective
<1>4. QED
  BY <1>1, <1>2, <1>3

\* What the end of the task at its head does.
LEMMA TailContents ==
  ASSUME NEW S, NEW q \in Seq(S), q # <<>>
  PROVE  /\ Tail(q) \in Seq(S) /\ q[1] \in S
         /\ ToSet(q) = ToSet(Tail(q)) \cup {q[1]}
         /\ IsInjective(q) => IsInjective(Tail(q)) /\ q[1] \notin ToSet(Tail(q))
<1>1. /\ Tail(q) \in Seq(S) /\ Len(q) \in Nat \ {0}
      /\ Len(Tail(q)) = Len(q) - 1
      /\ DOMAIN Tail(q) = 1..(Len(q) - 1) /\ DOMAIN q = 1..Len(q)
      /\ \A i \in 1..(Len(q) - 1) : Tail(q)[i] = q[i + 1]
      /\ \A i \in 1..Len(q) : q[i] \in S
  OBVIOUS
<1>2. ToSet(q) = ToSet(Tail(q)) \cup {q[1]}
  <2>1. ASSUME NEW s \in ToSet(q)
        PROVE  s \in ToSet(Tail(q)) \cup {q[1]}
    <3>1. PICK i \in 1..Len(q) : s = q[i]
      BY <1>1 DEF ToSet
    <3>2. CASE i = 1
      BY <3>1, <3>2
    <3>3. CASE i # 1
      <4>1. i - 1 \in DOMAIN Tail(q) /\ s = Tail(q)[i - 1]
        BY <1>1, <3>1, <3>3
      <4>2. QED
        BY <4>1 DEF ToSet
    <3>4. QED
      BY <3>2, <3>3
  <2>2. ASSUME NEW s \in ToSet(Tail(q))
        PROVE  s \in ToSet(q)
    <3>1. PICK i \in DOMAIN Tail(q) : s = Tail(q)[i]
      BY DEF ToSet
    <3>2. i + 1 \in DOMAIN q /\ s = q[i + 1]
      BY <1>1, <3>1
    <3>3. QED
      BY <3>2 DEF ToSet
  <2>3. q[1] \in ToSet(q)
    BY <1>1 DEF ToSet
  <2>4. QED
    BY <2>1, <2>2, <2>3
<1>3. IsInjective(q) => IsInjective(Tail(q)) /\ q[1] \notin ToSet(Tail(q))
  BY <1>1 DEF ToSet, IsInjective
<1>4. QED
  BY <1>1, <1>2, <1>3

\* A sequence contains its elements.
LEMMA ContainsToSet ==
  ASSUME NEW S, NEW q \in Seq(S), NEW s
  PROVE  Contains(q, s) <=> s \in ToSet(q)
BY DEF Contains, ToSet

(***************************************************************************)
(* What a step does to the queues and the marks.                           *)
(***************************************************************************)

\* A process is given a task, that is marked, and was not unless the task is
\* forced; it finishes the one at its head, and unmarks it; it ends; or its tasks
\* and marks stay.
Added(p, s) ==
  /\ add_task(p, s) /\ UNCHANGED step
  /\ s \in inFlight[p] => "force" \in environment

Finished(p) == queue[p] # <<>> /\ task_done(p)

TaskStep ==
  \/ UNCHANGED <<queue, inFlight>>
  \/ \E p \in Processes, s \in Sessions : Added(p, s)
  \/ \E p \in Processes : Finished(p)
  \/ \E p \in Processes : forget(p)

\* enqueue_post_merge is one of these, or nothing.
LEMMA EnqueueIsATaskStep ==
  ASSUME NEW p \in Processes, NEW s \in Sessions,
         enqueue_post_merge(p, s), UNCHANGED step
  PROVE  TaskStep
BY DEF enqueue_post_merge, TaskStep, Added

\* So is every step.
LEMMA StepIsATaskStep ==
  ASSUME TypeOK, [Next]_vars
  PROVE  TaskStep
<1>1. CASE Poller
  BY <1>1, EnqueueIsATaskStep
  DEF Poller, PollSelect, PollCommit, PollSkips, PollSees, tasks, TaskStep, Processes
<1>2. ASSUME NEW p \in Processes, Consumer(p)
      PROVE  TaskStep
  BY <1>2 DEF Consumer, Claim, ClaimTimesOut, WorkOn, NoWiki, GenerateAsBuilt,
     AsBuiltRaises, Ingest, IngestUnavailable, IngestRaises, ReleaseClaim,
     ReleaseTimesOut, Consuming, Proceed, TaskStep, Finished
<1>3. ASSUME NEW d \in Requests, Handler(d)
      PROVE  TaskStep
  <2>1. CASE SeesMerge(d)
    BY <2>1, EnqueueIsATaskStep DEF SeesMerge, TypeOK, Request, TaskStep, Processes
  <2>2. QED
    BY <1>3, <2>1 DEF Handler, Answer, LoadRow, SeesNoMerge, Fails, tasks, TaskStep
<1>4. ASSUME NEW s \in Sessions, Trigger(s) \/ ForceTrigger(s) \/ Command(s) \/ Merge(s) \/ Rejects(s)
      PROVE  TaskStep
  BY <1>4, EnqueueIsATaskStep
  DEF Trigger, ForceTrigger, Command, Merge, Rejects, tasks, TaskStep, Added, Processes
<1>5. CASE StopPoller \/ StopQueue \/ Crash \/ Start \/ CommandKilled \/ WikiInit
  BY <1>5 DEF StopPoller, StopQueue, Crash, Start, CommandKilled, WikiInit, tasks,
     TaskStep, Processes
<1>6. CASE UNCHANGED vars
  BY <1>6 DEF vars, tasks, TaskStep
<1>7. QED
  BY <1>1, <1>2, <1>3, <1>4, <1>5, <1>6 DEF Next

\* The environment is chosen once.
LEMMA EnvironmentStays ==
  ASSUME [Next]_vars
  PROVE  environment' = environment
BY DEF Next, vars, outside, Poller, PollSelect, PollCommit, PollSkips, PollSees,
   Consumer, Claim, ClaimTimesOut, WorkOn, NoWiki, GenerateAsBuilt, AsBuiltRaises, Ingest,
   IngestUnavailable, IngestRaises, ReleaseClaim, ReleaseTimesOut, Proceed,
   Handler, Answer, LoadRow, SeesMerge, SeesNoMerge, Fails, Trigger, ForceTrigger, Command, Merge, Rejects,
   StopPoller, StopQueue, Crash, Start, CommandKilled, WikiInit

\* The queues and the marks stay what they are.
LEMMA QueuesKeepTheirType ==
  ASSUME TypeOK, TaskStep
  PROVE  queue' \in [Processes -> Seq(Sessions)] /\ inFlight' \in [Processes -> SUBSET Sessions]
<1>1. ASSUME NEW p \in Processes, NEW s \in Sessions, Added(p, s)
      PROVE  queue' \in [Processes -> Seq(Sessions)] /\ inFlight' \in [Processes -> SUBSET Sessions]
  BY <1>1, AppendContents DEF TypeOK, Added, add_task
<1>2. ASSUME NEW p \in Processes, Finished(p)
      PROVE  queue' \in [Processes -> Seq(Sessions)] /\ inFlight' \in [Processes -> SUBSET Sessions]
  BY <1>2, TailContents DEF TypeOK, Finished, task_done
<1>3. ASSUME NEW p \in Processes, forget(p)
      PROVE  queue' \in [Processes -> Seq(Sessions)] /\ inFlight' \in [Processes -> SUBSET Sessions]
  BY <1>3 DEF TypeOK, forget
<1>4. QED
  BY <1>1, <1>2, <1>3 DEF TaskStep, TypeOK

\* What a step does to the rest keeps its type, too.
LEMMA TypeIsKept ==
  ASSUME TypeOK, [Next]_vars
  PROVE  TypeOK'
<1>1. queue' \in [Processes -> Seq(Sessions)] /\ inFlight' \in [Processes -> SUBSET Sessions]
  BY StepIsATaskStep, QueuesKeepTheirType
<1>2. \A p \in Processes : queue[p] # <<>> => running(p) \in Sessions
  BY TailContents DEF TypeOK, running
<1>3. NoRequest \in Request
  BY WriteBackAssumptions DEF NoRequest, Request
<1>4. step' = step => step' \in [Processes -> {"idle", "claimed", "generated", "failed"}]
  BY DEF TypeOK
<1>5. ASSUME NEW p \in Processes, NEW at \in {"idle", "claimed", "generated", "failed"},
             goes(p, at)
      PROVE  step' \in [Processes -> {"idle", "claimed", "generated", "failed"}]
  BY <1>5 DEF TypeOK, goes
<1> USE <1>1
<1>6. CASE Poller
  <2>1. CASE PollSelect
    BY <2>1 DEF PollSelect, TypeOK, outside, sessions, wiki, tasks
  <2>2. CASE PollCommit
    BY <2>2 DEF PollCommit, TypeOK, outside, sessions, wiki, tasks
  <2>3. ASSUME NEW s \in Sessions, PollSkips(s)
        PROVE  TypeOK'
    BY <2>3 DEF PollSkips, TypeOK, outside, sessions, wiki, tasks
  <2>4. ASSUME NEW s \in Sessions, PollSees(s)
        PROVE  TypeOK'
    BY <2>4 DEF PollSees, TypeOK, outside, sessions, wiki
  <2>5. QED
    BY <1>6, <2>1, <2>2, <2>3, <2>4 DEF Poller
<1>7. ASSUME NEW p \in Processes, Consumer(p)
      PROVE  TypeOK'
  <2>1. CASE Claim(p)
    BY <1>2, <1>5, <2>1 DEF Claim, Consuming, TypeOK, outside, sessions, poller, wiki
  <2>2. ASSUME NEW at \in {"idle", "claimed", "generated", "failed"}, Proceed(p, at)
        PROVE  TypeOK'
    BY <1>5, <2>2 DEF Proceed, TypeOK, outside, sessions, poller, wiki
  <2>3. CASE Ingest(p)
    BY <1>2, <1>5, <2>3 DEF Ingest, Consuming, task_done, TypeOK, outside, sessions, poller
  <2>4. CASE IngestUnavailable(p) \/ ReleaseClaim(p) \/ ReleaseTimesOut(p)
    BY <1>5, <2>4
    DEF IngestUnavailable, ReleaseClaim, ReleaseTimesOut, task_done, TypeOK, outside,
        sessions, poller, wiki
  <2>5. QED
    BY <1>7, <2>1, <2>2, <2>3, <2>4 DEF Consumer, WorkOn, ClaimTimesOut, NoWiki,
       GenerateAsBuilt, AsBuiltRaises, IngestRaises
<1>8. ASSUME NEW d \in Requests, Handler(d)
      PROVE  TypeOK'
  <2>1. Release(d) => request' \in [Requests -> Request]
    BY <1>3 DEF Release, TypeOK
  <2>2. ASSUME NEW s \in Sessions, NEW o \in {"status", "approve"}, LoadRow(d, s, o)
        PROVE  TypeOK'
    BY <2>2 DEF LoadRow, TypeOK, Request, outside, sessions, poller, tasks, wiki
  <2>3. CASE SeesMerge(d)
    BY <2>1, <2>3 DEF SeesMerge, complete, TypeOK, Request, outside, sessions, poller, wiki
  <2>4. CASE SeesNoMerge(d)
    BY <2>1, <2>4
    DEF SeesNoMerge, complete, TypeOK, Request, outside, sessions, poller, tasks, wiki
  <2>5. CASE Fails(d)
    BY <2>1, <2>5 DEF Fails, TypeOK, outside, sessions, poller, tasks, wiki
  <2>6. QED
    BY <1>8, <2>2, <2>3, <2>4, <2>5 DEF Handler, Answer
<1>9. ASSUME NEW s \in Sessions, Trigger(s) \/ ForceTrigger(s) \/ Command(s) \/ Merge(s) \/ Rejects(s)
      PROVE  TypeOK'
  BY <1>9
  DEF Trigger, ForceTrigger, Command, Merge, Rejects, TypeOK, outside, sessions, poller, wiki, tasks
<1>10. CASE StopPoller \/ Start \/ WikiInit
  BY <1>10 DEF StopPoller, Start, WikiInit, TypeOK, outside, sessions, poller, wiki, tasks
<1>11. CASE StopQueue \/ Crash \/ CommandKilled
  <2>1. step' \in [Processes -> {"idle", "claimed", "generated", "failed"}]
    BY <1>5, <1>11 DEF StopQueue, Crash, CommandKilled, forget, Processes
  <2>2. CASE Crash
    BY <1>3, <2>1, <2>2 DEF Crash, TypeOK, outside, sessions, wiki
  <2>3. CASE StopQueue \/ CommandKilled
    BY <2>1, <2>3 DEF StopQueue, CommandKilled, TypeOK, outside, sessions, poller, wiki
  <2>4. QED
    BY <1>11, <2>2, <2>3
<1>12. CASE UNCHANGED vars
  BY <1>12 DEF vars, TypeOK, outside, sessions, poller, wiki, tasks
<1>13. QED
  BY <1>6, <1>7, <1>8, <1>9, <1>10, <1>11, <1>12 DEF Next

\* A mark goes with the task it was made for.
LEMMA MarksAreKept ==
  ASSUME TypeOK, MarkIsScheduled, TaskStep
  PROVE  MarkIsScheduled'
<1> DEFINE Scheduled == \A p \in Processes : inFlight[p] \subseteq ToSet(queue[p])
<1>1. MarkIsScheduled <=> Scheduled
  BY ContainsToSet DEF MarkIsScheduled, TypeOK
<1>2. MarkIsScheduled' <=> Scheduled'
  BY QueuesKeepTheirType, ContainsToSet DEF MarkIsScheduled
<1>3. ASSUME NEW p \in Processes, NEW s \in Sessions, Added(p, s)
      PROVE  Scheduled'
  BY <1>1, <1>3, AppendContents DEF TypeOK, Added, add_task
<1>4. ASSUME NEW p \in Processes, Finished(p)
      PROVE  Scheduled'
  BY <1>1, <1>4, TailContents DEF TypeOK, Finished, task_done, running
<1>5. ASSUME NEW p \in Processes, forget(p)
      PROVE  Scheduled'
  BY <1>1, <1>5 DEF TypeOK, forget
<1>6. QED
  BY <1>1, <1>2, <1>3, <1>4, <1>5 DEF TaskStep

\* So do a session's tasks, one at a time, with its mark.
LEMMA TasksAreKept ==
  ASSUME TypeOK, OneTaskPerSession, TaskStep, environment' = environment
  PROVE  OneTaskPerSession'
<1> SUFFICES ASSUME Without({"force"}), NEW p \in Processes
             PROVE  IsInjective(queue'[p]) /\ ToSet(queue'[p]) \subseteq inFlight'[p]
  BY DEF OneTaskPerSession, Without
<1> DEFINE q == queue[p]
<1>1. q \in Seq(Sessions) /\ IsInjective(q) /\ ToSet(q) \subseteq inFlight[p]
  BY DEF OneTaskPerSession, TypeOK
<1>2. ASSUME NEW s \in Sessions, Added(p, s)
      PROVE  IsInjective(queue'[p]) /\ ToSet(queue'[p]) \subseteq inFlight'[p]
  <2>1. queue'[p] = Append(q, s) /\ inFlight'[p] = inFlight[p] \cup {s}
    BY <1>2 DEF Added, add_task, TypeOK
  <2>2. s \notin ToSet(q)
    BY <1>1, <1>2 DEF Added, Without
  <2>3. QED
    BY <1>1, <2>1, <2>2, AppendContents
<1>3. CASE Finished(p)
  <2>1. queue'[p] = Tail(q) /\ inFlight'[p] = inFlight[p] \ {q[1]} /\ q # <<>>
    BY <1>3 DEF Finished, task_done, running, TypeOK
  <2>2. QED
    BY <1>1, <2>1, TailContents
<1>4. CASE forget(p)
  <2>1. queue'[p] = <<>>
    BY <1>4 DEF forget, TypeOK
  <2>2. QED
    BY <2>1 DEF ToSet, IsInjective
<1>5. CASE UNCHANGED <<queue[p], inFlight[p]>>
  BY <1>1, <1>5
<1>6. QED
  BY <1>2, <1>3, <1>4, <1>5
  DEF TaskStep, Added, add_task, Finished, task_done, forget, TypeOK

(***************************************************************************)
(* What a step does to the claims.                                         *)
(***************************************************************************)

\* A server that is not up was stopped, or died.
StopsAreKnown == server # "up" => ~Without({"shutdown", "crash"})

\* Whoever reads or keeps a completion, completed_at goes with it; a rejection
\* leaves it where it is.
StampsStay ==
  /\ completed \subseteq stamped /\ settled \subseteq stamped
  /\ \A d \in Requests : request[d].completed => request[d].session \in stamped

\* Where nothing but a detector asks for a write-back, a queued session is one whose
\* completion is written, or will be with the poller's commit.
QueuedIsDetected ==
  Without({"demand", "force", "command", "shutdown", "crash"}) =>
    /\ queue["command"] = <<>>
    /\ ToSet(queue["server"]) \subseteq stamped \cup holding

\* A server stops, or starts again, only where it may.
LEMMA StopsStayKnown ==
  ASSUME StopsAreKnown, [Next]_vars
  PROVE  StopsAreKnown'
<1> SUFFICES ASSUME server' # server PROVE StopsAreKnown'
  BY EnvironmentStays DEF StopsAreKnown, Without
<1>1. StopPoller \/ StopQueue \/ Crash \/ Start
  BY DEF Next, vars, Poller, PollSelect, PollCommit, PollSkips, PollSees, Consumer, Claim,
     ClaimTimesOut, WorkOn, NoWiki, GenerateAsBuilt, AsBuiltRaises, Ingest, IngestUnavailable,
     IngestRaises, ReleaseClaim, ReleaseTimesOut, Proceed, Handler, Answer, LoadRow, SeesMerge,
     SeesNoMerge, Fails, Trigger, ForceTrigger, Command, Merge, Rejects, CommandKilled, WikiInit
<1>2. QED
  BY <1>1, EnvironmentStays DEF StopsAreKnown, Without, StopPoller, StopQueue, Crash, Start

\* An added task waits behind those that are there.
LEMMA AddedWaits ==
  ASSUME TypeOK, NEW p \in Processes, NEW s \in Sessions, add_task(p, s), UNCHANGED step
  PROVE  \A r \in Processes, t \in Sessions : AtWork(r, t) => AtWork(r, t)'
BY AppendContents DEF TypeOK, add_task, AtWork, running

\* And so does one that a detector asks for.
LEMMA EnqueuedWaits ==
  ASSUME TypeOK, NEW p \in Processes, NEW s \in Sessions,
         enqueue_post_merge(p, s), UNCHANGED step
  PROVE  \A r \in Processes, t \in Sessions : AtWork(r, t) => AtWork(r, t)'
BY AddedWaits DEF enqueue_post_merge, AtWork, running

\* The work of the others, and on other sessions, goes on.
LEMMA OthersWork ==
  ASSUME TypeOK, NEW p \in Processes,
         queue' = [queue EXCEPT ![p] = Tail(@)] \/ UNCHANGED queue,
         NEW at, goes(p, at), NEW r \in Processes \ {p}, NEW t, AtWork(r, t)
  PROVE  AtWork(r, t)'
BY DEF TypeOK, goes, AtWork, running

\* A claim is given back or its work goes on, unless it is done.
LEMMA ClaimsStayHonest ==
  ASSUME TypeOK, StopsAreKnown, ClaimIsHonest, [Next]_vars
  PROVE  ClaimIsHonest'
<1> SUFFICES ASSUME Without({"ingest", "locked", "shutdown", "crash"})
             PROVE  \A s \in claim' : s \in ingested' \/ \E p \in Processes : AtWork(p, s)'
  BY EnvironmentStays DEF ClaimIsHonest, Without
<1>1. \A s \in claim : s \in Sessions /\ (s \in ingested \/ \E p \in Processes : AtWork(p, s))
  BY DEF ClaimIsHonest, TypeOK
<1>2. CASE Poller
  <2>1. UNCHANGED <<claim, ingested>>
    BY <1>2 DEF Poller, PollSelect, PollCommit, PollSkips, PollSees, wiki
  <2>2. \A r \in Processes, t \in Sessions : AtWork(r, t) => AtWork(r, t)'
    BY <1>2, EnqueuedWaits DEF Poller, PollSelect, PollCommit, PollSkips, PollSees, tasks,
       AtWork, running, Processes
  <2>3. QED
    BY <1>1, <2>1, <2>2
<1>3. ASSUME NEW p \in Processes, Consumer(p)
      PROVE  \A s \in claim' : s \in ingested' \/ \E r \in Processes : AtWork(r, s)'
  <2>1. CASE Claim(p)
    <3>1. (\A s : s = running(p) => AtWork(p, s)') /\ UNCHANGED <<queue, ingested>>
      BY <2>1 DEF Claim, Consuming, goes, AtWork, running, TypeOK, wiki
    <3>2. \A r \in Processes, t \in Sessions : AtWork(r, t) => AtWork(r, t)'
      BY <2>1, <3>1, OthersWork DEF Claim, AtWork, running
    <3>3. claim' = claim \cup {running(p)}
      BY <2>1 DEF Claim
    <3>4. QED
      BY <1>1, <3>1, <3>2, <3>3
  <2>2. ASSUME NEW at \in {"generated", "failed"}, Proceed(p, at), queue[p] # <<>>
        PROVE  \A s \in claim' : s \in ingested' \/ \E r \in Processes : AtWork(r, s)'
    <3>1. \A t \in Sessions : AtWork(p, t) => AtWork(p, t)'
      BY <2>2 DEF Proceed, goes, AtWork, running, TypeOK
    <3>2. UNCHANGED <<queue, claim, ingested>> /\ goes(p, at)
      BY <2>2 DEF Proceed, wiki
    <3>3. QED
      BY <1>1, <3>1, <3>2, OthersWork
  <2>3. CASE Ingest(p)
    <3>1. /\ claim' = claim /\ ingested' = ingested \cup {running(p)}
          /\ queue' = [queue EXCEPT ![p] = Tail(@)] /\ goes(p, "idle")
      BY <2>3 DEF Ingest, task_done
    <3>2. \A t : AtWork(p, t) => t = running(p)
      BY DEF AtWork
    <3>3. QED
      BY <1>1, <3>1, <3>2, OthersWork
  <2>4. CASE ReleaseClaim(p)
    <3>1. /\ claim' = claim \ {running(p)} /\ UNCHANGED ingested
          /\ queue' = [queue EXCEPT ![p] = Tail(@)] /\ goes(p, "idle")
      BY <2>4 DEF ReleaseClaim, task_done, wiki
    <3>2. \A t : AtWork(p, t) => t = running(p)
      BY DEF AtWork
    <3>3. QED
      BY <1>1, <3>1, <3>2, OthersWork
  <2>5. QED
    BY <1>3, <2>1, <2>2, <2>3, <2>4
    DEF Consumer, WorkOn, ClaimTimesOut, NoWiki, GenerateAsBuilt,
       AsBuiltRaises, IngestUnavailable, IngestRaises, ReleaseTimesOut, Consuming, Without
<1>4. ASSUME NEW d \in Requests, Handler(d)
      PROVE  \A s \in claim' : s \in ingested' \/ \E p \in Processes : AtWork(p, s)'
  <2>1. UNCHANGED <<claim, ingested>>
    BY <1>4 DEF Handler, Answer, LoadRow, SeesMerge, SeesNoMerge, Fails, wiki
  <2>2. CASE SeesMerge(d)
    <3>1. \A r \in Processes, t \in Sessions : AtWork(r, t) => AtWork(r, t)'
      BY <2>2, EnqueuedWaits DEF SeesMerge, TypeOK, Request, AtWork, running, Processes
    <3>2. QED
      BY <1>1, <2>1, <3>1
  <2>3. CASE ~SeesMerge(d)
    <3>1. UNCHANGED tasks
      BY <1>4, <2>3 DEF Handler, Answer, LoadRow, SeesNoMerge, Fails
    <3>2. QED
      BY <1>1, <2>1, <3>1 DEF tasks, AtWork, running
  <2>4. QED
    BY <2>2, <2>3
<1>5. ASSUME NEW s \in Sessions, Trigger(s) \/ ForceTrigger(s) \/ Command(s) \/ Merge(s) \/ Rejects(s)
      PROVE  \A t \in claim' : t \in ingested' \/ \E p \in Processes : AtWork(p, t)'
  <2>1. claim' \subseteq claim /\ UNCHANGED ingested
    BY <1>5 DEF Trigger, ForceTrigger, Command, Merge, Rejects, wiki
  <2>2. \A r \in Processes, t \in Sessions : AtWork(r, t) => AtWork(r, t)'
    BY <1>5, EnqueuedWaits, AddedWaits
    DEF Trigger, ForceTrigger, Command, Merge, Rejects, tasks, AtWork, running, Processes
  <2>3. QED
    BY <1>1, <2>1, <2>2
<1>6. CASE StopPoller \/ StopQueue \/ Crash \/ CommandKilled
  BY <1>6 DEF StopPoller, StopQueue, Crash, CommandKilled, StopsAreKnown, Without
<1>7. CASE Start \/ WikiInit \/ UNCHANGED vars
  BY <1>1, <1>7 DEF Start, WikiInit, vars, tasks, wiki, AtWork, running
<1>8. QED
  BY <1>2, <1>3, <1>4, <1>5, <1>6, <1>7 DEF Next

(***************************************************************************)
(* Where a detected session is.                                            *)
(***************************************************************************)

\* What is taken from the head of a queue was in it.
LEMMA RunningIsQueued ==
  ASSUME TypeOK, NEW p \in Processes, queue[p] # <<>>
  PROVE  running(p) \in ToSet(queue[p]) /\ ToSet(Tail(queue[p])) \subseteq ToSet(queue[p])
BY TailContents DEF TypeOK, running

\* No step completes a session without a stamp, or takes a stamp away.
LEMMA StampsAreKept ==
  ASSUME TypeOK, StampsStay, [Next]_vars
  PROVE  StampsStay'
<1>1. CASE Poller
  BY <1>1 DEF Poller, PollSelect, PollCommit, PollSkips, PollSees, StampsStay, sessions
<1>2. ASSUME NEW p \in Processes, Consumer(p)
      PROVE  StampsStay'
  BY <1>2 DEF Consumer, Claim, ClaimTimesOut, WorkOn, NoWiki, GenerateAsBuilt,
     AsBuiltRaises, Ingest, IngestUnavailable, IngestRaises, ReleaseClaim,
     ReleaseTimesOut, Proceed, StampsStay, sessions, poller
<1>3. ASSUME NEW d \in Requests, Handler(d)
      PROVE  StampsStay'
  <2>1. CASE SeesMerge(d) \/ SeesNoMerge(d) \/ Fails(d)
    BY <2>1 DEF SeesMerge, SeesNoMerge, Fails, complete, Release, NoRequest,
       TypeOK, StampsStay, sessions, poller
  <2>2. ASSUME NEW s \in Sessions, NEW op \in {"status", "approve"}, LoadRow(d, s, op)
        PROVE  StampsStay'
    BY <2>2 DEF LoadRow, TypeOK, StampsStay, sessions, poller
  <2>3. QED
    BY <1>3, <2>1, <2>2 DEF Handler, Answer
<1>4. ASSUME NEW s \in Sessions, Trigger(s) \/ ForceTrigger(s) \/ Command(s) \/ Merge(s) \/ Rejects(s)
      PROVE  StampsStay'
  BY <1>4 DEF Trigger, ForceTrigger, Command, Merge, Rejects, StampsStay, sessions, poller
<1>5. CASE StopPoller \/ StopQueue \/ Crash \/ Start \/ CommandKilled \/ WikiInit
  BY <1>5 DEF StopPoller, StopQueue, Crash, Start, CommandKilled, WikiInit, NoRequest,
     StampsStay, sessions, poller
<1>6. CASE UNCHANGED vars
  BY <1>6 DEF vars, StampsStay, sessions, poller
<1>7. QED
  BY <1>1, <1>2, <1>3, <1>4, <1>5, <1>6 DEF Next

\* A detector queues a session it has completed, or will commit; the completion it
\* announces is never withdrawn, and the claim waits for the commit.
LEMMA DetectionsAreKept ==
  ASSUME TypeOK, StopsAreKnown, StampsStay, QueuedIsDetected, ClaimFollowsCompletion, [Next]_vars
  PROVE  QueuedIsDetected' /\ ClaimFollowsCompletion'
<1> DEFINE Detected == stamped \cup holding
           Kept == /\ queue'["command"] = <<>>
                   /\ ToSet(queue'["server"]) \subseteq Detected'
                   /\ claim' \subseteq stamped'
<1> SUFFICES ASSUME Without({"demand", "force", "command", "shutdown", "crash"})
             PROVE  Kept
  BY EnvironmentStays DEF QueuedIsDetected, ClaimFollowsCompletion, Without
<1>1. /\ queue["command"] = <<>> /\ ToSet(queue["server"]) \subseteq Detected
      /\ claim \subseteq stamped
  BY DEF QueuedIsDetected, ClaimFollowsCompletion
<1>2. ASSUME NEW s \in Sessions, enqueue_post_merge("server", s), s \in Detected'
      PROVE  /\ queue'["command"] = <<>>
             /\ Detected \subseteq Detected' => ToSet(queue'["server"]) \subseteq Detected'
  <2>1. queue["server"] \in Seq(Sessions)
    BY DEF TypeOK, Processes
  <2>2. /\ queue'["server"] \in {queue["server"], Append(queue["server"], s)}
        /\ queue'["command"] = queue["command"]
    BY <1>2 DEF enqueue_post_merge, add_task, TypeOK, Processes
  <2>3. ToSet(queue'["server"]) \subseteq ToSet(queue["server"]) \cup {s}
    <3>1. ToSet(Append(queue["server"], s)) = ToSet(queue["server"]) \cup {s}
      BY <2>1, AppendContents
    <3>2. QED
      BY <2>2, <3>1
  <2>4. ASSUME Detected \subseteq Detected', NEW t \in ToSet(queue'["server"])
        PROVE  t \in Detected'
    <3>1. t \in ToSet(queue["server"]) \/ t = s
      BY <2>3
    <3>2. t \in ToSet(queue["server"]) => t \in Detected
      BY <1>1
    <3>3. QED
      BY <1>2, <2>4, <3>1, <3>2
  <2>5. QED
    BY <1>1, <2>2, <2>4
<1>3. CASE Poller
  <2>1. ASSUME NEW s \in Sessions, PollSees(s)
        PROVE  Kept
    BY <1>1, <1>2, <2>1 DEF PollSees, StampsStay, sessions
  <2>2. CASE PollSelect \/ PollCommit \/ \E s \in Sessions : PollSkips(s)
    BY <1>1, <2>2 DEF PollSelect, PollCommit, PollSkips, StampsStay, tasks, sessions
  <2>3. QED
    BY <1>3, <2>1, <2>2 DEF Poller
<1>4. ASSUME NEW p \in Processes, Consumer(p)
      PROVE  Kept
  <2>1. p = "server" /\ queue[p] # <<>> /\ UNCHANGED <<stamped, holding>>
    BY <1>1, <1>4 DEF Consumer, Claim, ClaimTimesOut, WorkOn, NoWiki, GenerateAsBuilt,
       AsBuiltRaises, Ingest, IngestUnavailable, IngestRaises, ReleaseClaim, ReleaseTimesOut,
       Consuming, Proceed, Processes, poller, sessions
  <2>2. UNCHANGED queue \/ queue' = [queue EXCEPT ![p] = Tail(@)]
    BY <1>4 DEF Consumer, Claim, ClaimTimesOut, WorkOn, NoWiki, GenerateAsBuilt,
       AsBuiltRaises, Ingest, IngestUnavailable, IngestRaises, ReleaseClaim, ReleaseTimesOut,
       Proceed, task_done
  <2>3. claim' \subseteq claim \/ (holding = {} /\ claim' = claim \cup {running(p)})
    BY <1>4 DEF Consumer, Claim, ClaimTimesOut, WorkOn, NoWiki, GenerateAsBuilt,
       AsBuiltRaises, Ingest, IngestUnavailable, IngestRaises, ReleaseClaim, ReleaseTimesOut,
       Proceed, Unlocked
  <2>4. QED
    BY <1>1, <2>1, <2>2, <2>3, RunningIsQueued DEF TypeOK, Processes
<1>5. ASSUME NEW d \in Requests, Handler(d)
      PROVE  Kept
  <2>1. CASE SeesMerge(d)
    <3>1. /\ UNCHANGED <<claim, holding>> /\ stamped \subseteq stamped'
          /\ request[d].session \in Sessions
      BY <2>1 DEF SeesMerge, complete, poller, sessions, TypeOK, Request
    <3>2. \/ UNCHANGED queue
          \/ /\ enqueue_post_merge("server", request[d].session)
             /\ request[d].session \in stamped'
      BY <2>1 DEF SeesMerge, Writes, complete, StampsStay, sessions
    <3>3. QED
      BY <1>1, <1>2, <3>1, <3>2
  <2>2. CASE ~SeesMerge(d)
    BY <1>1, <1>5, <2>2 DEF Handler, Answer, LoadRow, SeesNoMerge, Fails, complete,
       tasks, poller, sessions
  <2>3. QED
    BY <2>1, <2>2
<1>6. ASSUME NEW s \in Sessions, Trigger(s) \/ ForceTrigger(s) \/ Command(s) \/ Merge(s) \/ Rejects(s)
      PROVE  Kept
  <2>1. CASE Trigger(s)
    <3>1. s \in Detected' /\ UNCHANGED <<claim, stamped, holding>>
      BY <2>1 DEF Trigger, StampsStay, poller, sessions, Without
    <3>2. enqueue_post_merge("server", s)
      BY <2>1 DEF Trigger
    <3>3. QED
      BY <1>1, <1>2, <3>1, <3>2
  <2>2. CASE Merge(s) \/ Rejects(s)
    BY <1>1, <2>2 DEF Merge, Rejects, tasks, poller, sessions
  <2>3. ~ForceTrigger(s) /\ ~Command(s)
    BY DEF ForceTrigger, Command, Without
  <2>4. QED
    BY <1>6, <2>1, <2>2, <2>3
<1>7. CASE StopPoller \/ StopQueue \/ Crash \/ CommandKilled
  BY <1>7 DEF StopPoller, StopQueue, Crash, CommandKilled, StopsAreKnown, Without
<1>8. CASE Start \/ WikiInit \/ UNCHANGED vars
  BY <1>1, <1>8 DEF Start, WikiInit, vars, tasks, poller, sessions
<1>9. QED
  BY <1>3, <1>4, <1>5, <1>6, <1>7, <1>8 DEF Next

(***************************************************************************)
(* The theorems.                                                           *)
(***************************************************************************)

\* The two guards and what they rest on.
IInv ==
  /\ TypeOK
  /\ MarkIsScheduled /\ OneTaskPerSession
  /\ StopsAreKnown /\ StampsStay /\ ClaimIsHonest
  /\ QueuedIsDetected /\ ClaimFollowsCompletion

\* No step of a detector, a consumer, a process that ends or one that starts
\* breaks it.
THEOREM Inductive == Spec => []IInv
<1>1. Init => IInv
  <2> SUFFICES ASSUME Init PROVE IInv
    OBVIOUS
  <2>1. TypeOK
    <3>1. NoRequest \in Request
      BY WriteBackAssumptions DEF NoRequest, Request
    <3>2. queue \in [Processes -> Seq(Sessions)]
      BY DEF Init
    <3>3. QED
      BY <3>1, <3>2 DEF Init, TypeOK
  <2>2. \A p \in Processes : queue[p] = <<>> /\ inFlight[p] = {}
    BY DEF Init
  <2>3. MarkIsScheduled /\ OneTaskPerSession
    BY <2>2 DEF MarkIsScheduled, OneTaskPerSession, ToSet, IsInjective
  <2>4. StopsAreKnown /\ StampsStay /\ ClaimIsHonest /\ ClaimFollowsCompletion
    BY DEF Init, StopsAreKnown, StampsStay, NoRequest, ClaimIsHonest, ClaimFollowsCompletion
  <2>5. QueuedIsDetected
    BY <2>2 DEF QueuedIsDetected, ToSet, Processes
  <2>6. QED
    BY <2>1, <2>3, <2>4, <2>5 DEF IInv
<1>2. IInv /\ [Next]_vars => IInv'
  BY StepIsATaskStep, EnvironmentStays, TypeIsKept, MarksAreKept, TasksAreKept, StopsStayKnown,
     StampsAreKept, ClaimsStayHonest, DetectionsAreKept DEF IInv
<1>3. QED
  BY <1>1, <1>2, PTL DEF Spec

\* Every variable keeps its type.
THEOREM TypeCorrect == Spec => []TypeOK
BY Inductive, PTL DEF IInv

\* The marks of _IN_FLIGHT: each stands for a task that will take it away, in
\* either process, however tasks are queued twice, fail or are lost
\* (enqueue_post_merge, _task).
THEOREM MarksHaveTasks == Spec => []MarkIsScheduled
BY Inductive, PTL DEF IInv

\* However many detectors see a merge at once, its session is queued once in a
\* process, as long as nobody forces it.
THEOREM TasksAreSingle == Spec => []OneTaskPerSession
BY Inductive, PTL DEF IInv

\* wiki_writeback_at: a claim stands for an ingest done or under way, also when two
\* processes claim one session and each gives back what the other claimed.
THEOREM ClaimsAreHonest == Spec => []ClaimIsHonest
BY Inductive, PTL DEF IInv

\* The write lock orders the claim after the completion that its detector commits,
\* whose stamp outlives a rejection.
THEOREM ClaimsFollow == Spec => []ClaimFollowsCompletion
BY Inductive, PTL DEF IInv
===============================================================================
