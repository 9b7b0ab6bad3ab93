------------------------------- MODULE EventBus -------------------------------
(***************************************************************************)
(* The live output of one run: the supervisor reads events from the run's  *)
(* log and publishes them to the run's topic, clients subscribe to it.  A  *)
(* topic keeps the last events for clients that come late; each client has *)
(* a bounded queue, and the publisher never waits for one.  A restart of   *)
(* the server starts with an empty bus.  Events are numbered by their      *)
(* place in the log.  Sources: runs/bus.py, api/runs.py, and the calls of  *)
(* the bus in runs/supervisor.py.                                          *)
(***************************************************************************)
EXTENDS Naturals, Sequences

CONSTANTS
  Clients,
  ReplayLimit,  \* REPLAY_LIMIT
  QueueMaxsize, \* QUEUE_MAXSIZE
  MaxLog,       \* bound: the events of the run
  MaxRestarts   \* bound: the restarts of the server

ASSUME BusAssumptions ==
  /\ ReplayLimit \in Nat \ {0} /\ QueueMaxsize \in Nat \ {0}
  /\ MaxLog \in Nat /\ MaxRestarts \in Nat

VARIABLES
  log,        \* the events in the log, and the notice of a limit
  exited,     \* the agent writes no more of them
  row,        \* runs.status: "pending", "running" or "ended"
  task,       \* this server's supervisor: "launch", "watch", "record" after a
              \* limit, "close" once it recorded, "done"; "none": it has no part
              \* in the run
  published,  \* the events published to the topic
  replay,     \* topic.replay
  closed,     \* topic.closed
  stream,     \* the clients' subscriptions
  received,   \* what each client was given
  restarts

run == <<log, exited, row>>
topic == <<published, replay, closed>>
clients == <<stream, received>>
vars == <<run, task, topic, clients, restarts>>

\* The sentinel None of a queue.
End == 0

Event == 1..MaxLog

\* subscribed: the queue is among topic.subscribers; overflowed: a put_nowait
\* into it raised QueueFull.
Stream == [at : {"none", "backlog", "live", "done", "left"},
           backlog : Seq(Event), queue : Seq(Event \cup {End}),
           subscribed : BOOLEAN, overflowed : BOOLEAN]

NoStream == [at |-> "none", backlog |-> <<>>, queue |-> <<>>,
             subscribed |-> FALSE, overflowed |-> FALSE]

Following(c) == stream[c].at \in {"backlog", "live"}

(***************************************************************************)
(* Publishing.                                                             *)
(***************************************************************************)

\* A buffer without its maxlen.
remember_all(events, e) == Append(events, e)

\* deque(maxlen=REPLAY_LIMIT).append
remember(events, e) ==
  IF Len(events) < ReplayLimit THEN Append(events, e) ELSE Append(Tail(events), e)

Full(s) == Len(s.queue) = QueueMaxsize

\* A subscriber that cannot keep up is dropped.
put_event(s, e) ==
  IF ~s.subscribed THEN s
  ELSE IF Full(s) THEN [s EXCEPT !.subscribed = FALSE, !.overflowed = TRUE]
  ELSE [s EXCEPT !.queue = Append(@, e)]

\* A sentinel that makes room for itself.
put_end_first(s) == IF s.subscribed THEN [s EXCEPT !.queue = <<End>>] ELSE s

\* The sentinel is lost on a full queue; the subscriber stays.
put_end(s) ==
  IF ~s.subscribed THEN s
  ELSE IF Full(s) THEN [s EXCEPT !.overflowed = TRUE]
  ELSE [s EXCEPT !.queue = Append(@, End)]

publish ==
  /\ published' = published + 1
  /\ replay' = remember(replay, published + 1)
  /\ stream' = [c \in Clients |-> put_event(stream[c], published + 1)]

PublishLine ==
  /\ task = "watch" /\ published < log
  /\ publish
  /\ UNCHANGED <<run, task, closed, received, restarts>>

\* start_run has inserted the row; clients may come from now on.
Launch ==
  /\ task = "launch"
  /\ row' = "running" /\ task' = "watch"
  /\ UNCHANGED <<log, exited, topic, clients, restarts>>

\* The launch raises and is recorded, or the handle or that record cannot be
\* written.  The topic is nobody's then; what an agent that lives writes is not read.
LaunchFails ==
  /\ task = "launch"
  /\ row' \in {"pending", "ended"}
  /\ exited' = TRUE /\ task' = "none"
  /\ UNCHANGED <<log, topic, clients, restarts>>

\* The last event is the supervisor's, whether the agent is alive or not; what it
\* writes while it is terminated is read by nobody.
LimitBreach ==
  /\ task = "watch" /\ published = log /\ log < MaxLog
  /\ log' = log + 1
  /\ publish
  /\ task' = "record"
  /\ UNCHANGED <<exited, row, closed, received, restarts>>

\* The log was read to its end, or a limit broke the loop.
Over ==
  \/ task = "watch" /\ exited /\ published = log
  \/ task = "record"

\* _finish, then close.
Finish ==
  /\ Over
  /\ row' = "ended" /\ task' = "close"
  /\ UNCHANGED <<log, exited, topic, clients, restarts>>

\* The loop gives up on a live run.
LoopRaises ==
  /\ task = "watch"
  /\ row' = "ended" /\ task' = "close"
  /\ UNCHANGED <<log, exited, topic, clients, restarts>>

\* _finish raises, and the topic stays open.
FinishFails ==
  /\ Over
  /\ task' = "done"
  /\ UNCHANGED <<run, topic, clients, restarts>>

close ==
  /\ task = "close"
  /\ closed' = TRUE
  /\ stream' = [c \in Clients |-> put_end(stream[c])]
  /\ task' = "done"
  /\ UNCHANGED <<run, published, replay, received, restarts>>

(***************************************************************************)
(* subscribe, an asynchronous generator: a client may be slow at each      *)
(* event it is given.                                                      *)
(***************************************************************************)

\* The snapshot and the subscription are one step of the event loop.
subscribe(c) ==
  /\ ~Following(c)
  /\ stream' = [stream EXCEPT ![c] =
       [at |-> "backlog", backlog |-> replay, queue |-> <<>>,
        subscribed |-> TRUE, overflowed |-> FALSE]]
  /\ received' = [received EXCEPT ![c] = <<>>]
  /\ UNCHANGED <<run, task, topic, restarts>>

YieldBacklog(c) ==
  LET s == stream[c] IN
  /\ s.at = "backlog" /\ s.backlog # <<>>
  /\ received' = [received EXCEPT ![c] = Append(@, Head(s.backlog))]
  /\ stream' = [stream EXCEPT ![c].backlog = Tail(@)]
  /\ UNCHANGED <<run, task, topic, restarts>>

finished(s, at) == [s EXCEPT !.at = at, !.subscribed = FALSE]

\* An end of the backlog that does not look at the topic.
GoLive_unaware(c) ==
  /\ stream[c].at = "backlog" /\ stream[c].backlog = <<>>
  /\ stream' = [stream EXCEPT ![c].at = "live"]
  /\ UNCHANGED <<run, task, topic, received, restarts>>

\* An end of the backlog that does not look at the queue.
GoLive_hasty(c) ==
  LET s == stream[c] IN
  /\ s.at = "backlog" /\ s.backlog = <<>>
  /\ stream' = [stream EXCEPT ![c] =
       IF closed THEN finished(s, "done") ELSE [s EXCEPT !.at = "live"]]
  /\ UNCHANGED <<run, task, topic, received, restarts>>

\* A topic closed before the subscription sends no sentinel.
GoLive(c) ==
  LET s == stream[c] IN
  /\ s.at = "backlog" /\ s.backlog = <<>>
  /\ stream' = [stream EXCEPT ![c] =
       IF closed /\ s.queue = <<>> THEN finished(s, "done") ELSE [s EXCEPT !.at = "live"]]
  /\ UNCHANGED <<run, task, topic, received, restarts>>

YieldLive(c) ==
  LET s == stream[c] IN
  /\ s.at = "live" /\ s.queue # <<>> /\ Head(s.queue) # End
  /\ received' = [received EXCEPT ![c] = Append(@, Head(s.queue))]
  /\ stream' = [stream EXCEPT ![c].queue = Tail(@)]
  /\ UNCHANGED <<run, task, topic, restarts>>

StopIteration(c) ==
  LET s == stream[c] IN
  /\ s.at = "live" /\ s.queue # <<>> /\ Head(s.queue) = End
  /\ stream' = [stream EXCEPT ![c] = finished([s EXCEPT !.queue = Tail(@)], "done")]
  /\ UNCHANGED <<run, task, topic, received, restarts>>

\* The client goes away: the pump is cancelled, the generator closed.
Disconnect(c) ==
  /\ Following(c)
  /\ stream' = [stream EXCEPT ![c] = finished(@, "left")]
  /\ UNCHANGED <<run, task, topic, received, restarts>>

(***************************************************************************)
(* The run, and the restart of the server.                                 *)
(***************************************************************************)

WriteLog ==
  /\ ~exited /\ log < MaxLog
  /\ log' = log + 1
  /\ UNCHANGED <<exited, row, task, topic, clients, restarts>>

Exit ==
  /\ ~exited
  /\ exited' = TRUE
  /\ UNCHANGED <<log, row, task, topic, clients, restarts>>

\* What a replay of events from..n leaves of them in the topic.
Remembered(n) ==
  [i \in 1..(IF n < ReplayLimit THEN n ELSE ReplayLimit) |->
     IF n < ReplayLimit THEN i ELSE n - ReplayLimit + i]

\* A run that is not "running" is no candidate of reattach_all, and it may raise
\* before it comes to this one: the topic is new, and nobody touches it.
PassedOver ==
  /\ task' = "none"
  /\ published' = 0 /\ replay' = <<>> /\ closed' = FALSE
  /\ UNCHANGED row

\* A live run is watched again from the log's first event.
Reattached ==
  /\ row = "running" /\ ~exited
  /\ task' = "watch"
  /\ published' = 0 /\ replay' = <<>> /\ closed' = FALSE
  /\ UNCHANGED row

\* A run that exited is replayed; then it is recorded and closed, or recording raises.
Replayed ==
  /\ row = "running" /\ exited
  /\ published' = log /\ replay' = Remembered(log)
  /\ \/ row' = "ended" /\ closed' = TRUE /\ task' = "done"
     \/ UNCHANGED row /\ closed' = FALSE /\ task' = "none"

\* Connections break and the bus is new; reattach_all is over before the first
\* request.
Restart ==
  /\ restarts < MaxRestarts
  /\ restarts' = restarts + 1
  /\ stream' = [c \in Clients |-> NoStream]
  /\ received' = [c \in Clients |-> <<>>]
  /\ PassedOver \/ Reattached \/ Replayed
  /\ UNCHANGED <<log, exited>>

(***************************************************************************)
(* Specification.                                                          *)
(***************************************************************************)

Init ==
  /\ log = 0 /\ exited = FALSE /\ row = "pending"
  /\ task = "launch"
  /\ published = 0 /\ replay = <<>> /\ closed = FALSE
  /\ stream = [c \in Clients |-> NoStream]
  /\ received = [c \in Clients |-> <<>>]
  /\ restarts = 0

Supervisor ==
  \/ Launch \/ LaunchFails
  \/ PublishLine \/ LimitBreach \/ LoopRaises \/ Finish \/ FinishFails \/ close

Iterate(c) == YieldBacklog(c) \/ GoLive(c) \/ YieldLive(c) \/ StopIteration(c)

Next ==
  \/ Supervisor
  \/ \E c \in Clients : subscribe(c) \/ Iterate(c) \/ Disconnect(c)
  \/ WriteLog \/ Exit
  \/ Restart

\* The pump of a connected client runs on, whatever the client does.
Fairness == \A c \in Clients : WF_vars(Iterate(c))

Spec == Init /\ [][Next]_vars

FairSpec == Spec /\ Fairness

(***************************************************************************)
(* Properties.                                                             *)
(***************************************************************************)

TypeOK ==
  /\ log \in 0..MaxLog /\ published \in 0..log
  /\ exited \in BOOLEAN /\ row \in {"pending", "running", "ended"}
  /\ task \in {"launch", "watch", "record", "close", "done", "none"}
  /\ closed \in BOOLEAN
  /\ replay \in Seq(Event) /\ Len(replay) <= ReplayLimit
  /\ stream \in [Clients -> Stream]
  /\ \A c \in Clients : Len(stream[c].queue) <= QueueMaxsize
  /\ received \in [Clients -> Seq(Event)]
  /\ restarts \in 0..MaxRestarts

\* A queue without its sentinel, which is the last that is put into it.
events(queue) ==
  IF queue # <<>> /\ queue[Len(queue)] = End THEN SubSeq(queue, 1, Len(queue) - 1) ELSE queue

\* What a client was given and what is on its way to it.
Given(c) == received[c] \o stream[c].backlog \o events(stream[c].queue)

\* The events that had left the buffer when the client subscribed.
missed(c) == IF Given(c) = <<>> THEN 0 ELSE Given(c)[1] - 1

Feed == INSTANCE EventFeed WITH
  Retained <- ReplayLimit,
  at <- [c \in Clients |-> IF Following(c) THEN "following" ELSE stream[c].at],
  start <- [c \in Clients |-> missed(c)]

\* "Snapshot the replay buffer before subscribing so no event is missed or
\* duplicated in the gap between the two" (subscribe): the bus implements EventFeed,
\* whatever mixture of the snapshot, the queue and the sentinel a client is served
\* from: what it yields is the run's output without a hole or a repetition, also to
\* a client that was dropped, and a stream that ends had all of it.
FeedPromise == Feed!Spec

\* The stream of a run ends, on its own, once this server has watched the run to
\* its recorded end, or replayed it: for every client that did not overflow its
\* queue, whenever it came.  Nothing is claimed of a run this server has no part in
\* (task "none": its launch failed, reattach_all passed it over or raised): nobody
\* closes its topic, and a client that subscribes gets heartbeats for ever.
StreamEnds ==
  \A c \in Clients :
    row = "ended" /\ task = "done" /\ Following(c) ~>
      ~Following(c) \/ stream[c].overflowed
==============================================================================
