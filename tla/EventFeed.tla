------------------------------ MODULE EventFeed ------------------------------
(***************************************************************************)
(* What the live output of a run promises its clients, without queues,     *)
(* buffers or tasks: a client that subscribes is given the run's events    *)
(* one by one, in order and without a hole, from the first one or from as  *)
(* far back as the feed retains; and its stream ends only once the feed is *)
(* closed and the client has everything.  How long a client waits, and     *)
(* which client is dropped, is left open.  The promise of runs/bus.py.     *)
(***************************************************************************)
EXTENDS Naturals, Sequences

CONSTANTS
  Clients,
  Retained      \* how many events a late client is still given

VARIABLES
  published,    \* the events so far, numbered from 1
  closed,       \* no more of them will come
  at,           \* each client: "none", "following", "done" or "left"
  start,        \* the events that came too early for the client
  received      \* the events it was given

vars == <<published, closed, at, start, received>>

Init ==
  /\ published = 0 /\ closed = FALSE
  /\ at = [c \in Clients |-> "none"]
  /\ start = [c \in Clients |-> 0]
  /\ received = [c \in Clients |-> <<>>]

Publish ==
  /\ ~closed
  /\ published' = published + 1
  /\ UNCHANGED <<closed, at, start, received>>

Close ==
  /\ closed' = TRUE
  /\ UNCHANGED <<published, at, start, received>>

Subscribe(c) ==
  /\ at[c] # "following"
  /\ at' = [at EXCEPT ![c] = "following"]
  /\ start' = [start EXCEPT ![c] = IF published < Retained THEN 0 ELSE published - Retained]
  /\ received' = [received EXCEPT ![c] = <<>>]
  /\ UNCHANGED <<published, closed>>

\* The event after the last one given.
next(c) == start[c] + Len(received[c]) + 1

Deliver(c) ==
  /\ at[c] = "following" /\ next(c) <= published
  /\ received' = [received EXCEPT ![c] = Append(@, next(c))]
  /\ UNCHANGED <<published, closed, at, start>>

End(c) ==
  /\ at[c] = "following" /\ closed /\ next(c) > published
  /\ at' = [at EXCEPT ![c] = "done"]
  /\ UNCHANGED <<published, closed, start, received>>

Leave(c) ==
  /\ at[c] = "following"
  /\ at' = [at EXCEPT ![c] = "left"]
  /\ UNCHANGED <<published, closed, start, received>>

\* The feed is kept in memory: after a restart it has no clients, and either
\* starts again or has the run replayed.
Restart ==
  /\ published' \in Nat /\ closed' \in BOOLEAN
  /\ at' = [c \in Clients |-> "none"]
  /\ start' = [c \in Clients |-> 0]
  /\ received' = [c \in Clients |-> <<>>]

Next ==
  \/ Publish \/ Close \/ Restart
  \/ \E c \in Clients : Subscribe(c) \/ Deliver(c) \/ End(c) \/ Leave(c)

Spec == Init /\ [][Next]_vars
==============================================================================
