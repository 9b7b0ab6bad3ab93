---------------------------- MODULE EventBus_proofs ----------------------------
(***************************************************************************)
(* Theorems of EventBus, for any clients, buffer, queues and run: the bus  *)
(* implements EventFeed.  What a client is served is put together from a   *)
(* snapshot of the buffer and a queue that fills meanwhile, and may lose   *)
(* its subscription or its sentinel on the way; the invariant says that    *)
(* all of it is one stretch of the run's events, and how far it reaches.   *)
(***************************************************************************)
EXTENDS EventBus, TLAPS, SequenceTheorems

(***************************************************************************)
(* The inductive invariant.                                                *)
(***************************************************************************)

\* The buffer holds the last events published.
ReplayIsRecent ==
  /\ Len(replay) = IF published < ReplayLimit THEN published ELSE ReplayLimit
  /\ \A i \in 1..Len(replay) : replay[i] = published - Len(replay) + i

\* A client's events follow each other from its first one, up to some event.
IsStretch(c) ==
  /\ \A i \in 1..Len(Given(c)) : Given(c)[i] = missed(c) + i
  /\ missed(c) + Len(Given(c)) <= published

\* They reach to the last one published.
CaughtUp(c) == missed(c) + Len(Given(c)) = published

\* A subscriber is caught up; a follower that lost its subscription has events to
\* take from its queue first; a sentinel comes last, after everything.
StreamIsSound(c) ==
  LET s == stream[c] IN
  /\ s.subscribed => Following(c) /\ CaughtUp(c)
  /\ s.at = "live" => s.backlog = <<>>
  /\ s.at = "backlog" /\ ~s.subscribed => s.queue # <<>>
  /\ \A i \in 1..Len(s.queue) :
       s.queue[i] = End => i = Len(s.queue) /\ closed /\ CaughtUp(c)

ClosedIsLast == closed => task = "done"

IInv ==
  /\ TypeOK
  /\ ClosedIsLast
  /\ ReplayIsRecent
  /\ \A c \in Clients : IsStretch(c) /\ StreamIsSound(c)

(***************************************************************************)
(* Sequences.                                                              *)
(***************************************************************************)

\* Elements move from the head of what is to come to the end of what was given.
LEMMA HeadMoves ==
  ASSUME NEW S, NEW a \in Seq(S), NEW b \in Seq(S), b # <<>>
  PROVE  Append(a, Head(b)) \o Tail(b) = a \o b
<1>1. /\ Append(a, Head(b)) \in Seq(S) /\ Tail(b) \in Seq(S)
      /\ Append(a, Head(b)) \o Tail(b) \in Seq(S) /\ a \o b \in Seq(S)
  OBVIOUS
<1>2. Len(Append(a, Head(b)) \o Tail(b)) = Len(a \o b)
  OBVIOUS
<1>3. ASSUME NEW i \in 1..Len(a \o b)
      PROVE  (Append(a, Head(b)) \o Tail(b))[i] = (a \o b)[i]
  <2>1. CASE i <= Len(a)
    BY <2>1
  <2>2. CASE i = Len(a) + 1
    BY <2>2
  <2>3. CASE i > Len(a) + 1
    BY <2>3
  <2>4. QED
    BY <2>1, <2>2, <2>3
<1>4. QED
  BY <1>1, <1>2, <1>3, SeqEqual

\* What is appended to a part's end is appended to the whole.
LEMMA AppendMoves ==
  ASSUME NEW S, NEW a \in Seq(S), NEW b \in Seq(S), NEW e \in S
  PROVE  a \o Append(b, e) = Append(a \o b, e)
<1>1. /\ Append(b, e) \in Seq(S) /\ a \o b \in Seq(S)
      /\ a \o Append(b, e) \in Seq(S) /\ Append(a \o b, e) \in Seq(S)
  OBVIOUS
<1>2. Len(a \o Append(b, e)) = Len(Append(a \o b, e))
  OBVIOUS
<1>3. ASSUME NEW i \in 1..Len(a \o Append(b, e))
      PROVE  (a \o Append(b, e))[i] = Append(a \o b, e)[i]
  <2>1. CASE i <= Len(a)
    BY <2>1
  <2>2. CASE i > Len(a) /\ i <= Len(a) + Len(b)
    BY <2>2
  <2>3. CASE i = Len(a) + Len(b) + 1
    BY <2>3
  <2>4. QED
    BY <2>1, <2>2, <2>3
<1>4. QED
  BY <1>1, <1>2, <1>3, SeqEqual

\* The first elements of a sequence.
LEMMA Prefix ==
  ASSUME NEW S, NEW q \in Seq(S), NEW k \in 0..Len(q)
  PROVE  /\ SubSeq(q, 1, k) \in Seq(S) /\ Len(SubSeq(q, 1, k)) = k
         /\ \A i \in 1..k : SubSeq(q, 1, k)[i] = q[i]
<1>1. \A i \in 1..k : q[i] \in S
  OBVIOUS
<1>2. QED
  BY <1>1, SubSeqProperties

\* What is left of a sequence without its end, or its ends.
LEMMA FrontOfTail ==
  ASSUME NEW S, NEW q \in Seq(S), Len(q) > 1
  PROVE  LET front == SubSeq(q, 1, Len(q) - 1) IN
         /\ front # <<>> /\ Head(front) = Head(q)
         /\ Tail(q) # <<>> /\ Tail(q)[Len(Tail(q))] = q[Len(q)]
         /\ SubSeq(Tail(q), 1, Len(Tail(q)) - 1) = Tail(front)
<1> DEFINE n == Len(q)
           front == SubSeq(q, 1, n - 1)
           back == SubSeq(Tail(q), 1, n - 2)
<1>1. n \in Nat /\ n > 1 /\ \A i \in 1..n : q[i] \in S
  OBVIOUS
<1>2. /\ Tail(q) \in Seq(S) /\ Len(Tail(q)) = n - 1
      /\ \A i \in 1..(n - 1) : Tail(q)[i] = q[i + 1]
  BY <1>1, HeadTailProperties
<1> HIDE DEF n
<1>3. /\ front \in Seq(S) /\ Len(front) = n - 1
      /\ \A i \in 1..(n - 1) : front[i] = q[i]
  BY <1>1, SubSeqProperties
<1>4. /\ back \in Seq(S) /\ Len(back) = n - 2
      /\ \A i \in 1..(n - 2) : back[i] = q[i + 1]
  <2>1. n - 2 \in 0..Len(Tail(q))
    BY <1>1, <1>2
  <2>2. /\ back \in Seq(S) /\ Len(back) = n - 2
        /\ \A i \in 1..(n - 2) : back[i] = Tail(q)[i]
    BY <1>2, <2>1, Prefix
  <2>3. QED
    BY <1>1, <1>2, <2>2
<1> HIDE DEF front, back
<1>5. front # <<>> /\ Head(front) = q[1]
  BY <1>1, <1>3
<1>6. /\ Tail(front) \in Seq(S) /\ Len(Tail(front)) = n - 2
      /\ \A i \in 1..(n - 2) : Tail(front)[i] = front[i + 1]
  BY <1>1, <1>3, <1>5, HeadTailProperties
<1>7. back = Tail(front)
  <2>1. \A i \in 1..(n - 2) : back[i] = Tail(front)[i]
    BY <1>1, <1>3, <1>4, <1>6
  <2>2. QED
    BY <1>4, <1>6, <2>1, SeqEqual
<1>8. Head(q) = q[1] /\ Tail(q) # <<>> /\ Tail(q)[Len(Tail(q))] = q[n]
  BY <1>1, <1>2
<1>9. Len(Tail(q)) - 1 = n - 2
  BY <1>1, <1>2
<1>10. QED
  BY <1>5, <1>7, <1>8, <1>9 DEF n, front, back

\* A sentinel at the end of a queue is no event; without one, all are.
LEMMA EventsOfQueue ==
  ASSUME NEW q \in Seq(Event \cup {End}),
         \A i \in 1..Len(q) : q[i] = End => i = Len(q)
  PROVE  /\ events(q) \in Seq(Event)
         /\ (\A i \in 1..Len(q) : q[i] # End) =>
              /\ events(q) = q
              /\ events(Append(q, End)) = q
              /\ \A e \in Event : events(Append(q, e)) = Append(q, e)
<1> DEFINE p == SubSeq(q, 1, Len(q) - 1)
<1>1. CASE q # <<>> /\ q[Len(q)] = End
  <2>1. events(q) = p
    BY <1>1 DEF events
  <2>2. \A i \in 1..(Len(q) - 1) : q[i] \in Event
    OBVIOUS
  <2>3. p \in Seq(Event)
    BY <2>2, SubSeqProperties
  <2>4. Len(q) \in 1..Len(q)
    BY <1>1
  <2>5. QED
    BY <1>1, <2>1, <2>3, <2>4
<1>2. CASE ~(q # <<>> /\ q[Len(q)] = End)
  <2>1. \A i \in 1..Len(q) : q[i] \in Event
    BY <1>2
  <2>2. q \in Seq(Event) /\ events(q) = q
    BY <1>2, <2>1 DEF events
  <2>3. events(Append(q, End)) = q
    <3>1. /\ Append(q, End) # <<>> /\ Len(Append(q, End)) = Len(q) + 1
          /\ Append(q, End)[Len(Append(q, End))] = End
          /\ Len(Append(q, End)) - 1 = Len(q)
      OBVIOUS
    <3>2. SubSeq(Append(q, End), 1, Len(q)) = q
      <4> DEFINE a == Append(q, End)
      <4>1. \A i \in 1..Len(q) : a[i] = q[i] /\ q[i] \in Event
        BY <2>1
      <4>2. /\ SubSeq(a, 1, Len(q)) \in Seq(Event) /\ Len(SubSeq(a, 1, Len(q))) = Len(q)
            /\ \A i \in 1..Len(q) : SubSeq(a, 1, Len(q))[i] = a[i]
        <5>1. \A i \in 1..Len(q) : a[i] \in Event
          BY <4>1
        <5> HIDE DEF a
        <5>2. QED
          BY <5>1, SubSeqProperties
      <4>3. QED
        BY <2>2, <4>1, <4>2, SeqEqual
    <3>3. QED
      BY <3>1, <3>2 DEF events
  <2>4. ASSUME NEW e \in Event
        PROVE  events(Append(q, e)) = Append(q, e)
    BY DEF events, Event, End
  <2>5. QED
    BY <2>2, <2>3, <2>4
<1>3. QED
  BY <1>1, <1>2

\* The event at the head of a queue is the first one to come.
LEMMA EventsOfTail ==
  ASSUME NEW q \in Seq(Event \cup {End}), q # <<>>, Head(q) # End,
         \A i \in 1..Len(q) : q[i] = End => i = Len(q)
  PROVE  /\ events(q) # <<>> /\ Head(events(q)) = Head(q)
         /\ events(Tail(q)) = Tail(events(q))
<1>1. CASE q[Len(q)] # End
  BY <1>1 DEF events
<1>2. CASE q[Len(q)] = End
  <2>1. Len(q) > 1
    BY <1>2
  <2>2. /\ events(q) = SubSeq(q, 1, Len(q) - 1)
        /\ events(q) # <<>> /\ Head(events(q)) = Head(q)
        /\ Tail(q) # <<>> /\ Tail(q)[Len(Tail(q))] = End
        /\ SubSeq(Tail(q), 1, Len(Tail(q)) - 1) = Tail(events(q))
    BY <1>2, <2>1, FrontOfTail DEF events
  <2>3. events(Tail(q)) = Tail(events(q))
    BY <2>2 DEF events
  <2>4. QED
    BY <2>2, <2>3
<1>3. QED
  BY <1>1, <1>2

(***************************************************************************)
(* Type correctness.                                                       *)
(***************************************************************************)

\* A replay leaves a buffer's worth of events.
LEMMA RememberedType ==
  ASSUME NEW n \in 0..MaxLog
  PROVE  /\ Remembered(n) \in Seq(Event)
         /\ Len(Remembered(n)) = IF n < ReplayLimit THEN n ELSE ReplayLimit
         /\ \A i \in 1..Len(Remembered(n)) : Remembered(n)[i] = n - Len(Remembered(n)) + i
BY BusAssumptions DEF Remembered, Event

\* The buffer never outgrows its limit.
LEMMA RememberType ==
  ASSUME NEW q \in Seq(Event), Len(q) <= ReplayLimit, NEW e \in Event
  PROVE  remember(q, e) \in Seq(Event) /\ Len(remember(q, e)) <= ReplayLimit
<1>1. CASE Len(q) < ReplayLimit
  BY <1>1, BusAssumptions DEF remember
<1>2. CASE ~(Len(q) < ReplayLimit)
  <2>1. q # <<>> /\ Len(q) = ReplayLimit
    BY <1>2, BusAssumptions
  <2>2. Tail(q) \in Seq(Event) /\ Len(Tail(q)) = Len(q) - 1
    BY <2>1
  <2>3. QED
    BY <1>2, <2>1, <2>2, BusAssumptions DEF remember
<1>3. QED
  BY <1>1, <1>2

\* Whatever is put into a stream's queue, it is a stream, and its queue is bounded.
LEMMA PutType ==
  ASSUME NEW s \in Stream, Len(s.queue) <= QueueMaxsize
  PROVE  /\ put_end(s) \in Stream /\ Len(put_end(s).queue) <= QueueMaxsize
         /\ \A e \in Event : /\ put_event(s, e) \in Stream
                             /\ Len(put_event(s, e).queue) <= QueueMaxsize
<1>1. s.queue \in Seq(Event \cup {End}) /\ Len(s.queue) \in Nat
  BY DEF Stream
<1>2. ASSUME NEW e \in Event \cup {End}
      PROVE  /\ Append(s.queue, e) \in Seq(Event \cup {End})
             /\ Len(Append(s.queue, e)) = Len(s.queue) + 1
  BY <1>1
<1>3. /\ \A q \in Seq(Event \cup {End}) : [s EXCEPT !.queue = q] \in Stream
      /\ [s EXCEPT !.overflowed = TRUE] \in Stream
      /\ [s EXCEPT !.subscribed = FALSE, !.overflowed = TRUE] \in Stream
  BY DEF Stream
<1>4. ASSUME NEW e \in Event \cup {End}, ~Full(s)
      PROVE  /\ [s EXCEPT !.queue = Append(@, e)] \in Stream
             /\ Len([s EXCEPT !.queue = Append(@, e)].queue) <= QueueMaxsize
  <2>1. [s EXCEPT !.queue = Append(@, e)].queue = Append(s.queue, e)
    BY DEF Stream
  <2>2. Len(s.queue) + 1 <= QueueMaxsize
    BY <1>1, <1>4, BusAssumptions DEF Full
  <2>3. QED
    BY <1>2, <1>3, <2>1, <2>2
<1>5. /\ [s EXCEPT !.overflowed = TRUE].queue = s.queue
      /\ [s EXCEPT !.subscribed = FALSE, !.overflowed = TRUE].queue = s.queue
  BY DEF Stream
<1>6. put_end(s) \in Stream /\ Len(put_end(s).queue) <= QueueMaxsize
  <2>1. CASE ~s.subscribed
    BY <2>1 DEF put_end
  <2>2. CASE s.subscribed /\ Full(s)
    BY <1>3, <1>5, <2>2 DEF put_end
  <2>3. CASE s.subscribed /\ ~Full(s)
    BY <1>4, <2>3 DEF put_end
  <2>4. QED
    BY <2>1, <2>2, <2>3
<1>7. ASSUME NEW e \in Event
      PROVE  put_event(s, e) \in Stream /\ Len(put_event(s, e).queue) <= QueueMaxsize
  <2>1. CASE ~s.subscribed
    BY <2>1 DEF put_event
  <2>2. CASE s.subscribed /\ Full(s)
    BY <1>3, <1>5, <2>2 DEF put_event
  <2>3. CASE s.subscribed /\ ~Full(s)
    BY <1>4, <1>7, <2>3 DEF put_event
  <2>4. QED
    BY <2>1, <2>2, <2>3
<1>8. QED
  BY <1>6, <1>7

\* The steps of a client's iterator give it a stream with a shorter queue, or one
\* that is as long.
LEMMA ClientType ==
  ASSUME TypeOK, NEW c \in Clients, subscribe(c) \/ Iterate(c) \/ Disconnect(c)
  PROVE  /\ stream' \in [Clients -> Stream] /\ received' \in [Clients -> Seq(Event)]
         /\ \A d \in Clients : Len(stream'[d].queue) <= QueueMaxsize
<1> DEFINE s == stream[c]
<1>1. /\ s \in Stream /\ s.queue \in Seq(Event \cup {End}) /\ s.backlog \in Seq(Event)
      /\ Len(s.queue) <= QueueMaxsize /\ received[c] \in Seq(Event) /\ replay \in Seq(Event)
  BY DEF TypeOK, Stream
<1>2. s.queue # <<>> => /\ Tail(s.queue) \in Seq(Event \cup {End})
                        /\ Len(Tail(s.queue)) <= QueueMaxsize
                        /\ Head(s.queue) # End => Append(received[c], Head(s.queue)) \in Seq(Event)
  <2>1. SUFFICES ASSUME s.queue # <<>>
                 PROVE  /\ Tail(s.queue) \in Seq(Event \cup {End})
                        /\ Len(Tail(s.queue)) <= QueueMaxsize
                        /\ Head(s.queue) # End => Append(received[c], Head(s.queue)) \in Seq(Event)
    OBVIOUS
  <2>2. /\ Tail(s.queue) \in Seq(Event \cup {End}) /\ Len(Tail(s.queue)) = Len(s.queue) - 1
        /\ Head(s.queue) \in Event \cup {End} /\ Len(s.queue) \in Nat
    BY <1>1, <2>1, HeadTailProperties
  <2>3. QED
    BY <1>1, <2>2, BusAssumptions
<1>3. s.backlog # <<>> => /\ Tail(s.backlog) \in Seq(Event)
                          /\ Append(received[c], Head(s.backlog)) \in Seq(Event)
  BY <1>1
<1>4. \E new \in Stream, r \in Seq(Event) :
        /\ stream' = [stream EXCEPT ![c] = new] /\ Len(new.queue) <= QueueMaxsize
        /\ received' = [received EXCEPT ![c] = r]
  <2>1. UNCHANGED received => received' = [received EXCEPT ![c] = received[c]]
    BY DEF TypeOK
  <2>2. CASE subscribe(c)
    <3> DEFINE new == [at |-> "backlog", backlog |-> replay, queue |-> <<>>,
                       subscribed |-> TRUE, overflowed |-> FALSE]
    <3>1. new \in Stream /\ Len(new.queue) <= QueueMaxsize
      BY <1>1, BusAssumptions DEF Stream
    <3>2. <<>> \in Seq(Event)
      OBVIOUS
    <3>3. QED
      BY <2>2, <3>1, <3>2 DEF subscribe
  <2>3. CASE YieldBacklog(c)
    <3> DEFINE new == [s EXCEPT !.backlog = Tail(@)]
    <3>1. new \in Stream /\ Len(new.queue) <= QueueMaxsize
      BY <1>1, <1>3, <2>3 DEF YieldBacklog, Stream
    <3>2. QED
      BY <1>3, <2>3, <3>1 DEF YieldBacklog
  <2>4. CASE GoLive(c)
    <3>1. finished(s, "done") \in Stream /\ [s EXCEPT !.at = "live"] \in Stream
      BY <1>1 DEF Stream, finished
    <3>2. finished(s, "done").queue = s.queue /\ [s EXCEPT !.at = "live"].queue = s.queue
      BY <1>1 DEF Stream, finished
    <3>3. QED
      BY <1>1, <2>1, <2>4, <3>1, <3>2 DEF GoLive
  <2>5. CASE YieldLive(c)
    <3> DEFINE new == [s EXCEPT !.queue = Tail(@)]
    <3>1. new \in Stream /\ Len(new.queue) <= QueueMaxsize
      BY <1>1, <1>2, <2>5 DEF YieldLive, Stream
    <3>2. QED
      BY <1>2, <2>5, <3>1 DEF YieldLive
  <2>6. CASE StopIteration(c)
    <3> DEFINE new == finished([s EXCEPT !.queue = Tail(@)], "done")
    <3>1. new \in Stream /\ Len(new.queue) <= QueueMaxsize
      BY <1>1, <1>2, <2>6 DEF StopIteration, Stream, finished
    <3>2. QED
      BY <1>1, <2>1, <2>6, <3>1 DEF StopIteration
  <2>7. CASE Disconnect(c)
    <3> DEFINE new == finished(s, "left")
    <3>1. new \in Stream /\ Len(new.queue) <= QueueMaxsize
      BY <1>1 DEF Stream, finished
    <3>2. QED
      BY <1>1, <2>1, <2>7, <3>1 DEF Disconnect
  <2>8. QED
    BY <2>2, <2>3, <2>4, <2>5, <2>6, <2>7 DEF Iterate
<1>5. QED
  BY <1>4 DEF TypeOK

\* So does every step.
LEMMA TypeIsKept ==
  ASSUME TypeOK, [Next]_vars
  PROVE  TypeOK'
<1>1. ASSUME publish, published + 1 \in Event
      PROVE  /\ replay' \in Seq(Event) /\ Len(replay') <= ReplayLimit
             /\ stream' \in [Clients -> Stream]
             /\ \A c \in Clients : Len(stream'[c].queue) <= QueueMaxsize
  <2>1. replay' \in Seq(Event) /\ Len(replay') <= ReplayLimit
    BY <1>1, RememberType DEF publish, TypeOK
  <2>2. ASSUME NEW c \in Clients
        PROVE  /\ put_event(stream[c], published + 1) \in Stream
               /\ Len(put_event(stream[c], published + 1).queue) <= QueueMaxsize
    BY <1>1, PutType DEF TypeOK
  <2>3. QED
    BY <1>1, <2>1, <2>2 DEF publish
<1>2. CASE PublishLine
  <2>1. publish /\ published + 1 \in Event /\ published' = published + 1
    BY <1>2, BusAssumptions DEF PublishLine, publish, TypeOK, Event
  <2>2. published' \in 0..log'
    BY <1>2, <2>1, BusAssumptions DEF PublishLine, TypeOK, run
  <2>3. QED
    BY <1>1, <1>2, <2>1, <2>2 DEF PublishLine, TypeOK, run
<1>3. CASE LimitBreach
  <2>1. publish /\ published + 1 \in Event /\ published' = published + 1
    BY <1>3, BusAssumptions DEF LimitBreach, publish, TypeOK, Event
  <2>2. published' \in 0..log' /\ log' \in 0..MaxLog
    BY <1>3, <2>1, BusAssumptions DEF LimitBreach, TypeOK
  <2>3. QED
    BY <1>1, <1>3, <2>1, <2>2 DEF LimitBreach, TypeOK
<1>4. CASE close
  <2>1. ASSUME NEW c \in Clients
        PROVE  put_end(stream[c]) \in Stream /\ Len(put_end(stream[c]).queue) <= QueueMaxsize
    BY PutType DEF TypeOK
  <2>2. stream' \in [Clients -> Stream] /\ \A c \in Clients : Len(stream'[c].queue) <= QueueMaxsize
    BY <1>4, <2>1 DEF close
  <2>3. QED
    BY <1>4, <2>2 DEF close, TypeOK, run
<1>5. CASE LoopRaises \/ Finish \/ FinishFails \/ Exit \/ Launch \/ LaunchFails
  BY <1>5 DEF LoopRaises, Finish, FinishFails, Over, Exit, Launch, LaunchFails, TypeOK,
              run, topic, clients
<1>6. CASE WriteLog
  <2>1. log' \in 0..MaxLog /\ published' \in 0..log'
    BY <1>6, BusAssumptions DEF WriteLog, TypeOK, topic
  <2>2. QED
    BY <1>6, <2>1 DEF WriteLog, TypeOK, topic, clients
<1>7. ASSUME NEW c \in Clients, subscribe(c) \/ Iterate(c) \/ Disconnect(c)
      PROVE  TypeOK'
  <2>1. UNCHANGED <<run, task, topic, restarts>>
    BY <1>7 DEF subscribe, Iterate, YieldBacklog, GoLive, YieldLive, StopIteration, Disconnect
  <2>2. QED
    BY <1>7, <2>1, ClientType DEF TypeOK, run, topic
<1>8. CASE Restart
  <2>1. NoStream \in Stream /\ Len(NoStream.queue) <= QueueMaxsize
    BY BusAssumptions DEF NoStream, Stream
  <2>2. replay' \in Seq(Event) /\ Len(replay') <= ReplayLimit
    BY <1>8, RememberedType, BusAssumptions DEF Restart, PassedOver, Reattached, Replayed, TypeOK
  <2>3. /\ stream' \in [Clients -> Stream] /\ received' \in [Clients -> Seq(Event)]
        /\ \A c \in Clients : Len(stream'[c].queue) <= QueueMaxsize
    <3>1. <<>> \in Seq(Event)
      OBVIOUS
    <3>2. QED
      BY <1>8, <2>1, <3>1 DEF Restart
  <2>4. /\ published' \in 0..log' /\ closed' \in BOOLEAN /\ row' \in {"pending", "running", "ended"}
        /\ task' \in {"watch", "done", "none"} /\ restarts' \in 0..MaxRestarts
    <3>1. /\ closed' \in BOOLEAN /\ row' \in {"pending", "running", "ended"}
          /\ task' \in {"watch", "done", "none"}
      BY <1>8 DEF Restart, PassedOver, Reattached, Replayed, TypeOK
    <3>2. published' \in 0..log' /\ restarts' \in 0..MaxRestarts
      BY <1>8, BusAssumptions DEF Restart, PassedOver, Reattached, Replayed, TypeOK
    <3>3. QED
      BY <3>1, <3>2
  <2>5. QED
    BY <1>8, <2>2, <2>3, <2>4 DEF Restart, TypeOK
<1>9. CASE UNCHANGED vars
  BY <1>9 DEF vars, run, topic, clients, TypeOK
<1>10. QED
  BY <1>2, <1>3, <1>4, <1>5, <1>6, <1>7, <1>8, <1>9 DEF Next, Supervisor

(***************************************************************************)
(* What a client is given.                                                 *)
(***************************************************************************)

\* The types of what a client's events are put together from.
LEMMA GivenType ==
  ASSUME IInv, NEW c \in Clients
  PROVE  /\ stream[c] \in Stream /\ stream[c].queue \in Seq(Event \cup {End})
         /\ stream[c].backlog \in Seq(Event) /\ received[c] \in Seq(Event)
         /\ events(stream[c].queue) \in Seq(Event)
         /\ Given(c) \in Seq(Event) /\ missed(c) \in Nat /\ published \in Nat
         /\ Len(Given(c)) \in Nat
<1>1. /\ stream[c] \in Stream /\ stream[c].queue \in Seq(Event \cup {End})
      /\ stream[c].backlog \in Seq(Event) /\ received[c] \in Seq(Event)
  BY DEF IInv, TypeOK, Stream
<1>2. events(stream[c].queue) \in Seq(Event)
  BY <1>1, EventsOfQueue DEF IInv, StreamIsSound
<1>3. Given(c) \in Seq(Event)
  BY <1>1, <1>2 DEF Given
<1>4. missed(c) \in Nat
  <2>1. CASE Given(c) = <<>>
    BY <2>1 DEF missed
  <2>2. CASE Given(c) # <<>>
    <3>1. Given(c)[1] \in Event
      BY <1>3, <2>2
    <3>2. QED
      BY <2>2, <3>1, BusAssumptions DEF missed, Event
  <2>3. QED
    BY <2>1, <2>2
<1>5. published \in Nat
  BY BusAssumptions DEF IInv, TypeOK
<1>6. QED
  BY <1>1, <1>2, <1>3, <1>4, <1>5

\* A client that is given the same, of the same events, is where it was.
LEMMA SameGiven ==
  ASSUME IInv, NEW c \in Clients, Given(c)' = Given(c), published' = published
  PROVE  IsStretch(c)' /\ missed(c)' = missed(c) /\ (CaughtUp(c) => CaughtUp(c)')
<1>1. missed(c)' = missed(c)
  BY DEF missed
<1>2. QED
  BY <1>1 DEF IInv, IsStretch, CaughtUp

\* A step that does not touch a client's stream leaves it sound.
LEMMA Unaffected ==
  ASSUME IInv, NEW c \in Clients, stream'[c] = stream[c], received'[c] = received[c],
         published' = published, closed => closed'
  PROVE  IsStretch(c)' /\ StreamIsSound(c)'
<1>1. Given(c)' = Given(c)
  BY DEF Given
<1>2. IsStretch(c)' /\ (CaughtUp(c) => CaughtUp(c)')
  BY <1>1, SameGiven
<1>3. StreamIsSound(c)'
  BY <1>2 DEF IInv, StreamIsSound, Following
<1>4. QED
  BY <1>2, <1>3

\* Who has no stream was given nothing.
LEMMA NothingGiven ==
  ASSUME NEW c \in Clients, stream[c] = NoStream, received[c] = <<>>, published \in Nat
  PROVE  Given(c) = <<>> /\ missed(c) = 0 /\ IsStretch(c) /\ StreamIsSound(c)
<1>1. Given(c) = <<>> /\ missed(c) = 0
  BY DEF Given, missed, events, NoStream
<1>2. QED
  BY <1>1 DEF IsStretch, StreamIsSound, NoStream

\* A client's steps are its own.
LEMMA OthersUntouched ==
  ASSUME IInv, NEW c \in Clients, subscribe(c) \/ Iterate(c) \/ Disconnect(c),
         NEW d \in Clients \ {c}
  PROVE  stream'[d] = stream[d] /\ received'[d] = received[d]
BY DEF subscribe, Iterate, YieldBacklog, GoLive, YieldLive, StopIteration, Disconnect,
   IInv, TypeOK

\* The buffer follows what is published.
LEMMA RememberIsRecent ==
  ASSUME IInv, published' = published + 1, replay' = remember(replay, published + 1),
         published + 1 \in Event
  PROVE  ReplayIsRecent'
<1>1. /\ replay \in Seq(Event) /\ published \in Nat /\ ReplayLimit \in Nat \ {0}
      /\ Len(replay) = IF published < ReplayLimit THEN published ELSE ReplayLimit
      /\ \A i \in 1..Len(replay) : replay[i] = published - Len(replay) + i
  BY BusAssumptions DEF IInv, TypeOK, ReplayIsRecent
<1>2. CASE Len(replay) < ReplayLimit
  <2>1. replay' = Append(replay, published + 1) /\ published = Len(replay)
    BY <1>1, <1>2 DEF remember
  <2>2. Len(replay') = published + 1
    BY <1>1, <2>1
  <2>3. ASSUME NEW i \in 1..(published + 1)
        PROVE  replay'[i] = i
    <3>1. CASE i = published + 1
      BY <1>1, <2>1, <3>1
    <3>2. CASE i <= published
      <4>1. i \in 1..Len(replay) /\ Len(replay) \in Nat
        BY <1>1, <2>1, <3>2
      <4>2. replay[i] = published - Len(replay) + i
        BY <1>1, <4>1
      <4>3. Append(replay, published + 1)[i] = replay[i]
        BY <1>1, <4>1
      <4>4. QED
        BY <2>1, <4>1, <4>2, <4>3
    <3>3. QED
      BY <1>1, <3>1, <3>2
  <2>4. QED
    BY <1>1, <1>2, <2>1, <2>2, <2>3 DEF ReplayIsRecent
<1>3. CASE ~(Len(replay) < ReplayLimit)
  <2>1. replay' = Append(Tail(replay), published + 1) /\ Len(replay) = ReplayLimit
        /\ ReplayLimit <= published /\ replay # <<>>
    BY <1>1, <1>3 DEF remember
  <2>2. /\ Tail(replay) \in Seq(Event) /\ Len(Tail(replay)) = ReplayLimit - 1
        /\ \A i \in 1..(ReplayLimit - 1) : Tail(replay)[i] = replay[i + 1]
    BY <1>1, <2>1, HeadTailProperties
  <2>3. Len(replay') = ReplayLimit
    BY <1>1, <2>1, <2>2
  <2>4. ASSUME NEW i \in 1..ReplayLimit
        PROVE  replay'[i] = published + 1 - ReplayLimit + i
    <3>1. CASE i = ReplayLimit
      BY <1>1, <2>1, <2>2, <3>1
    <3>2. CASE i < ReplayLimit
      BY <1>1, <2>1, <2>2, <3>2
    <3>3. QED
      BY <1>1, <3>1, <3>2
  <2>5. ~(published' < ReplayLimit)
    BY <1>1, <2>1
  <2>6. /\ Len(replay') = IF published' < ReplayLimit THEN published' ELSE ReplayLimit
        /\ \A i \in 1..Len(replay') : replay'[i] = published' - Len(replay') + i
    <3>1. ASSUME NEW i \in 1..Len(replay')
          PROVE  replay'[i] = published' - Len(replay') + i
      <4>1. i \in 1..ReplayLimit
        BY <2>3
      <4>2. replay'[i] = published + 1 - ReplayLimit + i
        BY <2>4, <4>1
      <4>3. published' - ReplayLimit + i = published + 1 - ReplayLimit + i
        BY <1>1
      <4>4. QED
        BY <2>3, <4>2, <4>3
    <3>2. QED
      BY <2>3, <2>5, <3>1
  <2>7. QED
    BY <2>6 DEF ReplayIsRecent
<1>4. QED
  BY <1>2, <1>3

\* A topic at its end tells every subscriber that has room to be told.
LEMMA CloseKeeps ==
  ASSUME IInv, close, NEW c \in Clients
  PROVE  /\ IsStretch(c)' /\ StreamIsSound(c)'
         /\ stream'[c].at = stream[c].at /\ missed(c)' = missed(c)
<1> DEFINE s == stream[c]
<1>1. /\ s \in Stream /\ s.queue \in Seq(Event \cup {End}) /\ Len(s.queue) \in Nat
      /\ IsStretch(c) /\ StreamIsSound(c)
  BY GivenType DEF IInv
<1>2. /\ stream'[c] = put_end(s) /\ published' = published /\ received'[c] = received[c]
      /\ closed' /\ ~closed
  BY DEF close, IInv, ClosedIsLast
<1>3. \A i \in 1..Len(s.queue) : s.queue[i] # End
  BY <1>1, <1>2 DEF StreamIsSound
<1>4. CASE ~s.subscribed
  <2>1. stream'[c] = s
    BY <1>2, <1>4 DEF put_end
  <2>2. QED
    BY <1>2, <2>1, Unaffected DEF Given, missed
<1>5. CASE s.subscribed /\ Full(s)
  <2>1. /\ stream'[c].queue = s.queue /\ stream'[c].backlog = s.backlog
        /\ stream'[c].at = s.at /\ stream'[c].subscribed
    BY <1>1, <1>2, <1>5 DEF put_end, Stream
  <2>2. Given(c)' = Given(c)
    BY <1>2, <2>1 DEF Given
  <2>3. IsStretch(c)' /\ missed(c)' = missed(c) /\ (CaughtUp(c) => CaughtUp(c)')
    BY <1>2, <2>2, SameGiven
  <2>4. StreamIsSound(c)'
    BY <1>1, <1>3, <1>5, <2>1, <2>3 DEF StreamIsSound, Following
  <2>5. QED
    BY <2>1, <2>3, <2>4
<1>6. CASE s.subscribed /\ ~Full(s)
  <2>1. /\ stream'[c].queue = Append(s.queue, End) /\ stream'[c].backlog = s.backlog
        /\ stream'[c].at = s.at /\ stream'[c].subscribed
    BY <1>1, <1>2, <1>6 DEF put_end, Stream
  <2>2. events(Append(s.queue, End)) = s.queue /\ events(s.queue) = s.queue
    BY <1>1, <1>3, EventsOfQueue
  <2>3. Given(c)' = Given(c)
    BY <1>2, <2>1, <2>2 DEF Given
  <2>4. IsStretch(c)' /\ missed(c)' = missed(c) /\ CaughtUp(c)'
    BY <1>1, <1>2, <1>6, <2>3, SameGiven DEF StreamIsSound
  <2>5. \A i \in 1..Len(stream'[c].queue) :
          stream'[c].queue[i] = End => i = Len(stream'[c].queue)
    BY <1>1, <1>3, <2>1
  <2>6. StreamIsSound(c)'
    BY <1>1, <1>2, <1>6, <2>1, <2>4, <2>5 DEF StreamIsSound, Following
  <2>7. QED
    BY <2>1, <2>4, <2>6
<1>7. QED
  BY <1>4, <1>5, <1>6

\* A subscription starts with what the buffer holds, and misses nothing after it.
LEMMA SubscribeKeeps ==
  ASSUME IInv, NEW c \in Clients, subscribe(c)
  PROVE  /\ IsStretch(c)' /\ StreamIsSound(c)'
         /\ missed(c)' = IF published < ReplayLimit THEN 0 ELSE published - ReplayLimit
<1>1. /\ stream'[c] = [at |-> "backlog", backlog |-> replay, queue |-> <<>>,
                       subscribed |-> TRUE, overflowed |-> FALSE]
      /\ received'[c] = <<>> /\ UNCHANGED topic
  BY DEF subscribe, IInv, TypeOK
<1>2. /\ replay \in Seq(Event) /\ published \in Nat /\ ReplayLimit \in Nat \ {0}
      /\ Len(replay) = IF published < ReplayLimit THEN published ELSE ReplayLimit
      /\ \A i \in 1..Len(replay) : replay[i] = published - Len(replay) + i
  BY BusAssumptions DEF IInv, TypeOK, ReplayIsRecent
<1>3. Given(c)' = replay
  BY <1>1, <1>2 DEF Given, events
<1>4. missed(c)' = published - Len(replay)
  <2>1. CASE replay = <<>>
    <3>1. Len(replay) = 0
      BY <2>1
    <3>2. published = 0
      BY <1>2, <3>1
    <3>3. missed(c)' = 0
      BY <1>3, <2>1 DEF missed
    <3>4. QED
      BY <3>1, <3>2, <3>3
  <2>2. CASE replay # <<>>
    <3>1. Len(replay) >= 1 /\ replay[1] = published - Len(replay) + 1
      BY <1>2, <2>2
    <3>2. QED
      BY <1>2, <1>3, <2>2, <3>1 DEF missed
  <2>3. QED
    BY <2>1, <2>2
<1>5. published' = published
  BY <1>1 DEF topic
<1>6. IsStretch(c)' /\ CaughtUp(c)'
  <2>1. Len(replay) \in Nat /\ Len(Given(c)') = Len(replay)
    BY <1>2, <1>3
  <2>2. missed(c)' + Len(Given(c)') = published'
    BY <1>2, <1>4, <1>5, <2>1
  <2>3. \A i \in 1..Len(Given(c)') : Given(c)'[i] = missed(c)' + i
    BY <1>2, <1>3, <1>4, <2>1
  <2>4. missed(c)' + Len(Given(c)') <= published'
    BY <1>2, <1>5, <2>2
  <2>5. QED
    BY <2>2, <2>3, <2>4 DEF IsStretch, CaughtUp
<1>7. StreamIsSound(c)'
  BY <1>1, <1>6 DEF StreamIsSound, Following
<1>8. QED
  BY <1>2, <1>4, <1>6, <1>7

\* What a client's iterator does, apart from what it is given: the stream keeps
\* its soundness if events move from what is to come to what was given.
LEMMA IterateKeeps ==
  ASSUME IInv, NEW c \in Clients, Iterate(c) \/ Disconnect(c)
  PROVE  Given(c)' = Given(c) /\ IsStretch(c)' /\ StreamIsSound(c)'
<1> DEFINE s == stream[c]
           t == stream'[c]
<1>1. /\ s \in Stream /\ s.queue \in Seq(Event \cup {End}) /\ s.backlog \in Seq(Event)
      /\ received[c] \in Seq(Event) /\ events(s.queue) \in Seq(Event)
      /\ IsStretch(c) /\ StreamIsSound(c)
  BY GivenType DEF IInv
<1>2. UNCHANGED topic
  BY DEF Iterate, YieldBacklog, GoLive, YieldLive, StopIteration, Disconnect
<1>3. SUFFICES /\ Given(c)' = Given(c)
               /\ (CaughtUp(c) => CaughtUp(c)') => StreamIsSound(c)'
  BY <1>2, SameGiven DEF topic
<1>4. CASE YieldBacklog(c)
  <2>1. /\ t = [s EXCEPT !.backlog = Tail(@)] /\ s.backlog # <<>> /\ s.at = "backlog"
        /\ received'[c] = Append(received[c], Head(s.backlog))
    BY <1>4 DEF YieldBacklog, IInv, TypeOK
  <2>2. /\ t.queue = s.queue /\ t.backlog = Tail(s.backlog) /\ t.at = s.at
        /\ t.subscribed = s.subscribed
    BY <1>1, <2>1 DEF Stream
  <2>3. Append(received[c], Head(s.backlog)) \o Tail(s.backlog) = received[c] \o s.backlog
    BY <1>1, <2>1, HeadMoves
  <2>4. Given(c)' = Given(c)
    BY <2>1, <2>2, <2>3 DEF Given
  <2>5. QED
    BY <1>1, <1>2, <2>1, <2>2, <2>4 DEF StreamIsSound, Following, topic
<1>5. CASE GoLive(c)
  <2>1. /\ s.backlog = <<>> /\ s.at = "backlog" /\ received'[c] = received[c]
        /\ t = IF closed /\ s.queue = <<>> THEN finished(s, "done") ELSE [s EXCEPT !.at = "live"]
    BY <1>5 DEF GoLive, IInv, TypeOK
  <2>2. /\ t.queue = s.queue /\ t.backlog = s.backlog
        /\ \/ t.at = "done" /\ ~t.subscribed
           \/ t.at = "live" /\ t.subscribed = s.subscribed
    BY <1>1, <2>1 DEF Stream, finished
  <2>3. Given(c)' = Given(c)
    BY <2>1, <2>2 DEF Given
  <2>4. QED
    BY <1>1, <1>2, <2>1, <2>2, <2>3 DEF StreamIsSound, Following, topic
<1>6. CASE YieldLive(c)
  <2>1. /\ t = [s EXCEPT !.queue = Tail(@)] /\ s.queue # <<>> /\ s.at = "live"
        /\ Head(s.queue) # End /\ received'[c] = Append(received[c], Head(s.queue))
    BY <1>6 DEF YieldLive, IInv, TypeOK
  <2>2. /\ t.queue = Tail(s.queue) /\ t.backlog = s.backlog /\ t.at = s.at
        /\ t.subscribed = s.subscribed
    BY <1>1, <2>1 DEF Stream
  <2>3. /\ events(s.queue) # <<>> /\ Head(events(s.queue)) = Head(s.queue)
        /\ events(Tail(s.queue)) = Tail(events(s.queue))
    BY <1>1, <2>1, EventsOfTail DEF StreamIsSound
  <2>4. /\ s.backlog = <<>>
        /\ received[c] \o s.backlog = received[c]
        /\ received'[c] \o t.backlog = Append(received[c], Head(s.queue))
    <3>1. s.backlog = <<>>
      BY <1>1, <2>1 DEF StreamIsSound
    <3>2. Append(received[c], Head(events(s.queue))) \in Seq(Event)
      BY <1>1, <2>3
    <3>3. \A r \in Seq(Event) : r \o <<>> = r
      BY ConcatEmptySeq
    <3>4. QED
      BY <1>1, <2>1, <2>2, <2>3, <3>1, <3>2, <3>3
  <2>5. Given(c)' = Given(c)
    <3>1. Append(received[c], Head(events(s.queue))) \o Tail(events(s.queue))
            = received[c] \o events(s.queue)
      BY <1>1, <2>3, HeadMoves
    <3>2. QED
      BY <2>2, <2>3, <2>4, <3>1 DEF Given
  <2>6. /\ Len(Tail(s.queue)) = Len(s.queue) - 1
        /\ \A i \in 1..Len(Tail(s.queue)) : Tail(s.queue)[i] = s.queue[i + 1]
    BY <1>1, <2>1, HeadTailProperties
  <2>7. ASSUME NEW i \in 1..Len(t.queue), t.queue[i] = End
        PROVE  i = Len(t.queue) /\ closed /\ CaughtUp(c)
    <3>1. s.queue[i + 1] = End /\ i + 1 \in 1..Len(s.queue)
      BY <1>1, <2>2, <2>6, <2>7
    <3>2. QED
      BY <1>1, <2>2, <2>6, <3>1 DEF StreamIsSound
  <2>8. QED
    BY <1>1, <1>2, <2>1, <2>2, <2>5, <2>7 DEF StreamIsSound, Following, topic
<1>7. CASE StopIteration(c)
  <2>1. /\ t = finished([s EXCEPT !.queue = Tail(@)], "done") /\ s.queue # <<>>
        /\ Head(s.queue) = End /\ received'[c] = received[c]
    BY <1>7 DEF StopIteration, IInv, TypeOK
  <2>2. t.queue = Tail(s.queue) /\ t.backlog = s.backlog /\ t.at = "done" /\ ~t.subscribed
    BY <1>1, <2>1 DEF Stream, finished
  <2>3. Len(s.queue) = 1 /\ s.queue[1] = End
    <3>1. s.queue[1] = End /\ 1 \in 1..Len(s.queue)
      BY <1>1, <2>1
    <3>2. QED
      BY <1>1, <3>1 DEF StreamIsSound
  <2>4. events(s.queue) = <<>>
    BY <2>1, <2>3, SubSeqEmpty DEF events
  <2>5. Tail(s.queue) = <<>> /\ events(Tail(s.queue)) = <<>>
    BY <1>1, <2>1, <2>3 DEF events
  <2>6. Given(c)' = Given(c)
    BY <2>1, <2>2, <2>4, <2>5 DEF Given
  <2>7. \A i \in 1..Len(t.queue) : FALSE
    <3>1. Len(Tail(s.queue)) = 0
      BY <1>1, <2>1, <2>3, HeadTailProperties
    <3>2. Len(t.queue) = 0
      BY <2>2, <3>1
    <3>3. QED
      BY <3>2
  <2>8. StreamIsSound(c)'
    BY <2>2, <2>7 DEF StreamIsSound
  <2>9. QED
    BY <2>6, <2>8
<1>8. CASE Disconnect(c)
  <2>1. t = finished(s, "left") /\ received'[c] = received[c]
    BY <1>8 DEF Disconnect, IInv, TypeOK
  <2>2. t.queue = s.queue /\ t.backlog = s.backlog /\ t.at = "left" /\ ~t.subscribed
    BY <1>1, <2>1 DEF Stream, finished
  <2>3. Given(c)' = Given(c)
    BY <2>1, <2>2 DEF Given
  <2>4. QED
    BY <1>1, <1>2, <2>2, <2>3 DEF StreamIsSound, topic
<1>9. QED
  BY <1>4, <1>5, <1>6, <1>7, <1>8 DEF Iterate

\* An event published reaches the end of every stream that keeps its subscription,
\* and none is left without one with nothing to take.
LEMMA PublishKeeps ==
  ASSUME IInv, publish, ~closed, ~closed', published + 1 \in Event, received' = received,
         NEW c \in Clients
  PROVE  /\ IsStretch(c)' /\ StreamIsSound(c)'
         /\ stream'[c].at = stream[c].at /\ missed(c)' = missed(c)
<1> DEFINE s == stream[c]
           e == published + 1
<1>1. /\ s \in Stream /\ s.queue \in Seq(Event \cup {End}) /\ s.backlog \in Seq(Event)
      /\ received[c] \in Seq(Event) /\ Given(c) \in Seq(Event) /\ missed(c) \in Nat
      /\ published \in Nat /\ Len(Given(c)) \in Nat
  BY GivenType
<1>2. stream'[c] = put_event(s, e) /\ published' = e /\ received'[c] = received[c]
  BY DEF publish
<1>3. \A i \in 1..Len(s.queue) : s.queue[i] # End
  BY DEF IInv, StreamIsSound
<1>4. IsStretch(c) /\ StreamIsSound(c)
  BY DEF IInv
<1>5. CASE ~s.subscribed \/ Full(s)
  <2>1. /\ stream'[c].queue = s.queue /\ stream'[c].backlog = s.backlog
        /\ stream'[c].at = s.at /\ ~stream'[c].subscribed
    <3>1. CASE ~s.subscribed
      BY <1>2, <3>1 DEF put_event
    <3>2. CASE s.subscribed /\ Full(s)
      BY <1>1, <1>2, <3>2 DEF put_event, Stream
    <3>3. QED
      BY <1>5, <3>1, <3>2
  <2>2. Given(c)' = Given(c) /\ missed(c)' = missed(c)
    BY <1>2, <2>1 DEF Given, missed
  <2>3. IsStretch(c)'
    BY <1>1, <1>2, <1>4, <2>2 DEF IsStretch
  <2>4. s.at = "backlog" => s.queue # <<>>
    BY <1>1, <1>4, <1>5, BusAssumptions DEF StreamIsSound, Full
  <2>5. StreamIsSound(c)'
    BY <1>3, <1>4, <2>1, <2>4 DEF StreamIsSound
  <2>6. QED
    BY <2>1, <2>2, <2>3, <2>5
<1>6. CASE s.subscribed /\ ~Full(s)
  <2>1. /\ stream'[c].queue = Append(s.queue, e) /\ stream'[c].backlog = s.backlog
        /\ stream'[c].at = s.at /\ stream'[c].subscribed
    BY <1>1, <1>2, <1>6 DEF put_event, Stream
  <2>2. events(s.queue) = s.queue /\ events(Append(s.queue, e)) = Append(s.queue, e)
    BY <1>1, <1>3, EventsOfQueue
  <2>3. s.queue \in Seq(Event)
    BY <1>1, <2>2, GivenType
  <2>4. Given(c)' = Append(Given(c), e)
    <3>1. Given(c) = (received[c] \o s.backlog) \o s.queue
      BY <2>2 DEF Given
    <3>2. Given(c)' = (received[c] \o s.backlog) \o Append(s.queue, e)
      BY <1>2, <2>1, <2>2 DEF Given
    <3>3. received[c] \o s.backlog \in Seq(Event)
      BY <1>1
    <3>4. \A r \in Seq(Event), q \in Seq(Event) : r \o Append(q, e) = Append(r \o q, e)
      BY AppendMoves
    <3>5. QED
      BY <2>3, <3>1, <3>2, <3>3, <3>4
  <2>5. CaughtUp(c)
    BY <1>4, <1>6 DEF StreamIsSound
  <2>6. missed(c)' = missed(c)
    <3>1. CASE Given(c) = <<>>
      <4>1. missed(c) = 0 /\ e = 1
        BY <1>1, <2>5, <3>1 DEF missed, CaughtUp
      <4>2. Given(c)' # <<>> /\ Given(c)'[1] = e
        BY <1>1, <2>4, <3>1
      <4>3. QED
        BY <4>1, <4>2 DEF missed
    <3>2. CASE Given(c) # <<>>
      <4>1. Given(c)' # <<>> /\ Given(c)'[1] = Given(c)[1]
        BY <1>1, <2>4, <3>2
      <4>2. QED
        BY <3>2, <4>1 DEF missed
    <3>3. QED
      BY <3>1, <3>2
  <2>7. Len(Given(c)') = Len(Given(c)) + 1
    BY <1>1, <2>4
  <2>8. CaughtUp(c)'
    BY <1>1, <1>2, <2>5, <2>6, <2>7 DEF CaughtUp
  <2>9. IsStretch(c)'
    <3>1. ASSUME NEW i \in 1..(Len(Given(c)) + 1)
          PROVE  Given(c)'[i] = missed(c) + i
      <4>1. CASE i = Len(Given(c)) + 1
        BY <1>1, <2>4, <2>5, <4>1 DEF CaughtUp
      <4>2. CASE i <= Len(Given(c))
        BY <1>1, <1>4, <2>4, <4>2 DEF IsStretch
      <4>3. QED
        BY <1>1, <4>1, <4>2
    <3>2. QED
      BY <1>1, <1>2, <2>5, <2>6, <2>7, <3>1 DEF IsStretch, CaughtUp
  <2>10. \A i \in 1..Len(stream'[c].queue) : stream'[c].queue[i] # End
    BY <1>1, <1>3, <2>1 DEF End
  <2>11. Following(c)'
    BY <1>4, <1>6, <2>1 DEF StreamIsSound, Following
  <2>12. StreamIsSound(c)'
    BY <1>4, <2>1, <2>8, <2>10, <2>11 DEF StreamIsSound
  <2>13. QED
    BY <2>1, <2>6, <2>9, <2>12
<1>7. QED
  BY <1>5, <1>6

(***************************************************************************)
(* The invariant is inductive.                                             *)
(***************************************************************************)

\* No client has anything before the first step.
LEMMA InitSound == Init => IInv
<1> SUFFICES ASSUME Init PROVE IInv
  OBVIOUS
<1>1. TypeOK
  <2>1. NoStream \in Stream /\ Len(NoStream.queue) <= QueueMaxsize
    BY BusAssumptions DEF NoStream, Stream
  <2>2. replay \in Seq(Event) /\ Len(replay) <= ReplayLimit /\ <<>> \in Seq(Event)
    BY BusAssumptions DEF Init
  <2>3. log \in 0..MaxLog /\ published \in 0..log /\ restarts \in 0..MaxRestarts
    BY BusAssumptions DEF Init
  <2>4. QED
    BY <2>1, <2>2, <2>3 DEF Init, TypeOK
<1>2. ReplayIsRecent /\ ClosedIsLast
  BY BusAssumptions DEF Init, ReplayIsRecent, ClosedIsLast
<1>3. ASSUME NEW c \in Clients
      PROVE  IsStretch(c) /\ StreamIsSound(c)
  <2>1. stream[c] = NoStream /\ received[c] = <<>>
    BY DEF Init
  <2>2. QED
    BY <2>1, NothingGiven DEF Init
<1>4. QED
  BY <1>1, <1>2, <1>3 DEF IInv

\* A step that leaves the streams alone, and the topic, leaves the invariant.
LEMMA ElsewhereKeeps ==
  ASSUME IInv, TypeOK', UNCHANGED <<topic, clients>>, closed => task' = "done"
  PROVE  IInv'
<1>1. ReplayIsRecent' /\ ClosedIsLast'
  BY DEF IInv, ReplayIsRecent, ClosedIsLast, topic
<1>2. \A c \in Clients : IsStretch(c)' /\ StreamIsSound(c)'
  BY Unaffected DEF topic, clients
<1>3. QED
  BY <1>1, <1>2 DEF IInv

\* Every step keeps it.
LEMMA StepKeeps == IInv /\ [Next]_vars => IInv'
<1> SUFFICES ASSUME IInv, [Next]_vars PROVE IInv'
  OBVIOUS
<1>1. TypeOK'
  BY TypeIsKept DEF IInv
<1>2. CASE PublishLine \/ LimitBreach
  <2>1. /\ publish /\ ~closed /\ closed' = closed /\ received' = received
        /\ published' = published + 1 /\ published + 1 \in Event
    <3>1. /\ publish /\ ~closed /\ closed' = closed /\ received' = received
          /\ published' = published + 1
      BY <1>2 DEF PublishLine, LimitBreach, publish, IInv, ClosedIsLast
    <3>2. published + 1 \in Event
      BY <1>2, BusAssumptions DEF PublishLine, LimitBreach, IInv, TypeOK, Event
    <3>3. QED
      BY <3>1, <3>2
  <2>2. ReplayIsRecent'
    BY <2>1, RememberIsRecent DEF publish
  <2>3. \A c \in Clients : IsStretch(c)' /\ StreamIsSound(c)'
    BY <2>1, PublishKeeps
  <2>4. QED
    BY <1>1, <2>1, <2>2, <2>3 DEF IInv, ClosedIsLast
<1>3. CASE close
  <2>1. ReplayIsRecent' /\ ClosedIsLast'
    BY <1>3 DEF close, IInv, ReplayIsRecent, ClosedIsLast
  <2>2. QED
    BY <1>1, <1>3, <2>1, CloseKeeps DEF IInv
<1>4. CASE LoopRaises \/ Finish \/ FinishFails \/ WriteLog \/ Exit \/ Launch \/ LaunchFails
  <2>1. UNCHANGED <<topic, clients>> /\ (closed => task' = "done")
    BY <1>4 DEF LoopRaises, Finish, FinishFails, Over, WriteLog, Exit, Launch, LaunchFails,
                IInv, ClosedIsLast
  <2>2. QED
    BY <1>1, <2>1, ElsewhereKeeps
<1>5. ASSUME NEW c \in Clients, subscribe(c) \/ Iterate(c) \/ Disconnect(c)
      PROVE  IInv'
  <2>1. UNCHANGED <<task, topic>>
    BY <1>5 DEF subscribe, Iterate, YieldBacklog, GoLive, YieldLive, StopIteration, Disconnect
  <2>2. ReplayIsRecent' /\ ClosedIsLast'
    BY <2>1 DEF topic, IInv, ReplayIsRecent, ClosedIsLast
  <2>3. IsStretch(c)' /\ StreamIsSound(c)'
    BY <1>5, SubscribeKeeps, IterateKeeps
  <2>4. \A d \in Clients \ {c} : IsStretch(d)' /\ StreamIsSound(d)'
    BY <1>5, <2>1, OthersUntouched, Unaffected DEF topic
  <2>5. QED
    BY <1>1, <2>2, <2>3, <2>4 DEF IInv
<1>6. CASE Restart
  <2>1. ReplayIsRecent'
    <3>1. CASE Replayed
      <4>1. published' = log /\ replay' = Remembered(log) /\ log \in 0..MaxLog
        BY <3>1 DEF Replayed, IInv, TypeOK
      <4>2. QED
        BY <4>1, RememberedType DEF ReplayIsRecent
    <3>2. CASE PassedOver \/ Reattached
      <4>1. published' = 0 /\ replay' = <<>>
        BY <3>2 DEF PassedOver, Reattached
      <4>2. QED
        BY <4>1, BusAssumptions DEF ReplayIsRecent
    <3>3. QED
      BY <1>6, <3>1, <3>2 DEF Restart
  <2>2. ClosedIsLast'
    BY <1>6 DEF Restart, PassedOver, Reattached, Replayed, ClosedIsLast
  <2>3. ASSUME NEW c \in Clients
        PROVE  IsStretch(c)' /\ StreamIsSound(c)'
    <3>1. stream'[c] = NoStream /\ received'[c] = <<>>
      BY <1>6 DEF Restart
    <3>2. published' \in Nat
      BY <1>1, BusAssumptions DEF TypeOK
    <3>3. Given(c)' = <<>> /\ missed(c)' = 0
      BY <3>1 DEF Given, missed, events, NoStream
    <3>4. QED
      BY <3>1, <3>2, <3>3 DEF IsStretch, StreamIsSound, NoStream
  <2>4. QED
    BY <1>1, <2>1, <2>2, <2>3 DEF IInv
<1>7. CASE UNCHANGED vars
  BY <1>1, <1>7, ElsewhereKeeps DEF vars, IInv, ClosedIsLast
<1>8. QED
  BY <1>2, <1>3, <1>4, <1>5, <1>6, <1>7 DEF Next, Supervisor

\* The bus's data are what their names say, a client's events are one stretch of
\* the run's, and a subscriber's reach to the last one published.
THEOREM Inductive == Spec => []IInv
<1>1. Init => IInv
  BY InitSound
<1>2. IInv /\ [Next]_vars => IInv'
  BY StepKeeps
<1>3. QED
  BY <1>1, <1>2, PTL DEF Spec

\* Buffer and queues stay within REPLAY_LIMIT and QUEUE_MAXSIZE, whoever follows.
THEOREM TypeCorrect == Spec => []TypeOK
<1>1. IInv => TypeOK
  BY DEF IInv
<1>2. QED
  BY <1>1, Inductive, PTL

(***************************************************************************)
(* The bus implements the feed.                                            *)
(***************************************************************************)

\* Where the feed sees a client, and where its stretch starts.
place == [c \in Clients |-> IF Following(c) THEN "following" ELSE stream[c].at]
begins == [c \in Clients |-> missed(c)]

\* A client's own step changes nothing of the other clients, as the feed sees them.
LEMMA FeedOthers ==
  ASSUME IInv, NEW c \in Clients, subscribe(c) \/ Iterate(c) \/ Disconnect(c)
  PROVE  /\ place' = [place EXCEPT ![c] = IF Following(c)' THEN "following" ELSE stream'[c].at]
         /\ begins' = [begins EXCEPT ![c] = missed(c)']
<1>1. ASSUME NEW d \in Clients \ {c}
      PROVE  place'[d] = place[d] /\ begins'[d] = begins[d]
  <2>1. stream'[d] = stream[d] /\ received'[d] = received[d]
    BY OthersUntouched
  <2>2. Given(d)' = Given(d)
    BY <2>1 DEF Given
  <2>3. QED
    BY <2>1, <2>2 DEF place, begins, missed, Following
<1>2. QED
  BY <1>1 DEF place, begins

\* The next event of a stream is the one after the last the client was given.
LEMMA NextIsDue ==
  ASSUME IInv, NEW c \in Clients, NEW rest \in Seq(Event), rest # <<>>,
         Given(c) = received[c] \o rest
  PROVE  /\ Head(rest) = missed(c) + Len(received[c]) + 1
         /\ missed(c) + Len(received[c]) + 1 <= published
<1>1. /\ received[c] \in Seq(Event) /\ missed(c) \in Nat /\ published \in Nat
      /\ IsStretch(c) /\ Len(received[c]) \in Nat /\ Len(rest) \in Nat \ {0}
  BY GivenType DEF IInv
<1>2. Len(Given(c)) = Len(received[c]) + Len(rest)
  BY <1>1
<1>3. Len(received[c]) + 1 \in 1..Len(Given(c))
  BY <1>1, <1>2
<1>4. Given(c)[Len(received[c]) + 1] = rest[1]
  BY <1>1, <1>3
<1>5. rest[1] = Head(rest)
  OBVIOUS
<1>6. Given(c)[Len(received[c]) + 1] = missed(c) + (Len(received[c]) + 1)
  BY <1>1, <1>3 DEF IsStretch
<1>7. missed(c) + Len(Given(c)) <= published
  BY <1>1 DEF IsStretch
<1>8. QED
  BY <1>1, <1>2, <1>4, <1>5, <1>6, <1>7

\* A client with nothing to come has everything that was published, if it is caught up.
LEMMA NothingIsDue ==
  ASSUME IInv, NEW c \in Clients, Given(c) = received[c], CaughtUp(c)
  PROVE  missed(c) + Len(received[c]) + 1 > published
BY GivenType DEF CaughtUp

\* A step of a client's iterator delivers the next event, or ends the stream of a
\* client that has all of them, or is none of the feed's.
LEMMA IterateIsFeedStep ==
  ASSUME IInv, NEW c \in Clients, Iterate(c)
  PROVE  Feed!Deliver(c) \/ Feed!End(c) \/ UNCHANGED Feed!vars
<1> DEFINE s == stream[c]
           t == stream'[c]
<1>1. /\ s \in Stream /\ s.queue \in Seq(Event \cup {End}) /\ s.backlog \in Seq(Event)
      /\ received[c] \in Seq(Event) /\ events(s.queue) \in Seq(Event)
      /\ IsStretch(c) /\ StreamIsSound(c)
  BY GivenType DEF IInv
<1>2. UNCHANGED topic /\ published' = published /\ closed' = closed
  BY DEF Iterate, YieldBacklog, GoLive, YieldLive, StopIteration, topic
<1>3. Given(c)' = Given(c) /\ missed(c)' = missed(c)
  BY IterateKeeps DEF missed
<1>4. begins' = begins
  <2>1. begins' = [begins EXCEPT ![c] = missed(c)]
    BY <1>3, FeedOthers
  <2>2. QED
    BY <2>1 DEF begins
<1>5. place' = [place EXCEPT ![c] = IF Following(c)' THEN "following" ELSE stream'[c].at]
  BY FeedOthers
<1>6. place[c] = "following"
  BY DEF Iterate, YieldBacklog, GoLive, YieldLive, StopIteration, place, Following
<1>7. ASSUME NEW rest \in Seq(Event), rest # <<>>, Given(c) = received[c] \o rest,
             received' = [received EXCEPT ![c] = Append(@, Head(rest))], t.at = s.at
      PROVE  Feed!Deliver(c)
  <2>1. /\ Head(rest) = missed(c) + Len(received[c]) + 1
        /\ missed(c) + Len(received[c]) + 1 <= published
    BY <1>7, NextIsDue
  <2>2. place' = place
    BY <1>5, <1>6, <1>7 DEF place, Following
  <2>3. begins[c] = missed(c)
    BY DEF begins
  <2>4. QED
    BY <1>2, <1>4, <1>6, <1>7, <2>1, <2>2, <2>3 DEF Feed!Deliver, Feed!next, place, begins
<1>8. ASSUME t.at = "done", received' = received, closed, Given(c) = received[c], CaughtUp(c)
      PROVE  Feed!End(c)
  <2>1. missed(c) + Len(received[c]) + 1 > published
    BY <1>8, NothingIsDue
  <2>2. place' = [place EXCEPT ![c] = "done"]
    BY <1>5, <1>8 DEF Following
  <2>3. begins[c] = missed(c)
    BY DEF begins
  <2>4. QED
    BY <1>2, <1>4, <1>6, <1>8, <2>1, <2>2, <2>3 DEF Feed!End, Feed!next, place, begins
<1>9. CASE YieldBacklog(c)
  <2>1. /\ t = [s EXCEPT !.backlog = Tail(@)] /\ s.backlog # <<>>
        /\ received' = [received EXCEPT ![c] = Append(@, Head(s.backlog))]
    BY <1>9 DEF YieldBacklog, IInv, TypeOK
  <2>2. t.at = s.at
    BY <1>1, <2>1 DEF Stream
  <2>3. s.backlog \o events(s.queue) \in Seq(Event) /\ s.backlog \o events(s.queue) # <<>>
        /\ Head(s.backlog \o events(s.queue)) = Head(s.backlog)
    <3>1. ASSUME NEW b \in Seq(Event), NEW q \in Seq(Event), b # <<>>
          PROVE  b \o q \in Seq(Event) /\ b \o q # <<>> /\ Head(b \o q) = Head(b)
      <4>1. Len(b) \in Nat \ {0} /\ Len(q) \in Nat
        BY <3>1
      <4>2. b \o q \in Seq(Event) /\ Len(b \o q) = Len(b) + Len(q) /\ (b \o q)[1] = b[1]
        BY <4>1
      <4>3. QED
        BY <3>1, <4>1, <4>2
    <3>2. QED
      BY <1>1, <2>1, <3>1
  <2>4. Given(c) = received[c] \o (s.backlog \o events(s.queue))
    <3>1. \A a \in Seq(Event), b \in Seq(Event), q \in Seq(Event) : (a \o b) \o q = a \o (b \o q)
      BY ConcatAssociative
    <3>2. QED
      BY <1>1, <3>1 DEF Given
  <2>5. QED
    BY <1>7, <2>1, <2>2, <2>3, <2>4
<1>10. CASE YieldLive(c)
  <2>1. /\ t = [s EXCEPT !.queue = Tail(@)] /\ s.queue # <<>> /\ Head(s.queue) # End
        /\ received' = [received EXCEPT ![c] = Append(@, Head(s.queue))] /\ s.at = "live"
    BY <1>10 DEF YieldLive, IInv, TypeOK
  <2>2. t.at = s.at
    BY <1>1, <2>1 DEF Stream
  <2>3. events(s.queue) # <<>> /\ Head(events(s.queue)) = Head(s.queue)
    BY <1>1, <2>1, EventsOfTail DEF StreamIsSound
  <2>4. Given(c) = received[c] \o events(s.queue)
    BY <1>1, <2>1, ConcatEmptySeq DEF StreamIsSound, Given
  <2>5. QED
    BY <1>1, <1>7, <2>1, <2>2, <2>3, <2>4
<1>11. CASE GoLive(c)
  <2>1. /\ s.at = "backlog" /\ s.backlog = <<>> /\ received' = received
        /\ t = IF closed /\ s.queue = <<>> THEN finished(s, "done") ELSE [s EXCEPT !.at = "live"]
    BY <1>11 DEF GoLive, IInv, TypeOK
  <2>2. CASE closed /\ s.queue = <<>>
    <3>1. t.at = "done"
      BY <1>1, <2>1, <2>2 DEF Stream, finished
    <3>2. CaughtUp(c)
      BY <1>1, <2>1, <2>2 DEF StreamIsSound
    <3>3. Given(c) = received[c]
      <4>1. events(s.queue) = <<>>
        BY <2>2 DEF events
      <4>2. \A r \in Seq(Event) : r \o <<>> = r
        BY ConcatEmptySeq
      <4>3. QED
        BY <1>1, <2>1, <4>1, <4>2 DEF Given
    <3>4. QED
      BY <1>8, <2>1, <2>2, <3>1, <3>2, <3>3
  <2>3. CASE ~(closed /\ s.queue = <<>>)
    <3>1. t.at = "live"
      BY <1>1, <2>1, <2>3 DEF Stream
    <3>2. place' = place
      BY <1>5, <1>6, <3>1 DEF place, Following
    <3>3. QED
      BY <1>2, <1>4, <2>1, <3>2 DEF Feed!vars, place, begins
  <2>4. QED
    BY <2>2, <2>3
<1>12. CASE StopIteration(c)
  <2>1. /\ t = finished([s EXCEPT !.queue = Tail(@)], "done") /\ s.queue # <<>>
        /\ Head(s.queue) = End /\ received' = received /\ s.at = "live"
    BY <1>12 DEF StopIteration, IInv, TypeOK
  <2>2. t.at = "done"
    BY <1>1, <2>1 DEF Stream, finished
  <2>3. s.queue[1] = End /\ 1 \in 1..Len(s.queue)
    BY <1>1, <2>1
  <2>4. Len(s.queue) = 1 /\ closed /\ CaughtUp(c)
    BY <1>1, <2>3 DEF StreamIsSound
  <2>5. Given(c) = received[c]
    <3>1. events(s.queue) = <<>>
      BY <2>1, <2>3, <2>4, SubSeqEmpty DEF events
    <3>2. s.backlog = <<>>
      BY <1>1, <2>1 DEF StreamIsSound
    <3>3. \A r \in Seq(Event) : r \o <<>> = r
      BY ConcatEmptySeq
    <3>4. QED
      BY <1>1, <3>1, <3>2, <3>3 DEF Given
  <2>6. QED
    BY <1>8, <2>1, <2>2, <2>4, <2>5
<1>13. QED
  BY <1>9, <1>10, <1>11, <1>12 DEF Iterate

\* A publication is one of the feed, whoever is dropped at it.
LEMMA PublishIsFeedStep ==
  ASSUME IInv, IInv', PublishLine \/ LimitBreach
  PROVE  Feed!Publish
<1>1. publish /\ ~closed /\ closed' = closed /\ received' = received /\ published' = published + 1
  BY DEF PublishLine, LimitBreach, publish, IInv, ClosedIsLast
<1>2. ASSUME NEW c \in Clients
      PROVE  stream'[c].at = stream[c].at /\ missed(c)' = missed(c)
  <2>1. published + 1 \in Event
    BY <1>1, BusAssumptions DEF PublishLine, LimitBreach, IInv, TypeOK, Event
  <2>2. QED
    BY <1>1, <2>1, PublishKeeps
<1>3. place' = place /\ begins' = begins
  BY <1>2 DEF place, begins, Following
<1>4. QED
  BY <1>1, <1>3 DEF Feed!Publish, place, begins

\* Every step of the bus is a step of the feed, or none.
LEMMA StepIsFeedStep == IInv /\ IInv' /\ [Next]_vars => [Feed!Next]_Feed!vars
<1> SUFFICES ASSUME IInv, IInv', [Next]_vars PROVE [Feed!Next]_Feed!vars
  OBVIOUS
<1>1. CASE PublishLine \/ LimitBreach
  BY <1>1, PublishIsFeedStep DEF Feed!Next
<1>2. CASE close
  <2>1. closed' /\ published' = published /\ received' = received
    BY <1>2 DEF close
  <2>2. ASSUME NEW c \in Clients
        PROVE  stream'[c].at = stream[c].at /\ missed(c)' = missed(c)
    BY <1>2, CloseKeeps
  <2>3. place' = place /\ begins' = begins
    BY <2>2 DEF place, begins, Following
  <2>4. Feed!Close
    BY <2>1, <2>3 DEF Feed!Close, place, begins
  <2>5. QED
    BY <2>4 DEF Feed!Next
<1>3. CASE \/ LoopRaises \/ Finish \/ FinishFails \/ WriteLog \/ Exit
            \/ Launch \/ LaunchFails \/ UNCHANGED vars
  <2>1. UNCHANGED <<topic, clients>>
    BY <1>3 DEF LoopRaises, Finish, FinishFails, WriteLog, Exit, Launch, LaunchFails, vars
  <2>2. UNCHANGED <<published, closed, received, stream>>
    BY <2>1 DEF topic, clients
  <2>3. place' = place /\ begins' = begins
    BY <2>2 DEF place, begins, Following, missed, Given
  <2>4. UNCHANGED Feed!vars
    BY <2>2, <2>3 DEF Feed!vars, place, begins
  <2>5. QED
    BY <2>4
<1>4. ASSUME NEW c \in Clients, subscribe(c)
      PROVE  Feed!Subscribe(c)
  <2>1. published' = published /\ closed' = closed /\ Following(c)' /\ ~Following(c)
        /\ received' = [received EXCEPT ![c] = <<>>]
    BY <1>4 DEF subscribe, topic, Following, IInv, TypeOK
  <2>2. missed(c)' = IF published < ReplayLimit THEN 0 ELSE published - ReplayLimit
    BY <1>4, SubscribeKeeps
  <2>3. place' = [place EXCEPT ![c] = "following"] /\ begins' = [begins EXCEPT ![c] = missed(c)']
    BY <1>4, <2>1, FeedOthers
  <2>4. place[c] # "following"
    BY <2>1 DEF place, Following, IInv, TypeOK, Stream
  <2>5. QED
    BY <2>1, <2>2, <2>3, <2>4 DEF Feed!Subscribe, place, begins
<1>5. ASSUME NEW c \in Clients, Disconnect(c)
      PROVE  Feed!Leave(c)
  <2>1. published' = published /\ closed' = closed /\ Following(c)
        /\ received' = received /\ stream'[c] = finished(stream[c], "left")
    BY <1>5 DEF Disconnect, topic, IInv, TypeOK
  <2>2. stream'[c].at = "left"
    BY <2>1 DEF finished, IInv, TypeOK, Stream
  <2>3. missed(c)' = missed(c)
    BY <1>5, IterateKeeps DEF missed
  <2>4. place' = [place EXCEPT ![c] = "left"] /\ begins' = [begins EXCEPT ![c] = missed(c)]
    BY <1>5, <2>2, <2>3, FeedOthers DEF Following
  <2>5. begins' = begins /\ place[c] = "following"
    BY <2>1, <2>4 DEF begins, place
  <2>6. QED
    BY <2>1, <2>4, <2>5 DEF Feed!Leave, place, begins
<1>6. CASE Restart
  <2>1. /\ published' \in Nat /\ closed' \in BOOLEAN
        /\ received' = [c \in Clients |-> <<>>]
    BY <1>6, BusAssumptions DEF Restart, PassedOver, Reattached, Replayed, IInv, TypeOK
  <2>2. ASSUME NEW c \in Clients
        PROVE  stream'[c] = NoStream /\ missed(c)' = 0
    <3>1. stream'[c] = NoStream /\ received'[c] = <<>>
      BY <1>6 DEF Restart
    <3>2. QED
      BY <3>1 DEF Given, missed, events, NoStream
  <2>3. place' = [c \in Clients |-> "none"] /\ begins' = [c \in Clients |-> 0]
    BY <2>2 DEF place, begins, Following, NoStream
  <2>4. Feed!Restart
    BY <2>1, <2>3 DEF Feed!Restart, place, begins
  <2>5. QED
    BY <2>4 DEF Feed!Next
<1>7. ASSUME NEW c \in Clients, subscribe(c) \/ Iterate(c) \/ Disconnect(c)
      PROVE  [Feed!Next]_Feed!vars
  BY <1>4, <1>5, <1>7, IterateIsFeedStep DEF Feed!Next
<1>8. QED
  BY <1>1, <1>2, <1>3, <1>6, <1>7 DEF Next, Supervisor

\* Nobody has anything of the feed before the first step.
LEMMA InitIsFeedInit == Init => Feed!Init
<1> SUFFICES ASSUME Init PROVE Feed!Init
  OBVIOUS
<1>1. ASSUME NEW c \in Clients
      PROVE  stream[c] = NoStream /\ missed(c) = 0
  BY NothingGiven DEF Init
<1>2. place = [c \in Clients |-> "none"] /\ begins = [c \in Clients |-> 0]
  BY <1>1 DEF place, begins, Following, NoStream
<1>3. QED
  BY <1>2 DEF Init, Feed!Init, place, begins

\* "Snapshot the replay buffer before subscribing so no event is missed or
\* duplicated" (subscribe), for every number of clients, size of buffer and queue,
\* and length of run: what a client is given is the run's output without a hole or a
\* repetition, and a stream that ends had all of it.
THEOREM ImplementsFeed == Spec => FeedPromise
<1>1. Init => Feed!Init
  BY InitIsFeedInit
<1>2. IInv /\ IInv' /\ [Next]_vars => [Feed!Next]_Feed!vars
  BY StepIsFeedStep
<1>3. QED
  BY <1>1, <1>2, Inductive, PTL DEF Spec, FeedPromise, Feed!Spec
===============================================================================
