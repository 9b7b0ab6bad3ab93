--------------------------- MODULE WikiReview_proofs ---------------------------
(***************************************************************************)
(* Theorems of WikiReview, for any pages, artifacts, requests and bounds.  *)
(* A proposal reads approved only if a task of its own was run, because    *)
(* the task that holds a request's future carries the proposal the request *)
(* asked about; a write leaves the review queue only by a review that had  *)
(* loaded it, because what a review loaded stays of its page; and the      *)
(* tables are as large as the ingests make them, because no page is        *)
(* adopted twice.                                                          *)
(***************************************************************************)
EXTENDS WikiReview, TLAPS, FiniteSetTheorems, SequenceTheorems

(***************************************************************************)
(* The inductive invariant.                                                *)
(***************************************************************************)

ingests_in(q) == {n \in DOMAIN q : q[n].kind = "ingest"}

\* The ingests that are over, whatever became of them.
over == ingests - Cardinality(ingests_in(queue))

\* Every agent of it lists every page.
of_one_ingest == Artifacts * Cardinality(Pages)

\* The rows of ingests that are over, and of one that has recorded its own.
recorded_at_most ==
  over * of_one_ingest + (IF step = "propose" THEN Len(listed) ELSE 0)

RequestsAreShaped == \A d \in Requests : At(d, "idle") => request[d] = Idle

\* A future is held by a request that waits for it, of one task, about its proposal.
FuturesAreHeld ==
  /\ \A n \in DOMAIN queue : queue[n].for # NoOne =>
       /\ At(queue[n].for, "await")
       /\ queue[n].proposal = request[queue[n].for].proposal
  /\ \A m, n \in DOMAIN queue :
       queue[m].for = queue[n].for /\ queue[m].for # NoOne => m = n

AnsweredWasRun ==
  \A d \in Requests : At(d, "answered") => request[d].proposal \in completed \cup {NoProposal}

\* What a review loaded stays in the table, and of its page.
SeenIsOfPage ==
  \A d \in Requests : At(d, "commit") =>
    \A i \in request[d].seen : i \in DOMAIN rows /\ rows[i].page = request[d].page

ConsumerIsShaped ==
  /\ step # "idle" => queue # <<>>
  /\ step \in {"record", "propose"} => running.kind = "ingest"
  /\ Len(listed) <= agents * Cardinality(Pages)

ProposalsAreCounted == Len(proposals) <= over

\* No page is adopted twice, nor while a command still has it as unknown.
RowsAreCounted ==
  \E adopted \in SUBSET known :
    /\ adopted \cap command.unknown = {}
    /\ Len(rows) <= recorded_at_most + Cardinality(adopted)

IInv ==
  /\ TypeOK
  /\ RequestsAreShaped /\ FuturesAreHeld /\ AnsweredWasRun /\ SeenIsOfPage
  /\ ConsumerIsShaped /\ ProposalsAreCounted /\ RowsAreCounted
  /\ ApprovedWasRun

(***************************************************************************)
(* The tasks of the queue, counted.                                        *)
(***************************************************************************)

\* A queue holds so many ingests.
LEMMA CountType ==
  ASSUME NEW q \in Seq(Task)
  PROVE  IsFiniteSet(ingests_in(q)) /\ Cardinality(ingests_in(q)) \in Nat
<1>1. IsFiniteSet(1..Len(q))
  BY FS_Interval
<1>2. ingests_in(q) \in SUBSET (1..Len(q))
  BY DEF ingests_in
<1>3. QED
  BY <1>1, <1>2, FS_Subset, FS_CardinalityType

\* A task enqueued counts if it is an ingest.
LEMMA CountOfAppend ==
  ASSUME NEW q \in Seq(Task), NEW t \in Task
  PROVE  Cardinality(ingests_in(Append(q, t)))
           = Cardinality(ingests_in(q)) + (IF t.kind = "ingest" THEN 1 ELSE 0)
<1> DEFINE n == Len(q) + 1
<1>1. n \notin ingests_in(q) /\ n \in Nat
  BY DEF ingests_in
<1>2. DOMAIN Append(q, t) = 1..n /\ DOMAIN q = 1..Len(q)
  OBVIOUS
<1>3. \A i \in 1..Len(q) : Append(q, t)[i] = q[i]
  OBVIOUS
<1>4. Append(q, t)[n] = t
  OBVIOUS
<1>5. ingests_in(Append(q, t)) = ingests_in(q) \cup (IF t.kind = "ingest" THEN {n} ELSE {})
  BY <1>2, <1>3, <1>4 DEF ingests_in
<1>6. CASE t.kind = "ingest"
  BY <1>1, <1>5, <1>6, CountType, FS_AddElement
<1>7. CASE t.kind # "ingest"
  BY <1>5, <1>7, CountType
<1>8. QED
  BY <1>6, <1>7

\* So does the one that is taken from the queue.
LEMMA CountOfTail ==
  ASSUME NEW q \in Seq(Task), q # <<>>
  PROVE  Cardinality(ingests_in(Tail(q)))
           = Cardinality(ingests_in(q)) - (IF Head(q).kind = "ingest" THEN 1 ELSE 0)
<1> DEFINE S == ingests_in(q) \ {1}
           T == ingests_in(Tail(q))
           f == [n \in S |-> n - 1]
<1>1. /\ Tail(q) \in Seq(Task) /\ Len(Tail(q)) = Len(q) - 1 /\ Len(q) \in Nat \ {0}
      /\ \A i \in 1..(Len(q) - 1) : Tail(q)[i] = q[i + 1]
  BY HeadTailProperties
<1>2. DOMAIN q = 1..Len(q) /\ DOMAIN Tail(q) = 1..(Len(q) - 1)
  BY <1>1
<1>3. S = {n \in 2..Len(q) : q[n].kind = "ingest"}
  BY <1>1, <1>2 DEF ingests_in
<1>4. T = {n \in 1..(Len(q) - 1) : q[n + 1].kind = "ingest"}
  BY <1>1, <1>2 DEF ingests_in
<1>5. f \in [S -> T]
  BY <1>1, <1>3, <1>4
<1>6. \A a, b \in S : f[a] = f[b] => a = b
  BY <1>1, <1>3
<1>7. \A t \in T : \E n \in S : f[n] = t
  <2>1. ASSUME NEW t \in T
        PROVE  t + 1 \in S /\ f[t + 1] = t
    <3>1. t \in 1..(Len(q) - 1) /\ q[t + 1].kind = "ingest"
      BY <1>4
    <3>2. t + 1 \in S
      BY <1>1, <1>3, <3>1
    <3>3. (t + 1) - 1 = t
      BY <3>1
    <3>4. QED
      BY <3>2, <3>3
  <2>2. QED
    BY <2>1
<1>8. ExistsBijection(S, T)
  <2> HIDE DEF f, S, T
  <2>1. f \in Bijection(S, T)
    BY <1>5, <1>6, <1>7 DEF Bijection, Injection, Surjection, IsInjective
  <2>2. QED
    BY <2>1 DEF ExistsBijection
<1>9. IsFiniteSet(S) /\ Cardinality(S)
        = IF 1 \in ingests_in(q) THEN Cardinality(ingests_in(q)) - 1 ELSE Cardinality(ingests_in(q))
  BY CountType, FS_RemoveElement
<1>10. Cardinality(T) = Cardinality(S)
  <2> HIDE DEF S, T
  <2>1. QED
    BY <1>8, <1>9, FS_Bijection
<1>11. 1 \in ingests_in(q) <=> Head(q).kind = "ingest"
  BY <1>1, <1>2 DEF ingests_in
<1>12. QED
  BY <1>9, <1>10, <1>11, CountType

\* An ingest at the head is one of them.
LEMMA CountOfHead ==
  ASSUME NEW q \in Seq(Task), q # <<>>, Head(q).kind = "ingest"
  PROVE  Cardinality(ingests_in(q)) >= 1
<1>1. Tail(q) \in Seq(Task)
  OBVIOUS
<1>2. Cardinality(ingests_in(Tail(q))) \in Nat /\ Cardinality(ingests_in(q)) \in Nat
  BY <1>1, CountType
<1>3. QED
  BY <1>2, CountOfTail

\* A product grows with its factor.
LEMMA Times ==
  ASSUME NEW a \in Nat, NEW b \in Nat, NEW k \in Nat
  PROVE  a * k \in Nat /\ (a + 1) * k = a * k + k /\ (a <= b => a * k <= b * k)
OBVIOUS

\* A function on 1..n is a sequence.
LEMMA FunctionIsSeq ==
  ASSUME NEW S, NEW n \in Nat, NEW f \in [1..n -> S]
  PROVE  f \in Seq(S) /\ Len(f) = n
OBVIOUS

\* Rows added to a table leave those it has.
LEMMA Added ==
  ASSUME NEW S, NEW a \in Seq(S), NEW b \in Seq(S)
  PROVE  /\ a \o b \in Seq(S) /\ Len(a \o b) = Len(a) + Len(b)
         /\ \A i \in DOMAIN a : i \in DOMAIN (a \o b) /\ (a \o b)[i] = a[i]
         /\ \A i \in 1..Len(b) : Len(a) + i \in DOMAIN (a \o b) /\ (a \o b)[Len(a) + i] = b[i]
OBVIOUS

\* The pages are so many, and so are the ones an agent lists.
LEMMA ListOfPages ==
  /\ Cardinality(Pages) \in Nat
  /\ \A pages \in SUBSET Pages :
       /\ IsFiniteSet(pages) /\ Cardinality(pages) \in Nat
       /\ Cardinality(pages) <= Cardinality(Pages)
       /\ SetToSeq(pages) \in Seq(pages) /\ Len(SetToSeq(pages)) = Cardinality(pages)
       /\ \A p \in pages : \E i \in 1..Cardinality(pages) : SetToSeq(pages)[i] = p
<1>1. Cardinality(Pages) \in Nat
  BY WikiAssumptions, FS_CardinalityType
<1>2. ASSUME NEW pages \in SUBSET Pages
      PROVE  /\ IsFiniteSet(pages) /\ Cardinality(pages) \in Nat
             /\ Cardinality(pages) <= Cardinality(Pages)
             /\ SetToSeq(pages) \in Seq(pages) /\ Len(SetToSeq(pages)) = Cardinality(pages)
             /\ \A p \in pages : \E i \in 1..Cardinality(pages) : SetToSeq(pages)[i] = p
  <2>1. /\ IsFiniteSet(pages) /\ Cardinality(pages) <= Cardinality(Pages)
        /\ Cardinality(pages) \in Nat /\ ExistsBijection(1..Cardinality(pages), pages)
    BY WikiAssumptions, FS_Subset, FS_CardinalityType
  <2> DEFINE n == Cardinality(pages)
  <2>2. PICK f \in Bijection(1..n, pages) : TRUE
    BY <2>1 DEF ExistsBijection
  <2>3. f \in [1..n -> pages] /\ IsInjective(f)
    BY <2>2 DEF Bijection, Injection
  <2>4. SetToSeq(pages) \in [1..n -> pages] /\ IsInjective(SetToSeq(pages))
    BY <2>3 DEF SetToSeq
  <2> DEFINE g == SetToSeq(pages)
  <2>5. g \in Injection(1..n, pages)
    BY <2>4 DEF Injection
  <2>6. IsFiniteSet(1..n) /\ Cardinality(1..n) = n
    BY <2>1, FS_Interval
  <2>7. g \in Surjection(1..n, pages)
    <3> HIDE DEF n, g
    <3>1. n = Cardinality(pages)
      BY DEF n
    <3>2. QED
      BY <2>1, <2>5, <2>6, <3>1, FS_Injection
  <2>8. \A p \in pages : \E i \in 1..n : g[i] = p
    BY <2>7 DEF Surjection
  <2>9. QED
    BY <2>1, <2>4, <2>8
<1>3. QED
  BY <1>1, <1>2

\* How large the queue and the tables are at most.
LEMMA Sizes ==
  ASSUME IInv
  PROVE  /\ ingests \in Nat /\ ingests <= MaxIngests /\ over \in Nat /\ over <= ingests
         /\ Cardinality(ingests_in(queue)) \in Nat /\ Cardinality(Pages) \in Nat
         /\ of_one_ingest \in Nat /\ over * of_one_ingest \in Nat
         /\ Len(listed) \in Nat /\ Len(listed) <= of_one_ingest
         /\ recorded_at_most \in Nat
         /\ MaxRows = MaxIngests * of_one_ingest + Cardinality(Pages)
         /\ DOMAIN proposals \subseteq Proposal
         /\ queue # <<>> /\ running.kind = "ingest" => over + 1 <= ingests
<1>1. ingests \in Nat /\ ingests <= MaxIngests /\ MaxIngests \in Nat
  BY WikiAssumptions DEF IInv, TypeOK
<1>2. Cardinality(ingests_in(queue)) \in Nat
  BY CountType DEF IInv, TypeOK
<1>3. Len(proposals) \in Nat /\ DOMAIN proposals = 1..Len(proposals)
  BY DEF IInv, TypeOK
<1>4. over \in Nat /\ over <= ingests
  BY <1>1, <1>2, <1>3 DEF over, IInv, ProposalsAreCounted
<1>5. Cardinality(Pages) \in Nat /\ Artifacts \in Nat /\ agents \in Nat /\ agents <= Artifacts
  BY WikiAssumptions, ListOfPages DEF IInv, TypeOK
<1>6. of_one_ingest \in Nat /\ over * of_one_ingest \in Nat
  BY <1>4, <1>5, Times DEF of_one_ingest
<1>7. Len(listed) \in Nat /\ Len(listed) <= of_one_ingest
  <2>1. agents * Cardinality(Pages) <= of_one_ingest /\ agents * Cardinality(Pages) \in Nat
    BY <1>5, Times DEF of_one_ingest
  <2>2. Len(listed) \in Nat /\ Len(listed) <= agents * Cardinality(Pages)
    BY DEF IInv, TypeOK, ConsumerIsShaped
  <2>3. QED
    BY <1>6, <2>1, <2>2
<1>8. MaxRows = MaxIngests * of_one_ingest + Cardinality(Pages)
  <2> DEFINE n == Cardinality(Pages)
  <2>1. n \in Nat
    BY <1>5
  <2> HIDE DEF n
  <2>2. (MaxIngests * Artifacts + 1) * n = MaxIngests * (Artifacts * n) + n
    BY <1>1, <1>5, <2>1
  <2>3. QED
    BY <2>2 DEF MaxRows, of_one_ingest, n
<1>9. DOMAIN proposals \subseteq Proposal
  BY <1>1, <1>3, <1>4 DEF Proposal, IInv, ProposalsAreCounted
<1>10. queue # <<>> /\ running.kind = "ingest" => over + 1 <= ingests
  BY <1>1, <1>2, CountOfHead DEF over, running, IInv, TypeOK
<1>11. recorded_at_most \in Nat
  <2>1. CASE step = "propose"
    BY <1>6, <1>7, <2>1 DEF recorded_at_most
  <2>2. CASE step # "propose"
    BY <1>6, <2>2 DEF recorded_at_most
  <2>3. QED
    BY <2>1, <2>2
<1>12. QED
  BY <1>1, <1>2, <1>4, <1>5, <1>6, <1>7, <1>8, <1>9, <1>10, <1>11

\* The tables have room for what an ingest that is not over may record, and for
\* every page once.
LEMMA RoomForRows ==
  ASSUME IInv, step # "idle", running.kind = "ingest"
  PROVE  over * of_one_ingest + Len(listed) + Cardinality(Pages) <= MaxRows
<1>1. over + 1 <= MaxIngests /\ over \in Nat /\ MaxIngests \in Nat /\ of_one_ingest \in Nat
  BY Sizes, WikiAssumptions DEF IInv, ConsumerIsShaped
<1>2. (over + 1) * of_one_ingest <= MaxIngests * of_one_ingest
      /\ (over + 1) * of_one_ingest = over * of_one_ingest + of_one_ingest
      /\ MaxIngests * of_one_ingest \in Nat
  BY <1>1, Times
<1>3. QED
  BY <1>1, <1>2, Sizes

\* Whatever the consumer does, they have room for every page once.
LEMMA RoomForPages ==
  ASSUME IInv
  PROVE  recorded_at_most + Cardinality(Pages) <= MaxRows
<1>1. CASE step = "propose"
  BY <1>1, RoomForRows DEF recorded_at_most, IInv, ConsumerIsShaped
<1>2. CASE step # "propose"
  <2>1. over * of_one_ingest <= MaxIngests * of_one_ingest /\ MaxIngests * of_one_ingest \in Nat
    BY Sizes, Times, WikiAssumptions
  <2>2. QED
    BY <1>2, <2>1, Sizes DEF recorded_at_most
<1>3. QED
  BY <1>1, <1>2

\* Rows that are neither added nor moved stay within their bound, while no page
\* becomes unknown to a command.
LEMMA RowsStay ==
  ASSUME IInv, rows' \in Seq(Row), Len(rows') = Len(rows),
         \A i \in 1..Len(rows) : rows'[i].page = rows[i].page,
         command'.unknown \subseteq command.unknown,
         recorded_at_most' \in Nat, recorded_at_most <= recorded_at_most'
  PROVE  RowsAreCounted'
<1>1. rows \in Seq(Row) /\ DOMAIN rows = 1..Len(rows) /\ DOMAIN rows' = 1..Len(rows)
  BY DEF IInv, TypeOK
<1>2. known' = known
  BY <1>1 DEF known
<1>3. PICK adopted \in SUBSET known :
        /\ adopted \cap command.unknown = {}
        /\ Len(rows) <= recorded_at_most + Cardinality(adopted)
  BY DEF IInv, RowsAreCounted
<1>4. known \subseteq Pages
  <2>1. \A i \in 1..Len(rows) : rows[i] \in Row
    BY <1>1
  <2>2. QED
    BY <1>1, <2>1 DEF known, Row
<1>5. Cardinality(adopted) \in Nat /\ Len(rows) \in Nat /\ recorded_at_most \in Nat
  BY <1>1, <1>4, ListOfPages, Sizes
<1>6. adopted \cap command'.unknown = {} /\ Len(rows') <= recorded_at_most' + Cardinality(adopted)
  BY <1>3, <1>5
<1>7. QED
  BY <1>2, <1>6 DEF RowsAreCounted

(***************************************************************************)
(* What requests do.                                                       *)
(***************************************************************************)

\* The requests that wait do not see another one move.
LEMMA RequestMoves ==
  ASSUME IInv, NEW d \in Requests, NEW r \in Request, request' = [request EXCEPT ![d] = r],
         queue' = queue, completed' = completed,
         ~At(d, "await"), r.at # "answered", r.at = "idle" => r = Idle
  PROVE  /\ request' \in [Requests -> Request]
         /\ RequestsAreShaped' /\ FuturesAreHeld' /\ AnsweredWasRun'
<1>1. request \in [Requests -> Request] /\ request' \in [Requests -> Request]
  BY DEF IInv, TypeOK
<1>2. request'[d] = r /\ \A e \in Requests \ {d} : request'[e] = request[e]
  BY <1>1
<1>3. RequestsAreShaped'
  BY <1>2 DEF IInv, RequestsAreShaped, At
<1>4. AnsweredWasRun'
  BY <1>2 DEF IInv, AnsweredWasRun, At
<1>5. FuturesAreHeld'
  <2>1. ASSUME NEW n \in DOMAIN queue, queue[n].for # NoOne
        PROVE  queue[n].for \in Requests \ {d}
    <3>1. queue[n] \in Task
      BY DEF IInv, TypeOK
    <3>2. queue[n].for \in Requests
      BY <2>1, <3>1 DEF Task
    <3>3. QED
      BY <2>1, <3>2 DEF IInv, FuturesAreHeld
  <2>2. QED
    BY <1>2, <2>1 DEF IInv, FuturesAreHeld, At
<1>6. QED
  BY <1>1, <1>3, <1>4, <1>5

\* What a review loaded stays of its page, in a table whose rows stay of theirs.
LEMMA SeenStays ==
  ASSUME IInv, \A i \in DOMAIN rows : i \in DOMAIN rows' /\ rows'[i].page = rows[i].page,
         \A d \in Requests : request'[d].at = "commit" =>
           \/ request'[d] = request[d]
           \/ \A i \in request'[d].seen : i \in DOMAIN rows /\ rows[i].page = request'[d].page
  PROVE  SeenIsOfPage'
<1>1. ASSUME NEW d \in Requests, request'[d].at = "commit", NEW i \in request'[d].seen
      PROVE  i \in DOMAIN rows /\ rows[i].page = request'[d].page
  BY <1>1 DEF IInv, SeenIsOfPage, At
<1>2. QED
  BY <1>1 DEF SeenIsOfPage, At

\* The tasks behind the first one have their holders, if these stay.
LEMMA TailHolds ==
  ASSUME IInv,
         \A n \in DOMAIN queue' : n + 1 \in DOMAIN queue /\ queue'[n] = queue[n + 1] /\ n \in Nat,
         \A n \in DOMAIN queue' :
           queue'[n].for # NoOne => request'[queue'[n].for] = request[queue'[n].for]
  PROVE  FuturesAreHeld'
<1>1. ASSUME NEW n \in DOMAIN queue', queue'[n].for # NoOne
      PROVE  /\ request'[queue'[n].for].at = "await"
             /\ queue'[n].proposal = request'[queue'[n].for].proposal
  BY <1>1 DEF IInv, FuturesAreHeld, At
<1>2. ASSUME NEW m \in DOMAIN queue', NEW n \in DOMAIN queue',
             queue'[m].for = queue'[n].for, queue'[m].for # NoOne
      PROVE  m = n
  <2>1. m + 1 = n + 1
    BY <1>2 DEF IInv, FuturesAreHeld
  <2>2. QED
    BY <2>1
<1>3. QED
  BY <1>1, <1>2 DEF FuturesAreHeld, At

\* A task that is done, or has raised, gives its one holder its answer, or its end.
LEMMA TaskDoneKeeps ==
  ASSUME IInv, step # "idle", NEW outcome, TaskDone(outcome)
  PROVE  /\ queue' \in Seq(Task) /\ completed' \subseteq Proposal /\ completed \subseteq completed'
         /\ running.proposal # NoProposal /\ outcome # "raised" => running.proposal \in completed'
         /\ request' \in [Requests -> Request]
         /\ step' = "idle" /\ agents' = 0 /\ listed' = <<>>
         /\ RequestsAreShaped' /\ FuturesAreHeld' /\ AnsweredWasRun'
         /\ \A d \in Requests : request'[d].at = "commit" => request'[d] = request[d]
         /\ Cardinality(ingests_in(queue'))
              = Cardinality(ingests_in(queue)) - (IF running.kind = "ingest" THEN 1 ELSE 0)
<1> DEFINE t == running
<1>1. queue \in Seq(Task) /\ queue # <<>> /\ request \in [Requests -> Request]
      /\ completed \subseteq Proposal
  BY DEF IInv, TypeOK, ConsumerIsShaped
<1>2. t \in Task /\ t = queue[1] /\ 1 \in DOMAIN queue
  BY <1>1 DEF running
<1>3. /\ queue' = Tail(queue) /\ queue' \in Seq(Task)
      /\ DOMAIN queue' = 1..(Len(queue) - 1) /\ DOMAIN queue = 1..Len(queue)
      /\ \A n \in DOMAIN queue' : n + 1 \in DOMAIN queue /\ queue'[n] = queue[n + 1] /\ n + 1 # 1
  <2>1. Tail(queue) \in Seq(Task) /\ Len(Tail(queue)) = Len(queue) - 1 /\ Len(queue) \in Nat
        /\ \A i \in 1..Len(Tail(queue)) : Tail(queue)[i] = queue[i + 1]
    BY <1>1, HeadTailProperties
  <2>2. queue' = Tail(queue)
    BY DEF TaskDone
  <2>3. DOMAIN Tail(queue) = 1..(Len(queue) - 1) /\ DOMAIN queue = 1..Len(queue)
    BY <1>1, <2>1
  <2>4. \A n \in 1..(Len(queue) - 1) : n + 1 \in 1..Len(queue) /\ n + 1 # 1
    BY <2>1
  <2>5. QED
    BY <2>1, <2>2, <2>3, <2>4
<1>4. /\ completed' \subseteq Proposal /\ completed \subseteq completed'
      /\ t.proposal # NoProposal /\ outcome # "raised" => t.proposal \in completed'
  BY <1>1, <1>2 DEF TaskDone, Task
<1>5. step' = "idle" /\ agents' = 0 /\ listed' = <<>>
  BY DEF TaskDone
<1>6. Cardinality(ingests_in(queue'))
        = Cardinality(ingests_in(queue)) - (IF t.kind = "ingest" THEN 1 ELSE 0)
  BY <1>1, <1>3, CountOfTail DEF running
<1>7. CASE t.for = NoOne
  <2>1. request' = request
    BY <1>7 DEF TaskDone
  <2>2. RequestsAreShaped' /\ AnsweredWasRun'
    BY <1>4, <2>1 DEF IInv, RequestsAreShaped, AnsweredWasRun, At
  <2>3. FuturesAreHeld'
    BY <1>3, <2>1, TailHolds DEF IInv
  <2>4. QED
    BY <1>1, <1>3, <1>4, <1>5, <1>6, <2>1, <2>2, <2>3
<1>8. CASE t.for # NoOne
  <2> DEFINE d == t.for
             r == IF outcome = "raised" THEN Idle ELSE [request[d] EXCEPT !.at = "answered"]
  <2>1. d \in Requests /\ request[d].at = "await" /\ t.proposal = request[d].proposal
    BY <1>2, <1>8 DEF IInv, FuturesAreHeld, At, Task
  <2>2. r \in Request /\ r.at \in {"idle", "answered"}
        /\ (r.at = "idle" => r = Idle)
        /\ (r.at = "answered" => r.proposal = t.proposal /\ outcome # "raised")
    <3>1. CASE outcome = "raised"
      BY <3>1, WikiAssumptions DEF Idle, Request
    <3>2. CASE outcome # "raised"
      BY <1>1, <2>1, <3>2 DEF Request
    <3>3. QED
      BY <3>1, <3>2
  <2>3. request' = [request EXCEPT ![d] = r]
    BY <1>8 DEF TaskDone
  <2> HIDE DEF r
  <2>4. request' \in [Requests -> Request] /\ request'[d] = r
        /\ \A e \in Requests \ {d} : request'[e] = request[e]
    BY <1>1, <2>1, <2>2, <2>3
  <2>5. RequestsAreShaped'
    BY <2>2, <2>4 DEF IInv, RequestsAreShaped, At
  <2>6. AnsweredWasRun'
    BY <1>4, <2>2, <2>4 DEF IInv, AnsweredWasRun, At
  <2>7. FuturesAreHeld'
    <3>1. ASSUME NEW n \in DOMAIN queue', queue'[n].for # NoOne
          PROVE  request'[queue'[n].for] = request[queue'[n].for]
      <4>1. queue[n + 1].for # d
        BY <1>2, <1>3, <1>8, <3>1 DEF IInv, FuturesAreHeld
      <4>2. queue[n + 1] \in Task
        BY <1>1, <1>3
      <4>3. QED
        BY <1>3, <2>4, <3>1, <4>1, <4>2 DEF Task
    <3>2. QED
      BY <1>3, <3>1, TailHolds
  <2>8. \A e \in Requests : request'[e].at = "commit" => request'[e] = request[e]
    BY <2>2, <2>4
  <2>9. QED
    BY <1>3, <1>4, <1>5, <1>6, <2>4, <2>5, <2>6, <2>7, <2>8
<1>9. QED
  BY <1>7, <1>8

(***************************************************************************)
(* Every step keeps the invariant.                                         *)
(***************************************************************************)

\* Nothing is counted anew while the consumer rests and no row is added.
LEMMA CountsStay ==
  ASSUME IInv, UNCHANGED <<consumer, ingests>>, Len(proposals') = Len(proposals),
         rows' \in Seq(Row), Len(rows') = Len(rows),
         \A i \in 1..Len(rows) : rows'[i].page = rows[i].page,
         command'.unknown \subseteq command.unknown
  PROVE  ConsumerIsShaped' /\ ProposalsAreCounted' /\ RowsAreCounted' /\ Len(rows') <= MaxRows
<1>1. ConsumerIsShaped'
  BY DEF IInv, ConsumerIsShaped, consumer, running
<1>2. over' = over /\ recorded_at_most' = recorded_at_most
  BY DEF over, recorded_at_most, consumer
<1>3. ProposalsAreCounted'
  BY <1>2 DEF IInv, ProposalsAreCounted
<1>4. RowsAreCounted'
  BY <1>2, RowsStay, Sizes
<1>5. QED
  BY <1>1, <1>3, <1>4 DEF IInv, TypeOK

\* A step of the files, of a command or of nobody.
LEMMA AsideKeeps ==
  ASSUME IInv, UNCHANGED <<consumer, request, cast, ingests>>,
         page' \in [Pages -> File], index' \in [Pages -> File], head' \in [Pages -> File],
         orphans' \subseteq {"ingest", "summary"},
         failures' \in 0..MaxFailures, command' \in Command,
         command'.unknown \subseteq command.unknown, rows' = rows,
         proposals' \in Seq({"pending", "approved", "rejected"}),
         Len(proposals') = Len(proposals), ApprovedWasRun'
  PROVE  IInv'
<1>1. ConsumerIsShaped' /\ ProposalsAreCounted' /\ RowsAreCounted'
  BY CountsStay DEF IInv, TypeOK
<1>2. RequestsAreShaped' /\ FuturesAreHeld' /\ AnsweredWasRun' /\ SeenIsOfPage'
  BY DEF IInv, RequestsAreShaped, FuturesAreHeld, AnsweredWasRun, SeenIsOfPage, At, consumer
<1>3. TypeOK'
  BY DEF IInv, TypeOK, consumer
<1>4. QED
  BY <1>1, <1>2, <1>3 DEF IInv

\* A step of one request that does not wait.
LEMMA RequestKeeps ==
  ASSUME IInv, NEW d \in Requests, NEW r \in Request, request' = [request EXCEPT ![d] = r],
         ~At(d, "await"), r.at # "answered", r.at = "idle" => r = Idle,
         r.at = "commit" => \A i \in r.seen : i \in DOMAIN rows /\ rows[i].page = r.page,
         UNCHANGED <<consumer, beside, ingests>>, failures' \in 0..MaxFailures,
         page' \in [Pages -> File], index' \in [Pages -> File], head' \in [Pages -> File],
         rows' \in Seq(Row), Len(rows') = Len(rows),
         \A i \in 1..Len(rows) : rows'[i].page = rows[i].page,
         proposals' \in Seq({"pending", "approved", "rejected"}),
         Len(proposals') = Len(proposals), ApprovedWasRun'
  PROVE  IInv'
<1>1. ConsumerIsShaped' /\ ProposalsAreCounted' /\ RowsAreCounted' /\ Len(rows') <= MaxRows
  BY CountsStay DEF beside
<1>2. /\ request' \in [Requests -> Request]
      /\ RequestsAreShaped' /\ FuturesAreHeld' /\ AnsweredWasRun'
  BY RequestMoves DEF consumer
<1>3. request \in [Requests -> Request] /\ rows \in Seq(Row)
  BY DEF IInv, TypeOK
<1>4. SeenIsOfPage'
  <2>1. request'[d] = r /\ \A e \in Requests \ {d} : request'[e] = request[e]
    BY <1>3
  <2>2. \A i \in DOMAIN rows : i \in DOMAIN rows' /\ rows'[i].page = rows[i].page
    BY <1>3
  <2>3. QED
    BY <2>1, <2>2, SeenStays
<1>5. TypeOK'
  BY <1>1, <1>2 DEF IInv, TypeOK, consumer, beside
<1>6. QED
  BY <1>1, <1>2, <1>4, <1>5 DEF IInv

\* A step that ends the running task.
LEMMA EndKeeps ==
  ASSUME IInv, step # "idle", NEW outcome, TaskDone(outcome),
         UNCHANGED <<rows, index, head, beside, ingests>>, page' \in [Pages -> File],
         failures' \in 0..MaxFailures,
         proposals' \in Seq({"pending", "approved", "rejected"}),
         Len(proposals') <= Len(proposals) + (IF running.kind = "ingest" THEN 1 ELSE 0),
         ApprovedWasRun'
  PROVE  IInv'
<1>1. /\ queue' \in Seq(Task) /\ completed' \subseteq Proposal
      /\ request' \in [Requests -> Request]
      /\ step' = "idle" /\ agents' = 0 /\ listed' = <<>>
      /\ RequestsAreShaped' /\ FuturesAreHeld' /\ AnsweredWasRun'
      /\ \A d \in Requests : request'[d].at = "commit" => request'[d] = request[d]
      /\ Cardinality(ingests_in(queue'))
           = Cardinality(ingests_in(queue)) - (IF running.kind = "ingest" THEN 1 ELSE 0)
  BY TaskDoneKeeps
<1>2. over' = over + (IF running.kind = "ingest" THEN 1 ELSE 0)
  BY <1>1, Sizes DEF over
<1>3. over \in Nat /\ over' \in Nat /\ of_one_ingest \in Nat
  BY <1>2, Sizes
<1>4. recorded_at_most' \in Nat /\ recorded_at_most <= recorded_at_most'
  <2>1. recorded_at_most' = over' * of_one_ingest
    <3>1. of_one_ingest' = of_one_ingest
      BY DEF of_one_ingest
    <3>2. over' * of_one_ingest \in Nat
      BY <1>3, Times
    <3>3. QED
      BY <1>1, <3>1, <3>2 DEF recorded_at_most
  <2>2. over' * of_one_ingest \in Nat
    BY <1>3, Times
  <2>3. CASE running.kind = "ingest"
    <3>1. over' = over + 1
      BY <1>2, <1>3, <2>3
    <3>2. over' * of_one_ingest = over * of_one_ingest + of_one_ingest
      BY <1>3, <3>1, Times
    <3>3. recorded_at_most <= over * of_one_ingest + of_one_ingest
      BY Sizes DEF recorded_at_most
    <3>4. QED
      BY <2>1, <2>2, <3>2, <3>3
  <2>4. CASE running.kind # "ingest"
    <3>1. over' = over /\ step # "propose"
      BY <1>2, <1>3, <2>4 DEF IInv, ConsumerIsShaped
    <3>2. recorded_at_most = over * of_one_ingest
      BY <3>1, Sizes DEF recorded_at_most
    <3>3. QED
      BY <2>1, <2>2, <3>1, <3>2
  <2>5. QED
    BY <2>3, <2>4
<1>5. RowsAreCounted'
  BY <1>4, RowsStay DEF IInv, TypeOK, beside
<1>6. ProposalsAreCounted'
  <2>1. Len(proposals) <= over /\ Len(proposals) \in Nat /\ Len(proposals') \in Nat
    BY DEF IInv, TypeOK, ProposalsAreCounted
  <2>2. QED
    BY <1>2, <1>3, <2>1 DEF ProposalsAreCounted
<1>7. ConsumerIsShaped'
  <2>1. 0 <= 0 * Cardinality(Pages)
    BY ListOfPages
  <2>2. QED
    BY <1>1, <2>1 DEF ConsumerIsShaped
<1>8. SeenIsOfPage'
  BY <1>1, SeenStays
<1>9. TypeOK'
  BY <1>1, WikiAssumptions DEF IInv, TypeOK, beside
<1>10. QED
  BY <1>1, <1>5, <1>6, <1>7, <1>8, <1>9 DEF IInv

\* Approvals stay when none is made, and no completion is taken back.
LEMMA ApprovalsStay ==
  ASSUME IInv, proposals' = proposals, completed \subseteq completed'
  PROVE  ApprovedWasRun'
BY DEF IInv, ApprovedWasRun

\* The consumer goes on in its task.
LEMMA ConsumerKeeps ==
  ASSUME IInv, StartTask \/ IngestAgentEnds \/ (IngestEnds /\ listed # <<>>) \/ record_writes
  PROVE  IInv'
<1>1. /\ queue' = queue /\ completed' = completed /\ request' = request /\ ingests' = ingests
      /\ proposals' = proposals /\ command' = command /\ cast' = cast /\ head' = head
      /\ index' = index /\ orphans' = orphans /\ failures' = failures
  BY DEF StartTask, IngestAgentEnds, IngestEnds, record_writes, files, beside, tables
<1>2. over' = over
  BY <1>1 DEF over
<1>3. RequestsAreShaped' /\ FuturesAreHeld' /\ AnsweredWasRun' /\ ApprovedWasRun'
      /\ ProposalsAreCounted'
  BY <1>1, <1>2 DEF IInv, RequestsAreShaped, FuturesAreHeld, AnsweredWasRun, At,
     ApprovedWasRun, ProposalsAreCounted
<1>4. CASE StartTask
  <2>1. /\ step = "idle" /\ step' = "agent" /\ queue # <<>> /\ rows' = rows
        /\ agents' = agents /\ listed' = listed /\ page' = page
    BY <1>4 DEF StartTask, files, tables
  <2>2. recorded_at_most' = recorded_at_most
    BY <1>2, <2>1 DEF recorded_at_most, of_one_ingest
  <2>3. RowsAreCounted' /\ SeenIsOfPage' /\ ConsumerIsShaped'
    BY <1>1, <2>1, <2>2 DEF IInv, RowsAreCounted, SeenIsOfPage, ConsumerIsShaped, known, At
  <2>4. TypeOK'
    BY <1>1, <2>1 DEF IInv, TypeOK
  <2>5. QED
    BY <1>3, <2>3, <2>4 DEF IInv
<1>5. CASE IngestAgentEnds
  <2>1. PICK pages \in SUBSET Pages : listed' = listed \o SetToSeq(pages)
    BY <1>5 DEF IngestAgentEnds
  <2>2. /\ step = "agent" /\ step' = "agent" /\ agents < Artifacts /\ agents' = agents + 1
        /\ rows' = rows /\ page' = page
    BY <1>5 DEF IngestAgentEnds, files, tables
  <2>3. /\ listed \in Seq(Pages) /\ SetToSeq(pages) \in Seq(Pages) /\ agents \in Nat
        /\ Len(SetToSeq(pages)) <= Cardinality(Pages) /\ Cardinality(Pages) \in Nat
    <3>1. SetToSeq(pages) \in Seq(pages) /\ Len(SetToSeq(pages)) = Cardinality(pages)
          /\ Cardinality(pages) <= Cardinality(Pages) /\ Cardinality(Pages) \in Nat
      BY ListOfPages
    <3>2. SetToSeq(pages) \in Seq(Pages)
      BY <3>1, SeqMonotonic
    <3>3. QED
      BY <3>1, <3>2, WikiAssumptions DEF IInv, TypeOK
  <2>4. listed' \in Seq(Pages) /\ Len(listed') = Len(listed) + Len(SetToSeq(pages))
        /\ Len(listed) \in Nat /\ Len(SetToSeq(pages)) \in Nat
    BY <2>1, <2>3, ConcatProperties, LenProperties
  <2>5. Len(listed') <= agents' * Cardinality(Pages)
    <3>1. Len(listed) <= agents * Cardinality(Pages)
      BY DEF IInv, ConsumerIsShaped
    <3>2. agents * Cardinality(Pages) \in Nat
          /\ (agents + 1) * Cardinality(Pages) = agents * Cardinality(Pages) + Cardinality(Pages)
      BY <2>3, Times
    <3>3. QED
      BY <2>2, <2>3, <2>4, <3>1, <3>2
  <2>6. recorded_at_most' = recorded_at_most
    BY <1>2, <2>2 DEF recorded_at_most, of_one_ingest
  <2>7. RowsAreCounted' /\ SeenIsOfPage' /\ ConsumerIsShaped'
    BY <1>1, <2>2, <2>5, <2>6
    DEF IInv, RowsAreCounted, SeenIsOfPage, ConsumerIsShaped, known, At
  <2>8. agents' \in 0..Artifacts
    BY <2>2, <2>3, WikiAssumptions
  <2>9. TypeOK'
    BY <1>1, <2>2, <2>4, <2>8 DEF IInv, TypeOK
  <2>10. QED
    BY <1>3, <2>7, <2>9 DEF IInv
<1>6. CASE IngestEnds /\ listed # <<>>
  <2>1. /\ step = "agent" /\ running.kind = "ingest" /\ step' = "record" /\ rows' = rows
        /\ agents' = agents /\ listed' = listed /\ page' \in [Pages -> File]
    BY <1>6 DEF IngestEnds, enforce_needs_review, tables, IInv, TypeOK, File
  <2>2. recorded_at_most' = recorded_at_most
    BY <1>2, <2>1 DEF recorded_at_most, of_one_ingest
  <2>3. RowsAreCounted' /\ SeenIsOfPage' /\ ConsumerIsShaped'
    BY <1>1, <2>1, <2>2 DEF IInv, RowsAreCounted, SeenIsOfPage, ConsumerIsShaped, known, At,
       running
  <2>4. TypeOK'
    BY <1>1, <2>1 DEF IInv, TypeOK
  <2>5. QED
    BY <1>3, <2>3, <2>4 DEF IInv
<1>7. CASE record_writes
  <2>1. /\ step = "record" /\ step' = "propose" /\ rows' = rows \o recorded
        /\ agents' = agents /\ listed' = listed /\ page' = page
    BY <1>7 DEF record_writes, files
  <2>2. rows \in Seq(Row) /\ recorded \in Seq(Row) /\ Len(recorded) = Len(listed)
        /\ Len(rows) \in Nat /\ Len(listed) \in Nat
    <3>1. rows \in Seq(Row) /\ listed \in Seq(Pages)
      BY DEF IInv, TypeOK
    <3>2. recorded \in [1..Len(listed) -> Row] /\ Len(listed) \in Nat
      BY <3>1 DEF recorded, Row
    <3>3. QED
      BY <3>1, <3>2, FunctionIsSeq
  <2>3. rows' \in Seq(Row) /\ Len(rows') = Len(rows) + Len(listed)
        /\ \A i \in DOMAIN rows : i \in DOMAIN rows' /\ rows'[i] = rows[i]
    <3>1. /\ rows \o recorded \in Seq(Row) /\ Len(rows \o recorded) = Len(rows) + Len(recorded)
          /\ \A i \in DOMAIN rows : /\ i \in DOMAIN (rows \o recorded)
                                    /\ (rows \o recorded)[i] = rows[i]
      BY <2>2, Added
    <3>2. QED
      BY <2>1, <2>2, <3>1
  <2>4. PICK adopted \in SUBSET known :
          /\ adopted \cap command.unknown = {}
          /\ Len(rows) <= recorded_at_most + Cardinality(adopted)
    BY DEF IInv, RowsAreCounted
  <2>5. recorded_at_most' = over * of_one_ingest + Len(listed)
        /\ recorded_at_most = over * of_one_ingest
    BY <1>2, <2>1, Sizes DEF recorded_at_most, of_one_ingest
  <2>6. known \subseteq known' /\ known \subseteq Pages
    <3>1. \A i \in DOMAIN rows : rows[i] \in Row
      BY <2>2
    <3>2. QED
      BY <2>3, <3>1 DEF known, Row
  <2>7. Cardinality(adopted) \in Nat /\ Cardinality(adopted) <= Cardinality(Pages)
        /\ Cardinality(Pages) \in Nat
    BY <2>6, ListOfPages
  <2>8. Len(rows') <= recorded_at_most' + Cardinality(adopted)
    <3> DEFINE base == over * of_one_ingest
    <3>1. base \in Nat /\ recorded_at_most' = base + Len(listed) /\ recorded_at_most = base
      BY <2>5, Sizes
    <3> HIDE DEF base
    <3>2. QED
      BY <2>2, <2>3, <2>4, <2>7, <3>1
  <2>9. RowsAreCounted'
    BY <1>1, <2>4, <2>6, <2>8 DEF RowsAreCounted
  <2>10. Len(rows') <= MaxRows
    <3>1. running.kind = "ingest"
      BY <2>1 DEF IInv, ConsumerIsShaped
    <3>2. over * of_one_ingest + Len(listed) + Cardinality(Pages) <= MaxRows
      BY <2>1, <3>1, RoomForRows
    <3>3. MaxRows \in Nat
      <4>1. MaxIngests * of_one_ingest \in Nat
        BY Sizes, Times, WikiAssumptions
      <4>2. QED
        BY <4>1, Sizes
    <3>4. QED
      <4> DEFINE base == over * of_one_ingest
      <4>1. base \in Nat /\ recorded_at_most' = base + Len(listed)
            /\ base + Len(listed) + Cardinality(Pages) <= MaxRows
        BY <2>5, <3>2, Sizes
      <4> HIDE DEF base
      <4>2. QED
        BY <2>2, <2>3, <2>7, <2>8, <3>3, <4>1
  <2>11. SeenIsOfPage'
    BY <1>1, <2>3, SeenStays
  <2>12. ConsumerIsShaped'
    BY <1>1, <2>1 DEF IInv, ConsumerIsShaped, running
  <2>13. TypeOK'
    BY <1>1, <2>1, <2>3, <2>10 DEF IInv, TypeOK
  <2>14. QED
    BY <1>3, <2>9, <2>11, <2>12, <2>13 DEF IInv
<1>8. QED
  BY <1>4, <1>5, <1>6, <1>7

\* The pages adopted were unknown, and are known now.
LEMMA AdoptKeeps ==
  ASSUME IInv, adopt_unknown
  PROVE  IInv'
<1>1. /\ UNCHANGED <<cast, orphans, files, proposals, consumer, request, ingests, failures>>
      /\ command' = NoCommand
  BY DEF adopt_unknown
<1>2. CASE "adopt" \notin command.options
  <2>1. rows' = rows
    BY <1>2 DEF adopt_unknown
  <2>2. command' \in Command /\ command'.unknown \subseteq command.unknown
    BY <1>1 DEF NoCommand, Command
  <2>3. ApprovedWasRun'
    BY <1>1 DEF IInv, ApprovedWasRun, consumer
  <2>4. QED
    BY <1>1, <2>1, <2>2, <2>3, AsideKeeps DEF IInv, TypeOK, files
<1>3. CASE "adopt" \in command.options
  <2> DEFINE new == command.unknown
             more == [i \in 1..Cardinality(new) |->
                        [page |-> SetToSeq(new)[i], needs_review |-> TRUE]]
  <2>1. rows' = rows \o more
    BY <1>3 DEF adopt_unknown
  <2>2. new \in SUBSET Pages
    BY DEF IInv, TypeOK, Command
  <2>3. /\ IsFiniteSet(new) /\ Cardinality(new) \in Nat
        /\ SetToSeq(new) \in Seq(new) /\ Len(SetToSeq(new)) = Cardinality(new)
        /\ \A p \in new : \E i \in 1..Cardinality(new) : SetToSeq(new)[i] = p
    BY <2>2, ListOfPages
  <2>4. more \in Seq(Row) /\ Len(more) = Cardinality(new)
    <3>1. \A i \in 1..Cardinality(new) : SetToSeq(new)[i] \in Pages
      BY <2>2, <2>3
    <3>2. more \in [1..Cardinality(new) -> Row]
      BY <2>3, <3>1 DEF Row
    <3>3. QED
      <4> DEFINE n == Cardinality(new)
      <4>1. n \in Nat /\ more \in [1..n -> Row]
        BY <2>3, <3>2
      <4> HIDE DEF n, more
      <4>2. more \in Seq(Row) /\ Len(more) = n
        BY <4>1, FunctionIsSeq
      <4>3. QED
        BY <4>2 DEF n
  <2>5. rows \in Seq(Row) /\ Len(rows) \in Nat
    BY DEF IInv, TypeOK
  <2>6. /\ rows' \in Seq(Row) /\ Len(rows') = Len(rows) + Cardinality(new)
        /\ \A i \in DOMAIN rows : i \in DOMAIN rows' /\ rows'[i] = rows[i]
        /\ \A i \in 1..Cardinality(new) : Len(rows) + i \in DOMAIN rows'
                                          /\ rows'[Len(rows) + i] = more[i]
    <3> HIDE DEF more
    <3>1. QED
      BY <2>1, <2>3, <2>4, <2>5
  <2>7. PICK adopted \in SUBSET known :
          /\ adopted \cap new = {}
          /\ Len(rows) <= recorded_at_most + Cardinality(adopted)
    BY DEF IInv, RowsAreCounted
  <2>8. known \subseteq Pages /\ known \subseteq known' /\ new \subseteq known'
    <3>1. \A i \in DOMAIN rows : rows[i] \in Row
      BY <2>5
    <3>2. known \subseteq Pages /\ known \subseteq known'
      BY <2>6, <3>1 DEF known, Row
    <3>3. ASSUME NEW p \in new PROVE p \in known'
      <4>1. PICK i \in 1..Cardinality(new) : SetToSeq(new)[i] = p
        BY <2>3
      <4>2. more[i].page = p
        BY <4>1
      <4>3. QED
        BY <2>6, <4>2 DEF known
    <3>4. QED
      BY <3>2, <3>3
  <2>9. /\ Cardinality(adopted \cup new) = Cardinality(adopted) + Cardinality(new)
        /\ Cardinality(adopted) \in Nat
        /\ Cardinality(adopted \cup new) <= Cardinality(Pages)
        /\ Cardinality(adopted \cup new) \in Nat /\ Cardinality(Pages) \in Nat
    <3>1. adopted \in SUBSET Pages /\ adopted \cup new \in SUBSET Pages
      BY <2>2, <2>8
    <3>2. IsFiniteSet(adopted) /\ Cardinality(adopted) \in Nat
          /\ Cardinality(adopted \cup new) <= Cardinality(Pages)
          /\ Cardinality(adopted \cup new) \in Nat /\ Cardinality(Pages) \in Nat
      BY <3>1, ListOfPages
    <3>3. Cardinality(adopted \cap new) = 0
      BY <2>7, FS_EmptySet
    <3>4. Cardinality(adopted \cup new)
            = Cardinality(adopted) + Cardinality(new) - Cardinality(adopted \cap new)
      BY <2>3, <3>2, FS_Union
    <3>5. QED
      BY <2>3, <3>2, <3>3, <3>4
  <2>10. over' = over /\ recorded_at_most' = recorded_at_most
    BY <1>1 DEF over, recorded_at_most, of_one_ingest, consumer
  <2>11. Len(rows') <= recorded_at_most' + Cardinality(adopted \cup new)
    BY <2>3, <2>5, <2>6, <2>7, <2>9, <2>10, Sizes
  <2>12. RowsAreCounted'
    <3>1. adopted \cup new \in SUBSET known' /\ (adopted \cup new) \cap command'.unknown = {}
      BY <1>1, <2>8 DEF NoCommand
    <3>2. QED
      BY <2>11, <3>1 DEF RowsAreCounted
  <2>13. Len(rows') <= MaxRows
    <3>1. recorded_at_most + Cardinality(Pages) <= MaxRows
      BY RoomForPages
    <3>2. MaxRows \in Nat
      <4>1. MaxIngests * of_one_ingest \in Nat
        BY Sizes, Times, WikiAssumptions
      <4>2. QED
        BY <4>1, Sizes
    <3>3. QED
      <4>1. recorded_at_most \in Nat
        BY Sizes
      <4>2. QED
        BY <2>3, <2>5, <2>6, <2>9, <2>10, <2>11, <3>1, <3>2, <4>1
  <2>14. RequestsAreShaped' /\ FuturesAreHeld' /\ AnsweredWasRun' /\ ApprovedWasRun'
    BY <1>1 DEF IInv, RequestsAreShaped, FuturesAreHeld, AnsweredWasRun, At, consumer,
       ApprovedWasRun
  <2>15. ConsumerIsShaped' /\ ProposalsAreCounted'
    BY <1>1, <2>10 DEF IInv, ConsumerIsShaped, ProposalsAreCounted, running, consumer
  <2>16. SeenIsOfPage'
    BY <1>1, <2>6, SeenStays
  <2>17. TypeOK'
    <3>1. command' \in Command
      BY <1>1 DEF NoCommand, Command
    <3>2. QED
      BY <1>1, <2>6, <2>13, <3>1 DEF IInv, TypeOK, files, consumer
  <2>18. QED
    BY <2>12, <2>14, <2>15, <2>16, <2>17 DEF IInv
<1>4. QED
  BY <1>2, <1>3

\* A request that waits for a task about proposal i.
awaiting(i) == [at |-> "await", page |-> SummaryPage, seen |-> {}, proposal |-> i]

\* A task enqueued for a request that was idle is the only one it waits for.
LEMMA SubmitKeeps ==
  ASSUME IInv, NEW d \in Requests, NEW i \in Proposal \cup {NoProposal},
         NEW kind \in {"summary", "lint"},
         Free(d), submit(task(kind, d, i)),
         request' = [request EXCEPT ![d] = awaiting(i)],
         UNCHANGED <<files, tables, step, agents, listed, completed, ingests, failures, beside>>
  PROVE  IInv'
<1> DEFINE t == task(kind, d, i)
           r == awaiting(i)
<1>1. queue \in Seq(Task) /\ t \in Task /\ t.kind # "ingest" /\ t.for = d /\ t.proposal = i
      /\ request \in [Requests -> Request]
  BY DEF IInv, TypeOK, task, Task
<1>2. /\ queue' = Append(queue, t) /\ queue' \in Seq(Task)
      /\ DOMAIN queue = 1..Len(queue) /\ DOMAIN queue' = 1..(Len(queue) + 1) /\ Len(queue) \in Nat
      /\ \A n \in DOMAIN queue : queue'[n] = queue[n]
      /\ queue'[Len(queue) + 1] = t
  BY <1>1 DEF submit
<1>3. r \in Request /\ r.at = "await" /\ r.proposal = i
  BY WikiAssumptions DEF awaiting, Request
<1>4. /\ request' \in [Requests -> Request] /\ request'[d] = r
      /\ \A e \in Requests \ {d} : request'[e] = request[e]
  BY <1>1, <1>3
<1>5. request[d].at = "idle" /\ d # NoOne
  BY WikiAssumptions DEF Free, At, NoOne
<1>6. RequestsAreShaped' /\ AnsweredWasRun'
  BY <1>3, <1>4 DEF IInv, RequestsAreShaped, AnsweredWasRun, At
<1>7. \A n \in DOMAIN queue : queue[n].for # NoOne => queue[n].for \in Requests \ {d}
  <2>1. ASSUME NEW n \in DOMAIN queue, queue[n].for # NoOne
        PROVE  queue[n].for \in Requests \ {d}
    <3>1. queue[n] \in Task
      BY <1>1, <1>2
    <3>2. queue[n].for \in Requests
      BY <2>1, <3>1 DEF Task
    <3>3. QED
      BY <1>5, <2>1, <3>2 DEF IInv, FuturesAreHeld, At
  <2>2. QED
    BY <2>1
<1>8. FuturesAreHeld'
  <2>1. ASSUME NEW n \in DOMAIN queue', queue'[n].for # NoOne
        PROVE  /\ request'[queue'[n].for].at = "await"
               /\ queue'[n].proposal = request'[queue'[n].for].proposal
    <3>1. CASE n = Len(queue) + 1
      BY <1>1, <1>2, <1>3, <1>4, <3>1
    <3>2. CASE n \in DOMAIN queue
      <4>1. queue[n].for \in Requests \ {d} /\ queue'[n] = queue[n]
        BY <1>2, <1>7, <2>1, <3>2
      <4>2. request[queue[n].for].at = "await"
            /\ queue[n].proposal = request[queue[n].for].proposal
        BY <2>1, <3>2, <4>1 DEF IInv, FuturesAreHeld, At
      <4>3. QED
        BY <1>4, <4>1, <4>2
    <3>3. QED
      BY <1>2, <3>1, <3>2
  <2>2. ASSUME NEW m \in DOMAIN queue', NEW n \in DOMAIN queue',
               queue'[m].for = queue'[n].for, queue'[m].for # NoOne
        PROVE  m = n
    <3>1. CASE m \in DOMAIN queue /\ n \in DOMAIN queue
      BY <1>2, <2>2, <3>1 DEF IInv, FuturesAreHeld
    <3>2. CASE m = Len(queue) + 1 /\ n \in DOMAIN queue
      BY <1>1, <1>2, <1>5, <1>7, <2>2, <3>2
    <3>3. CASE n = Len(queue) + 1 /\ m \in DOMAIN queue
      BY <1>1, <1>2, <1>5, <1>7, <2>2, <3>3
    <3>4. QED
      BY <1>2, <3>1, <3>2, <3>3
  <2>3. QED
    BY <2>1, <2>2 DEF FuturesAreHeld, At
<1>9. over' = over /\ recorded_at_most' = recorded_at_most
  <2>1. Cardinality(ingests_in(queue')) = Cardinality(ingests_in(queue))
    BY <1>1, <1>2, CountOfAppend, CountType
  <2>2. over' = over
    BY <2>1 DEF over
  <2>3. QED
    BY <2>2 DEF recorded_at_most, of_one_ingest
<1>10. ProposalsAreCounted' /\ RowsAreCounted' /\ ApprovedWasRun'
  BY <1>9 DEF IInv, ProposalsAreCounted, RowsAreCounted, ApprovedWasRun, tables, beside, known
<1>11. ConsumerIsShaped'
  BY <1>1, <1>2 DEF IInv, ConsumerIsShaped, running
<1>12. SeenIsOfPage'
  <2>1. \A j \in DOMAIN rows : j \in DOMAIN rows' /\ rows'[j].page = rows[j].page
    BY DEF tables
  <2>2. QED
    BY <1>3, <1>4, <2>1, SeenStays
<1>13. TypeOK'
  BY <1>2, <1>4 DEF IInv, TypeOK, files, tables, beside
<1>14. QED
  BY <1>6, <1>8, <1>10, <1>11, <1>12, <1>13 DEF IInv

\* An ingest is nobody's, and is due.
LEMMA EnqueueKeeps ==
  ASSUME IInv, EnqueueIngest
  PROVE  IInv'
<1> DEFINE t == task("ingest", NoOne, NoProposal)
<1>1. /\ queue \in Seq(Task) /\ t \in Task /\ t.kind = "ingest" /\ t.for = NoOne
      /\ ingests \in 0..MaxIngests /\ ingests < MaxIngests /\ ingests' = ingests + 1
  BY DEF IInv, TypeOK, task, Task, EnqueueIngest
<1>2. /\ queue' = Append(queue, t) /\ queue' \in Seq(Task)
      /\ DOMAIN queue = 1..Len(queue) /\ DOMAIN queue' = 1..(Len(queue) + 1) /\ Len(queue) \in Nat
      /\ \A n \in DOMAIN queue : queue'[n] = queue[n]
      /\ queue'[Len(queue) + 1] = t
  BY <1>1 DEF submit, EnqueueIngest
<1>3. UNCHANGED <<files, tables, step, agents, listed, completed, request, failures, beside>>
  BY DEF EnqueueIngest
<1>4. FuturesAreHeld'
  <2>1. \A n \in DOMAIN queue' : queue'[n].for # NoOne =>
          n \in DOMAIN queue /\ queue'[n] = queue[n]
    BY <1>1, <1>2
  <2>2. QED
    BY <1>3, <2>1 DEF IInv, FuturesAreHeld, At
<1>5. over' = over /\ recorded_at_most' = recorded_at_most
  <2>1. Cardinality(ingests_in(queue')) = Cardinality(ingests_in(queue)) + 1
    BY <1>1, <1>2, CountOfAppend, CountType
  <2>2. over' = over
    BY <1>1, <2>1, Sizes DEF over
  <2>3. QED
    BY <1>3, <2>2 DEF recorded_at_most, of_one_ingest
<1>6. /\ RequestsAreShaped' /\ AnsweredWasRun' /\ SeenIsOfPage'
      /\ ProposalsAreCounted' /\ RowsAreCounted' /\ ApprovedWasRun'
  BY <1>3, <1>5 DEF IInv, ProposalsAreCounted, RowsAreCounted, ApprovedWasRun, tables, beside,
     known, RequestsAreShaped, AnsweredWasRun, SeenIsOfPage, At
<1>7. ConsumerIsShaped'
  BY <1>1, <1>2, <1>3 DEF IInv, ConsumerIsShaped, running
<1>8. TypeOK'
  <2>1. ingests' \in 0..MaxIngests
    BY <1>1, WikiAssumptions
  <2>2. QED
    BY <1>2, <1>3, <2>1 DEF IInv, TypeOK, files, tables, beside
<1>9. QED
  BY <1>4, <1>6, <1>7, <1>8 DEF IInv

\* A request that fails leaves its task to nobody.
LEMMA FailureKeeps ==
  ASSUME IInv, NEW d \in Requests, RequestFails(d)
  PROVE  IInv'
<1>1. /\ queue \in Seq(Task) /\ request \in [Requests -> Request]
      /\ failures \in 0..MaxFailures /\ failures < MaxFailures /\ failures' = failures + 1
      /\ UNCHANGED <<files, tables, step, agents, listed, completed, ingests, beside>>
  BY DEF IInv, TypeOK, RequestFails
<1>2. Idle \in Request
  BY WikiAssumptions DEF Idle, Request
<1>3. /\ request' \in [Requests -> Request] /\ request'[d] = Idle
      /\ \A e \in Requests \ {d} : request'[e] = request[e]
  BY <1>1, <1>2 DEF RequestFails
<1>4. /\ queue' \in Seq(Task) /\ Len(queue') = Len(queue) /\ DOMAIN queue' = DOMAIN queue
      /\ \A n \in DOMAIN queue : /\ queue'[n].kind = queue[n].kind
                                 /\ queue'[n].proposal = queue[n].proposal
                                 /\ queue'[n].for = IF queue[n].for = d THEN NoOne ELSE queue[n].for
  <2>1. queue' = [n \in DOMAIN queue |->
                   IF queue[n].for = d THEN [queue[n] EXCEPT !.for = NoOne] ELSE queue[n]]
    BY DEF RequestFails
  <2>2. DOMAIN queue = 1..Len(queue) /\ Len(queue) \in Nat
        /\ \A n \in 1..Len(queue) : queue[n] \in Task
    BY <1>1
  <2>3. \A n \in 1..Len(queue) : queue'[n] \in Task
    BY <2>1, <2>2 DEF Task
  <2>4. queue' \in [1..Len(queue) -> Task]
    BY <2>1, <2>2, <2>3
  <2>5. queue' \in Seq(Task) /\ Len(queue') = Len(queue)
    BY <2>2, <2>4, FunctionIsSeq
  <2>6. ASSUME NEW n \in DOMAIN queue
        PROVE  /\ queue'[n].kind = queue[n].kind
               /\ queue'[n].proposal = queue[n].proposal
               /\ queue'[n].for = IF queue[n].for = d THEN NoOne ELSE queue[n].for
    BY <2>1, <2>2 DEF Task
  <2>7. QED
    BY <2>1, <2>5, <2>6
<1>5. FuturesAreHeld'
  <2>1. ASSUME NEW n \in DOMAIN queue', queue'[n].for # NoOne
        PROVE  /\ n \in DOMAIN queue /\ queue[n].for = queue'[n].for
               /\ queue[n].for \in Requests \ {d}
    <3>1. n \in DOMAIN queue /\ queue[n].for = queue'[n].for /\ queue[n].for # d
      BY <1>4, <2>1
    <3>2. queue[n] \in Task
      BY <1>1, <3>1
    <3>3. QED
      BY <2>1, <3>1, <3>2 DEF Task
  <2>2. QED
    BY <1>3, <1>4, <2>1 DEF IInv, FuturesAreHeld, At
<1>6. over' = over /\ recorded_at_most' = recorded_at_most
  <2>1. ingests_in(queue') = ingests_in(queue)
    BY <1>4 DEF ingests_in
  <2>2. over' = over
    BY <1>1, <2>1 DEF over
  <2>3. QED
    BY <1>1, <2>2 DEF recorded_at_most, of_one_ingest
<1>7. ProposalsAreCounted' /\ RowsAreCounted' /\ ApprovedWasRun'
  BY <1>1, <1>6
  DEF IInv, ProposalsAreCounted, RowsAreCounted, ApprovedWasRun, tables, beside, known
<1>8. RequestsAreShaped' /\ AnsweredWasRun'
  BY <1>1, <1>3 DEF IInv, RequestsAreShaped, AnsweredWasRun, At, Idle
<1>9. SeenIsOfPage'
  <2>1. \A j \in DOMAIN rows : j \in DOMAIN rows' /\ rows'[j].page = rows[j].page
    BY <1>1 DEF tables
  <2>2. \A e \in Requests : request'[e].at = "commit" => request'[e] = request[e]
    BY <1>3 DEF Idle
  <2>3. QED
    BY <2>1, <2>2, SeenStays
<1>10. ConsumerIsShaped'
  <2>1. queue # <<>> => queue' # <<>> /\ running'.kind = running.kind
    <3>1. SUFFICES ASSUME queue # <<>> PROVE queue' # <<>> /\ running'.kind = running.kind
      OBVIOUS
    <3>2. Len(queue) \in Nat \ {0} /\ 1 \in DOMAIN queue
      BY <1>1, <3>1
    <3>3. Len(queue') # 0
      BY <1>4, <3>2
    <3>4. queue' # <<>>
      BY <3>3
    <3>5. Head(queue') = queue'[1] /\ Head(queue) = queue[1]
      BY <1>1, <1>4, <3>1, <3>4
    <3>6. QED
      BY <1>4, <3>2, <3>4, <3>5 DEF running
  <2>2. QED
    BY <1>1, <2>1 DEF IInv, ConsumerIsShaped
<1>11. TypeOK'
  <2>1. failures' \in 0..MaxFailures
    BY <1>1, WikiAssumptions
  <2>2. QED
    BY <1>1, <1>3, <1>4, <2>1 DEF IInv, TypeOK, files, tables, beside
<1>12. QED
  BY <1>5, <1>7, <1>8, <1>9, <1>10, <1>11 DEF IInv

\* After a crash nothing is waited for, and every ingest is over.
LEMMA CrashKeeps ==
  ASSUME IInv, Crash
  PROVE  IInv'
<1>1. /\ failures \in 0..MaxFailures /\ failures < MaxFailures /\ failures' = failures + 1
      /\ queue' = <<>> /\ step' = "idle" /\ agents' = 0 /\ listed' = <<>>
      /\ request' = [d \in Requests |-> Idle]
      /\ UNCHANGED <<files, tables, completed, ingests, cast, command>>
      /\ orphans' \in {orphans, writing \ {"lint"}}
  BY DEF IInv, TypeOK, Crash
<1>2. Idle \in Request
  BY WikiAssumptions DEF Idle, Request
<1>3. RequestsAreShaped' /\ FuturesAreHeld' /\ AnsweredWasRun' /\ SeenIsOfPage'
  BY <1>1 DEF RequestsAreShaped, FuturesAreHeld, AnsweredWasRun, SeenIsOfPage, At, Idle
<1>4. ConsumerIsShaped'
  <2>1. 0 <= 0 * Cardinality(Pages)
    BY ListOfPages
  <2>2. QED
    BY <1>1, <2>1 DEF ConsumerIsShaped
<1>5. over' = ingests /\ over \in Nat /\ over <= over'
  <2>1. Cardinality(ingests_in(queue')) = 0
    <3>1. ingests_in(queue') = {}
      BY <1>1 DEF ingests_in
    <3>2. QED
      BY <3>1, FS_EmptySet
  <2>2. QED
    BY <1>1, <2>1, Sizes DEF over
<1>6. recorded_at_most' \in Nat /\ recorded_at_most <= recorded_at_most'
  <2>1. of_one_ingest' = of_one_ingest /\ of_one_ingest \in Nat /\ over' \in Nat
    BY <1>5, Sizes DEF of_one_ingest
  <2>2. over' * of_one_ingest \in Nat /\ recorded_at_most' = over' * of_one_ingest
    <3>1. over' * of_one_ingest \in Nat
      BY <2>1, Times
    <3>2. recorded_at_most' = over' * of_one_ingest + 0
      BY <1>1, <2>1 DEF recorded_at_most
    <3>3. QED
      BY <3>1, <3>2
  <2>3. CASE step = "propose"
    <3>1. over + 1 <= over'
      BY <1>5, <2>3, Sizes DEF IInv, ConsumerIsShaped
    <3>2. /\ (over + 1) * of_one_ingest <= over' * of_one_ingest
          /\ (over + 1) * of_one_ingest = over * of_one_ingest + of_one_ingest
      BY <1>5, <2>1, <3>1, Times
    <3>3. recorded_at_most <= over * of_one_ingest + of_one_ingest
      BY Sizes DEF recorded_at_most
    <3>4. QED
      BY <1>5, <2>1, <2>2, <3>2, <3>3, Sizes
  <2>4. CASE step # "propose"
    <3>1. recorded_at_most = over * of_one_ingest
      BY <2>4, Sizes DEF recorded_at_most
    <3>2. over * of_one_ingest <= over' * of_one_ingest
      BY <1>5, <2>1, Times
    <3>3. QED
      BY <2>2, <3>1, <3>2
  <2>5. QED
    BY <2>3, <2>4
<1>7. RowsAreCounted'
  BY <1>1, <1>6, RowsStay DEF IInv, TypeOK, tables
<1>8. ProposalsAreCounted' /\ ApprovedWasRun'
  <2>1. Len(proposals) <= over /\ Len(proposals) \in Nat
    BY DEF IInv, TypeOK, ProposalsAreCounted
  <2>2. Len(proposals) <= over'
    BY <1>1, <1>5, <2>1, Sizes
  <2>3. QED
    BY <1>1, <2>2 DEF ProposalsAreCounted, ApprovedWasRun, IInv, tables
<1>9. TypeOK'
  <2>1. failures' \in 0..MaxFailures /\ agents' \in 0..Artifacts
    BY <1>1, WikiAssumptions
  <2>2. queue' \in Seq(Task) /\ listed' \in Seq(Pages)
    BY <1>1
  <2>3. orphans' \subseteq {"ingest", "summary"}
    <3>1. step = "agent" => running \in Task
      BY HeadTailProperties DEF IInv, TypeOK, ConsumerIsShaped, running
    <3>2. QED
      BY <1>1, <3>1 DEF IInv, TypeOK, writing, Task
  <2>4. QED
    BY <1>1, <1>2, <2>1, <2>2, <2>3 DEF IInv, TypeOK, files, tables
<1>10. QED
  BY <1>3, <1>4, <1>7, <1>8, <1>9 DEF IInv

\* Settled rows are rows of the same pages.
LEMMA SettledRows ==
  ASSUME IInv, NEW ids
  PROVE  settled(ids) \in Seq(Row) /\ Len(settled(ids)) = Len(rows)
         /\ \A i \in 1..Len(rows) : settled(ids)[i].page = rows[i].page
<1>1. rows \in Seq(Row) /\ DOMAIN rows = 1..Len(rows) /\ Len(rows) \in Nat
      /\ \A i \in 1..Len(rows) : rows[i] \in Row
  BY DEF IInv, TypeOK
<1>2. \A i \in 1..Len(rows) : settled(ids)[i] \in Row /\ settled(ids)[i].page = rows[i].page
  BY <1>1 DEF settled, Row
<1>3. settled(ids) \in [1..Len(rows) -> Row]
  BY <1>1, <1>2 DEF settled
<1>4. QED
  BY <1>1, <1>2, <1>3, FunctionIsSeq

\* A step of the consumer.
LEMMA ConsumeKeeps ==
  ASSUME IInv, Consume \/ TaskRaises
  PROVE  IInv'
<1>1. CASE StartTask \/ IngestAgentEnds \/ record_writes
  BY <1>1, ConsumerKeeps
<1>2. CASE IngestEnds
  <2>1. CASE listed # <<>>
    BY <1>2, <2>1, ConsumerKeeps
  <2>2. CASE listed = <<>>
    <3>1. /\ step # "idle" /\ TaskDone("result") /\ UNCHANGED <<rows, index, head, beside, ingests>>
          /\ page' \in [Pages -> File] /\ failures' = failures /\ proposals' = proposals
      BY <1>2, <2>2 DEF IngestEnds, enforce_needs_review, tables, IInv, TypeOK, File
    <3>2. completed \subseteq completed'
      BY <3>1 DEF TaskDone
    <3>3. ApprovedWasRun'
      BY <3>1, <3>2, ApprovalsStay
    <3>4. failures' \in 0..MaxFailures /\ proposals' \in Seq({"pending", "approved", "rejected"})
         /\ Len(proposals') <= Len(proposals) + (IF running.kind = "ingest" THEN 1 ELSE 0)
      BY <3>1 DEF IInv, TypeOK
    <3>5. QED
      BY <3>1, <3>3, <3>4, EndKeeps
  <2>3. QED
    BY <2>1, <2>2
<1>3. CASE RegenerationEnds \/ LintEnds
  <2>1. /\ step # "idle" /\ TaskDone("result") /\ UNCHANGED <<rows, index, head, beside, ingests>>
        /\ page' \in [Pages -> File] /\ failures' = failures /\ proposals' = proposals
    BY <1>3
    DEF RegenerationEnds, LintEnds, enforce_needs_review, files, tables, IInv, TypeOK, File
  <2>2. completed \subseteq completed'
    BY <2>1 DEF TaskDone
  <2>3. ApprovedWasRun'
    BY <2>1, <2>2, ApprovalsStay
  <2>4. failures' \in 0..MaxFailures /\ proposals' \in Seq({"pending", "approved", "rejected"})
       /\ Len(proposals') <= Len(proposals) + (IF running.kind = "ingest" THEN 1 ELSE 0)
    BY <2>1 DEF IInv, TypeOK
  <2>5. QED
    BY <2>1, <2>3, <2>4, EndKeeps
<1>4. CASE propose_super_summary
  <2>1. /\ step = "propose" /\ TaskDone("result") /\ UNCHANGED <<rows, index, head, beside, ingests>>
        /\ page' \in [Pages -> File] /\ failures' = failures
        /\ proposals' = Append(proposals, "pending")
    BY <1>4 DEF propose_super_summary, files, IInv, TypeOK
  <2>2. completed \subseteq completed' /\ running.kind = "ingest"
    BY <2>1 DEF TaskDone, IInv, ConsumerIsShaped
  <2>3. proposals \in Seq({"pending", "approved", "rejected"})
    BY DEF IInv, TypeOK
  <2>4. proposals' \in Seq({"pending", "approved", "rejected"})
        /\ Len(proposals') = Len(proposals) + 1 /\ Len(proposals) \in Nat
    BY <2>1, <2>3
  <2>5. ApprovedWasRun'
    <3>1. ASSUME NEW i \in DOMAIN proposals', proposals'[i] = "approved"
          PROVE  i \in completed'
      <4>1. i \in DOMAIN proposals /\ proposals[i] = "approved"
        BY <2>1, <2>3, <3>1
      <4>2. QED
        BY <2>2, <4>1 DEF IInv, ApprovedWasRun
    <3>2. QED
      BY <3>1 DEF ApprovedWasRun
  <2>6. QED
    BY <2>1, <2>2, <2>4, <2>5, EndKeeps DEF IInv, TypeOK
<1>5. CASE TaskRaises
  <2>1. /\ step # "idle" /\ TaskDone("raised") /\ UNCHANGED <<rows, index, head, beside, ingests>>
        /\ page' \in [Pages -> File] /\ proposals' = proposals
    BY <1>5 DEF TaskRaises, files, tables, IInv, TypeOK
  <2>2. failures' \in 0..MaxFailures
    BY <1>5, WikiAssumptions DEF TaskRaises, IInv, TypeOK
  <2>3. completed \subseteq completed'
    BY <2>1 DEF TaskDone
  <2>4. QED
    BY <2>1, <2>2, <2>3, EndKeeps, ApprovalsStay DEF IInv, TypeOK
<1>6. QED
  BY <1>1, <1>2, <1>3, <1>4, <1>5 DEF Consume

\* A step of a page review.
LEMMA ReviewKeeps ==
  ASSUME IInv, NEW d \in Requests,
         \/ \E p \in Pages : approve_page(d, p) \/ reject_page(d, p)
         \/ git_checkout(d) \/ ClearRestored(d) \/ Unlink(d) \/ SelectRows(d) \/ CommitReview(d)
  PROVE  IInv'
<1>1. /\ request \in [Requests -> Request] /\ request[d] \in Request
      /\ rows \in Seq(Row) /\ DOMAIN rows = 1..Len(rows) /\ Len(rows) \in Nat
      /\ Len(rows) <= MaxRows /\ Idle \in Request
  BY WikiAssumptions DEF IInv, TypeOK, Idle, Request
<1>2. /\ UNCHANGED <<consumer, beside, ingests, failures, index, head>> /\ proposals' = proposals
      /\ page' \in [Pages -> File] /\ completed' = completed
  BY DEF approve_page, reject_page, git_checkout, ClearRestored, Unlink, SelectRows,
     CommitReview, clear_needs_review, files, tables, consumer, IInv, TypeOK, File
<1>3. ApprovedWasRun'
  BY <1>2, ApprovalsStay
<1>4. ASSUME NEW r \in Request, request' = [request EXCEPT ![d] = r],
             ~At(d, "await"), r.at \notin {"answered"}, r.at = "idle" => r = Idle,
             r.at = "commit" => \A i \in r.seen : i \in DOMAIN rows /\ rows[i].page = r.page,
             rows' \in Seq(Row), Len(rows') = Len(rows),
             \A i \in 1..Len(rows) : rows'[i].page = rows[i].page
      PROVE  IInv'
  BY <1>2, <1>3, <1>4, RequestKeeps DEF IInv, TypeOK
<1>5. ASSUME NEW at \in {"checkout", "restored", "unlink", "select"}, NEW p \in Pages,
             request' = [request EXCEPT ![d].at = at, ![d].page = p],
             ~At(d, "await"), rows' = rows
      PROVE  IInv'
  <2> DEFINE r == [request[d] EXCEPT !.at = at, !.page = p]
  <2>1. r \in Request /\ r.at = at
    BY <1>1 DEF Request
  <2>2. request' = [request EXCEPT ![d] = r]
    BY <1>1, <1>5
  <2> HIDE DEF r
  <2>3. QED
    BY <1>1, <1>4, <1>5, <2>1, <2>2
<1>6. CASE \E p \in Pages : approve_page(d, p) \/ reject_page(d, p)
  BY <1>5, <1>6 DEF approve_page, reject_page, Free, At, tables
<1>7. CASE git_checkout(d) \/ ClearRestored(d) \/ Unlink(d)
  <2>1. /\ rows' = rows /\ ~At(d, "await")
        /\ \E at \in {"restored", "unlink", "select"} : request' = [request EXCEPT ![d].at = at]
    BY <1>7 DEF git_checkout, ClearRestored, Unlink, Go, At, tables
  <2>2. PICK at \in {"restored", "unlink", "select"} : request' = [request EXCEPT ![d].at = at]
    BY <2>1
  <2>3. request[d].page \in Pages
    BY <1>1 DEF Request
  <2>4. request' = [request EXCEPT ![d].at = at, ![d].page = request[d].page]
    BY <1>1, <2>2 DEF Request
  <2>5. QED
    BY <1>5, <2>1, <2>3, <2>4
<1>8. CASE SelectRows(d)
  <2> DEFINE r == [request[d] EXCEPT !.at = "commit",
                     !.seen = {i \in DOMAIN rows : rows[i].page = request[d].page}]
  <2>1. {i \in DOMAIN rows : rows[i].page = request[d].page} \subseteq 1..MaxRows
    <3>1. MaxRows \in Nat
      <4>1. MaxIngests * of_one_ingest \in Nat
        BY Sizes, Times, WikiAssumptions
      <4>2. QED
        BY <4>1, Sizes
    <3>2. QED
      BY <1>1, <3>1
  <2>2. r \in Request /\ r.at = "commit" /\ r.page = request[d].page
        /\ r.seen = {i \in DOMAIN rows : rows[i].page = request[d].page}
    BY <1>1, <2>1 DEF Request
  <2>3. request' = [request EXCEPT ![d] = r] /\ ~At(d, "await") /\ rows' = rows
    BY <1>1, <1>8 DEF SelectRows, At, tables
  <2> HIDE DEF r
  <2>4. QED
    BY <1>1, <1>4, <2>2, <2>3
<1>9. CASE CommitReview(d)
  <2>1. request' = [request EXCEPT ![d] = Idle] /\ ~At(d, "await")
        /\ rows' = settled(request[d].seen) /\ Idle.at = "idle"
    BY <1>9 DEF CommitReview, At, Idle
  <2>2. rows' \in Seq(Row) /\ Len(rows') = Len(rows)
        /\ \A i \in 1..Len(rows) : rows'[i].page = rows[i].page
    BY SettledRows, <2>1
  <2>3. QED
    BY <1>1, <1>4, <2>1, <2>2
<1>10. QED
  BY <1>6, <1>7, <1>8, <1>9

\* A step about a proposal, or a lint.
LEMMA ProposalKeeps ==
  ASSUME IInv,
         \/ \E d \in Requests : \/ \E i \in DOMAIN proposals : approve_super_summary(d, i)
                                \/ trigger_lint(d) \/ Answer(d)
         \/ \E i \in DOMAIN proposals : reject_super_summary(i)
  PROVE  IInv'
<1> DEFINE Statuses == {"pending", "approved", "rejected"}
<1>1. /\ request \in [Requests -> Request] /\ Idle \in Request
      /\ proposals \in Seq(Statuses) /\ DOMAIN proposals \subseteq Proposal
  BY Sizes, WikiAssumptions DEF IInv, TypeOK, Idle, Request
<1>2. ASSUME NEW i, NEW status \in Statuses
      PROVE  /\ [proposals EXCEPT ![i] = status] \in Seq(Statuses)
             /\ Len([proposals EXCEPT ![i] = status]) = Len(proposals)
             /\ DOMAIN [proposals EXCEPT ![i] = status] = DOMAIN proposals
             /\ \A j \in DOMAIN proposals :
                  [proposals EXCEPT ![i] = status][j] = IF j = i THEN status ELSE proposals[j]
  <2> DEFINE n == Len(proposals)
             new == [proposals EXCEPT ![i] = status]
  <2>1. n \in Nat /\ DOMAIN proposals = 1..n /\ proposals \in [1..n -> Statuses]
    BY <1>1
  <2>2. new \in [1..n -> Statuses]
    BY <2>1
  <2>3. new \in Seq(Statuses) /\ Len(new) = n
    <3> HIDE DEF n, new, Statuses
    <3>1. QED
      BY <2>1, <2>2, FunctionIsSeq
  <2>4. QED
    BY <2>1, <2>3
<1>3. ASSUME NEW d \in Requests, NEW i \in DOMAIN proposals, approve_super_summary(d, i)
      PROVE  IInv'
  <2>1. request[d] = Idle
    BY <1>3 DEF approve_super_summary, Free, At, IInv, RequestsAreShaped
  <2>2. request' = [request EXCEPT ![d] = awaiting(i)]
    <3>1. [Idle EXCEPT !.at = "await"] = awaiting(NoProposal)
      BY DEF Idle, awaiting
    <3>2. [awaiting(NoProposal) EXCEPT !.proposal = i] = awaiting(i)
      BY DEF awaiting
    <3>3. request' = [request EXCEPT ![d] = [[Idle EXCEPT !.at = "await"] EXCEPT !.proposal = i]]
      BY <1>1, <1>3, <2>1 DEF approve_super_summary
    <3>4. QED
      BY <3>1, <3>2, <3>3
  <2>3. i \in Proposal
    BY <1>1
  <2>4. Free(d) /\ submit(task("summary", d, i))
        /\ UNCHANGED <<files, tables, step, agents, listed, completed, ingests, failures, beside>>
    BY <1>3 DEF approve_super_summary
  <2>5. QED
    BY <2>2, <2>3, <2>4, SubmitKeeps
<1>4. ASSUME NEW d \in Requests, trigger_lint(d)
      PROVE  IInv'
  <2>1. request[d] = Idle
    BY <1>4 DEF trigger_lint, Free, At, IInv, RequestsAreShaped
  <2>2. request' = [request EXCEPT ![d] = awaiting(NoProposal)]
    <3>1. [Idle EXCEPT !.at = "await"] = awaiting(NoProposal)
      BY DEF Idle, awaiting
    <3>2. request' = [request EXCEPT ![d] = [Idle EXCEPT !.at = "await"]]
      BY <1>1, <1>4, <2>1 DEF trigger_lint, Go
    <3>3. QED
      BY <3>1, <3>2
  <2>3. Free(d) /\ submit(task("lint", d, NoProposal))
        /\ UNCHANGED <<files, tables, step, agents, listed, completed, ingests, failures, beside>>
    BY <1>4 DEF trigger_lint
  <2>4. QED
    BY <2>2, <2>3, SubmitKeeps
<1>5. ASSUME NEW d \in Requests, Answer(d)
      PROVE  IInv'
  <2> DEFINE i == request[d].proposal
  <2>1. /\ request[d].at = "answered" /\ request' = [request EXCEPT ![d] = Idle]
        /\ UNCHANGED <<files, rows, consumer, ingests, failures, beside>>
        /\ proposals' = IF i = NoProposal THEN proposals ELSE [proposals EXCEPT ![i] = "approved"]
        /\ Idle.at = "idle"
    BY <1>5 DEF Answer, At, Idle
  <2>2. i = NoProposal \/ i \in completed
    BY <2>1 DEF IInv, AnsweredWasRun, At
  <2>3. proposals' \in Seq(Statuses) /\ Len(proposals') = Len(proposals)
    BY <1>1, <1>2, <2>1
  <2>4. ApprovedWasRun'
    <3>1. completed' = completed
      BY <2>1 DEF consumer
    <3>2. \A j \in DOMAIN proposals' :
            j \in DOMAIN proposals /\ (proposals'[j] = proposals[j] \/ (j = i /\ i # NoProposal))
      BY <1>2, <2>1
    <3>3. QED
      BY <2>2, <3>1, <3>2 DEF IInv, ApprovedWasRun
  <2>5. UNCHANGED <<page, index, head>>
    BY <2>1 DEF files
  <2>6. QED
    BY <1>1, <2>1, <2>3, <2>4, <2>5, RequestKeeps DEF IInv, TypeOK, At
<1>6. ASSUME NEW i \in DOMAIN proposals, reject_super_summary(i)
      PROVE  IInv'
  <2>1. /\ proposals' = [proposals EXCEPT ![i] = "rejected"]
        /\ UNCHANGED <<files, rows, consumer, request, ingests, failures, beside>>
    BY <1>6 DEF reject_super_summary
  <2>2. proposals' \in Seq(Statuses) /\ Len(proposals') = Len(proposals)
    BY <1>2, <2>1
  <2>3. ApprovedWasRun'
    BY <1>2, <2>1 DEF IInv, ApprovedWasRun, consumer
  <2>4. QED
    BY <2>1, <2>2, <2>3, AsideKeeps DEF IInv, TypeOK, files, beside
<1>7. QED
  BY <1>3, <1>4, <1>5, <1>6

\* A step of wiki reconcile; the pages it takes for unknown are not adopted yet.
LEMMA CommandKeeps ==
  ASSUME IInv, Repair \/ CommandFails \/ \E options \in Options : SurveyRows(options)
  PROVE  IInv'
<1>1. command \in Command /\ NoCommand \in Command /\ NoCommand.unknown = {}
  BY DEF IInv, TypeOK, NoCommand, Command
<1>2. ASSUME UNCHANGED <<tables, consumer, request, cast, orphans, ingests, index, head>>,
             page' \in [Pages -> File], failures' \in 0..MaxFailures,
             command' \in Command, command'.unknown \subseteq command.unknown
      PROVE  IInv'
  <2>1. ApprovedWasRun'
    BY <1>2 DEF IInv, ApprovedWasRun, tables, consumer
  <2>2. QED
    BY <1>2, <2>1, AsideKeeps DEF IInv, TypeOK, tables
<1>3. CASE SurveyFiles
  <2>1. command' \in Command /\ command'.unknown \subseteq command.unknown
    BY <1>1, <1>3 DEF SurveyFiles, Command
  <2>2. QED
    BY <1>2, <1>3, <2>1 DEF SurveyFiles, files, IInv, TypeOK
<1>4. CASE CheckStatus
  <2>1. command' \in Command /\ command'.unknown \subseteq command.unknown
    BY <1>1, <1>4 DEF CheckStatus, Command
  <2>2. QED
    BY <1>2, <1>4, <2>1 DEF CheckStatus, files, IInv, TypeOK
<1>5. ASSUME NEW p \in Pages, apply_stale_label(p)
      PROVE  IInv'
  <2>1. command' \in Command /\ command'.unknown \subseteq command.unknown
    BY <1>1, <1>5 DEF apply_stale_label, Command
  <2>2. page' \in [Pages -> File]
    BY <1>5 DEF apply_stale_label, clear_needs_review, IInv, TypeOK, File
  <2>3. QED
    BY <1>2, <1>5, <2>1, <2>2 DEF apply_stale_label, IInv, TypeOK
<1>6. CASE CommandFails
  <2>1. failures' \in 0..MaxFailures
    BY <1>6, WikiAssumptions DEF CommandFails, IInv, TypeOK
  <2>2. QED
    BY <1>1, <1>2, <1>6, <2>1 DEF CommandFails, files, IInv, TypeOK
<1>7. ASSUME NEW options \in Options, SurveyRows(options)
      PROVE  IInv'
  <2>1. /\ UNCHANGED <<cast, orphans, files, tables, consumer, request, ingests, failures>>
        /\ command'.unknown = Pages \ known /\ command' \in Command
    <3>1. known \ pending \subseteq Pages
      <4>1. \A i \in DOMAIN rows : rows[i] \in Row
        BY DEF IInv, TypeOK
      <4>2. QED
        BY <4>1 DEF known, Row
    <3>2. options \subseteq UNION Options
      OBVIOUS
    <3>3. QED
      BY <1>7, <3>1, <3>2 DEF SurveyRows, Command
  <2>2. RowsAreCounted'
    <3>1. known' = known /\ rows' = rows /\ recorded_at_most' = recorded_at_most
      BY <2>1 DEF known, tables, recorded_at_most, over, consumer, of_one_ingest
    <3>2. PICK adopted \in SUBSET known : Len(rows) <= recorded_at_most + Cardinality(adopted)
      BY DEF IInv, RowsAreCounted
    <3>3. adopted \cap command'.unknown = {}
      BY <2>1
    <3>4. QED
      BY <3>1, <3>2, <3>3 DEF RowsAreCounted
  <2>3. /\ RequestsAreShaped' /\ FuturesAreHeld' /\ AnsweredWasRun' /\ SeenIsOfPage'
        /\ ConsumerIsShaped' /\ ProposalsAreCounted' /\ ApprovedWasRun'
    BY <2>1 DEF IInv, RequestsAreShaped, FuturesAreHeld, AnsweredWasRun, SeenIsOfPage, At,
       ConsumerIsShaped, ProposalsAreCounted, ApprovedWasRun, over, running, consumer, tables
  <2>4. TypeOK'
    BY <2>1 DEF IInv, TypeOK, consumer, tables, files
  <2>5. QED
    BY <2>2, <2>3, <2>4 DEF IInv
<1>8. QED
  BY <1>3, <1>4, <1>5, <1>6, <1>7, AdoptKeeps DEF Repair

\* Every step keeps the invariant.
LEMMA StepKeeps == IInv /\ [Next]_vars => IInv'
<1> SUFFICES ASSUME IInv, [Next]_vars PROVE IInv'
  OBVIOUS
<1>1. ASSUME NEW p \in Pages,
             AgentWrites(p) \/ OwnerDeletes(p) \/ OwnerStages(p) \/ OwnerCommits(p)
             \/ OrphanEnds
      PROVE  IInv'
  <2>1. /\ UNCHANGED <<consumer, request, cast, command, tables, ingests, failures>>
        /\ page' \in [Pages -> File] /\ index' \in [Pages -> File]
        /\ head' \in [Pages -> File] /\ orphans' \subseteq {"ingest", "summary"}
    BY <1>1 DEF AgentWrites, OwnerDeletes, OwnerStages, OwnerCommits, OrphanEnds, files, beside,
       IInv, TypeOK, File
  <2>2. ApprovedWasRun'
    BY <2>1 DEF IInv, ApprovedWasRun, tables, consumer
  <2>3. QED
    BY <2>1, <2>2, AsideKeeps DEF IInv, TypeOK, tables
<1>2. CASE UNCHANGED vars
  <2>1. ApprovedWasRun'
    BY <1>2 DEF IInv, ApprovedWasRun, tables, consumer, vars
  <2>2. UNCHANGED <<consumer, request, cast, command, tables, ingests, failures, page, index,
                  head, orphans>>
    BY <1>2 DEF vars, files, beside
  <2>3. QED
    BY <2>1, <2>2, AsideKeeps DEF IInv, TypeOK, tables
<1>3. CASE OrphanEnds
  <2>1. Pages # {}
    BY WikiAssumptions
  <2>2. QED
    BY <1>1, <1>3, <2>1
<1>4. QED
  BY <1>1, <1>2, <1>3, ConsumeKeeps, ReviewKeeps, ProposalKeeps, CommandKeeps, EnqueueKeeps,
     FailureKeeps, CrashKeeps DEF Next, Review

\* Nothing is written, asked or enqueued at first.
LEMMA InitSound == Init => IInv
<1> SUFFICES ASSUME Init PROVE IInv
  OBVIOUS
<1>1. Idle \in Request /\ NoCommand \in Command
  BY WikiAssumptions DEF Idle, Request, NoCommand, Command
<1>2. Cardinality(ingests_in(queue)) = 0
  <2>1. ingests_in(queue) = {}
    BY DEF Init, ingests_in
  <2>2. QED
    BY <2>1, FS_EmptySet
<1>3. over = 0 /\ of_one_ingest \in Nat /\ Cardinality(Pages) \in Nat
  BY <1>2, Times, ListOfPages, WikiAssumptions DEF Init, over, of_one_ingest
<1>4. ConsumerIsShaped /\ ProposalsAreCounted
  <2>1. 0 <= 0 * Cardinality(Pages)
    BY <1>3
  <2>2. QED
    BY <1>3, <2>1 DEF Init, ConsumerIsShaped, ProposalsAreCounted
<1>5. RowsAreCounted
  <2>1. recorded_at_most = 0
    BY <1>3 DEF Init, recorded_at_most
  <2>2. {} \in SUBSET known /\ Cardinality({}) = 0 /\ Len(rows) = 0
    BY FS_EmptySet DEF Init
  <2>3. QED
    BY <2>1, <2>2 DEF RowsAreCounted
<1>6. RequestsAreShaped /\ FuturesAreHeld /\ AnsweredWasRun /\ SeenIsOfPage /\ ApprovedWasRun
  BY DEF Init, RequestsAreShaped, FuturesAreHeld, AnsweredWasRun, SeenIsOfPage, ApprovedWasRun,
     At, Idle
<1>7. TypeOK
  <2>1. MaxRows \in Nat
    <3>1. MaxIngests * Artifacts + 1 \in Nat
      BY Times, WikiAssumptions
    <3>2. QED
      BY <1>3, <3>1, Times DEF MaxRows
  <2>2. Len(rows) <= MaxRows /\ rows \in Seq(Row)
    BY <2>1 DEF Init
  <2>3. /\ proposals \in Seq({"pending", "approved", "rejected"})
        /\ queue \in Seq(Task) /\ listed \in Seq(Pages)
    BY DEF Init
  <2>4. agents \in 0..Artifacts /\ ingests \in 0..MaxIngests /\ failures \in 0..MaxFailures
    BY WikiAssumptions DEF Init
  <2>5. QED
    BY <1>1, <2>2, <2>3, <2>4 DEF Init, TypeOK, File
<1>8. QED
  BY <1>4, <1>5, <1>6, <1>7 DEF IInv

(***************************************************************************)
(* The theorems.                                                           *)
(***************************************************************************)

\* The consumer, the requests, the tables and a command agree on what is in flight.
THEOREM Inductive == Spec => []IInv
<1>1. Init => IInv
  BY InitSound
<1>2. IInv /\ [Next]_vars => IInv'
  BY StepKeeps
<1>3. QED
  BY <1>1, <1>2, PTL DEF Spec

\* The tables stay within what the ingests make of them, for any number of them.
THEOREM TypeCorrect == Spec => []TypeOK
<1>1. IInv => TypeOK
  BY DEF IInv
<1>2. QED
  BY <1>1, Inductive, PTL

\* A proposal reads approved only when its regeneration was run to its end, for any
\* number of requests that approve, reject, fail or lose the server at any moment.
THEOREM ApprovalIsEarned == Spec => []ApprovedWasRun
<1>1. IInv => ApprovedWasRun
  BY DEF IInv
<1>2. QED
  BY <1>1, Inductive, PTL

\* A row leaves the review queue only by the review that loaded it.
LEMMA StepSettlesSeen ==
  ASSUME IInv, [Next]_vars, NEW i \in 1..MaxRows, i \in review_queue, i \notin review_queue'
  PROVE  \E d \in Requests :
           request[d].page = rows[i].page /\ i \in request[d].seen /\ request'[d] = Idle
<1>1. rows \in Seq(Row) /\ i \in DOMAIN rows /\ rows[i].needs_review
      /\ request \in [Requests -> Request]
  BY DEF review_queue, IInv, TypeOK
<1>2. ASSUME i \in DOMAIN rows', rows'[i] = rows[i]
      PROVE  FALSE
  BY <1>1, <1>2 DEF review_queue
<1>3. rows' # rows
  BY <1>1, <1>2
<1>4. ASSUME NEW more \in Seq(Row), rows' = rows \o more
      PROVE  FALSE
  <2>1. i \in DOMAIN (rows \o more) /\ (rows \o more)[i] = rows[i]
    BY <1>1, Added
  <2>2. QED
    BY <1>2, <1>4, <2>1
<1>5. CASE record_writes
  <2>1. rows' = rows \o recorded
    BY <1>5 DEF record_writes
  <2>2. listed \in Seq(Pages)
    BY DEF IInv, TypeOK
  <2>3. recorded \in [1..Len(listed) -> Row] /\ Len(listed) \in Nat
    BY <2>2 DEF recorded, Row
  <2>4. recorded \in Seq(Row)
    BY <2>3, FunctionIsSeq
  <2>5. QED
    BY <1>4, <2>1, <2>4
<1>6. CASE adopt_unknown
  <2> DEFINE new == command.unknown
             more == [j \in 1..Cardinality(new) |->
                        [page |-> SetToSeq(new)[j], needs_review |-> TRUE]]
  <2>1. rows' = rows \o more
    BY <1>3, <1>6 DEF adopt_unknown
  <2>2. new \in SUBSET Pages
    BY DEF IInv, TypeOK, Command
  <2>3. Cardinality(new) \in Nat /\ SetToSeq(new) \in Seq(new)
        /\ Len(SetToSeq(new)) = Cardinality(new)
    BY <2>2, ListOfPages
  <2>4. \A j \in 1..Cardinality(new) : SetToSeq(new)[j] \in Pages
    BY <2>2, <2>3
  <2>5. more \in [1..Cardinality(new) -> Row]
    BY <2>3, <2>4 DEF Row
  <2>6. more \in Seq(Row)
    <3> DEFINE n == Cardinality(new)
    <3>1. n \in Nat /\ more \in [1..n -> Row]
      BY <2>3, <2>5
    <3> HIDE DEF n, more
    <3>2. QED
      BY <3>1, FunctionIsSeq
  <2> HIDE DEF more
  <2>7. QED
    BY <1>4, <2>1, <2>6
<1>7. ASSUME NEW d \in Requests, CommitReview(d)
      PROVE  request[d].page = rows[i].page /\ i \in request[d].seen /\ request'[d] = Idle
  <2>1. request[d].at = "commit" /\ rows' = settled(request[d].seen) /\ request'[d] = Idle
    BY <1>1, <1>7 DEF CommitReview, At
  <2>2. i \in request[d].seen
    BY <1>1, <1>2, <2>1 DEF settled
  <2>3. QED
    BY <2>1, <2>2 DEF IInv, SeenIsOfPage, At
<1>8. QED
  BY <1>3, <1>5, <1>6, <1>7 DEF Next, Consume, Review, Repair, StartTask, IngestAgentEnds,
     IngestEnds, RegenerationEnds, LintEnds, propose_super_summary, TaskRaises, AgentWrites,
     OwnerDeletes, OwnerStages, OwnerCommits, OrphanEnds, approve_page, reject_page, approve_super_summary, trigger_lint,
     git_checkout, ClearRestored, Unlink, SelectRows, Answer, RequestFails,
     reject_super_summary, SurveyRows, SurveyFiles, CheckStatus, apply_stale_label,
     CommandFails, EnqueueIngest, Crash, tables, vars

\* A row leaves the review queue only by a review of its page that had loaded it, and
\* what is recorded after the load stays, for any number of concurrent reviews.
THEOREM SettlementIsSeen == Spec => SettledWasSeen
<1> DEFINE Settles ==
      \A i \in 1..MaxRows : i \in review_queue /\ i \notin review_queue' =>
        \E d \in Requests :
          request[d].page = rows[i].page /\ i \in request[d].seen /\ request'[d] = Idle
<1>1. IInv /\ [Next]_vars => [Settles]_vars
  BY StepSettlesSeen
<1>2. QED
  BY <1>1, Inductive, PTL DEF Spec, SettledWasSeen
================================================================================
