---------------------------- MODULE QaLoop_proofs ----------------------------
(***************************************************************************)
(* Theorems of QaLoop, for any number of requests, any cap and any bounds. *)
(* The argument is the write lock: a request that issues a round holds it, *)
(* so the rows it numbers the round after are those it will commit; and    *)
(* what it will commit either extends the transcript that is committed or  *)
(* is one begun anew, with its first round.                                *)
(***************************************************************************)
EXTENDS QaLoop, TLAPS, WellFoundedInduction

(***************************************************************************)
(* Lemmas about rounds.                                                    *)
(***************************************************************************)

\* A non-empty set of numbers up to n has a greatest one.
LEMMA GreatestExists ==
  ASSUME NEW n \in Nat, NEW S, S \subseteq 0..n, S # {}
  PROVE  \E x \in S : \A y \in S : x >= y
<1> DEFINE T == {t \in Nat : n - t \in S}
<1>1. T \subseteq Nat /\ T # {}
  <2>1. PICK x \in S : TRUE
    OBVIOUS
  <2>2. x \in Int /\ n - x \in Nat /\ n - (n - x) = x
    OBVIOUS
  <2>3. n - x \in T
    BY <2>2
  <2>4. QED
    BY <2>3
<1>2. PICK t \in T : \A y \in T : ~ (<<y, t>> \in OpToRel(<, Nat))
  <2>1. IsWellFoundedOn(OpToRel(<, Nat), Nat)
    BY NatLessThanWellFounded
  <2>2. QED
    BY <1>1, <2>1, WFMin
<1>3. \A y \in T : ~ (y < t)
  BY <1>1, <1>2 DEF OpToRel
<1>4. ASSUME NEW y \in S PROVE n - t >= y
  <2>1. n - y \in T
    OBVIOUS
  <2>2. ~ (n - y < t)
    BY <1>3, <2>1
  <2>3. QED
    BY <2>2
<1>5. QED
  BY <1>4

\* _rounds_used is the number of some turn of the model, or 0, and no turn of
\* the model has a higher one.
LEMMA RoundsUsed ==
  ASSUME NEW s \in Seq(Turn)
  PROVE  /\ rounds_used(s) \in 0..MaxRounds
         /\ \A i \in DOMAIN s : s[i].round \in 0..MaxRounds
         /\ \A i \in DOMAIN s : s[i].role # "user" => s[i].round <= rounds_used(s)
         /\ (\A i \in DOMAIN s : s[i].role = "user") => rounds_used(s) = 0
<1> USE LoopAssumptions
<1> DEFINE S == {0} \cup {s[i].round : i \in {j \in DOMAIN s : s[j].role # "user"}}
<1>1. \A i \in DOMAIN s : s[i].round \in 0..MaxRounds
  <2>1. \A i \in DOMAIN s : s[i] \in Turn
    OBVIOUS
  <2>2. QED
    BY <2>1 DEF Turn
<1>2. S \subseteq 0..MaxRounds /\ S # {}
  BY <1>1
<1>3. \E x \in S : \A y \in S : x >= y
  BY <1>2, GreatestExists
<1>4. rounds_used(s) \in S /\ \A y \in S : rounds_used(s) >= y
  BY <1>3 DEF rounds_used, Max
<1>5. QED
  BY <1>1, <1>2, <1>4

(***************************************************************************)
(* The inductive invariant.                                                *)
(***************************************************************************)

\* No round is issued twice.
Distinct(s) ==
  \A i, j \in DOMAIN s :
    Issued(s[i]) /\ Issued(s[j]) =>
      /\ s[i].round \in 1..MaxRounds
      /\ i # j => s[i].round # s[j].round

\* Who asks the model holds the lock, and who holds it is past its first reads.
Locked ==
  \A r \in Requests :
    /\ request[r].at = "ask" => writer = r
    /\ writer = r =>
         request[r].at \in {"open", "ask", "finalize", "document", "record", "advance"}

\* A transcript a restart has begun: empty, opened, or with its first round.
Anew(s, at) ==
  \/ s = <<>> /\ at = "open"
  \/ s = <<turn("user", 0)>> /\ at = "ask"
  \/ /\ Len(s) >= 2 /\ s[1] = turn("user", 0) /\ Issued(s[2])
     /\ at \in {"finalize", "document", "record", "advance"}

DraftIsSound ==
  writer # None => IsPrefix(turns, draft) \/ Anew(draft, request[writer].at)

IInv ==
  /\ TypeOK /\ Locked
  /\ Distinct(turns) /\ Distinct(draft)
  /\ DraftIsSound

(***************************************************************************)
(* Lemmas about transcripts.                                               *)
(***************************************************************************)

\* Turns and the idle request are of their types.
LEMMA TurnTypes ==
  /\ \A role \in {"user", "questions", "closing", "document"}, n \in 0..MaxRounds :
       /\ turn(role, n) \in Turn
       /\ turn(role, n).role = role /\ turn(role, n).round = n
  /\ Idle \in Request /\ Idle.at = "idle"
BY LoopAssumptions DEF turn, Turn, Idle, Request

\* What is not a round may be appended at any time.
LEMMA AppendKeepsDistinct ==
  ASSUME NEW s \in Seq(Turn), NEW t \in Turn, Distinct(s), ~Issued(t)
  PROVE  Distinct(Append(s, t))
BY DEF Distinct

\* A round may be appended after those that were used.
LEMMA NextRoundIsDistinct ==
  ASSUME NEW s \in Seq(Turn), Distinct(s),
         NEW role \in {"questions", "closing"}, rounds_used(s) < MaxRounds
  PROVE  /\ turn(role, rounds_used(s) + 1) \in Turn
         /\ Distinct(Append(s, turn(role, rounds_used(s) + 1)))
<1> USE LoopAssumptions
<1> DEFINE n == rounds_used(s) + 1
           t == turn(role, n)
<1>1. n \in 1..MaxRounds /\ \A i \in DOMAIN s : s[i].role # "user" => s[i].round < n
  <2>1. \A i \in DOMAIN s : s[i].round \in 0..MaxRounds
    BY RoundsUsed
  <2>2. QED
    BY <2>1, RoundsUsed
<1>2. t \in Turn /\ t.round = n
  BY <1>1, TurnTypes
<1>3. \A i \in DOMAIN s : Issued(s[i]) => s[i].round < n
  BY <1>1 DEF Issued
<1>4. QED
  <2> DEFINE u == Append(s, t)
  <2>1. /\ DOMAIN u = 1..(Len(s) + 1) /\ u[Len(s) + 1] = t
        /\ \A i \in DOMAIN s : u[i] = s[i]
        /\ DOMAIN s = 1..Len(s) /\ Len(s) \in Nat
    BY <1>2
  <2>2. SUFFICES ASSUME NEW i \in DOMAIN u, NEW j \in DOMAIN u, Issued(u[i]), Issued(u[j])
                 PROVE  u[i].round \in 1..MaxRounds /\ (i # j => u[i].round # u[j].round)
    BY <1>2 DEF Distinct
  <2>3. i \in DOMAIN s \/ i = Len(s) + 1
    BY <2>1
  <2>4. j \in DOMAIN s \/ j = Len(s) + 1
    BY <2>1
  <2>5. CASE i \in DOMAIN s /\ j \in DOMAIN s
    BY <2>1, <2>2, <2>5 DEF Distinct
  <2>6. CASE i \in DOMAIN s /\ j = Len(s) + 1
    <3>1. s[i].round \in 1..MaxRounds
      BY <2>1, <2>2, <2>6 DEF Distinct
    <3>2. QED
      BY <3>1, <2>1, <2>2, <2>6, <1>1, <1>2, <1>3
  <2>7. CASE i = Len(s) + 1 /\ j \in DOMAIN s
    <3>1. s[j].round \in 1..MaxRounds
      BY <2>1, <2>2, <2>7 DEF Distinct
    <3>2. QED
      BY <3>1, <2>1, <2>2, <2>7, <1>1, <1>2, <1>3
  <2>8. CASE i = Len(s) + 1 /\ j = Len(s) + 1
    BY <2>1, <2>8, <1>1, <1>2
  <2>9. QED
    BY <2>3, <2>4, <2>5, <2>6, <2>7, <2>8

\* Appending extends.
LEMMA PrefixGrows ==
  ASSUME NEW s \in Seq(Turn), NEW u \in Seq(Turn), NEW t \in Turn, IsPrefix(s, u)
  PROVE  IsPrefix(s, Append(u, t))
BY DEF IsPrefix

\* A transcript extends itself.
LEMMA PrefixIsReflexive == ASSUME NEW s \in Seq(Turn) PROVE IsPrefix(s, s)
BY DEF IsPrefix

(***************************************************************************)
(* What the steps have in common.                                          *)
(***************************************************************************)

Holding == {"open", "ask", "finalize", "document", "record", "advance"}

BoundsTyped ==
  /\ phase' \in {"qa", "srs"} /\ srs' \in BOOLEAN
  /\ restarts' \in 0..MaxRestarts /\ rejections' \in 0..MaxRejections
  /\ failures' \in 0..MaxFailures

\* A request that writes rows takes or has the lock, and goes on holding it.
LEMMA WriteKeeps ==
  ASSUME IInv, BoundsTyped, NEW r \in Requests,
         NEW rows \in Seq(Turn), Distinct(rows), Write(r, rows),
         NEW at \in Holding, Go(r, at),
         IsPrefix(turns, rows) \/ Anew(rows, at)
  PROVE  IInv'
<1>1. request' \in [Requests -> Request]
  BY DEF IInv, TypeOK, Request, Go, Holding
<1>2. /\ request'[r].at = at
      /\ \A q \in Requests \ {r} : request'[q] = request[q]
  BY DEF IInv, TypeOK, Request, Go
<1>3. writer' = r /\ draft' = rows /\ turns' = turns /\ writer \in {r, None}
  BY DEF Write
<1>4. TypeOK'
  BY <1>1, <1>3 DEF TypeOK, BoundsTyped, IInv
<1>5. Locked'
  <2>1. \A q \in Requests \ {r} : request[q].at # "ask"
    BY <1>3, NoneAssumption DEF IInv, Locked
  <2>2. QED
    BY <1>2, <1>3, <2>1 DEF Locked, Holding
<1>6. DraftIsSound'
  BY <1>2, <1>3 DEF DraftIsSound, Anew, turn, Issued
<1>7. QED
  BY <1>3, <1>4, <1>5, <1>6 DEF IInv, Distinct, Issued

\* A request goes on without writing.
LEMMA MoveKeeps ==
  ASSUME IInv, BoundsTyped, NEW r \in Requests, UNCHANGED db,
         NEW q \in Request, request' = [request EXCEPT ![r] = q],
         q.at # "ask",
         writer = r => q.at \in Holding /\ (Anew(draft, request[r].at) => Anew(draft, q.at))
  PROVE  IInv'
<1>1. request' \in [Requests -> Request]
  BY DEF IInv, TypeOK
<1>2. /\ request'[r] = q
      /\ \A p \in Requests \ {r} : request'[p] = request[p]
  BY DEF IInv, TypeOK
<1>3. writer' = writer /\ draft' = draft /\ turns' = turns
  BY DEF db
<1>4. TypeOK'
  BY <1>1, <1>3 DEF TypeOK, BoundsTyped, IInv
<1>5. Locked'
  BY <1>2, <1>3 DEF IInv, Locked, Holding
<1>6. DraftIsSound'
  BY <1>2, <1>3 DEF IInv, TypeOK, DraftIsSound, Anew, turn, Issued
<1>7. QED
  BY <1>3, <1>4, <1>5, <1>6 DEF IInv, Distinct, Issued

\* A request ends, and the transcript is as before or what it saw of it.
LEMMA ReleaseKeeps ==
  ASSUME IInv, BoundsTyped, NEW r \in Requests, Release(r), turns' \in {turns, view(r)}
  PROVE  IInv'
<1>1. request' \in [Requests -> Request]
  BY TurnTypes DEF IInv, TypeOK, Release
<1>2. /\ request'[r] = Idle
      /\ \A p \in Requests \ {r} : request'[p] = request[p]
  BY DEF IInv, TypeOK, Release
<1>3. CASE writer = r
  <2>1. writer' = None /\ draft' = <<>> /\ turns' \in {turns, draft}
    BY <1>3 DEF Release, view
  <2>2. TypeOK'
    BY <1>1, <2>1 DEF TypeOK, BoundsTyped, IInv
  <2>3. Locked'
    <3>1. \A p \in Requests \ {r} : request[p].at # "ask"
      BY <1>3 DEF IInv, Locked
    <3>2. None \notin Requests
      BY NoneAssumption
    <3>3. QED
      BY <1>2, <2>1, <3>1, <3>2, TurnTypes DEF Locked
  <2>4. DraftIsSound'
    BY <2>1 DEF DraftIsSound
  <2>5. Distinct(turns)' /\ Distinct(draft)'
    BY <2>1 DEF IInv, Distinct, Issued
  <2>6. QED
    BY <2>2, <2>3, <2>4, <2>5 DEF IInv
<1>4. CASE writer # r
  <2>1. writer' = writer /\ draft' = draft /\ turns' = turns
    BY <1>4 DEF Release, view
  <2>2. TypeOK'
    BY <1>1, <2>1 DEF TypeOK, BoundsTyped, IInv
  <2>3. Locked'
    BY <1>2, <1>4, <2>1, TurnTypes DEF IInv, Locked
  <2>4. DraftIsSound'
    BY <1>2, <1>4, <2>1 DEF IInv, TypeOK, DraftIsSound, Anew, turn, Issued
  <2>5. QED
    BY <2>1, <2>2, <2>3, <2>4 DEF IInv, Distinct, Issued
<1>5. QED
  BY <1>3, <1>4

\* Going on changes the place of one request.
LEMMA GoMoves ==
  ASSUME TypeOK, NEW r \in Requests, NEW at \in Holding, Go(r, at)
  PROVE  \E q \in Request : request' = [request EXCEPT ![r] = q] /\ q.at = at
<1> DEFINE q == [request[r] EXCEPT !.at = at]
<1>1. q \in Request /\ q.at = at
  BY DEF TypeOK, Request, Holding
<1>2. request' = [request EXCEPT ![r] = q]
  BY DEF Go, TypeOK, Request
<1>3. QED
  BY <1>1, <1>2

(***************************************************************************)
(* One lemma for each group of actions.                                    *)
(***************************************************************************)

\* The first reads take no lock, so a request that makes them has none.
LEMMA ReadsKeep ==
  ASSUME IInv, NEW r \in Requests,
         \/ \E op \in {"start", "restart", "answer", "finalize"} : Load(r, op)
         \/ StartWithoutContext(r) \/ ReadForAnswers(r) \/ NotStarted(r)
  PROVE  IInv'
<1> USE LoopAssumptions
<1>1. request[r].at \in {"idle", "loaded"} /\ writer # r
  <2>1. request[r].at \in {"idle", "loaded"}
    BY TurnTypes DEF Load, StartWithoutContext, ReadForAnswers, NotStarted, At
  <2>2. QED
    BY <2>1 DEF IInv, Locked
<1>2. BoundsTyped
  BY DEF IInv, TypeOK, BoundsTyped, Load, StartWithoutContext, ReadForAnswers, NotStarted, bounds
<1>3. ASSUME NEW op \in {"start", "restart", "answer", "finalize"}, Load(r, op)
      PROVE  IInv'
  <2> DEFINE q == [request[r] EXCEPT !.op = op, !.at = "loaded"]
  <2>1. q \in Request /\ q.at = "loaded" /\ request' = [request EXCEPT ![r] = q]
    BY <1>3 DEF IInv, TypeOK, Request, Load
  <2>2. QED
    BY <1>1, <1>2, <1>3, <2>1, MoveKeeps DEF Load
<1>4. CASE StartWithoutContext(r)
  <2>1. \E q \in Request : request' = [request EXCEPT ![r] = q] /\ q.at \in {"open", "advance"}
    BY <1>4, GoMoves DEF IInv, StartWithoutContext, Holding
  <2>2. QED
    BY <1>1, <1>2, <1>4, <2>1, MoveKeeps DEF StartWithoutContext
<1>5. CASE ReadForAnswers(r)
  <2> DEFINE q == [request[r] EXCEPT !.at = "append", !.round = rounds_used(turns)]
  <2>1. q \in Request /\ q.at = "append" /\ request' = [request EXCEPT ![r] = q]
    BY <1>5, RoundsUsed DEF IInv, TypeOK, Request, ReadForAnswers
  <2>2. QED
    BY <1>1, <1>2, <1>5, <2>1, MoveKeeps DEF ReadForAnswers
<1>6. CASE NotStarted(r)
  BY <1>1, <1>2, <1>6, TurnTypes, MoveKeeps DEF NotStarted
<1>7. QED
  BY <1>3, <1>4, <1>5, <1>6

\* What each kind of request writes first.
LEMMA FirstWritesKeep ==
  ASSUME IInv, NEW r \in Requests,
         \/ StartWithContext(r) \/ ClearTranscript(r) \/ AppendOpening(r)
         \/ AppendAnswers(r)
  PROVE  IInv'
<1> USE LoopAssumptions
<1>1. turns \in Seq(Turn) /\ draft \in Seq(Turn) /\ Distinct(turns) /\ Distinct(draft)
  BY DEF IInv, TypeOK
<1>2. BoundsTyped
  BY DEF IInv, TypeOK, BoundsTyped, StartWithContext, ClearTranscript, AppendOpening,
         AppendAnswers, bounds
<1>3. CASE StartWithContext(r)
  BY <1>1, <1>2, <1>3, PrefixIsReflexive, WriteKeeps DEF StartWithContext, Holding
<1>4. CASE ClearTranscript(r)
  <2>1. <<>> \in Seq(Turn) /\ Distinct(<<>>) /\ Anew(<<>>, "open")
    BY DEF Distinct, Anew
  <2>2. QED
    BY <1>2, <1>4, <2>1, WriteKeeps DEF ClearTranscript, Holding
<1>5. CASE AppendOpening(r)
  <2> DEFINE t == turn("user", 0)
             rows == Append(view(r), t)
  <2>1. t \in Turn /\ ~Issued(t)
    BY TurnTypes DEF Issued
  <2>2. view(r) \in Seq(Turn) /\ Distinct(view(r))
    BY <1>1 DEF view
  <2>3. rows \in Seq(Turn) /\ Distinct(rows)
    BY <2>1, <2>2, AppendKeepsDistinct
  <2>4. IsPrefix(turns, view(r)) \/ view(r) = <<>>
    <3>1. CASE writer = r
      <4>1. request[r].at = "open" /\ writer # None
        BY <1>5, <3>1, NoneAssumption DEF AppendOpening
      <4>2. IsPrefix(turns, draft) \/ Anew(draft, "open")
        BY <3>1, <4>1 DEF IInv, DraftIsSound
      <4>3. QED
        BY <3>1, <4>2 DEF Anew, view
    <3>2. CASE writer # r
      BY <1>1, <3>2, PrefixIsReflexive DEF view
    <3>3. QED
      BY <3>1, <3>2
  <2>5. IsPrefix(turns, rows) \/ Anew(rows, "ask")
    <3>1. CASE IsPrefix(turns, view(r))
      BY <1>1, <2>1, <2>2, <3>1, PrefixGrows
    <3>2. CASE view(r) = <<>>
      <4>1. rows = <<t>>
        BY <2>1, <3>2
      <4>2. QED
        BY <4>1 DEF Anew
    <3>3. QED
      BY <2>4, <3>1, <3>2
  <2>6. QED
    BY <1>2, <1>5, <2>3, <2>5, WriteKeeps DEF AppendOpening, Holding
<1>6. CASE AppendAnswers(r)
  <2> DEFINE t == turn("user", request[r].round)
             rows == Append(turns, t)
  <2>1. t \in Turn /\ ~Issued(t)
    BY TurnTypes DEF Issued, IInv, TypeOK, Request
  <2>2. rows \in Seq(Turn) /\ Distinct(rows)
    BY <1>1, <2>1, AppendKeepsDistinct
  <2>3. IsPrefix(turns, rows)
    BY <1>1, <2>1, PrefixIsReflexive, PrefixGrows
  <2>4. \E at \in Holding : Go(r, at)
    BY <1>6 DEF AppendAnswers, Holding
  <2>5. QED
    BY <1>2, <1>6, <2>2, <2>3, <2>4, WriteKeeps DEF AppendAnswers
<1>7. QED
  BY <1>3, <1>4, <1>5, <1>6

\* A round: numbered under the lock, after those in the rows it is added to.
LEMMA RoundKeeps ==
  ASSUME IInv, NEW r \in Requests, ask_round(r)
  PROVE  IInv'
<1> USE LoopAssumptions
<1> DEFINE used == rounds_used(draft)
<1>1. /\ request[r].at = "ask" /\ writer = r /\ writer # None
      /\ draft \in Seq(Turn) /\ Distinct(draft) /\ used \in 0..MaxRounds
  BY RoundsUsed, NoneAssumption DEF ask_round, EndLoop, AskModel, IInv, TypeOK, Locked
<1>2. BoundsTyped
  BY DEF IInv, TypeOK, BoundsTyped, ask_round, EndLoop, AskModel, bounds
<1>3. IsPrefix(turns, draft) \/ draft = <<turn("user", 0)>>
  BY <1>1 DEF IInv, DraftIsSound, Anew
<1>4. draft = <<turn("user", 0)>> => used = 0
  <2>1. SUFFICES ASSUME draft = <<turn("user", 0)>> PROVE used = 0
    OBVIOUS
  <2>2. turn("user", 0).role = "user"
    BY DEF turn
  <2>3. \A i \in DOMAIN draft : draft[i].role = "user"
    BY <2>1, <2>2
  <2>4. QED
    BY <1>1, <2>3, RoundsUsed
<1>5. CASE used >= MaxRounds
  <2>1. EndLoop(r)
    BY <1>5 DEF ask_round
  <2>2. IsPrefix(turns, draft)
    BY <1>3, <1>4, <1>5
  <2>3. PICK q \in Request : request' = [request EXCEPT ![r] = q] /\ q.at = "finalize"
    BY <2>1, GoMoves DEF EndLoop, Holding, IInv
  <2>4. Anew(draft, "ask") => draft = <<turn("user", 0)>>
    BY DEF Anew
  <2>5. ~Anew(draft, "ask")
    BY <1>4, <1>5, <2>4
  <2>6. QED
    BY <1>1, <1>2, <2>1, <2>3, <2>5, MoveKeeps DEF EndLoop, Holding
<1>6. CASE ~(used >= MaxRounds)
  <2>1. PICK role \in {"questions", "closing"} :
          /\ Write(r, Append(draft, turn(role, used + 1)))
          /\ Go(r, IF role = "closing" THEN "finalize" ELSE "advance")
    BY <1>6 DEF ask_round, AskModel
  <2> DEFINE t == turn(role, used + 1)
             rows == Append(draft, t)
             at == IF role = "closing" THEN "finalize" ELSE "advance"
  <2>2. t \in Turn /\ Distinct(rows) /\ rows \in Seq(Turn)
    BY <1>1, <1>6, NextRoundIsDistinct
  <2>3. Issued(t)
    BY DEF Issued, turn
  <2>4. at \in {"finalize", "advance"}
    OBVIOUS
  <2>5. IsPrefix(turns, rows) \/ Anew(rows, at)
    <3>1. CASE IsPrefix(turns, draft)
      BY <1>1, <2>2, <3>1, PrefixGrows DEF IInv, TypeOK
    <3>2. CASE draft = <<turn("user", 0)>>
      <4>1. Len(rows) = 2 /\ rows[1] = turn("user", 0) /\ rows[2] = t
        BY <3>2
      <4>2. QED
        BY <4>1, <2>3, <2>4 DEF Anew
    <3>3. QED
      BY <1>3, <3>1, <3>2
  <2>6. QED
    BY <1>2, <2>1, <2>2, <2>4, <2>5, WriteKeeps DEF Holding
<1>7. QED
  BY <1>5, <1>6

\* The document, which is no round, and the end of the request.
LEMMA DocumentKeeps ==
  ASSUME IInv, NEW r \in Requests,
         ReadForDocument(r) \/ WriteSrs(r) \/ AppendDocument(r)
  PROVE  IInv'
<1> USE LoopAssumptions
<1>1. /\ turns \in Seq(Turn) /\ draft \in Seq(Turn) /\ Distinct(turns) /\ Distinct(draft)
      /\ view(r) \in Seq(Turn) /\ Distinct(view(r))
  BY DEF IInv, TypeOK, view
<1>2. BoundsTyped
  BY DEF IInv, TypeOK, BoundsTyped, ReadForDocument, WriteSrs, AppendDocument, bounds
<1>3. CASE ReadForDocument(r)
  <2> DEFINE q == [request[r] EXCEPT !.at = "document", !.round = rounds_used(view(r))]
  <2>1. q \in Request /\ q.at = "document" /\ request' = [request EXCEPT ![r] = q]
    BY <1>1, <1>3, RoundsUsed DEF IInv, TypeOK, Request, ReadForDocument
  <2>2. writer = r => request[r].at = "finalize"
    BY <1>3 DEF ReadForDocument, At, IInv, Locked
  <2>3. QED
    BY <1>2, <1>3, <2>1, <2>2, MoveKeeps DEF ReadForDocument, Anew, Holding
<1>4. CASE WriteSrs(r)
  <2>1. PICK q \in Request : request' = [request EXCEPT ![r] = q] /\ q.at = "record"
    BY <1>4, GoMoves DEF WriteSrs, Holding, IInv
  <2>2. QED
    BY <1>2, <1>4, <2>1, MoveKeeps DEF WriteSrs, Anew, Holding
<1>5. CASE AppendDocument(r)
  <2> DEFINE t == turn("document", request[r].round)
             rows == Append(view(r), t)
  <2>1. t \in Turn /\ ~Issued(t)
    BY TurnTypes DEF Issued, IInv, TypeOK, Request
  <2>2. rows \in Seq(Turn) /\ Distinct(rows)
    BY <1>1, <2>1, AppendKeepsDistinct
  <2>3. IsPrefix(turns, rows) \/ Anew(rows, "advance")
    <3>1. CASE IsPrefix(turns, view(r))
      BY <1>1, <2>1, <3>1, PrefixGrows
    <3>2. CASE ~IsPrefix(turns, view(r))
      <4>1. writer = r /\ writer # None /\ view(r) = draft
        BY <1>1, <3>2, PrefixIsReflexive, NoneAssumption DEF view
      <4>2. Len(draft) >= 2 /\ draft[1] = turn("user", 0) /\ Issued(draft[2])
        BY <1>5, <3>2, <4>1 DEF IInv, DraftIsSound, Anew, AppendDocument
      <4>3. Len(rows) >= 2 /\ rows[1] = draft[1] /\ rows[2] = draft[2]
        BY <1>1, <2>1, <4>1, <4>2
      <4>4. QED
        BY <4>2, <4>3 DEF Anew
    <3>3. QED
      BY <3>1, <3>2
  <2>4. QED
    BY <1>2, <1>5, <2>2, <2>3, WriteKeeps DEF AppendDocument, Holding
<1>6. QED
  BY <1>3, <1>4, <1>5

\* A commit publishes what the request sees; a failure, nothing.
LEMMA EndsKeep ==
  ASSUME IInv, NEW r \in Requests, Commit(r) \/ Fails(r)
  PROVE  IInv'
<1> USE LoopAssumptions
<1>1. BoundsTyped
  BY DEF IInv, TypeOK, BoundsTyped, Commit, Fails, Rollback, bounds
<1>2. QED
  BY <1>1, ReleaseKeeps DEF Commit, Fails, Rollback

\* The session's other requests leave the transcript alone.
LEMMA OthersKeep ==
  ASSUME IInv, Observe \/ Reject
  PROVE  IInv'
<1> USE LoopAssumptions
<1>1. UNCHANGED <<turns, draft, writer, request>> /\ BoundsTyped
  BY DEF IInv, TypeOK, BoundsTyped, Observe, Reject, db, bounds
<1>2. QED
  BY <1>1 DEF IInv, TypeOK, BoundsTyped, Locked, Distinct, DraftIsSound, Anew, Issued, turn

(***************************************************************************)
(* Theorems.                                                               *)
(***************************************************************************)

\* A new session has no transcript.
LEMMA InitIInv == Init => IInv
<1>1. SUFFICES ASSUME Init PROVE IInv
  OBVIOUS
<1>2. TypeOK
  <2>1. request \in [Requests -> Request]
    BY <1>1, TurnTypes DEF Init
  <2>2. turns \in Seq(Turn) /\ draft \in Seq(Turn)
    BY <1>1 DEF Init
  <2>3. restarts \in 0..MaxRestarts /\ rejections \in 0..MaxRejections
        /\ failures \in 0..MaxFailures
    BY <1>1, LoopAssumptions DEF Init
  <2>4. phase \in {"qa", "srs"} /\ srs \in BOOLEAN /\ writer \in Requests \cup {None}
    BY <1>1 DEF Init
  <2>5. QED
    BY <2>1, <2>2, <2>3, <2>4 DEF TypeOK
<1>3. Locked
  BY <1>1, NoneAssumption, TurnTypes DEF Init, Locked
<1>4. Distinct(turns) /\ Distinct(draft) /\ DraftIsSound
  BY <1>1 DEF Init, Distinct, DraftIsSound
<1>5. QED
  BY <1>2, <1>3, <1>4 DEF IInv

\* Each step keeps the invariant.
LEMMA StepIInv == IInv /\ [Next]_vars => IInv'
<1> SUFFICES ASSUME IInv, [Next]_vars PROVE IInv'
  OBVIOUS
<1>1. CASE UNCHANGED vars
  BY <1>1 DEF vars, db, bounds, IInv, TypeOK, Locked, Distinct, DraftIsSound, Anew, Issued, turn
<1>2. CASE Next
  BY <1>2, ReadsKeep, FirstWritesKeep, RoundKeeps, DocumentKeeps, EndsKeep, OthersKeep
  DEF Next, Step
<1>3. QED
  BY <1>1, <1>2

\* The invariant holds of every reachable state, for any number of requests.
THEOREM Inductive == Spec => []IInv
BY InitIInv, StepIInv, PTL DEF Spec

\* The transcript and the requests stay within their types; above all, no turn
\* is numbered past the cap.
THEOREM TypeCorrect == Spec => []TypeOK
<1>1. IInv => TypeOK
  BY DEF IInv
<1>2. QED
  BY <1>1, Inductive, PTL

\* The cap and the numbering of rounds hold, whichever requests ask at once
\* (_ask_round).
THEOREM RoundsAreIssuedOnce == Spec => []RoundsIssuedOnce
<1>1. IInv => RoundsIssuedOnce
  BY DEF IInv, Distinct, RoundsIssuedOnce
<1>2. QED
  BY <1>1, Inductive, PTL

\* A committed turn goes only by a restart that got as far as its first round
\* (restart_qa).
THEOREM TranscriptIsSafe == Spec => TranscriptIsKept
<1> DEFINE Kept == turns' # turns =>
             \/ IsPrefix(turns, turns')
             \/ Len(turns') >= 2 /\ turns'[1] = turn("user", 0) /\ Issued(turns'[2])
<1>1. ASSUME IInv, [Next]_vars PROVE Kept
  <2>1. SUFFICES ASSUME turns' # turns PROVE Kept
    OBVIOUS
  <2>2. PICK r \in Requests : Commit(r)
    BY <1>1, <2>1 DEF Next, Step, vars, db, Load, StartWithoutContext, StartWithContext,
       ClearTranscript, AppendOpening, ReadForAnswers, NotStarted, AppendAnswers, ask_round,
       AskModel, EndLoop, ReadForDocument, WriteSrs, AppendDocument, Fails, Rollback, Write,
       Observe, Reject
  <2>3. writer = r /\ writer # None /\ turns' = draft /\ request[r].at = "advance"
    BY <2>1, <2>2, NoneAssumption DEF Commit, view
  <2>4. IsPrefix(turns, draft) \/ Anew(draft, "advance")
    BY <1>1, <2>3 DEF IInv, DraftIsSound
  <2>5. QED
    BY <2>3, <2>4 DEF Anew
<1>2. QED
  BY <1>1, Inductive, PTL DEF Spec, TranscriptIsKept
=============================================================================
