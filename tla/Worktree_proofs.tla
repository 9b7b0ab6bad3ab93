--------------------------- MODULE Worktree_proofs ---------------------------
(***************************************************************************)
(* Proofs about one session's worktree, for any environments, operations,  *)
(* bytes, output and line cap: first the reassembly of lines, by induction *)
(* over the stream, then the tree, the operation and the pull request.     *)
(***************************************************************************)
EXTENDS Worktree, TLAPS, SequenceTheorems, WellFoundedInduction

(***************************************************************************)
(* Induction, for statements that are sets of numbers.                     *)
(***************************************************************************)

\* A set with 0 and the successor of each of its numbers has all of them.
LEMMA AllNumbers ==
  ASSUME NEW S, 0 \in S, \A n \in Nat : n \in S => n + 1 \in S
  PROVE  Nat \subseteq S
<1>1. SUFFICES ASSUME Nat \ S # {} PROVE FALSE
  OBVIOUS
<1>2. IsWellFoundedOn(OpToRel(<, Nat), Nat)
  BY NatLessThanWellFounded
<1>3. PICK n \in Nat \ S : \A m \in Nat \ S : ~ (<<m, n>> \in OpToRel(<, Nat))
  BY <1>1, <1>2, WFMin
<1>4. n # 0 /\ n - 1 \in Nat /\ n - 1 < n
  OBVIOUS
<1>5. n - 1 \in S
  BY <1>3, <1>4 DEF OpToRel
<1>6. QED
  BY <1>4, <1>5

\* And up to a number, if it has 0 and the successors up to there.
LEMMA NumbersUpTo ==
  ASSUME NEW len \in Nat, NEW T, 0 \in T, \A i \in 1..len : i - 1 \in T => i \in T
  PROVE  0..len \subseteq T
<1> DEFINE S == {n \in Nat : n <= len => n \in T}
<1>1. 0 \in S
  OBVIOUS
<1>2. \A n \in Nat : n \in S => n + 1 \in S
  <2>1. SUFFICES ASSUME NEW n \in Nat, n \in S, n + 1 <= len PROVE n + 1 \in T
    OBVIOUS
  <2>2. n \in T /\ n + 1 \in 1..len /\ (n + 1) - 1 = n
    BY <2>1
  <2>3. QED
    BY <2>2
<1>3. Nat \subseteq S
  <2> HIDE DEF S
  <2>1. QED
    BY <1>1, <1>2, AllNumbers
<1>4. QED
  BY <1>3

(***************************************************************************)
(* What split and fitting make of one byte, or one line, more.             *)
(***************************************************************************)

Pieces == Seq(Seq(Byte)) \ {<<>>}

\* The pieces after one byte more.
after(before, byte) ==
  IF byte = Newline THEN Append(before, <<>>)
  ELSE [before EXCEPT ![Len(before)] = Append(@, byte)]

\* f is the history of the pieces of these bytes.
Splitting(f, bytes) ==
  f = [n \in 0..Len(bytes) |-> IF n = 0 THEN << <<>> >> ELSE after(f[n - 1], bytes[n])]

\* There is at most one such history.
LEMMA SplitIsUnique ==
  ASSUME NEW bytes \in Seq(Byte), NEW f, Splitting(f, bytes)
  PROVE  split(bytes) = f[Len(bytes)]
<1> DEFINE c == CHOOSE g : Splitting(g, bytes)
<1>1. split(bytes) = c[Len(bytes)]
  BY DEF split, Splitting, after
<1>2. Splitting(c, bytes)
  OBVIOUS
<1>3. Len(bytes) \in Nat
  OBVIOUS
<1> HIDE DEF c
<1>4. c[0] = f[0]
  BY <1>2, <1>3 DEF Splitting
<1>5. ASSUME NEW i \in 1..Len(bytes), c[i - 1] = f[i - 1] PROVE c[i] = f[i]
  <2>1. i \in 0..Len(bytes) /\ i # 0
    BY <1>3
  <2>2. c[i] = after(c[i - 1], bytes[i])
    BY <1>2, <2>1 DEF Splitting
  <2>3. f[i] = after(f[i - 1], bytes[i])
    BY <2>1 DEF Splitting
  <2>4. QED
    BY <1>5, <2>2, <2>3
<1>6. \A i \in 0..Len(bytes) : c[i] = f[i]
  <2> DEFINE T == {i \in 0..Len(bytes) : c[i] = f[i]}
  <2>1. 0 \in T
    BY <1>3, <1>4
  <2>2. ASSUME NEW i \in 1..Len(bytes), i - 1 \in T PROVE i \in T
    BY <1>3, <1>5, <2>2
  <2> HIDE DEF T
  <2>3. 0..Len(bytes) \subseteq T
    BY <1>3, <2>1, <2>2, NumbersUpTo
  <2>4. QED
    BY <2>3 DEF T
<1>7. QED
  BY <1>1, <1>3, <1>6

\* The pieces of a byte are pieces.
LEMMA AfterIsPieces ==
  ASSUME NEW before \in Pieces, NEW byte \in Byte
  PROVE  after(before, byte) \in Pieces
<1>1. CASE byte = Newline
  <2>1. <<>> \in Seq(Byte)
    OBVIOUS
  <2>2. QED
    BY <1>1, <2>1, AppendProperties DEF after, Pieces
<1>2. CASE byte # Newline
  <2>1. Len(before) \in 1..Len(before) /\ before[Len(before)] \in Seq(Byte)
    BY EmptySeq, ElementOfSeq DEF Pieces
  <2>2. Append(before[Len(before)], byte) \in Seq(Byte)
    BY <2>1, AppendProperties
  <2>3. after(before, byte) = [before EXCEPT ![Len(before)] = Append(before[Len(before)], byte)]
    BY <1>2, <2>1 DEF after
  <2>4. after(before, byte) \in Seq(Seq(Byte)) /\ Len(after(before, byte)) = Len(before)
    BY <2>1, <2>2, <2>3, ExceptSeq DEF Pieces
  <2>5. QED
    BY <2>1, <2>4 DEF Pieces
<1>3. QED
  BY <1>1, <1>2

\* The history of one byte more goes on from the one before.
LEMMA SplittingGoesOn ==
  ASSUME NEW bytes \in Seq(Byte), NEW byte \in Byte, NEW f, Splitting(f, bytes)
  PROVE  \E g : /\ Splitting(g, Append(bytes, byte))
                /\ g[Len(bytes) + 1] = after(f[Len(bytes)], byte)
<1> DEFINE len == Len(bytes)
           longer == Append(bytes, byte)
           g == [n \in 0..len + 1 |-> IF n = len + 1 THEN after(f[len], byte) ELSE f[n]]
<1>1. /\ len \in Nat /\ longer \in Seq(Byte) /\ Len(longer) = len + 1
      /\ \A i \in 1..len : longer[i] = bytes[i]
      /\ longer[len + 1] = byte
  BY AppendProperties
<1>2. ASSUME NEW n \in 0..len + 1
      PROVE  g[n] = IF n = 0 THEN << <<>> >> ELSE after(g[n - 1], longer[n])
  <2>1. CASE n = 0
    BY <1>1, <2>1 DEF Splitting
  <2>2. CASE n \in 1..len
    <3>1. n \in 0..len /\ n # 0 /\ n # len + 1 /\ n - 1 \in 0..len + 1 /\ n - 1 # len + 1
      BY <1>1, <2>2
    <3>2. g[n] = f[n] /\ g[n - 1] = f[n - 1]
      BY <3>1
    <3>3. f[n] = after(f[n - 1], bytes[n])
      BY <3>1 DEF Splitting
    <3>4. QED
      BY <1>1, <2>2, <3>1, <3>2, <3>3
  <2>3. CASE n = len + 1
    <3>1. n # 0 /\ n - 1 = len /\ len \in 0..len + 1 /\ len # len + 1
      BY <1>1, <2>3
    <3>2. g[n - 1] = f[len]
      BY <3>1
    <3>3. g[n] = after(f[len], byte)
      BY <2>3
    <3>4. QED
      BY <1>1, <2>3, <3>1, <3>2, <3>3
  <2>4. QED
    BY <1>1, <2>1, <2>2, <2>3
<1>3. g = [n \in 0..Len(longer) |-> IF n = 0 THEN << <<>> >> ELSE after(g[n - 1], longer[n])]
  <2> DEFINE h == [n \in 0..len + 1 |-> IF n = 0 THEN << <<>> >> ELSE after(g[n - 1], longer[n])]
  <2>1. \A n \in 0..len + 1 : g[n] = h[n]
    BY <1>2
  <2>2. g = h
    BY <2>1
  <2>3. QED
    BY <1>1, <2>2
<1>4. g[len + 1] = after(f[len], byte)
  BY <1>1
<1>5. Splitting(g, longer)
  <2> HIDE DEF g, longer
  <2>1. QED
    BY <1>3 DEF Splitting
<1>6. QED
  BY <1>4, <1>5

\* Whatever the bytes, their pieces exist.
LEMMA SplittingExists ==
  ASSUME NEW bytes \in Seq(Byte)
  PROVE  \E f : Splitting(f, bytes) /\ f[Len(bytes)] \in Pieces
<1> DEFINE S == {n \in Nat : \A b \in Seq(Byte) : Len(b) = n =>
                               \E f : Splitting(f, b) /\ f[n] \in Pieces}
<1>1. 0 \in S
  <2>1. SUFFICES ASSUME NEW b \in Seq(Byte), Len(b) = 0
                 PROVE  \E f : Splitting(f, b) /\ f[0] \in Pieces
    OBVIOUS
  <2> DEFINE f == [n \in 0..0 |-> << <<>> >>]
  <2>2. f = [n \in 0..0 |-> IF n = 0 THEN << <<>> >> ELSE after(f[n - 1], b[n])]
    OBVIOUS
  <2>3. f[0] \in Pieces
    <3>1. <<>> \in Seq(Byte)
      OBVIOUS
    <3>2. << <<>> >> \in Seq(Seq(Byte)) /\ << <<>> >> # <<>>
      BY <3>1
    <3>3. QED
      BY <3>2 DEF Pieces
  <2>4. Splitting(f, b)
    <3> HIDE DEF f
    <3>1. QED
      BY <2>1, <2>2 DEF Splitting
  <2>5. QED
    BY <2>3, <2>4
<1>2. ASSUME NEW n \in Nat, n \in S PROVE n + 1 \in S
  <2>1. SUFFICES ASSUME NEW b \in Seq(Byte), Len(b) = n + 1
                 PROVE  \E f : Splitting(f, b) /\ f[n + 1] \in Pieces
    BY <1>2
  <2>2. PICK c \in Seq(Byte), byte \in Byte : b = Append(c, byte)
    <3>1. b # <<>>
      BY <2>1
    <3>2. QED
      BY <3>1, SequenceEmptyOrAppend
  <2>3. Len(c) = n
    BY <2>1, <2>2, AppendProperties
  <2>4. PICK f : Splitting(f, c) /\ f[n] \in Pieces
    BY <1>2, <2>3
  <2>5. PICK g : Splitting(g, b) /\ g[n + 1] = after(f[n], byte)
    BY <2>2, <2>3, <2>4, SplittingGoesOn
  <2>6. QED
    BY <2>4, <2>5, AfterIsPieces
<1>3. Nat \subseteq S
  <2> HIDE DEF S
  <2>1. QED
    BY <1>1, <1>2, AllNumbers
<1>4. Len(bytes) \in S
  BY <1>3
<1>5. QED
  BY <1>4

\* split, byte by byte.
LEMMA SplitGoesOn ==
  /\ split(<<>>) = << <<>> >>
  /\ \A bytes \in Seq(Byte) : split(bytes) \in Pieces
  /\ \A bytes \in Seq(Byte), byte \in Byte : split(Append(bytes, byte)) = after(split(bytes), byte)
<1>1. split(<<>>) = << <<>> >>
  <2>1. <<>> \in Seq(Byte) /\ Len(<<>>) = 0
    OBVIOUS
  <2>2. PICK f : Splitting(f, <<>>)
    BY <2>1, SplittingExists
  <2>3. f[0] = << <<>> >>
    BY <2>1, <2>2 DEF Splitting
  <2>4. QED
    BY <2>1, <2>2, <2>3, SplitIsUnique
<1>2. ASSUME NEW bytes \in Seq(Byte) PROVE split(bytes) \in Pieces
  BY SplittingExists, SplitIsUnique
<1>3. ASSUME NEW bytes \in Seq(Byte), NEW byte \in Byte
      PROVE  split(Append(bytes, byte)) = after(split(bytes), byte)
  <2>1. PICK f : Splitting(f, bytes)
    BY SplittingExists
  <2>2. PICK g : Splitting(g, Append(bytes, byte)) /\ g[Len(bytes) + 1] = after(f[Len(bytes)], byte)
    BY <2>1, SplittingGoesOn
  <2>3. Append(bytes, byte) \in Seq(Byte) /\ Len(Append(bytes, byte)) = Len(bytes) + 1
    BY AppendProperties
  <2>4. split(bytes) = f[Len(bytes)]
    BY <2>1, SplitIsUnique
  <2>5. split(Append(bytes, byte)) = g[Len(bytes) + 1]
    BY <2>2, <2>3, SplitIsUnique
  <2>6. QED
    BY <2>2, <2>4, <2>5
<1>4. QED
  BY <1>1, <1>2, <1>3

\* The lines of which the end was read, and what was read of the next one.
whole(bytes) == Front(split(bytes))
rest(bytes) == Last(split(bytes))

\* Both, byte by byte.
LEMMA LinesGoOn ==
  /\ whole(<<>>) = <<>> /\ rest(<<>>) = <<>>
  /\ \A bytes \in Seq(Byte) : whole(bytes) \in Seq(Seq(Byte)) /\ rest(bytes) \in Seq(Byte)
  /\ \A bytes \in Seq(Byte) : Len(split(bytes)) = Len(whole(bytes)) + 1
  /\ \A bytes \in Seq(Byte) :
       /\ whole(Append(bytes, Newline)) = Append(whole(bytes), rest(bytes))
       /\ rest(Append(bytes, Newline)) = <<>>
  /\ \A bytes \in Seq(Byte), byte \in Byte \ {Newline} :
       /\ whole(Append(bytes, byte)) = whole(bytes)
       /\ rest(Append(bytes, byte)) = Append(rest(bytes), byte)
<1>1. whole(<<>>) = <<>> /\ rest(<<>>) = <<>>
  BY SplitGoesOn DEF whole, rest, Front, Last
<1>2. ASSUME NEW bytes \in Seq(Byte)
      PROVE  /\ whole(bytes) \in Seq(Seq(Byte)) /\ rest(bytes) \in Seq(Byte)
             /\ Len(split(bytes)) = Len(whole(bytes)) + 1
             /\ Len(split(bytes)) \in Nat \ {0}
             /\ split(bytes) \in Seq(Seq(Byte))
             /\ \A i \in 1..Len(split(bytes)) - 1 : whole(bytes)[i] = split(bytes)[i]
  <2> DEFINE p == split(bytes)
  <2>1. p \in Seq(Seq(Byte)) /\ Len(p) \in Nat \ {0}
    BY SplitGoesOn, EmptySeq DEF Pieces
  <2>2. \A i \in 1..Len(p) : p[i] \in Seq(Byte)
    BY <2>1, ElementOfSeq
  <2> HIDE DEF p
  <2>3. /\ SubSeq(p, 1, Len(p) - 1) \in Seq(Seq(Byte))
        /\ Len(SubSeq(p, 1, Len(p) - 1)) = Len(p) - 1
        /\ \A i \in 1..Len(p) - 1 : SubSeq(p, 1, Len(p) - 1)[i] = p[i]
    <3> DEFINE n == Len(p) - 1
    <3>1. n \in Int /\ n \in Nat /\ 1 \in Int /\ n - 1 + 1 = n
      BY <2>1
    <3>2. \A i \in 1..n : p[i] \in Seq(Byte)
      BY <2>1, <2>2
    <3> HIDE DEF n
    <3>3. /\ SubSeq(p, 1, n) \in Seq(Seq(Byte))
          /\ Len(SubSeq(p, 1, n)) = IF 1 <= n THEN n - 1 + 1 ELSE 0
          /\ \A i \in 1..n - 1 + 1 : SubSeq(p, 1, n)[i] = p[1 + i - 1]
      BY <3>1, <3>2, SubSeqProperties
    <3>4. Len(SubSeq(p, 1, n)) = n
      BY <3>1, <3>3
    <3>5. \A i \in 1..n : SubSeq(p, 1, n)[i] = p[i]
      BY <3>1, <3>3
    <3>6. QED
      BY <3>3, <3>4, <3>5 DEF n
  <2>4. QED
    BY <2>1, <2>2, <2>3 DEF whole, rest, Front, Last, p
<1>3. ASSUME NEW bytes \in Seq(Byte)
      PROVE  /\ whole(Append(bytes, Newline)) = Append(whole(bytes), rest(bytes))
             /\ rest(Append(bytes, Newline)) = <<>>
  <2> DEFINE p == split(bytes)
             q == Append(p, <<>>)
  <2>1. <<>> \in Seq(Byte)
    OBVIOUS
  <2>2. split(Append(bytes, Newline)) = q
    BY LineAssumptions, SplitGoesOn DEF after
  <2>3. /\ q \in Seq(Seq(Byte)) /\ Len(q) = Len(p) + 1 /\ q[Len(p) + 1] = <<>>
        /\ \A i \in 1..Len(p) : q[i] = p[i]
    BY <1>2, <2>1, AppendProperties
  <2>4. rest(Append(bytes, Newline)) = <<>>
    BY <1>2, <2>2, <2>3 DEF rest, Last
  <2>5. whole(Append(bytes, Newline)) = SubSeq(q, 1, Len(p))
    BY <1>2, <2>2, <2>3 DEF whole, Front
  <2>6. SubSeq(q, 1, Len(p)) = p
    BY <1>2, <2>1, AppendIsConcat, SubSeqOfConcat1, SubSeqFull
  <2>7. p = Append(whole(bytes), rest(bytes))
    <3>1. p = SubSeq(p, 1, Len(p) - 1) \o <<p[Len(p)]>>
      <4>1. p \in Seq(Seq(Byte)) /\ 1 \in 1..Len(p) /\ Len(p) \in 1..Len(p)
        BY <1>2
      <4> HIDE DEF p, q
      <4>2. SubSeq(p, 1, Len(p)) = SubSeq(p, 1, Len(p) - 1) \o <<p[Len(p)]>>
        BY <4>1, SubSeqRecursiveSecond
      <4>3. QED
        BY <4>1, <4>2, SubSeqFull
    <3>2. QED
      BY <1>2, <3>1, AppendIsConcat DEF whole, rest, Front, Last
  <2>8. QED
    BY <2>4, <2>5, <2>6, <2>7
<1>4. ASSUME NEW bytes \in Seq(Byte), NEW byte \in Byte \ {Newline}
      PROVE  /\ whole(Append(bytes, byte)) = whole(bytes)
             /\ rest(Append(bytes, byte)) = Append(rest(bytes), byte)
  <2> DEFINE p == split(bytes)
             q == [p EXCEPT ![Len(p)] = Append(rest(bytes), byte)]
  <2>1. split(Append(bytes, byte)) = q
    BY SplitGoesOn DEF after, rest, Last
  <2>2. Append(rest(bytes), byte) \in Seq(Byte)
    BY <1>2, AppendProperties
  <2>3. /\ q \in Seq(Seq(Byte)) /\ Len(q) = Len(p) /\ q[Len(p)] = Append(rest(bytes), byte)
        /\ \A i \in 1..Len(p) - 1 : q[i] = p[i]
    BY <1>2, <2>2, ExceptSeq
  <2>4. rest(Append(bytes, byte)) = Append(rest(bytes), byte)
    BY <2>1, <2>3 DEF rest, Last
  <2>5. Append(bytes, byte) \in Seq(Byte)
    BY AppendProperties
  <2>6. \A i \in 1..Len(p) - 1 : whole(Append(bytes, byte))[i] = whole(bytes)[i]
    BY <1>2, <2>1, <2>3, <2>5
  <2>7. Len(whole(Append(bytes, byte))) = Len(p) - 1 /\ Len(whole(bytes)) = Len(p) - 1
    <3>1. Len(split(Append(bytes, byte))) = Len(p)
      BY <2>1, <2>3
    <3>2. Len(whole(Append(bytes, byte))) \in Nat /\ Len(whole(bytes)) \in Nat
      BY <1>2, <2>5
    <3>3. Len(p) = Len(whole(bytes)) + 1
      BY <1>2
    <3>4. Len(p) = Len(whole(Append(bytes, byte))) + 1
      BY <1>2, <2>5, <3>1
    <3> HIDE DEF p, q
    <3>5. QED
      BY <3>2, <3>3, <3>4
  <2>8. whole(Append(bytes, byte)) = whole(bytes)
    <3>1. whole(Append(bytes, byte)) \in Seq(Seq(Byte)) /\ whole(bytes) \in Seq(Seq(Byte))
      BY <1>2, <2>5
    <3> HIDE DEF p, q
    <3>2. QED
      BY <2>6, <2>7, <3>1, SeqEqual
  <2>9. QED
    BY <2>4, <2>8
<1>5. QED
  BY <1>1, <1>2, <1>3, <1>4

\* The lines that fit, after one line more.
with(kept, line) == IF Fits(line) THEN Append(kept, line) ELSE kept

\* f is the history of what is kept of these lines.
Keeping(f, lines) ==
  f = [n \in 0..Len(lines) |-> IF n = 0 THEN <<>> ELSE with(f[n - 1], lines[n])]

\* There is at most one such history.
LEMMA FittingIsUnique ==
  ASSUME NEW lines \in Seq(Seq(Byte)), NEW f, Keeping(f, lines)
  PROVE  fitting(lines) = f[Len(lines)]
<1> DEFINE c == CHOOSE g : Keeping(g, lines)
<1>1. fitting(lines) = c[Len(lines)]
  BY DEF fitting, Keeping, with
<1>2. Keeping(c, lines)
  OBVIOUS
<1>3. Len(lines) \in Nat
  OBVIOUS
<1> HIDE DEF c
<1>4. c[0] = f[0]
  BY <1>2, <1>3 DEF Keeping
<1>5. ASSUME NEW i \in 1..Len(lines), c[i - 1] = f[i - 1] PROVE c[i] = f[i]
  <2>1. i \in 0..Len(lines) /\ i # 0
    BY <1>3
  <2>2. c[i] = with(c[i - 1], lines[i])
    BY <1>2, <2>1 DEF Keeping
  <2>3. f[i] = with(f[i - 1], lines[i])
    BY <2>1 DEF Keeping
  <2>4. QED
    BY <1>5, <2>2, <2>3
<1>6. \A i \in 0..Len(lines) : c[i] = f[i]
  <2> DEFINE T == {i \in 0..Len(lines) : c[i] = f[i]}
  <2>1. 0 \in T
    BY <1>3, <1>4
  <2>2. ASSUME NEW i \in 1..Len(lines), i - 1 \in T PROVE i \in T
    BY <1>3, <1>5, <2>2
  <2> HIDE DEF T
  <2>3. 0..Len(lines) \subseteq T
    BY <1>3, <2>1, <2>2, NumbersUpTo
  <2>4. QED
    BY <2>3 DEF T
<1>7. QED
  BY <1>1, <1>3, <1>6

\* The history of one line more goes on from the one before.
LEMMA KeepingGoesOn ==
  ASSUME NEW lines \in Seq(Seq(Byte)), NEW line \in Seq(Byte), NEW f, Keeping(f, lines)
  PROVE  \E g : /\ Keeping(g, Append(lines, line))
                /\ g[Len(lines) + 1] = with(f[Len(lines)], line)
<1> DEFINE len == Len(lines)
           longer == Append(lines, line)
           g == [n \in 0..len + 1 |-> IF n = len + 1 THEN with(f[len], line) ELSE f[n]]
<1>1. /\ len \in Nat /\ longer \in Seq(Seq(Byte)) /\ Len(longer) = len + 1
      /\ \A i \in 1..len : longer[i] = lines[i]
      /\ longer[len + 1] = line
  BY AppendProperties
<1>2. ASSUME NEW n \in 0..len + 1
      PROVE  g[n] = IF n = 0 THEN <<>> ELSE with(g[n - 1], longer[n])
  <2>1. CASE n = 0
    BY <1>1, <2>1 DEF Keeping
  <2>2. CASE n \in 1..len
    <3>1. n \in 0..len /\ n # 0 /\ n # len + 1 /\ n - 1 \in 0..len + 1 /\ n - 1 # len + 1
      BY <1>1, <2>2
    <3>2. g[n] = f[n] /\ g[n - 1] = f[n - 1]
      BY <3>1
    <3>3. f[n] = with(f[n - 1], lines[n])
      BY <3>1 DEF Keeping
    <3>4. QED
      BY <1>1, <2>2, <3>1, <3>2, <3>3
  <2>3. CASE n = len + 1
    <3>1. n # 0 /\ n - 1 = len /\ len \in 0..len + 1 /\ len # len + 1
      BY <1>1, <2>3
    <3>2. g[n - 1] = f[len]
      BY <3>1
    <3>3. g[n] = with(f[len], line)
      BY <2>3
    <3>4. QED
      BY <1>1, <2>3, <3>1, <3>2, <3>3
  <2>4. QED
    BY <1>1, <2>1, <2>2, <2>3
<1>3. g = [n \in 0..Len(longer) |-> IF n = 0 THEN <<>> ELSE with(g[n - 1], longer[n])]
  <2> DEFINE h == [n \in 0..len + 1 |-> IF n = 0 THEN <<>> ELSE with(g[n - 1], longer[n])]
  <2>1. \A n \in 0..len + 1 : g[n] = h[n]
    BY <1>2
  <2>2. g = h
    BY <2>1
  <2>3. QED
    BY <1>1, <2>2
<1>4. g[len + 1] = with(f[len], line)
  BY <1>1
<1>5. Keeping(g, longer)
  <2> HIDE DEF g, longer
  <2>1. QED
    BY <1>3 DEF Keeping
<1>6. QED
  BY <1>4, <1>5

\* Whatever the lines, what is kept of them exists.
LEMMA KeepingExists ==
  ASSUME NEW lines \in Seq(Seq(Byte))
  PROVE  \E f : Keeping(f, lines) /\ f[Len(lines)] \in Seq(Seq(Byte))
<1> DEFINE S == {n \in Nat : \A l \in Seq(Seq(Byte)) : Len(l) = n =>
                               \E f : Keeping(f, l) /\ f[n] \in Seq(Seq(Byte))}
<1>1. 0 \in S
  <2>1. SUFFICES ASSUME NEW l \in Seq(Seq(Byte)), Len(l) = 0
                 PROVE  \E f : Keeping(f, l) /\ f[0] \in Seq(Seq(Byte))
    OBVIOUS
  <2> DEFINE f == [n \in 0..0 |-> <<>>]
  <2>2. f = [n \in 0..0 |-> IF n = 0 THEN <<>> ELSE with(f[n - 1], l[n])]
    OBVIOUS
  <2>3. f[0] \in Seq(Seq(Byte))
    OBVIOUS
  <2>4. Keeping(f, l)
    <3> HIDE DEF f
    <3>1. QED
      BY <2>1, <2>2 DEF Keeping
  <2>5. QED
    BY <2>3, <2>4
<1>2. ASSUME NEW n \in Nat, n \in S PROVE n + 1 \in S
  <2>1. SUFFICES ASSUME NEW l \in Seq(Seq(Byte)), Len(l) = n + 1
                 PROVE  \E f : Keeping(f, l) /\ f[n + 1] \in Seq(Seq(Byte))
    BY <1>2
  <2>2. PICK k \in Seq(Seq(Byte)), line \in Seq(Byte) : l = Append(k, line)
    <3>1. l # <<>>
      BY <2>1
    <3>2. QED
      BY <3>1, SequenceEmptyOrAppend
  <2>3. Len(k) = n
    BY <2>1, <2>2, AppendProperties
  <2>4. PICK f : Keeping(f, k) /\ f[n] \in Seq(Seq(Byte))
    BY <1>2, <2>3
  <2>5. PICK g : Keeping(g, l) /\ g[n + 1] = with(f[n], line)
    BY <2>2, <2>3, <2>4, KeepingGoesOn
  <2>6. with(f[n], line) \in Seq(Seq(Byte))
    BY <2>4, AppendProperties DEF with
  <2>7. QED
    BY <2>5, <2>6
<1>3. Nat \subseteq S
  <2> HIDE DEF S
  <2>1. QED
    BY <1>1, <1>2, AllNumbers
<1>4. Len(lines) \in S
  BY <1>3
<1>5. QED
  BY <1>4

\* fitting, line by line.
LEMMA FittingGoesOn ==
  /\ fitting(<<>>) = <<>>
  /\ \A lines \in Seq(Seq(Byte)) : fitting(lines) \in Seq(Seq(Byte))
  /\ \A lines \in Seq(Seq(Byte)), line \in Seq(Byte) :
       fitting(Append(lines, line)) = with(fitting(lines), line)
<1>1. fitting(<<>>) = <<>>
  <2>1. <<>> \in Seq(Seq(Byte)) /\ Len(<<>>) = 0
    OBVIOUS
  <2>2. PICK f : Keeping(f, <<>>)
    BY <2>1, KeepingExists
  <2>3. f[0] = <<>>
    BY <2>1, <2>2 DEF Keeping
  <2>4. QED
    BY <2>1, <2>2, <2>3, FittingIsUnique
<1>2. ASSUME NEW lines \in Seq(Seq(Byte)) PROVE fitting(lines) \in Seq(Seq(Byte))
  BY KeepingExists, FittingIsUnique
<1>3. ASSUME NEW lines \in Seq(Seq(Byte)), NEW line \in Seq(Byte)
      PROVE  fitting(Append(lines, line)) = with(fitting(lines), line)
  <2>1. PICK f : Keeping(f, lines)
    BY KeepingExists
  <2>2. PICK g : Keeping(g, Append(lines, line)) /\ g[Len(lines) + 1] = with(f[Len(lines)], line)
    BY <2>1, KeepingGoesOn
  <2>3. Append(lines, line) \in Seq(Seq(Byte)) /\ Len(Append(lines, line)) = Len(lines) + 1
    BY AppendProperties
  <2>4. fitting(lines) = f[Len(lines)]
    BY <2>1, FittingIsUnique
  <2>5. fitting(Append(lines, line)) = g[Len(lines) + 1]
    BY <2>2, <2>3, FittingIsUnique
  <2>6. QED
    BY <2>2, <2>4, <2>5
<1>4. QED
  BY <1>1, <1>2, <1>3

(***************************************************************************)
(* What they make of a stream that is cut in two.                          *)
(***************************************************************************)

\* A set with the empty sequence, and one element more of each of its sequences,
\* has all of them.
LEMMA AllSequences ==
  ASSUME NEW A, NEW T, <<>> \in T, \A s \in Seq(A), a \in A : s \in T => Append(s, a) \in T
  PROVE  Seq(A) \subseteq T
<1> DEFINE S == {n \in Nat : \A s \in Seq(A) : Len(s) = n => s \in T}
<1>1. 0 \in S
  OBVIOUS
<1>2. ASSUME NEW n \in Nat, n \in S PROVE n + 1 \in S
  <2>1. SUFFICES ASSUME NEW s \in Seq(A), Len(s) = n + 1 PROVE s \in T
    BY <1>2
  <2>2. PICK t \in Seq(A), a \in A : s = Append(t, a)
    <3>1. s # <<>>
      BY <2>1
    <3>2. QED
      BY <3>1, SequenceEmptyOrAppend
  <2>3. Len(t) = n
    BY <2>1, <2>2, AppendProperties
  <2>4. QED
    BY <1>2, <2>2, <2>3
<1>3. Nat \subseteq S
  <2> HIDE DEF S
  <2>1. QED
    BY <1>1, <1>2, AllNumbers
<1>4. \A s \in Seq(A) : Len(s) \in S
  BY <1>3
<1>5. QED
  BY <1>4

\* Appending to the second of two is appending to both.
LEMMA AppendToSecond ==
  ASSUME NEW A, NEW s \in Seq(A), NEW t \in Seq(A), NEW a \in A
  PROVE  s \o Append(t, a) = Append(s \o t, a)
<1>1. s \o t \in Seq(A) /\ <<a>> \in Seq(A)
  BY ConcatProperties
<1>2. Append(t, a) = t \o <<a>> /\ Append(s \o t, a) = (s \o t) \o <<a>>
  BY <1>1, AppendIsConcat
<1>3. QED
  BY <1>1, <1>2, ConcatAssociative

\* So for bytes, and for lines.
LEMMA ByteToSecond ==
  \A s, t \in Seq(Byte), b \in Byte : s \o Append(t, b) = Append(s \o t, b)
BY AppendToSecond

\* And for lines.
LEMMA LineToSecond ==
  \A s, t \in Seq(Seq(Byte)), l \in Seq(Byte) : s \o Append(t, l) = Append(s \o t, l)
BY AppendToSecond

\* No line ends in a fragment.
Fragment(bytes) == whole(bytes) = <<>> /\ rest(bytes) = bytes

\* The rest of a stream is a fragment.
LEMMA RestIsFragment == \A bytes \in Seq(Byte) : Fragment(rest(bytes))
<1> DEFINE T == {bytes \in Seq(Byte) : Fragment(rest(bytes))}
<1>1. <<>> \in T
  BY LinesGoOn DEF Fragment
<1>2. ASSUME NEW s \in Seq(Byte), NEW b \in Byte, s \in T PROVE Append(s, b) \in T
  <2>1. Append(s, b) \in Seq(Byte) /\ rest(s) \in Seq(Byte)
    BY AppendProperties, LinesGoOn
  <2>2. CASE b = Newline
    BY <2>1, <2>2, LinesGoOn DEF Fragment
  <2>3. CASE b # Newline
    <3>1. rest(Append(s, b)) = Append(rest(s), b)
      BY <2>3, LinesGoOn
    <3>2. /\ whole(Append(rest(s), b)) = whole(rest(s))
          /\ rest(Append(rest(s), b)) = Append(rest(rest(s)), b)
      BY <2>1, <2>3, LinesGoOn
    <3>3. whole(rest(s)) = <<>> /\ rest(rest(s)) = rest(s)
      BY <1>2 DEF Fragment
    <3>4. QED
      BY <2>1, <3>1, <3>2, <3>3 DEF Fragment
  <2>4. QED
    BY <2>2, <2>3
<1>3. Seq(Byte) \subseteq T
  <2> HIDE DEF T
  <2>1. QED
    BY <1>1, <1>2, AllSequences
<1>4. QED
  BY <1>3

\* The parts of a fragment are fragments.
LEMMA PartsAreFragments ==
  ASSUME NEW s \in Seq(Byte)
  PROVE  \A t \in Seq(Byte) : Fragment(s \o t) => Fragment(s) /\ Fragment(t)
<1> DEFINE T == {t \in Seq(Byte) : Fragment(s \o t) => Fragment(s) /\ Fragment(t)}
<1>1. <<>> \in T
  <2>1. <<>> \in Seq(Byte) /\ s \o <<>> = s
    BY ConcatEmptySeq
  <2>2. Fragment(<<>>)
    BY LinesGoOn DEF Fragment
  <2>3. QED
    BY <2>1, <2>2
<1>2. ASSUME NEW t \in Seq(Byte), NEW b \in Byte, t \in T PROVE Append(t, b) \in T
  <2>1. /\ s \o t \in Seq(Byte) /\ Append(t, b) \in Seq(Byte)
        /\ s \o Append(t, b) = Append(s \o t, b)
    BY ConcatProperties, AppendProperties, ByteToSecond
  <2>2. SUFFICES ASSUME Fragment(Append(s \o t, b))
                 PROVE  Fragment(s) /\ Fragment(Append(t, b))
    BY <2>1
  <2>3. b # Newline
    <3>1. Append(s \o t, b) # <<>>
      BY <2>1, AppendProperties
    <3>2. QED
      BY <2>1, <2>2, <3>1, LinesGoOn DEF Fragment
  <2>4. /\ whole(s \o t) = <<>>
        /\ Append(rest(s \o t), b) = Append(s \o t, b)
    BY <2>1, <2>2, <2>3, LinesGoOn DEF Fragment
  <2>5. rest(s \o t) = s \o t
    <3>1. rest(s \o t) \in Seq(Byte)
      BY <2>1, LinesGoOn
    <3>2. \A p, q \in Seq(Byte) : Append(p, b) = Append(q, b) => p = q
      BY AppendInjective
    <3>3. QED
      BY <2>1, <2>4, <3>1, <3>2
  <2>6. Fragment(s) /\ Fragment(t)
    BY <1>2, <2>4, <2>5 DEF Fragment
  <2>7. Fragment(Append(t, b))
    BY <2>3, <2>6, LinesGoOn DEF Fragment
  <2>8. QED
    BY <2>6, <2>7
<1>3. Seq(Byte) \subseteq T
  <2> HIDE DEF T
  <2>1. QED
    BY <1>1, <1>2, AllSequences
<1>4. QED
  BY <1>3

\* A stream that goes on is split where the first part of it had no end of a line.
LEMMA SplitInTwo ==
  ASSUME NEW s \in Seq(Byte)
  PROVE  \A t \in Seq(Byte) :
           /\ whole(s \o t) = whole(s) \o whole(rest(s) \o t)
           /\ rest(s \o t) = rest(rest(s) \o t)
<1> DEFINE T == {t \in Seq(Byte) : /\ whole(s \o t) = whole(s) \o whole(rest(s) \o t)
                                   /\ rest(s \o t) = rest(rest(s) \o t)}
<1>1. rest(s) \in Seq(Byte) /\ whole(s) \in Seq(Seq(Byte))
  BY LinesGoOn
<1>2. <<>> \in T
  <2>1. /\ <<>> \in Seq(Byte) /\ s \o <<>> = s
        /\ rest(s) \o <<>> = rest(s) /\ whole(s) \o <<>> = whole(s)
    BY <1>1, ConcatEmptySeq
  <2>2. whole(rest(s)) = <<>> /\ rest(rest(s)) = rest(s)
    BY RestIsFragment DEF Fragment
  <2>3. QED
    BY <2>1, <2>2
<1>3. ASSUME NEW t \in Seq(Byte), NEW b \in Byte, t \in T PROVE Append(t, b) \in T
  <2> DEFINE u == s \o t
             v == rest(s) \o t
  <2>1. /\ u \in Seq(Byte) /\ v \in Seq(Byte) /\ Append(t, b) \in Seq(Byte)
        /\ s \o Append(t, b) = Append(u, b) /\ rest(s) \o Append(t, b) = Append(v, b)
    <3>1. u \in Seq(Byte) /\ v \in Seq(Byte)
      BY <1>1, ConcatProperties
    <3>2. Append(t, b) \in Seq(Byte)
      BY AppendProperties
    <3>3. QED
      BY <1>1, <3>1, <3>2, ByteToSecond
  <2>2. /\ whole(u) = whole(s) \o whole(v) /\ rest(u) = rest(v)
        /\ whole(v) \in Seq(Seq(Byte)) /\ rest(v) \in Seq(Byte)
    BY <1>3, <2>1, LinesGoOn
  <2> HIDE DEF u, v
  <2>3. CASE b = Newline
    <3>1. /\ whole(Append(u, b)) = Append(whole(u), rest(u)) /\ rest(Append(u, b)) = <<>>
          /\ whole(Append(v, b)) = Append(whole(v), rest(v)) /\ rest(Append(v, b)) = <<>>
      BY <2>1, <2>3, LinesGoOn
    <3>2. whole(s) \o Append(whole(v), rest(v)) = Append(whole(s) \o whole(v), rest(v))
      BY <1>1, <2>2, LineToSecond
    <3>3. QED
      BY <2>1, <2>2, <3>1, <3>2
  <2>4. CASE b # Newline
    <3>1. /\ whole(Append(u, b)) = whole(u) /\ rest(Append(u, b)) = Append(rest(u), b)
          /\ whole(Append(v, b)) = whole(v) /\ rest(Append(v, b)) = Append(rest(v), b)
      BY <2>1, <2>4, LinesGoOn
    <3>2. QED
      BY <2>1, <2>2, <3>1
  <2>5. QED
    BY <2>3, <2>4
<1>4. Seq(Byte) \subseteq T
  <2> HIDE DEF T
  <2>1. QED
    BY <1>2, <1>3, AllSequences
<1>5. QED
  BY <1>4

\* A fragment in front of a stream makes its first line longer, and nothing else.
LEMMA FragmentInFront ==
  ASSUME NEW d \in Seq(Byte), Fragment(d)
  PROVE  \A x \in Seq(Byte) :
           IF whole(x) = <<>>
           THEN whole(d \o x) = <<>> /\ rest(d \o x) = d \o rest(x)
           ELSE /\ whole(d \o x) = <<d \o Head(whole(x))>> \o Tail(whole(x))
                /\ rest(d \o x) = rest(x)
<1> DEFINE T == {x \in Seq(Byte) :
                   IF whole(x) = <<>>
                   THEN whole(d \o x) = <<>> /\ rest(d \o x) = d \o rest(x)
                   ELSE /\ whole(d \o x) = <<d \o Head(whole(x))>> \o Tail(whole(x))
                        /\ rest(d \o x) = rest(x)}
<1>1. <<>> \in T
  BY LinesGoOn, ConcatEmptySeq DEF Fragment
<1>2. ASSUME NEW x \in Seq(Byte), NEW b \in Byte, x \in T PROVE Append(x, b) \in T
  <2> DEFINE y == d \o x
  <2>1. /\ y \in Seq(Byte) /\ Append(x, b) \in Seq(Byte)
        /\ d \o Append(x, b) = Append(y, b)
    BY ConcatProperties, AppendProperties, ByteToSecond
  <2>2. /\ whole(x) \in Seq(Seq(Byte)) /\ rest(x) \in Seq(Byte)
        /\ whole(y) \in Seq(Seq(Byte)) /\ rest(y) \in Seq(Byte)
    BY <2>1, LinesGoOn
  <2>3. IF whole(x) = <<>>
        THEN whole(y) = <<>> /\ rest(y) = d \o rest(x)
        ELSE whole(y) = <<d \o Head(whole(x))>> \o Tail(whole(x)) /\ rest(y) = rest(x)
    BY <1>2
  <2> HIDE DEF y
  <2>4. CASE b = Newline
    <3>1. /\ whole(Append(y, b)) = Append(whole(y), rest(y)) /\ rest(Append(y, b)) = <<>>
          /\ whole(Append(x, b)) = Append(whole(x), rest(x)) /\ rest(Append(x, b)) = <<>>
      BY <2>1, <2>4, LinesGoOn
    <3>2. \A p \in Seq(Seq(Byte)), l \in Seq(Byte) : Append(p, l) # <<>>
      BY AppendProperties
    <3>3. whole(Append(x, b)) # <<>>
      BY <2>2, <3>1, <3>2
    <3>4. CASE whole(x) = <<>>
      <4>1. Append(whole(x), rest(x)) = <<rest(x)>>
        BY <3>4
      <4>2. Head(whole(Append(x, b))) = rest(x) /\ Tail(whole(Append(x, b))) = <<>>
        BY <3>1, <4>1
      <4>3. whole(Append(y, b)) = <<d \o rest(x)>>
        BY <2>3, <3>1, <3>4
      <4>4. d \o rest(x) \in Seq(Byte)
        BY <2>2, ConcatProperties
      <4>5. <<d \o rest(x)>> \o <<>> = <<d \o rest(x)>>
        BY <4>4, ConcatEmptySeq
      <4>6. QED
        BY <2>1, <3>1, <3>3, <4>2, <4>3, <4>5
    <3>5. CASE whole(x) # <<>>
      <4> DEFINE h == Head(whole(x))
                 l == Tail(whole(x))
      <4>1. h \in Seq(Byte) /\ l \in Seq(Seq(Byte))
        BY <2>2, <3>5, HeadTailProperties
      <4>2. /\ Head(Append(whole(x), rest(x))) = h
            /\ Tail(Append(whole(x), rest(x))) = Append(l, rest(x))
        BY <2>2, <3>5, HeadTailAppend
      <4>3. d \o h \in Seq(Byte) /\ <<d \o h>> \in Seq(Seq(Byte))
        BY <4>1, ConcatProperties
      <4> HIDE DEF h, l
      <4>4. <<d \o h>> \o Append(l, rest(x)) = Append(<<d \o h>> \o l, rest(x))
        <5>1. l \in Seq(Seq(Byte)) /\ rest(x) \in Seq(Byte)
          BY <2>2, <4>1
        <5>2. QED
          BY <4>3, <5>1, LineToSecond
      <4>5. whole(y) = <<d \o h>> \o l /\ rest(y) = rest(x)
        BY <2>3, <3>5 DEF h, l
      <4>6. whole(Append(y, b)) = <<d \o h>> \o Append(l, rest(x))
        BY <3>1, <4>4, <4>5
      <4>7. Head(whole(Append(x, b))) = h /\ Tail(whole(Append(x, b))) = Append(l, rest(x))
        BY <3>1, <4>2 DEF h, l
      <4>8. QED
        BY <2>1, <3>1, <3>3, <4>6, <4>7
    <3>6. QED
      BY <3>4, <3>5
  <2>5. CASE b # Newline
    <3>1. /\ whole(Append(y, b)) = whole(y) /\ rest(Append(y, b)) = Append(rest(y), b)
          /\ whole(Append(x, b)) = whole(x) /\ rest(Append(x, b)) = Append(rest(x), b)
      BY <2>1, <2>5, LinesGoOn
    <3>2. d \o Append(rest(x), b) = Append(d \o rest(x), b)
      BY <2>2, ByteToSecond
    <3>3. QED
      BY <2>1, <2>3, <3>1, <3>2
  <2>6. QED
    BY <2>4, <2>5
<1>3. Seq(Byte) \subseteq T
  <2> HIDE DEF T
  <2>1. QED
    BY <1>1, <1>2, AllSequences
<1>4. QED
  BY <1>3

\* What fits of two lists is what fits of one and then of the other.
LEMMA FittingInTwo ==
  ASSUME NEW s \in Seq(Seq(Byte))
  PROVE  \A t \in Seq(Seq(Byte)) : fitting(s \o t) = fitting(s) \o fitting(t)
<1> DEFINE T == {t \in Seq(Seq(Byte)) : fitting(s \o t) = fitting(s) \o fitting(t)}
<1>1. <<>> \in T
  BY FittingGoesOn, ConcatEmptySeq
<1>2. ASSUME NEW t \in Seq(Seq(Byte)), NEW l \in Seq(Byte), t \in T PROVE Append(t, l) \in T
  <2>1. /\ s \o t \in Seq(Seq(Byte)) /\ Append(t, l) \in Seq(Seq(Byte))
        /\ s \o Append(t, l) = Append(s \o t, l)
    BY ConcatProperties, AppendProperties, ByteToSecond
  <2>2. /\ fitting(Append(s \o t, l)) = with(fitting(s \o t), l)
        /\ fitting(Append(t, l)) = with(fitting(t), l)
        /\ fitting(s) \in Seq(Seq(Byte)) /\ fitting(t) \in Seq(Seq(Byte))
    BY <2>1, FittingGoesOn
  <2>3. fitting(s \o t) = fitting(s) \o fitting(t)
    BY <1>2
  <2>4. fitting(s) \o Append(fitting(t), l) = Append(fitting(s) \o fitting(t), l)
    BY <2>2, LineToSecond
  <2>5. QED
    BY <2>1, <2>2, <2>3, <2>4 DEF with
<1>3. Seq(Seq(Byte)) \subseteq T
  <2> HIDE DEF T
  <2>1. QED
    BY <1>1, <1>2, AllSequences
<1>4. QED
  BY <1>3

(***************************************************************************)
(* A buffer, fed in chunks, and the stream as a whole.                     *)
(***************************************************************************)

\* The buffer of a stream of which these bytes were read: it holds the rest, or what
\* came of a line after more of it was dropped than is allowed.
Reassembling(b, bytes) ==
  /\ b \in Buffer
  /\ IF b.discarding
     THEN \E n \in (MaxLineBytes + 1)..Len(rest(bytes)) :
            b.pending = SubSeq(rest(bytes), n + 1, Len(rest(bytes)))
     ELSE b.pending = rest(bytes) /\ Fits(rest(bytes))

\* A sequence is what comes before a place and what comes after it.
LEMMA CutInTwo ==
  ASSUME NEW s \in Seq(Byte)
  PROVE  /\ \A n \in 0..Len(s) : /\ SubSeq(s, 1, n) \in Seq(Byte) /\ Len(SubSeq(s, 1, n)) = n
                                 /\ SubSeq(s, n + 1, Len(s)) \in Seq(Byte)
                                 /\ SubSeq(s, 1, n) \o SubSeq(s, n + 1, Len(s)) = s
         /\ \A t, u \in Seq(Byte) : s = t \o u => /\ Len(t) \in 0..Len(s)
                                                  /\ SubSeq(s, Len(t) + 1, Len(s)) = u
<1>1. Len(s) \in Nat /\ \A i \in 1..Len(s) : s[i] \in Byte
  BY ElementOfSeq
<1>2. ASSUME NEW n \in 0..Len(s)
      PROVE  /\ SubSeq(s, 1, n) \in Seq(Byte) /\ Len(SubSeq(s, 1, n)) = n
             /\ SubSeq(s, n + 1, Len(s)) \in Seq(Byte)
             /\ SubSeq(s, 1, n) \o SubSeq(s, n + 1, Len(s)) = s
  <2>1. SubSeq(s, 1, n) \in Seq(Byte) /\ Len(SubSeq(s, 1, n)) = n
    <3>1. 1 \in Int /\ n \in Int /\ \A i \in 1..n : s[i] \in Byte
      BY <1>1
    <3>2. /\ SubSeq(s, 1, n) \in Seq(Byte)
          /\ Len(SubSeq(s, 1, n)) = IF 1 <= n THEN n - 1 + 1 ELSE 0
      BY <3>1, SubSeqProperties
    <3>3. QED
      BY <1>1, <3>2
  <2>2. SubSeq(s, n + 1, Len(s)) \in Seq(Byte)
    <3>1. n + 1 \in Int /\ Len(s) \in Int /\ \A i \in (n + 1)..Len(s) : s[i] \in Byte
      BY <1>1
    <3>2. QED
      BY <3>1, SubSeqProperties
  <2>3. SubSeq(s, 1, n) \o SubSeq(s, n + 1, Len(s)) = SubSeq(s, 1, Len(s))
    <3>1. 1 \in 1..Len(s) + 1 /\ n \in (1 - 1)..Len(s) /\ Len(s) \in n..Len(s)
      BY <1>1
    <3>2. QED
      BY <3>1, ConcatAdjacentSubSeq
  <2>4. QED
    BY <2>1, <2>2, <2>3, SubSeqFull
<1>3. ASSUME NEW t \in Seq(Byte), NEW u \in Seq(Byte), s = t \o u
      PROVE  Len(t) \in 0..Len(s) /\ SubSeq(s, Len(t) + 1, Len(s)) = u
  <2>1. Len(s) = Len(t) + Len(u) /\ Len(t) \in Nat /\ Len(u) \in Nat
    BY <1>3, ConcatProperties
  <2>2. CASE u = <<>>
    <3>1. Len(u) = 0 /\ Len(s) < Len(t) + 1 /\ Len(t) + 1 \in Int /\ Len(s) \in Int
      BY <2>1, <2>2
    <3>2. QED
      BY <2>1, <2>2, <3>1, SubSeqEmpty
  <2>3. CASE u # <<>>
    <3>1. Len(u) > 0
      BY <2>1, <2>3, EmptySeq
    <3>2. /\ Len(t) + 1 \in Len(t) + 1..Len(t) + Len(u) /\ Len(s) \in Len(t) + 1..Len(t) + Len(u)
          /\ (Len(t) + 1) - Len(t) = 1 /\ Len(s) - Len(t) = Len(u)
      BY <2>1, <3>1
    <3>3. SubSeq(s, Len(t) + 1, Len(s)) = SubSeq(u, 1, Len(u))
      BY <1>3, <3>2, SubSeqOfConcat2
    <3>4. SubSeq(u, 1, Len(u)) = u
      BY SubSeqFull
    <3>5. Len(t) \in 0..Len(s)
      BY <2>1
    <3>6. QED
      BY <3>3, <3>4, <3>5
  <2>4. QED
    BY <2>2, <2>3
<1>4. QED
  BY <1>2, <1>3

\* What was dropped of the line, and what is pending of it.
LEMMA Dropped ==
  ASSUME NEW b, NEW bytes \in Seq(Byte), Reassembling(b, bytes), b.discarding
  PROVE  \E d \in Seq(Byte) : /\ rest(bytes) = d \o b.pending
                              /\ ~Fits(d) /\ Fragment(d) /\ Fragment(b.pending)
<1>1. rest(bytes) \in Seq(Byte) /\ Len(rest(bytes)) \in Nat
  BY LinesGoOn
<1>2. PICK n \in (MaxLineBytes + 1)..Len(rest(bytes)) :
             b.pending = SubSeq(rest(bytes), n + 1, Len(rest(bytes)))
  BY DEF Reassembling
<1>3. n \in 0..Len(rest(bytes)) /\ ~(n <= MaxLineBytes)
  BY <1>1, LineAssumptions
<1> DEFINE d == SubSeq(rest(bytes), 1, n)
<1>4. d \in Seq(Byte) /\ Len(d) = n /\ b.pending \in Seq(Byte) /\ d \o b.pending = rest(bytes)
  <2> DEFINE r == rest(bytes)
  <2>1. /\ SubSeq(r, 1, n) \in Seq(Byte) /\ Len(SubSeq(r, 1, n)) = n
        /\ SubSeq(r, n + 1, Len(r)) \in Seq(Byte)
        /\ SubSeq(r, 1, n) \o SubSeq(r, n + 1, Len(r)) = r
    <3> HIDE DEF r
    <3>1. r \in Seq(Byte) /\ n \in 0..Len(r)
      BY <1>1, <1>3 DEF r
    <3>2. QED
      BY <3>1, CutInTwo
  <2>2. QED
    BY <1>2, <2>1
<1>5. Fragment(d \o b.pending)
  BY <1>4, RestIsFragment
<1> HIDE DEF d
<1>6. Fragment(d) /\ Fragment(b.pending)
  BY <1>4, <1>5, PartsAreFragments
<1>7. QED
  BY <1>3, <1>4, <1>6 DEF Fits

\* And the other way round.
LEMMA DiscardingIsSound ==
  ASSUME NEW bytes \in Seq(Byte), NEW d \in Seq(Byte), NEW pending \in Seq(Byte),
         rest(bytes) = d \o pending, ~Fits(d)
  PROVE  Reassembling([pending |-> pending, discarding |-> TRUE], bytes)
<1>1. rest(bytes) \in Seq(Byte)
  BY LinesGoOn
<1>2. Len(d) \in 0..Len(rest(bytes)) /\ SubSeq(rest(bytes), Len(d) + 1, Len(rest(bytes))) = pending
  BY <1>1, CutInTwo
<1>3. Len(d) \in (MaxLineBytes + 1)..Len(rest(bytes))
  BY <1>1, <1>2, LineAssumptions DEF Fits
<1>4. QED
  BY <1>2, <1>3 DEF Reassembling, Buffer

\* The buffer of a fragment that does not fit is empty, and discarding.
LEMMA TooLongIsDropped ==
  ASSUME NEW bytes \in Seq(Byte), ~Fits(rest(bytes))
  PROVE  Reassembling([pending |-> <<>>, discarding |-> TRUE], bytes)
<1>1. rest(bytes) \in Seq(Byte) /\ <<>> \in Seq(Byte) /\ rest(bytes) = rest(bytes) \o <<>>
  BY LinesGoOn, ConcatEmptySeq
<1>2. QED
  BY <1>1, DiscardingIsSound

\* "Append chunk and yield every line it completed" (LineBuffer.feed): a chunk, cut
\* wherever it is, completes the lines that the stream has more with it than
\* without, and leaves the buffer that goes with them.
THEOREM FeedIsWhole ==
  ASSUME NEW b, NEW bytes \in Seq(Byte), NEW chunk \in Seq(Byte), Reassembling(b, bytes)
  PROVE  /\ Reassembling(fed(b, chunk), bytes \o chunk)
         /\ CompleteLines(bytes \o chunk) = CompleteLines(bytes) \o completed(b, chunk)
         /\ completed(b, chunk) \in Seq(Seq(Byte))
<1> DEFINE x == b.pending \o chunk
           more == bytes \o chunk
<1>1. /\ b.pending \in Seq(Byte) /\ b.discarding \in BOOLEAN
      /\ x \in Seq(Byte) /\ more \in Seq(Byte)
  <2>1. b.pending \in Seq(Byte) /\ b.discarding \in BOOLEAN
    BY DEF Reassembling, Buffer
  <2>2. QED
    BY <2>1, ConcatProperties
<1>2. /\ whole(x) \in Seq(Seq(Byte)) /\ rest(x) \in Seq(Byte)
      /\ whole(bytes) \in Seq(Seq(Byte)) /\ rest(bytes) \in Seq(Byte)
      /\ Len(split(x)) = Len(whole(x)) + 1
      /\ whole(more) = whole(bytes) \o whole(rest(bytes) \o chunk)
      /\ rest(more) = rest(rest(bytes) \o chunk)
  BY <1>1, LinesGoOn, SplitInTwo
<1>3. /\ CompleteLines(more) = fitting(whole(more))
      /\ CompleteLines(bytes) = fitting(whole(bytes))
      /\ completed(b, chunk) =
           fitting(IF b.discarding /\ whole(x) # <<>> THEN Tail(whole(x)) ELSE whole(x))
      /\ fed(b, chunk) =
           IF Fits(rest(x))
           THEN [pending |-> rest(x), discarding |-> b.discarding /\ Len(split(x)) = 1]
           ELSE [pending |-> <<>>, discarding |-> TRUE]
  BY DEF CompleteLines, completed, fed, whole, rest
<1>4. completed(b, chunk) \in Seq(Seq(Byte))
  BY <1>2, <1>3, FittingGoesOn, HeadTailProperties
<1>5. CASE ~b.discarding
  <2>1. b.pending = rest(bytes) /\ Fits(rest(bytes))
    BY <1>5 DEF Reassembling
  <2>2. whole(more) = whole(bytes) \o whole(x) /\ rest(more) = rest(x)
    BY <1>2, <2>1
  <2>3. CompleteLines(more) = CompleteLines(bytes) \o completed(b, chunk)
    BY <1>2, <1>3, <1>5, <2>2, FittingInTwo
  <2>4. Reassembling(fed(b, chunk), more)
    <3> HIDE DEF x, more
    <3>1. CASE Fits(rest(x))
      <4>1. fed(b, chunk) = [pending |-> rest(x), discarding |-> FALSE]
        BY <1>3, <1>5, <3>1
      <4>2. QED
        BY <1>2, <2>2, <3>1, <4>1 DEF Reassembling, Buffer
    <3>2. CASE ~Fits(rest(x))
      BY <1>1, <1>3, <2>2, <3>2, TooLongIsDropped
    <3>3. QED
      BY <3>1, <3>2
  <2>5. QED
    BY <1>4, <2>3, <2>4
<1>6. CASE b.discarding
  <2>1. PICK d \in Seq(Byte) : /\ rest(bytes) = d \o b.pending
                               /\ ~Fits(d) /\ Fragment(d) /\ Fragment(b.pending)
    BY <1>6, Dropped
  <2>2. rest(bytes) \o chunk = d \o x
    <3> DEFINE p == b.pending
    <3> HIDE DEF p
    <3>1. p \in Seq(Byte)
      BY <1>1 DEF p
    <3>2. (d \o p) \o chunk = d \o (p \o chunk)
      BY <3>1, ConcatAssociative
    <3>3. rest(bytes) = d \o p /\ x = p \o chunk
      BY <2>1 DEF p
    <3>4. QED
      BY <3>2, <3>3
  <2>3. whole(more) = whole(bytes) \o whole(d \o x) /\ rest(more) = rest(d \o x)
    BY <1>2, <2>2
  <2>4. Len(whole(x)) = 0 <=> whole(x) = <<>>
    BY <1>2, EmptySeq
  <2> HIDE DEF x, more
  <2>5. CASE whole(x) = <<>>
    <3>1. whole(d \o x) = <<>> /\ rest(d \o x) = d \o rest(x)
      BY <1>1, <2>1, <2>5, FragmentInFront
    <3>2. CompleteLines(more) = CompleteLines(bytes) \o completed(b, chunk)
      <4>1. fitting(<<>>) = <<>> /\ completed(b, chunk) = <<>>
        BY <1>3, <2>5, FittingGoesOn
      <4>2. whole(more) = whole(bytes) /\ fitting(whole(bytes)) \in Seq(Seq(Byte))
        BY <1>2, <2>3, <3>1, ConcatEmptySeq, FittingGoesOn
      <4>3. QED
        BY <1>3, <4>1, <4>2, ConcatEmptySeq
    <3>3. Reassembling(fed(b, chunk), more)
      <4>1. CASE Fits(rest(x))
        <5>1. fed(b, chunk) = [pending |-> rest(x), discarding |-> TRUE]
          <6>1. Len(split(x)) = 1
            BY <1>2, <2>4, <2>5
          <6>2. QED
            BY <1>3, <1>6, <4>1, <6>1
        <5>2. QED
          BY <1>1, <1>2, <2>1, <2>3, <3>1, <5>1, DiscardingIsSound
      <4>2. CASE ~Fits(rest(x))
        <5>1. Len(d \o rest(x)) = Len(d) + Len(rest(x)) /\ Len(d) \in Nat /\ Len(rest(x)) \in Nat
          BY <1>2, ConcatProperties
        <5>2. ~Fits(rest(more))
          BY <2>1, <2>3, <3>1, <5>1, LineAssumptions DEF Fits
        <5>3. QED
          BY <1>1, <1>3, <4>2, <5>2, TooLongIsDropped
      <4>3. QED
        BY <4>1, <4>2
    <3>4. QED
      BY <1>4, <3>2, <3>3 DEF more
  <2>6. CASE whole(x) # <<>>
    <3> DEFINE h == Head(whole(x))
               l == Tail(whole(x))
    <3>1. h \in Seq(Byte) /\ l \in Seq(Seq(Byte)) /\ d \o h \in Seq(Byte)
      <4>1. h \in Seq(Byte) /\ l \in Seq(Seq(Byte))
        BY <1>2, <2>6, HeadTailProperties
      <4>2. QED
        BY <4>1, ConcatProperties
    <3>2. whole(d \o x) = <<d \o h>> \o l /\ rest(d \o x) = rest(x)
      BY <1>1, <2>1, <2>6, FragmentInFront
    <3>3. completed(b, chunk) = fitting(l)
      BY <1>3, <1>6, <2>6
    <3> HIDE DEF h, l
    <3>4. fitting(<<d \o h>> \o l) = fitting(l)
      <4>1. ~Fits(d \o h)
        <5>1. Len(d \o h) = Len(d) + Len(h) /\ Len(d) \in Nat /\ Len(h) \in Nat
          BY <3>1, ConcatProperties
        <5>2. QED
          BY <2>1, <5>1, LineAssumptions DEF Fits
      <4>2. <<d \o h>> = Append(<<>>, d \o h) /\ <<>> \in Seq(Seq(Byte)) /\ <<d \o h>> \in Seq(Seq(Byte))
        BY <3>1
      <4>3. fitting(<<d \o h>>) = <<>>
        BY <3>1, <4>1, <4>2, FittingGoesOn DEF with
      <4>4. fitting(<<d \o h>> \o l) = fitting(<<d \o h>>) \o fitting(l)
        BY <3>1, <4>2, FittingInTwo
      <4>5. QED
        BY <3>1, <4>3, <4>4, FittingGoesOn, ConcatEmptySeq
    <3>5. CompleteLines(more) = CompleteLines(bytes) \o completed(b, chunk)
      <4>1. <<d \o h>> \o l \in Seq(Seq(Byte))
        <5>1. <<d \o h>> \in Seq(Seq(Byte))
          BY <3>1
        <5>2. QED
          BY <3>1, <5>1, ConcatProperties
      <4>2. fitting(whole(more)) = fitting(whole(bytes)) \o fitting(<<d \o h>> \o l)
        <5>1. whole(bytes) \in Seq(Seq(Byte)) /\ whole(more) = whole(bytes) \o (<<d \o h>> \o l)
          BY <1>2, <2>3, <3>2
        <5>2. QED
          BY <4>1, <5>1, FittingInTwo
      <4>3. QED
        BY <1>3, <3>3, <3>4, <4>2
    <3>6. Reassembling(fed(b, chunk), more)
      <4>1. rest(more) = rest(x)
        BY <2>3, <3>2
      <4>2. CASE Fits(rest(x))
        <5>1. Len(split(x)) # 1
          BY <1>2, <2>4, <2>6
        <5>2. fed(b, chunk) = [pending |-> rest(x), discarding |-> FALSE]
          BY <1>3, <4>2, <5>1
        <5>3. QED
          BY <1>2, <4>1, <4>2, <5>2 DEF Reassembling, Buffer
      <4>3. CASE ~Fits(rest(x))
        BY <1>1, <1>3, <4>1, <4>3, TooLongIsDropped
      <4>4. QED
        BY <4>2, <4>3
    <3>7. QED
      BY <1>4, <3>5, <3>6 DEF more
  <2>7. QED
    BY <2>5, <2>6
<1>7. QED
  BY <1>1, <1>5, <1>6

\* "The trailing fragment at end of stream, if any" (LineBuffer.flush).
THEOREM FlushIsWhole ==
  ASSUME NEW b, NEW bytes \in Seq(Byte), Reassembling(b, bytes)
  PROVE  /\ CompleteLines(bytes) \o flush(b) = AllLines(bytes)
         /\ flush(b) \in Seq(Seq(Byte))
<1>1. rest(bytes) \in Seq(Byte) /\ Len(rest(bytes)) \in Nat
  BY LinesGoOn
<1>2. AllLines(bytes) = CompleteLines(bytes) \o
        (IF rest(bytes) = <<>> \/ ~Fits(rest(bytes)) THEN <<>> ELSE <<rest(bytes)>>)
  BY DEF AllLines, rest
<1>3. CASE b.discarding
  <2>1. PICK n \in (MaxLineBytes + 1)..Len(rest(bytes)) : TRUE
    BY <1>3 DEF Reassembling
  <2>2. ~Fits(rest(bytes))
    BY <1>1, LineAssumptions DEF Fits
  <2>3. flush(b) = <<>>
    BY <1>3 DEF flush
  <2>4. AllLines(bytes) = CompleteLines(bytes) \o <<>>
    BY <1>2, <2>2
  <2>5. <<>> \in Seq(Seq(Byte))
    OBVIOUS
  <2>6. QED
    BY <2>3, <2>4, <2>5
<1>4. CASE ~b.discarding
  <2>1. b.pending = rest(bytes) /\ Fits(rest(bytes))
    BY <1>4 DEF Reassembling
  <2>2. QED
    BY <1>1, <1>2, <1>4, <2>1 DEF flush
<1>5. QED
  BY <1>3, <1>4

(***************************************************************************)
(* The inductive invariant.                                                *)
(***************************************************************************)

\* An operation is under way.
Busy == op.at \notin Over

\* It has a kind.
KindIsKnown == Busy => op.kind \in Kinds

\* Its lines are those of what it read, and its buffer goes with them.
StreamIsWhole ==
  op.at = "reading" =>
    LET bytes == SubSeq(op.output, 1, op.read) IN
    /\ op.read <= Len(op.output)
    /\ op.lines = CompleteLines(bytes) /\ Reassembling(op.buffer, bytes)

\* It knows of what is changed, whoever changed it; and what its own agent changed is
\* somewhere, in a commit after a check that worked.
EditsAreKnown ==
  /\ Busy /\ changed_outside_workflow # {} => "reader" \in op.edited \/ op.foreign
  /\ Busy /\ "reader" \in op.edited => "reader" \in dirty \cup staged \cup committed
  /\ op.at = "writing" /\ "reader" \in op.edited /\ op.kind \in Asserted =>
       "reader" \in committed \/ ~Without({"status"})

\* An agent that survived an operation of its kind was there before the one under way,
\* whose last message is its own unless such an agent wrote over it.
MessageIsKnown ==
  /\ Busy /\ op.kind \in orphans => op.haunted
  /\ op.at \in {"checking", "writing"} /\ output_file /\ scratch[op.kind] # "own" =>
       op.haunted \/ ~Without({"silent"})

\* Neither the index nor a commit has the scratch, as long as there is the rule or
\* nobody who stages.
ScratchIsOut ==
  /\ Without({"exclude"}) /\ created => excluded
  /\ Without({"exclude"}) \/ Without({"stage"}) => Scratch \notin staged \cup committed

\* How far the work of a request has come, whose git add worked.
WorkIsUnderWay ==
  Without({"lock"}) =>
    /\ At("commit") => request.work \subseteq staged \cup committed
    /\ At("push") => request.work \subseteq committed
    /\ At("create") \/ At("record") => request.work \subseteq pushed

\* A pull request that is about to be recorded, or is, exists.
RecordedIsThere == At("record") \/ pr_url => pr

IInv ==
  /\ TypeOK /\ KindIsKnown
  /\ StreamIsWhole /\ LinesAreWhole
  /\ EditsAreKnown /\ MessageIsKnown /\ VerdictIsRight
  /\ ScratchIsOut /\ ScratchStaysLocal
  /\ WorkIsUnderWay /\ RecordedIsThere /\ WorkIsShipped

(***************************************************************************)
(* The operation, as a record.                                             *)
(***************************************************************************)

\* The outputs are byte sequences within the bound, the two of an agent that is not
\* chatty included.
LEMMA OutputsAreBytes ==
  /\ \A o \in Outputs : o \in Seq(Byte) /\ Len(o) \in 0..MaxOutput
  /\ <<>> \in Outputs /\ <<"answer">> \in Outputs
  /\ Output \subseteq Outputs
<1>1. ASSUME NEW o \in Outputs PROVE o \in Seq(Byte) /\ Len(o) \in 0..MaxOutput
  <2>1. PICK n \in 0..MaxOutput : o \in [1..n -> Byte]
    BY DEF Outputs
  <2>2. n \in Nat
    BY <2>1, OperationAssumptions
  <2>3. QED
    BY <2>1, <2>2
<1>2. <<>> \in Outputs
  <2>1. 0 \in 0..MaxOutput /\ <<>> \in [1..0 -> Byte]
    BY OperationAssumptions
  <2>2. QED
    BY <2>1 DEF Outputs
<1>3. <<"answer">> \in Outputs
  <2>1. 1 \in 0..MaxOutput /\ <<"answer">> \in [1..1 -> Byte]
    BY OperationAssumptions DEF Payload
  <2>2. QED
    BY <2>1 DEF Outputs
<1>4. QED
  BY <1>1, <1>2, <1>3 DEF Output

\* An operation without lines, like those that are over, is an operation.
LEMMA EmptyBuffer ==
  /\ NewBuffer \in Buffer /\ <<>> \in Seq(Seq(Byte)) /\ <<>> \in Outputs /\ 0 \in 0..MaxOutput
  /\ Reassembling(NewBuffer, <<>>) /\ CompleteLines(<<>>) = <<>>
<1>1. NewBuffer \in Buffer /\ <<>> \in Seq(Seq(Byte)) /\ <<>> \in Outputs /\ 0 \in 0..MaxOutput
  <2>1. <<>> \in Seq(Byte)
    OBVIOUS
  <2>2. QED
    BY <2>1, OutputsAreBytes, OperationAssumptions DEF NewBuffer, Buffer
<1>2. Reassembling(NewBuffer, <<>>)
  <2>1. rest(<<>>) = <<>> /\ Len(<<>>) = 0 /\ 0 <= MaxLineBytes
    BY LinesGoOn, LineAssumptions
  <2>2. QED
    BY <1>1, <2>1 DEF Reassembling, NewBuffer, Fits
<1>3. CompleteLines(<<>>) = <<>>
  BY LinesGoOn, FittingGoesOn DEF CompleteLines, whole
<1>4. QED
  BY <1>1, <1>2, <1>3

\* An edit of another changes only what the operation knows of such edits.
LEMMA ForeignEdit ==
  ASSUME op \in Operation
  PROVE  /\ foreign_edit(op) \in Operation
         /\ foreign_edit(op).kind = op.kind /\ foreign_edit(op).backend = op.backend
         /\ foreign_edit(op).at = op.at /\ foreign_edit(op).output = op.output
         /\ foreign_edit(op).read = op.read /\ foreign_edit(op).buffer = op.buffer
         /\ foreign_edit(op).lines = op.lines /\ foreign_edit(op).edited = op.edited
         /\ foreign_edit(op).text = op.text /\ foreign_edit(op).haunted = op.haunted
         /\ foreign_edit(op).foreign = IF Busy THEN TRUE ELSE op.foreign
BY DEF foreign_edit, Operation, Busy

\* What is left of an operation that is over.
LEMMA Ended ==
  ASSUME op \in Operation, NEW at \in Over
  PROVE  /\ ended(op, at) \in Operation
         /\ ended(op, at).kind = op.kind /\ ended(op, at).at = at
         /\ ended(op, at).edited = op.edited /\ ended(op, at).foreign = op.foreign
         /\ ended(op, at).text = "none" /\ ended(op, at).haunted = op.haunted
BY EmptyBuffer DEF ended, NoOperation, Operation, Over, Backend

\* The document of events is found in them, or there is none.
LEMMA AnswerIsText == answer \in {"answer", "pieces", "none"}
BY DEF answer, final_text, Codex_final_text, ClaudeCode_final_text

(***************************************************************************)
(* The initial states.                                                     *)
(***************************************************************************)

\* Nothing has happened in an initial state.
LEMMA InitIsSound == Init => IInv
<1> SUFFICES ASSUME Init PROVE IInv
  OBVIOUS
<1>1. /\ op = NoOperation /\ orphans = {} /\ scratch = [k \in Kinds |-> "none"]
      /\ op.at = "idle" /\ op.text = "none" /\ op.edited = {} /\ op.foreign = FALSE
  BY DEF Init, HarnessInit, NoOperation
<1>2. op \in Operation
  BY <1>1, EmptyBuffer DEF NoOperation, Operation, Over, Backend
<1>3. TypeOK
  BY <1>1, <1>2 DEF TypeOK, Init, HarnessInit, MergeInit, NoRequest, Request
<1>4. /\ KindIsKnown /\ StreamIsWhole /\ LinesAreWhole /\ EditsAreKnown /\ MessageIsKnown
      /\ VerdictIsRight
  BY <1>1 DEF KindIsKnown, StreamIsWhole, LinesAreWhole, EditsAreKnown, MessageIsKnown,
     VerdictIsRight, RefusalIsEarned, AcceptanceIsClean, DocumentIsOwn, Busy, Over
<1>5. ScratchIsOut /\ ScratchStaysLocal /\ WorkIsUnderWay /\ RecordedIsThere /\ WorkIsShipped
  BY DEF Init, MergeInit, NoRequest, At, ScratchIsOut, ScratchStaysLocal, WorkIsUnderWay,
     RecordedIsThere, WorkIsShipped
<1>6. QED
  BY <1>3, <1>4, <1>5 DEF IInv

(***************************************************************************)
(* Types.                                                                  *)
(***************************************************************************)

TreeTypes ==
  /\ environment \in Environments
  /\ created \in BOOLEAN /\ excluded \in BOOLEAN
  /\ dirty \subseteq Agents
  /\ staged \subseteq Content /\ committed \subseteq Content /\ pushed \subseteq Content

OperationTypes ==
  /\ op \in Operation /\ (op.at = "accepted" <=> op.text # "none")
  /\ scratch \in [Kinds -> {"none", "own", "stale", "blank"}]
  /\ orphans \subseteq Kinds
  /\ KindIsKnown

MergeTypes ==
  /\ branch \in BOOLEAN /\ pr \in BOOLEAN /\ pr_url \in BOOLEAN
  /\ request \in Request

\* The three are what TypeOK says, and the kind of an operation under way.
LEMMA TypesAreAll == TypeOK /\ KindIsKnown <=> TreeTypes /\ OperationTypes /\ MergeTypes
BY DEF TypeOK, TreeTypes, OperationTypes, MergeTypes

\* Who may touch what: an operation only adds its agent's edits to the tree, a request
\* does not touch the operation, and neither a run nor an operation the request.
LEMMA StepIsOfOne ==
  ASSUME Next
  PROVE  \/ create_worktree /\ UNCHANGED <<operation, merge>>
         \/ RuleLost /\ UNCHANGED <<operation, merge>>
         \/ RunStages /\ op' = foreign_edit(op) /\ UNCHANGED <<scratch, orphans, merge>>
         \/ (\E agent \in Editors : RunEdits(agent)) /\ op' = foreign_edit(op)
              /\ UNCHANGED <<scratch, orphans, merge>>
         \/ HarnessNext /\ UNCHANGED merge
         \/ MergeNext /\ UNCHANGED operation
BY DEF Next, RunWorks

\* Agents edit, stage and commit agents' edits, or the scratch.
LEMMA TreeTypesAreKept ==
  ASSUME TreeTypes, Next
  PROVE  TreeTypes'
<1>1. CASE create_worktree
  BY <1>1 DEF TreeTypes, create_worktree, git
<1>2. CASE RuleLost
  BY <1>2 DEF TreeTypes, RuleLost, git
<1>3. CASE RunStages
  BY <1>3 DEF TreeTypes, RunStages, Content, Scratch
<1>4. ASSUME NEW agent \in Editors, RunEdits(agent) PROVE TreeTypes'
  BY <1>4 DEF TreeTypes, RunEdits, Agents
<1>5. CASE HarnessNext
  <2>1. CASE UNCHANGED tree
    BY <2>1 DEF TreeTypes, tree, git
  <2>2. CASE reader_edits
    BY <2>2 DEF TreeTypes, reader_edits, Agents
  <2>3. UNCHANGED tree \/ reader_edits \/ reader_renames
    BY <1>5 DEF HarnessNext, Launch, ReadChunk, EndOfOutput, StreamFails, Cancelled, Check,
       WriteArtifact, GivesUp, ReaderEdits, ReaderRenames, OrphanEdits, OrphanExits
  <2>4. CASE reader_renames
    BY <2>4 DEF TreeTypes, reader_renames, Content
  <2>5. QED
    BY <2>1, <2>2, <2>3, <2>4
<1>6. CASE MergeNext
  <2>1. CASE UNCHANGED tree
    BY <2>1 DEF TreeTypes, tree, git
  <2>2. CASE AddAll
    BY <2>2 DEF TreeTypes, AddAll, Content
  <2>3. CASE CommitAll
    BY <2>3 DEF TreeTypes, CommitAll
  <2>4. CASE PushBranch
    BY <2>4 DEF TreeTypes, PushBranch
  <2>5. UNCHANGED tree \/ AddAll \/ CommitAll \/ PushBranch
    BY <1>6 DEF MergeNext, CreateBranch, AddFails, CreatePullRequest, Record, RequestFails,
       MergeStatus
  <2>6. QED
    BY <2>1, <2>2, <2>3, <2>4, <2>5
<1>7. QED
  BY <1>1, <1>2, <1>3, <1>4, <1>5, <1>6, StepIsOfOne

\* A request goes to one of its steps with the work of some agents, or ends.
LEMMA MergeTypesAreKept ==
  ASSUME MergeTypes, TreeTypes, Next
  PROVE  MergeTypes'
<1>1. CASE UNCHANGED merge
  BY <1>1 DEF MergeTypes, merge
<1>2. CASE MergeNext
  <2>1. branch' \in BOOLEAN /\ pr' \in BOOLEAN /\ pr_url' \in BOOLEAN
    BY <1>2 DEF MergeNext, MergeTypes, CreateBranch, AddAll, AddFails, CommitAll, PushBranch,
       CreatePullRequest, Record, RequestFails, MergeStatus
  <2>2. ASSUME UNCHANGED request \/ request' = NoRequest PROVE request' \in Request
    BY <2>2 DEF MergeTypes, NoRequest, Request
  <2>3. ASSUME NEW step \in {"add", "push", "create", "record"}, GoTo(step)
        PROVE  request' \in Request
    BY <2>3 DEF GoTo, MergeTypes, Request
  <2>4. ASSUME request' = [at |-> "commit", work |-> dirty \cup (staged \cap Agents)]
        PROVE  request' \in Request
    BY <2>4 DEF TreeTypes, Request, Agents
  <2>5. \/ UNCHANGED request \/ request' = NoRequest
        \/ \E step \in {"add", "push", "create", "record"} : GoTo(step)
        \/ request' = [at |-> "commit", work |-> dirty \cup (staged \cap Agents)]
    BY <1>2 DEF MergeNext, CreateBranch, AddAll, AddFails, CommitAll, PushBranch,
       CreatePullRequest, Record, RequestFails, MergeStatus
  <2>6. request' \in Request
    BY <2>2, <2>3, <2>4, <2>5
  <2>7. QED
    BY <2>1, <2>6 DEF MergeTypes
<1>3. QED
  BY <1>1, <1>2, StepIsOfOne

\* The stream, at a step of the operation: a chunk more of it and of its lines.
LEMMA ChunkIsRead ==
  ASSUME OperationTypes, StreamIsWhole, NEW n \in 1..MaxOutput, ReadChunk(n)
  PROVE  LET bytes == SubSeq(op.output, 1, op.read + n) IN
         /\ op' \in Operation
         /\ op'.at = "reading" /\ op'.read = op.read + n /\ op'.output = op.output
         /\ op'.kind = op.kind /\ op'.backend = op.backend /\ op'.text = op.text
         /\ op'.edited = op.edited /\ op'.foreign = op.foreign
         /\ op'.read <= Len(op.output)
         /\ op'.lines = CompleteLines(bytes) /\ Reassembling(op'.buffer, bytes)
<1> DEFINE before == SubSeq(op.output, 1, op.read)
           chunk == SubSeq(op.output, op.read + 1, op.read + n)
           bytes == SubSeq(op.output, 1, op.read + n)
<1>1. /\ op \in Operation /\ op.output \in Seq(Byte) /\ Len(op.output) \in 0..MaxOutput
      /\ op.read \in Nat /\ op.read + n <= Len(op.output) /\ op.at = "reading"
      /\ n \in Nat /\ MaxOutput \in Nat
  BY OutputsAreBytes, OperationAssumptions DEF OperationTypes, Operation, ReadChunk
<1>2. /\ before \in Seq(Byte) /\ chunk \in Seq(Byte)
      /\ before \o chunk = bytes
  <2>1. \A i \in 1..Len(op.output) : op.output[i] \in Byte
    BY <1>1, ElementOfSeq
  <2>2. before \in Seq(Byte) /\ chunk \in Seq(Byte)
    <3>1. /\ 1 \in Int /\ op.read \in Int /\ op.read + 1 \in Int /\ op.read + n \in Int
          /\ \A i \in 1..op.read : op.output[i] \in Byte
          /\ \A i \in op.read + 1..op.read + n : op.output[i] \in Byte
      BY <1>1, <2>1
    <3>2. QED
      BY <3>1, SubSeqProperties
  <2>3. before \o chunk = bytes
    <3>1. /\ 1 \in 1..Len(op.output) + 1 /\ op.read \in (1 - 1)..Len(op.output)
          /\ op.read + n \in op.read..Len(op.output)
      BY <1>1
    <3>2. QED
      BY <1>1, <3>1, ConcatAdjacentSubSeq
  <2>4. QED
    BY <2>2, <2>3
<1>3. op.lines = CompleteLines(before) /\ Reassembling(op.buffer, before)
  BY <1>1 DEF StreamIsWhole
<1> HIDE DEF before, chunk, bytes
<1>4. /\ Reassembling(fed(op.buffer, chunk), bytes)
      /\ CompleteLines(bytes) = CompleteLines(before) \o completed(op.buffer, chunk)
      /\ completed(op.buffer, chunk) \in Seq(Seq(Byte))
  BY <1>2, <1>3, FeedIsWhole
<1>5. op' = [op EXCEPT !.read = @ + n, !.buffer = fed(@, chunk),
               !.lines = @ \o completed(op.buffer, chunk)]
  BY DEF ReadChunk, chunk
<1>6. /\ fed(op.buffer, chunk) \in Buffer
      /\ op.lines \o completed(op.buffer, chunk) \in Seq(Seq(Byte))
      /\ op.read + n \in 0..MaxOutput
  <2>1. op.lines \in Seq(Seq(Byte))
    BY <1>1 DEF Operation
  <2>2. QED
    BY <1>1, <1>4, <2>1, ConcatProperties DEF Reassembling
<1>7. /\ op'.read = op.read + n /\ op'.buffer = fed(op.buffer, chunk)
      /\ op'.lines = op.lines \o completed(op.buffer, chunk)
      /\ op'.at = "reading" /\ op'.output = op.output
      /\ op'.kind = op.kind /\ op'.backend = op.backend /\ op'.text = op.text
      /\ op'.edited = op.edited /\ op'.foreign = op.foreign
      /\ op' \in Operation
  BY <1>1, <1>5, <1>6 DEF Operation
<1>8. QED
  BY <1>1, <1>3, <1>4, <1>7 DEF bytes

\* At the end of the stream, which is the operation's output.
LEMMA OutputIsRead ==
  ASSUME OperationTypes, StreamIsWhole, EndOfOutput
  PROVE  /\ op' \in Operation
         /\ op'.at = (IF op.kind \in Asserted THEN "checking" ELSE "writing")
         /\ op'.kind = op.kind /\ op'.backend = op.backend /\ op'.text = op.text
         /\ op'.edited = op.edited /\ op'.foreign = op.foreign
         /\ op'.output = op.output /\ op'.lines = AllLines(op.output)
<1>1. /\ op \in Operation /\ op.output \in Seq(Byte) /\ op.at = "reading"
      /\ op.read = Len(op.output)
  BY OutputsAreBytes DEF OperationTypes, Operation, EndOfOutput
<1>2. SubSeq(op.output, 1, op.read) = op.output
  BY <1>1, SubSeqFull
<1>3. op.lines = CompleteLines(op.output) /\ Reassembling(op.buffer, op.output)
  BY <1>1, <1>2 DEF StreamIsWhole
<1>4. op.lines \o flush(op.buffer) = AllLines(op.output) /\ flush(op.buffer) \in Seq(Seq(Byte))
  BY <1>1, <1>3, FlushIsWhole
<1>5. op.lines \o flush(op.buffer) \in Seq(Seq(Byte))
  <2>1. op.lines \in Seq(Seq(Byte))
    BY <1>1 DEF Operation
  <2>2. QED
    BY <1>4, <2>1, ConcatProperties
<1>6. op' = [op EXCEPT !.at = IF op.kind \in Asserted THEN "checking" ELSE "writing",
               !.lines = @ \o flush(op.buffer)]
  BY DEF EndOfOutput
<1>7. QED
  BY <1>1, <1>4, <1>5, <1>6 DEF Operation

\* An operation is a record of its parts, and gets a text when it is accepted.
LEMMA OperationTypesAreKept ==
  ASSUME OperationTypes, StreamIsWhole, Next
  PROVE  OperationTypes'
<1>1. /\ op \in Operation /\ (op.at = "accepted" <=> op.text # "none")
      /\ scratch \in [Kinds -> {"none", "own", "stale", "blank"}]
      /\ orphans \subseteq Kinds /\ (Busy => op.kind \in Kinds)
  BY DEF OperationTypes, KindIsKnown
<1>2. CASE UNCHANGED operation
  BY <1>2 DEF OperationTypes, operation, KindIsKnown, Busy
<1>3. CASE op' = foreign_edit(op) /\ UNCHANGED <<scratch, orphans>>
  BY <1>1, <1>3, ForeignEdit DEF OperationTypes, KindIsKnown, Busy
<1>4. ASSUME NEW kind \in Kinds, NEW backend \in Backend, NEW output \in Output,
             Launch(kind, backend, output)
      PROVE  OperationTypes'
  <2>1. output \in Outputs
    BY OutputsAreBytes
  <2> DEFINE foreign == changed_outside_workflow # {}
             haunted == kind \in orphans
             o == [NoOperation EXCEPT !.kind = kind, !.backend = backend, !.at = "reading",
                     !.output = output, !.foreign = foreign, !.haunted = haunted]
  <2>2. /\ op' \in Operation /\ op'.kind = kind /\ op'.at = "reading" /\ op'.text = "none"
    <3>1. op' = o /\ foreign \in BOOLEAN /\ haunted \in BOOLEAN
      BY <1>4 DEF Launch
    <3> HIDE DEF foreign, haunted
    <3>2. QED
      BY <2>1, <3>1, EmptyBuffer DEF NoOperation, Operation
  <2>3. scratch' \in [Kinds -> {"none", "own", "stale", "blank"}] /\ orphans' = orphans
    BY <1>1, <1>4 DEF Launch
  <2>4. QED
    BY <1>1, <2>2, <2>3 DEF OperationTypes, KindIsKnown
<1>5. ASSUME NEW n \in 1..MaxOutput, ReadChunk(n) PROVE OperationTypes'
  <2>1. /\ op' \in Operation /\ op'.at = "reading" /\ op'.kind = op.kind /\ op'.text = op.text
    BY <1>5, ChunkIsRead
  <2>2. op.at = "reading" /\ UNCHANGED <<scratch, orphans>>
    BY <1>5 DEF ReadChunk
  <2>3. QED
    BY <1>1, <2>1, <2>2 DEF OperationTypes, KindIsKnown, Busy, Over
<1>6. ASSUME NEW surely \in BOOLEAN, last_message(surely)
      PROVE  scratch' \in [Kinds -> {"none", "own", "stale", "blank"}]
  BY <1>1, <1>6 DEF last_message
<1>7. CASE EndOfOutput
  <2>1. /\ op' \in Operation /\ op'.at \in {"checking", "writing"}
        /\ op'.kind = op.kind /\ op'.text = op.text
    BY <1>7, OutputIsRead
  <2>2. op.at = "reading" /\ UNCHANGED orphans
    BY <1>7 DEF EndOfOutput
  <2>3. scratch' \in [Kinds -> {"none", "own", "stale", "blank"}]
    BY <1>6, <1>7 DEF EndOfOutput
  <2>4. QED
    BY <1>1, <2>1, <2>2, <2>3 DEF OperationTypes, KindIsKnown, Busy, Over
<1>8. ASSUME NEW at \in {"failed", "refused"}, op' = ended(op, at),
             scratch' \in [Kinds -> {"none", "own", "stale", "blank"}], orphans' \subseteq Kinds
      PROVE  OperationTypes'
  <2>1. op' \in Operation /\ op'.at = at /\ op'.text = "none"
    BY <1>1, <1>8, Ended DEF Over
  <2>2. QED
    BY <1>8, <2>1 DEF OperationTypes, KindIsKnown, Busy, Over
<1>9. CASE StreamFails
  BY <1>1, <1>6, <1>8, <1>9 DEF StreamFails
<1>10. CASE Cancelled
  <2>1. op.kind \in Kinds
    BY <1>1, <1>10 DEF Cancelled, Busy, Over
  <2>2. QED
    BY <1>1, <1>8, <1>10, <2>1 DEF Cancelled
<1>11. CASE Check
  <2>1. CASE op' = ended(op, "refused")
    BY <1>1, <1>8, <1>11, <2>1 DEF Check
  <2>2. CASE op' = [op EXCEPT !.at = "writing"]
    <3>1. op' \in Operation /\ op'.at = "writing" /\ op'.kind = op.kind /\ op'.text = op.text
      BY <1>1, <2>2 DEF Operation
    <3>2. op.at = "checking" /\ UNCHANGED <<scratch, orphans>>
      BY <1>11 DEF Check
    <3>3. QED
      BY <1>1, <3>1, <3>2 DEF OperationTypes, KindIsKnown, Busy, Over
  <2>3. QED
    BY <1>11, <2>1, <2>2 DEF Check
<1>12. CASE WriteArtifact
  <2> DEFINE text == IF output_file THEN scratch[op.kind] ELSE answer
  <2>1. op.at = "writing" /\ op.kind \in Kinds
    BY <1>1, <1>12 DEF WriteArtifact, Busy, Over
  <2>2. text \in {"own", "stale", "answer", "pieces"}
    BY <1>1, <1>12, <2>1, AnswerIsText DEF WriteArtifact, output_file
  <2>3. /\ op' = [ended(op, "accepted") EXCEPT !.text = text]
        /\ scratch' = [scratch EXCEPT ![op.kind] = "none"] /\ orphans' = orphans
    BY <1>12 DEF WriteArtifact
  <2> HIDE DEF text
  <2>4. ended(op, "accepted") \in Operation /\ ended(op, "accepted").at = "accepted"
    BY <1>1, Ended DEF Over
  <2>5. op' \in Operation /\ op'.at = "accepted" /\ op'.text = text
    BY <2>2, <2>3, <2>4 DEF Operation
  <2>6. QED
    BY <1>1, <2>2, <2>3, <2>5 DEF OperationTypes, KindIsKnown, Busy, Over
<1>13. CASE GivesUp
  BY <1>1, <1>8, <1>13 DEF GivesUp
<1>14. CASE ReaderEdits
  <2>1. op' \in Operation /\ op'.at = op.at /\ op'.kind = op.kind /\ op'.text = op.text
    BY <1>1, <1>14 DEF ReaderEdits, Operation
  <2>2. UNCHANGED <<scratch, orphans>>
    BY <1>14 DEF ReaderEdits
  <2>3. QED
    BY <1>1, <2>1, <2>2 DEF OperationTypes, KindIsKnown, Busy
<1>15. CASE ReaderRenames
  <2>1. op' \in Operation /\ op'.at = op.at /\ op'.kind = op.kind /\ op'.text = op.text
    BY <1>1, <1>15 DEF ReaderRenames, Operation
  <2>2. UNCHANGED <<scratch, orphans>>
    BY <1>15 DEF ReaderRenames
  <2>3. QED
    BY <1>1, <2>1, <2>2 DEF OperationTypes, KindIsKnown, Busy
<1>16. CASE OrphanEdits
  BY <1>3, <1>16 DEF OrphanEdits
<1>17. ASSUME NEW kind \in Kinds, OrphanExits(kind) PROVE OperationTypes'
  <2>1. op' = op /\ orphans' \subseteq Kinds /\ scratch' \in [Kinds -> {"none", "own", "stale", "blank"}]
    BY <1>1, <1>17 DEF OrphanExits
  <2>2. QED
    BY <1>1, <2>1 DEF OperationTypes, KindIsKnown, Busy
<1>18. CASE HarnessNext
  BY <1>4, <1>5, <1>7, <1>9, <1>10, <1>11, <1>12, <1>13, <1>14, <1>15, <1>16, <1>17, <1>18
     DEF HarnessNext
<1>19. QED
  BY <1>2, <1>3, <1>18, StepIsOfOne DEF operation

(***************************************************************************)
(* The stream.                                                             *)
(***************************************************************************)

\* Whatever leaves the reading of the operation alone leaves its lines whole.
LEMMA StreamIsLeft ==
  ASSUME StreamIsWhole, LinesAreWhole, op'.at = op.at, op'.output = op.output,
         op'.read = op.read, op'.buffer = op.buffer, op'.lines = op.lines
  PROVE  StreamIsWhole' /\ LinesAreWhole'
BY DEF StreamIsWhole, LinesAreWhole, Reassembling

\* Only a chunk, and the end of the output, change the lines.
LEMMA StreamIsKept ==
  ASSUME OperationTypes, StreamIsWhole, LinesAreWhole, Next
  PROVE  StreamIsWhole' /\ LinesAreWhole'
<1>1. op \in Operation
  BY DEF OperationTypes
<1>2. CASE op' = op
  BY <1>2, StreamIsLeft
<1>3. CASE op' = foreign_edit(op)
  BY <1>1, <1>3, ForeignEdit, StreamIsLeft
<1>4. CASE op'.at \in Over
  BY <1>4 DEF StreamIsWhole, LinesAreWhole, Over
<1>5. ASSUME NEW kind \in Kinds, NEW backend \in Backend, NEW output \in Output,
             Launch(kind, backend, output)
      PROVE  StreamIsWhole' /\ LinesAreWhole'
  <2>1. /\ op'.at = "reading" /\ op'.output = output /\ op'.read = 0
        /\ op'.buffer = NewBuffer /\ op'.lines = <<>>
    BY <1>5 DEF Launch, NoOperation
  <2>2. SubSeq(output, 1, 0) = <<>> /\ 0 <= Len(output)
    BY OutputsAreBytes, SubSeqEmpty
  <2>3. QED
    BY <2>1, <2>2, EmptyBuffer DEF StreamIsWhole, LinesAreWhole, Reassembling
<1>6. ASSUME NEW n \in 1..MaxOutput, ReadChunk(n) PROVE StreamIsWhole' /\ LinesAreWhole'
  BY <1>6, ChunkIsRead DEF StreamIsWhole, LinesAreWhole, Reassembling
<1>7. CASE EndOfOutput
  BY <1>7, OutputIsRead DEF StreamIsWhole, LinesAreWhole
<1>8. CASE StreamFails \/ Cancelled \/ GivesUp
  BY <1>1, <1>4, <1>8, Ended DEF StreamFails, Cancelled, GivesUp, Over
<1>9. CASE Check
  <2>1. CASE op' = ended(op, "refused")
    BY <1>1, <1>4, <2>1, Ended DEF Over
  <2>2. CASE op' = [op EXCEPT !.at = "writing"]
    <3>1. op'.at = "writing" /\ op'.output = op.output /\ op'.lines = op.lines
      BY <1>1, <2>2 DEF Operation
    <3>2. op.at = "checking"
      BY <1>9 DEF Check
    <3>3. QED
      BY <3>1, <3>2 DEF StreamIsWhole, LinesAreWhole
  <2>3. QED
    BY <1>9, <2>1, <2>2 DEF Check
<1>10. CASE WriteArtifact
  <2>1. ended(op, "accepted") \in Operation /\ ended(op, "accepted").at = "accepted"
    BY <1>1, Ended DEF Over
  <2>2. op'.at = "accepted"
    BY <1>10, <2>1 DEF WriteArtifact, Operation
  <2>3. QED
    BY <1>4, <2>2 DEF Over
<1>11. CASE ReaderEdits
  BY <1>1, <1>11, StreamIsLeft DEF ReaderEdits, Operation
<1>12. CASE ReaderRenames
  BY <1>1, <1>12, StreamIsLeft DEF ReaderRenames, Operation
<1>13. CASE HarnessNext
  BY <1>2, <1>3, <1>5, <1>6, <1>7, <1>8, <1>9, <1>10, <1>11, <1>12, <1>13
     DEF HarnessNext, OrphanEdits, OrphanExits
<1>14. QED
  BY <1>2, <1>3, <1>13, StepIsOfOne DEF operation

(***************************************************************************)
(* The verdict.                                                            *)
(***************************************************************************)

\* What may happen in a behavior is decided at its start.
LEMMA EnvironmentStays ==
  ASSUME Next
  PROVE  environment' = environment
<1>1. CASE HarnessNext
  <2>1. UNCHANGED tree \/ reader_edits \/ reader_renames
    BY <1>1 DEF HarnessNext, Launch, ReadChunk, EndOfOutput, StreamFails, Cancelled, Check,
       WriteArtifact, GivesUp, ReaderEdits, ReaderRenames, OrphanEdits, OrphanExits
  <2>2. QED
    BY <2>1 DEF tree, reader_edits, reader_renames
<1>2. CASE MergeNext
  BY <1>2 DEF MergeNext, CreateBranch, AddAll, AddFails, CommitAll, PushBranch,
     CreatePullRequest, Record, RequestFails, MergeStatus, tree
<1>3. QED
  BY <1>1, <1>2, StepIsOfOne DEF create_worktree, RuleLost, RunStages, RunEdits

\* What is changed is what git status has, but for the scratch and what moved there.
LEMMA Changed == changed_outside_workflow = (dirty \cup staged) \ {Scratch, Moved}
BY DEF changed_outside_workflow, status

\* What anybody but the operation does to the tree: a commit takes changes out of the
\* working tree and the index, and nothing else does.
LEMMA TreeGrows ==
  ASSUME TreeTypes, Next, ~HarnessNext
  PROVE  /\ committed \subseteq committed'
         /\ dirty \cup staged \cup committed \subseteq (dirty \cup staged \cup committed)'
         /\ \/ op' = foreign_edit(op)
            \/ op' = op /\ changed_outside_workflow' \subseteq changed_outside_workflow
<1>1. CASE create_worktree \/ RuleLost
  BY <1>1, StepIsOfOne, Changed
  DEF create_worktree, RuleLost, git, operation, changed_outside_workflow,
     status
<1>2. CASE RunStages /\ op' = foreign_edit(op)
  BY <1>2 DEF RunStages
<1>3. CASE (\E agent \in Editors : RunEdits(agent)) /\ op' = foreign_edit(op)
  BY <1>3 DEF RunEdits
<1>4. CASE MergeNext /\ UNCHANGED operation
  <2>1. CASE UNCHANGED tree
    BY <1>4, <2>1 DEF tree, git, operation, changed_outside_workflow, status
  <2>2. CASE AddAll
    BY <1>4, <2>2 DEF AddAll, operation, changed_outside_workflow, status
  <2>3. CASE CommitAll
    BY <1>4, <2>3 DEF CommitAll, operation, changed_outside_workflow, status
  <2>4. CASE PushBranch
    BY <1>4, <2>4 DEF PushBranch, operation, changed_outside_workflow, status
  <2>5. UNCHANGED tree \/ AddAll \/ CommitAll \/ PushBranch
    BY <1>4 DEF MergeNext, CreateBranch, AddFails, CreatePullRequest, Record, RequestFails,
       MergeStatus
  <2>6. QED
    BY <2>1, <2>2, <2>3, <2>4, <2>5
<1>5. CASE (create_worktree \/ RuleLost) /\ UNCHANGED operation
  BY <1>1, <1>5
<1>6. QED
  BY <1>2, <1>3, <1>4, <1>5, StepIsOfOne

\* The assertion of FR-16 and what it sees, kept.
EditsAreSound == EditsAreKnown /\ RefusalIsEarned /\ AcceptanceIsClean

\* Each step keeps what the assertion of FR-16 rests on, and its outcome.
LEMMA EditsAreKept ==
  ASSUME TreeTypes, OperationTypes, EditsAreSound, Next
  PROVE  EditsAreSound'
<1> USE DEF EditsAreSound, EditsAreKnown, RefusalIsEarned, AcceptanceIsClean
<1>1. /\ op \in Operation /\ environment' = environment
      /\ Without({"status"})' = Without({"status"})
  BY EnvironmentStays DEF OperationTypes, Without
<1>2. CASE ~HarnessNext
  <2>1. /\ committed \subseteq committed'
        /\ dirty \cup staged \cup committed \subseteq (dirty \cup staged \cup committed)'
        /\ \/ op' = foreign_edit(op)
           \/ op' = op /\ changed_outside_workflow' \subseteq changed_outside_workflow
    BY <1>2, TreeGrows
  <2>2. CASE op' = op
    BY <1>1, <2>1, <2>2, ForeignEdit DEF Busy
  <2>3. CASE op' = foreign_edit(op)
    <3>1. /\ op'.at = op.at /\ op'.kind = op.kind /\ op'.edited = op.edited
          /\ op'.foreign = IF Busy THEN TRUE ELSE op.foreign
      BY <1>1, <2>3, ForeignEdit
    <3>2. QED
      BY <1>1, <2>1, <3>1 DEF Busy, Over
  <2>4. QED
    BY <2>1, <2>2, <2>3
<1>3. ASSUME UNCHANGED tree
      PROVE  /\ changed_outside_workflow' = changed_outside_workflow
             /\ UNCHANGED <<dirty, staged, committed>>
  BY <1>3 DEF tree, git, changed_outside_workflow, status
<1>4. ASSUME NEW kind \in Kinds, NEW backend \in Backend, NEW output \in Output,
             Launch(kind, backend, output)
      PROVE  EditsAreSound'
  <2>1. /\ op'.at = "reading" /\ op'.edited = {}
        /\ op'.foreign = (changed_outside_workflow # {})
    BY <1>4 DEF Launch, NoOperation
  <2>2. UNCHANGED tree
    BY <1>4 DEF Launch
  <2>3. QED
    BY <1>3, <2>1, <2>2
<1>5. ASSUME UNCHANGED tree, op.at = "reading", op'.edited = op.edited,
             op'.foreign = op.foreign, op'.kind = op.kind, op'.at \notin {"accepted", "refused"},
             op'.at = "writing" => op.kind \notin Asserted
      PROVE  EditsAreSound'
  BY <1>3, <1>5 DEF Busy, Over
<1>6. ASSUME NEW n \in 1..MaxOutput, ReadChunk(n) PROVE EditsAreSound'
  <2>1. /\ op'.edited = op.edited /\ op'.foreign = op.foreign /\ op'.kind = op.kind
        /\ op'.at = op.at /\ op.at = "reading" /\ UNCHANGED tree
    BY <1>1, <1>6 DEF ReadChunk, Operation
  <2>2. QED
    BY <1>5, <2>1
<1>7. CASE EndOfOutput
  <2>1. /\ op'.edited = op.edited /\ op'.foreign = op.foreign /\ op'.kind = op.kind
        /\ op'.at = (IF op.kind \in Asserted THEN "checking" ELSE "writing")
        /\ op.at = "reading" /\ UNCHANGED tree
    BY <1>1, <1>7 DEF EndOfOutput, Operation
  <2>2. QED
    BY <1>5, <2>1
<1>8. CASE StreamFails \/ Cancelled \/ GivesUp
  <2>1. op'.at = "failed"
    BY <1>1, <1>8, Ended DEF StreamFails, Cancelled, GivesUp, Over
  <2>2. QED
    BY <2>1 DEF Busy, Over
<1>9. CASE Check
  <2>1. op.at = "checking" /\ Busy /\ UNCHANGED tree
    BY <1>9 DEF Check, Busy, Over
  <2>2. CASE op' = ended(op, "refused") /\ changed_outside_workflow # {}
    <3>1. op'.at = "refused" /\ op'.edited = op.edited /\ op'.foreign = op.foreign
      BY <1>1, <2>2, Ended DEF Over
    <3>2. QED
      BY <2>1, <2>2, <3>1 DEF Busy, Over
  <2>3. CASE /\ op' = [op EXCEPT !.at = "writing"]
             /\ changed_outside_workflow = {} \/ "status" \in environment
    <3>1. /\ op'.at = "writing" /\ op'.edited = op.edited /\ op'.foreign = op.foreign
          /\ op'.kind = op.kind
      BY <1>1, <2>3 DEF Operation
    <3>2. "reader" \in op.edited => "reader" \in committed \/ ~Without({"status"})
      <4>1. CASE "status" \in environment
        BY <4>1 DEF Without
      <4>2. CASE changed_outside_workflow = {}
        BY <2>1, <4>2, Changed DEF Scratch, Moved
      <4>3. QED
        BY <2>3, <4>1, <4>2
    <3>3. QED
      BY <1>1, <1>3, <2>1, <3>1, <3>2 DEF Busy, Over
  <2>4. QED
    BY <1>9, <2>2, <2>3 DEF Check
<1>10. CASE WriteArtifact
  <2>1. op.at = "writing" /\ UNCHANGED tree
    BY <1>10 DEF WriteArtifact
  <2>2. /\ ended(op, "accepted") \in Operation /\ ended(op, "accepted").at = "accepted"
        /\ ended(op, "accepted").edited = op.edited /\ ended(op, "accepted").foreign = op.foreign
        /\ ended(op, "accepted").kind = op.kind
    BY <1>1, Ended DEF Over
  <2>3. op'.at = "accepted" /\ op'.edited = op.edited /\ op'.kind = op.kind
    BY <1>10, <2>2 DEF WriteArtifact, Operation
  <2>4. op.edited # {} /\ "reader" \notin op.edited => op.edited = {Moved}
    BY <1>1 DEF Operation
  <2>5. QED
    BY <1>1, <1>3, <2>1, <2>3, <2>4 DEF Busy, Over
<1>11. CASE ReaderEdits
  <2>1. /\ op'.at = "reading" /\ "reader" \in op'.edited
    BY <1>1, <1>11 DEF ReaderEdits, Operation
  <2>2. "reader" \in dirty'
    BY <1>11 DEF ReaderEdits, reader_edits
  <2>3. QED
    BY <2>1, <2>2
<1>12. CASE ReaderRenames
  <2>1. /\ op.at = "reading" /\ op'.at = "reading" /\ op'.foreign = op.foreign
        /\ ("reader" \in op'.edited <=> "reader" \in op.edited)
    BY <1>1, <1>12 DEF ReaderRenames, Operation, Moved
  <2>2. staged' = staged \cup {Moved} /\ UNCHANGED <<dirty, committed>>
    BY <1>12 DEF ReaderRenames, reader_renames
  <2>3. changed_outside_workflow' = changed_outside_workflow
    BY <1>12, <2>2 DEF ReaderRenames, reader_renames, changed_outside_workflow, status
  <2>4. QED
    BY <2>1, <2>2, <2>3 DEF Busy, Over
<1>13. CASE OrphanEdits
  <2>1. /\ op'.at = op.at /\ op'.kind = op.kind /\ op'.edited = op.edited
        /\ op'.foreign = IF Busy THEN TRUE ELSE op.foreign
    BY <1>1, <1>13, ForeignEdit DEF OrphanEdits
  <2>2. dirty \subseteq dirty' /\ UNCHANGED <<staged, committed>>
    BY <1>13 DEF OrphanEdits, reader_edits
  <2>3. QED
    BY <1>1, <2>1, <2>2 DEF Busy, Over
<1>14. ASSUME NEW kind \in Kinds, OrphanExits(kind) PROVE EditsAreSound'
  <2>1. op' = op /\ UNCHANGED tree
    BY <1>14 DEF OrphanExits
  <2>2. QED
    BY <1>1, <1>3, <2>1 DEF Busy
<1>15. CASE HarnessNext
  BY <1>4, <1>6, <1>7, <1>8, <1>9, <1>10, <1>11, <1>12, <1>13, <1>14, <1>15 DEF HarnessNext
<1>16. QED
  BY <1>2, <1>15

\* The last message, the agents that may write over it, and the document made of it.
MessageIsSound == MessageIsKnown /\ DocumentIsOwn

\* Each step keeps what is known of the last message, and the document made of it.
LEMMA MessageIsKept ==
  ASSUME OperationTypes, MessageIsSound, Next
  PROVE  MessageIsSound'
<1> USE DEF MessageIsSound, MessageIsKnown, DocumentIsOwn, output_file
<1>1. /\ op \in Operation /\ scratch \in [Kinds -> {"none", "own", "stale", "blank"}]
      /\ Without({"silent"})' = Without({"silent"}) /\ environment' = environment
      /\ (Busy => op.kind \in Kinds) /\ (op.at = "accepted" <=> op.text # "none")
  BY EnvironmentStays DEF OperationTypes, KindIsKnown, Without
<1>2. CASE UNCHANGED operation
  BY <1>1, <1>2 DEF operation, Busy
<1>3. CASE op' = foreign_edit(op) /\ UNCHANGED <<scratch, orphans>>
  <2>1. /\ op'.at = op.at /\ op'.kind = op.kind /\ op'.backend = op.backend
        /\ op'.text = op.text /\ op'.haunted = op.haunted
    BY <1>1, <1>3, ForeignEdit
  <2>2. QED
    BY <1>1, <1>3, <2>1 DEF Busy, Over
<1>4. ASSUME NEW kind \in Kinds, NEW backend \in Backend, NEW output \in Output,
             Launch(kind, backend, output)
      PROVE  MessageIsSound'
  <2>1. /\ op'.at = "reading" /\ op'.text = "none" /\ op'.kind = kind
        /\ op'.haunted = (kind \in orphans) /\ orphans' = orphans
    BY <1>4 DEF Launch, NoOperation
  <2>2. QED
    BY <2>1
<1>5. ASSUME NEW n \in 1..MaxOutput, ReadChunk(n) PROVE MessageIsSound'
  <2>1. /\ op.at = "reading" /\ op'.at = op.at /\ op'.haunted = op.haunted
        /\ op'.text = op.text /\ op'.kind = op.kind /\ UNCHANGED <<scratch, orphans>>
    BY <1>1, <1>5 DEF ReadChunk, Operation
  <2>2. QED
    BY <1>1, <2>1 DEF Busy, Over
<1>6. CASE EndOfOutput
  <2>1. /\ op.at = "reading" /\ op'.at \in {"checking", "writing"}
        /\ op'.haunted = op.haunted /\ op'.text = op.text /\ op'.kind = op.kind
        /\ op'.backend = op.backend /\ orphans' = orphans
    BY <1>1, <1>6 DEF EndOfOutput, Operation
  <2>2. op.kind \in Kinds /\ op.text = "none"
    BY <1>1, <2>1 DEF Busy, Over
  <2>3. op.backend = "codex" =>
          scratch'[op.kind] \in {"own", "blank"} \/ ~Without({"silent"})
    <3>1. CASE "silent" \in environment
      BY <3>1 DEF Without
    <3>2. ASSUME "silent" \notin environment, op.backend = "codex"
          PROVE  scratch'[op.kind] \in {"own", "blank"}
      <4>1. last_message(TRUE)
        BY <1>6, <3>2 DEF EndOfOutput
      <4>2. \E m \in {"own", "blank"} : scratch' = [scratch EXCEPT ![op.kind] = m]
        BY <3>2, <4>1 DEF last_message
      <4>3. QED
        BY <1>1, <2>2, <4>2
    <3>3. QED
      BY <3>1, <3>2
  <2>4. QED
    BY <1>1, <2>1, <2>2, <2>3 DEF Busy, Over
<1>7. CASE StreamFails \/ Cancelled \/ GivesUp
  <2>1. op'.at = "failed" /\ op'.text = "none"
    BY <1>1, <1>7, Ended DEF StreamFails, Cancelled, GivesUp, Over
  <2>2. QED
    BY <2>1 DEF Busy, Over
<1>8. CASE Check
  <2>1. op.at = "checking" /\ UNCHANGED <<scratch, orphans>>
    BY <1>8 DEF Check
  <2>2. CASE op' = ended(op, "refused")
    <3>1. op'.at = "refused" /\ op'.text = "none"
      BY <1>1, <2>2, Ended DEF Over
    <3>2. QED
      BY <3>1 DEF Busy, Over
  <2>3. CASE op' = [op EXCEPT !.at = "writing"]
    <3>1. /\ op'.at = "writing" /\ op'.haunted = op.haunted /\ op'.text = op.text
          /\ op'.kind = op.kind /\ op'.backend = op.backend
      BY <1>1, <2>3 DEF Operation
    <3>2. QED
      BY <1>1, <2>1, <3>1 DEF Busy, Over
  <2>4. QED
    BY <1>8, <2>2, <2>3 DEF Check
<1>9. CASE WriteArtifact
  <2> DEFINE text == IF output_file THEN scratch[op.kind] ELSE answer
  <2>1. op.at = "writing"
    BY <1>9 DEF WriteArtifact
  <2>2. /\ ended(op, "accepted") \in Operation /\ ended(op, "accepted").at = "accepted"
        /\ ended(op, "accepted").haunted = op.haunted
    BY <1>1, Ended DEF Over
  <2>3. text = "stale" => op.haunted \/ ~Without({"silent"})
    BY <2>1, AnswerIsText
  <2>4. op' = [ended(op, "accepted") EXCEPT !.text = text]
    BY <1>9 DEF WriteArtifact
  <2> HIDE DEF text
  <2>5. op'.at = "accepted" /\ op'.haunted = op.haunted /\ op'.text = text
    BY <2>2, <2>4 DEF Operation
  <2>6. QED
    BY <1>1, <2>3, <2>5 DEF Busy, Over
<1>10. CASE ReaderEdits
  <2>1. /\ op.at = "reading" /\ op'.at = op.at /\ op'.haunted = op.haunted
        /\ op'.text = op.text /\ op'.kind = op.kind /\ UNCHANGED <<scratch, orphans>>
    BY <1>1, <1>10 DEF ReaderEdits, Operation
  <2>2. QED
    BY <1>1, <2>1 DEF Busy, Over
<1>11. CASE ReaderRenames
  <2>1. /\ op.at = "reading" /\ op'.at = op.at /\ op'.haunted = op.haunted
        /\ op'.text = op.text /\ op'.kind = op.kind /\ UNCHANGED <<scratch, orphans>>
    BY <1>1, <1>11 DEF ReaderRenames, Operation
  <2>2. QED
    BY <1>1, <2>1 DEF Busy, Over
<1>12. CASE OrphanEdits
  BY <1>3, <1>12 DEF OrphanEdits
<1>13. ASSUME NEW kind \in Kinds, OrphanExits(kind) PROVE MessageIsSound'
  <2>1. op' = op /\ orphans' \subseteq orphans /\ kind \in orphans
    BY <1>13 DEF OrphanExits
  <2>2. scratch'[op.kind] = scratch[op.kind] \/ op.kind = kind \/ op.kind \notin Kinds
    BY <1>1, <1>13 DEF OrphanExits
  <2>3. QED
    BY <1>1, <2>1, <2>2 DEF Busy, Over
<1>14. CASE HarnessNext
  BY <1>4, <1>5, <1>6, <1>7, <1>8, <1>9, <1>10, <1>11, <1>12, <1>13, <1>14
     DEF HarnessNext
<1>15. QED
  BY <1>2, <1>3, <1>14, StepIsOfOne DEF operation

(***************************************************************************)
(* The scratch.                                                            *)
(***************************************************************************)

\* Each step keeps the scratch out of the index as well as of the commits.
LEMMA ScratchStaysOut ==
  ASSUME TreeTypes, ScratchIsOut, Next
  PROVE  ScratchIsOut'
<1> USE DEF ScratchIsOut
<1>1. /\ Without({"exclude"})' = Without({"exclude"}) /\ Without({"stage"})' = Without({"stage"})
      /\ Scratch \notin dirty
  BY EnvironmentStays DEF Without, TreeTypes, Agents, Editors, Scratch
<1>2. CASE create_worktree
  <2>1. Without({"exclude"}) => excluded'
    BY <1>2 DEF create_worktree, Without
  <2>2. UNCHANGED git
    BY <1>2 DEF create_worktree
  <2>3. QED
    BY <1>1, <2>1, <2>2 DEF git
<1>3. CASE RuleLost
  <2>1. ~Without({"exclude"}) /\ UNCHANGED git /\ created' = created
    BY <1>3 DEF RuleLost, Without
  <2>2. QED
    BY <1>1, <2>1 DEF git
<1>4. CASE RunStages
  <2>1. /\ ~Without({"stage"}) /\ created /\ UNCHANGED <<created, excluded, committed>>
        /\ staged' = staged \cup dirty \cup IF excluded THEN {} ELSE {Scratch}
    BY <1>4 DEF RunStages, Without
  <2>2. QED
    BY <1>1, <2>1
<1>5. ASSUME NEW agent \in Editors, RunEdits(agent) PROVE ScratchIsOut'
  BY <1>1, <1>5 DEF RunEdits
<1>6. CASE HarnessNext
  <2>1. UNCHANGED tree \/ reader_edits \/ reader_renames
    BY <1>6 DEF HarnessNext, Launch, ReadChunk, EndOfOutput, StreamFails, Cancelled, Check,
       WriteArtifact, GivesUp, ReaderEdits, ReaderRenames, OrphanEdits, OrphanExits
  <2>2. /\ UNCHANGED <<created, excluded, committed>>
        /\ staged' \in {staged, staged \cup {Moved}}
    BY <2>1 DEF tree, git, reader_edits, reader_renames
  <2>3. QED
    BY <1>1, <2>2 DEF Scratch, Moved
<1>7. CASE MergeNext
  <2>1. CASE UNCHANGED tree
    BY <1>1, <2>1 DEF tree, git
  <2>2. CASE AddAll
    BY <1>1, <2>2 DEF AddAll
  <2>3. CASE CommitAll
    BY <1>1, <2>3 DEF CommitAll
  <2>4. CASE PushBranch
    BY <1>1, <2>4 DEF PushBranch
  <2>5. UNCHANGED tree \/ AddAll \/ CommitAll \/ PushBranch
    BY <1>7 DEF MergeNext, CreateBranch, AddFails, CreatePullRequest, Record, RequestFails,
       MergeStatus
  <2>6. QED
    BY <2>1, <2>2, <2>3, <2>4, <2>5
<1>8. QED
  BY <1>2, <1>3, <1>4, <1>5, <1>6, <1>7, StepIsOfOne

(***************************************************************************)
(* The pull request.                                                       *)
(***************************************************************************)

\* What anybody but a request does to the tree: the index only grows, and no
\* commit is made or pushed.
LEMMA OthersOnlyAdd ==
  ASSUME Next, ~MergeNext
  PROVE  UNCHANGED merge /\ staged \subseteq staged' /\ UNCHANGED <<committed, pushed>>
<1>1. UNCHANGED merge
  BY StepIsOfOne
<1>2. CASE HarnessNext
  <2>1. UNCHANGED tree \/ reader_edits \/ reader_renames
    BY <1>2 DEF HarnessNext, Launch, ReadChunk, EndOfOutput, StreamFails, Cancelled, Check,
       WriteArtifact, GivesUp, ReaderEdits, ReaderRenames, OrphanEdits, OrphanExits
  <2>2. QED
    BY <1>1, <2>1 DEF tree, git, reader_edits, reader_renames
<1>3. QED
  BY <1>1, <1>2, StepIsOfOne DEF create_worktree, RuleLost, RunStages, RunEdits, git

\* A request goes from step to step, or ends.
LEMMA WorkIsKept ==
  ASSUME MergeTypes, WorkIsUnderWay, RecordedIsThere, Next
  PROVE  WorkIsUnderWay' /\ RecordedIsThere'
<1> USE DEF WorkIsUnderWay, RecordedIsThere
<1>1. /\ Without({"lock"})' = Without({"lock"}) /\ request \in Request
  BY EnvironmentStays DEF Without, MergeTypes
<1>2. CASE ~MergeNext
  BY <1>1, <1>2, OthersOnlyAdd DEF merge, At
<1>3. ASSUME request' = NoRequest, pr' = pr, pr_url' => pr' PROVE WorkIsUnderWay' /\ RecordedIsThere'
  BY <1>3 DEF NoRequest, At
<1>4. ASSUME NEW step \in {"add", "push", "create", "record"}, GoTo(step)
      PROVE  request'.at = step /\ request'.work = request.work
  BY <1>1, <1>4 DEF GoTo, Request
<1>5. CASE CreateBranch
  BY <1>4, <1>5 DEF CreateBranch, At
<1>6. CASE AddAll \/ AddFails
  <2>1. request' = [at |-> "commit", work |-> dirty \cup (staged \cap Agents)]
    BY <1>6 DEF AddAll, AddFails
  <2>2. request'.at = "commit" /\ request'.work = dirty \cup (staged \cap Agents)
    BY <2>1
  <2>3. UNCHANGED <<pr, pr_url>>
    BY <1>6 DEF AddAll, AddFails
  <2>4. Without({"lock"}) => staged' = staged \cup dirty
    BY <1>6 DEF AddAll, AddFails, Without
  <2>5. QED
    BY <1>1, <2>2, <2>3, <2>4 DEF At
<1>7. CASE CommitAll
  <2>1. request'.at = "push" /\ request'.work = request.work
    BY <1>4, <1>7 DEF CommitAll
  <2>2. At("commit") /\ committed' = committed \cup staged /\ UNCHANGED <<pr, pr_url>>
    BY <1>7 DEF CommitAll
  <2>3. QED
    BY <1>1, <2>1, <2>2 DEF At
<1>8. CASE PushBranch
  <2>1. request'.at = "create" /\ request'.work = request.work
    BY <1>4, <1>8 DEF PushBranch
  <2>2. At("push") /\ pushed' = committed /\ UNCHANGED <<pr, pr_url>>
    BY <1>8 DEF PushBranch
  <2>3. QED
    BY <1>1, <2>1, <2>2 DEF At
<1>9. CASE CreatePullRequest
  <2>1. At("create") /\ pr' = TRUE /\ UNCHANGED tree
    BY <1>9 DEF CreatePullRequest
  <2>2. CASE request' = NoRequest
    BY <2>1, <2>2 DEF NoRequest, At
  <2>3. CASE GoTo("record")
    <3>1. request'.at = "record" /\ request'.work = request.work
      BY <1>4, <2>3
    <3>2. QED
      BY <1>1, <2>1, <3>1 DEF At, tree, git
  <2>4. QED
    BY <1>9, <2>2, <2>3 DEF CreatePullRequest
<1>10. CASE Record \/ RequestFails
  BY <1>3, <1>10 DEF Record, RequestFails
<1>11. CASE MergeStatus
  BY <1>1, <1>11 DEF MergeStatus, At, tree, git
<1>12. QED
  BY <1>2, <1>5, <1>6, <1>7, <1>8, <1>9, <1>10, <1>11 DEF MergeNext

(***************************************************************************)
(* The theorems.                                                           *)
(***************************************************************************)

\* Each step, and each stutter, keeps the invariant.
LEMMA StepKeeps ==
  ASSUME IInv, [Next]_vars
  PROVE  IInv'
<1>1. /\ TreeTypes /\ OperationTypes /\ MergeTypes /\ StreamIsWhole /\ LinesAreWhole
      /\ EditsAreSound /\ MessageIsSound /\ ScratchIsOut /\ WorkIsUnderWay /\ RecordedIsThere
  BY TypesAreAll DEF IInv, EditsAreSound, MessageIsSound, VerdictIsRight
<1>2. CASE Next
  <2>1. TreeTypes' /\ OperationTypes' /\ MergeTypes'
    BY <1>1, <1>2, TreeTypesAreKept, OperationTypesAreKept, MergeTypesAreKept
  <2>2. TypeOK' /\ KindIsKnown'
    BY <2>1 DEF TypeOK, TreeTypes, OperationTypes, MergeTypes
  <2>3. StreamIsWhole' /\ LinesAreWhole'
    BY <1>1, <1>2, StreamIsKept
  <2>4. EditsAreKnown' /\ MessageIsKnown' /\ VerdictIsRight'
    BY <1>1, <1>2, EditsAreKept, MessageIsKept DEF EditsAreSound, MessageIsSound, VerdictIsRight
  <2>5. ScratchIsOut' /\ ScratchStaysLocal'
    BY <1>1, <1>2, ScratchStaysOut DEF ScratchIsOut, ScratchStaysLocal
  <2>6. WorkIsUnderWay' /\ RecordedIsThere' /\ WorkIsShipped'
    BY <1>1, <1>2, WorkIsKept DEF WorkIsUnderWay, RecordedIsThere, WorkIsShipped
  <2>7. QED
    BY <2>2, <2>3, <2>4, <2>5, <2>6 DEF IInv
<1>3. CASE UNCHANGED vars
  <2>1. /\ UNCHANGED <<environment, created, excluded, dirty, staged, committed, pushed>>
        /\ UNCHANGED <<op, scratch, orphans>> /\ UNCHANGED <<branch, request, pr, pr_url>>
    BY <1>3 DEF vars, tree, git, operation, merge
  <2>2. /\ Busy' = Busy /\ changed_outside_workflow' = changed_outside_workflow
        /\ output_file' = output_file
        /\ \A mishaps : Without(mishaps)' = Without(mishaps) /\ \A step : At(step)' = At(step)
    BY <2>1 DEF Busy, changed_outside_workflow, status, output_file, Without, At
  <2>3. (TypeOK /\ KindIsKnown)' /\ (StreamIsWhole /\ LinesAreWhole)'
    <3>1. (TypeOK /\ KindIsKnown)'
      BY <2>1, <2>2 DEF IInv, TypeOK, KindIsKnown
    <3>2. QED
      BY <1>1, <2>1, <3>1, StreamIsLeft
  <2>4. EditsAreKnown' /\ MessageIsKnown' /\ VerdictIsRight'
    BY <2>1, <2>2 DEF IInv, EditsAreKnown, MessageIsKnown, VerdictIsRight, RefusalIsEarned,
       AcceptanceIsClean, DocumentIsOwn, Without
  <2>5. ScratchIsOut' /\ ScratchStaysLocal'
    BY <2>1, <2>2 DEF IInv, ScratchIsOut, ScratchStaysLocal, Without
  <2>6. WorkIsUnderWay' /\ RecordedIsThere' /\ WorkIsShipped'
    BY <2>1, <2>2 DEF IInv, WorkIsUnderWay, RecordedIsThere, WorkIsShipped, Without, At
  <2>7. QED
    BY <2>3, <2>4, <2>5, <2>6 DEF IInv
<1>4. QED
  BY <1>2, <1>3

\* Whatever runs, operations, survivors and requests do in one worktree, in whatever
\* order, an operation and a request know what their outcome rests on.
THEOREM Inductive == Spec => []IInv
<1>1. Init => IInv
  BY InitIsSound
<1>2. IInv /\ [Next]_vars => IInv'
  BY StepKeeps
<1>3. QED
  BY <1>1, <1>2, PTL DEF Spec

\* Every variable keeps its type, and an operation has a document exactly when it
\* was accepted (_write_artifact).
THEOREM TypeCorrect == Spec => []TypeOK
<1>1. IInv => TypeOK
  BY DEF IInv
<1>2. QED
  BY <1>1, Inductive, PTL

\* LineBuffer: for every output, every cut of it into chunks and every cap, the lines
\* of an operation are those of the output as a whole (feed, flush).
THEOREM LinesAreReassembled == Spec => []LinesAreWhole
<1>1. IInv => LinesAreWhole
  BY DEF IInv
<1>2. QED
  BY <1>1, Inductive, PTL

\* FR-16 (run_read_only_operation, run_review_operation, run_as_built_operation): who is
\* refused, who is accepted, and on whose document.
THEOREM VerdictHolds == Spec => []VerdictIsRight
<1>1. IInv => VerdictIsRight
  BY DEF IInv
<1>2. QED
  BY <1>1, Inductive, PTL

\* commit_all: the scratch needs both a rule that is missing and an agent that stages
\* to get into a commit.
THEOREM ScratchHolds == Spec => []ScratchStaysLocal
<1>1. IInv => ScratchStaysLocal
  BY DEF IInv
<1>2. QED
  BY <1>1, Inductive, PTL

\* open-pr: through failures half way and agents that edit meanwhile, a request that
\* is about to answer has pushed what it staged, and a recorded URL is of a pull
\* request.
THEOREM ShippingHolds == Spec => []WorkIsShipped
<1>1. IInv => WorkIsShipped
  BY DEF IInv
<1>2. QED
  BY <1>1, Inductive, PTL
==============================================================================
