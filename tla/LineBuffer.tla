------------------------------ MODULE LineBuffer ------------------------------
(***************************************************************************)
(* The reassembly of lines from the chunks of a byte stream, as operators  *)
(* on the state of a buffer: how every line of a harness CLI is read, from *)
(* its pipe or from the log of its run.  Source: harness/lines.py.         *)
(***************************************************************************)
EXTENDS Naturals, Sequences, SequencesExt

CONSTANTS
  MaxLineBytes,  \* MAX_LINE_BYTES
  Byte           \* the bytes that are told apart

Newline == "newline"

ASSUME LineAssumptions == MaxLineBytes \in Nat /\ Newline \in Byte

Buffer == [pending : Seq(Byte), discarding : BOOLEAN]

NewBuffer == [pending |-> <<>>, discarding |-> FALSE]

\* bytes.split: one piece more than there are newlines, perhaps an empty one.
split(bytes) ==
  LET pieces[n \in 0..Len(bytes)] ==
        IF n = 0 THEN << <<>> >>
        ELSE LET before == pieces[n - 1] IN
             IF bytes[n] = Newline THEN Append(before, <<>>)
             ELSE [before EXCEPT ![Len(before)] = Append(@, bytes[n])]
  IN pieces[Len(bytes)]

Fits(line) == Len(line) <= MaxLineBytes

\* The lines that are not too long, in order.
fitting(lines) ==
  LET kept[n \in 0..Len(lines)] ==
        IF n = 0 THEN <<>>
        ELSE IF Fits(lines[n]) THEN Append(kept[n - 1], lines[n]) ELSE kept[n - 1]
  IN kept[Len(lines)]

\* The lines a chunk completes: the first of them may be the tail of a line that
\* is being discarded, and any of them may be too long.
completed(b, chunk) ==
  LET lines == Front(split(b.pending \o chunk))
  IN fitting(IF b.discarding /\ lines # <<>> THEN Tail(lines) ELSE lines)

\* A buffer that forgets, between two chunks, that it is discarding a line.
fed_forgetful(b, chunk) ==
  LET rest == Last(split(b.pending \o chunk)) IN
  IF Fits(rest) THEN [pending |-> rest, discarding |-> FALSE]
  ELSE [pending |-> <<>>, discarding |-> TRUE]

\* The buffer after a chunk: a partial line past the cap is dropped at once.
fed(b, chunk) ==
  LET pieces == split(b.pending \o chunk)
      rest == Last(pieces)
  IN IF Fits(rest)
     THEN [pending |-> rest, discarding |-> b.discarding /\ Len(pieces) = 1]
     ELSE [pending |-> <<>>, discarding |-> TRUE]

\* The trailing fragment at the end of the stream, if any.
flush(b) == IF b.pending = <<>> \/ b.discarding THEN <<>> ELSE <<b.pending>>

(***************************************************************************)
(* Reference: the lines of a stream, read as a whole.                      *)
(***************************************************************************)

CompleteLines(stream) == fitting(Front(split(stream)))

AllLines(stream) ==
  LET rest == Last(split(stream))
  IN CompleteLines(stream) \o IF rest = <<>> \/ ~Fits(rest) THEN <<>> ELSE <<rest>>
==============================================================================
