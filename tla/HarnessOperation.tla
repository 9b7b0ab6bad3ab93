--------------------------- MODULE HarnessOperation ---------------------------
(***************************************************************************)
(* The operations that run an agent for its answer and not for its edits:  *)
(* plan, review and as-built.  The server reads the agent's output in      *)
(* chunks, looks at git status for edits the agent was not to make, and    *)
(* writes the document itself.  A failed operation undoes nothing, and a   *)
(* cancelled one leaves its agent alive.  Sources: harness/runner.py,      *)
(* harness/claude_code.py, harness/codex.py; the CLIs are external.        *)
(***************************************************************************)
EXTENDS GitTree, LineBuffer, Adapters

CONSTANTS
  Kinds,        \* the operations asked for
  MaxOutput     \* bound: the bytes a chatty agent writes

ASSUME OperationAssumptions ==
  /\ Kinds \subseteq {"plan", "review", "as-built"}
  /\ Byte = Payload \cup {Newline}
  /\ MaxOutput \in Nat \ {0}

VARIABLES
  op,           \* the operation under way, or the last one (bound: one at a time)
  scratch,      \* each kind's last-message file: "none", op's "own", "stale" or "blank"
  orphans       \* the kinds of the agents that outlived their operation

operation == <<op, scratch, orphans>>

Outputs == UNION {[1..n -> Byte] : n \in 0..MaxOutput}

\* Only the first operation's agent is chatty.
Output == IF "chatty" \in environment /\ op.at = "idle" THEN Outputs ELSE {<<>>, <<"answer">>}

\* FR-16 is asserted for these; review trusts its harness.
Asserted == {"plan", "as-built"}

Over == {"idle", "accepted", "refused", "failed"}

\* output, read, buffer, lines: stream_command's reading.  edited: how this agent
\* touched the source.  foreign: there were edits of others when the operation
\* began or during it.  haunted: an agent that outlived an operation of its kind
\* was alive when it began.  text: what was written, a last message of its own or a
\* stale one, its answer or the pieces of one.
Operation == [kind : Kinds \cup {"none"}, backend : Backend,
              at : Over \cup {"reading", "checking", "writing"},
              output : Outputs, read : 0..MaxOutput, buffer : Buffer,
              lines : Seq(Seq(Byte)), edited : SUBSET {"reader", Moved},
              foreign : BOOLEAN, haunted : BOOLEAN,
              text : {"none", "own", "stale", "answer", "pieces"}]

NoOperation == [kind |-> "none", backend |-> "codex", at |-> "idle", output |-> <<>>,
                read |-> 0, buffer |-> NewBuffer, lines |-> <<>>,
                edited |-> {}, foreign |-> FALSE, haunted |-> FALSE, text |-> "none"]

\* An edit by another than the operation's agent, seen by the operation.
foreign_edit(o) == IF o.at \in Over THEN o ELSE [o EXCEPT !.foreign = TRUE]

(***************************************************************************)
(* stream_command.                                                         *)
(***************************************************************************)

\* The agent is started on a prompt; its output is what it will have written.
Launch(kind, backend, output) ==
  /\ "operation" \in environment
  /\ created /\ op.at \in Over
  /\ op' = [NoOperation EXCEPT !.kind = kind, !.backend = backend, !.at = "reading",
              !.output = output, !.foreign = changed_outside_workflow # {},
              !.haunted = kind \in orphans]
  /\ scratch' = [k \in Kinds |-> IF scratch[k] = "own" THEN "stale" ELSE scratch[k]]
  /\ UNCHANGED <<tree, orphans>>

\* process.stdout.read: some of what is in the pipe.
ReadChunk(n) ==
  LET chunk == SubSeq(op.output, op.read + 1, op.read + n) IN
  /\ op.at = "reading" /\ op.read + n <= Len(op.output)
  /\ op' = [op EXCEPT !.read = @ + n, !.buffer = fed(@, chunk),
              !.lines = @ \o completed(op.buffer, chunk)]
  /\ UNCHANGED <<tree, scratch, orphans>>

\* Codex leaves its last message in a file, which may be blank.
last_message(surely) ==
  scratch' \in LET left == {[scratch EXCEPT ![op.kind] = m] : m \in {"own", "blank"}} IN
    IF op.backend # "codex" THEN {scratch} ELSE IF surely THEN left ELSE {scratch} \cup left

\* An end of the stream without a look at the buffer.
EndOfOutput_unflushed ==
  /\ op.at = "reading" /\ op.read = Len(op.output)
  /\ op' = [op EXCEPT !.at = IF op.kind \in Asserted THEN "checking" ELSE "writing"]
  /\ last_message("silent" \notin environment)
  /\ UNCHANGED <<tree, orphans>>

\* The agent exits with 0.
EndOfOutput ==
  /\ op.at = "reading" /\ op.read = Len(op.output)
  /\ op' = [op EXCEPT !.at = IF op.kind \in Asserted THEN "checking" ELSE "writing",
              !.lines = @ \o flush(op.buffer)]
  /\ last_message("silent" \notin environment)
  /\ UNCHANGED <<tree, orphans>>

\* What an operation that is over leaves to be told apart.
ended(o, at) == [NoOperation EXCEPT !.kind = o.kind, !.at = at,
                   !.edited = o.edited, !.foreign = o.foreign, !.haunted = o.haunted]

\* A non-zero exit, or a timeout or a stream error after which the process is
\* killed; the scratch file stays.
StreamFails ==
  /\ op.at = "reading"
  /\ op' = ended(op, "failed")
  /\ last_message(FALSE)
  /\ UNCHANGED <<tree, orphans>>

\* The server stops or dies: nothing kills the process.
Cancelled ==
  /\ op.at = "reading"
  /\ op' = ended(op, "failed")
  /\ orphans' = orphans \cup {op.kind}
  /\ UNCHANGED <<tree, scratch>>

(***************************************************************************)
(* changed_outside_workflow and _write_artifact.                           *)
(***************************************************************************)

\* The assertion of FR-16, the same for a plan and an as-built record.  A git status
\* that fails finds no offender.
Check ==
  /\ op.at = "checking"
  /\ \/ op' = IF changed_outside_workflow = {} THEN [op EXCEPT !.at = "writing"]
              ELSE ended(op, "refused")
     \/ "status" \in environment /\ op' = [op EXCEPT !.at = "writing"]
  /\ UNCHANGED <<tree, scratch, orphans>>

\* The document of the events.
answer == final_text(op.backend, collect(op.backend, op.lines))

\* Claude Code has no output file, so that of Codex decides only for Codex, and
\* only if it has a text.
output_file == op.backend = "codex" /\ scratch[op.kind] \notin {"none", "blank"}

\* Without the look for an empty document.
WriteArtifact_blank ==
  /\ op.at = "writing"
  /\ op' = [ended(op, "accepted") EXCEPT
              !.text = IF output_file THEN scratch[op.kind] ELSE answer]
  /\ scratch' = [scratch EXCEPT ![op.kind] = "none"]
  /\ UNCHANGED <<tree, orphans>>

\* The document of the last message, else of the events.
WriteArtifact ==
  /\ op.at = "writing"
  /\ output_file \/ answer # "none"
  /\ op' = [ended(op, "accepted") EXCEPT !.text = IF output_file THEN scratch[op.kind] ELSE answer]
  /\ scratch' = [scratch EXCEPT ![op.kind] = "none"]
  /\ UNCHANGED <<tree, orphans>>

\* "harness produced no output document", a disk that is full, or the server
\* stops after its agent.
GivesUp ==
  /\ op.at \in {"checking", "writing"}
  /\ op' = ended(op, "failed")
  /\ UNCHANGED <<tree, scratch, orphans>>

(***************************************************************************)
(* The agents.                                                             *)
(***************************************************************************)

reader_edits == dirty' = dirty \cup {"reader"} /\
                UNCHANGED <<environment, created, excluded, staged, committed, pushed>>

\* Codex's read-only mode, or the list of allowed tools, did not hold.
ReaderEdits ==
  /\ "tamper" \in environment
  /\ op.at = "reading" /\ "reader" \notin op.edited
  /\ reader_edits
  /\ op' = [op EXCEPT !.edited = @ \cup {"reader"}]
  /\ UNCHANGED <<scratch, orphans>>

\* git mv.
reader_renames == staged' = staged \cup {Moved} /\
                  UNCHANGED <<environment, created, excluded, dirty, committed, pushed>>

ReaderRenames ==
  /\ "rename" \in environment
  /\ op.at = "reading" /\ Moved \notin op.edited
  /\ reader_renames
  /\ op' = [op EXCEPT !.edited = @ \cup {Moved}]
  /\ UNCHANGED <<scratch, orphans>>

OrphanEdits ==
  /\ "tamper" \in environment
  /\ orphans # {}
  /\ reader_edits
  /\ op' = foreign_edit(op)
  /\ UNCHANGED <<scratch, orphans>>

\* The last of its kind, or another.  Its last message may still come, over that of
\* an operation of its kind.
OrphanExits(kind) ==
  /\ kind \in orphans
  /\ orphans' \in {orphans, orphans \ {kind}}
  /\ scratch' \in {scratch} \cup {[scratch EXCEPT ![kind] = m] : m \in {"stale", "blank"}}
  /\ UNCHANGED <<tree, op>>

HarnessInit ==
  /\ op = NoOperation
  /\ scratch = [k \in Kinds |-> "none"]
  /\ orphans = {}

HarnessNext ==
  \/ \E kind \in Kinds, backend \in Backend, output \in Output :
       Launch(kind, backend, output)
  \/ \E n \in 1..MaxOutput : ReadChunk(n)
  \/ EndOfOutput \/ StreamFails \/ Cancelled
  \/ Check \/ WriteArtifact \/ GivesUp
  \/ ReaderEdits \/ ReaderRenames \/ OrphanEdits
  \/ \E kind \in Kinds : OrphanExits(kind)
==============================================================================
