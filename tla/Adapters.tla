------------------------------- MODULE Adapters -------------------------------
(***************************************************************************)
(* What the server makes of a line of a harness CLI: an event, of a type   *)
(* and with a text or without, or nothing; and the document of a list of   *)
(* events.  Sources: harness/claude_code.py, harness/codex.py.             *)
(***************************************************************************)
EXTENDS Naturals, SequencesExt

Backend == {"claude_code", "codex"}

\* The objects on a line that decide about the document, as either CLI says it.
Payload == {
  "piece",   \* a delta of the text, the start or an update of an item
  "answer",  \* the result, a completed agent message
  "error"}   \* a result that is an error, a turn that failed

event(type, text) == [type |-> type, text |-> text]

Nothing == event("none", FALSE)

\* Any other line, also one that is empty or no JSON, is nothing.
ClaudeCode_parse_line(line) ==
  CASE line = <<"piece">> -> event("text_delta", TRUE)
    [] line = <<"answer">> -> event("result", TRUE)
    [] line = <<"error">> -> event("error", TRUE)
    [] OTHER -> Nothing

Codex_parse_line(line) ==
  CASE line = <<"piece">> -> event("agent_message", FALSE)
    [] line = <<"answer">> -> event("agent_message", TRUE)
    [] line = <<"error">> -> event("error", TRUE)
    [] OTHER -> Nothing

parse_line(backend, line) ==
  IF backend = "codex" THEN Codex_parse_line(line) ELSE ClaudeCode_parse_line(line)

collect(backend, lines) ==
  SelectSeq([i \in DOMAIN lines |-> parse_line(backend, lines[i])], LAMBDA e : e # Nothing)

\* Where the document is found: in the "answer", else joined from the "pieces".
ClaudeCode_final_text(events) ==
  IF Contains(events, event("result", TRUE)) THEN "answer"
  ELSE IF Contains(events, event("text_delta", TRUE)) THEN "pieces" ELSE "none"

Codex_final_text(events) ==
  IF Contains(events, event("agent_message", TRUE)) THEN "answer" ELSE "none"

final_text(backend, events) ==
  IF backend = "codex" THEN Codex_final_text(events) ELSE ClaudeCode_final_text(events)
==============================================================================
