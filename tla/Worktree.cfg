\* The stream of an operation alone; open-pr with each safeguard missing in
\* turn; an operation among the edits of others.
CONSTANTS
  Kinds = {"plan", "review"}
  MaxLineBytes = 1
  MaxOutput = 5
  Byte = {"piece", "answer", "error", "newline"}
  Environments = {
    {"operation", "chatty"},
    {"operation", "exclude"},
    {"implement", "fix", "request", "exclude", "lock"},
    {"implement", "fix", "request", "stage", "lock"},
    {"implement", "operation", "request", "stage"},
    {"implement", "operation", "tamper", "status", "silent"},
    {"implement", "fix", "request"},
    {"operation", "tamper", "rename"},
    {"operation", "request", "tamper"}}
SPECIFICATION Spec
INVARIANT TypeOK
INVARIANT LinesAreWhole
INVARIANT VerdictIsRight
INVARIANT ScratchStaysLocal
INVARIANT WorkIsShipped
