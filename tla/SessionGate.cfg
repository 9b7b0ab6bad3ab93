\* Two concurrent requests, the rows of the implement phase's diff.patch counted.
CONSTANTS
  Requests = {r1, r2}
  RowPhases = {"implement"}
SPECIFICATION SessionSpec
SYMMETRY RequestSymmetry
INVARIANT TypeOK
INVARIANT PhaseIsEarned
INVARIANT PullRequestIsEarned
INVARIANT ApprovalHasArtifact
INVARIANT RequestsAreJustified
PROPERTY CompletionIsJustified
PROPERTY GatePromise
