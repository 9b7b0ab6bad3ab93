\* Violated: see the finding on NoSilentSkip.
CONSTANTS
  Sessions = {s1, s2}
  Requests = {d1}
  Environments = {{"request", "shutdown"}}
SPECIFICATION Spec
INVARIANT NoSilentSkip
