\* Violated: see the finding on CompletedMeansSuccess.
CONSTANTS
  Runs = {r1}
  Ceiling = 2
  MaxLog = 2
  MaxRestarts = 0
  Environment = {"kill"}
SPECIFICATION Spec
INVARIANT CompletedMeansSuccess
CHECK_DEADLOCK FALSE
