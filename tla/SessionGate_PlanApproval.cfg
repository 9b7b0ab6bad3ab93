\* Violated: see the finding on ImplementsApprovedPlan.
CONSTANTS
  Requests = {r1, r2}
  RowPhases = {}
SPECIFICATION SessionSpec
SYMMETRY RequestSymmetry
INVARIANT ImplementsApprovedPlan
