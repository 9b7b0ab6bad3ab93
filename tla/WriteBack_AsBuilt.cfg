\* Violated: see the finding on SpecificationIsIngested.
CONSTANTS
  Sessions = {s1}
  Requests = {}
  Environments = {{"gh"}}
SPECIFICATION FairSpec
PROPERTY SpecificationIsIngested
