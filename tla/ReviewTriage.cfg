\* Two findings, of which one comes and goes with the reviews; two requests, two
\* follow-up runs; any number of reviews and of writes cut short.
CONSTANTS
  Findings = {f1, f2}
  Requests = {d1, d2}
  Reports = {{f1}, {f1, f2}}
  MaxRuns = 2
SPECIFICATION FairSpec
INVARIANT TypeOK
INVARIANT TriageMatchesRuns
PROPERTY ReopenIsJustified
PROPERTY FindingIsSettled
