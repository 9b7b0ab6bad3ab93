\* One ingest of one page: it is written, recorded and proposed for while two
\* requests, or one and a command, review it, approve, reject, lint or fail.
CONSTANTS
  Pages = {summary}
  SummaryPage = summary
  Artifacts = 2
  Requests = {d1, d2}
  Options = {{}, {"adopt", "allow_dirty"}}
  Casts = {
    {d1, d2, "proposals"},
    {d1, d2, "owner"},
    {d1, "owner", "proposals"},
    {d1, "owner", "reconcile"},
    {d1, "owner", "stager", "vaults"},
    {d1, "reconcile", "twin"}}
  MaxIngests = 1
  MaxFailures = 1
SPECIFICATION FairSpec
INVARIANT TypeOK
INVARIANT ApprovedWasRun
PROPERTY SettledWasSeen
PROPERTY PendingIsReviewable
PROPERTY AwaitIsAnswered
