\* Requests, rejections and commands where all goes well, and everything that may
\* go wrong at once; there the poller and the on-demand requests are detectors
\* enough.
CONSTANTS
  Sessions = {s1, s2}
  Requests = {d1}
  Environments = {
    {"request"}, {"reject"}, {"command"}, {"command", "crash"},
    {"gh", "ingest", "locked", "demand", "force", "shutdown", "crash"}}
SPECIFICATION FairSpec
INVARIANT TypeOK
INVARIANT OneTaskPerSession
INVARIANT MarkIsScheduled
INVARIANT ClaimIsHonest
INVARIANT ClaimFollowsCompletion
PROPERTY MergeIsIngested
