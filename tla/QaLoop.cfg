\* Two rounds at most; every kind of request against every other.
CONSTANTS
  Requests = {r1, r2}
  MaxRounds = 2
  MaxRestarts = 1
  MaxRejections = 1
  MaxFailures = 1
SPECIFICATION FairSpec
INVARIANT TypeOK
INVARIANT RoundsIssuedOnce
PROPERTY TranscriptIsKept
PROPERTY LoopEnds
\* The session is past the phase and nobody sends it back: the loop is over.
CHECK_DEADLOCK FALSE
