\* Everything that can happen to a stream.
CONSTANTS
  Clients = {c1, c2}
  ReplayLimit = 2
  QueueMaxsize = 2
  MaxLog = 4
  MaxRestarts = 1
SPECIFICATION FairSpec
INVARIANT TypeOK
PROPERTY FeedPromise
PROPERTY StreamEnds
