\* Every hazard the properties outlive: all but an unreachable docker.  All runs end, so the system stops.
CONSTANTS
  Runs = {r1}
  Ceiling = 2
  MaxLog = 2
  MaxRestarts = 2
  Environment = {"kill", "gone", "raise", "locked", "survives", "stubborn", "slow"}
SPECIFICATION FairSpec
INVARIANT TypeOK
INVARIANT OneWatcher
INVARIANT CompletedIsRead
INVARIANT LimitIsEnforced
PROPERTY OutcomeIsFinal
PROPERTY RunEnds
CHECK_DEADLOCK FALSE
