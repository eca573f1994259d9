SPECIFICATION MergeSpec
CONSTANTS
  MaxLocal = 3
  MaxRemote = 3
  MaxVersion = 3
  MaxClock = 3
  MaxFailures = 0
  Slack = 0
  ServerOffset = 0
  Drift = {0}
  Quiet = TRUE
INVARIANTS NothingMissed EveryTaskIndexed
PROPERTIES ServerWinsOnConflict Merges
