SPECIFICATION FairSpec
CONSTANTS
  MaxLocal = 3
  MaxRemote = 3
  MaxVersion = 2
  MaxClock = 3
  MaxFailures = 1
  Slack = 1
  ServerOffset = 0
  Drift <- SameClock
  Quiet = TRUE
INVARIANT TypeOK
PROPERTY SettlesInStep
