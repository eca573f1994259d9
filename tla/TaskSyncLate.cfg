SPECIFICATION LateSpec
CONSTANTS
  MaxLocal = 3
  MaxRemote = 3
  MaxVersion = 2
  MaxClock = 2
  MaxFailures = 1
  Slack = 0
  ServerOffset = 0
  Drift = {0}
  Quiet = FALSE
CONSTRAINT LateBound
VIEW WithoutIndex
INVARIANTS TidsMatch OneOrigin MissedOnlyLate
