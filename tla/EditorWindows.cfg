SPECIFICATION Spec
CONSTANTS
  MaxTasks = 2
  MaxWindows = 4
  MaxLinks = 1
  MaxTexts = 1
  MaxFaults = 1
INVARIANTS
  TypeOK
  PointersOpen
  OpenOnce
  CleanIsStored
PROPERTY
  OthersStay
CHECK_DEADLOCK FALSE
