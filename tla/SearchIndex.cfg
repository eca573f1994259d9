SPECIFICATION Spec
CONSTANTS
  MaxTasks = 2
  MaxBirths = 3
  Words = {w1}
  MaxEdits = 3
  MaxFaults = 1
INVARIANTS
  TypeOK
  FindsTasks
  FoundHasText
CHECK_DEADLOCK FALSE
