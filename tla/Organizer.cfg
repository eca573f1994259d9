SPECIFICATION Spec
CONSTANTS
  MaxTasks = 2
  MaxBirths = 2
  Stored = 1
  KeywordRows = 1
  MaxSaved = 1
  MaxEdits = 2
  MaxFaults = 1
INVARIANTS
  TypeOK
  CursorInList
  TitlesKept
  RowsAreTasks
PROPERTIES
  EmptyIsSaid
CHECK_DEADLOCK FALSE
