SPECIFICATION Spec
CONSTANTS
  MaxLocal = 3
  MaxRemote = 3
  Tasks = {t1}
  Words = {home, work}
  MaxEdits = 2
  MaxCuts = 0
INVARIANT TagsFound
