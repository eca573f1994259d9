SPECIFICATION Spec
CONSTANTS
  MaxLocal = 4
  MaxRemote = 5
  Tasks = {t1, t2}
  Words = {home, work}
  MaxEdits = 3
  MaxCuts = 1
INVARIANTS TypeOK KeywordsInStep TagsInStep
PROPERTY RefusalHasCause
SYMMETRY Alike
