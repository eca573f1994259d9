SPECIFICATION Spec
CONSTANTS
  MaxLocal = 6
  MaxRemote = 6
  Tasks = {t1}
  Titles = {none, work, play}
  NoTitle = none
  Kinds = {"context", "folder"}
  MaxEdits = 3
  MaxCuts = 1
INVARIANTS TypeOK ContainersInStep TasksInStep TidsDiffer MapKnowsContexts PlacesKnown
SYMMETRY OtherTitles
