SPECIFICATION FairSpec
CONSTANTS
  MaxLsps = 2
  MaxSaves = 2
  Names = {"clangd", "gopls"}
  Editors = {1, 2}
  Language <- OneOfEach
INVARIANTS TypeOK NoFreedLsp UpToDate
PROPERTY QuitEnds
CHECK_DEADLOCK FALSE
