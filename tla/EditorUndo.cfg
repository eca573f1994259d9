SPECIFICATION Spec
CONSTANTS
  Letters = {"a", "b", "c"}
  Typed = {"a"}
  Return = "return"
  Notes <- SomeNotes
  Outcomes = {TRUE, FALSE}
  MaxRepeat = 2
  MaxTyped = 2
  MaxChanges = 2
INVARIANTS TypeOK UndoGoesBack InBounds
PROPERTY DirtyIsSet
VIEW Seen
CONSTRAINT StillPlain
CHECK_DEADLOCK FALSE
