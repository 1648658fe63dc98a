SPECIFICATION Spec
CONSTANTS
  Ids = {1, 2}
  Values = {a, b}
  Drafts = {b}
  NoValue = NoValue
  Slots = {1, 2}
  MergeAll = "PreserveChanges"
  NoContent = FALSE
  LostAnswers = FALSE
  Overlap = FALSE
  LoadsAndSaves = FALSE
INVARIANTS UndoRestoresLastKnown
