SPECIFICATION Spec
CONSTANTS
  Users = {a, b}
  UseInserted = FALSE
  StageFormats <- OneConversion
  Unset = Unset
  Gone = Gone
  MaxEdges = 2
  MaxStages = 4
INVARIANT EntryIsSource
CHECK_DEADLOCK FALSE
