SPECIFICATION Spec
CONSTANTS
  Users = {a, b, c}
  UseInserted = FALSE
  StageFormats <- TwoConversions
  Unset = Unset
  Gone = Gone
  MaxEdges = 2
  MaxStages = 4
SYMMETRY Symmetry
INVARIANTS EdgesAgree WiringMatchesEdges StartNeverRefused
PROPERTY ImplementsStageDag
CHECK_DEADLOCK FALSE
