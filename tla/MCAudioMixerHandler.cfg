SPECIFICATION Spec
CONSTANTS
  Participants = {a, b, c}
  Nobody = nobody
  Kinds <- MCKinds
  MaxSamples = 2
  VadThreshold = 2
  ParamChoices <- MCParamChoices
  Roles <- MCRoles
  kMaxFramesPerParticipant = 2
  MaxArrivals = 3
  MaxChanges = 4
SYMMETRY Symmetry
INVARIANTS QueueHoldsNewest HearsOthersOfThisRound LoudestAreHeard CallbackTellsState
PROPERTY FramesMoveForward
CHECK_DEADLOCK FALSE
