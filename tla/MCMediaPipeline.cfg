\* Two media threads and the control thread; only the pipeline's own loops are fair.
SPECIFICATION ControlFairSpec
CONSTANTS
  Callers = {c1, c2}
  CounterMod = 4
  MaxPolls = 1
  MaxSwaps = 1
INVARIANTS
  InFlightExact
  StageAliveWhileServing
PROPERTIES
  QuietWhenCounterReadsZero
  ImplementsContract
  ControlReturns
  LeavingRunningQuiesces
