SPECIFICATION Spec
CONSTANTS
  Threads = {t1, t2}
  Latencies = {1, 2}
  Unmeasured = 9
  MaxFrames = 3
SYMMETRY Symmetry
INVARIANTS ExtremesExact CallsAccounted SnapshotsAdvance
CHECK_DEADLOCK FALSE
