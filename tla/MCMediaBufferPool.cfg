SPECIFICATION FairSpec
CONSTANTS
  Buffers = {b1, b2}
  Threads = {t1, t2, t3}
INVARIANTS BufferHasOneOwner NoBufferLost PoolAliveWhenUsed
PROPERTY PoolRecovers
CHECK_DEADLOCK FALSE
