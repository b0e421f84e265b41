SPECIFICATION Spec
CONSTANTS
  t1 = t1
  t2 = t2
  m1 = m1
  m2 = m2
  m3 = m3
  m4 = m4
  poolA = poolA
  poolB = poolB
  ring = ring
  Threads <- TwoThreads
  Mbufs <- FourMbufs
  Pools <- TwoPools
  Rings <- OneRing
  Home <- HomeOf
  Local <- LocalOf
  Slots = 2
  BurstMax = 2
  MaxBatch = 2
  U16 = 3
  TxDescs = 1
CHECK_DEADLOCK FALSE
INVARIANT PoolsKeepTheirOwn
