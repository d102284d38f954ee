CONSTANTS
  Threads = {t1, t2, t3}
  Data = {d1, d2, d3, d4}
  MaxSize = 2
  NULL = NULL
SYMMETRY DataSymmetry
SPECIFICATION FairSpec
INVARIANTS TypeOK ListShape WithinCapacity NoLostItem NoLostPlace
PROPERTIES ImplementsFifo WaitersServed ShutdownReturns
