CONSTANTS
  k1 = k1
  k2 = k2
  k3 = k3
  Threads = {t1}
  Data = {d1, d2, d3, d4}
  Keys <- MCKeys
  Size = 2
  Bucket <- MCBucket
  Prefix <- MCPrefix
  NULL = NULL
SYMMETRY DataSymmetry
SPECIFICATION Spec
INVARIANTS ChainsWhole LookupRight
PROPERTIES ImplementsStore
CHECK_DEADLOCK FALSE
