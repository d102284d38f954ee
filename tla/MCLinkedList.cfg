CONSTANTS
  a = a
  b = b
  c = c
  d = d
  Data <- MCData
  Key <- MCKey
  NULL = NULL
  MaxSize = 5
SPECIFICATION Spec
INVARIANTS ChainWhole ChainEnds
PROPERTIES FaultsConfined ImplementsList
VIEW MCView
CHECK_DEADLOCK FALSE
