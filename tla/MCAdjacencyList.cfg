CONSTANTS
  Data = {d1, d2, d3}
  Nodes = {n1, n2, n3}
  Edges = {e1, e2, e3}
  MAX_STACK_SIZE = 1
  NULL = NULL
SYMMETRY Symmetric
VIEW View
SPECIFICATION Spec
INVARIANTS  TraversalsReach
PROPERTIES WholeOutsideGaps RemovesWhatItShould
CHECK_DEADLOCK FALSE
