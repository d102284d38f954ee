CONSTANTS
  Messages <- MCMessages
  PointerSize = 2
  MAX_BYTES = 2
  WireSize = 3
  MaxErrors = 1
SPECIFICATION FairSpec
INVARIANTS StreamIntact WithinBuffer ResultsTell
PROPERTIES HangupNoticed
CHECK_DEADLOCK FALSE
