\* A feed whose columns were reordered.
INIT ReputationInit
NEXT ReputationNext
CHECK_DEADLOCK FALSE

CONSTANTS
  None = None
  Odd = Odd
  MaxFaults = 1
  Prone = {}
  Ticks = 3
  Links = {1, 2}

INVARIANT ReorderIsNoQuietDay
