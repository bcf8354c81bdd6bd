\* A play that dies after it placed the resolver's drop-in, and the play after it.
INIT ResolverInit
NEXT ResolverNext
CHECK_DEADLOCK FALSE

CONSTANTS
  None = None
  Odd = Odd
  MaxFaults = 2
  Prone = {}
  Text = {1, 2}

INVARIANT ResolverRunsRecorded
