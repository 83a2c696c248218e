CONSTANTS
  None = None
  Error = Error
  a = a  b = b  c = c  f = f  g = g
  Streams = {a, b, c}
  Frames = {f, g}
  MaxSize = 2
  Overrunning = {a, b}
SPECIFICATION FairSpec
CHECK_DEADLOCK FALSE
INVARIANTS NobodyStranded
PROPERTIES ImplementsPredictions CallsReturn
