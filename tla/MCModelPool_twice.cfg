CONSTANTS
  None = None
  a1 = a1  a2 = a2  b1 = b1  A = A  B = B  C = C
  Streams = {a1, a2, b1}
  Signatures = {A, B, C}
  SigOf <- ThreeStreams
  MaxLoaded = 1
  Warmable = {C}
  WarmBound = 3
  Stoppable = {a1}
SPECIFICATION Spec
INVARIANT LiveModelIsLoaded
CHECK_DEADLOCK FALSE
