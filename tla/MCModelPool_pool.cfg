CONSTANTS
  None = None
  a1 = a1  a2 = a2  b1 = b1  A = A  B = B  C = C
  Streams = {a1, a2, b1}
  Signatures = {A, B, C}
  SigOf <- ThreeStreams
  MaxLoaded = 1
  Warmable = {C}
  WarmBound = 3
  Stoppable = {b1}
SPECIFICATION Spec
SYMMETRY Permuted
CHECK_DEADLOCK FALSE
INVARIANTS CountIsHolders HeldStaysLoaded SharersShare OnlyPooledIsLoaded
