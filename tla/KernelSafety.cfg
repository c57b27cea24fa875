SPECIFICATION Spec
CONSTANTS
  Cores = {c1, c2}
  c1 = c1
  c2 = c2
  NumProcs = 2
  MaxSlices = 1
  MaxPrints = 1
SYMMETRY CoreSymmetry
INVARIANT TypeOK
INVARIANT SoleOwner
INVARIANT ShutdownSound
INVARIANT NothingLost
INVARIANT KernelInv
PROPERTY RevivedByAnswerOnly
PROPERTY ImplementsSimulator
