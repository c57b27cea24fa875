SPECIFICATION Spec
CONSTANTS
  Cores = {c1, c2}
  c1 = c1
  c2 = c2
  NumProcs = 1
  MaxSlices = 1
  MaxPrints = 3
SYMMETRY CoreSymmetry
INVARIANT RequestInv
INVARIANT OutputInOrder
