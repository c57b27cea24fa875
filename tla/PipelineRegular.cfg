SPECIFICATION Spec
CONSTANTS
  Width = 2
  Regs <- MCRegs
  Vars <- MCVars
  LastSlot = 8
  Programs <- RegularPrograms
  Quanta = {1, 3, 6}
  MaxCalls = 4
  MaxDrain = 10
INVARIANT TypeOK
INVARIANT Precise
INVARIANT PrintsInOrder
INVARIANT CallInv
INVARIANT InStep
INVARIANT DrainBounded
INVARIANT Progress
INVARIANT NoCrash
