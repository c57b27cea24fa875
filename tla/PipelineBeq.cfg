SPECIFICATION Spec
CONSTANTS
  Width = 2
  Regs <- MCRegs
  Vars <- MCVars
  LastSlot = 12
  Programs <- BeqProgram
  Quanta = {10}
  MaxCalls = 4
  MaxDrain = 10
INVARIANT NoCrash
