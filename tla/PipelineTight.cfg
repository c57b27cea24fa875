SPECIFICATION FairSpec
CONSTANTS
  Width = 2
  Regs <- MCRegs
  Vars <- MCVars
  LastSlot = 12
  Programs <- TightLoop
  Quanta = {10}
  MaxCalls = 4
  MaxDrain = 10
PROPERTY QuantumEndsCall
